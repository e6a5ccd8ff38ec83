--------------------------- MODULE NodePoolProofs ---------------------------
(***************************************************************************)
(* Theorems about NodePool, for any number of nodes and requests: the      *)
(* requests of one engine and the loops that keep its table may do to each *)
(* other only what the modules Routing and Health allow for, so that what  *)
(* is proved of either holds of the whole.                                 *)
(***************************************************************************)
EXTENDS NodePool, RoutingProofs

-----------------------------------------------------------------------------
(* A node a request has picked is in the table until the request is done   *)
(* with it: it was selectable, and nodes never leave the table.            *)
PickedPresent ==
    \A r \in Request : pc[r] \in {"dial", "handshake", "remove"} => status[sel[r]] # "ABSENT"

(* So is a node that is being probed: the health loop copies the table, and *)
(* its verdict does not bring back what was never there.                   *)
ProbedPresent ==
    \A n \in NodeId \ {Me} : probe[n] # "idle" => status[n] # "ABSENT"

ProbeTyped ==
    /\ probe \in [NodeId \ {Me} -> {"idle", "api", "tcp", "alive", "dead"}]
    /\ status[Me] # "ABSENT"

PoolInv == TypeInv /\ PickedPresent /\ ProbedPresent /\ ProbeTyped

LEMMA PoolInitInv == PoolInit => PoolInv
<1> SUFFICES ASSUME PoolInit PROVE PoolInv
  OBVIOUS
<1>1. TypeInv /\ PickedPresent
  BY TypeInit DEF PoolInit, Init, PickedPresent
<1>2. ProbedPresent /\ ProbeTyped
  BY RoutingAssumption DEF PoolInit, H!Init, H!Remote, ProbedPresent, ProbeTyped
<1> QED
  BY <1>1, <1>2 DEF PoolInv

-----------------------------------------------------------------------------
(* What the loops, the announcements and the world do is what Routing lets *)
(* its environment do.                                                     *)

(* Who leaves the table alone leaves the history alone.                    *)
LEMMA UnseenStep ==
    ASSUME Aside, Observe({}), status' = status
    PROVE  UNCHANGED vars
<1>1. Selectable(status') = Pool
  BY DEF Pool
<1> QED
  BY <1>1 DEF Aside, Observe, vars, tableVars

LEMMA LoopStepIsRoutingStep ==
    ASSUME PoolInv,
           \/ \E n \in NodeId \ {Me} : Announced(n) \/ Verdict(n) \/ Probe(n)
           \/ OwnProbe \/ Tick \/ Outside
    PROVE  [Next]_vars
<1>1. ASSUME NEW n \in NodeId \ {Me}, Announced(n)
      PROVE  UpdateNode(n)
  BY <1>1 DEF Announced, Aside, H!Deliver, H!AddExplicit, H!SetStatus, UpdateNode, SetStatus
<1>2. ASSUME NEW n \in NodeId \ {Me}, Verdict(n)
      PROVE  \E s \in {"ONLINE", "OFFLINE"} : HealthVerdict(n, s)
  <2>1. status[n] # "ABSENT"
    BY <1>2 DEF Verdict, H!ApplyVerdict, PoolInv, ProbedPresent
  <2> QED
    BY <1>2, <2>1 DEF Verdict, Aside, H!ApplyVerdict, H!SetStatus, HealthVerdict, SetStatus
<1>3. CASE OwnProbe /\ H!ApplyProbe
  <2>1. \E s \in {"ONLINE", "NO_INTERNET"} : ProbeVerdict(s)
    BY <1>3 DEF OwnProbe, Aside, H!ApplyProbe, H!SetStatus, ProbeVerdict, SetStatus
  <2> QED
    BY <2>1 DEF Next, TableNext
<1>4. CASE \/ OwnProbe /\ (H!ProbeInternet \/ H!ApplyAdvertise)
           \/ Tick
           \/ Outside
           \/ \E n \in NodeId \ {Me} : Probe(n)
  <2>1. Aside /\ Observe({}) /\ status' = status
    BY <1>4 DEF OwnProbe, Tick, Outside, Probe, H!ProbeInternet, H!ApplyAdvertise, H!HealthTick,
                H!WorldNext, H!Flip, H!Announce, H!Lose, H!SetDiscovery, H!ProbeApi, H!ProbeTcp
  <2> QED
    BY <2>1, UnseenStep
<1> QED
  BY <1>1, <1>2, <1>3, <1>4 DEF OwnProbe, H!ProbeStep, Next, TableNext

(* Every step of the whole is a request's step, a table write Routing      *)
(* allows its environment, or leaves Routing's variables alone.            *)
LEMMA PoolStepIsRoutingStep == PoolInv /\ [PoolNext]_allVars => [Next]_vars
<1> SUFFICES ASSUME PoolInv, [PoolNext]_allVars PROVE [Next]_vars
  OBVIOUS
<1>1. ASSUME NEW r \in Request, RequestStep(r) \/ Dial(r)
      PROVE  [Next]_vars
  BY <1>1 DEF RequestStep, Dial, Next, RequestNext
<1>2. CASE UNCHANGED allVars
  BY <1>2 DEF allVars
<1> QED
  BY <1>1, <1>2, LoopStepIsRoutingStep DEF PoolNext

LEMMA PickedStays == PoolInv /\ [Next]_vars => PickedPresent'
<1> SUFFICES ASSUME PoolInv, [Next]_vars, NEW r \in Request,
                    pc'[r] \in {"dial", "handshake", "remove"}
             PROVE  status'[sel'[r]] # "ABSENT"
  BY DEF PickedPresent
<1> USE DEF PoolInv, TypeInv, TypeOK
(* No step takes a node out of the table.                                  *)
<1>1. ASSUME NEW n \in NodeId, NEW s \in Statuses, NEW by, SetStatus(n, s, by), s # "ABSENT",
             NEW m \in NodeId, status[m] # "ABSENT"
      PROVE  status'[m] # "ABSENT"
  BY <1>1 DEF SetStatus
<1>2. CASE TableNext
  <2>1. PICK n \in NodeId, s \in Statuses \ {"ABSENT"} : SetStatus(n, s, {})
    BY <1>2, RoutingAssumption DEF TableNext, UpdateNode, HealthVerdict, ProbeVerdict, Statuses
  <2>2. pc' = pc /\ sel' = sel
    BY <1>2 DEF TableNext, UpdateNode, HealthVerdict, ProbeVerdict, requestVars
  <2> QED
    BY <1>1, <2>1, <2>2 DEF PickedPresent
<1>3. ASSUME NEW q \in Request, Select(q)
      PROVE  status'[sel'[r]] # "ABSENT"
  <2>1. PICK n \in NodeId : n \in Pool /\ sel' = [sel EXCEPT ![q] = n]
    BY <1>3 DEF Select, Chosen
  <2>2. status' = status /\ pc' = [pc EXCEPT ![q] = "dial"] /\ status[n] # "ABSENT"
    BY <1>3, <2>1 DEF Select, Pool, Selectable
  <2> QED
    BY <2>1, <2>2 DEF PickedPresent
<1>4. ASSUME NEW q \in Request, RemoveNode(q)
      PROVE  status'[sel'[r]] # "ABSENT"
  <2>1. SetStatus(sel[q], "OFFLINE", {q}) /\ "OFFLINE" \in Statuses /\ sel' = sel
    BY <1>4 DEF RemoveNode, Statuses
  <2>2. pc[r] \in {"dial", "handshake", "remove"}
    BY <1>4 DEF RemoveNode, NextAttempt
  <2> QED
    BY <1>1, <2>1, <2>2 DEF PickedPresent
<1>5. ASSUME NEW q \in Request,
             Arrive(q) \/ SelectNone(q) \/ DialAccepted(q) \/ DialRefused(q)
                \/ HandshakeAcked(q) \/ HandshakeFailed(q)
      PROVE  status'[sel'[r]] # "ABSENT"
  <2>1. status' = status /\ sel' = sel
    BY <1>5 DEF Arrive, SelectNone, DialAccepted, DialRefused, HandshakeAcked,
                HandshakeFailed, tableVars
  <2>2. pc[r] \in {"dial", "handshake", "remove"}
    BY <1>5 DEF Arrive, SelectNone, DialAccepted, DialRefused, HandshakeAcked,
                HandshakeFailed, NextAttempt
  <2> QED
    BY <2>1, <2>2 DEF PickedPresent
<1>6. CASE UNCHANGED vars
  BY <1>6 DEF vars, tableVars, requestVars, PickedPresent
<1> QED
  BY <1>2, <1>3, <1>4, <1>5, <1>6 DEF Next, RequestNext

(* Probes start from the table as it is, and no step empties it.           *)
LEMMA ProbedStays == PoolInv /\ [PoolNext]_allVars => ProbedPresent' /\ ProbeTyped'
<1> SUFFICES ASSUME PoolInv, [PoolNext]_allVars PROVE ProbedPresent' /\ ProbeTyped'
  OBVIOUS
<1>0. /\ status \in [NodeId -> Statuses] /\ Me \in NodeId
      /\ sel \in [Request -> NodeId]
      /\ ProbedPresent /\ ProbeTyped
  BY RoutingAssumption DEF PoolInv, TypeInv, TypeOK
<1>1. ASSUME probe' = probe, \A m \in NodeId : status[m] # "ABSENT" => status'[m] # "ABSENT"
      PROVE  ProbedPresent' /\ ProbeTyped'
  BY <1>0, <1>1 DEF ProbedPresent, ProbeTyped
<1>2. ASSUME NEW n \in NodeId, NEW s \in Statuses \ {"ABSENT"},
             status' = [status EXCEPT ![n] = s], NEW m \in NodeId, status[m] # "ABSENT"
      PROVE  status'[m] # "ABSENT"
  BY <1>0, <1>2
<1>3. ASSUME NEW n \in NodeId \ {Me}, Announced(n)
      PROVE  ProbedPresent' /\ ProbeTyped'
  <2>1. probe' = probe /\ status' = [status EXCEPT ![n] = "ONLINE"] /\ "ONLINE" \in Statuses
    BY <1>3 DEF Announced, H!Deliver, H!AddExplicit, H!SetStatus, Statuses
  <2> QED
    BY <1>1, <1>2, <2>1
<1>4. ASSUME NEW n \in NodeId \ {Me}, Verdict(n)
      PROVE  ProbedPresent' /\ ProbeTyped'
  <2>1. /\ probe' = [probe EXCEPT ![n] = "idle"]
        /\ \E s \in {"ONLINE", "OFFLINE"} : status' = [status EXCEPT ![n] = s]
    BY <1>4 DEF Verdict, H!ApplyVerdict, H!SetStatus
  <2> QED
    BY <1>0, <1>2, <2>1 DEF ProbedPresent, ProbeTyped, Statuses
<1>5. ASSUME NEW n \in NodeId \ {Me}, Probe(n)
      PROVE  ProbedPresent' /\ ProbeTyped'
  <2>1. /\ probe[n] # "idle" /\ status' = status
        /\ \E x \in {"alive", "tcp", "dead"} : probe' = [probe EXCEPT ![n] = x]
    BY <1>5 DEF Probe, H!ProbeApi, H!ProbeTcp
  <2> QED
    BY <1>0, <2>1 DEF ProbedPresent, ProbeTyped
<1>6. CASE Tick
  <2>1. status' = status
        /\ probe' = [n \in NodeId \ {Me} |-> IF n \notin H!Targets THEN "idle"
                                             ELSE IF n \in HasApi THEN "api" ELSE "tcp"]
    BY <1>6 DEF Tick, H!HealthTick, H!Remote
  <2>2. \A n \in H!Targets : status[n] # "ABSENT"
    BY DEF H!Targets
  <2> QED
    BY <1>0, <2>1, <2>2 DEF ProbedPresent, ProbeTyped
<1>7. CASE OwnProbe \/ Outside
  <2>1. probe' = probe
    BY <1>7 DEF OwnProbe, H!ProbeStep, H!ProbeInternet, H!ApplyProbe, H!ApplyAdvertise, Outside,
                H!WorldNext, H!Flip, H!Announce, H!Lose, H!SetDiscovery
  <2>2. \/ status' = status
        \/ \E s \in {"ONLINE", "NO_INTERNET"} : status' = [status EXCEPT ![Me] = s]
    BY <1>7 DEF OwnProbe, H!ProbeStep, H!ProbeInternet, H!ApplyProbe, H!ApplyAdvertise, Outside,
                H!WorldNext, H!Flip, H!Announce, H!Lose, H!SetDiscovery, H!SetStatus
  <2> QED
    BY <1>0, <1>1, <1>2, <2>1, <2>2 DEF Statuses
<1>8. ASSUME NEW r \in Request, RequestStep(r) \/ Dial(r)
      PROVE  ProbedPresent' /\ ProbeTyped'
  <2>1. probe' = probe
    BY <1>8 DEF RequestStep, Dial, healthVars
  <2>2. \/ status' = status
        \/ status' = [status EXCEPT ![sel[r]] = "OFFLINE"]
    BY <1>8 DEF RequestStep, Dial, Arrive, Select, SelectNone, RemoveNode, SetStatus, DialAccepted,
                DialRefused, HandshakeAcked, HandshakeFailed, tableVars
  <2> QED
    BY <1>0, <1>1, <1>2, <2>1, <2>2 DEF Statuses
<1>9. CASE UNCHANGED allVars
  BY <1>1, <1>9 DEF allVars, vars, tableVars, healthVars
<1> QED
  BY <1>3, <1>4, <1>5, <1>6, <1>7, <1>8, <1>9 DEF PoolNext

LEMMA PoolNextInv == PoolInv /\ [PoolNext]_allVars => PoolInv'
BY PoolStepIsRoutingStep, PickedStays, ProbedStays, TypeStep DEF PoolInv

-----------------------------------------------------------------------------
(* What a request does, as Health sees it.                                 *)

(* Up to its dial and after an accepted one a request is none of those     *)
(* about to remove a node.                                                 *)
LEMMA OtherStepsKeepRefused ==
    ASSUME PoolInv, NEW r \in Request,
           \/ Arrive(r) \/ Select(r) \/ SelectNone(r) \/ DialAccepted(r)
           \/ HandshakeAcked(r) \/ HandshakeFailed(r)
    PROVE  status' = status /\ Refused' = Refused
<1>1. status' = status
  BY DEF Arrive, Select, SelectNone, DialAccepted, HandshakeAcked, HandshakeFailed, tableVars
<1>2. \A q \in Request : pc'[q] = "remove" <=> pc[q] = "remove"
  BY DEF Arrive, Select, SelectNone, DialAccepted, HandshakeAcked, HandshakeFailed,
         NextAttempt, PoolInv, TypeInv, TypeOK
<1>3. \A q \in Request : pc[q] = "remove" => sel'[q] = sel[q]
  BY DEF Arrive, Select, SelectNone, DialAccepted, HandshakeAcked, HandshakeFailed,
         PoolInv, TypeInv, TypeOK
<1> QED
  BY <1>1, <1>2, <1>3 DEF Refused

(* A refused dial puts its node among those about to be removed.           *)
LEMMA RefusedDialIsHealthStep ==
    ASSUME PoolInv, NEW r \in Request, DialRefused(r), sel[r] \notin listening,
           UNCHANGED healthVars
    PROVE  H!DialRefused(sel[r])
<1>1. /\ pc[r] = "dial" /\ pc' = [pc EXCEPT ![r] = "remove"]
      /\ sel' = sel /\ status' = status
  BY DEF DialRefused, tableVars
<1>2. status[sel[r]] # "ABSENT"
  BY <1>1 DEF PoolInv, PickedPresent
<1>3. Refused' = Refused \cup {sel[r]}
  BY <1>1 DEF Refused, PoolInv, TypeInv, TypeOK
<1> QED
  BY <1>1, <1>2, <1>3 DEF H!DialRefused, H!worldVars, healthVars

(* RemoveNode marks a node refused; another request may be about to.       *)
LEMMA RemovalIsHealthStep ==
    ASSUME PoolInv, NEW r \in Request, RemoveNode(r), UNCHANGED healthVars
    PROVE  H!RemoveNode(sel[r])
<1>1. /\ pc[r] = "remove" /\ pc' = [pc EXCEPT ![r] = NextAttempt(r)]
      /\ sel' = sel /\ status' = [status EXCEPT ![sel[r]] = "OFFLINE"]
  BY DEF RemoveNode, SetStatus
<1>2. sel[r] \in Refused
  BY <1>1 DEF Refused
<1>3. Refused' = {sel[q] : q \in {p \in Request \ {r} : pc[p] = "remove"}}
  BY <1>1 DEF Refused, NextAttempt, PoolInv, TypeInv, TypeOK
<1>4. Refused' \in {Refused, Refused \ {sel[r]}}
  BY <1>1, <1>3 DEF Refused
<1> QED
  BY <1>1, <1>2, <1>4 DEF H!RemoveNode, H!SetStatus, H!worldVars, healthVars

(* Every step of the whole is a step of Health or leaves its variables     *)
(* alone.                                                                  *)
LEMMA PoolStepIsHealthStep == PoolInv /\ [PoolNext]_allVars => [H!Next]_(H!vars)
<1> SUFFICES ASSUME PoolInv, [PoolNext]_allVars PROVE [H!Next]_(H!vars)
  OBVIOUS
<1>1. ASSUME NEW n \in NodeId \ {Me}, Announced(n) \/ Verdict(n) \/ Probe(n)
      PROVE  H!Next
  BY <1>1 DEF Announced, Verdict, Probe, H!Next, H!HealthStep, H!Remote
<1>2. CASE OwnProbe
  BY <1>2 DEF OwnProbe, H!Next
<1>3. CASE Tick \/ Outside
  BY <1>3 DEF Tick, Outside, H!Next
<1>4. ASSUME NEW r \in Request, RequestStep(r) \/ Dial(r)
      PROVE  [H!Next]_(H!vars)
  <2>1. UNCHANGED healthVars /\ sel[r] \in NodeId
    BY <1>4 DEF RequestStep, Dial, PoolInv, TypeInv, TypeOK
  <2>2. CASE RemoveNode(r)
    BY <2>1, <2>2, RemovalIsHealthStep DEF H!Next
  <2>3. CASE DialRefused(r) /\ sel[r] \notin listening
    BY <2>1, <2>3, RefusedDialIsHealthStep DEF H!Next
  <2>4. CASE \/ Arrive(r) \/ Select(r) \/ SelectNone(r) \/ DialAccepted(r)
             \/ HandshakeAcked(r) \/ HandshakeFailed(r)
    BY <2>1, <2>4, OtherStepsKeepRefused DEF H!vars, H!worldVars, healthVars
  <2> QED
    BY <1>4, <2>2, <2>3, <2>4 DEF RequestStep, Dial
<1>5. CASE UNCHANGED allVars
  BY <1>5 DEF allVars, vars, tableVars, requestVars, healthVars, H!vars, H!worldVars, Refused
<1> QED
  BY <1>1, <1>2, <1>3, <1>4, <1>5 DEF PoolNext

-----------------------------------------------------------------------------
(* What the loops and the announcements write into the table, from copies  *)
(* of it and answers that may be late, is never more than Routing lets its *)
(* environment do: the requests behave as Routing says.                    *)
THEOREM PoolIsRouting == PoolSpec => RoutingHolds
<1>1. PoolInit => Init
  BY DEF PoolInit
<1> QED
  BY <1>1, PoolInitInv, PoolNextInv, PoolStepIsRoutingStep, PTL
     DEF PoolSpec, RoutingHolds, Spec

(* The loops, however many requests are refused by nodes of their table,   *)
(* behave as Health says.                                                  *)
THEOREM PoolIsHealth == PoolSpec => HealthHolds
<1>1. PoolInit => Init /\ H!Init
  BY DEF PoolInit
<1> QED
  BY <1>1, PoolInitInv, PoolNextInv, PoolStepIsHealthStep, PTL
     DEF PoolSpec, HealthHolds, H!Spec

(* Balancing survives the real health loop: every pick goes to a node with *)
(* the least picks since the pool last changed.                            *)
THEOREM PoolBalances == PoolSpec => BalancesLoad
BY PoolIsRouting, RoutingBalances, PTL DEF RoutingHolds

(* So does exhaustive fail-over.                                           *)
THEOREM PoolFailover == PoolSpec => []ExhaustiveFailover
BY PoolIsRouting, RoutingFailover, PTL DEF RoutingHolds
=============================================================================
