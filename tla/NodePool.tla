------------------------------ MODULE NodePool ------------------------------
(***************************************************************************)
(* One engine's node table with everybody who uses it: the requests of     *)
(* Routing and the loops of Health share the variable status, and a        *)
(* request's dial succeeds exactly when the node listens.                  *)
(*                                                                         *)
(* A step is a step of one of the two modules, whatever the other one      *)
(* thinks of it: a request that was refused is in Health's set of pending  *)
(* removals, and what Health writes to the table is seen by the history of *)
(* Routing.  That each of the two allows its environment what the other    *)
(* one does is what RoutingHolds and HealthHolds state.                    *)
(***************************************************************************)
EXTENDS Routing

CONSTANTS HasApi, MaxFlips

VARIABLES listening, apiUp, internet, flips, inflight, probe, prober, disc

healthVars == <<listening, apiUp, internet, flips, inflight, probe, prober, disc>>
allVars == <<vars, healthVars>>

(* The connections between a refused dial and RemoveNode.                  *)
Refused == {sel[r] : r \in {q \in Request : pc[q] = "remove"}}

H == INSTANCE Health WITH refused <- Refused

PoolInit == Init /\ H!Init

-----------------------------------------------------------------------------
(* Requests: what they find depends on the world only when they dial.      *)
RequestStep(r) ==
    /\ \/ Arrive(r)
       \/ Select(r)
       \/ SelectNone(r)
       \/ RemoveNode(r)
       \/ HandshakeAcked(r)
       \/ HandshakeFailed(r)
    /\ UNCHANGED healthVars

(* Slip: the dial goes to the wrong address.                               *)
BugDial(r) ==
    /\ DialAccepted(r) \/ DialRefused(r)
    /\ UNCHANGED healthVars

Dial(r) ==
    /\ IF sel[r] \in listening THEN DialAccepted(r) ELSE DialRefused(r)
    /\ UNCHANGED healthVars

(* The loops, the announcements and the world: Health's own steps, of      *)
(* which the requests notice what becomes of the table.                    *)
Aside == UNCHANGED <<rr, requestVars>>

Announced(n) == Aside /\ (H!Deliver(n) \/ H!AddExplicit(n)) /\ Observe({})

Verdict(n) == Aside /\ H!ApplyVerdict(n) /\ Observe({})

(* Slip: a node that does not answer at once is probed again until it does. *)
BugProbe(n) == /\ n \in apiUp \cup listening
               /\ Aside /\ (H!ProbeApi(n) \/ H!ProbeTcp(n)) /\ Observe({})

Probe(n) == Aside /\ (H!ProbeApi(n) \/ H!ProbeTcp(n)) /\ Observe({})

OwnProbe == Aside /\ H!ProbeStep /\ Observe({})

Tick == Aside /\ H!HealthTick /\ Observe({})

Outside == Aside /\ (H!WorldNext \/ H!SetDiscovery) /\ Observe({})

PoolNext ==
    \/ \E n \in NodeId \ {Me} : Announced(n) \/ Verdict(n) \/ Probe(n)
    \/ OwnProbe
    \/ Tick
    \/ Outside
    \/ \E r \in Request : RequestStep(r) \/ Dial(r)

(* The loops and the requests under way keep running.                      *)
PoolFairness ==
    /\ \A r \in Request : WF_allVars((RequestStep(r) \/ Dial(r)) /\ pc[r] # "idle")
    /\ WF_allVars(Tick)
    /\ \A n \in NodeId \ {Me} : WF_allVars(Verdict(n)) /\ WF_allVars(Probe(n))

PoolSpec == PoolInit /\ [][PoolNext]_allVars
FairPoolSpec == PoolSpec /\ PoolFairness

-----------------------------------------------------------------------------
(* Routing lets its environment make a remote node ONLINE at any time, a   *)
(* node of the table OFFLINE, and the own node ONLINE or NO_INTERNET, one  *)
(* at a time.  The loops, with their copies of the table and their late    *)
(* answers, do nothing else: what is proved of Routing holds of the whole. *)
RoutingHolds == Spec

(* Health lets its environment make a node OFFLINE that refused a dial     *)
(* when it was in the table and did not listen.  The requests, with their  *)
(* late removals, do nothing else to it.                                   *)
HealthHolds == H!Spec

(* The table converges although requests keep marking nodes OFFLINE.       *)
PoolConverges == H!RemoteConverges
=============================================================================
