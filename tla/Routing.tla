------------------------------ MODULE Routing -------------------------------
(***************************************************************************)
(* How the engine of one machine sends its proxy connections to the nodes  *)
(* of its table (src/pkg/mops/engine.go): selectNode picks the next online *)
(* node with a counter all connections share, dialAndHandshakeNode tries   *)
(* up to three picks, and a node that refuses the connection is marked     *)
(* OFFLINE by RemoveNode.                                                  *)
(*                                                                         *)
(* A request is one client connection, handled by a goroutine of its own.  *)
(* A step is what a goroutine does between two points where another can    *)
(* come in: selectNode holds the read lock of the engine, the dial and the *)
(* handshake hold no lock, RemoveNode takes the write lock again.          *)
(*                                                                         *)
(* Node ids are numbers in the order of the id strings, which is all that  *)
(* selectNode uses of them.  What the other goroutines write into the      *)
(* table is here in the three actions of the table's environment; the      *)
(* module Health has those goroutines in full.                             *)
(***************************************************************************)
EXTENDS Naturals, FiniteSets

CONSTANTS
    NodeId,     \* ids of the nodes that may enter the table, in sort order
    Me,         \* the id of the machine's own node
    Dialable,   \* ids registered with a Port > 0
    Request,    \* the client connections
    MaxTries    \* selections one request may make: 3 in the code

ASSUME RoutingAssumption ==
    /\ NodeId \subseteq Nat
    /\ IsFiniteSet(NodeId)
    /\ Me \in NodeId
    /\ Dialable \subseteq NodeId
    /\ MaxTries \in Nat \ {0}

VARIABLES
    status,     \* status[n]: Status of n in the table, "ABSENT" if not in it
    rr,         \* rrIndex: selections made so far by all requests
    pc,         \* pc[r]: where request r is
    sel,        \* sel[r]: the node r picked last (Me before its first pick)
    tries       \* tries[r]: selections r has made

(***************************************************************************)
(* History, read by the properties only.                                   *)
(***************************************************************************)
VARIABLES
    load,       \* load[n]: selections of n since the pool last changed
    tried,      \* tried[r]: the nodes r has selected
    stayed,     \* stayed[r]: the nodes selectable ever since r's first pick
    alone       \* alone[r]: since r's first pick only r has picked, and the
                \*           pool lost only nodes that refused r before any
                \*           other node failed r's handshake

tableVars   == <<status, rr>>
requestVars == <<pc, sel, tries>>
historyVars == <<load, tried, stayed, alone>>
vars        == <<tableVars, requestVars, historyVars>>

-----------------------------------------------------------------------------
Statuses == {"ABSENT", "ONLINE", "NO_INTERNET", "OFFLINE"}

(* The nodes selectNode filters out of the table.                          *)
Selectable(st) == {n \in Dialable : st[n] = "ONLINE"}
Pool == Selectable(status)

(* Index of n in the list of the nodes of P sorted by id.                  *)
Rank(P, n) == Cardinality({m \in P : m < n})

NoLoad == [n \in NodeId |-> 0]

TypeOK ==
    /\ status \in [NodeId -> Statuses]
    /\ rr \in Nat
    /\ pc \in [Request -> {"idle", "select", "dial", "remove", "handshake",
                           "served", "failed"}]
    /\ sel \in [Request -> NodeId]
    /\ tries \in [Request -> 0 .. MaxTries]
    /\ load \in [NodeId -> Nat]
    /\ tried \in [Request -> SUBSET NodeId]
    /\ stayed \in [Request -> SUBSET NodeId]
    /\ alone \in [Request -> BOOLEAN]

(* The table right after Start: the own node is in it and ONLINE.          *)
Init ==
    /\ status = [n \in NodeId |-> IF n = Me THEN "ONLINE" ELSE "ABSENT"]
    /\ rr = 0
    /\ pc = [r \in Request |-> "idle"]
    /\ sel = [r \in Request |-> Me]
    /\ tries = [r \in Request |-> 0]
    /\ load = NoLoad
    /\ tried = [r \in Request |-> {}]
    /\ stayed = [r \in Request |-> {}]
    /\ alone = [r \in Request |-> FALSE]

-----------------------------------------------------------------------------
(* What the history sees of a write to the table.  A removal does not      *)
(* disturb the requests in "by" unless they have left a node in the pool   *)
(* that they have tried: then the counter may come back to that one.       *)
Observe(by) ==
    IF Selectable(status') = Pool THEN UNCHANGED historyVars ELSE
    /\ load' = NoLoad
    /\ stayed' = [r \in Request |-> stayed[r] \cap Selectable(status')]
    /\ alone' = [r \in Request |->
          alone[r] /\ r \in by /\ tried[r] \cap Selectable(status') = {}]
    /\ UNCHANGED tried

(* A write of one node's status, by whichever goroutine.                   *)
SetStatus(n, s, by) ==
    /\ status' = [status EXCEPT ![n] = s]
    /\ Observe(by)
    /\ UNCHANGED rr

(* acceptClient hands a connection to a new goroutine, which has read the  *)
(* SOCKS5 or HTTP request when it enters dialAndHandshakeNode.             *)
Arrive(r) ==
    /\ pc[r] = "idle"
    /\ pc' = [pc EXCEPT ![r] = "select"]
    /\ UNCHANGED <<tableVars, sel, tries, historyVars>>

(* Slip: the list is not sorted, and map iteration gives it any order.     *)
BugUnsorted(n) == n \in Pool

(* Entry rrIndex % length of the sorted list of the selectable nodes.  The *)
(* counter is a uint64 and taken not to wrap.                              *)
Chosen(n) == n \in Pool /\ Rank(Pool, n) = rr % Cardinality(Pool)

(* selectNode finds an online node.                                        *)
Select(r) ==
    /\ pc[r] = "select"
    /\ \E n \in NodeId :
        /\ Chosen(n)
        /\ sel' = [sel EXCEPT ![r] = n]
        /\ load' = [load EXCEPT ![n] = @ + 1]
        /\ tried' = [tried EXCEPT ![r] = @ \cup {n}]
    /\ rr' = rr + 1
    /\ tries' = [tries EXCEPT ![r] = @ + 1]
    /\ pc' = [pc EXCEPT ![r] = "dial"]
    /\ stayed' = IF tries[r] = 0 THEN [stayed EXCEPT ![r] = Pool] ELSE stayed
    /\ alone' = [q \in Request |-> q = r /\ (tries[r] = 0 \/ alone[r])]
    /\ UNCHANGED status

(* selectNode finds none: the loop breaks, the client gets an error reply. *)
SelectNone(r) ==
    /\ pc[r] = "select"
    /\ Pool = {}
    /\ pc' = [pc EXCEPT ![r] = "failed"]
    /\ UNCHANGED <<tableVars, sel, tries, historyVars>>

DialAccepted(r) ==
    /\ pc[r] = "dial"
    /\ pc' = [pc EXCEPT ![r] = "handshake"]
    /\ UNCHANGED <<tableVars, sel, tries, historyVars>>

DialRefused(r) ==
    /\ pc[r] = "dial"
    /\ pc' = [pc EXCEPT ![r] = "remove"]
    /\ UNCHANGED <<tableVars, sel, tries, historyVars>>

(* Slips: one attempt too many, one too few.                               *)
BugExtraTry(r) == IF tries[r] <= MaxTries THEN "select" ELSE "failed"
BugShortTry(r) == IF tries[r] + 1 < MaxTries THEN "select" ELSE "failed"

(* The head of the loop: another attempt, or the last error is returned.   *)
NextAttempt(r) == IF tries[r] < MaxTries THEN "select" ELSE "failed"

(* Slip: only a node still ONLINE is removed, and the request waits for it. *)
BugRemoveOnline(r) ==
    /\ pc[r] = "remove"
    /\ status[sel[r]] = "ONLINE"
    /\ SetStatus(sel[r], "OFFLINE", {r})
    /\ pc' = [pc EXCEPT ![r] = NextAttempt(r)]
    /\ UNCHANGED <<sel, tries>>

(* RemoveNode takes the lock the dial did not hold: the node it marks may  *)
(* have come back to life since.                                           *)
RemoveNode(r) ==
    /\ pc[r] = "remove"
    /\ SetStatus(sel[r], "OFFLINE", {r})
    /\ pc' = [pc EXCEPT ![r] = NextAttempt(r)]
    /\ UNCHANGED <<sel, tries>>

(* Header written, acknowledgement 0x00 read: the tunnel is open.          *)
HandshakeAcked(r) ==
    /\ pc[r] = "handshake"
    /\ pc' = [pc EXCEPT ![r] = "served"]
    /\ UNCHANGED <<tableVars, sel, tries, historyVars>>

(* The header cannot be written, no acknowledgement comes, or it is 0x01   *)
(* because the node cannot reach the target: the node stays ONLINE.        *)
HandshakeFailed(r) ==
    /\ pc[r] = "handshake"
    /\ pc' = [pc EXCEPT ![r] = NextAttempt(r)]
    /\ UNCHANGED <<tableVars, sel, tries, historyVars>>

(* Environment: UpdateNode on an announcement or an explicit node.         *)
UpdateNode(n) ==
    /\ n # Me
    /\ SetStatus(n, "ONLINE", {})
    /\ UNCHANGED requestVars

(* Environment: what probeAndSyncSingleNode concluded of a remote node.    *)
HealthVerdict(n, s) ==
    /\ n # Me
    /\ status[n] # "ABSENT"
    /\ SetStatus(n, s, {})
    /\ UNCHANGED requestVars

(* Environment: what probeOnce concluded of the machine's own access.      *)
ProbeVerdict(s) ==
    /\ SetStatus(Me, s, {})
    /\ UNCHANGED requestVars

RequestNext(r) ==
    \/ Arrive(r)
    \/ Select(r)
    \/ SelectNone(r)
    \/ DialAccepted(r)
    \/ DialRefused(r)
    \/ RemoveNode(r)
    \/ HandshakeAcked(r)
    \/ HandshakeFailed(r)

TableNext ==
    \/ \E n \in NodeId : UpdateNode(n)
    \/ \E n \in NodeId, s \in {"ONLINE", "OFFLINE"} : HealthVerdict(n, s)
    \/ \E s \in {"ONLINE", "NO_INTERNET"} : ProbeVerdict(s)

Next == TableNext \/ \E r \in Request : RequestNext(r)

(* A goroutine that runs keeps running: the dial, the write and the read   *)
(* each have a deadline (2 s and 5 s).  Clients owe the proxy no arrival,  *)
(* and no table write is promised.                                         *)
Fairness == \A r \in Request : WF_vars(RequestNext(r) /\ pc[r] # "idle")

Spec == Init /\ [][Next]_vars
FairSpec == Spec /\ Fairness

-----------------------------------------------------------------------------
(* The connections are balanced: every selection goes to a node with the   *)
(* least selections since the pool last changed, whatever the requests,    *)
(* the health loop and the announcements do in between.                    *)
LoadBalancer == INSTANCE Balancer WITH Node <- NodeId, pool <- Pool
BalancesLoad == LoadBalancer!Spec

(* Between two changes of the pool no node is more than one connection     *)
(* ahead of another: "stable 1:1 alternation" in the words of the README.  *)
EvenLoad == LoadBalancer!Balanced

(* Fail-over is exhaustive for a request that no other disturbs: when the  *)
(* nodes it finds are no more than its attempts, it only gives up after it *)
(* has tried each of them; those that refuse it leave the pool under its   *)
(* feet.  One order is left out: a node that refuses it after another one  *)
(* failed its handshake.  Then the counter may lead back to that other one *)
(* (see AllAvailableFailed).                                               *)
ExhaustiveFailover ==
    \A r \in Request :
        pc[r] = "failed" /\ alone[r] /\ Cardinality(stayed[r] \cup tried[r]) <= MaxTries
            => stayed[r] \subseteq tried[r]

(* A request that gives up before its attempts are used up did so because  *)
(* the table had nobody left that was selectable all along.                *)
EarlyGiveUp ==
    \A r \in Request :
        pc[r] = "failed" /\ tries[r] < MaxTries => stayed[r] = {}

(* Every client connection gets an answer: it ends served or failed, it    *)
(* does not retry forever nor hang between two attempts.                   *)
RequestsSettle ==
    \A r \in Request :
        pc[r] = "select" ~> pc[r] \in {"served", "failed"}

(* What the error message of the handlers says when a request gives up:    *)
(* "All available nodes failed for target".                                *)
AllAvailableFailed ==
    \A r \in Request : pc[r] = "failed" => stayed[r] \subseteq tried[r]
=============================================================================
