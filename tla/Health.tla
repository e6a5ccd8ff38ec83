------------------------------- MODULE Health -------------------------------
(***************************************************************************)
(* Who keeps the node table of one engine up to date                       *)
(* (src/pkg/mops/engine.go, and discovery.go for the announcements): the   *)
(* health loop probes every remote node once a second, the probe loop      *)
(* checks the machine's own internet access, mDNS announcements insert     *)
(* nodes, and a proxy connection a node refuses marks it OFFLINE.          *)
(*                                                                         *)
(* None of them holds the engine's lock while it waits for the network: an *)
(* answer is obtained in one step and written in a later one, and by then  *)
(* somebody else may have written something newer.                         *)
(***************************************************************************)
EXTENDS Naturals, FiniteSets

CONSTANTS
    NodeId,     \* ids of the nodes that may enter the table
    Me,         \* the id of the machine's own node
    HasApi,     \* remote nodes whose APIPort is known: those that announce
                \* themselves; the others are given on the command line
    MaxFlips    \* bound of the model: changes of the outside world

ASSUME HealthAssumption ==
    /\ Me \in NodeId
    /\ HasApi \subseteq NodeId \ {Me}
    /\ MaxFlips \in Nat

Remote == NodeId \ {Me}

(***************************************************************************)
(* The outside world.                                                      *)
(***************************************************************************)
VARIABLES
    listening,  \* nodes whose relay port accepts connections
    apiUp,      \* nodes whose REST API answers
    internet,   \* what probeFunc finds: this machine has internet access
    flips,      \* changes of the three above so far
    inflight    \* nodes with an announcement on its way

(***************************************************************************)
(* The engine.                                                             *)
(***************************************************************************)
VARIABLES
    status,     \* status[n]: Status of n in the table, "ABSENT" if not in it
    probe,      \* probe[n]: where the health probe of remote node n is
    prober,     \* where the goroutine of probeLoop is
    disc,       \* e.discovery: "nil" until linked, then its paused flag
    refused     \* nodes that refused a dial and are about to be removed

worldVars == <<listening, apiUp, internet, flips, inflight>>
vars == <<worldVars, status, probe, prober, disc, refused>>

-----------------------------------------------------------------------------
TypeOK ==
    /\ listening \subseteq NodeId
    /\ apiUp \subseteq HasApi
    /\ internet \in BOOLEAN
    /\ flips \in 0 .. MaxFlips
    /\ inflight \subseteq HasApi
    /\ status \in [NodeId -> {"ABSENT", "ONLINE", "NO_INTERNET", "OFFLINE"}]
    /\ \A n \in Remote : status[n] # "NO_INTERNET"
    /\ status[Me] # "ABSENT"
    /\ probe \in [Remote -> {"idle", "api", "tcp", "alive", "dead"}]
    /\ prober \in {"idle", "yes", "no", "resume", "pause"}
    /\ disc \in {"nil", "up", "paused"}
    /\ refused \subseteq NodeId

(* The table right after Start; the world is in any state.                 *)
Init ==
    /\ listening \in SUBSET NodeId
    /\ apiUp \in SUBSET HasApi
    /\ internet \in BOOLEAN
    /\ flips = 0
    /\ inflight = {}
    /\ status = [n \in NodeId |-> IF n = Me THEN "ONLINE" ELSE "ABSENT"]
    /\ probe = [n \in Remote |-> "idle"]
    /\ prober = "idle"
    /\ disc = "nil"
    /\ refused = {}

-----------------------------------------------------------------------------
(* The world: a node goes down, comes back, is cut off; the machine loses  *)
(* or regains internet access.                                             *)
Toggle(S, n) == (S \ {n}) \cup ({n} \ S)

Flip ==
    /\ flips < MaxFlips
    /\ flips' = flips + 1
    /\ \/ \E n \in NodeId : /\ listening' = Toggle(listening, n)
                            /\ UNCHANGED <<apiUp, internet>>
       \/ \E n \in HasApi : /\ apiUp' = Toggle(apiUp, n)
                            /\ UNCHANGED <<listening, internet>>
       \/ /\ internet' = ~internet
          /\ UNCHANGED <<listening, apiUp>>
    /\ UNCHANGED <<inflight, status, probe, prober, disc, refused>>

(* A remote process that runs broadcasts every two seconds.                *)
Announce(n) ==
    /\ n \in listening \cup apiUp
    /\ n \in HasApi
    /\ inflight' = inflight \cup {n}
    /\ UNCHANGED <<listening, apiUp, internet, flips, status, probe, prober,
                   disc, refused>>

(* Announcements are UDP datagrams.                                        *)
Lose(n) ==
    /\ n \in inflight
    /\ inflight' = inflight \ {n}
    /\ UNCHANGED <<listening, apiUp, internet, flips, status, probe, prober,
                   disc, refused>>

-----------------------------------------------------------------------------
SetStatus(n, s) == status' = [status EXCEPT ![n] = s]

(* processDNSMsg calls UpdateNode: inserted or not, the node is ONLINE.    *)
Deliver(n) ==
    /\ n \in inflight
    /\ inflight' = inflight \ {n}
    /\ SetStatus(n, "ONLINE")
    /\ UNCHANGED <<listening, apiUp, internet, flips, probe, prober, disc, refused>>

(* runDaemon inserts a node of the command line.                           *)
AddExplicit(n) ==
    /\ n \in Remote \ HasApi
    /\ status[n] = "ABSENT"
    /\ SetStatus(n, "ONLINE")
    /\ UNCHANGED <<worldVars, probe, prober, disc, refused>>

(* Slip: OFFLINE nodes are left out of the round.                          *)
BugTargets == {n \in Remote : status[n] = "ONLINE"}

(* Slip: every node ever heard of is probed.                               *)
BugAllTargets == Remote

(* The nodes a round probes: all in the table but the own one.             *)
Targets == {n \in Remote : status[n] # "ABSENT"}

(* checkAndSyncNodes copies the targets under the lock and starts a        *)
(* goroutine for each; wg.Wait ends a round before the next tick is taken. *)
HealthTick ==
    /\ \A n \in Remote : probe[n] = "idle"
    /\ Targets # {}
    /\ probe' = [n \in Remote |-> IF n \notin Targets THEN "idle"
                                  ELSE IF n \in HasApi THEN "api" ELSE "tcp"]
    /\ UNCHANGED <<worldVars, status, prober, disc, refused>>

(* GET /api/v1/nodes: an answer is enough for ONLINE, whatever it says.    *)
ProbeApi(n) ==
    /\ probe[n] = "api"
    /\ probe' = [probe EXCEPT ![n] = IF n \in apiUp THEN "alive" ELSE "tcp"]
    /\ UNCHANGED <<worldVars, status, prober, disc, refused>>

(* The fallback: dial the relay port.                                      *)
ProbeTcp(n) ==
    /\ probe[n] = "tcp"
    /\ probe' = [probe EXCEPT ![n] = IF n \in listening THEN "alive" ELSE "dead"]
    /\ UNCHANGED <<worldVars, status, prober, disc, refused>>

(* The probe takes the lock and writes its verdict, however old.           *)
ApplyVerdict(n) ==
    /\ probe[n] \in {"alive", "dead"}
    /\ SetStatus(n, IF probe[n] = "alive" THEN "ONLINE" ELSE "OFFLINE")
    /\ probe' = [probe EXCEPT ![n] = "idle"]
    /\ UNCHANGED <<worldVars, prober, disc, refused>>

-----------------------------------------------------------------------------
(* probeOnce: checkInternet runs without the lock.                         *)
ProbeInternet ==
    /\ prober = "idle"
    /\ prober' = IF internet THEN "yes" ELSE "no"
    /\ UNCHANGED <<worldVars, status, probe, disc, refused>>

(* Slip: the own node is only corrected from NO_INTERNET.                  *)
BugApplyProbe ==
    /\ prober \in {"yes", "no"}
    /\ IF prober = "yes"
       THEN status' = [status EXCEPT ![Me] = IF @ = "NO_INTERNET" THEN "ONLINE" ELSE @]
       ELSE SetStatus(Me, "NO_INTERNET")
    /\ prober' = IF disc = "nil" THEN "idle"
                 ELSE IF prober = "yes" THEN "resume" ELSE "pause"
    /\ UNCHANGED <<worldVars, probe, disc, refused>>

(* Under the lock: the own node's status, and a look at e.discovery.       *)
ApplyProbe ==
    /\ prober \in {"yes", "no"}
    /\ SetStatus(Me, IF prober = "yes" THEN "ONLINE" ELSE "NO_INTERNET")
    /\ prober' = IF disc = "nil" THEN "idle"
                 ELSE IF prober = "yes" THEN "resume" ELSE "pause"
    /\ UNCHANGED <<worldVars, probe, disc, refused>>

(* Slip: the service is paused, but only shut down and never resumed.      *)
BugApplyAdvertise ==
    /\ prober \in {"resume", "pause"}
    /\ disc' = IF prober = "pause" THEN "paused" ELSE disc
    /\ prober' = "idle"
    /\ UNCHANGED <<worldVars, status, probe, refused>>

(* The lock released: ResumeAdvertise or PauseAdvertise.                   *)
ApplyAdvertise ==
    /\ prober \in {"resume", "pause"}
    /\ disc' = IF prober = "pause" THEN "paused" ELSE "up"
    /\ prober' = "idle"
    /\ UNCHANGED <<worldVars, status, probe, refused>>

(* Discovery.Start links itself to an engine that is already running.      *)
SetDiscovery ==
    /\ disc = "nil"
    /\ disc' = "up"
    /\ UNCHANGED <<worldVars, status, probe, prober, refused>>

-----------------------------------------------------------------------------
(* A proxy connection was sent to n while it was ONLINE and is refused.    *)
DialRefused(n) ==
    /\ status[n] # "ABSENT"
    /\ n \notin listening
    /\ refused' = refused \cup {n}
    /\ UNCHANGED <<worldVars, status, probe, prober, disc>>

(* Slip: the node is deleted from the table.                               *)
BugRemoveNode(n) ==
    /\ n \in refused
    /\ SetStatus(n, "ABSENT")
    /\ refused' \in {refused, refused \ {n}}
    /\ UNCHANGED <<worldVars, probe, prober, disc>>

(* ... and marks it OFFLINE some time later; another connection it refused *)
(* may be about to do the same.                                            *)
RemoveNode(n) ==
    /\ n \in refused
    /\ SetStatus(n, "OFFLINE")
    /\ refused' \in {refused, refused \ {n}}
    /\ UNCHANGED <<worldVars, probe, prober, disc>>

WorldNext == Flip \/ \E n \in NodeId : Announce(n) \/ Lose(n)

HealthStep(n) == ProbeApi(n) \/ ProbeTcp(n) \/ ApplyVerdict(n)

ProbeStep == ProbeInternet \/ ApplyProbe \/ ApplyAdvertise

Next ==
    \/ WorldNext
    \/ \E n \in Remote : Deliver(n) \/ AddExplicit(n) \/ HealthStep(n)
    \/ HealthTick
    \/ ProbeStep
    \/ SetDiscovery
    \/ \E n \in NodeId : DialRefused(n) \/ RemoveNode(n)

(* Both loops run on tickers until the engine stops, and every network     *)
(* call they make has a timeout.  Nothing is promised of announcements.    *)
(* A refused connection marks its node in the statement after the dial.    *)
Fairness ==
    /\ WF_vars(HealthTick)
    /\ \A n \in Remote : WF_vars(HealthStep(n))
    /\ WF_vars(ProbeStep)
    /\ \A n \in NodeId : WF_vars(RemoveNode(n) /\ n \notin refused')

Spec == Init /\ [][Next]_vars
FairSpec == Spec /\ Fairness

-----------------------------------------------------------------------------
(* Once the world stops changing, the table shows it: a remote node that   *)
(* accepts connections ends up ONLINE for good, one that neither listens   *)
(* nor answers ends up OFFLINE for good, whatever late announcements,      *)
(* probes and refused connections are written on the way.  A node whose    *)
(* API answers but whose relay is closed is left out: the health loop      *)
(* calls it ONLINE and the connections it refuses OFFLINE, without end.    *)
RemoteConverges ==
    \A n \in Remote :
        <>[](status[n] # "ABSENT" =>
                /\ n \in listening => status[n] = "ONLINE"
                /\ n \notin listening \cup apiUp => status[n] = "OFFLINE")

(* The machine's own node recovers from a refused connection, and shows    *)
(* whether it has internet access.                                         *)
SelfConverges ==
    <>[](/\ internet /\ Me \in listening => status[Me] = "ONLINE"
         /\ ~internet => status[Me] # "ONLINE")

(* A machine without internet access stops advertising itself, and one     *)
(* that has it advertises itself again.                                    *)
AdvertiseConverges == <>[](disc # "nil" => (disc = "paused" <=> ~internet))

(* Between two probes, a machine that believes itself ONLINE is not left   *)
(* unadvertised: nobody but the probe that resumes the advertisement makes *)
(* it ONLINE again.                                                        *)
OnlineIsAdvertised ==
    prober = "idle" /\ status[Me] = "ONLINE" => disc # "paused"
=============================================================================
