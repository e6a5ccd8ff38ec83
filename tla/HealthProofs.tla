---------------------------- MODULE HealthProofs ----------------------------
(***************************************************************************)
(* Theorems about Health, for any set of nodes and any number of changes   *)
(* of the outside world: its types, and that the machine's own status and  *)
(* its advertisement, which the probe loop writes in two steps, are only   *)
(* apart while the loop is between the two.                                *)
(***************************************************************************)
EXTENDS Health, TLAPS

-----------------------------------------------------------------------------
(* The probe loop is about to pause the advertisement only while the own   *)
(* node is not ONLINE: nobody else can make it so in between.              *)
PauseIsDue == prober = "pause" => status[Me] # "ONLINE"

HInv == TypeOK /\ OnlineIsAdvertised /\ PauseIsDue

(* A write to the table keeps its type if the status is one the node can   *)
(* have.                                                                   *)
LEMMA StatusTyped ==
    ASSUME TypeOK, NEW n \in NodeId, NEW s \in {"ONLINE", "NO_INTERNET", "OFFLINE"},
           n \in Remote => s # "NO_INTERNET",
           SetStatus(n, s)
    PROVE  /\ status' \in [NodeId -> {"ABSENT", "ONLINE", "NO_INTERNET", "OFFLINE"}]
           /\ \A m \in Remote : status'[m] # "NO_INTERNET"
           /\ status'[Me] # "ABSENT"
BY HealthAssumption DEF TypeOK, SetStatus, Remote

LEMMA HealthInitInv == Init => HInv
BY HealthAssumption DEF Init, HInv, TypeOK, OnlineIsAdvertised, PauseIsDue, Remote

(* The world changes nothing of the engine.                                *)
LEMMA WorldKeeps == HInv /\ WorldNext => HInv'
<1> SUFFICES ASSUME HInv, WorldNext PROVE HInv'
  OBVIOUS
<1> USE HealthAssumption DEF HInv, TypeOK, OnlineIsAdvertised, PauseIsDue, Remote
<1>1. CASE Flip
  <2>1. flips' \in 0 .. MaxFlips
    BY <1>1, SMT DEF Flip
  <2>2. listening' \subseteq NodeId /\ apiUp' \subseteq HasApi /\ internet' \in BOOLEAN
    BY <1>1, Zenon DEF Flip, Toggle
  <2> QED
    BY <1>1, <2>1, <2>2 DEF Flip
<1>2. ASSUME NEW n \in NodeId, Announce(n) PROVE HInv'
  BY <1>2 DEF Announce
<1>3. ASSUME NEW n \in NodeId, Lose(n) PROVE HInv'
  BY <1>3 DEF Lose
<1> QED
  BY <1>1, <1>2, <1>3 DEF WorldNext

(* Announcements, explicit nodes and the health loop write the status of   *)
(* remote nodes only.                                                      *)
LEMMA RemoteKeeps ==
    ASSUME HInv, NEW n \in Remote, Deliver(n) \/ AddExplicit(n) \/ HealthStep(n)
    PROVE  HInv'
<1> USE HealthAssumption DEF HInv, OnlineIsAdvertised, PauseIsDue
<1>0. n \in NodeId /\ n # Me
  BY DEF Remote
<1>1. CASE Deliver(n)
  <2>1. SetStatus(n, "ONLINE")
    BY <1>1 DEF Deliver
  <2> QED
    BY <1>0, <1>1, <2>1, StatusTyped DEF Deliver, TypeOK, SetStatus
<1>2. CASE AddExplicit(n)
  <2>1. SetStatus(n, "ONLINE")
    BY <1>2 DEF AddExplicit
  <2> QED
    BY <1>0, <1>2, <2>1, StatusTyped DEF AddExplicit, worldVars, TypeOK, SetStatus
<1>3. CASE ProbeApi(n) \/ ProbeTcp(n)
  BY <1>3 DEF ProbeApi, ProbeTcp, worldVars, TypeOK
<1>4. CASE ApplyVerdict(n)
  <2>1. PICK s \in {"ONLINE", "OFFLINE"} : SetStatus(n, s)
    BY <1>4 DEF ApplyVerdict
  <2> QED
    BY <1>0, <1>4, <2>1, StatusTyped DEF ApplyVerdict, worldVars, TypeOK, SetStatus
<1> QED
  BY <1>1, <1>2, <1>3, <1>4 DEF HealthStep

(* The probe loop writes the own status first and the advertisement after. *)
LEMMA ProbeKeeps == HInv /\ ProbeStep => HInv'
<1> SUFFICES ASSUME HInv, ProbeStep PROVE HInv'
  OBVIOUS
<1> USE HealthAssumption DEF HInv, OnlineIsAdvertised, PauseIsDue
<1>1. CASE ProbeInternet
  BY <1>1 DEF ProbeInternet, worldVars, TypeOK
<1>2. CASE ApplyProbe
  <2>1. PICK s \in {"ONLINE", "NO_INTERNET"} :
          SetStatus(Me, s) /\ (s = "ONLINE" <=> prober = "yes")
    BY <1>2 DEF ApplyProbe
  <2>2. Me \notin Remote
    BY DEF Remote
  <2> QED
    BY <1>2, <2>1, <2>2, StatusTyped DEF ApplyProbe, worldVars, TypeOK, SetStatus
<1>3. CASE ApplyAdvertise
  BY <1>3 DEF ApplyAdvertise, worldVars, TypeOK
<1> QED
  BY <1>1, <1>2, <1>3 DEF ProbeStep

(* A connection a node refused makes it OFFLINE, be it the own one.        *)
LEMMA RefusedKeeps ==
    ASSUME HInv, NEW n \in NodeId, DialRefused(n) \/ RemoveNode(n)
    PROVE  HInv'
<1> USE HealthAssumption DEF HInv, OnlineIsAdvertised, PauseIsDue
<1>1. CASE DialRefused(n)
  BY <1>1 DEF DialRefused, worldVars, TypeOK
<1>2. CASE RemoveNode(n)
  <2>1. SetStatus(n, "OFFLINE")
    BY <1>2 DEF RemoveNode
  <2> QED
    BY <1>2, <2>1, StatusTyped DEF RemoveNode, worldVars, TypeOK, SetStatus
<1> QED
  BY <1>1, <1>2

(* HInv is inductive.                                                      *)
LEMMA HealthNextInv == HInv /\ [Next]_vars => HInv'
<1> SUFFICES ASSUME HInv, [Next]_vars PROVE HInv'
  OBVIOUS
<1>1. CASE HealthTick
  BY <1>1 DEF HealthTick, worldVars, HInv, TypeOK, OnlineIsAdvertised, PauseIsDue
<1>2. CASE SetDiscovery
  BY <1>2 DEF SetDiscovery, worldVars, HInv, TypeOK, OnlineIsAdvertised, PauseIsDue
<1>3. CASE UNCHANGED vars
  BY <1>3 DEF vars, worldVars, HInv, TypeOK, OnlineIsAdvertised, PauseIsDue
<1> QED
  BY <1>1, <1>2, <1>3, WorldKeeps, RemoteKeeps, ProbeKeeps, RefusedKeeps DEF Next

-----------------------------------------------------------------------------
(* Every reachable state of the node table is well typed: a remote node is *)
(* never NO_INTERNET, which only the probe of the own machine concludes,   *)
(* and the own node never leaves the table.                                *)
THEOREM HealthTypes == Spec => []TypeOK
<1>1. HInv => TypeOK
  BY DEF HInv
<1> QED
  BY <1>1, HealthInitInv, HealthNextInv, PTL DEF Spec

(* A machine that believes itself ONLINE between two probes is advertised, *)
(* although status and advertisement are written under different locks.    *)
THEOREM HealthAdvertised == Spec => []OnlineIsAdvertised
<1>1. HInv => OnlineIsAdvertised
  BY DEF HInv
<1> QED
  BY <1>1, HealthInitInv, HealthNextInv, PTL DEF Spec
=============================================================================
