---------------------------- MODULE DaemonProofs ----------------------------
(***************************************************************************)
(* Theorems about Daemon, for any number of API requests: the process      *)
(* around the engine makes no step Lifecycle does not know, so that what   *)
(* is proved of the engine holds in the daemon, and what its probe loop,   *)
(* Discovery and Stop leave registered.                                    *)
(***************************************************************************)
EXTENDS Daemon, LifecycleProofs

-----------------------------------------------------------------------------
(* Every step of the daemon is a step of the engine or leaves it alone.    *)
LEMMA DaemonStepIsEngineStep == [DaemonNext]_allVars => [Next]_vars
<1> SUFFICES ASSUME [DaemonNext]_allVars PROVE [Next]_vars
  OBVIOUS
<1>1. CASE BootNext
  <2>1. CASE RunEngine
    BY <2>1 DEF RunEngine, Next
  <2>2. CASE LinkEarly \/ StartDiscovery \/ DiscoveryUp \/ RunFails
    BY <2>2 DEF LinkEarly, StartDiscovery, DiscoveryUp, RunFails
  <2> QED
    BY <1>1, <2>1, <2>2 DEF BootNext
<1>2. CASE StopService \/ LeaveNext
  <2>1. CASE StopEngine
    BY <2>1 DEF StopEngine, Next, StopNext
  <2>2. CASE StoppingEngine
    BY <2>2 DEF StoppingEngine, Next, StopNext
  <2>3. CASE StopService \/ Withdraw \/ StopNothing \/ Gone
    BY <2>3 DEF StopService, Withdraw, StopNothing, Gone
  <2> QED
    BY <1>2, <2>1, <2>2, <2>3 DEF LeaveNext
<1>3. CASE ProbeTick \/ ProbeNext
  BY <1>3 DEF ProbeTick, ProbeNext, ProbeVerdict, Resume, Pause, ProbeEnds
<1>4. CASE CastTick \/ CastNext
  BY <1>4 DEF CastTick, CastNext, Cast, CastEnds, CasterGoesTo
<1>5. CASE \/ \E h \in Handler : Arrive(h) \/ ServeNext(h)
           \/ \E p \in Proxy : AcceptFails(p)
           \/ \E p \in Port : Foreign(p)
  BY <1>5 DEF Next
<1>6. CASE UNCHANGED allVars
  BY <1>6 DEF allVars
<1> QED
  BY <1>1, <1>2, <1>3, <1>4, <1>5, <1>6 DEF DaemonNext

(* The ports of the configuration are never changed, and only Start itself *)
(* goes on with starting.                                                  *)
LEMMA ConfiguredStays == [DaemonNext]_allVars => UNCHANGED configured
<1> SUFFICES ASSUME [Next]_vars PROVE UNCHANGED configured
  BY DaemonStepIsEngineStep
<1>1. CASE StartNext
  BY <1>1 DEF StartNext, StartBegin, SkipPort, Listen, Store, ListenFails, StartReturns
<1>2. CASE StopNext
  BY <1>2 DEF StopNext, StopBegin, StopApi, Drain, StopClose
<1>3. CASE \E h \in Handler : Arrive(h) \/ ServeNext(h)
  BY <1>3 DEF Arrive, ServeNext, SwitchOn, SwitchOff, SwitchNothing, Answer
<1>4. CASE (\E p \in Proxy : AcceptFails(p)) \/ (\E p \in Port : Foreign(p))
  BY <1>4 DEF AcceptFails, Foreign
<1>5. CASE UNCHANGED vars
  BY <1>5 DEF vars
<1> QED
  BY <1>1, <1>2, <1>3, <1>4, <1>5 DEF Next

LEMMA StartStays == [DaemonNext]_allVars => RunEngine \/ UNCHANGED start
<1> SUFFICES ASSUME [DaemonNext]_allVars, ~RunEngine PROVE UNCHANGED start
  OBVIOUS
<1>1. UNCHANGED vars => UNCHANGED start
  BY DEF vars
<1>2. CASE BootNext
  BY <1>1, <1>2 DEF BootNext, LinkEarly, StartDiscovery, DiscoveryUp, RunFails
<1>3. CASE StopService \/ LeaveNext
  BY <1>1, <1>3 DEF StopService, LeaveNext, Withdraw, StopEngine, StopBegin, StopNothing,
                    StoppingEngine, StopApi, Drain, StopClose, Gone
<1>4. CASE ProbeTick \/ ProbeNext \/ CastTick \/ CastNext
  BY <1>1, <1>4 DEF ProbeTick, ProbeNext, ProbeVerdict, Resume, Pause, ProbeEnds, CastTick,
                    CastNext, Cast, CastEnds, CasterGoesTo
<1>5. CASE \/ \E h \in Handler : Arrive(h) \/ ServeNext(h)
           \/ \E p \in Proxy : AcceptFails(p)
           \/ \E p \in Port : Foreign(p)
  BY <1>5 DEF Arrive, ServeNext, SwitchOn, SwitchOff, SwitchNothing, Answer, AcceptFails, Foreign
<1>6. CASE UNCHANGED allVars
  BY <1>1, <1>6 DEF allVars
<1> QED
  BY <1>2, <1>3, <1>4, <1>5, <1>6 DEF DaemonNext

-----------------------------------------------------------------------------
(* After Stop has withdrawn the node nothing is under way that would       *)
(* register it again, unless it was so then or has begun since (late).     *)
Withdrawn == leaving \in {"withdrawn", "stopping", "gone"}
Quiet     == Withdrawn /\ ~late => /\ ~registered
                                   /\ boot \in {"up", "failed"}
                                   /\ prober \in {"none", "idle", "ended"}

PausedIsUnregistered == paused => ~registered

(* What the probe noted and what Discovery was told go together: only in a *)
(* console is a verdict of no internet ever lost.                          *)
Heard ==
    /\ mode = "service" => linked /\ verdict # "unheard"
    /\ verdict = "offline" /\ prober # "pause" => paused
    /\ prober = "resume" => verdict = "online"
    /\ start # "up" => prober = "none" /\ verdict = "online"

DInv == ProcessTypeOK /\ PausedIsUnregistered /\ Quiet /\ Heard

LEMMA DaemonInitInv == DaemonInit => DInv
BY DEF DaemonInit, DInv, ProcessTypeOK, PausedIsUnregistered, Quiet, Withdrawn, Heard, Init

(* A registration keeps what it may disturb.                               *)
LEMMA RegisterFacts ==
    ASSUME DInv, Register, paused' = paused \/ paused' = FALSE
    PROVE  /\ registered' \in BOOLEAN
           /\ registered' => "server" \in configured
           /\ paused' => ~registered'
<1>1. CASE ~paused' /\ "server" \in configured /\ registered' = TRUE
  BY <1>1, Zenon
<1>2. CASE registered' = registered
  BY <1>2 DEF DInv, ProcessTypeOK, PausedIsUnregistered
<1> QED
  BY <1>1, <1>2 DEF Register

(* Starting.                                                               *)
LEMMA BootKeeps ==
    ASSUME DInv, BootNext, UNCHANGED configured, RunEngine \/ UNCHANGED start
    PROVE  DInv'
<1>boot. RunEngine => start # "up"
  BY DEF RunEngine, StartNext, StartBegin, SkipPort, Listen, Store, ListenFails, StartReturns
<1>0. DiscoveryUp => /\ registered' \in BOOLEAN
                     /\ registered' => "server" \in configured
                     /\ paused' => ~registered'
  BY RegisterFacts DEF DiscoveryUp
<1> USE DEF DInv, ProcessTypeOK, PausedIsUnregistered, Quiet, Withdrawn, Heard, discoveryVars
<1>1. CASE RunEngine
  BY <1>boot, <1>1 DEF RunEngine
<1>2. CASE LinkEarly
  BY <1>boot, <1>2 DEF LinkEarly, vars
<1>3. CASE StartDiscovery
  BY <1>boot, <1>3 DEF StartDiscovery, vars
<1>4. CASE DiscoveryUp
  BY <1>boot, <1>0, <1>4 DEF DiscoveryUp, vars
<1>5. CASE RunFails
  BY <1>boot, <1>5 DEF RunFails, vars
<1> QED
  BY <1>1, <1>2, <1>3, <1>4, <1>5 DEF BootNext

(* Stopping.                                                               *)
LEMMA LeaveKeeps ==
    ASSUME DInv, StopService \/ LeaveNext, UNCHANGED <<configured, start>>
    PROVE  DInv'
<1> USE DEF DInv, ProcessTypeOK, PausedIsUnregistered, Quiet, Withdrawn, Heard, discoveryVars
<1>1. CASE StopService
  BY <1>1 DEF StopService
<1>2. CASE Withdraw
  BY <1>2 DEF Withdraw, Unregister
<1>3. CASE StopEngine
  BY <1>3 DEF StopEngine
<1>4. CASE StopNothing
  BY <1>4 DEF StopNothing
<1>5. CASE StoppingEngine
  BY <1>5 DEF StoppingEngine, daemonVars
<1>6. CASE Gone
  BY <1>6 DEF Gone
<1> QED
  BY <1>1, <1>2, <1>3, <1>4, <1>5, <1>6 DEF LeaveNext

(* The loops.                                                              *)
LEMMA LoopsKeep ==
    ASSUME DInv, ProbeTick \/ ProbeNext \/ CastTick \/ CastNext, UNCHANGED <<configured, start>>
    PROVE  DInv'
<1>0. Resume => registered' \in BOOLEAN /\ (registered' => "server" \in configured)
  BY RegisterFacts DEF Resume
<1> USE DEF DInv, ProcessTypeOK, PausedIsUnregistered, Quiet, Withdrawn, Heard, discoveryVars
<1>1. CASE ProbeTick
  BY <1>1 DEF ProbeTick
<1>2. CASE ProbeVerdict
  BY <1>2 DEF ProbeVerdict, Noted
<1>3. CASE Resume
  BY <1>0, <1>3 DEF Resume
<1>4. CASE Pause
  BY <1>4 DEF Pause
<1>5. CASE ProbeEnds
  BY <1>5 DEF ProbeEnds
<1>6. CASE CastTick \/ CastNext
  BY <1>6 DEF CastTick, CastNext, Cast, CastEnds, CasterGoesTo
<1> QED
  BY <1>1, <1>2, <1>3, <1>4, <1>5, <1>6 DEF ProbeNext

(* DInv is inductive.                                                      *)
LEMMA DaemonNextInv == DInv /\ [DaemonNext]_allVars => DInv'
<1> SUFFICES ASSUME DInv, [DaemonNext]_allVars PROVE DInv'
  OBVIOUS
<1>1. UNCHANGED configured /\ (RunEngine \/ UNCHANGED start)
  BY ConfiguredStays, StartStays
<1>2. CASE RunEngine
  BY <1>1, <1>2, BootKeeps DEF BootNext
<1>3. CASE UNCHANGED start
  <2>1. CASE UNCHANGED daemonVars
    BY <1>1, <1>3, <2>1 DEF DInv, ProcessTypeOK, PausedIsUnregistered, Quiet, Withdrawn, Heard,
                            daemonVars, discoveryVars
  <2>2. UNCHANGED allVars => UNCHANGED daemonVars
    BY DEF allVars
  <2> QED
    BY <1>1, <1>3, <2>1, <2>2, BootKeeps, LeaveKeeps, LoopsKeep DEF DaemonNext
<1> QED
  BY <1>1, <1>2, <1>3

-----------------------------------------------------------------------------
(* The engine in the daemon is the engine of Lifecycle: whatever program,  *)
(* runDaemon, the probe loop and Discovery do to it, and in whatever       *)
(* order, is allowed for there.                                            *)
THEOREM DaemonIsLifecycle == DaemonSpec => Spec
<1>1. DaemonInit => Init
  BY DEF DaemonInit
<1> QED
  BY <1>1, DaemonStepIsEngineStep, PTL DEF DaemonSpec, Spec

(* A daemon that has stopped its engine leaves no port open, however many  *)
(* requests were waiting, unless Stop overtook Start.                      *)
THEOREM DaemonStopCloses == DaemonSpec => []StopClosesAll
BY DaemonIsLifecycle, LifecycleStopCloses, PTL

(* Every reachable state of the daemon is well typed: the probe loop never *)
(* switches a Discovery that is not linked yet, and a machine that shares  *)
(* nothing is never registered.                                            *)
THEOREM DaemonTypes == DaemonSpec => []DaemonTypeOK
<1>1. DInv => ProcessTypeOK
  BY DEF DInv
<1>2. DaemonSpec => []ProcessTypeOK
  BY <1>1, DaemonInitInv, DaemonNextInv, PTL DEF DaemonSpec
<1>3. DaemonSpec => []TypeOK
  BY DaemonIsLifecycle, LifecycleTypes, PTL
<1> QED
  BY <1>2, <1>3, PTL DEF DaemonTypeOK

(* Discovery follows the probe's last verdict: a service that was found to *)
(* have no internet is paused and not registered, whichever of the first   *)
(* probe and Discovery.Start comes first; a console is, if the verdict was *)
(* not reached before Discovery was linked.                                *)
THEOREM DaemonOffline == DaemonSpec => []OfflineIsUnregistered
<1>1. DInv => OfflineIsUnregistered
  BY DEF DInv, Heard, PausedIsUnregistered, ProcessTypeOK, OfflineIsUnregistered
<1> QED
  BY <1>1, DaemonInitInv, DaemonNextInv, PTL DEF DaemonSpec

(* After Stop the node is registered no more, but for the starts and       *)
(* probes StopWithdraws names.                                             *)
THEOREM DaemonWithdraws == DaemonSpec => []StopWithdraws
<1>1. DInv => StopWithdraws
  BY DEF DInv, Quiet, Withdrawn, StopWithdraws
<1> QED
  BY <1>1, DaemonInitInv, DaemonNextInv, PTL DEF DaemonSpec
=============================================================================
