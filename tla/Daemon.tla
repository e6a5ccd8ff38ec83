------------------------------- MODULE Daemon -------------------------------
(***************************************************************************)
(* The process around an engine: program (service.go) when the Windows     *)
(* service manager starts it, runDaemon (cli.go) in a console; with the    *)
(* mDNS side of the machine's own node (discovery.go) and the probe loop   *)
(* that switches it off and on (engine.go).                                *)
(*                                                                         *)
(* A service starts in a goroutine of its own while the manager may        *)
(* already stop it: cancel the context, Discovery.Stop, Engine.Stop.  A    *)
(* console is stopped by a signal it waits for after everything is up:     *)
(* Discovery.Stop, Engine.Stop, then the context.                          *)
(*                                                                         *)
(* Discovery has the lock d.mu, the engine e.mu.  Discovery.Start asks for *)
(* e.mu while it holds d.mu; everyone else takes one at a time.            *)
(***************************************************************************)
EXTENDS Lifecycle

VARIABLES
    mode,       \* "service" or "console"
    linked,     \* e.discovery is set
    boot,       \* run, runDaemon: "engine", "discovery" (has d.mu), "up", "failed"
    leaving,    \* Stop: "no", "cancelled", "withdrawn", "stopping", "gone"
    paused,     \* d.paused
    registered, \* d.server is set: the own node is announced on request
    caster,     \* periodicBroadcastLoop: "none", "idle", "send" or "ended"
    prober,     \* probeLoop: "none", "idle", "ask", "resume", "pause", "ended"
    verdict,    \* what the last probe noted in the own node: "online" (also
                \* before any), "offline", or "unheard", offline with no
                \* Discovery linked to be paused
    late        \* history: Discovery.Stop came before Discovery.Start or
                \* while a probe was under way, or one began after it

discoveryVars == <<linked, paused, registered, caster>>
daemonVars    == <<mode, boot, leaving, discoveryVars, prober, verdict, late>>
allVars       == <<vars, daemonVars>>

ProcessTypeOK ==
    /\ mode \in {"service", "console"}
    /\ linked \in BOOLEAN
    /\ boot \in {"engine", "discovery", "up", "failed"}
    /\ leaving \in {"no", "cancelled", "withdrawn", "stopping", "gone"}
    /\ paused \in BOOLEAN /\ registered \in BOOLEAN
    /\ caster \in {"none", "idle", "send", "ended"}
    /\ prober \in {"none", "idle", "ask", "resume", "pause", "ended"}
    /\ prober \in {"resume", "pause"} => linked
    /\ verdict \in {"online", "offline", "unheard"}
    /\ registered => "server" \in configured
    /\ late \in BOOLEAN

DaemonTypeOK == TypeOK /\ ProcessTypeOK

(* A service makes its Discovery before it starts the engine.              *)
DaemonInit ==
    /\ Init
    /\ mode \in {"service", "console"}
    /\ linked = (mode = "service")
    /\ boot = "engine"
    /\ leaving = "no"
    /\ paused = FALSE /\ registered = FALSE
    /\ caster = "none" /\ prober = "none" /\ verdict = "online"
    /\ late = FALSE

-----------------------------------------------------------------------------
(* The two locks.                                                          *)
DiscoveryFree == boot # "discovery"

(* Slip: probeOnce switches the advertising before it releases e.mu.       *)
BugEngineFree == Unlocked /\ prober \notin {"resume", "pause"}

EngineFree == Unlocked

(* The contexts of the engine's loops and of the broadcast loop.           *)
EngineCancelled ==
    \/ mode = "service" /\ leaving # "no"
    \/ start # "idle" /\ ~running
CastCancelled ==
    \/ mode = "service" /\ leaving # "no"
    \/ leaving \in {"withdrawn", "stopping", "gone"}

(* Slip: registers without asking whether a probe has paused it.           *)
BugRegister ==
    \/ "server" \in configured /\ registered' = TRUE
    \/ UNCHANGED registered

(* registerServerLocked.  Registering may fail; nobody is told.            *)
Register ==
    \/ ~paused' /\ "server" \in configured /\ registered' = TRUE
    \/ UNCHANGED registered

-----------------------------------------------------------------------------
(* Starting.                                                               *)
RunEngine ==
    /\ StartNext
    /\ boot = "engine"
    /\ prober' = IF start' = "up" THEN "ask" ELSE prober
    /\ UNCHANGED <<mode, boot, leaving, discoveryVars, verdict, late>>

(* Discovery.Start takes d.mu and then waits for e.mu to link itself; a    *)
(* console has linked its own in NewDiscovery just before.                 *)
LinkEarly ==
    /\ boot = "engine" /\ start = "up"
    /\ ~linked /\ EngineFree
    /\ linked' = TRUE
    /\ UNCHANGED <<vars, mode, boot, leaving, paused, registered, caster, prober, verdict, late>>

StartDiscovery ==
    /\ boot = "engine" /\ start = "up" /\ linked
    /\ boot' = "discovery"
    /\ UNCHANGED <<vars, mode, leaving, discoveryVars, prober, verdict, late>>

(* The first announcement goes out whether paused or not.                  *)
DiscoveryUp ==
    /\ boot = "discovery"
    /\ EngineFree
    /\ UNCHANGED paused
    /\ Register
    /\ caster' = "send"
    /\ boot' = "up"
    /\ UNCHANGED <<vars, mode, leaving, linked, prober, verdict, late>>

RunFails ==
    /\ boot = "engine" /\ start = "failed"
    /\ boot' = "failed"
    /\ UNCHANGED <<vars, mode, leaving, discoveryVars, prober, verdict, late>>

-----------------------------------------------------------------------------
(* Stopping.                                                               *)
StopService ==
    /\ mode = "service" /\ leaving = "no"
    /\ leaving' = "cancelled"
    /\ UNCHANGED <<vars, mode, boot, discoveryVars, prober, verdict, late>>

(* Slip: the context is cancelled and the service forgotten.               *)
BugUnregister == UNCHANGED registered

Unregister == registered' = FALSE

(* Discovery.Stop.                                                         *)
Withdraw ==
    /\ IF mode = "service" THEN leaving = "cancelled" ELSE leaving = "no" /\ boot = "up"
    /\ DiscoveryFree
    /\ leaving' = "withdrawn"
    /\ Unregister
    /\ late' = (boot \notin {"up", "failed"} \/ prober \in {"ask", "resume", "pause"})
    /\ UNCHANGED <<vars, mode, boot, linked, paused, caster, prober, verdict>>

StopEngine ==
    /\ leaving = "withdrawn"
    /\ leaving' = "stopping"
    /\ StopBegin
    /\ UNCHANGED <<mode, boot, discoveryVars, prober, verdict, late>>

(* There is nothing to stop.                                               *)
StopNothing ==
    /\ leaving = "withdrawn" /\ EngineFree /\ ~running
    /\ leaving' = "gone"
    /\ UNCHANGED <<vars, mode, boot, discoveryVars, prober, verdict, late>>

StoppingEngine ==
    /\ StopApi \/ Drain \/ StopClose
    /\ UNCHANGED daemonVars

Gone ==
    /\ leaving = "stopping" /\ Unlocked
    /\ leaving' = "gone"
    /\ UNCHANGED <<vars, mode, boot, discoveryVars, prober, verdict, late>>

-----------------------------------------------------------------------------
(* probeLoop: the network is asked without a lock, the answer noted under  *)
(* e.mu, with Discovery as it is linked by then, and the advertising       *)
(* switched under d.mu afterwards.                                         *)
(* The select of the loop picks at random when the context is cancelled    *)
(* and the ticker has fired: a probe may begin after the cancellation.     *)
ProbeTick ==
    /\ prober = "idle"
    /\ prober' = "ask"
    /\ late' = (late \/ leaving # "no")
    /\ UNCHANGED <<vars, mode, boot, leaving, discoveryVars, verdict>>

Noted(hasInternet) ==
    verdict' = IF hasInternet THEN "online" ELSE IF linked THEN "offline" ELSE "unheard"

(* Slip: the answer is taken to a Discovery that may not be there yet.     *)
BugProbeVerdict ==
    /\ prober = "ask" /\ EngineFree
    /\ \E hasInternet \in BOOLEAN :
          /\ Noted(hasInternet)
          /\ prober' = IF hasInternet THEN "resume" ELSE "pause"
    /\ UNCHANGED <<vars, mode, boot, leaving, discoveryVars, late>>

ProbeVerdict ==
    /\ prober = "ask" /\ EngineFree
    /\ \E hasInternet \in BOOLEAN :
          /\ Noted(hasInternet)
          /\ prober' = IF ~linked THEN "idle" ELSE IF hasInternet THEN "resume" ELSE "pause"
    /\ UNCHANGED <<vars, mode, boot, leaving, discoveryVars, late>>

Resume ==
    /\ prober = "resume" /\ DiscoveryFree
    /\ paused' = FALSE
    /\ Register
    /\ prober' = "idle"
    /\ UNCHANGED <<vars, mode, boot, leaving, linked, caster, verdict, late>>

Pause ==
    /\ prober = "pause" /\ DiscoveryFree
    /\ paused' = TRUE
    /\ registered' = FALSE
    /\ prober' = "idle"
    /\ UNCHANGED <<vars, mode, boot, leaving, linked, caster, verdict, late>>

ProbeEnds ==
    /\ prober = "idle" /\ EngineCancelled
    /\ prober' = "ended"
    /\ UNCHANGED <<vars, mode, boot, leaving, discoveryVars, verdict, late>>

(* periodicBroadcastLoop, whose select picks at random as well.            *)
CasterGoesTo(c) ==
    /\ caster' = c
    /\ UNCHANGED <<vars, mode, boot, leaving, linked, paused, registered, prober, verdict, late>>

CastTick ==
    /\ caster = "idle"
    /\ DiscoveryFree /\ ~paused
    /\ CasterGoesTo("send")

Cast ==
    /\ caster = "send"
    /\ CasterGoesTo("idle")

(* Slip: the loop waits for its ticker only.                               *)
BugCastEnds == FALSE /\ UNCHANGED allVars

CastEnds ==
    /\ caster = "idle" /\ CastCancelled
    /\ CasterGoesTo("ended")

-----------------------------------------------------------------------------
BootNext  == RunEngine \/ LinkEarly \/ StartDiscovery \/ DiscoveryUp \/ RunFails
LeaveNext == Withdraw \/ StopEngine \/ StopNothing \/ StoppingEngine \/ Gone
ProbeNext == ProbeVerdict \/ Resume \/ Pause \/ ProbeEnds
CastNext  == Cast \/ CastEnds

DaemonNext ==
    \/ BootNext
    \/ StopService \/ LeaveNext
    \/ ProbeTick \/ ProbeNext
    \/ CastTick \/ CastNext
    \/ /\ \/ \E h \in Handler : Arrive(h) \/ ServeNext(h)
          \/ \E p \in Proxy : AcceptFails(p)
          \/ \E p \in Port : Foreign(p)
       /\ UNCHANGED daemonVars

(* Goroutines go on; a console need not be told to stop.  A loop whose     *)
(* context is cancelled may take another tick, but not for ever: each      *)
(* select takes either branch at random.                                   *)
DaemonFairness ==
    /\ WF_allVars(BootNext)
    /\ WF_allVars(LeaveNext /\ leaving # "no")
    /\ WF_allVars(ProbeNext)
    /\ WF_allVars(CastNext)
    /\ SF_allVars(ProbeEnds) /\ SF_allVars(CastEnds)
    /\ \A h \in Handler : WF_allVars(ServeNext(h) /\ UNCHANGED daemonVars)

DaemonSpec == DaemonInit /\ [][DaemonNext]_allVars /\ DaemonFairness

-----------------------------------------------------------------------------
(* A machine is not announced against the last verdict of its probe: once  *)
(* probeOnce, having found no internet, is through, Discovery is paused    *)
(* and the node not registered, and Discovery.Start does not register it   *)
(* later.  In a service that is so from the first probe on; in a console   *)
(* from the first probe that finds Discovery linked.                       *)
OfflineIsUnregistered ==
    /\ verdict \in {"offline", "unheard"} /\ prober # "pause"
    /\ mode = "service" \/ verdict # "unheard"
    => paused /\ ~registered

(* After Stop the node is registered no more, unless Discovery.Stop came   *)
(* before Discovery.Start, or a probe was under way then or began after    *)
(* it: a probe that ends later registers it again.                         *)
StopWithdraws == leaving = "gone" /\ ~late => ~registered

(* Stop returns: Discovery.Start, which holds d.mu while it waits for      *)
(* e.mu, the probe loop and the requests Engine.Stop waits for never wait  *)
(* for each other in a circle.                                             *)
StopEnds == leaving # "no" ~> leaving = "gone"

(* probeLoop and periodicBroadcastLoop, which a Stop leaves running, come  *)
(* to their end, also if they start only after it.                         *)
LoopsEnd == leaving = "gone" ~> [](caster \in {"none", "ended"} /\ prober \in {"none", "ended"})
=============================================================================
