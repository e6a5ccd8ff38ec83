------------------------------ MODULE Lifecycle ------------------------------
(***************************************************************************)
(* Starting and stopping an engine (src/pkg/mops/engine.go, api.go) while  *)
(* API requests switch its two proxies on and off and other programs take  *)
(* and release its ports.                                                  *)
(*                                                                         *)
(* Start holds e.mu only to set running; it opens the ports afterwards,    *)
(* without the lock.  Stop holds e.mu throughout, up to two seconds of     *)
(* which it waits for API requests that may themselves want e.mu.  The     *)
(* switches are done under e.mu.  An engine is started once, by            *)
(* program.run or runDaemon; the service manager may stop it at any time.  *)
(***************************************************************************)
EXTENDS Naturals, Sequences, FiniteSets

CONSTANTS
    Handler     \* API requests served at the same time

Proxy == {"server", "client"}
Ports == <<"server", "client", "api">>      \* in the order of Start
Port  == {Ports[i] : i \in 1 .. 3}

VARIABLES
    configured, \* the ports of e.cfg that are not 0
    running,    \* e.running
    enabled,    \* e.serverRunning and e.clientRunning: the set that is TRUE
    held,       \* ports whose open listener e's fields refer to
    socket,     \* socket[p]: "free", "foreign", or "open" by this engine
    accepting,  \* proxies whose accept loop runs
    start,      \* Start: "idle", "listen", "store", "up" or "failed"
    at,         \* index of the port Start is at
    stop,       \* Stop: "idle", "api", "drain" or "close"; it holds e.mu
    wanted,     \* wanted[h]: the switch request h is to make, None if idle
    early       \* history: a Stop took effect before Start had returned

vars == <<configured, running, enabled, held, socket, accepting, start, at, stop, wanted, early>>

None     == [proxy |-> "none", on |-> FALSE]
Switch   == [proxy : Proxy, on : BOOLEAN]
Unlocked == stop = "idle"
Opened   == {p \in Port : socket[p] = "open"}

TypeOK ==
    /\ running \in BOOLEAN
    /\ enabled \subseteq Proxy
    /\ held \subseteq Opened
    /\ Opened \subseteq configured
    /\ configured \subseteq Port
    /\ socket \in [Port -> {"free", "foreign", "open"}]
    /\ accepting \subseteq held \cap Proxy
    /\ start \in {"idle", "listen", "store", "up", "failed"}
    /\ at \in 1 .. 4
    /\ stop \in {"idle", "api", "drain", "close"}
    /\ wanted \in [Handler -> Switch \cup {None}]
    /\ early \in BOOLEAN

Init ==
    /\ configured \in SUBSET Port
    /\ running = FALSE
    /\ enabled = {} /\ held = {} /\ accepting = {}
    /\ socket \in [Port -> {"free", "foreign"}]
    /\ start = "idle" /\ at = 1
    /\ stop = "idle"
    /\ wanted = [h \in Handler |-> None]
    /\ early = FALSE

(* Slip: the field is set to nil before the listener is closed.            *)
BugClose(P) ==
    /\ held' = held \ P
    /\ UNCHANGED <<socket, accepting>>

(* Closing the listeners e refers to among the ports P ends their accept   *)
(* loops; closing one twice or a nil one has no effect.                    *)
Close(P) ==
    /\ held' = held \ P
    /\ socket' = [p \in Port |-> IF p \in held \cap P THEN "free" ELSE socket[p]]
    /\ accepting' = accepting \ P

-----------------------------------------------------------------------------
(* Start.                                                                  *)
StartBegin ==
    /\ start = "idle"
    /\ Unlocked
    /\ running' = TRUE
    /\ start' = "listen"
    /\ UNCHANGED <<configured, enabled, held, socket, accepting, at, stop, wanted, early>>

SkipPort ==
    /\ start = "listen" /\ at <= 3
    /\ Ports[at] \notin configured
    /\ at' = at + 1
    /\ UNCHANGED <<configured, running, enabled, held, socket, accepting, start, stop, wanted, early>>

Listen ==
    /\ start = "listen" /\ at <= 3
    /\ Ports[at] \in configured
    /\ socket[Ports[at]] = "free"
    /\ socket' = [socket EXCEPT ![Ports[at]] = "open"]
    /\ start' = "store"
    /\ UNCHANGED <<configured, running, enabled, held, accepting, at, stop, wanted, early>>

(* The field and the flag are written without e.mu; nobody looks at one    *)
(* between the two writes and sees what he would not see before or after.  *)
Store ==
    /\ start = "store"
    /\ held' = held \cup {Ports[at]}
    /\ enabled' = enabled \cup ({Ports[at]} \cap Proxy)
    /\ accepting' = accepting \cup ({Ports[at]} \cap Proxy)
    /\ start' = "listen"
    /\ at' = at + 1
    /\ UNCHANGED <<configured, running, socket, stop, wanted, early>>

(* Slip: when the API port is taken the client's listener is forgotten.    *)
BugAbandoned == {"server"}

Abandoned == {"server", "client"}

(* The port is taken: what was opened is closed, the flags stay as they    *)
(* are.                                                                    *)
ListenFails ==
    /\ start = "listen" /\ at <= 3
    /\ Ports[at] \in configured
    /\ socket[Ports[at]] # "free"
    /\ Close(Abandoned)
    /\ start' = "failed"
    /\ UNCHANGED <<configured, running, enabled, at, stop, wanted, early>>

StartReturns ==
    /\ start = "listen" /\ at = 4
    /\ start' = "up"
    /\ UNCHANGED <<configured, running, enabled, held, socket, accepting, at, stop, wanted, early>>

-----------------------------------------------------------------------------
(* Stop.                                                                   *)

(* Nothing is done unless the engine is marked running.                    *)
StopBegin ==
    /\ Unlocked
    /\ running
    /\ running' = FALSE
    /\ enabled' = {}
    /\ stop' = "api"
    /\ early' = (early \/ start \in {"listen", "store"})
    /\ UNCHANGED <<configured, held, socket, accepting, start, at, wanted>>

(* Shutdown closes the API listener first, then waits for the requests.    *)
StopApi ==
    /\ stop = "api"
    /\ Close({"api"})
    /\ stop' = IF "api" \in held THEN "drain" ELSE "close"
    /\ UNCHANGED <<configured, running, enabled, start, at, wanted, early>>

(* Slip: Shutdown gets a context without a deadline.                       *)
BugMayGiveUp == FALSE

(* Shutdown gives up after two seconds.                                    *)
MayGiveUp == TRUE

Drain ==
    /\ stop = "drain"
    /\ MayGiveUp \/ \A h \in Handler : wanted[h] = None
    /\ stop' = "close"
    /\ UNCHANGED <<configured, running, enabled, held, socket, accepting, start, at, wanted, early>>

StopClose ==
    /\ stop = "close"
    /\ Close(Proxy)
    /\ stop' = "idle"
    /\ UNCHANGED <<configured, running, enabled, start, at, wanted, early>>

-----------------------------------------------------------------------------
(* SetServerEnabled and SetClientEnabled, from an API request.             *)
Arrive(h) ==
    /\ wanted[h] = None
    /\ socket["api"] = "open"
    /\ \E s \in Switch : wanted' = [wanted EXCEPT ![h] = s]
    /\ UNCHANGED <<configured, running, enabled, held, socket, accepting, start, at, stop, early>>

Answer(h) ==
    /\ Unlocked
    /\ wanted[h] # None
    /\ wanted' = [wanted EXCEPT ![h] = None]
    /\ UNCHANGED <<configured, running, start, at, stop, early>>

(* Slip: the switch does not ask whether the engine is still running.      *)
BugMaySwitch(h, on) == wanted[h].on = on

(* A request that waited for e.mu behind Stop finds the engine stopped.    *)
MaySwitch(h, on) == running /\ wanted[h].on = on

SwitchOn(h) ==
    LET p == wanted[h].proxy IN
    /\ Answer(h)
    /\ MaySwitch(h, TRUE)
    /\ p \notin enabled /\ p \in configured /\ socket[p] = "free"
    /\ socket' = [socket EXCEPT ![p] = "open"]
    /\ held' = held \cup {p}
    /\ enabled' = enabled \cup {p}
    /\ accepting' = accepting \cup {p}

(* Slip: the flag is left as it was.                                       *)
BugSwitchOff(h) ==
    LET p == wanted[h].proxy IN
    /\ Answer(h)
    /\ MaySwitch(h, FALSE)
    /\ p \in enabled
    /\ Close({p})
    /\ UNCHANGED enabled

SwitchOff(h) ==
    LET p == wanted[h].proxy IN
    /\ Answer(h)
    /\ MaySwitch(h, FALSE)
    /\ p \in enabled
    /\ Close({p})
    /\ enabled' = enabled \ {p}

(* Not running, switched as wanted already, not configured or port taken.  *)
SwitchNothing(h) ==
    LET p == wanted[h].proxy IN
    /\ Answer(h)
    /\ \/ ~running
       \/ wanted[h].on = (p \in enabled)
       \/ wanted[h].on /\ (p \notin configured \/ socket[p] # "free")
    /\ UNCHANGED <<enabled, held, socket, accepting>>

-----------------------------------------------------------------------------
(* The accept loops return at the first error of Accept, of whatever kind. *)
AcceptFails(p) ==
    /\ p \in accepting
    /\ accepting' = accepting \ {p}
    /\ UNCHANGED <<configured, running, enabled, held, socket, start, at, stop, wanted, early>>

(* Other programs.                                                         *)
Foreign(p) ==
    /\ socket[p] # "open"
    /\ socket' = [socket EXCEPT ![p] = IF @ = "free" THEN "foreign" ELSE "free"]
    /\ UNCHANGED <<configured, running, enabled, held, accepting, start, at, stop, wanted, early>>

StartNext == StartBegin \/ SkipPort \/ Listen \/ Store \/ ListenFails \/ StartReturns
StopNext  == StopBegin \/ StopApi \/ Drain \/ StopClose
ServeNext(h) == SwitchOn(h) \/ SwitchOff(h) \/ SwitchNothing(h)

Next ==
    \/ StartNext
    \/ StopNext
    \/ \E h \in Handler : Arrive(h) \/ ServeNext(h)
    \/ \E p \in Proxy : AcceptFails(p)
    \/ \E p \in Port : Foreign(p)

Spec == Init /\ [][Next]_vars

-----------------------------------------------------------------------------
(* A stopped engine has no port open, also when requests to switch a proxy *)
(* on were waiting while it was stopped: none of them reopens a port.  A   *)
(* Stop that overtakes Start is another matter, see StoppedIsClosed.       *)
StopClosesAll ==
    ~running /\ Unlocked /\ ~early => Opened = {}

(* A Start that fails half-way leaves no port open.                        *)
FailedStartCloses ==
    start = "failed" /\ Unlocked => Opened = {}

(* While the engine runs, the flag the API reports and its listener agree, *)
(* whatever the order of the switches: in particular a proxy is never kept *)
(* off because this engine itself still has its port.                      *)
FlagMatchesListener ==
    start = "up" /\ Unlocked /\ ~early => enabled = Opened \cap Proxy

(* engine.go: "Stop gracefully stops the engine."  When Start and Stop     *)
(* have both returned and the engine is not running, its ports are closed. *)
StoppedIsClosed ==
    ~running /\ Unlocked /\ start \in {"up", "failed"} => Opened = {}

(* engine.go: GetServerEnabled "returns whether server proxy is currently  *)
(* running".  Somebody accepts connections on a proxy that is enabled.     *)
EnabledIsServed ==
    start = "up" /\ Unlocked /\ ~early => enabled \subseteq accepting
=============================================================================
