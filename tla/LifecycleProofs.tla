--------------------------- MODULE LifecycleProofs ---------------------------
(***************************************************************************)
(* What Lifecycle does for every number of API requests: ports, flags and  *)
(* listeners agree, and neither a failed Start nor a Stop leaves a port    *)
(* open.                                                                   *)
(***************************************************************************)
EXTENDS Lifecycle, TLAPS

-----------------------------------------------------------------------------
(* The port Start has opened and not stored yet.                           *)
Storing == IF start = "store" THEN {Ports[at]} ELSE {}

(* Start has not come to serve the API: nobody can ask for a switch.       *)
BeforeApi == at < 3 \/ (at = 3 /\ start # "store")

(* Every open port is one e refers to, or the one Start is about to store. *)
Accounted == /\ Opened = held \cup Storing
             /\ held \cap Storing = {}

Progress ==
    /\ start = "idle" => at = 1 /\ ~running /\ stop = "idle" /\ ~early
    /\ start = "store" => at <= 3
    /\ start = "up" => at = 4
    /\ start = "failed" => BeforeApi
    /\ BeforeApi => "api" \notin Opened /\ \A h \in Handler : wanted[h] = None
    /\ (stop # "idle" \/ early) => ~running

Failed == start = "failed" => held = {}

Flags ==
    /\ running /\ start # "failed" => enabled = held \cap Proxy
    /\ ~running /\ ~early => start \notin {"listen", "store"} /\ enabled = {}

Closed ==
    ~running /\ ~early =>
        /\ stop = "idle" => held = {}
        /\ stop \in {"drain", "close"} => "api" \notin held

IInv == TypeOK /\ Accounted /\ Progress /\ Failed /\ Flags /\ Closed

-----------------------------------------------------------------------------
(* The three ports are different ones, and Start takes them in order.      *)
LEMMA PortFacts ==
    /\ Port = {"server", "client", "api"}
    /\ Ports[1] = "server" /\ Ports[2] = "client" /\ Ports[3] = "api"
BY DEF Port, Ports

(* An engine that was made and not started.                                *)
LEMMA InitInv == Init => IInv
<1> SUFFICES ASSUME Init PROVE IInv
  OBVIOUS
<1> USE PortFacts
<1>1. Opened = {} /\ Storing = {}
  BY DEF Init, Opened, Storing
<1>2. TypeOK
  <2>1. /\ socket \in [Port -> {"free", "foreign", "open"}]
        /\ wanted \in [Handler -> Switch \cup {None}]
    BY DEF Init
  <2>2. running = FALSE /\ early = FALSE
    BY DEF Init
  <2>3. running \in BOOLEAN /\ early \in BOOLEAN
    BY <2>2
  <2>4. configured \subseteq Port
    BY DEF Init
  <2>5. /\ enabled = {} /\ held = {} /\ accepting = {}
        /\ start = "idle" /\ stop = "idle" /\ at \in 1 .. 4
    BY DEF Init
  <2> QED
    BY <1>1, <2>1, <2>3, <2>4, <2>5 DEF TypeOK
<1>3. Accounted /\ Progress /\ Failed /\ Flags /\ Closed
  BY <1>1 DEF Init, Accounted, Progress, Failed, Flags, Closed
<1> QED
  BY <1>2, <1>3 DEF IInv

(* What Close leaves open.                                                 *)
LEMMA CloseFacts ==
    ASSUME TypeOK, NEW P \in SUBSET Port, Close(P)
    PROVE  /\ Opened' = Opened \ (held \cap P)
           /\ held' = held \ P
           /\ socket' \in [Port -> {"free", "foreign", "open"}]
           /\ accepting' \subseteq held' \cap Proxy
BY DEF Close, TypeOK, Opened

(* What opening a free port adds.                                          *)
LEMMA OpenFacts ==
    ASSUME TypeOK, NEW p \in Port, socket[p] = "free",
           socket' = [socket EXCEPT ![p] = "open"]
    PROVE  /\ Opened' = Opened \cup {p}
           /\ p \notin Opened
           /\ socket' \in [Port -> {"free", "foreign", "open"}]
BY DEF TypeOK, Opened

(* Start keeps account of what it has opened.                              *)
LEMMA StartStep ==
    ASSUME IInv, StartNext
    PROVE  IInv'
<1> USE PortFacts
<1>0. /\ TypeOK /\ Accounted /\ Progress /\ Failed /\ Flags /\ Closed
      /\ Proxy = {"server", "client"}
  BY DEF IInv, Proxy
<1>1. CASE StartBegin
  <2>1. Opened' = Opened /\ Storing = {} /\ Storing' = {}
    BY <1>1 DEF StartBegin, Opened, Storing
  <2>2. TypeOK'
    BY <1>0, <1>1, <2>1 DEF StartBegin, TypeOK
  <2>3. Accounted' /\ Progress' /\ Failed' /\ Flags' /\ Closed'
    BY <1>0, <1>1, <2>1
       DEF StartBegin, Accounted, Progress, Failed, Flags, Closed, BeforeApi, Unlocked
  <2> QED
    BY <2>2, <2>3 DEF IInv
<1>2. CASE SkipPort
  <2>1. Opened' = Opened /\ Storing = {} /\ Storing' = {}
    BY <1>2 DEF SkipPort, Opened, Storing
  <2>2. TypeOK' /\ at \in 1 .. 3 /\ at' = at + 1
    BY <1>0, <1>2, <2>1 DEF SkipPort, TypeOK
  <2>3. Accounted' /\ Failed' /\ Flags' /\ Closed'
    BY <1>0, <1>2, <2>1 DEF SkipPort, Accounted, Failed, Flags, Closed
  <2>4. Progress'
    BY <1>0, <1>2, <2>1, <2>2 DEF SkipPort, Progress, BeforeApi
  <2> QED
    BY <2>2, <2>3, <2>4 DEF IInv
<1>3. CASE Listen
  <2>1. /\ at \in 1 .. 3 /\ at' = at /\ Ports[at] \in Port
        /\ Storing = {} /\ Storing' = {Ports[at]}
    BY <1>0, <1>3 DEF Listen, TypeOK, Storing
  <2>2. /\ Opened' = Opened \cup {Ports[at]} /\ Ports[at] \notin Opened
        /\ socket' \in [Port -> {"free", "foreign", "open"}]
    BY <1>0, <1>3, <2>1, OpenFacts DEF Listen
  <2>3. TypeOK'
    BY <1>0, <1>3, <2>1, <2>2 DEF Listen, TypeOK
  <2>4. Accounted' /\ Failed' /\ Flags' /\ Closed'
    BY <1>0, <1>3, <2>1, <2>2 DEF Listen, Accounted, Failed, Flags, Closed
  <2>5. Progress'
    BY <1>0, <1>3, <2>1, <2>2 DEF Listen, Progress, BeforeApi
  <2> QED
    BY <2>3, <2>4, <2>5 DEF IInv
<1>4. CASE Store
  <2>1. /\ at \in 1 .. 3 /\ at' = at + 1 /\ Ports[at] \in Port
        /\ Storing = {Ports[at]} /\ Storing' = {} /\ Opened' = Opened
    BY <1>0, <1>4 DEF Store, TypeOK, Progress, Storing, Opened
  <2>2. held' = held \cup {Ports[at]} /\ held' = Opened'
    BY <1>0, <1>4, <2>1 DEF Store, Accounted
  <2>3. TypeOK'
    BY <1>0, <1>4, <2>1, <2>2 DEF Store, TypeOK
  <2>4. Accounted' /\ Failed' /\ Flags' /\ Closed'
    BY <1>0, <1>4, <2>1, <2>2 DEF Store, Accounted, Failed, Flags, Closed
  <2>5. Progress'
    BY <1>0, <1>4, <2>1, <2>2 DEF Store, Progress, BeforeApi
  <2> QED
    BY <2>3, <2>4, <2>5 DEF IInv
<1>5. CASE ListenFails
  <2>1. /\ Abandoned \in SUBSET Port /\ Abandoned = Proxy
        /\ Storing = {} /\ Storing' = {}
    BY <1>0, <1>5 DEF ListenFails, Abandoned, Storing
  <2>2. "api" \notin Opened /\ BeforeApi
    BY <1>0, <1>5 DEF ListenFails, TypeOK, Progress, BeforeApi
  <2>3. /\ Opened' = Opened \ (held \cap Abandoned)
        /\ held' = held \ Abandoned
        /\ socket' \in [Port -> {"free", "foreign", "open"}]
        /\ accepting' \subseteq held' \cap Proxy
    BY <1>0, <1>5, <2>1, CloseFacts DEF ListenFails
  <2>4. held' = {} /\ Opened' = {}
    BY <1>0, <2>1, <2>2, <2>3 DEF TypeOK, Accounted, Opened
  <2>5. TypeOK'
    BY <1>0, <1>5, <2>3, <2>4 DEF ListenFails, TypeOK
  <2>6. Accounted' /\ Failed' /\ Flags' /\ Closed'
    BY <1>0, <1>5, <2>1, <2>4 DEF ListenFails, Accounted, Failed, Flags, Closed
  <2>7. Progress'
    BY <1>0, <1>5, <2>2, <2>4 DEF ListenFails, Progress, BeforeApi
  <2> QED
    BY <2>5, <2>6, <2>7 DEF IInv
<1>6. CASE StartReturns
  <2>1. Opened' = Opened /\ Storing = {} /\ Storing' = {}
    BY <1>6 DEF StartReturns, Opened, Storing
  <2>2. TypeOK'
    BY <1>0, <1>6, <2>1 DEF StartReturns, TypeOK
  <2>3. Accounted' /\ Progress' /\ Failed' /\ Flags' /\ Closed'
    BY <1>0, <1>6, <2>1
       DEF StartReturns, Accounted, Progress, Failed, Flags, Closed, BeforeApi
  <2> QED
    BY <2>2, <2>3 DEF IInv
<1> QED
  BY <1>1, <1>2, <1>3, <1>4, <1>5, <1>6 DEF StartNext

(* Stop closes what e refers to, and nobody adds to it while it has e.mu.  *)
LEMMA StopStep ==
    ASSUME IInv, StopNext
    PROVE  IInv'
<1> USE PortFacts
<1>0. /\ TypeOK /\ Accounted /\ Progress /\ Failed /\ Flags /\ Closed
      /\ Proxy = {"server", "client"}
  BY DEF IInv, Proxy
<1>1. CASE StopBegin
  <2>1. Opened' = Opened /\ Storing' = Storing
    BY <1>1 DEF StopBegin, Opened, Storing
  <2>2. TypeOK'
    BY <1>0, <1>1, <2>1 DEF StopBegin, TypeOK
  <2>3. Accounted' /\ Failed' /\ Flags' /\ Closed'
    BY <1>0, <1>1, <2>1
       DEF StopBegin, Accounted, Failed, Flags, Closed, Progress
  <2>4. Progress'
    BY <1>0, <1>1, <2>1 DEF StopBegin, Progress, BeforeApi
  <2> QED
    BY <2>2, <2>3, <2>4 DEF IInv
<1>2. CASE StopApi
  <2>1. /\ Opened' = Opened \ (held \cap {"api"})
        /\ held' = held \ {"api"} /\ Storing' = Storing
        /\ socket' \in [Port -> {"free", "foreign", "open"}]
        /\ accepting' \subseteq held' \cap Proxy
    BY <1>0, <1>2, CloseFacts DEF StopApi, Storing
  <2>2. TypeOK'
    BY <1>0, <1>2, <2>1 DEF StopApi, TypeOK
  <2>3. Accounted' /\ Failed' /\ Flags' /\ Closed'
    BY <1>0, <1>2, <2>1
       DEF StopApi, Accounted, Failed, Flags, Closed, Progress
  <2>4. Progress'
    BY <1>0, <1>2, <2>1 DEF StopApi, Progress, BeforeApi
  <2> QED
    BY <2>2, <2>3, <2>4 DEF IInv
<1>3. CASE Drain
  <2>1. Opened' = Opened /\ Storing' = Storing
    BY <1>3 DEF Drain, Opened, Storing
  <2>2. TypeOK'
    BY <1>0, <1>3, <2>1 DEF Drain, TypeOK
  <2>3. Accounted' /\ Progress' /\ Failed' /\ Flags' /\ Closed'
    BY <1>0, <1>3, <2>1
       DEF Drain, Accounted, Failed, Flags, Closed, Progress, BeforeApi
  <2> QED
    BY <2>2, <2>3 DEF IInv
<1>4. CASE StopClose
  <2>1. /\ Opened' = Opened \ (held \cap Proxy)
        /\ held' = held \ Proxy /\ Storing' = Storing
        /\ socket' \in [Port -> {"free", "foreign", "open"}]
        /\ accepting' \subseteq held' \cap Proxy
    BY <1>0, <1>4, CloseFacts DEF StopClose, Storing
  <2>2. held \subseteq Port
    BY <1>0 DEF TypeOK, Opened
  <2>3. TypeOK'
    BY <1>0, <1>4, <2>1 DEF StopClose, TypeOK
  <2>4. Accounted' /\ Failed' /\ Flags' /\ Closed'
    BY <1>0, <1>4, <2>1, <2>2
       DEF StopClose, Accounted, Failed, Flags, Closed, Progress
  <2>5. Progress'
    BY <1>0, <1>4, <2>1 DEF StopClose, Progress, BeforeApi
  <2> QED
    BY <2>3, <2>4, <2>5 DEF IInv
<1> QED
  BY <1>1, <1>2, <1>3, <1>4 DEF StopNext

(* A request that is answered leaves flag and listener in agreement, and   *)
(* changes nothing unless the engine runs and Start has come to the API.   *)
LEMMA ServeStep ==
    ASSUME IInv, NEW h \in Handler, Arrive(h) \/ ServeNext(h)
    PROVE  IInv'
<1> USE PortFacts
<1>0. /\ TypeOK /\ Accounted /\ Progress /\ Failed /\ Flags /\ Closed
      /\ Proxy = {"server", "client"}
  BY DEF IInv, Proxy
<1> DEFINE p == wanted[h].proxy
<1>1. CASE Arrive(h)
  <2>1. Opened' = Opened /\ Storing' = Storing /\ "api" \in Opened
    BY <1>1 DEF Arrive, Opened, Storing
  <2>2. wanted' \in [Handler -> Switch \cup {None}]
    BY <1>0, <1>1 DEF Arrive, TypeOK
  <2>3. TypeOK'
    BY <1>0, <1>1, <2>1, <2>2 DEF Arrive, TypeOK
  <2>4. Accounted' /\ Progress' /\ Failed' /\ Flags' /\ Closed'
    BY <1>0, <1>1, <2>1
       DEF Arrive, Accounted, Failed, Flags, Closed, Progress, BeforeApi
  <2> QED
    BY <2>3, <2>4 DEF IInv
<1>2. ASSUME Answer(h)
      PROVE  /\ p \in Proxy /\ ~BeforeApi /\ stop = "idle"
             /\ wanted' \in [Handler -> Switch \cup {None}]
             /\ Storing' = Storing /\ BeforeApi' = BeforeApi
             /\ UNCHANGED <<configured, running, start, at, stop, early>>
  BY <1>0, <1>2 DEF Answer, TypeOK, Switch, Progress, Unlocked, Storing, BeforeApi
<1>3. CASE SwitchOn(h)
  <2>0. Answer(h)
    BY <1>3 DEF SwitchOn
  <2>1. /\ p \in Port /\ socket[p] = "free"
        /\ socket' = [socket EXCEPT ![p] = "open"]
    BY <1>0, <1>2, <1>3, <2>0 DEF SwitchOn
  <2>2. /\ Opened' = Opened \cup {p} /\ p \notin Opened
        /\ socket' \in [Port -> {"free", "foreign", "open"}]
    BY <1>0, <2>1, OpenFacts
  <2>3. /\ held' = held \cup {p} /\ enabled' = enabled \cup {p}
        /\ accepting' = accepting \cup {p} /\ p \in configured /\ running
    BY <1>3 DEF SwitchOn, MaySwitch
  <2>4. TypeOK'
    BY <1>0, <1>2, <2>0, <2>2, <2>3 DEF TypeOK
  <2>5. start # "failed"
    BY <1>0, <1>2, <2>0 DEF Progress
  <2>6. Accounted' /\ Failed' /\ Flags' /\ Closed'
    BY <1>0, <1>2, <2>0, <2>2, <2>3, <2>5 DEF Accounted, Failed, Flags, Closed
  <2>7. Progress'
    BY <1>0, <1>2, <2>0, <2>2, <2>3, <2>5 DEF Progress, BeforeApi
  <2> QED
    BY <2>4, <2>6, <2>7 DEF IInv
<1>4. CASE SwitchOff(h)
  <2>0. Answer(h)
    BY <1>4 DEF SwitchOff
  <2>1. /\ Opened' = Opened \ (held \cap {p}) /\ held' = held \ {p}
        /\ socket' \in [Port -> {"free", "foreign", "open"}]
        /\ accepting' \subseteq held' \cap Proxy
    BY <1>0, <1>2, <1>4, <2>0, CloseFacts DEF SwitchOff
  <2>2. enabled' = enabled \ {p} /\ running
    BY <1>4 DEF SwitchOff, MaySwitch
  <2>3. TypeOK'
    BY <1>0, <1>2, <2>0, <2>1, <2>2 DEF TypeOK
  <2>4. start # "failed"
    BY <1>0, <1>2, <2>0 DEF Progress
  <2>5. Accounted' /\ Failed' /\ Flags' /\ Closed'
    BY <1>0, <1>2, <2>0, <2>1, <2>2, <2>4 DEF Accounted, Failed, Flags, Closed
  <2>6. Progress'
    BY <1>0, <1>2, <2>0, <2>1, <2>2, <2>4 DEF Progress, BeforeApi
  <2> QED
    BY <2>3, <2>5, <2>6 DEF IInv
<1>5. CASE SwitchNothing(h)
  <2>0. Answer(h) /\ UNCHANGED <<enabled, held, socket, accepting>>
    BY <1>5 DEF SwitchNothing
  <2>1. Opened' = Opened
    BY <2>0 DEF Opened
  <2>2. TypeOK'
    BY <1>0, <1>2, <2>0, <2>1 DEF TypeOK
  <2>3. Accounted' /\ Progress' /\ Failed' /\ Flags' /\ Closed'
    BY <1>0, <1>2, <2>0, <2>1
       DEF Accounted, Failed, Flags, Closed, Progress, BeforeApi
  <2> QED
    BY <2>2, <2>3 DEF IInv
<1> QED
  BY <1>1, <1>3, <1>4, <1>5 DEF ServeNext

(* A failed Accept and other programs touch no port of this engine.        *)
LEMMA OtherStep ==
    ASSUME IInv, \/ \E p \in Proxy : AcceptFails(p)
                 \/ \E p \in Port : Foreign(p)
                 \/ UNCHANGED vars
    PROVE  IInv'
<1>0. TypeOK /\ Accounted /\ Progress /\ Failed /\ Flags /\ Closed
  BY DEF IInv
<1>1. /\ Opened' = Opened /\ Storing' = Storing /\ BeforeApi' = BeforeApi
      /\ UNCHANGED <<configured, running, enabled, held, start, at, stop, wanted, early>>
      /\ accepting' \subseteq accepting
      /\ socket' \in [Port -> {"free", "foreign", "open"}]
  BY <1>0 DEF AcceptFails, Foreign, vars, Opened, Storing, BeforeApi, TypeOK
<1>2. TypeOK'
  BY <1>0, <1>1 DEF TypeOK
<1>3. Accounted' /\ Progress' /\ Failed' /\ Flags' /\ Closed'
  BY <1>0, <1>1 DEF Accounted, Failed, Flags, Closed, Progress
<1> QED
  BY <1>2, <1>3 DEF IInv

(* IInv is inductive.                                                      *)
LEMMA NextInv == IInv /\ [Next]_vars => IInv'
BY StartStep, StopStep, ServeStep, OtherStep DEF Next

-----------------------------------------------------------------------------
(* Every reachable state is well typed; among other things the fields of e *)
(* never refer to a port this engine does not have open.                   *)
THEOREM LifecycleTypes == Spec => []TypeOK
<1>1. IInv => TypeOK
  BY DEF IInv
<1> QED
  BY <1>1, InitInv, NextInv, PTL DEF Spec

(* A Stop that comes after Start has returned leaves no port open, and no  *)
(* request that waited for it, of any number, opens one again.             *)
THEOREM LifecycleStopCloses == Spec => []StopClosesAll
<1>1. IInv => StopClosesAll
  BY DEF IInv, StopClosesAll, Unlocked, Accounted, Flags, Closed, Storing
<1> QED
  BY <1>1, InitInv, NextInv, PTL DEF Spec

(* A Start that fails at any port leaves none open.                        *)
THEOREM LifecycleFailedStart == Spec => []FailedStartCloses
<1>1. IInv => FailedStartCloses
  BY DEF IInv, FailedStartCloses, Accounted, Failed, Storing
<1> QED
  BY <1>1, InitInv, NextInv, PTL DEF Spec

(* The flags the API reports agree with the listeners while the engine     *)
(* runs and when it has been stopped.                                      *)
THEOREM LifecycleFlags == Spec => []FlagMatchesListener
<1>1. IInv => FlagMatchesListener
  BY DEF IInv, FlagMatchesListener, Unlocked, Accounted, Flags, Closed, Storing
<1> QED
  BY <1>1, InitInv, NextInv, PTL DEF Spec
=============================================================================
