------------------------------- MODULE Desktop ------------------------------
(***************************************************************************)
(* A desktop around one daemon: its settings (Config), the system proxy it *)
(* switches (SystemProxy), a daemon that ends and is started again, and    *)
(* the GUI, which shows what it last heard (gui/src/lib/store.ts).         *)
(*                                                                         *)
(* The GUI asks for the state every second, whether or not the answer to   *)
(* an earlier question is still under way, and shows whatever arrives.     *)
(*                                                                         *)
(* Settings and system proxy share nothing but the process.  In one        *)
(* behaviour the user is busy with one of the two: the variable topic      *)
(* bounds what is checked, not what is shown.                              *)
(***************************************************************************)
EXTENDS Config, SystemProxy

CONSTANT Poll   \* questions of the GUI whose answers may be under way at once

VARIABLES
    topic,      \* "settings" or "proxy"
    shown,      \* what the GUI shows of it, Offline if it knows no daemon
    poll        \* poll[p]: "idle" or the answer under way

guiVars     == <<shown, poll>>
desktopVars == <<configVars, proxyVars, topic, guiVars>>

Offline == "offline"

(* handleGetStatus, as far as the topic goes.                              *)
Truth   == IF topic = "settings" THEN cfg["download_dir"]
           ELSE IF enable THEN "on" ELSE "off"
Answers == Value \cup {Default, "on", "off", Offline}

DesktopTypeOK ==
    /\ ConfigTypeOK /\ ProxyTypeOK
    /\ topic \in {"settings", "proxy"}
    /\ shown \in Answers
    /\ poll \in [Poll -> Answers \cup {"idle"}]
    /\ ~alive => Busy = {}

DesktopInit ==
    /\ ConfigInit
    /\ ProxyInit
    /\ topic \in {"settings", "proxy"}
    /\ shown = Offline
    /\ poll = [p \in Poll |-> "idle"]

-----------------------------------------------------------------------------
(* Slip: calls of the daemon that ended are thought to go on.              *)
BugEnd == EndDaemon /\ UNCHANGED <<proxyVars, topic, guiVars>>

(* Whatever the daemon was doing for anybody ends with it.                 *)
End ==
    /\ EndDaemon
    /\ IF topic = "proxy" THEN ProxyRestart ELSE UNCHANGED proxyVars
    /\ UNCHANGED <<topic, guiVars>>

Start ==
    /\ StartDaemon
    /\ topic = "proxy" => how' = how
    /\ UNCHANGED <<proxyVars, topic, guiVars>>

(* updateDownloadDir shows the new directory before the daemon has it.     *)
SetSetting(r) ==
    /\ topic = "settings"
    /\ SetterNext(r)
    /\ \/ UNCHANGED shown
       \/ /\ Ask(r) /\ job'[r].key = "download_dir"
          /\ shown # Offline
          /\ shown' = job'[r].value
    /\ UNCHANGED <<proxyVars, topic, poll>>

SwitchProxy(c) ==
    /\ topic = "proxy" /\ alive
    /\ CallNext(c) \/ \E a \in Addr \cup {NoAddr} : Begin(c, a)
    /\ UNCHANGED <<configVars, topic, guiVars>>

MeddleWithProxy ==
    /\ topic = "proxy"
    /\ Meddle
    /\ UNCHANGED <<configVars, topic, guiVars>>

-----------------------------------------------------------------------------
(* fetchState.                                                             *)

(* Slip: the timer stops with the first question that is not answered.     *)
BugPolls == shown # Offline

Polls == TRUE

(* Questions about the proxy are asked one at a time: a bound.             *)
Room == topic = "proxy" => \A p \in Poll : poll[p] = "idle"

(* The daemon reads what it answers, or there is none that could.          *)
PollServed(p) ==
    /\ poll[p] = "idle"
    /\ Polls /\ Room
    /\ poll' = [poll EXCEPT ![p] = IF alive THEN Truth ELSE Offline]
    /\ UNCHANGED <<configVars, proxyVars, topic, shown>>

PollReturns(p) ==
    /\ poll[p] # "idle"
    /\ shown' = poll[p]
    /\ poll' = [poll EXCEPT ![p] = "idle"]
    /\ UNCHANGED <<configVars, proxyVars, topic>>

PollNext(p) == PollServed(p) \/ PollReturns(p)

DesktopNext ==
    \/ End \/ Start \/ MeddleWithProxy
    \/ \E r \in Setter : SetSetting(r)
    \/ \E c \in Caller : SwitchProxy(c)
    \/ \E p \in Poll : PollNext(p)

(* The timer of the GUI ticks, and questions are answered or fail, though  *)
(* one may hang as long as others do not.                                  *)
DesktopSpec ==
    /\ DesktopInit /\ [][DesktopNext]_desktopVars
    /\ WF_desktopVars(\E p \in Poll : PollNext(p))

-----------------------------------------------------------------------------
(* What the GUI shows becomes right and stays so once nothing changes any  *)
(* more, although answers may be old when they arrive and settings are     *)
(* shown before they are made.                                             *)
GuiCatchesUp ==
    /\ \A a \in Answers \ {Offline} :
         <>[](alive /\ Truth = a /\ setter = Idle) => <>[](shown = a)
    /\ <>[]~alive => <>[](shown = Offline)
=============================================================================
