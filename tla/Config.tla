------------------------------- MODULE Config -------------------------------
(***************************************************************************)
(* The settings a user can change while the daemon runs, in memory         *)
(* (e.cfg) and in config.json (config.go), across stops, crashes and       *)
(* restarts of the daemon.                                                 *)
(*                                                                         *)
(* SetDownloadDir and SetAdvertise change memory under e.mu and then the   *)
(* file under configMu: UpdatePersistentConfig reads it, changes the one   *)
(* setting, truncates the file and writes it anew.  A truncated file, or   *)
(* one that cannot be read, is taken for one without settings.             *)
(*                                                                         *)
(* The daemon starts as "mops run" (the desktop does that) or as plain     *)
(* "mops", which is what the installed Windows service runs; here no flag  *)
(* is given on the command line.                                           *)
(***************************************************************************)
EXTENDS Naturals, FiniteSets

CONSTANTS
    Setter,     \* API requests served at the same time
    Value,      \* what a setting may be set to
    Default     \* a setting as it is without config.json

ASSUME ConfigAssumption == Default \notin Value

Key == {"download_dir", "advertise"}

(* Settings whose flag has a default that is not empty: the advertised     *)
(* address has none.                                                       *)
FlagDefault == {"download_dir"}

VARIABLES
    alive,      \* a daemon runs
    how,        \* how it was started: "run", "plain", or "unread" if it could
                \* not read its settings then
    cfg,        \* its settings in memory
    file,       \* the settings in config.json, Default if not in it
    setter,     \* setter[r]: "idle", "memory", "lock", "write", "truncated"
    job,        \* job[r]: the setting and the value r is about, and whether no
                \* other request has been about that setting meanwhile
    read        \* read[r]: the settings r has read from the file

(***************************************************************************)
(* History: what the user has been told, see Acknowledge.                  *)
(***************************************************************************)
VARIABLES
    told,       \* told[k]: the value last set with success, None otherwise
    damaged     \* a write was cut short or failed, or the settings could not be
                \* read before they were written anew

configVars == <<alive, how, cfg, file, setter, job, read, told, damaged>>

None  == "none"
Blank == [k \in Key |-> Default]
NoJob == [key |-> "download_dir", value |-> Default, alone |-> TRUE]
Idle  == [r \in Setter |-> "idle"]
Settings == [Key -> Value \cup {Default}]
Rest  == [job |-> [r \in Setter |-> NoJob], read |-> [r \in Setter |-> Blank]]

ConfigTypeOK ==
    /\ alive \in BOOLEAN
    /\ how \in {"run", "plain", "unread"}
    /\ cfg \in Settings /\ file \in Settings
    /\ setter \in [Setter -> {"idle", "memory", "lock", "write", "truncated"}]
    /\ job \in [Setter -> [key : Key, value : Value \cup {Default}, alone : BOOLEAN]]
    /\ read \in [Setter -> Settings]
    /\ told \in [Key -> Value \cup {Default, None}]
    /\ damaged \in BOOLEAN
    /\ ~alive => setter = Idle
    /\ Cardinality({r \in Setter : setter[r] \in {"write", "truncated"}}) <= 1

ConfigInit ==
    /\ alive = FALSE /\ how = "run"
    /\ cfg = Blank /\ file = Blank
    /\ setter = Idle /\ job = Rest.job /\ read = Rest.read
    /\ told = [k \in Key |-> None]
    /\ damaged = FALSE

-----------------------------------------------------------------------------
(* Slip: "mops run" looks at the file after it has filled in the flags.    *)
BugLoaded(h, readable) ==
    [k \in Key |-> IF k \notin FlagDefault /\ 2 \in readable THEN file[k] ELSE Default]

(* LoadPersistentConfig takes what the file has over the flags, all of     *)
(* them if the file cannot be read.  NewEngine does so a second time and   *)
(* puts what it was given back on top.  "mops run" has looked at the file  *)
(* before; plain "mops" gives NewEngine the flags, with their defaults.    *)
Loaded(h, readable) ==
    [k \in Key |-> IF \/ h = "run" /\ 1 \in readable
                      \/ k \notin FlagDefault /\ 2 \in readable
                   THEN file[k] ELSE Default]

(* Each look at the file may fail; the one that counts is the first of     *)
(* "mops run" and the second of plain "mops".                              *)
StartDaemon ==
    /\ ~alive
    /\ alive' = TRUE
    /\ \E h \in {"run", "plain"}, readable \in SUBSET {1, 2} :
         /\ cfg' = Loaded(h, readable)
         /\ how' = IF (IF h = "run" THEN 1 ELSE 2) \in readable THEN h ELSE "unread"
    /\ UNCHANGED <<file, setter, job, read, told, damaged>>

(* The process ends, by Stop or by a crash, wherever its requests are.     *)
EndDaemon ==
    /\ alive
    /\ alive' = FALSE
    /\ cfg' = Blank
    /\ setter' = Idle /\ job' = Rest.job /\ read' = Rest.read
    /\ damaged' = (damaged \/ \E r \in Setter : setter[r] = "truncated")
    /\ UNCHANGED <<how, file, told>>

-----------------------------------------------------------------------------
(* handleConfig, SetDownloadDir, SetAdvertise.                             *)
Others(r, k) == {q \in Setter \ {r} : setter[q] # "idle" /\ job[q].key = k}

(* A download directory cannot be set to nothing.                          *)
Ask(r) ==
    /\ alive /\ setter[r] = "idle"
    /\ \E k \in Key, v \in Value \cup {Default} :
         /\ k = "download_dir" => v # Default
         /\ job' = [q \in Setter |->
                IF q = r THEN [key |-> k, value |-> v, alone |-> Others(r, k) = {}]
                ELSE [job[q] EXCEPT !.alone = @ /\ q \notin Others(r, k)]]
         /\ told' = [told EXCEPT ![k] = None]
    /\ setter' = [setter EXCEPT ![r] = "memory"]
    /\ UNCHANGED <<alive, how, cfg, file, read, damaged>>

Done(r) ==
    /\ setter' = [setter EXCEPT ![r] = "idle"]
    /\ job' = [job EXCEPT ![r] = NoJob]
    /\ read' = [read EXCEPT ![r] = Blank]

(* The directory cannot be made: nothing has changed.                      *)
Refuse(r) ==
    /\ setter[r] = "memory" /\ job[r].key = "download_dir"
    /\ Done(r)
    /\ UNCHANGED <<alive, how, cfg, file, told, damaged>>

SetMemory(r) ==
    /\ setter[r] = "memory"
    /\ cfg' = [cfg EXCEPT ![job[r].key] = job[r].value]
    /\ setter' = [setter EXCEPT ![r] = "lock"]
    /\ UNCHANGED <<alive, how, file, job, read, told, damaged>>

(* Slip: the file is read before configMu is taken.                        *)
BugConfigFree == TRUE

ConfigFree == \A q \in Setter : setter[q] \notin {"write", "truncated"}

(* An error of os.ReadFile or json.Unmarshal is ignored: the update goes   *)
(* on as if nothing had been stored.                                       *)
ReadFile(r) ==
    /\ setter[r] = "lock"
    /\ ConfigFree
    /\ \/ read' = [read EXCEPT ![r] = file] /\ damaged' = damaged
       \/ read' = [read EXCEPT ![r] = Blank] /\ damaged' = (damaged \/ file # Blank)
    /\ setter' = [setter EXCEPT ![r] = "write"]
    /\ UNCHANGED <<alive, how, cfg, file, job, told>>

Truncate(r) ==
    /\ setter[r] = "write"
    /\ file' = Blank
    /\ setter' = [setter EXCEPT ![r] = "truncated"]
    /\ UNCHANGED <<alive, how, cfg, job, read, told, damaged>>

(* The user is told of the success.  Requests for the same setting that    *)
(* are under way at the same time leave open which of them comes last.     *)
Acknowledge(r) ==
    told' = [told EXCEPT ![job[r].key] = IF job[r].alone THEN job[r].value ELSE @]

WriteFile(r) ==
    /\ setter[r] = "truncated"
    /\ file' = [read[r] EXCEPT ![job[r].key] = job[r].value]
    /\ Acknowledge(r)
    /\ Done(r)
    /\ UNCHANGED <<alive, how, cfg, damaged>>

(* The file cannot be opened or not be written to the end.  SetDownloadDir *)
(* reports success all the same.                                           *)
WriteFails(r) ==
    /\ setter[r] \in {"write", "truncated"}
    /\ damaged' = TRUE
    /\ IF job[r].key = "download_dir" THEN Acknowledge(r) ELSE UNCHANGED told
    /\ Done(r)
    /\ UNCHANGED <<alive, how, cfg, file>>

SetterNext(r) ==
    \/ Ask(r) \/ Refuse(r) \/ SetMemory(r) \/ ReadFile(r) \/ Truncate(r)
    \/ WriteFile(r) \/ WriteFails(r)

ConfigNext ==
    \/ StartDaemon \/ EndDaemon
    \/ \E r \in Setter : SetterNext(r)

ConfigSpec == ConfigInit /\ [][ConfigNext]_configVars

-----------------------------------------------------------------------------
(* What a user has set and was told to be set is what a running daemon     *)
(* uses, also after it was stopped or has crashed and was started by "mops *)
(* run", and whatever was set at the same time to other settings.  The     *)
(* exceptions: a write to the file was cut short or failed, or the file    *)
(* could not be read, by an update that then wrote it anew or by the       *)
(* daemon when it started.                                                 *)
SettingsKept ==
    alive /\ how = "run" /\ ~damaged =>
        \A k \in Key : told[k] # None => cfg[k] = told[k]

(* api_test.go: "Assert Engine B automatically loads customDesktopDir from *)
(* config.json!"  However the daemon is started.                           *)
SettingsReload ==
    alive /\ how # "unread" /\ ~damaged =>
        \A k \in Key : told[k] # None => cfg[k] = told[k]
=============================================================================
