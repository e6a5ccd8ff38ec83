---------------------------- MODULE DesktopProofs ----------------------------
(***************************************************************************)
(* Theorems about Desktop, for any numbers of requests, values, addresses  *)
(* and questions: its types, that settings the user was told of are kept   *)
(* across restarts, and that an undisturbed call repairs the system proxy. *)
(***************************************************************************)
EXTENDS Desktop, FiniteSetTheorems, TLAPS

-----------------------------------------------------------------------------
(* The settings.  The step that tells the user of a success is the last of *)
(* a request and relies on what the earlier ones have left: in memory, in  *)
(* the file, or in what was read from it before it was truncated.          *)
Writing(r) == setter[r] \in {"write", "truncated"}

OneWriter == \A q, r \in Setter : Writing(q) /\ Writing(r) => q = r

(* No request believes to be alone with a setting when it is not.          *)
AsksAlone ==
    \A q, r \in Setter :
        q # r /\ setter[q] # "idle" /\ setter[r] # "idle" /\ job[q].key = job[r].key
            => ~job[q].alone

Untold  == \A r \in Setter : setter[r] # "idle" => told[job[r].key] = None
HasRead == ~damaged => \A r \in Setter : setter[r] = "write" => read[r] = file

InMemory ==
    \A r \in Setter : setter[r] \in {"lock", "write", "truncated"} /\ job[r].alone
        => cfg[job[r].key] = job[r].value

(* What is on disk, or will be when the writer is done.                    *)
OnDisk ==
    ~damaged => \A k \in Key : told[k] # None =>
        /\ \A r \in Setter : setter[r] = "truncated" => read[r][k] = told[k]
        /\ (\A r \in Setter : setter[r] # "truncated") => file[k] = told[k]

SettingsInv ==
    /\ ConfigTypeOK /\ OneWriter
    /\ AsksAlone /\ Untold /\ HasRead /\ InMemory /\ OnDisk
    /\ SettingsKept

LEMMA WriterCount ==
    OneWriter => Cardinality({r \in Setter : setter[r] \in {"write", "truncated"}}) <= 1
<1> SUFFICES ASSUME OneWriter
             PROVE  Cardinality({r \in Setter : setter[r] \in {"write", "truncated"}}) <= 1
  OBVIOUS
<1> DEFINE W == {r \in Setter : setter[r] \in {"write", "truncated"}}
<1>1. CASE W = {}
  BY <1>1, FS_EmptySet
<1>2. CASE W # {}
  <2>1. PICK r \in W : TRUE
    BY <1>2
  <2>2. W = {r}
    BY <2>1 DEF OneWriter, Writing
  <2> HIDE DEF W
  <2>3. Cardinality(W) = 1
    BY <2>2, FS_Singleton
  <2> QED
    BY <2>3 DEF W
<1> QED
  BY <1>1, <1>2

(* A request changes its own place only.                                   *)
LEMMA OneSetter ==
    ASSUME ConfigTypeOK, NEW r \in Setter, NEW s \in {"idle", "memory", "lock", "write", "truncated"},
           setter' = [setter EXCEPT ![r] = s]
    PROVE  /\ setter' \in [Setter -> {"idle", "memory", "lock", "write", "truncated"}]
           /\ setter'[r] = s /\ \A q \in Setter \ {r} : setter'[q] = setter[q]
BY DEF ConfigTypeOK

LEMMA OneWriterKept ==
    ASSUME OneWriter, NEW r \in Setter, \A q \in Setter \ {r} : setter'[q] = setter[q],
           Writing(r)' => Writing(r)
    PROVE  OneWriter'
BY DEF OneWriter, Writing

LEMMA BusyIsAlive ==
    ASSUME ConfigTypeOK, NEW r \in Setter, setter[r] # "idle"
    PROVE  alive
BY DEF ConfigTypeOK, Idle

LEMMA CountKept == OneWriter' =>
    (Cardinality({r \in Setter : setter[r] \in {"write", "truncated"}}) <= 1)'
<1>1. (OneWriter => Cardinality({r \in Setter : setter[r] \in {"write", "truncated"}}) <= 1)'
  BY WriterCount, PTL
<1> QED
  BY <1>1

-----------------------------------------------------------------------------
LEMMA AskKeeps == ASSUME NEW r \in Setter PROVE SettingsInv /\ Ask(r) => SettingsInv'
<1> SUFFICES ASSUME SettingsInv, Ask(r) PROVE SettingsInv'
  OBVIOUS
<1>1. /\ alive /\ setter[r] = "idle" /\ setter' = [setter EXCEPT ![r] = "memory"]
      /\ UNCHANGED <<alive, how, cfg, file, read, damaged>>
  BY DEF Ask
<1>2. PICK k \in Key, v \in Value \cup {Default} :
         /\ job' = [q \in Setter |->
                IF q = r THEN [key |-> k, value |-> v, alone |-> Others(r, k) = {}]
                ELSE [job[q] EXCEPT !.alone = @ /\ q \notin Others(r, k)]]
         /\ told' = [told EXCEPT ![k] = None]
  BY DEF Ask
<1>3. ConfigTypeOK /\ OneWriter
  BY DEF SettingsInv
<1>4. /\ setter' \in [Setter -> {"idle", "memory", "lock", "write", "truncated"}]
      /\ setter'[r] = "memory" /\ \A q \in Setter \ {r} : setter'[q] = setter[q]
  BY <1>1, <1>3, OneSetter
<1>5. /\ job'[r].key = k
      /\ job'[r].alone => \A q \in Setter \ {r} : ~(setter[q] # "idle" /\ job[q].key = k)
  BY <1>2 DEF Others
<1>6. ASSUME NEW q \in Setter, q # r
      PROVE  /\ job'[q].key = job[q].key /\ job'[q].value = job[q].value
             /\ job'[q].alone => job[q].alone /\ ~(setter[q] # "idle" /\ job[q].key = k)
             /\ job'[q] \in [key : Key, value : Value \cup {Default}, alone : BOOLEAN]
  <2>1. job[q] \in [key : Key, value : Value \cup {Default}, alone : BOOLEAN]
    BY <1>3 DEF ConfigTypeOK
  <2>2. job'[q] = [job[q] EXCEPT !.alone = @ /\ q \notin Others(r, k)]
    BY <1>2, <1>6
  <2>3. q \in Others(r, k) <=> setter[q] # "idle" /\ job[q].key = k
    BY <1>6 DEF Others
  <2> QED
    BY <2>1, <2>2, <2>3
<1>7. job' \in [Setter -> [key : Key, value : Value \cup {Default}, alone : BOOLEAN]]
  <2>1. job'[r] \in [key : Key, value : Value \cup {Default}, alone : BOOLEAN]
    <3>1. (Others(r, k) = {}) \in BOOLEAN
      OBVIOUS
    <3> QED
      BY <1>2, <3>1
  <2>2. \A q \in Setter : job'[q] \in [key : Key, value : Value \cup {Default}, alone : BOOLEAN]
    BY <1>6, <2>1
  <2> QED
    BY <1>2, <2>2
<1>8. told' \in [Key -> Value \cup {Default, None}] /\ told'[k] = None
      /\ \A j \in Key : told'[j] # None => told'[j] = told[j] /\ told[j] # None
  BY <1>2, <1>3 DEF ConfigTypeOK
<1>9. OneWriter'
  BY <1>1, <1>3, <1>4, OneWriterKept DEF Writing
<1>10. ConfigTypeOK'
  BY <1>1, <1>3, <1>4, <1>7, <1>8, <1>9, CountKept DEF ConfigTypeOK
<1>11. AsksAlone'
  BY <1>1, <1>4, <1>5, <1>6 DEF SettingsInv, AsksAlone
<1>12. Untold'
  <2>1. \A q \in Setter : setter[q] # "idle" => told[job[q].key] = None /\ job[q].key \in Key
    BY <1>3 DEF SettingsInv, Untold, ConfigTypeOK
  <2> QED
    BY <1>4, <1>5, <1>6, <1>8, <2>1 DEF Untold
<1>13. HasRead'
  BY <1>1, <1>4 DEF SettingsInv, HasRead
<1>14. InMemory'
  BY <1>1, <1>4, <1>6 DEF SettingsInv, InMemory
<1>15. OnDisk'
  BY <1>1, <1>4, <1>8 DEF SettingsInv, OnDisk
<1>16. SettingsKept'
  BY <1>1, <1>8 DEF SettingsInv, SettingsKept
<1> QED
  BY <1>9, <1>10, <1>11, <1>12, <1>13, <1>14, <1>15, <1>16 DEF SettingsInv

(* What a request leaves when it is over.                                  *)
LEMMA DoneFacts ==
    ASSUME ConfigTypeOK, NEW r \in Setter, Done(r)
    PROVE  /\ setter' \in [Setter -> {"idle", "memory", "lock", "write", "truncated"}]
           /\ job' \in [Setter -> [key : Key, value : Value \cup {Default}, alone : BOOLEAN]]
           /\ read' \in [Setter -> Settings]
           /\ setter'[r] = "idle"
           /\ \A q \in Setter \ {r} : /\ setter'[q] = setter[q] /\ job'[q] = job[q]
                                      /\ read'[q] = read[q]
<1>1. /\ NoJob \in [key : Key, value : Value \cup {Default}, alone : BOOLEAN]
      /\ Blank \in Settings
  BY DEF NoJob, Key, Blank, Settings
<1> QED
  BY <1>1 DEF ConfigTypeOK, Done

LEMMA RefuseKeeps == ASSUME NEW r \in Setter PROVE SettingsInv /\ Refuse(r) => SettingsInv'
<1> SUFFICES ASSUME SettingsInv, Refuse(r) PROVE SettingsInv'
  OBVIOUS
<1>1. ConfigTypeOK /\ OneWriter /\ Done(r) /\ setter[r] = "memory"
      /\ UNCHANGED <<alive, how, cfg, file, told, damaged>>
  BY DEF Refuse, SettingsInv
<1>2. /\ setter' \in [Setter -> {"idle", "memory", "lock", "write", "truncated"}]
      /\ job' \in [Setter -> [key : Key, value : Value \cup {Default}, alone : BOOLEAN]]
      /\ read' \in [Setter -> Settings]
      /\ setter'[r] = "idle"
      /\ \A q \in Setter \ {r} : /\ setter'[q] = setter[q] /\ job'[q] = job[q]
                                 /\ read'[q] = read[q]
  BY <1>1, DoneFacts
<1>3. OneWriter'
  BY <1>1, <1>2, OneWriterKept DEF Writing
<1>4. ConfigTypeOK'
  BY <1>1, <1>2, <1>3, CountKept, BusyIsAlive DEF ConfigTypeOK
<1>5. AsksAlone' /\ Untold' /\ HasRead' /\ InMemory'
  BY <1>1, <1>2 DEF SettingsInv, AsksAlone, Untold, HasRead, InMemory
<1>6. OnDisk' /\ SettingsKept'
  BY <1>1, <1>2 DEF SettingsInv, OnDisk, SettingsKept
<1> QED
  BY <1>3, <1>4, <1>5, <1>6 DEF SettingsInv

(* A value is in memory for good unless another request is about the same  *)
(* setting, and then nobody has been told of it.                           *)
LEMMA SetMemoryKeeps == ASSUME NEW r \in Setter PROVE SettingsInv /\ SetMemory(r) => SettingsInv'
<1> SUFFICES ASSUME SettingsInv, SetMemory(r) PROVE SettingsInv'
  OBVIOUS
<1> DEFINE k == job[r].key
<1>1. /\ ConfigTypeOK /\ OneWriter /\ setter[r] = "memory" /\ alive
      /\ setter' = [setter EXCEPT ![r] = "lock"]
      /\ cfg' = [cfg EXCEPT ![job[r].key] = job[r].value]
      /\ UNCHANGED <<alive, how, file, job, read, told, damaged>>
  BY BusyIsAlive DEF SetMemory, SettingsInv
<1>2. /\ setter' \in [Setter -> {"idle", "memory", "lock", "write", "truncated"}]
      /\ setter'[r] = "lock" /\ \A q \in Setter \ {r} : setter'[q] = setter[q]
  BY <1>1, OneSetter
<1>3. /\ job[r].key \in Key /\ job[r].value \in Value \cup {Default}
      /\ \A q \in Setter : job[q].key \in Key
  BY <1>1 DEF ConfigTypeOK
<1>4. /\ cfg' \in Settings /\ cfg'[job[r].key] = job[r].value
      /\ \A j \in Key : j # job[r].key => cfg'[j] = cfg[j]
  BY <1>1, <1>3 DEF ConfigTypeOK, Settings
<1>5. OneWriter'
  BY <1>1, <1>2, OneWriterKept DEF Writing
<1>6. ConfigTypeOK'
  BY <1>1, <1>2, <1>4, <1>5, CountKept DEF ConfigTypeOK
<1>7. AsksAlone' /\ Untold' /\ HasRead'
  BY <1>1, <1>2 DEF SettingsInv, AsksAlone, Untold, HasRead
<1>8. InMemory'
  <2> SUFFICES ASSUME NEW q \in Setter, setter'[q] \in {"lock", "write", "truncated"},
                      job[q].alone
               PROVE  cfg'[job[q].key] = job[q].value
    BY <1>1 DEF InMemory
  <2>1. CASE q = r
    BY <1>4, <2>1
  <2>2. CASE q # r
    <3>1. job[q].key # job[r].key
      BY <1>1, <1>2, <2>2 DEF SettingsInv, AsksAlone
    <3> QED
      BY <1>2, <1>3, <1>4, <2>2, <3>1 DEF SettingsInv, InMemory
  <2> QED
    BY <2>1, <2>2
<1>9. OnDisk'
  BY <1>1, <1>2 DEF SettingsInv, OnDisk
<1>10. SettingsKept'
  <2>1. told[job[r].key] = None
    BY <1>1 DEF SettingsInv, Untold
  <2> QED
    BY <1>1, <1>4, <2>1 DEF SettingsInv, SettingsKept
<1> QED
  BY <1>5, <1>6, <1>7, <1>8, <1>9, <1>10 DEF SettingsInv

LEMMA ReadFileKeeps == ASSUME NEW r \in Setter PROVE SettingsInv /\ ReadFile(r) => SettingsInv'
<1> SUFFICES ASSUME SettingsInv, ReadFile(r) PROVE SettingsInv'
  OBVIOUS
<1>1. /\ ConfigTypeOK /\ OneWriter /\ setter[r] = "lock" /\ alive /\ ConfigFree
      /\ setter' = [setter EXCEPT ![r] = "write"]
      /\ UNCHANGED <<alive, how, cfg, file, job, told>>
  BY BusyIsAlive DEF ReadFile, SettingsInv
<1>2. /\ setter' \in [Setter -> {"idle", "memory", "lock", "write", "truncated"}]
      /\ setter'[r] = "write" /\ \A q \in Setter \ {r} : setter'[q] = setter[q]
  BY <1>1, OneSetter
<1>3. /\ read' \in [Setter -> Settings] /\ damaged' \in BOOLEAN
      /\ \A q \in Setter \ {r} : read'[q] = read[q]
      /\ ~damaged' => ~damaged /\ read'[r] = file
  <2>1. CASE read' = [read EXCEPT ![r] = file] /\ damaged' = damaged
    BY <1>1, <2>1 DEF ConfigTypeOK
  <2>2. CASE read' = [read EXCEPT ![r] = Blank] /\ damaged' = (damaged \/ file # Blank)
    <3>1. Blank \in Settings
      BY DEF Blank, Settings
    <3> QED
      BY <1>1, <2>2, <3>1 DEF ConfigTypeOK
  <2> QED
    BY <2>1, <2>2 DEF ReadFile
<1>4. OneWriter'
  BY <1>1, <1>2 DEF OneWriter, Writing, ConfigFree
<1>5. ConfigTypeOK'
  BY <1>1, <1>2, <1>3, <1>4, CountKept DEF ConfigTypeOK
<1>6. AsksAlone' /\ Untold' /\ HasRead' /\ InMemory'
  BY <1>1, <1>2, <1>3 DEF SettingsInv, AsksAlone, Untold, HasRead, InMemory
<1>7. OnDisk' /\ SettingsKept'
  BY <1>1, <1>2, <1>3 DEF SettingsInv, OnDisk, SettingsKept, ConfigFree
<1> QED
  BY <1>4, <1>5, <1>6, <1>7 DEF SettingsInv

(* What the file had is in the hands of the one writer.                    *)
LEMMA TruncateKeeps == ASSUME NEW r \in Setter PROVE SettingsInv /\ Truncate(r) => SettingsInv'
<1> SUFFICES ASSUME SettingsInv, Truncate(r) PROVE SettingsInv'
  OBVIOUS
<1>1. /\ ConfigTypeOK /\ OneWriter /\ setter[r] = "write" /\ alive
      /\ setter' = [setter EXCEPT ![r] = "truncated"]
      /\ file' = Blank
      /\ UNCHANGED <<alive, how, cfg, job, read, told, damaged>>
  BY BusyIsAlive DEF Truncate, SettingsInv
<1>2. /\ setter' \in [Setter -> {"idle", "memory", "lock", "write", "truncated"}]
      /\ setter'[r] = "truncated" /\ \A q \in Setter \ {r} : setter'[q] = setter[q]
  BY <1>1, OneSetter
<1>3. \A q \in Setter \ {r} : setter[q] \notin {"write", "truncated"}
  BY <1>1 DEF OneWriter, Writing
<1>4. OneWriter'
  BY <1>1, <1>2, OneWriterKept DEF Writing
<1>5. Blank \in Settings
  BY DEF Blank, Settings
<1>6. ConfigTypeOK'
  BY <1>1, <1>2, <1>4, <1>5, CountKept DEF ConfigTypeOK
<1>7. AsksAlone' /\ Untold' /\ HasRead' /\ InMemory'
  BY <1>1, <1>2, <1>3 DEF SettingsInv, AsksAlone, Untold, HasRead, InMemory
<1>8. OnDisk'
  <2>1. (~damaged => read[r] = file) /\ \A q \in Setter : setter[q] # "truncated"
    BY <1>1, <1>3 DEF SettingsInv, HasRead
  <2>2. ~damaged => \A k \in Key : told[k] # None => read[r][k] = told[k]
    BY <2>1 DEF SettingsInv, OnDisk
  <2> QED
    BY <1>1, <1>2, <1>3, <2>2 DEF OnDisk
<1>9. SettingsKept'
  BY <1>1 DEF SettingsInv, SettingsKept
<1> QED
  BY <1>4, <1>6, <1>7, <1>8, <1>9 DEF SettingsInv

(* Who is told is the only one who has been asking.                        *)
LEMMA Told ==
    ASSUME SettingsInv, NEW r \in Setter, setter[r] \in {"write", "truncated"}, Acknowledge(r)
    PROVE  /\ told' \in [Key -> Value \cup {Default, None}]
           /\ \A k \in Key : k # job[r].key => told'[k] = told[k]
           /\ told'[job[r].key] = None \/ (job[r].alone /\ told'[job[r].key] = job[r].value)
           /\ \A q \in Setter \ {r} : setter[q] # "idle" => told'[job[q].key] = None
           /\ told'[job[r].key] # None => cfg[job[r].key] = told'[job[r].key]
<1>1. ConfigTypeOK /\ \A q \in Setter : job[q].key \in Key /\ job[q].value \in Value \cup {Default}
  BY DEF SettingsInv, ConfigTypeOK
<1>2. told[job[r].key] = None /\ \A q \in Setter : setter[q] # "idle" => told[job[q].key] = None
  BY DEF SettingsInv, Untold
<1>3. /\ told' \in [Key -> Value \cup {Default, None}]
      /\ \A k \in Key : k # job[r].key => told'[k] = told[k]
      /\ told'[job[r].key] = IF job[r].alone THEN job[r].value ELSE told[job[r].key]
  BY <1>1 DEF Acknowledge, ConfigTypeOK
<1>4. ASSUME NEW q \in Setter \ {r}, setter[q] # "idle"
      PROVE  told'[job[q].key] = None
  <2>1. job[r].alone => job[q].key # job[r].key
    BY <1>4 DEF SettingsInv, AsksAlone
  <2> QED
    BY <1>1, <1>2, <1>3, <1>4, <2>1
<1>5. job[r].alone => cfg[job[r].key] = job[r].value
  BY DEF SettingsInv, InMemory
<1> QED
  BY <1>2, <1>3, <1>4, <1>5

LEMMA WriteFileKeeps == ASSUME NEW r \in Setter PROVE SettingsInv /\ WriteFile(r) => SettingsInv'
<1> SUFFICES ASSUME SettingsInv, WriteFile(r) PROVE SettingsInv'
  OBVIOUS
<1>1. /\ ConfigTypeOK /\ OneWriter /\ setter[r] = "truncated" /\ alive
      /\ file' = [read[r] EXCEPT ![job[r].key] = job[r].value]
      /\ Done(r) /\ Acknowledge(r)
      /\ UNCHANGED <<alive, how, cfg, damaged>>
  BY BusyIsAlive DEF WriteFile, SettingsInv
<1>2. /\ setter' \in [Setter -> {"idle", "memory", "lock", "write", "truncated"}]
      /\ job' \in [Setter -> [key : Key, value : Value \cup {Default}, alone : BOOLEAN]]
      /\ read' \in [Setter -> Settings]
      /\ setter'[r] = "idle"
      /\ \A q \in Setter \ {r} : /\ setter'[q] = setter[q] /\ job'[q] = job[q]
                                 /\ read'[q] = read[q]
  BY <1>1, DoneFacts
<1>3. /\ told' \in [Key -> Value \cup {Default, None}]
      /\ \A k \in Key : k # job[r].key => told'[k] = told[k]
      /\ told'[job[r].key] = None \/ (job[r].alone /\ told'[job[r].key] = job[r].value)
      /\ \A q \in Setter \ {r} : setter[q] # "idle" => told'[job[q].key] = None
      /\ told'[job[r].key] # None => cfg[job[r].key] = told'[job[r].key]
  BY <1>1, Told
<1>4. /\ file' \in Settings /\ file'[job[r].key] = job[r].value
      /\ \A k \in Key : k # job[r].key => file'[k] = read[r][k]
  <2>1. read[r] \in Settings /\ job[r].key \in Key /\ job[r].value \in Value \cup {Default}
    BY <1>1 DEF ConfigTypeOK
  <2> QED
    BY <1>1, <2>1 DEF Settings
<1>5. \A q \in Setter \ {r} : setter[q] \notin {"write", "truncated"}
  BY <1>1 DEF OneWriter, Writing
<1>6. OneWriter'
  BY <1>1, <1>2, OneWriterKept DEF Writing
<1>7. ConfigTypeOK'
  BY <1>1, <1>2, <1>3, <1>4, <1>6, CountKept DEF ConfigTypeOK
<1>8. AsksAlone' /\ HasRead' /\ InMemory'
  BY <1>1, <1>2, <1>5 DEF SettingsInv, AsksAlone, HasRead, InMemory
<1>9. Untold'
  BY <1>2, <1>3 DEF Untold
<1>10. OnDisk'
  <2> SUFFICES ASSUME ~damaged, NEW k \in Key, told'[k] # None
               PROVE  file'[k] = told'[k]
    BY <1>1, <1>2, <1>5 DEF OnDisk
  <2>1. CASE k = job[r].key
    BY <1>3, <1>4, <2>1
  <2>2. CASE k # job[r].key
    BY <1>1, <1>3, <1>4, <2>2 DEF SettingsInv, OnDisk
  <2> QED
    BY <2>1, <2>2
<1>11. SettingsKept'
  BY <1>1, <1>3 DEF SettingsInv, SettingsKept
<1> QED
  BY <1>6, <1>7, <1>8, <1>9, <1>10, <1>11 DEF SettingsInv

LEMMA WriteFailsKeeps == ASSUME NEW r \in Setter PROVE SettingsInv /\ WriteFails(r) => SettingsInv'
<1> SUFFICES ASSUME SettingsInv, WriteFails(r) PROVE SettingsInv'
  OBVIOUS
<1>1. /\ ConfigTypeOK /\ OneWriter /\ setter[r] \in {"write", "truncated"} /\ alive
      /\ damaged' = TRUE /\ Done(r)
      /\ Acknowledge(r) \/ UNCHANGED told
      /\ UNCHANGED <<alive, how, cfg, file>>
  BY BusyIsAlive DEF WriteFails, SettingsInv
<1>2. /\ setter' \in [Setter -> {"idle", "memory", "lock", "write", "truncated"}]
      /\ job' \in [Setter -> [key : Key, value : Value \cup {Default}, alone : BOOLEAN]]
      /\ read' \in [Setter -> Settings]
      /\ setter'[r] = "idle"
      /\ \A q \in Setter \ {r} : /\ setter'[q] = setter[q] /\ job'[q] = job[q]
                                 /\ read'[q] = read[q]
  BY <1>1, DoneFacts
<1>3. /\ told' \in [Key -> Value \cup {Default, None}]
      /\ \A q \in Setter \ {r} : setter[q] # "idle" => told'[job[q].key] = None
  <2>1. CASE Acknowledge(r)
    BY <1>1, <2>1, Told
  <2>2. CASE UNCHANGED told
    BY <1>1, <2>2 DEF SettingsInv, ConfigTypeOK, Untold
  <2> QED
    BY <1>1, <2>1, <2>2
<1>4. OneWriter'
  BY <1>1, <1>2, OneWriterKept DEF Writing
<1>5. ConfigTypeOK'
  BY <1>1, <1>2, <1>3, <1>4, CountKept DEF ConfigTypeOK
<1>6. AsksAlone' /\ HasRead' /\ InMemory'
  BY <1>1, <1>2 DEF SettingsInv, AsksAlone, HasRead, InMemory
<1>7. Untold'
  BY <1>2, <1>3 DEF Untold
<1>8. OnDisk' /\ SettingsKept'
  BY <1>1 DEF OnDisk, SettingsKept
<1> QED
  BY <1>4, <1>5, <1>6, <1>7, <1>8 DEF SettingsInv

-----------------------------------------------------------------------------
(* The daemon starts and ends.                                             *)
LEMMA StartDaemonKeeps == SettingsInv /\ StartDaemon => SettingsInv'
<1> SUFFICES ASSUME SettingsInv, StartDaemon PROVE SettingsInv'
  OBVIOUS
<1>1. /\ ConfigTypeOK /\ OneWriter /\ setter = Idle /\ ~alive /\ alive' = TRUE
      /\ UNCHANGED <<file, setter, job, read, told, damaged>>
  BY DEF StartDaemon, SettingsInv, ConfigTypeOK
<1> PICK h \in {"run", "plain"}, readable \in SUBSET {1, 2} :
        /\ cfg' = Loaded(h, readable)
        /\ how' = IF (IF h = "run" THEN 1 ELSE 2) \in readable THEN h ELSE "unread"
  BY DEF StartDaemon
<1>2. \A r \in Setter : setter[r] = "idle" /\ setter'[r] = "idle"
  BY <1>1 DEF Idle
<1>3. OneWriter'
  BY <1>2 DEF OneWriter, Writing
<1>4. cfg' \in Settings
  BY <1>1 DEF ConfigTypeOK, Loaded, Settings
<1>5. ConfigTypeOK'
  BY <1>1, <1>3, <1>4, CountKept DEF ConfigTypeOK
<1>6. AsksAlone' /\ Untold' /\ HasRead' /\ InMemory'
  BY <1>2 DEF AsksAlone, Untold, HasRead, InMemory
<1>7. OnDisk'
  BY <1>1 DEF SettingsInv, OnDisk
<1>8. SettingsKept'
  <2>1. how' = "run" => h = "run" /\ 1 \in readable
    OBVIOUS
  <2>2. how' = "run" => \A k \in Key : cfg'[k] = file[k]
    BY <2>1 DEF Loaded
  <2>3. ~damaged => \A k \in Key : told[k] # None => file[k] = told[k]
    BY <1>2 DEF SettingsInv, OnDisk
  <2> QED
    BY <1>1, <2>2, <2>3 DEF SettingsKept
<1> QED
  BY <1>3, <1>5, <1>6, <1>7, <1>8 DEF SettingsInv

LEMMA EndDaemonKeeps == SettingsInv /\ EndDaemon => SettingsInv'
<1> SUFFICES ASSUME SettingsInv, EndDaemon PROVE SettingsInv'
  OBVIOUS
<1>1. /\ ConfigTypeOK /\ alive' = FALSE
      /\ setter' = Idle /\ job' = Rest.job /\ read' = Rest.read
      /\ damaged' = (damaged \/ \E r \in Setter : setter[r] = "truncated")
      /\ cfg' = Blank
      /\ UNCHANGED <<how, file, told>>
  BY DEF EndDaemon, SettingsInv
<1>2. \A r \in Setter : setter'[r] = "idle"
  BY <1>1 DEF Idle
<1>3. OneWriter'
  BY <1>2 DEF OneWriter, Writing
<1>4. /\ setter' \in [Setter -> {"idle", "memory", "lock", "write", "truncated"}]
      /\ job' \in [Setter -> [key : Key, value : Value \cup {Default}, alone : BOOLEAN]]
      /\ read' \in [Setter -> Settings]
      /\ damaged' \in BOOLEAN /\ cfg' \in Settings
  BY <1>1 DEF Idle, Rest, NoJob, Blank, Key, Settings
<1>5. ConfigTypeOK'
  BY <1>1, <1>3, <1>4, CountKept DEF ConfigTypeOK
<1>6. AsksAlone' /\ Untold' /\ HasRead' /\ InMemory'
  BY <1>2 DEF AsksAlone, Untold, HasRead, InMemory
<1>7. OnDisk'
  BY <1>1, <1>2 DEF SettingsInv, OnDisk
<1>8. SettingsKept'
  BY <1>1 DEF SettingsKept
<1> QED
  BY <1>3, <1>5, <1>6, <1>7, <1>8 DEF SettingsInv

LEMMA SettingsInit == ConfigInit => SettingsInv
<1> SUFFICES ASSUME ConfigInit PROVE SettingsInv
  OBVIOUS
<1>1. \A r \in Setter : setter[r] = "idle"
  BY DEF ConfigInit, Idle
<1>2. OneWriter /\ AsksAlone /\ Untold /\ HasRead /\ InMemory
  BY <1>1 DEF OneWriter, Writing, AsksAlone, Untold, HasRead, InMemory
<1>3. ConfigTypeOK
  BY <1>2, WriterCount DEF ConfigInit, ConfigTypeOK, Idle, Rest, NoJob, Blank, Key, Settings
<1>4. OnDisk /\ SettingsKept
  BY DEF ConfigInit, OnDisk, SettingsKept
<1> QED
  BY <1>2, <1>3, <1>4 DEF SettingsInv

LEMMA SettingsNext == SettingsInv /\ [ConfigNext]_configVars => SettingsInv'
<1> SUFFICES ASSUME SettingsInv, [ConfigNext]_configVars PROVE SettingsInv'
  OBVIOUS
<1>1. ASSUME NEW r \in Setter, SetterNext(r) PROVE SettingsInv'
  BY <1>1, AskKeeps, RefuseKeeps, SetMemoryKeeps, ReadFileKeeps, TruncateKeeps,
     WriteFileKeeps, WriteFailsKeeps DEF SetterNext
<1>2. CASE UNCHANGED configVars
  BY <1>2 DEF configVars, SettingsInv, ConfigTypeOK, OneWriter, Writing, AsksAlone, Untold,
              HasRead, InMemory, OnDisk, SettingsKept
<1> QED
  BY <1>1, <1>2, StartDaemonKeeps, EndDaemonKeeps DEF ConfigNext

-----------------------------------------------------------------------------
(* The system proxy.  A call that is still clean is the only one, and what *)
(* it has written so far is there.                                         *)
Repairing(c) ==
    /\ \A d \in Caller \ {c} : caller[d] = "idle"
    /\ caller[c] \in {"address", "env"} => enable = (call[c] # NoAddr)
    /\ caller[c] = "address" => todo[c] = proxyEnvKeys
    /\ caller[c] = "env" =>
          /\ enable => address = call[c]
          /\ \A k \in proxyEnvKeys \ todo[c] :
               hkcu[k] = Content(k, call[c]) /\ own[k] = Content(k, call[c])

ProxyInv == ProxyTypeOK /\ \A c \in Caller : clean[c] => Repairing(c)

LEMMA ContentTyped ==
    ASSUME NEW e \in Environment, NEW k \in proxyEnvKeys, NEW a \in Addr \cup {NoAddr}
    PROVE  [e EXCEPT ![k] = Content(k, a)] \in Environment
<1>1. Content(k, a) \in Addr \cup {NoAddr, NoProxy}
  BY DEF Content
<1> QED
  BY <1>1 DEF Environment

(* A call that begins, or that writes, ends what others may rely on.       *)
LEMMA OneCaller ==
    ASSUME ProxyInv, NEW c \in Caller, caller[c] # "idle"
    PROVE  \A d \in Caller \ {c} : ~clean[d]
BY DEF ProxyInv, Repairing

LEMMA BeginKeeps ==
    ASSUME NEW c \in Caller, NEW a \in Addr \cup {NoAddr}
    PROVE  ProxyInv /\ Begin(c, a) => ProxyInv'
<1> SUFFICES ASSUME ProxyInv, Begin(c, a) PROVE ProxyInv'
  OBVIOUS
<1>1. ProxyTypeOK
  BY DEF ProxyInv
<1>2. /\ caller' = [caller EXCEPT ![c] = "enable"]
      /\ call' = [call EXCEPT ![c] = a]
      /\ clean' = [d \in Caller |-> IF d = c THEN Busy = {} ELSE FALSE]
      /\ UNCHANGED <<enable, address, hkcu, own, todo>>
  BY DEF Begin
<1>3. clean' \in [Caller -> BOOLEAN]
  BY <1>2, Zenon
<1>4. ProxyTypeOK'
  BY <1>1, <1>2, <1>3 DEF ProxyTypeOK
<1>5. /\ \A d \in Caller : clean'[d] => d = c /\ Busy = {}
      /\ Busy = {} => \A d \in Caller : caller[d] = "idle"
  BY <1>2 DEF Busy
<1>6. ASSUME NEW d \in Caller, clean'[d] PROVE Repairing(d)'
  BY <1>1, <1>2, <1>5, <1>6 DEF Repairing, ProxyTypeOK
<1> QED
  BY <1>4, <1>6 DEF ProxyInv

LEMMA WriteEnableKeeps ==
    ASSUME NEW c \in Caller PROVE ProxyInv /\ WriteEnable(c) => ProxyInv'
<1> SUFFICES ASSUME ProxyInv, WriteEnable(c) PROVE ProxyInv'
  OBVIOUS
<1>1. ProxyTypeOK /\ \A d \in Caller \ {c} : ~clean[d]
  BY OneCaller DEF ProxyInv, WriteEnable
<1>2. /\ caller[c] = "enable" /\ enable' = (call[c] # NoAddr)
      /\ caller' = [caller EXCEPT ![c] = IF call[c] = NoAddr THEN "env" ELSE "address"]
      /\ todo' = [todo EXCEPT ![c] = proxyEnvKeys]
      /\ UNCHANGED <<address, hkcu, own, call, clean>>
  BY DEF WriteEnable
<1>3. enable' \in BOOLEAN
  BY <1>2
<1>4. ProxyTypeOK'
  BY <1>1, <1>2, <1>3 DEF ProxyTypeOK
<1>5. clean[c] => Repairing(c)'
  BY <1>1, <1>2 DEF ProxyInv, Repairing, ProxyTypeOK
<1> QED
  BY <1>1, <1>2, <1>4, <1>5 DEF ProxyInv

LEMMA WriteAddressKeeps ==
    ASSUME NEW c \in Caller PROVE ProxyInv /\ WriteAddress(c) => ProxyInv'
<1> SUFFICES ASSUME ProxyInv, WriteAddress(c) PROVE ProxyInv'
  OBVIOUS
<1>1. ProxyTypeOK /\ \A d \in Caller \ {c} : ~clean[d]
  BY OneCaller DEF ProxyInv, WriteAddress
<1>2. /\ caller[c] = "address" /\ address' = call[c]
      /\ caller' = [caller EXCEPT ![c] = "env"]
      /\ UNCHANGED <<enable, hkcu, own, call, todo, clean>>
  BY DEF WriteAddress
<1>3. ProxyTypeOK'
  BY <1>1, <1>2 DEF ProxyTypeOK
<1>4. clean[c] => Repairing(c)'
  BY <1>1, <1>2 DEF ProxyInv, Repairing, ProxyTypeOK
<1> QED
  BY <1>1, <1>2, <1>3, <1>4 DEF ProxyInv

LEMMA WriteEnvKeeps ==
    ASSUME NEW c \in Caller, NEW k \in proxyEnvKeys
    PROVE  ProxyInv /\ WriteEnv(c, k) => ProxyInv'
<1> SUFFICES ASSUME ProxyInv, WriteEnv(c, k) PROVE ProxyInv'
  OBVIOUS
<1>1. /\ ProxyTypeOK /\ \A d \in Caller \ {c} : ~clean[d]
      /\ hkcu \in Environment /\ own \in Environment /\ call[c] \in Addr \cup {NoAddr}
  BY OneCaller DEF ProxyInv, WriteEnv, ProxyTypeOK
<1>2. /\ caller[c] = "env" /\ k \in todo[c]
      /\ own' = [own EXCEPT ![k] = Content(k, call[c])]
      /\ todo' = [todo EXCEPT ![c] = @ \ {k}]
      /\ UNCHANGED <<enable, address, caller, call>>
  BY DEF WriteEnv
<1>3. \/ hkcu' = [hkcu EXCEPT ![k] = Content(k, call[c])] /\ clean' = clean
      \/ hkcu' = hkcu /\ clean' = [clean EXCEPT ![c] = FALSE]
  BY DEF WriteEnv
<1>4. own' \in Environment /\ own'[k] = Content(k, call[c])
      /\ \A j \in proxyEnvKeys \ {k} : own'[j] = own[j]
  <2>1. Content(k, call[c]) \in Addr \cup {NoAddr, NoProxy}
        /\ Content(k, call[c]) \in {Content(k, a) : a \in Addr \cup {NoAddr}}
    BY <1>1 DEF Content
  <2> QED
    BY <1>1, <1>2, <2>1 DEF Environment
<1>5. todo' \in [Caller -> SUBSET proxyEnvKeys] /\ todo'[c] = todo[c] \ {k}
  BY <1>1, <1>2 DEF ProxyTypeOK
<1>6. CASE hkcu' = [hkcu EXCEPT ![k] = Content(k, call[c])] /\ clean' = clean
  <2>1. hkcu' \in Environment /\ hkcu'[k] = Content(k, call[c])
        /\ \A j \in proxyEnvKeys \ {k} : hkcu'[j] = hkcu[j]
    <3>1. Content(k, call[c]) \in Addr \cup {NoAddr, NoProxy}
          /\ Content(k, call[c]) \in {Content(k, a) : a \in Addr \cup {NoAddr}}
      BY <1>1 DEF Content
    <3> QED
      BY <1>1, <1>6, <3>1 DEF Environment
  <2>2. ProxyTypeOK'
    BY <1>1, <1>2, <1>4, <1>5, <1>6, <2>1 DEF ProxyTypeOK
  <2>3. clean[c] => Repairing(c)'
    BY <1>2, <1>4, <1>5, <2>1 DEF ProxyInv, Repairing
  <2> QED
    BY <1>1, <1>6, <2>2, <2>3 DEF ProxyInv
<1>7. CASE hkcu' = hkcu /\ clean' = [clean EXCEPT ![c] = FALSE]
  <2>1. clean' \in [Caller -> BOOLEAN] /\ \A d \in Caller : ~clean'[d]
    BY <1>1, <1>7 DEF ProxyTypeOK
  <2>2. ProxyTypeOK'
    BY <1>1, <1>2, <1>4, <1>5, <1>7, <2>1 DEF ProxyTypeOK
  <2> QED
    BY <2>1, <2>2 DEF ProxyInv
<1> QED
  BY <1>3, <1>6, <1>7

LEMMA ReturnsKeeps ==
    ASSUME ProxyInv, NEW c \in Caller, caller[c] # "idle", Returns(c),
           UNCHANGED <<enable, address, hkcu, own>>
    PROVE  ProxyInv'
<1>1. ProxyTypeOK /\ \A d \in Caller \ {c} : ~clean[d]
  BY OneCaller DEF ProxyInv
<1>2. clean' \in [Caller -> BOOLEAN] /\ \A d \in Caller : ~clean'[d]
  BY <1>1 DEF Returns, ProxyTypeOK
<1>3. ProxyTypeOK'
  BY <1>1, <1>2 DEF Returns, ProxyTypeOK
<1> QED
  BY <1>2, <1>3 DEF ProxyInv

LEMMA MeddleKeeps == ProxyInv /\ Meddle => ProxyInv'
<1> SUFFICES ASSUME ProxyInv, Meddle PROVE ProxyInv'
  OBVIOUS
<1>1. ProxyTypeOK /\ hkcu \in Environment
  BY DEF ProxyInv, ProxyTypeOK
<1>2. /\ enable' \in BOOLEAN /\ address' \in Addr \cup {NoAddr}
      /\ clean' = [c \in Caller |-> FALSE]
      /\ UNCHANGED <<own, caller, call, todo>>
  BY <1>1 DEF Meddle, ProxyTypeOK
<1>3. hkcu' \in Environment
  BY <1>1, ContentTyped DEF Meddle
<1>4. ProxyTypeOK'
  BY <1>1, <1>2, <1>3 DEF ProxyTypeOK
<1> QED
  BY <1>2, <1>4 DEF ProxyInv

LEMMA ProxyRestartKeeps == ProxyInv /\ ProxyRestart => ProxyInv'
BY DEF ProxyInv, ProxyTypeOK, ProxyRestart

LEMMA ProxyInitial == ProxyInit => ProxyInv
<1> SUFFICES ASSUME ProxyInit PROVE ProxyInv
  OBVIOUS
<1>1. hkcu \in Environment /\ own \in Environment
  BY DEF ProxyInit, Environment, Content
<1> QED
  BY <1>1 DEF ProxyInit, ProxyInv, ProxyTypeOK

LEMMA CallKeeps == ASSUME NEW c \in Caller PROVE ProxyInv /\ CallNext(c) => ProxyInv'
<1> SUFFICES ASSUME ProxyInv, CallNext(c) PROVE ProxyInv'
  OBVIOUS
<1>1. CASE Fails(c) \/ Answer(c)
  BY <1>1, ReturnsKeeps DEF Fails, Answer
<1> QED
  BY <1>1, WriteEnableKeeps, WriteAddressKeeps, WriteEnvKeeps DEF CallNext

-----------------------------------------------------------------------------
(* The desktop.  While the settings are the topic no call is under way.    *)
DesktopInv ==
    /\ SettingsInv /\ ProxyInv /\ DesktopTypeOK
    /\ topic = "settings" => Busy = {}

LEMMA TruthTyped == DesktopInv => Truth \in Answers
BY DEF DesktopInv, SettingsInv, ConfigTypeOK, Settings, Key, Truth, Answers

(* What the GUI and the topic add to the types.                            *)
LEMMA DesktopTypes ==
    SettingsInv /\ ProxyInv /\ topic \in {"settings", "proxy"} /\ shown \in Answers
        /\ poll \in [Poll -> Answers \cup {"idle"}] /\ (~alive => Busy = {})
        => DesktopTypeOK
BY DEF SettingsInv, ProxyInv, DesktopTypeOK

LEMMA GuiUnchanged ==
    ASSUME DesktopInv, UNCHANGED guiVars, topic' = topic
    PROVE  /\ topic' \in {"settings", "proxy"} /\ shown' \in Answers
           /\ poll' \in [Poll -> Answers \cup {"idle"}]
<1>1. Answers' = Answers
  BY DEF Answers, Offline
<1> QED
  BY <1>1 DEF DesktopInv, DesktopTypeOK, guiVars

LEMMA DesktopInitInv == DesktopInit => DesktopInv
<1> SUFFICES ASSUME DesktopInit PROVE DesktopInv
  OBVIOUS
<1>1. SettingsInv /\ ProxyInv
  BY SettingsInit, ProxyInitial DEF DesktopInit
<1>2. Busy = {}
  BY DEF DesktopInit, ProxyInit, Busy
<1>3. shown \in Answers /\ poll \in [Poll -> Answers \cup {"idle"}] /\ topic \in {"settings", "proxy"}
  BY DEF DesktopInit, Answers
<1> QED
  BY <1>1, <1>2, <1>3, DesktopTypes DEF DesktopInv

LEMMA DesktopNextInv == DesktopInv /\ [DesktopNext]_desktopVars => DesktopInv'
<1> SUFFICES ASSUME DesktopInv, [DesktopNext]_desktopVars PROVE DesktopInv'
  OBVIOUS
<1>1. /\ SettingsInv /\ ProxyInv /\ DesktopTypeOK
      /\ (topic = "settings" => Busy = {}) /\ (~alive => Busy = {})
      /\ topic \in {"settings", "proxy"}
      /\ poll \in [Poll -> Answers \cup {"idle"}] /\ shown \in Answers
  BY DEF DesktopInv, DesktopTypeOK
<1>2. (SettingsInv /\ ProxyInv /\ topic \in {"settings", "proxy"} /\ shown \in Answers
        /\ poll \in [Poll -> Answers \cup {"idle"}] /\ (~alive => Busy = {})
        => DesktopTypeOK)'
  BY DesktopTypes, PTL
<1>3. proxyVars' = proxyVars => ProxyInv' /\ Busy' = Busy
  BY <1>1 DEF proxyVars, ProxyInv, ProxyTypeOK, Repairing, Busy
<1>4. configVars' = configVars => SettingsInv' /\ alive' = alive
  BY <1>1, SettingsNext DEF configVars
<1>5. CASE End
  <2>1. SettingsInv'
    BY <1>1, <1>5, EndDaemonKeeps DEF End
  <2>2. ProxyInv' /\ Busy' = {}
    <3>1. CASE topic = "proxy"
      BY <1>1, <1>5, <3>1, ProxyRestartKeeps DEF End, ProxyRestart, Busy
    <3>2. CASE topic # "proxy"
      BY <1>1, <1>3, <1>5, <3>2 DEF End
    <3> QED
      BY <3>1, <3>2
  <2>3. UNCHANGED guiVars /\ topic' = topic
    BY <1>5 DEF End
  <2> QED
    BY <1>2, <2>1, <2>2, <2>3, GuiUnchanged DEF DesktopInv
<1>6. CASE Start
  <2>1. SettingsInv' /\ ProxyInv' /\ Busy' = Busy /\ alive' = TRUE
    BY <1>1, <1>3, <1>6, StartDaemonKeeps DEF Start, StartDaemon
  <2>2. UNCHANGED guiVars /\ topic' = topic
    BY <1>6 DEF Start
  <2> QED
    BY <1>1, <1>2, <2>1, <2>2, GuiUnchanged DEF DesktopInv
<1>7. CASE MeddleWithProxy
  <2>1. SettingsInv' /\ ProxyInv' /\ Busy' = Busy /\ alive' = alive
    BY <1>1, <1>4, <1>7, MeddleKeeps DEF MeddleWithProxy, Meddle, Busy
  <2>2. UNCHANGED guiVars /\ topic' = topic
    BY <1>7 DEF MeddleWithProxy
  <2> QED
    BY <1>1, <1>2, <2>1, <2>2, GuiUnchanged DEF DesktopInv
<1>8. ASSUME NEW r \in Setter, SetSetting(r) PROVE DesktopInv'
  <2>1. /\ SetterNext(r) /\ topic = "settings" /\ topic' = topic /\ poll' = poll
        /\ proxyVars' = proxyVars
    BY <1>8 DEF SetSetting
  <2>2. SettingsInv'
    BY <1>1, <2>1, SettingsNext DEF ConfigNext
  <2>3. ProxyInv' /\ Busy' = {}
    BY <1>1, <1>3, <2>1
  <2>4. Answers' = Answers
    BY DEF Answers, Offline
  <2>5. shown' \in Answers
    <3>1. job'[r].value \in Value \cup {Default}
      BY <2>2 DEF SettingsInv, ConfigTypeOK
    <3>2. shown' = shown \/ shown' = job'[r].value
      BY <1>8 DEF SetSetting
    <3> QED
      BY <1>1, <3>1, <3>2 DEF Answers
  <2> QED
    BY <1>1, <1>2, <2>1, <2>2, <2>3, <2>4, <2>5 DEF DesktopInv
<1>9. ASSUME NEW c \in Caller, SwitchProxy(c) PROVE DesktopInv'
  <2>1. /\ topic = "proxy" /\ alive /\ configVars' = configVars
        /\ UNCHANGED guiVars /\ topic' = topic
    BY <1>9 DEF SwitchProxy
  <2>2. ProxyInv'
    BY <1>1, <1>9, CallKeeps, BeginKeeps DEF SwitchProxy
  <2> QED
    BY <1>1, <1>2, <1>4, <2>1, <2>2, GuiUnchanged DEF DesktopInv
<1>10. ASSUME NEW p \in Poll, PollNext(p) PROVE DesktopInv'
  <2>1. /\ configVars' = configVars /\ proxyVars' = proxyVars /\ topic' = topic
    BY <1>10 DEF PollNext, PollServed, PollReturns
  <2>2. SettingsInv' /\ alive' = alive /\ ProxyInv' /\ Busy' = Busy
    BY <1>3, <1>4, <2>1
  <2>3. Answers' = Answers /\ Offline \in Answers /\ Truth \in Answers
    BY TruthTyped DEF Answers, Offline
  <2>4. shown' \in Answers /\ poll' \in [Poll -> Answers \cup {"idle"}]
    <3>1. CASE PollServed(p)
      BY <1>1, <2>3, <3>1 DEF PollServed
    <3>2. CASE PollReturns(p)
      BY <1>1, <3>2 DEF PollReturns
    <3> QED
      BY <1>10, <3>1, <3>2 DEF PollNext
  <2> QED
    BY <1>1, <1>2, <2>1, <2>2, <2>3, <2>4 DEF DesktopInv
<1>11. CASE UNCHANGED desktopVars
  <2>1. /\ configVars' = configVars /\ proxyVars' = proxyVars /\ topic' = topic
        /\ UNCHANGED guiVars
    BY <1>11 DEF desktopVars
  <2> QED
    BY <1>1, <1>2, <1>3, <1>4, <2>1, GuiUnchanged DEF DesktopInv
<1> QED
  BY <1>5, <1>6, <1>7, <1>8, <1>9, <1>10, <1>11 DEF DesktopNext

LEMMA DesktopAlways == DesktopSpec => []DesktopInv
BY DesktopInitInv, DesktopNextInv, PTL DEF DesktopSpec

-----------------------------------------------------------------------------
(* Every reachable state is well typed: at most one request is between     *)
(* reading config.json and writing it, and no call outlives its daemon.    *)
THEOREM DesktopTypesHold == DesktopSpec => []DesktopTypeOK
<1>1. DesktopInv => DesktopTypeOK
  BY DEF DesktopInv
<1> QED
  BY <1>1, DesktopAlways, PTL

(* Unless a write of config.json was cut short or failed, or a read of it  *)
(* failed before it was written anew, a daemon that "mops run" started and *)
(* that could read it uses what the user was told to be set, however many  *)
(* requests, stops and crashes there were.                                 *)
THEOREM DesktopKeepsSettings == DesktopSpec => []SettingsKept
<1>1. DesktopInv => SettingsKept
  BY DEF DesktopInv, SettingsInv
<1> QED
  BY <1>1, DesktopAlways, PTL

(* A call that nothing disturbs leaves registry, variables and what the    *)
(* API shows of them in agreement, whatever it found.                      *)
THEOREM DesktopCallRepairs == DesktopSpec => []CallRepairs
<1>1. DesktopInv => CallRepairs
  BY DEF DesktopInv, ProxyInv, ProxyTypeOK, Repairing, CallRepairs, Shown
<1> QED
  BY <1>1, DesktopAlways, PTL
=============================================================================
