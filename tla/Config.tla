------------------------------- MODULE Config -------------------------------
(***************************************************************************)
(* svc.config (service/config): the settings in shared memory, the System  *)
(* V semaphore that makes a lock for readers and writers of it, and the    *)
(* files the settings are loaded from and saved to.  Every database has a  *)
(* default file and two files that are written in turn, so that a save     *)
(* that is cut short leaves the other one; scripts/pf-getConfig chooses    *)
(* the one with the later LastTime.                                        *)
(* A save writes what was loaded: the only caller of configPut marks a     *)
(* class that has no file.  A file therefore is known by the start of      *)
(* svc.config that wrote it, 0 for the default.                            *)
(***************************************************************************)
EXTENDS Integers, FiniteSets

CONSTANTS
  Reader,        \* processes that read through lib/pfconfig
  Units,         \* SEM_MAX_COUNT
  LastDatabase,  \* databases[1 .. LastDatabase] are those with a file
  MaxStarts,     \* bound: how often svc.config is started
  ClockSteps,    \* what the system clock moves by from one start to the next
  Absent, Empty, Torn, None

ASSUME ConfigAssumption ==
  /\ IsFiniteSet(Reader)
  /\ Units \in Nat \ {0} /\ LastDatabase \in Nat \ {0} /\ MaxStarts \in Nat
  /\ ClockSteps \subseteq Int
  /\ None \notin Nat
  /\ Absent # Empty /\ Absent # Torn /\ Empty # Torn
  /\ \A f \in {Absent, Empty, Torn} : f \notin [gen : Nat, time : Nat]

Database == 1 .. LastDatabase
Slot == 0 .. 1
Default == 2
\* Cut is a LastTime of which the last digits are missing.
Cut == 1
FirstTime == 2
Lost == {Absent, Empty, Torn}
Saved == [gen : 0 .. MaxStarts, time : Nat]

VARIABLES
  file,         \* the files of a database: its two slots and its default
  saveCount,    \* the slot the next save of a database goes to
  now, starts,  \* the clock, and how often svc.config was started
  saves,        \* history: what was saved of a database, to the end
  pc, db, retry,
  sem, held,    \* the semaphore, None before semget, and units by process
  initialized, content,   \* Config: the flag, and what was loaded
  half          \* an update of the runtime class is half done

fvars == <<file, saveCount, saves>>
mvars == <<initialized, content, half>>
svars == <<sem, held>>
vars == <<fvars, now, starts, pc, db, retry, svars, mvars>>

Nothing == [d \in Database |-> None]

Init ==
  /\ file = [d \in Database |-> [k \in Slot \cup {Default} |-> Absent]]
  /\ saveCount = [d \in Database |-> 1] /\ saves = [d \in Database |-> {}]
  /\ now = FirstTime /\ starts = 0
  /\ pc = "off" /\ db = 1 /\ retry = 0
  /\ sem = None /\ held = [r \in Reader |-> 0]
  /\ initialized = FALSE /\ content = Nothing /\ half = FALSE

----------------------------------------------------------------------------
(* The semaphore *)

ConfigGet_asReader == sem # None /\ sem > 0 /\ sem' = sem - 1
\* semaLock takes all units at once.
ConfigGet == sem = Units /\ sem' = sem - Units

\* PFConfigGet of lib/pfconfig: a unit, when the semaphore exists.
ReaderLock(r) ==
  /\ held[r] = 0 /\ sem # None /\ sem > 0
  /\ sem' = sem - 1 /\ held' = [held EXCEPT ![r] = 1]
  /\ UNCHANGED <<fvars, now, starts, pc, db, retry, mvars>>

\* PFConfigPut; SEM_UNDO does the same when a reader dies.
ReaderUnlock(r) ==
  /\ held[r] = 1
  /\ sem' = sem + 1 /\ held' = [held EXCEPT ![r] = 0]
  /\ UNCHANGED <<fvars, now, starts, pc, db, retry, mvars>>

----------------------------------------------------------------------------
(* configInit *)

\* pf-run start, and memset, without the lock.  Between two starts the clock
\* of the system, which gettimeofday gives, may be set to another time.
Start ==
  /\ pc = "off" /\ starts < MaxStarts
  /\ starts' = starts + 1
  /\ \E step \in ClockSteps :
       /\ now + step >= FirstTime
       /\ now' = now + step
  /\ initialized' = FALSE /\ content' = Nothing /\ half' = FALSE
  /\ pc' = "semget" /\ db' = 1 /\ retry' = 0
  /\ UNCHANGED <<fvars, svars>>

\* semaInit: IPC_CREAT, and SETVAL only for a semaphore that was created.
SemaCreate ==
  /\ pc = "semget" /\ sem = None
  /\ sem' = 0 /\ pc' = "setval"
  /\ UNCHANGED <<fvars, now, starts, db, retry, held, mvars>>

SemaExists_setval == sem' = Units
SemaExists == UNCHANGED sem

SemaFound ==
  /\ pc = "semget" /\ sem # None /\ SemaExists
  /\ pc' = "load"
  /\ UNCHANGED <<fvars, now, starts, db, retry, held, mvars>>

SemaSetVal ==
  /\ pc = "setval"
  /\ sem' = Units /\ pc' = "load"
  /\ UNCHANGED <<fvars, now, starts, db, retry, held, mvars>>

\* pf-getConfig: 0 for a file that is not there or has no LastTime.
LastTime(d, k) == IF file[d][k] \in Lost THEN 0 ELSE file[d][k].time

ValidDBFile(d) ==
  IF LastTime(d, 0) = 0 /\ LastTime(d, 1) = 0 THEN Default
  ELSE IF LastTime(d, 0) >= LastTime(d, 1) THEN 0 ELSE 1

NextDatabase_early ==
  /\ retry' = 0 /\ initialized' = TRUE
  /\ IF db = LastDatabase
       THEN pc' = "run" /\ UNCHANGED db
       ELSE db' = db + 1 /\ UNCHANGED pc
\* dbInit goes on with the next database, or configInit ends.
NextDatabase ==
  /\ retry' = 0
  /\ IF db = LastDatabase
       THEN pc' = "run" /\ initialized' = TRUE /\ UNCHANGED db
       ELSE db' = db + 1 /\ UNCHANGED <<pc, initialized>>

NextSlot_same(k) == IF k = Default THEN 1 ELSE k
\* saveCount is the number of the file that was read, 0 for the default, and
\* counted on.
NextSlot(k) == IF k = Default THEN 1 ELSE 1 - k

\* getVaildDBContent copies the default when there is no file at all.
CopyDefault ==
  /\ pc = "load" /\ file[db][ValidDBFile(db)] = Absent
  /\ file' = [file EXCEPT ![db][Default] = Empty] /\ pc' = "copy"
  /\ UNCHANGED <<saveCount, saves, now, starts, db, retry, svars, mvars>>

CopyEnds ==
  /\ pc = "copy"
  /\ file' = [file EXCEPT ![db][Default] = [gen |-> 0, time |-> 0]]
  /\ pc' = "load"
  /\ UNCHANGED <<saveCount, saves, now, starts, db, retry, svars, mvars>>

\* JsonToMem.
Load ==
  /\ pc = "load" /\ file[db][ValidDBFile(db)] \notin Lost
  /\ content' = [content EXCEPT ![db] = file[db][ValidDBFile(db)].gen]
  /\ saveCount' = [saveCount EXCEPT ![db] = NextSlot(ValidDBFile(db))]
  /\ NextDatabase
  /\ UNCHANGED <<file, saves, now, starts, svars, half>>

\* cJSON_Parse fails: the file is removed and another one looked for, three
\* times at most; then dbInit goes on without the database.
LoadTorn ==
  /\ pc = "load" /\ file[db][ValidDBFile(db)] = Torn
  /\ IF retry < 3
       THEN /\ file' = [file EXCEPT ![db][ValidDBFile(db)] = Absent]
            /\ retry' = retry + 1
            /\ UNCHANGED <<saveCount, pc, db, initialized>>
       ELSE /\ saveCount' = [saveCount EXCEPT ![db] = NextSlot(ValidDBFile(db))]
            /\ NextDatabase
            /\ UNCHANGED file
  /\ UNCHANGED <<saves, now, starts, svars, content, half>>

\* PFU_readWholeFile gives nothing for a file of no bytes, each time it is
\* tried: dbInit returns -1, and ASSERT ends the program (DEBUG, Rules.mk:3).
LoadEmpty ==
  /\ pc = "load" /\ file[db][ValidDBFile(db)] = Empty
  /\ pc' = "abort"
  /\ UNCHANGED <<fvars, now, starts, db, retry, svars, mvars>>

----------------------------------------------------------------------------
(* The main loop, and the end *)

\* updateConfigRuntimeService, between configGet and configPut.
Update ==
  /\ pc = "run" /\ ConfigGet
  /\ half' = TRUE /\ pc' = "update"
  /\ UNCHANGED <<fvars, now, starts, db, retry, held, initialized, content>>

UpdateEnds ==
  /\ pc = "update"
  /\ half' = FALSE /\ sem' = sem + Units /\ pc' = "run"
  /\ UNCHANGED <<fvars, now, starts, db, retry, held, initialized, content>>

\* PFE_SYS_POWER_OFF or PFE_SYS_SHUTDOWN: configUpdate(1).
Shutdown ==
  /\ pc = "run"
  /\ pc' = "save" /\ db' = 1
  /\ UNCHANGED <<fvars, now, starts, retry, svars, mvars>>

\* dbSync takes the lock for MemToJson only; json_saveFile truncates a slot.
Save ==
  /\ pc = "save" /\ sem = Units
  /\ file' = [file EXCEPT ![db][saveCount[db]] = Empty]
  /\ pc' = "write"
  /\ UNCHANGED <<saveCount, saves, now, starts, db, retry, svars, mvars>>

SaveEnds ==
  /\ pc = "write"
  /\ file' = [file EXCEPT ![db][saveCount[db]] =
                            [gen |-> starts, time |-> now]]
  /\ saveCount' = [saveCount EXCEPT ![db] = 1 - @]
  /\ saves' = [saves EXCEPT ![db] = @ \cup {[gen |-> starts, time |-> now]}]
  /\ IF db = LastDatabase
       THEN pc' = "off" /\ UNCHANGED db
       ELSE pc' = "save" /\ db' = db + 1
  /\ UNCHANGED <<now, starts, retry, svars, mvars>>

----------------------------------------------------------------------------
(* Failures *)

\* What becomes of the file svc.config is writing.  LastTime is written last.
CutShort ==
  \/ /\ pc = "copy"
     /\ \E f \in {Empty, Torn} :
          file' = [file EXCEPT ![db][Default] = f]
  \/ /\ pc = "write"
     /\ \E f \in {Empty, Torn, [gen |-> starts, time |-> Cut]} :
          file' = [file EXCEPT ![db][saveCount[db]] = f]
  \/ pc \notin {"copy", "write"} /\ UNCHANGED file

\* svc.config dies: SEM_UNDO gives its units back.
Crash ==
  /\ pc \notin {"off", "dead", "abort"}
  /\ CutShort
  /\ sem' = IF pc = "update" THEN sem + Units ELSE sem
  /\ pc' = "dead"
  /\ UNCHANGED <<saveCount, saves, now, starts, db, retry, held, mvars>>

\* The power fails, or the watchdog resets the board.
Reboot ==
  /\ CutShort
  /\ pc' = "off" /\ sem' = None /\ held' = [r \in Reader |-> 0]
  /\ initialized' = FALSE /\ content' = Nothing /\ half' = FALSE
  /\ UNCHANGED <<saveCount, saves, now, starts, db, retry>>

Next ==
  \/ \E r \in Reader : ReaderLock(r) \/ ReaderUnlock(r)
  \/ Start \/ SemaCreate \/ SemaFound \/ SemaSetVal
  \/ CopyDefault \/ CopyEnds
  \/ Load \/ LoadTorn \/ LoadEmpty
  \/ Update \/ UpdateEnds \/ Shutdown \/ Save \/ SaveEnds
  \/ Crash \/ Reboot

Spec == Init /\ [][Next]_vars

----------------------------------------------------------------------------
(* Properties *)

\* Types.  The semaphore never counts more than its units (semaInit must not
\* set the value of one that is in use).
TypeOK ==
  /\ file \in [Database -> [Slot \cup {Default} -> Lost \cup Saved]]
  /\ saveCount \in [Database -> Slot]
  /\ saves \in [Database -> SUBSET Saved]
  /\ now \in Nat /\ starts \in 0 .. MaxStarts
  /\ pc \in {"off", "semget", "setval", "load", "copy", "run", "update",
             "save", "write", "dead", "abort"}
  /\ db \in Database /\ retry \in 0 .. 3
  /\ sem \in {None} \cup (0 .. Units) /\ held \in [Reader -> 0 .. 1]
  /\ initialized \in BOOLEAN /\ half \in BOOLEAN
  /\ content \in [Database -> {None} \cup (0 .. MaxStarts)]

\* What a reader finds in its section, when the settings are initialized: all
\* databases are loaded, and no update is half done, unless svc.config died
\* in the middle of one and SEM_UNDO let the reader in.
ReadsWhole ==
  (initialized /\ \E r \in Reader : held[r] = 1) =>
    /\ \A d \in Database : content[d] # None
    /\ half => pc = "dead"

\* Settings that are initialized do not change in the section of a reader,
\* unless svc.config is started anew under the reader's feet.
ReadsStable ==
  [][(initialized /\ pc # "off" /\ \E r \in Reader : held[r] = 1 /\ held'[r] = 1)
       => UNCHANGED mvars]_vars

\* d is loaded.
Loads(d) == content'[d] \notin {content[d], None}

\* The ping and the pong: of the saves of a database that came to their end,
\* one with the latest LastTime is there to be loaded, and is loaded, wherever
\* the power failed or svc.config died in the saves after it and whatever was
\* done to the clock.
LoadsNewestSave ==
  [][\A d \in Database :
       Loads(d) /\ saves[d] # {} =>
         \E s \in saves[d] :
           /\ content'[d] = s.gen
           /\ \A t \in saves[d] : t.time <= s.time]_vars

\* "There is no connection with changing system time" (config-util.c:99): a
\* database is loaded from its last complete save, or from a later one that
\* was cut short in its LastTime.
LoadsLastSave ==
  [][\A d \in Database :
       Loads(d) => \A s \in saves[d] : content'[d] >= s.gen]_vars

\* ASSERT(ret == 0 && "dbInit failed") of configInit.
DbInitSucceeds == pc # "abort"
=============================================================================
