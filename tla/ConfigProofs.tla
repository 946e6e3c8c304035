---------------------------- MODULE ConfigProofs ----------------------------
(***************************************************************************)
(* Proofs about Config: what a reader of the settings sees, and what a     *)
(* start of svc.config loads, for every number of readers, units of the    *)
(* semaphore, databases and starts; and, with SavedSettings, that saving   *)
(* and loading keep the settings, however often it happens.                *)
(***************************************************************************)
EXTENDS SavedSettings, DataProofs, FiniteSetTheorems

\* The parts of TypeOK.
FileType ==
  /\ file \in [Database -> [Slot \cup {Default} -> Lost \cup Saved]]
  /\ saveCount \in [Database -> Slot]
  /\ saves \in [Database -> SUBSET Saved]
  /\ now \in Nat /\ starts \in 0 .. MaxStarts
PcType ==
  /\ pc \in {"off", "semget", "setval", "load", "copy", "run", "update",
             "save", "write", "dead", "abort"}
  /\ db \in Database /\ retry \in 0 .. 3
SemType == sem \in {None} \cup (0 .. Units) /\ held \in [Reader -> 0 .. 1]
MemType ==
  /\ initialized \in BOOLEAN /\ half \in BOOLEAN
  /\ content \in [Database -> {None} \cup (0 .. MaxStarts)]

Holders == {r \in Reader : held[r] = 1}

\* The units that are counted and those that are held do not exceed Units;
\* they may be fewer, when svc.config died before SETVAL.
LockInv ==
  /\ sem = None => Holders = {}
  /\ sem # None => sem + Cardinality(Holders) <= Units
  /\ pc = "setval" => sem = 0 /\ Holders = {}
  /\ pc = "update" => sem = 0 /\ Holders = {}
  /\ half => pc \in {"update", "dead"}

Starting == pc \in {"semget", "setval", "load", "copy"}

\* What is loaded, and that a file is removed once at most in a start.
LoadInv ==
  /\ Starting => ~initialized
  /\ pc \in {"semget", "setval"} => db = 1 /\ retry = 0
  /\ initialized => \A d \in Database : content[d] # None
  /\ pc \in {"load", "copy"} =>
       \A d \in Database : d < db => content[d] # None
  /\ pc = "load" /\ retry > 0 => file[db][Default] # Torn

\* From the load of d to the end of its save.
Loaded(d) ==
  \/ pc \in {"load", "copy"} /\ d < db
  \/ pc \in {"run", "update"}
  \/ pc \in {"save", "write"} /\ db <= d

\* Slot k has a save of d with the latest LastTime.
Newest(d, k) ==
  /\ file[d][k] \in saves[d]
  /\ \A s \in saves[d] : s.time <= file[d][k].time

\* A file with a whole LastTime is a complete save; one of the newest is in a
\* slot, and svc.config writes to the other one.
SlotsInv(d) ==
  /\ \A k \in Slot : LastTime(d, k) > Cut => file[d][k] \in saves[d]
  /\ \A s \in saves[d] : s.time > Cut
  /\ saves[d] # {} =>
       \E k \in Slot : Newest(d, k) /\ (Loaded(d) => saveCount[d] = 1 - k)

FileInv ==
  /\ FirstTime <= now
  /\ \A d \in Database : SlotsInv(d)

IInv == TypeOK /\ LockInv /\ LoadInv /\ FileInv

----------------------------------------------------------------------------
(* Operators *)

\* The assumptions of Config on its constants that have no operators in them.
LEMMA Constants ==
  /\ Units \in Nat \ {0} /\ LastDatabase \in Nat \ {0} /\ MaxStarts \in Nat
  /\ None \notin Nat /\ IsFiniteSet(Reader)
  /\ ClockSteps \subseteq Int
BY ConfigAssumption

\* The four parts make up TypeOK.
LEMMA Parts == TypeOK <=> FileType /\ PcType /\ SemType /\ MemType
BY DEF TypeOK, FileType, PcType, SemType, MemType

\* A file that is lost is not one that was saved.
LEMMA Kinds ==
  /\ \A f \in Saved : f \notin Lost
  /\ Absent # Empty /\ Absent # Torn /\ Empty # Torn
  /\ \A f \in Lost \cup Saved : f \notin Lost => f \in Saved
  /\ \A g \in 0 .. MaxStarts, t \in Nat :
       [gen |-> g, time |-> t] \in Saved
<1>1. \A f \in Saved : f \in [gen : Nat, time : Nat]
  BY Constants DEF Saved
<1>2. \A f \in Saved : f \notin Lost
  BY <1>1, ConfigAssumption DEF Lost
<1> QED BY <1>2, ConfigAssumption DEF Saved

\* pf-getConfig chooses a slot only when it has a LastTime, the later one.
LEMMA Chosen ==
  ASSUME TypeOK, NEW d \in Database
  PROVE  /\ ValidDBFile(d) \in Slot \cup {Default}
         /\ \A k \in Slot : LastTime(d, k) \in Nat
         /\ \A k \in Slot : LastTime(d, k) # 0 => file[d][k] \in Saved
         /\ ValidDBFile(d) = Default =>
              \A k \in Slot : LastTime(d, k) = 0
         /\ ValidDBFile(d) # Default =>
              /\ file[d][ValidDBFile(d)] \in Saved
              /\ \A k \in Slot : LastTime(d, k) <= LastTime(d, ValidDBFile(d))
<1>1. \A k \in Slot : file[d][k] \in Lost \cup Saved
  BY DEF TypeOK
<1>2. \A k \in Slot : file[d][k] \notin Lost =>
                        file[d][k] \in Saved /\ file[d][k].time \in Nat
  BY <1>1 DEF Saved
<1>3. \A k \in Slot : LastTime(d, k) \in Nat
  BY <1>2 DEF LastTime
<1>4. \A k \in Slot : LastTime(d, k) # 0 => file[d][k] \in Saved
  BY <1>2 DEF LastTime
<1>5. Slot = {0, 1}
  BY DEF Slot
<1>6. CASE LastTime(d, 0) = 0 /\ LastTime(d, 1) = 0
  BY <1>3, <1>4, <1>5, <1>6 DEF ValidDBFile
<1>7. CASE /\ ~(LastTime(d, 0) = 0 /\ LastTime(d, 1) = 0)
           /\ LastTime(d, 0) >= LastTime(d, 1)
  <2>1. ValidDBFile(d) = 0
    BY <1>7 DEF ValidDBFile
  <2>2. LastTime(d, 0) # 0 /\ LastTime(d, 1) <= LastTime(d, 0)
    BY <1>3, <1>5, <1>7
  <2> QED BY <1>3, <1>4, <1>5, <2>1, <2>2 DEF Default
<1>8. CASE ~(LastTime(d, 0) >= LastTime(d, 1))
  <2>1. LastTime(d, 1) # 0 /\ LastTime(d, 0) < LastTime(d, 1)
    BY <1>3, <1>5, <1>8
  <2>2. ValidDBFile(d) = 1
    BY <1>8, <2>1 DEF ValidDBFile
  <2> QED BY <1>3, <1>4, <1>5, <2>1, <2>2 DEF Default
<1> QED BY <1>6, <1>7, <1>8

\* One file changes, the others do not.
LEMMA FileChange ==
  ASSUME TypeOK, NEW d \in Database, NEW k \in Slot \cup {Default},
         NEW f \in Lost \cup Saved,
         file' = [file EXCEPT ![d][k] = f]
  PROVE  /\ file' \in [Database -> [Slot \cup {Default} -> Lost \cup Saved]]
         /\ file'[d][k] = f
         /\ \A e \in Database, j \in Slot \cup {Default} :
              e # d \/ j # k => file'[e][j] = file[e][j]
BY DEF TypeOK

\* The holders of a unit are some of the readers.
LEMMA HoldersFacts ==
  ASSUME TypeOK
  PROVE  IsFiniteSet(Holders) /\ Cardinality(Holders) \in Nat
<1>1. Holders \subseteq Reader
  BY DEF Holders
<1> QED BY <1>1, Constants, FS_Subset, FS_CardinalityType

----------------------------------------------------------------------------
(* The invariant is kept, conjunct by conjunct *)

\* After the power comes on there is no semaphore, no file and no setting.
LEMMA InitOK == Init => IInv
<1> SUFFICES ASSUME Init  PROVE IInv
  OBVIOUS
<1>1. TypeOK
  <2>1. FileType
    BY Constants DEF Init, FileType, Database, Slot, Default, Lost, FirstTime
  <2>2. PcType
    BY Constants DEF Init, PcType, Database
  <2>3. SemType
    BY Constants DEF Init, SemType
  <2>4. MemType
    BY Constants DEF Init, MemType, Nothing
  <2> QED BY <2>1, <2>2, <2>3, <2>4, Parts
<1>2. LockInv
  <2>1. Holders = {}
    BY DEF Init, Holders
  <2> QED BY <2>1 DEF Init, LockInv
<1>3. LoadInv
  BY DEF Init, LoadInv, Starting
<1>4. FileInv
  <2>1. \A d \in Database, k \in Slot : file[d][k] = Absent /\ saves[d] = {}
    BY DEF Init
  <2>2. \A d \in Database, k \in Slot : LastTime(d, k) = 0
    BY <2>1 DEF LastTime, Lost
  <2> QED BY <2>1, <2>2 DEF Init, FileInv, SlotsInv, FirstTime, Cut
<1> QED BY <1>1, <1>2, <1>3, <1>4 DEF IInv

\* The part of TypeOK that is about variables a step leaves alone.
LEMMA Unmoved ==
  ASSUME TypeOK
  PROVE  /\ UNCHANGED <<fvars, now, starts>> => FileType'
         /\ UNCHANGED <<pc, db, retry>> => PcType'
         /\ UNCHANGED svars => SemType'
         /\ UNCHANGED mvars => MemType'
<1>1. FileType /\ PcType /\ SemType /\ MemType
  BY Parts
<1>2. UNCHANGED <<fvars, now, starts>> => FileType'
  BY <1>1 DEF FileType, fvars
<1>3. UNCHANGED <<pc, db, retry>> => PcType'
  BY <1>1 DEF PcType
<1>4. UNCHANGED svars => SemType'
  BY <1>1 DEF SemType, svars
<1>5. UNCHANGED mvars => MemType'
  BY <1>1 DEF MemType, mvars
<1> QED BY <1>2, <1>3, <1>4, <1>5

\* dbInit goes on to a database, or ends with the flag set.
LEMMA NextType ==
  ASSUME TypeOK, pc = "load", NextDatabase
  PROVE  PcType' /\ initialized' \in BOOLEAN
<1>1. db # LastDatabase => db + 1 \in Database
  BY Constants DEF TypeOK, Database
<1>2. PcType'
  BY <1>1 DEF NextDatabase, TypeOK, PcType
<1>3. initialized' \in BOOLEAN
  BY DEF NextDatabase, TypeOK
<1> QED BY <1>2, <1>3

\* What a failure leaves of a file is a kind of file.
LEMMA CutType ==
  ASSUME TypeOK, CutShort
  PROVE  file' \in [Database -> [Slot \cup {Default} -> Lost \cup Saved]]
<1>1. CASE pc = "copy"
  <2>1. PICK f \in {Empty, Torn} : file' = [file EXCEPT ![db][Default] = f]
    BY <1>1 DEF CutShort
  <2> QED BY <2>1 DEF TypeOK, Lost
<1>2. CASE pc = "write"
  <2>1. PICK f \in {Empty, Torn, [gen |-> starts, time |-> Cut]} :
          file' = [file EXCEPT ![db][saveCount[db]] = f]
    BY <1>2 DEF CutShort
  <2>2. f \in Lost \cup Saved
    BY <2>1, Kinds DEF TypeOK, Lost, Cut
  <2>3. db \in Database /\ saveCount[db] \in Slot
    BY DEF TypeOK
  <2> QED BY <2>1, <2>2, <2>3 DEF TypeOK
<1>3. CASE pc \notin {"copy", "write"}
  BY <1>3 DEF CutShort, TypeOK
<1> QED BY <1>1, <1>2, <1>3

\* The same of the next state.
LEMMA PartsNext == FileType' /\ PcType' /\ SemType' /\ MemType' => TypeOK'
BY DEF TypeOK, FileType, PcType, SemType, MemType

\* No handler, and no failure, breaks the types; LockInv bounds the semaphore.
LEMMA TypeStep ==
  ASSUME TypeOK, LockInv, [Next]_vars
  PROVE  TypeOK'
<1>0. FileType /\ PcType /\ SemType /\ MemType
  BY Parts
<1>1. ASSUME NEW r \in Reader, ReaderLock(r)  PROVE TypeOK'
  <2>1. SemType'
    BY <1>0, <1>1, Constants DEF SemType, ReaderLock
  <2> QED BY <1>1, <2>1, Unmoved, PartsNext DEF ReaderLock
<1>2. ASSUME NEW r \in Reader, ReaderUnlock(r)  PROVE TypeOK'
  <2>1. r \in Holders
    BY <1>2 DEF ReaderUnlock, Holders
  <2>2. Holders # {} /\ IsFiniteSet(Holders)
    BY <2>1, HoldersFacts
  <2>3. Cardinality(Holders) \in Nat /\ Cardinality(Holders) # 0
    BY <2>2, FS_EmptySet, HoldersFacts
  <2>4. sem # None /\ sem \in Nat /\ sem + Cardinality(Holders) <= Units
    BY <1>0, <2>2 DEF LockInv, SemType
  <2>5. sem + 1 \in 0 .. Units
    BY <2>3, <2>4, Constants
  <2>6. SemType'
    BY <1>0, <1>2, <2>5 DEF ReaderUnlock, SemType
  <2> QED BY <1>2, <2>6, Unmoved, PartsNext DEF ReaderUnlock
<1>3. CASE Start
  <2>1. FileType'
    <3>1. PICK step \in ClockSteps :
            now + step >= FirstTime /\ now' = now + step
      BY <1>3 DEF Start
    <3>2. now' \in Nat
      BY <1>0, <3>1, Constants DEF FileType, FirstTime
    <3>3. starts' \in 0 .. MaxStarts
      BY <1>0, <1>3, Constants DEF FileType, Start
    <3>4. UNCHANGED fvars
      BY <1>3 DEF Start
    <3> QED BY <1>0, <3>2, <3>3, <3>4 DEF FileType, fvars
  <2>2. PcType'
    BY <1>3, Constants DEF PcType, Start, Database
  <2>3. MemType'
    BY <1>3 DEF MemType, Start, Nothing
  <2> QED BY <1>3, <2>1, <2>2, <2>3, Unmoved, PartsNext DEF Start
<1>4. CASE SemaCreate
  <2>1. PcType'
    BY <1>0, <1>4 DEF PcType, SemaCreate
  <2>2. SemType'
    BY <1>0, <1>4, Constants DEF SemType, SemaCreate
  <2> QED BY <1>4, <2>1, <2>2, Unmoved, PartsNext DEF SemaCreate
<1>5. CASE SemaFound
  <2>1. PcType'
    BY <1>0, <1>5 DEF PcType, SemaFound
  <2>2. SemType'
    BY <1>0, <1>5 DEF SemType, SemaFound, SemaExists
  <2> QED BY <1>5, <2>1, <2>2, Unmoved, PartsNext DEF SemaFound
<1>6. CASE SemaSetVal
  <2>1. PcType'
    BY <1>0, <1>6 DEF PcType, SemaSetVal
  <2>2. SemType'
    BY <1>0, <1>6, Constants DEF SemType, SemaSetVal
  <2> QED BY <1>6, <2>1, <2>2, Unmoved, PartsNext DEF SemaSetVal
<1>7. CASE CopyDefault
  <2>1. Empty \in Lost
    BY DEF Lost
  <2>2. FileType'
    BY <1>0, <1>7, <2>1 DEF FileType, CopyDefault, Database
  <2>3. PcType'
    BY <1>0, <1>7 DEF PcType, CopyDefault
  <2> QED BY <1>7, <2>2, <2>3, Unmoved, PartsNext DEF CopyDefault
<1>8. CASE CopyEnds
  <2>1. [gen |-> 0, time |-> 0] \in Saved
    BY Kinds, Constants
  <2>2. FileType'
    BY <1>0, <1>8, <2>1 DEF FileType, CopyEnds
  <2>3. PcType'
    BY <1>0, <1>8 DEF PcType, CopyEnds
  <2> QED BY <1>8, <2>2, <2>3, Unmoved, PartsNext DEF CopyEnds
<1>9. CASE Load
  <2>1. db \in Database /\ ValidDBFile(db) \in Slot \cup {Default}
    BY Chosen DEF TypeOK
  <2>2. file[db][ValidDBFile(db)] \in Saved
    BY <1>9, <2>1, Kinds DEF Load, TypeOK
  <2>3. NextSlot(ValidDBFile(db)) \in Slot
    BY <2>1 DEF NextSlot, Slot, Default
  <2>4. pc = "load" /\ NextDatabase
    BY <1>9 DEF Load
  <2>5. FileType'
    BY <1>0, <1>9, <2>3 DEF FileType, Load
  <2>6. MemType'
    <3>1. content' \in [Database -> {None} \cup (0 .. MaxStarts)]
      BY <1>0, <1>9, <2>2 DEF Load, MemType, Saved
    <3> QED BY <1>0, <1>9, <2>4, <3>1, NextType DEF Load, MemType
  <2> QED BY <1>9, <2>4, <2>5, <2>6, NextType, Unmoved, PartsNext DEF Load
<1>10. CASE LoadTorn
  <2>1. db \in Database /\ ValidDBFile(db) \in Slot \cup {Default}
    BY Chosen DEF TypeOK
  <2>2. CASE retry < 3
    <3>1. Absent \in Lost
      BY DEF Lost
    <3>2. file' = [file EXCEPT ![db][ValidDBFile(db)] = Absent]
      BY <1>10, <2>2 DEF LoadTorn
    <3>3. file' \in [Database -> [Slot \cup {Default} -> Lost \cup Saved]]
      BY <2>1, <3>1, <3>2, FileChange
    <3>4. UNCHANGED <<saveCount, saves, now, starts>>
      BY <1>10, <2>2 DEF LoadTorn
    <3>5. FileType'
      BY <1>0, <3>3, <3>4 DEF FileType
    <3>6. PcType'
      BY <1>0, <1>10, <2>2 DEF LoadTorn, PcType
    <3>7. UNCHANGED <<svars, mvars>>
      BY <1>10, <2>2 DEF LoadTorn, mvars
    <3> QED BY <3>5, <3>6, <3>7, Unmoved, PartsNext
  <2>3. CASE ~(retry < 3)
    <3>1. NextSlot(ValidDBFile(db)) \in Slot
      BY <2>1 DEF NextSlot, Slot, Default
    <3>2. pc = "load" /\ NextDatabase
      BY <1>10, <2>3 DEF LoadTorn
    <3>3. FileType'
      BY <1>0, <1>10, <2>3, <3>1 DEF LoadTorn, FileType
    <3>4. MemType'
      BY <1>0, <1>10, <3>2, NextType DEF LoadTorn, MemType
    <3>5. UNCHANGED svars
      BY <1>10 DEF LoadTorn
    <3> QED BY <3>2, <3>3, <3>4, <3>5, NextType, Unmoved, PartsNext
  <2> QED BY <2>2, <2>3
<1>11. CASE LoadEmpty
  <2>1. PcType'
    BY <1>0, <1>11 DEF PcType, LoadEmpty
  <2> QED BY <1>11, <2>1, Unmoved, PartsNext DEF LoadEmpty
<1>12. CASE Update
  <2>1. PcType'
    BY <1>0, <1>12 DEF PcType, Update
  <2>2. SemType'
    BY <1>0, <1>12, Constants DEF SemType, Update, ConfigGet
  <2>3. MemType'
    BY <1>0, <1>12 DEF MemType, Update
  <2> QED BY <1>12, <2>1, <2>2, <2>3, Unmoved, PartsNext DEF Update
<1>13. CASE UpdateEnds
  <2>1. sem = 0
    BY <1>13 DEF UpdateEnds, LockInv
  <2>2. PcType'
    BY <1>0, <1>13 DEF PcType, UpdateEnds
  <2>3. SemType'
    BY <1>0, <1>13, <2>1, Constants DEF SemType, UpdateEnds
  <2>4. MemType'
    BY <1>0, <1>13 DEF MemType, UpdateEnds
  <2> QED BY <1>13, <2>2, <2>3, <2>4, Unmoved, PartsNext DEF UpdateEnds
<1>14. CASE Shutdown
  <2>1. PcType'
    BY <1>0, <1>14, Constants DEF PcType, Shutdown, Database
  <2> QED BY <1>14, <2>1, Unmoved, PartsNext DEF Shutdown
<1>15. CASE Save
  <2>1. db \in Database /\ saveCount[db] \in Slot /\ Empty \in Lost
    BY DEF TypeOK, Lost
  <2>2. FileType'
    BY <1>0, <1>15, <2>1 DEF FileType, Save
  <2>3. PcType'
    BY <1>0, <1>15 DEF PcType, Save
  <2> QED BY <1>15, <2>2, <2>3, Unmoved, PartsNext DEF Save
<1>16. CASE SaveEnds
  <2>1. /\ db \in Database /\ saveCount[db] \in Slot
        /\ [gen |-> starts, time |-> now] \in Saved
    BY Kinds DEF TypeOK
  <2>2. FileType'
    <3>1. file' \in [Database -> [Slot \cup {Default} -> Lost \cup Saved]]
      BY <1>0, <1>16, <2>1 DEF FileType, SaveEnds
    <3>2. saveCount' \in [Database -> Slot]
      BY <1>0, <1>16, <2>1 DEF FileType, SaveEnds, Slot
    <3>3. saves' \in [Database -> SUBSET Saved]
      BY <1>0, <1>16, <2>1 DEF FileType, SaveEnds
    <3> QED BY <1>0, <1>16, <3>1, <3>2, <3>3 DEF FileType, SaveEnds
  <2>3. PcType'
    <3>1. db # LastDatabase => db + 1 \in Database
      BY <2>1, Constants DEF Database
    <3> QED BY <1>0, <1>16, <3>1 DEF PcType, SaveEnds
  <2> QED BY <1>16, <2>2, <2>3, Unmoved, PartsNext DEF SaveEnds
<1>17. CASE Crash
  <2>1. file' \in [Database -> [Slot \cup {Default} -> Lost \cup Saved]]
    BY <1>17, CutType DEF Crash
  <2>2. FileType'
    BY <1>0, <1>17, <2>1 DEF FileType, Crash
  <2>3. PcType'
    BY <1>0, <1>17 DEF PcType, Crash
  <2>4. SemType'
    BY <1>0, <1>17, Constants DEF SemType, Crash, LockInv
  <2> QED BY <1>17, <2>2, <2>3, <2>4, Unmoved, PartsNext DEF Crash
<1>18. CASE Reboot
  <2>1. file' \in [Database -> [Slot \cup {Default} -> Lost \cup Saved]]
    BY <1>18, CutType DEF Reboot
  <2>2. FileType'
    BY <1>0, <1>18, <2>1 DEF FileType, Reboot
  <2>3. PcType'
    BY <1>0, <1>18 DEF PcType, Reboot
  <2>4. SemType'
    BY <1>18 DEF SemType, Reboot
  <2>5. MemType'
    BY <1>18 DEF MemType, Reboot, Nothing
  <2> QED BY <1>18, <2>2, <2>3, <2>4, <2>5, Unmoved, PartsNext DEF Reboot
<1>19. CASE UNCHANGED vars
  BY <1>19, Unmoved, PartsNext DEF vars
<1> QED BY <1>1, <1>2, <1>3, <1>4, <1>5, <1>6, <1>7, <1>8, <1>9, <1>10, <1>11,
           <1>12, <1>13, <1>14, <1>15, <1>16, <1>17, <1>18, <1>19 DEF Next

----------------------------------------------------------------------------
\* Steps that are not about the semaphore.
LEMMA LockKept ==
  ASSUME LockInv, UNCHANGED <<svars, half>>,
         pc' \notin {"setval", "update"}, half => pc' = "dead"
  PROVE  LockInv'
<1>1. Holders' = Holders /\ sem' = sem /\ half' = half
  BY DEF Holders, svars
<1> QED BY <1>1 DEF LockInv

\* semaLock, semaUnlock, SETVAL and SEM_UNDO keep the units accounted for.
LEMMA LockStep ==
  ASSUME TypeOK, LockInv, [Next]_vars
  PROVE  LockInv'
<1>0. /\ sem \in {None} \cup (0 .. Units) /\ held \in [Reader -> 0 .. 1]
      /\ IsFiniteSet(Holders) /\ Cardinality(Holders) \in Nat
      /\ Cardinality({}) = 0 /\ (Cardinality(Holders) = 0 <=> Holders = {})
  BY HoldersFacts, FS_EmptySet DEF TypeOK
<1>1. ASSUME NEW r \in Reader, ReaderLock(r)  PROVE LockInv'
  <2>1. r \notin Holders /\ Holders' = Holders \cup {r}
    BY <1>0, <1>1 DEF ReaderLock, Holders
  <2>2. Cardinality(Holders') = Cardinality(Holders) + 1
    BY <1>0, <2>1, FS_AddElement
  <2>3. sem # None /\ sem > 0 /\ sem' = sem - 1 /\ UNCHANGED <<pc, half>>
    BY <1>1 DEF ReaderLock, mvars
  <2>4. sem' # None /\ sem' + Cardinality(Holders') <= Units
    BY <1>0, <2>2, <2>3, Constants DEF LockInv
  <2>5. pc \notin {"setval", "update"}
    BY <2>3 DEF LockInv
  <2> QED BY <2>3, <2>4, <2>5 DEF LockInv
<1>2. ASSUME NEW r \in Reader, ReaderUnlock(r)  PROVE LockInv'
  <2>1. r \in Holders /\ Holders' = Holders \ {r}
    BY <1>0, <1>2 DEF ReaderUnlock, Holders
  <2>2. Cardinality(Holders') = Cardinality(Holders) - 1
    BY <1>0, <2>1, FS_RemoveElement
  <2>3. sem' = sem + 1 /\ UNCHANGED <<pc, half>>
    BY <1>2 DEF ReaderUnlock, mvars
  <2>4. sem # None /\ pc \notin {"setval", "update"}
    BY <2>1 DEF LockInv
  <2>5. sem' # None /\ sem' + Cardinality(Holders') <= Units
    BY <1>0, <2>2, <2>3, <2>4, Constants DEF LockInv
  <2> QED BY <2>3, <2>4, <2>5 DEF LockInv
<1>3. CASE Start
  <2>1. Holders' = Holders /\ sem' = sem
    BY <1>3 DEF Start, Holders, svars
  <2> QED BY <1>3, <2>1 DEF Start, LockInv
<1>4. CASE SemaCreate
  <2>1. Holders' = {}
    BY <1>4 DEF SemaCreate, LockInv, Holders
  <2>2. half' = FALSE /\ sem' = 0 /\ pc' = "setval"
    BY <1>4 DEF SemaCreate, LockInv, mvars
  <2> QED BY <1>0, <2>1, <2>2, Constants DEF LockInv
<1>5. CASE SemaFound
  <2>1. UNCHANGED <<svars, half>> /\ pc' = "load" /\ ~half
    BY <1>5 DEF SemaFound, SemaExists, LockInv, svars, mvars
  <2> QED BY <2>1, LockKept
<1>6. CASE SemaSetVal
  <2>1. Holders' = {}
    BY <1>6 DEF SemaSetVal, LockInv, Holders
  <2>2. half' = FALSE /\ sem' = Units /\ pc' = "load"
    BY <1>6 DEF SemaSetVal, LockInv, mvars
  <2> QED BY <1>0, <2>1, <2>2, Constants DEF LockInv
<1>7. CASE CopyDefault \/ CopyEnds \/ Load \/ LoadTorn \/ LoadEmpty
  <2>1. UNCHANGED <<svars, half>> /\ pc \in {"load", "copy"} /\ ~half
    BY <1>7 DEF CopyDefault, CopyEnds, Load, LoadTorn, LoadEmpty, LockInv, mvars
  <2>2. pc' \in {"load", "copy", "run", "abort"}
    BY <1>7, <2>1
       DEF CopyDefault, CopyEnds, Load, LoadTorn, LoadEmpty, NextDatabase
  <2> QED BY <2>1, <2>2, LockKept
<1>8. CASE Update
  <2>1. sem = Units /\ sem' = 0 /\ pc' = "update" /\ Holders' = Holders
    BY <1>8, Constants DEF Update, ConfigGet, Holders
  <2>2. Holders = {}
    BY <1>0, <2>1, Constants DEF LockInv
  <2> QED BY <1>0, <2>1, <2>2, Constants DEF LockInv
<1>9. CASE UpdateEnds
  <2>1. sem' = Units /\ Holders' = {} /\ pc' = "run" /\ half' = FALSE
    BY <1>9, Constants DEF UpdateEnds, LockInv, Holders
  <2> QED BY <1>0, <2>1, Constants DEF LockInv
<1>10. CASE Shutdown \/ Save \/ SaveEnds
  <2>1. UNCHANGED <<svars, half>> /\ pc \in {"run", "save", "write"} /\ ~half
    BY <1>10 DEF Shutdown, Save, SaveEnds, LockInv, mvars
  <2>2. pc' \in {"save", "write", "off"}
    BY <1>10 DEF Shutdown, Save, SaveEnds
  <2> QED BY <2>1, <2>2, LockKept
<1>11. CASE Crash
  <2>1. /\ pc' = "dead" /\ Holders' = Holders /\ half' = half
        /\ sem' = IF pc = "update" THEN sem + Units ELSE sem
    BY <1>11 DEF Crash, Holders, mvars
  <2>2. CASE pc = "update"
    <3>1. Holders' = {} /\ sem' = Units
      BY <2>1, <2>2, Constants DEF LockInv
    <3> QED BY <1>0, <2>1, <3>1, Constants DEF LockInv
  <2>3. CASE pc # "update"
    BY <2>1, <2>3 DEF LockInv
  <2> QED BY <2>2, <2>3
<1>12. CASE Reboot
  <2>1. Holders' = {} /\ sem' = None /\ pc' = "off" /\ half' = FALSE
    BY <1>12 DEF Reboot, Holders
  <2> QED BY <2>1 DEF LockInv
<1>13. CASE UNCHANGED vars
  <2>1. Holders' = Holders /\ UNCHANGED <<sem, pc, half>>
    BY <1>13 DEF vars, svars, mvars, Holders
  <2> QED BY <2>1 DEF LockInv
<1> QED BY <1>1, <1>2, <1>3, <1>4, <1>5, <1>6, <1>7, <1>8, <1>9, <1>10,
           <1>11, <1>12, <1>13 DEF Next

----------------------------------------------------------------------------
\* cJSON_Parse fails for the default file only: a slot that is cut short has
\* no LastTime and is not chosen.  The default is copied anew when it is
\* removed, so that the second try is the last.
LEMMA TornDefault ==
  ASSUME TypeOK, LoadInv, LoadTorn
  PROVE  /\ ValidDBFile(db) = Default /\ retry < 3
         /\ file' = [file EXCEPT ![db][Default] = Absent]
         /\ UNCHANGED <<saveCount, pc, db, initialized>>
<1>1. db \in Database /\ pc = "load" /\ file[db][ValidDBFile(db)] = Torn
  BY DEF LoadTorn, TypeOK
<1>2. ValidDBFile(db) = Default
  BY <1>1, Chosen, Kinds DEF Lost
<1>3. retry = 0
  BY <1>1, <1>2 DEF LoadInv, TypeOK
<1> QED BY <1>2, <1>3 DEF LoadTorn

\* configInit sets the flag after every database is loaded, and not before.
LEMMA LoadStep ==
  ASSUME TypeOK, LoadInv, [Next]_vars
  PROVE  LoadInv'
<1>0. /\ db \in Database /\ retry \in 0 .. 3
      /\ content \in [Database -> {None} \cup (0 .. MaxStarts)]
  BY DEF TypeOK
<1>1. ASSUME NEW r \in Reader, ReaderLock(r) \/ ReaderUnlock(r)
      PROVE  LoadInv'
  <2>1. UNCHANGED <<file, pc, db, retry, initialized, content>>
    BY <1>1 DEF ReaderLock, ReaderUnlock, fvars, mvars
  <2> QED BY <2>1 DEF LoadInv, Starting
<1>2. CASE Start
  BY <1>2 DEF Start, LoadInv, Starting
<1>3. CASE SemaCreate
  <2>1. /\ ~initialized' /\ pc' = "setval" /\ db' = 1 /\ retry' = 0
    BY <1>3 DEF SemaCreate, LoadInv, Starting, mvars
  <2> QED BY <2>1 DEF LoadInv, Starting
<1>4. CASE SemaFound \/ SemaSetVal
  <2>1. /\ ~initialized' /\ pc' = "load" /\ db' = 1 /\ retry' = 0
    BY <1>4 DEF SemaFound, SemaSetVal, LoadInv, Starting, mvars
  <2>2. \A d \in Database : ~(d < 1)
    BY DEF Database
  <2> QED BY <2>1, <2>2 DEF LoadInv, Starting
<1>5. CASE CopyDefault
  <2>1. /\ UNCHANGED <<db, retry, initialized, content>>
        /\ pc = "load" /\ pc' = "copy"
    BY <1>5 DEF CopyDefault, mvars
  <2> QED BY <2>1 DEF LoadInv, Starting
<1>6. CASE CopyEnds
  <2>1. /\ UNCHANGED <<db, retry, initialized, content>>
        /\ pc = "copy" /\ pc' = "load"
    BY <1>6 DEF CopyEnds, mvars
  <2>2. [gen |-> 0, time |-> 0] \in Saved
    BY Kinds, Constants
  <2>3. file'[db][Default] = [gen |-> 0, time |-> 0]
    <3>1. file' = [file EXCEPT ![db][Default] = [gen |-> 0, time |-> 0]]
      BY <1>6 DEF CopyEnds
    <3>2. [gen |-> 0, time |-> 0] \in Lost \cup Saved
      BY <2>2
    <3>3. Default \in Slot \cup {Default}
      OBVIOUS
    <3> QED BY <1>0, <3>1, <3>2, <3>3, FileChange
  <2>4. file'[db'][Default] # Torn
    BY <2>1, <2>2, <2>3, Kinds DEF Lost
  <2> QED BY <2>1, <2>4 DEF LoadInv, Starting
<1>7. CASE Load
  <2>1. /\ pc = "load" /\ NextDatabase
        /\ content' = [content EXCEPT ![db] = file[db][ValidDBFile(db)].gen]
    BY <1>7 DEF Load
  <2>2. file[db][ValidDBFile(db)] \in Saved
    <3>1. ValidDBFile(db) \in Slot \cup {Default}
      BY <1>0, Chosen
    <3>2. file[db][ValidDBFile(db)] \in Lost \cup Saved
      BY <1>0, <3>1 DEF TypeOK
    <3> QED BY <1>7, <3>2, Kinds DEF Load
  <2>3. content'[db] # None
    BY <1>0, <2>1, <2>2, Constants DEF Saved
  <2>4. \A d \in Database : d < db \/ d = db => content'[d] # None
    BY <1>0, <2>1, <2>3 DEF LoadInv
  <2>5. CASE db = LastDatabase
    <3>1. \A d \in Database : content'[d] # None
      BY <2>4, <2>5, Constants DEF Database
    <3>2. pc' = "run" /\ initialized' = TRUE
      BY <2>1, <2>5 DEF NextDatabase
    <3> QED BY <3>1, <3>2 DEF LoadInv, Starting
  <2>6. CASE db # LastDatabase
    <3>1. db' = db + 1 /\ pc' = "load" /\ retry' = 0 /\ ~initialized'
      BY <2>1, <2>6 DEF NextDatabase, LoadInv, Starting
    <3>2. \A d \in Database : d < db' => content'[d] # None
      BY <1>0, <2>4, <3>1, Constants DEF Database
    <3> QED BY <3>1, <3>2 DEF LoadInv, Starting
  <2> QED BY <2>5, <2>6
<1>8. CASE LoadTorn
  <2>1. /\ file' = [file EXCEPT ![db][Default] = Absent]
        /\ UNCHANGED <<pc, db, initialized, content>>
    BY <1>8, TornDefault DEF LoadTorn
  <2>2. file'[db'][Default] # Torn
    BY <1>0, <2>1, Kinds, FileChange DEF Lost
  <2>3. pc = "load"
    BY <1>8 DEF LoadTorn
  <2> QED BY <2>1, <2>2, <2>3 DEF LoadInv, Starting
<1>9. CASE LoadEmpty \/ Crash
  <2>1. UNCHANGED <<initialized, content>> /\ pc' \in {"abort", "dead"}
    BY <1>9 DEF LoadEmpty, Crash, mvars
  <2> QED BY <2>1 DEF LoadInv, Starting
<1>10. CASE Update \/ UpdateEnds \/ Shutdown \/ Save \/ SaveEnds
  <2>1. /\ UNCHANGED <<initialized, content>>
        /\ pc' \in {"update", "run", "save", "write", "off"}
    BY <1>10 DEF Update, UpdateEnds, Shutdown, Save, SaveEnds, mvars
  <2> QED BY <2>1 DEF LoadInv, Starting
<1>11. CASE Reboot
  BY <1>11 DEF Reboot, LoadInv, Starting
<1>12. CASE UNCHANGED vars
  BY <1>12 DEF vars, fvars, mvars, LoadInv, Starting
<1> QED BY <1>1, <1>2, <1>3, <1>4, <1>5, <1>6, <1>7, <1>8, <1>9, <1>10,
           <1>11, <1>12 DEF Next

----------------------------------------------------------------------------
\* The two slots of a database, and the times that matter.
LEMMA SlotPair ==
  /\ Slot = {0, 1} /\ Cut = 1 /\ FirstTime = 2
  /\ \A k \in Slot : 1 - k \in Slot /\ 1 - k # k /\ 1 - (1 - k) = k
  /\ \A k \in Slot : k # Default
BY DEF Slot, Cut, FirstTime, Default

\* The slot that is loaded has a save with the latest LastTime.
LEMMA ChosenNewest ==
  ASSUME TypeOK, NEW d \in Database, SlotsInv(d), NEW k \in Slot, Newest(d, k)
  PROVE  ValidDBFile(d) \in Slot /\ Newest(d, ValidDBFile(d))
<1>1. file[d][k] \in Saved /\ file[d][k].time > Cut
  BY Kinds DEF Newest, SlotsInv, TypeOK
<1>2. LastTime(d, k) = file[d][k].time
  BY <1>1, Kinds DEF LastTime
<1>3. PICK v : v = ValidDBFile(d)
  OBVIOUS
<1>4. LastTime(d, k) # 0
  BY <1>1, <1>2, SlotPair
<1>5. v # Default
  BY <1>3, <1>4, Chosen
<1>6. v \in Slot /\ LastTime(d, k) <= LastTime(d, v)
  BY <1>3, <1>5, Chosen
<1>7. LastTime(d, k) \in Nat /\ LastTime(d, v) \in Nat
  BY <1>6, Chosen
<1>8. LastTime(d, v) > Cut
  BY <1>1, <1>2, <1>6, <1>7, SlotPair
<1>9. file[d][v] \in saves[d]
  BY <1>6, <1>8 DEF SlotsInv
<1>10. file[d][v] \notin Lost
  BY <1>9, Kinds DEF TypeOK
<1>11. LastTime(d, v) = file[d][v].time
  BY <1>10 DEF LastTime
<1>12. ASSUME NEW s \in saves[d]  PROVE s.time <= file[d][v].time
  <2>1. s.time \in Nat /\ s.time <= LastTime(d, k)
    BY <1>2 DEF Newest, TypeOK, Saved
  <2> QED BY <1>6, <1>7, <1>11, <2>1
<1> QED BY <1>3, <1>6, <1>9, <1>12 DEF Newest

\* A step that writes to no slot of d.
LEMMA SlotsKept ==
  ASSUME FileInv, NEW d \in Database,
         \A k \in Slot : file'[d][k] = file[d][k],
         saves'[d] = saves[d], saveCount'[d] = saveCount[d],
         Loaded(d)' => Loaded(d)
  PROVE  SlotsInv(d)'
<1>1. \A k \in Slot : LastTime(d, k)' = LastTime(d, k)
  BY DEF LastTime
<1>2. \A k \in Slot : Newest(d, k) => Newest(d, k)'
  BY DEF Newest
<1> QED BY <1>1, <1>2 DEF FileInv, SlotsInv

\* A step that truncates the slot svc.config saves to, or leaves it cut short.
LEMMA SlotLost ==
  ASSUME TypeOK, FileInv, NEW d \in Database,
         file'[d][1 - saveCount[d]] = file[d][1 - saveCount[d]],
         LastTime(d, saveCount[d])' <= Cut,
         LastTime(d, saveCount[d])' \in Nat,
         saves'[d] = saves[d], saveCount'[d] = saveCount[d], Loaded(d)
  PROVE  SlotsInv(d)'
<1>1. saveCount[d] \in Slot
  BY DEF TypeOK
<1>2. LastTime(d, 1 - saveCount[d])' = LastTime(d, 1 - saveCount[d])
  BY DEF LastTime
<1>3. \A k \in Slot : k = saveCount[d] \/ k = 1 - saveCount[d]
  BY <1>1, SlotPair
<1>4. ASSUME NEW k \in Slot, LastTime(d, k)' > Cut
      PROVE  file'[d][k] \in saves'[d]
  <2>1. k # saveCount[d]
    BY <1>4, SlotPair
  <2>2. k = 1 - saveCount[d]
    BY <1>3, <2>1
  <2> QED BY <1>2, <1>4, <2>2 DEF FileInv, SlotsInv
<1>5. ASSUME saves[d] # {}
      PROVE  \E k \in Slot :
               Newest(d, k)' /\ (Loaded(d)' => saveCount'[d] = 1 - k)
  <2>1. PICK k \in Slot : Newest(d, k) /\ saveCount[d] = 1 - k
    BY <1>5 DEF FileInv, SlotsInv
  <2>2. file'[d][k] = file[d][k]
    BY <2>1, SlotPair
  <2>3. Newest(d, k)'
    BY <2>1, <2>2 DEF Newest
  <2> QED BY <2>1, <2>3
<1> QED BY <1>4, <1>5 DEF FileInv, SlotsInv

\* What svc.config leaves of the file it is writing has no LastTime, or one
\* of which the last digits are missing.
LEMMA CutSlots ==
  ASSUME TypeOK, FileInv, CutShort, NEW d \in Database,
         saves'[d] = saves[d], saveCount'[d] = saveCount[d],
         pc' \in {"dead", "off"}
  PROVE  SlotsInv(d)'
<1>1. ~Loaded(d)'
  BY DEF Loaded
<1>2. db \in Database /\ saveCount[db] \in Slot
  BY DEF TypeOK
<1>3. CASE pc = "copy"
  <2>1. PICK f \in {Empty, Torn} : file' = [file EXCEPT ![db][Default] = f]
    BY <1>3 DEF CutShort
  <2>2. \A k \in Slot : file'[d][k] = file[d][k]
    BY <1>2, <2>1, SlotPair DEF TypeOK
  <2> QED BY <1>1, <2>2, SlotsKept
<1>4. CASE pc = "write"
  <2>1. PICK f \in {Empty, Torn, [gen |-> starts, time |-> Cut]} :
          file' = [file EXCEPT ![db][saveCount[db]] = f]
    BY <1>4 DEF CutShort
  <2>2. CASE d # db
    <3>1. \A k \in Slot : file'[d][k] = file[d][k]
      BY <1>2, <2>1, <2>2 DEF TypeOK
    <3> QED BY <1>1, <3>1, SlotsKept
  <2>3. CASE d = db
    <3>1. file'[d][saveCount[d]] = f
      BY <1>2, <2>1, <2>3 DEF TypeOK
    <3>2. file'[d][1 - saveCount[d]] = file[d][1 - saveCount[d]]
      BY <1>2, <2>1, <2>3, SlotPair DEF TypeOK
    <3>3. f \in Lost \/ f.time = Cut
      BY DEF Lost
    <3>4. LastTime(d, saveCount[d])' = 0 \/ LastTime(d, saveCount[d])' = Cut
      BY <3>1, <3>3 DEF LastTime
    <3>5. /\ LastTime(d, saveCount[d])' <= Cut
          /\ LastTime(d, saveCount[d])' \in Nat
      BY <3>4, SlotPair
    <3>6. Loaded(d)
      BY <1>2, <1>4, <2>3 DEF Loaded, Database
    <3> QED BY <3>2, <3>5, <3>6, SlotLost
  <2> QED BY <2>2, <2>3
<1>5. CASE pc \notin {"copy", "write"}
  <2>1. file' = file
    BY <1>5 DEF CutShort
  <2> QED BY <1>1, <2>1, SlotsKept
<1> QED BY <1>3, <1>4, <1>5

\* A save that comes to its end, with a time that may be before that of the
\* slot it leaves alone.
LEMMA SaveEndsSlots ==
  ASSUME TypeOK, FileInv, SaveEnds, NEW d \in Database
  PROVE  SlotsInv(d)'
<1>1. /\ db \in Database /\ saveCount[db] \in Slot /\ now \in Nat
      /\ pc = "write" /\ FirstTime <= now
  BY DEF TypeOK, FileInv, SaveEnds
<1>2. pc' = "off" \/ (pc' = "save" /\ db' = db + 1)
  BY DEF SaveEnds
<1>3. CASE d # db
  <2>1. \A k \in Slot : file'[d][k] = file[d][k]
    BY <1>1, <1>3 DEF TypeOK, SaveEnds
  <2>2. saves'[d] = saves[d] /\ saveCount'[d] = saveCount[d]
    BY <1>3 DEF TypeOK, SaveEnds
  <2>3. pc' = "save" /\ db' <= d => db <= d
    BY <1>1, <1>2 DEF Database
  <2>4. Loaded(d)' => Loaded(d)
    BY <1>1, <1>2, <2>3 DEF Loaded
  <2> QED BY <2>1, <2>2, <2>4, SlotsKept
<1>4. CASE d = db
  <2> PICK k \in Slot : k = saveCount[d]
    BY <1>1, <1>4
  <2> PICK f : f = [gen |-> starts, time |-> now]
    OBVIOUS
  <2>0. 1 - k \in Slot /\ 1 - k # k /\ 1 - (1 - k) = k
    BY SlotPair
  <2>1. f.time = now /\ now > Cut
    BY <1>1, SlotPair
  <2>2. file'[d][k] = f /\ file'[d][1 - k] = file[d][1 - k]
    BY <1>1, <1>4, <2>0 DEF TypeOK, SaveEnds
  <2>3. saves'[d] = saves[d] \cup {f}
    BY <1>1, <1>4 DEF TypeOK, SaveEnds
  <2>4. LastTime(d, 1 - k)' = LastTime(d, 1 - k)
    BY <2>2 DEF LastTime
  <2>5. Loaded(d) /\ ~Loaded(d)'
    BY <1>1, <1>2, <1>4 DEF Loaded, Database
  <2>6. \A j \in Slot : j = k \/ j = 1 - k
    BY <2>0, SlotPair
  <2>7. \A j \in Slot : LastTime(d, j)' > Cut => file'[d][j] \in saves'[d]
    BY <2>2, <2>3, <2>4, <2>6 DEF FileInv, SlotsInv
  <2>8. \A s \in saves'[d] : s.time > Cut
    BY <2>1, <2>3 DEF FileInv, SlotsInv
  <2>9. \A s \in saves[d] : s.time \in Nat
    BY DEF TypeOK, Saved
  <2>10. CASE \A s \in saves[d] : s.time <= now
    <3>1. Newest(d, k)'
      BY <1>1, <2>1, <2>2, <2>3, <2>10 DEF Newest
    <3> QED BY <2>5, <2>7, <2>8, <3>1 DEF SlotsInv
  <2>11. CASE \E s \in saves[d] : ~(s.time <= now)
    <3>1. PICK s \in saves[d] : now < s.time
      BY <1>1, <2>9, <2>11
    <3>2. PICK j \in Slot : Newest(d, j) /\ saveCount[d] = 1 - j
      BY <2>5, <3>1 DEF FileInv, SlotsInv
    <3>3. j = 1 - k
      BY <2>6, <3>2, SlotPair
    <3>4. /\ file[d][j] \in saves[d] /\ file'[d][j] = file[d][j]
          /\ \A t \in saves[d] : t.time <= file[d][j].time
      BY <2>2, <3>2, <3>3 DEF Newest
    <3>5. now <= file[d][j].time
      <4>1. s.time <= file[d][j].time /\ file[d][j].time \in Nat
        BY <2>9, <3>1, <3>4
      <4> QED BY <1>1, <2>9, <3>1, <4>1
    <3>6. Newest(d, j)'
      BY <2>1, <2>3, <3>4, <3>5 DEF Newest
    <3> QED BY <2>5, <2>7, <2>8, <3>6 DEF SlotsInv
  <2> QED BY <2>10, <2>11
<1> QED BY <1>3, <1>4

\* No handler, and no failure, loses the newest save, whatever the clock does.
LEMMA FileStep ==
  ASSUME TypeOK, LoadInv, FileInv, [Next]_vars
  PROVE  FileInv'
<1>0. /\ now \in Nat /\ db \in Database /\ FirstTime <= now
      /\ \A d \in Database : saveCount[d] \in Slot
  BY DEF TypeOK, FileInv
<1>1. ASSUME NEW r \in Reader, ReaderLock(r) \/ ReaderUnlock(r)
      PROVE  FileInv'
  <2>1. UNCHANGED <<file, saveCount, saves, now, pc, db>>
    BY <1>1 DEF ReaderLock, ReaderUnlock, fvars
  <2>2. ASSUME NEW d \in Database  PROVE SlotsInv(d)'
    BY <2>1, SlotsKept DEF Loaded
  <2> QED BY <1>0, <2>1, <2>2 DEF FileInv
<1>2. CASE Start
  <2>1. FirstTime <= now'
    BY <1>2 DEF Start
  <2>2. UNCHANGED <<file, saveCount, saves>> /\ pc' = "semget"
    BY <1>2 DEF Start, fvars
  <2>3. ASSUME NEW d \in Database  PROVE SlotsInv(d)'
    <3>1. ~Loaded(d)'
      BY <2>2 DEF Loaded
    <3> QED BY <2>2, <3>1, SlotsKept
  <2> QED BY <2>1, <2>3 DEF FileInv
<1>3. CASE SemaCreate \/ SemaFound \/ SemaSetVal
  <2>1. /\ UNCHANGED <<file, saveCount, saves, now>>
        /\ pc' \in {"setval", "load"} /\ db' = 1
    BY <1>3 DEF SemaCreate, SemaFound, SemaSetVal, LoadInv, fvars
  <2>2. ASSUME NEW d \in Database  PROVE SlotsInv(d)'
    <3>1. ~Loaded(d)'
      BY <2>1 DEF Loaded, Database
    <3> QED BY <2>1, <3>1, SlotsKept
  <2> QED BY <1>0, <2>1, <2>2 DEF FileInv
<1>4. CASE CopyDefault \/ CopyEnds \/ LoadTorn \/ LoadEmpty
  <2>1. /\ UNCHANGED <<saveCount, saves, now, db>>
        /\ pc \in {"load", "copy"} /\ pc' \in {"load", "copy", "abort"}
    BY <1>4, TornDefault DEF CopyDefault, CopyEnds, LoadTorn, LoadEmpty, fvars
  <2>2. \/ \E f : file' = [file EXCEPT ![db][Default] = f]
        \/ file' = file
    BY <1>4, TornDefault DEF CopyDefault, CopyEnds, LoadEmpty, fvars
  <2>3. ASSUME NEW d \in Database  PROVE SlotsInv(d)'
    <3>1. \A k \in Slot : file'[d][k] = file[d][k]
      BY <1>0, <2>2, SlotPair DEF TypeOK
    <3>2. Loaded(d)' => Loaded(d)
      BY <2>1 DEF Loaded
    <3> QED BY <2>1, <3>1, <3>2, SlotsKept
  <2> QED BY <1>0, <2>1, <2>3 DEF FileInv
<1>5. CASE Load
  <2>1. /\ UNCHANGED <<file, saves, now>> /\ pc = "load"
        /\ saveCount' = [saveCount EXCEPT ![db] = NextSlot(ValidDBFile(db))]
        /\ NextDatabase
    BY <1>5 DEF Load
  <2>2. ASSUME NEW d \in Database  PROVE SlotsInv(d)'
    <3>1. CASE d # db
      <4>1. saveCount'[d] = saveCount[d]
        BY <2>1, <3>1 DEF TypeOK
      <4>2. CASE Loaded(d)
        BY <2>1, <4>1, <4>2, SlotsKept
      <4>3. CASE ~Loaded(d)
        <5>1. db < d /\ db # LastDatabase
          BY <1>0, <2>1, <3>1, <4>3, Constants DEF Loaded, Database
        <5>2. pc' = "load" /\ db' = db + 1
          BY <2>1, <5>1 DEF NextDatabase
        <5>3. ~Loaded(d)'
          BY <1>0, <5>1, <5>2 DEF Loaded, Database
        <5> QED BY <2>1, <4>1, <5>3, SlotsKept
      <4> QED BY <4>2, <4>3
    <3>2. CASE d = db
      <4>1. /\ \A k \in Slot : LastTime(d, k)' = LastTime(d, k)
            /\ \A k \in Slot : Newest(d, k) => Newest(d, k)'
        BY <2>1 DEF LastTime, Newest
      <4>2. ASSUME saves[d] # {}
            PROVE  \E k \in Slot : Newest(d, k)' /\ saveCount'[d] = 1 - k
        <5>1. PICK j \in Slot : Newest(d, j)
          BY <4>2 DEF FileInv, SlotsInv
        <5>2. PICK k \in Slot : k = ValidDBFile(d) /\ Newest(d, k)
          BY <5>1, ChosenNewest DEF FileInv
        <5>3. saveCount'[d] = 1 - k
          BY <1>0, <2>1, <3>2, <5>2, SlotPair DEF TypeOK, NextSlot
        <5> QED BY <4>1, <5>2, <5>3
      <4> QED BY <2>1, <4>1, <4>2 DEF FileInv, SlotsInv
    <3> QED BY <3>1, <3>2
  <2> QED BY <1>0, <2>1, <2>2 DEF FileInv
<1>6. CASE Update \/ UpdateEnds \/ Shutdown
  <2>1. /\ UNCHANGED <<file, saveCount, saves, now>>
        /\ pc \in {"run", "update"}
    BY <1>6 DEF Update, UpdateEnds, Shutdown, fvars
  <2>2. ASSUME NEW d \in Database  PROVE SlotsInv(d)'
    <3>1. Loaded(d)
      BY <2>1 DEF Loaded
    <3> QED BY <2>1, <3>1, SlotsKept
  <2> QED BY <1>0, <2>1, <2>2 DEF FileInv
<1>7. CASE Save
  <2>1. /\ UNCHANGED <<saveCount, saves, now, db>>
        /\ pc = "save" /\ pc' = "write"
        /\ file' = [file EXCEPT ![db][saveCount[db]] = Empty]
    BY <1>7 DEF Save
  <2>2. ASSUME NEW d \in Database  PROVE SlotsInv(d)'
    <3>1. CASE d # db
      <4>1. \A k \in Slot : file'[d][k] = file[d][k]
        BY <1>0, <2>1, <3>1 DEF TypeOK
      <4>2. Loaded(d)' => Loaded(d)
        BY <2>1 DEF Loaded
      <4> QED BY <2>1, <4>1, <4>2, SlotsKept
    <3>2. CASE d = db
      <4>1. file'[d][saveCount[d]] = Empty
        BY <1>0, <2>1, <3>2 DEF TypeOK
      <4>2. file'[d][1 - saveCount[d]] = file[d][1 - saveCount[d]]
        BY <1>0, <2>1, <3>2, SlotPair DEF TypeOK
      <4>3. LastTime(d, saveCount[d])' = 0
        BY <2>1, <4>1 DEF LastTime, Lost
      <4>4. /\ LastTime(d, saveCount[d])' <= Cut
            /\ LastTime(d, saveCount[d])' \in Nat
        BY <4>3, SlotPair
      <4>5. Loaded(d)
        BY <1>0, <2>1, <3>2 DEF Loaded, Database
      <4> QED BY <2>1, <4>2, <4>4, <4>5, SlotLost
    <3> QED BY <3>1, <3>2
  <2> QED BY <1>0, <2>1, <2>2 DEF FileInv
<1>8. CASE SaveEnds
  <2>1. now' = now
    BY <1>8 DEF SaveEnds
  <2> QED BY <1>0, <1>8, <2>1, SaveEndsSlots DEF FileInv
<1>9. CASE Crash \/ Reboot
  <2>1. /\ UNCHANGED <<saveCount, saves, now>> /\ CutShort
        /\ pc' \in {"dead", "off"}
    BY <1>9 DEF Crash, Reboot
  <2>2. ASSUME NEW d \in Database  PROVE SlotsInv(d)'
    BY <2>1, CutSlots
  <2> QED BY <1>0, <2>1, <2>2 DEF FileInv
<1>10. CASE UNCHANGED vars
  <2>1. UNCHANGED <<file, saveCount, saves, now, pc, db>>
    BY <1>10 DEF vars, fvars
  <2>2. ASSUME NEW d \in Database  PROVE SlotsInv(d)'
    BY <2>1, SlotsKept DEF Loaded
  <2> QED BY <1>0, <2>1, <2>2 DEF FileInv
<1> QED BY <1>1, <1>2, <1>3, <1>4, <1>5, <1>6, <1>7, <1>8, <1>9, <1>10 DEF Next

----------------------------------------------------------------------------
(* Members of JSON objects                                                   *)

\* The first member with a key is the one json_getObject gives.
LEMMA FirstPlace ==
  ASSUME NEW node, NEW k, DOMAIN node \subseteq Nat, NEW i \in DOMAIN node,
         node[i].key = k, \A j \in DOMAIN node : node[j].key = k => i <= j
  PROVE  Has(node, k) /\ json_getObject(node, k) = node[i].value
<1>1. i \in Places(node, k) /\ \A j \in Places(node, k) : i <= j BY DEF Places
<1>2. Places(node, k) \subseteq Nat BY DEF Places
<1>3. \A p \in Places(node, k) : (\A j \in Places(node, k) : p <= j) => p = i
  BY <1>1, <1>2
<1>4. (CHOOSE p \in Places(node, k) : \A j \in Places(node, k) : p <= j) = i
  BY <1>1, <1>3
<1> QED BY <1>1, <1>4 DEF Has, json_getObject

\* What json_getObject gives is the value of some member.
LEMMA SomePlace ==
  ASSUME NEW node, NEW k, DOMAIN node \subseteq Nat, Has(node, k)
  PROVE  \E i \in DOMAIN node : node[i].key = k /\ json_getObject(node, k) = node[i].value
<1>1. Places(node, k) \subseteq Nat /\ Places(node, k) # {} BY DEF Has, Places
<1>2. PICK i \in Places(node, k) : \A j \in Places(node, k) : i <= j
  BY <1>1, LeastNumber
<1>3. i \in DOMAIN node /\ node[i].key = k BY DEF Places
<1>4. \A j \in DOMAIN node : node[j].key = k => i <= j BY <1>2 DEF Places
<1> QED BY <1>3, <1>4, FirstPlace

\* The texts the code itself names are printed as they are.
LEMMA PlainTexts ==
  /\ \A z \in Zone \cup Address : Plain(z)
  /\ Plain("") /\ Plain(Model) /\ Plain("9:00") /\ Plain("KST") /\ Plain("Seoul")
  /\ Plain("Asia/Seoul") /\ Plain("eth0") /\ Plain("NONE") /\ Plain("WIRED")
  /\ Plain("WIRELESS") /\ Plain("DHCP") /\ Plain("STATIC")
BY SettingsAssumption DEF Plain

\* json_getValue leaves a plain text as it is, and what is read of plain
\* members is plain.
LEMMA PlainRead ==
  /\ \A t : Plain(t) => json_getValue(t) = t
  /\ \A node, k, t : PlainMembers(node) /\ Plain(t)
       => Plain(json_getValueSibling(node, k, t))
<1>1. \A t : Plain(t) => json_getValue(t) = t BY DEF Plain, json_getValue
<1>2. ASSUME NEW node, NEW k, NEW t, PlainMembers(node), Plain(t)
      PROVE  Plain(json_getValueSibling(node, k, t))
  <2>1. CASE Has(node, k)
    <3>1. PICK i \in DOMAIN node : json_getObject(node, k) = node[i].value
      BY <1>2, <2>1, SomePlace DEF PlainMembers
    <3>2. Plain(json_getObject(node, k)) BY <1>2, <3>1 DEF PlainMembers
    <3> QED BY <1>1, <2>1, <3>2 DEF json_getValueSibling
  <2>2. CASE ~Has(node, k) BY <1>2, <2>2 DEF json_getValueSibling
  <2> QED BY <2>1, <2>2
<1> QED BY <1>1, <1>2

\* What is read at the first member with the key.
LEMMA ReadBack ==
  ASSUME NEW node, NEW k, DOMAIN node \subseteq Nat, NEW i \in DOMAIN node,
         node[i].key = k, \A j \in DOMAIN node : node[j].key = k => i <= j,
         Plain(node[i].value)
  PROVE  \A t : json_getValueSibling(node, k, t) = node[i].value
BY FirstPlace, PlainRead DEF json_getValueSibling

----------------------------------------------------------------------------
(* Settings that a save and a load leave as they are, but for the name       *)

NormalTz(tz) ==
  /\ tz = [gmtOff |-> tz.gmtOff, zone |-> tz.zone, id |-> tz.id, name |-> tz.name]
  /\ Plain(tz.gmtOff) /\ Plain(tz.zone) /\ Plain(tz.name) /\ tz.id \in Zone

NormalNtp(ntp) ==
  /\ ntp = [enable |-> ntp.enable, server |-> ntp.server]
  /\ ntp.enable \in BOOLEAN
  /\ \E n \in 0 .. MaxServers : /\ DOMAIN ntp.server = 1 .. n
                               /\ Len(ntp.server) = n
                               /\ (n = 0 => ntp.server = << >>)
  /\ ntp.server = [i \in DOMAIN ntp.server |-> ntp.server[i]]
  /\ \A i \in DOMAIN ntp.server : Plain(ntp.server[i])

InfoFields == {"pathDefConfig", "pathConfig", "baseODD", "baseATA", "baseUSB",
               "baseNET", "prefixUSB"}
NormalInfo(info) ==
  /\ info = [f \in InfoFields |-> info[f]]
  /\ \A f \in InfoFields : Plain(info[f])

NormalBasic(basic) ==
  /\ basic = [netif |-> basic.netif, type |-> basic.type, devWired |-> basic.devWired]
  /\ basic.netif \in basic_interface_table /\ basic.type \in basic_type_table
  /\ Plain(basic.devWired)

NormalIp(ip) ==
  /\ ip = [ipaddr |-> ip.ipaddr, netmask |-> ip.netmask, gateway |-> ip.gateway,
           dns1 |-> ip.dns1, dns2 |-> ip.dns2]
  /\ {ip.ipaddr, ip.netmask, ip.gateway, ip.dns1} \subseteq Address
  /\ ip.dns2 = "8.8.8.8"

\* Each section is read back as it was written.
LEMMA TimezoneBack ==
  ASSUME NEW tz, NormalTz(tz), NEW old
  PROVE  rf_system_timezone(wf_system_timezone(tz), old) = tz
<1>1. PICK node : node = wf_system_timezone(tz) OBVIOUS
<1>2. /\ DOMAIN node = 1 .. 4
      /\ node[1].key = "gmtOff" /\ node[1].value = tz.gmtOff
      /\ node[2].key = "zone" /\ node[2].value = tz.zone
      /\ node[3].key = "id" /\ node[3].value = tz.id
      /\ node[4].key = "name" /\ node[4].value = tz.name
  BY <1>1 DEF wf_system_timezone, Member
<1>3. /\ DOMAIN node \subseteq Nat /\ 1 \in DOMAIN node /\ 2 \in DOMAIN node
      /\ 3 \in DOMAIN node /\ 4 \in DOMAIN node
      /\ \A j \in DOMAIN node : j = 1 \/ j = 2 \/ j = 3 \/ j = 4
  BY <1>2
<1>4. Plain(tz.gmtOff) /\ Plain(tz.zone) /\ Plain(tz.name) /\ Plain(tz.id)
  BY PlainTexts DEF NormalTz
<1>5. \A t : json_getValueSibling(node, "gmtOff", t) = tz.gmtOff
  BY <1>2, <1>3, <1>4, ReadBack
<1>6. \A t : json_getValueSibling(node, "zone", t) = tz.zone
  BY <1>2, <1>3, <1>4, ReadBack
<1>7. \A t : json_getValueSibling(node, "id", t) = tz.id
  BY <1>2, <1>3, <1>4, ReadBack
<1>8. \A t : json_getValueSibling(node, "name", t) = tz.name
  BY <1>2, <1>3, <1>4, ReadBack
<1>9. [f \in DOMAIN Seoul |-> json_getValueSibling(node, f, Seoul[f])] = tz
  <2>1. DOMAIN Seoul = {"gmtOff", "zone", "id", "name"} BY DEF Seoul
  <2>2. \A f \in DOMAIN Seoul : json_getValueSibling(node, f, Seoul[f]) = tz[f]
    BY <2>1, <1>5, <1>6, <1>7, <1>8
  <2>3. tz = [f \in DOMAIN Seoul |-> tz[f]] BY <2>1 DEF NormalTz
  <2> QED BY <2>2, <2>3
<1> QED BY <1>1, <1>9 DEF rf_system_timezone, NormalTz

LEMMA NtpBack ==
  ASSUME NEW ntp, NormalNtp(ntp), NEW old, old.server = << >>
  PROVE  rf_system_ntp(wf_system_ntp(ntp), old) = ntp
<1>1. PICK node : node = wf_system_ntp(ntp) OBVIOUS
<1>2. PICK list : list = ntp.server OBVIOUS
<1>3. /\ DOMAIN node = 1 .. 2
      /\ node[1].key = "enable"
      /\ node[1].value = IF ntp.enable THEN "true" ELSE "false"
      /\ node[2].key = "serverList" /\ node[2].value = list
  BY <1>1, <1>2 DEF wf_system_ntp, Member
<1>4. /\ DOMAIN node \subseteq Nat /\ 1 \in DOMAIN node /\ 2 \in DOMAIN node
      /\ \A j \in DOMAIN node : j = 1 \/ j = 2
  BY <1>3
<1>5. json_getObject(node, "serverList") = list BY <1>3, <1>4, FirstPlace
<1>6. Has(node, "enable") /\ json_getObject(node, "enable") = node[1].value
  BY <1>3, <1>4, FirstPlace
<1>7. (json_getObject(node, "enable") = "true") = ntp.enable
  BY <1>3, <1>6 DEF NormalNtp
<1>8. PICK n \in 0 .. MaxServers : DOMAIN list = 1 .. n /\ Len(list) = n
                                /\ (n = 0 => list = << >>)
  <2>1. \E n \in 0 .. MaxServers : /\ DOMAIN ntp.server = 1 .. n
                                 /\ Len(ntp.server) = n
                                 /\ (n = 0 => ntp.server = << >>)
    BY Zenon DEF NormalNtp
  <2> QED BY <1>2, <2>1, Zenon
<1>9. (IF Len(list) < MaxServers THEN Len(list) ELSE MaxServers) = n
  <2>1. MaxServers \in Nat BY Zenon, SettingsAssumption
  <2> QED BY <1>8, <2>1
<1>10. [i \in 1 .. n |-> json_getValue(list[i])] = list
  <2>1. \A i \in 1 .. n : json_getValue(list[i]) = list[i]
    BY <1>2, <1>8, PlainRead DEF NormalNtp
  <2>2. list = [i \in 1 .. n |-> list[i]] BY <1>2, <1>8 DEF NormalNtp
  <2> QED BY <2>1, <2>2
<1>11. (IF n = 0 THEN old.server ELSE [i \in 1 .. n |-> json_getValue(list[i])]) = list
  BY <1>8, <1>10
<1>12. rf_system_ntp(node, old) = [enable |-> ntp.enable, server |-> list]
  <2> DEFINE m == IF Len(list) < MaxServers THEN Len(list) ELSE MaxServers
  <2>1. rf_system_ntp(node, old) =
          [enable |-> IF Has(node, "enable") THEN json_getObject(node, "enable") = "true"
                      ELSE old.enable,
           server |-> IF m = 0 THEN old.server
                      ELSE [i \in 1 .. m |-> json_getValue(list[i])]]
    BY <1>5, Zenon DEF rf_system_ntp
  <2>2. (IF Has(node, "enable") THEN json_getObject(node, "enable") = "true"
         ELSE old.enable) = ntp.enable
    BY <1>6, <1>7, Zenon
  <2>3. m = n BY <1>9
  <2>4. (IF m = 0 THEN old.server ELSE [i \in 1 .. m |-> json_getValue(list[i])]) = list
    BY <1>11, <2>3, Zenon
  <2> HIDE DEF m
  <2> QED BY <2>1, <2>2, <2>4, Zenon
<1> QED BY <1>1, <1>2, <1>12 DEF NormalNtp

LEMMA InfoBack ==
  ASSUME NEW info, NormalInfo(info), NEW old, DOMAIN old = InfoFields
  PROVE  rf_system_info(wf_system_info(info), old) = info
<1>1. PICK node : node = wf_system_info(info) OBVIOUS
<1>2. /\ DOMAIN node = 1 .. 7
      /\ node[1].key = "pathDefConfig" /\ node[1].value = info.pathDefConfig
      /\ node[2].key = "pathConfig" /\ node[2].value = info.pathConfig
      /\ node[3].key = "baseODD" /\ node[3].value = info.baseODD
      /\ node[4].key = "baseATA" /\ node[4].value = info.baseATA
      /\ node[5].key = "baseUSB" /\ node[5].value = info.baseUSB
      /\ node[6].key = "baseNET" /\ node[6].value = info.baseNET
      /\ node[7].key = "prefixUSB" /\ node[7].value = info.prefixUSB
  BY <1>1 DEF wf_system_info, Member
<1>3. /\ DOMAIN node \subseteq Nat /\ \A j \in 1 .. 7 : j \in DOMAIN node
      /\ \A j \in DOMAIN node :
           j = 1 \/ j = 2 \/ j = 3 \/ j = 4 \/ j = 5 \/ j = 6 \/ j = 7
  BY <1>2
<1>4. \A f \in InfoFields : Plain(info[f]) BY DEF NormalInfo
<1>5. ASSUME NEW f \in InfoFields, NEW t PROVE json_getValueSibling(node, f, t) = info[f]
  <2>1. PICK i \in 1 .. 7 : /\ node[i].key = f /\ node[i].value = info[f]
                           /\ \A j \in 1 .. 7 : node[j].key = f => j = i
    BY <1>2 DEF InfoFields
  <2>2. i \in DOMAIN node /\ \A j \in DOMAIN node : node[j].key = f => i <= j
    BY <1>2, <2>1
  <2> QED BY <1>3, <1>4, <2>1, <2>2, ReadBack
<1>6. rf_system_info(node, old) = [f \in InfoFields |-> info[f]]
  BY <1>5 DEF rf_system_info
<1> QED BY <1>1, <1>6 DEF NormalInfo

LEMMA BasicBack ==
  ASSUME NEW basic, NormalBasic(basic), NEW old
  PROVE  rf_network_basic(wf_network_basic(basic), old) = basic
<1>1. PICK node : node = wf_network_basic(basic) OBVIOUS
<1>2. /\ DOMAIN node = 1 .. 3
      /\ node[1].key = "interface" /\ node[1].value = basic.netif
      /\ node[2].key = "connection" /\ node[2].value = basic.type
      /\ node[3].key = "devWired" /\ node[3].value = basic.devWired
  BY <1>1 DEF wf_network_basic, Member
<1>3. /\ DOMAIN node \subseteq Nat /\ 1 \in DOMAIN node /\ 2 \in DOMAIN node
      /\ 3 \in DOMAIN node /\ \A j \in DOMAIN node : j = 1 \/ j = 2 \/ j = 3
  BY <1>2
<1>4. Plain(basic.netif) /\ Plain(basic.type) /\ Plain(basic.devWired)
  BY PlainTexts DEF NormalBasic, basic_interface_table, basic_type_table
<1>5. \A t : json_getValueSibling(node, "interface", t) = basic.netif
  BY <1>2, <1>3, <1>4, ReadBack
<1>6. \A t : json_getValueSibling(node, "connection", t) = basic.type
  BY <1>2, <1>3, <1>4, ReadBack
<1>7. \A t : json_getValueSibling(node, "devWired", t) = basic.devWired
  BY <1>2, <1>3, <1>4, ReadBack
<1>8. rf_network_basic(node, old) =
        [netif |-> basic.netif, type |-> basic.type, devWired |-> basic.devWired]
  BY <1>5, <1>6, <1>7 DEF rf_network_basic, Named, NormalBasic
<1> QED BY <1>1, <1>8 DEF NormalBasic

LEMMA StaticIpBack ==
  ASSUME NEW ip, NormalIp(ip), NEW old
  PROVE  rf_network_staticIp(wf_network_staticIp(ip), old) = ip
<1>1. PICK node : node = wf_network_staticIp(ip) OBVIOUS
<1>2. /\ DOMAIN node = 1 .. 5
      /\ node[1].key = "ipaddr" /\ node[1].value = ip.ipaddr
      /\ node[2].key = "netmask" /\ node[2].value = ip.netmask
      /\ node[3].key = "gateway" /\ node[3].value = ip.gateway
      /\ node[4].key = "dns1" /\ node[4].value = ip.dns1
      /\ node[5].key = "dns1"
  BY <1>1 DEF wf_network_staticIp, Member
<1>3. /\ DOMAIN node \subseteq Nat /\ \A j \in 1 .. 5 : j \in DOMAIN node
      /\ \A j \in DOMAIN node : j = 1 \/ j = 2 \/ j = 3 \/ j = 4 \/ j = 5
  BY <1>2
<1>4. /\ Plain(ip.ipaddr) /\ Plain(ip.netmask) /\ Plain(ip.gateway)
      /\ Plain(ip.dns1)
  BY PlainTexts DEF NormalIp
<1>5. 1 \in DOMAIN node /\ 2 \in DOMAIN node /\ 3 \in DOMAIN node /\ 4 \in DOMAIN node
  BY <1>3
<1>6. \A t : json_getValueSibling(node, "ipaddr", t) = ip.ipaddr
  BY <1>2, <1>3, <1>4, <1>5, ReadBack
<1>7. \A t : json_getValueSibling(node, "netmask", t) = ip.netmask
  BY <1>2, <1>3, <1>4, <1>5, ReadBack
<1>8. \A t : json_getValueSibling(node, "gateway", t) = ip.gateway
  BY <1>2, <1>3, <1>4, <1>5, ReadBack
<1>9. \A t : json_getValueSibling(node, "dns1", t) = ip.dns1
  BY <1>2, <1>3, <1>4, <1>5, ReadBack
<1>10. \A t : json_getValueSibling(node, "dns2", t) = t
  <2>1. ~Has(node, "dns2") BY <1>2, <1>3 DEF Has, Places
  <2> QED BY <2>1 DEF json_getValueSibling
<1>11. "8.8.8.8" \in Address BY SettingsAssumption
<1>12. rf_network_staticIp(node, old) =
         [ipaddr |-> ip.ipaddr, netmask |-> ip.netmask, gateway |-> ip.gateway,
          dns1 |-> ip.dns1, dns2 |-> ip.dns2]
  BY <1>6, <1>7, <1>8, <1>9, <1>10, <1>11
  DEF rf_network_staticIp, staticIp_setConfig, NormalIp
<1> QED BY <1>1, <1>12 DEF NormalIp

NormalSystem(x) ==
  /\ x = [name |-> x.name, subModel |-> x.subModel, tz |-> x.tz, ntp |-> x.ntp,
          info |-> x.info]
  /\ Plain(x.subModel) /\ (x.subModel = "" => Model = "")
  /\ NormalTz(x.tz) /\ NormalNtp(x.ntp) /\ NormalInfo(x.info)

NormalNetwork(x) ==
  /\ x = [basic |-> x.basic, staticIp |-> x.staticIp]
  /\ NormalBasic(x.basic) /\ NormalIp(x.staticIp)

Normal(m) ==
  /\ m = [system |-> m.system, network |-> m.network]
  /\ NormalSystem(m.system) /\ NormalNetwork(m.network)

\* What the memset of configInit leaves.
LEMMA ClearedFacts ==
  /\ Cleared.system.ntp.server = << >> /\ Cleared.system.ntp.enable = FALSE
  /\ DOMAIN Cleared.system.info = InfoFields
  /\ \A f \in InfoFields : Cleared.system.info[f] = ""
  /\ Cleared.system.name = "" /\ Cleared.system.subModel = ""
  /\ NormalBasic(Cleared.network.basic)
  /\ NormalInfo(Cleared.system.info)
<1>1. NormalBasic(Cleared.network.basic)
  BY PlainTexts
  DEF NormalBasic, Cleared, basic_interface_table, basic_type_table
<1>2. NormalInfo(Cleared.system.info)
  BY PlainTexts DEF NormalInfo, InfoFields, Cleared
<1> QED BY <1>1, <1>2 DEF Cleared, InfoFields

\* A class is read back as it was written; the name is escaped once more.
LEMMA SystemBack ==
  ASSUME NEW m, NormalSystem(m.system), NEW root, root = MemToJson(m).system
  PROVE  ReadSystem(root, Cleared.system) =
           [name |-> json_getValue(m.system.name), subModel |-> m.system.subModel,
            tz |-> m.system.tz, ntp |-> m.system.ntp, info |-> m.system.info]
<1>1. /\ DOMAIN root = 1 .. 5
      /\ root[1].key = "name" /\ root[1].value = m.system.name
      /\ root[2].key = "subModel" /\ root[2].value = m.system.subModel
      /\ root[3].key = "timezone"
      /\ root[3].value = wf_system_timezone(m.system.tz)
      /\ root[4].key = "ntp" /\ root[4].value = wf_system_ntp(m.system.ntp)
      /\ root[5].key = "info" /\ root[5].value = wf_system_info(m.system.info)
  BY DEF MemToJson, Member
<1>2. /\ DOMAIN root \subseteq Nat /\ 1 \in DOMAIN root /\ 2 \in DOMAIN root
      /\ 3 \in DOMAIN root /\ 4 \in DOMAIN root /\ 5 \in DOMAIN root
      /\ \A j \in DOMAIN root : j = 1 \/ j = 2 \/ j = 3 \/ j = 4 \/ j = 5
  BY <1>1
<1>3. json_getValueSibling(root, "name", Cleared.system.name) = json_getValue(m.system.name)
  BY <1>1, <1>2, FirstPlace DEF json_getValueSibling
<1>4. json_getValueSibling(root, "subModel", Cleared.system.subModel) = m.system.subModel
  <2>1. Plain(root[2].value) BY <1>1 DEF NormalSystem
  <2>2. \A t : json_getValueSibling(root, "subModel", t) = root[2].value
    BY <1>1, <1>2, <2>1, ReadBack
  <2> QED BY <1>1, <2>2
<1>5. Has(root, "timezone")
      /\ json_getObject(root, "timezone") = wf_system_timezone(m.system.tz)
  BY <1>1, <1>2, FirstPlace
<1>6. Has(root, "ntp") /\ json_getObject(root, "ntp") = wf_system_ntp(m.system.ntp)
  BY <1>1, <1>2, FirstPlace
<1>7. Has(root, "info") /\ json_getObject(root, "info") = wf_system_info(m.system.info)
  BY <1>1, <1>2, FirstPlace
<1>8. Section(root, "timezone", Cleared.system.tz, rf_system_timezone) = m.system.tz
  BY <1>5, TimezoneBack DEF Section, NormalSystem
<1>9. Section(root, "ntp", Cleared.system.ntp, rf_system_ntp) = m.system.ntp
  BY <1>6, NtpBack, ClearedFacts DEF Section, NormalSystem
<1>10. Section(root, "info", Cleared.system.info, rf_system_info) = m.system.info
  <2>1. NormalInfo(m.system.info) /\ DOMAIN Cleared.system.info = InfoFields
    BY ClearedFacts DEF NormalSystem
  <2>2. rf_system_info(wf_system_info(m.system.info), Cleared.system.info) = m.system.info
    BY <2>1, InfoBack, Zenon
  <2> QED BY <1>7, <2>2, Zenon DEF Section
<1> QED BY <1>3, <1>4, <1>8, <1>9, <1>10, Zenon DEF ReadSystem

LEMMA NetworkBack ==
  ASSUME NEW m, NormalNetwork(m.network), NEW root, root = MemToJson(m).network
  PROVE  ReadNetwork(root, Cleared.network) = m.network
<1>1. /\ DOMAIN root = 1 .. 2
      /\ root[1].key = "basic" /\ root[1].value = wf_network_basic(m.network.basic)
      /\ root[2].key = "staticIp"
      /\ root[2].value = wf_network_staticIp(m.network.staticIp)
  BY DEF MemToJson, Member
<1>2. /\ DOMAIN root \subseteq Nat /\ 1 \in DOMAIN root /\ 2 \in DOMAIN root
      /\ \A j \in DOMAIN root : j = 1 \/ j = 2
  BY <1>1
<1>3. Has(root, "basic") /\ json_getObject(root, "basic") = wf_network_basic(m.network.basic)
  BY <1>1, <1>2, FirstPlace
<1>4. Has(root, "staticIp")
      /\ json_getObject(root, "staticIp") = wf_network_staticIp(m.network.staticIp)
  BY <1>1, <1>2, FirstPlace
<1>5. Section(root, "basic", Cleared.network.basic, rf_network_basic) = m.network.basic
  BY <1>3, BasicBack DEF Section, NormalNetwork
<1>6. Section(root, "staticIp", Cleared.network.staticIp, rf_network_staticIp)
        = m.network.staticIp
  BY <1>4, StaticIpBack DEF Section, NormalNetwork
<1>7. ReadNetwork(root, Cleared.network) =
        [basic |-> m.network.basic, staticIp |-> m.network.staticIp]
  BY <1>5, <1>6, Zenon DEF ReadNetwork
<1> QED BY <1>7 DEF NormalNetwork

\* A start that loads what was saved of normal settings gives them again.
LEMMA MemoryBack ==
  ASSUME NEW m, Normal(m)
  PROVE  configInit(MemToJson(m)) = [m EXCEPT !.system.name = json_getValue(m.system.name)]
<1>1. PICK x : x = [name |-> json_getValue(m.system.name), subModel |-> m.system.subModel,
                    tz |-> m.system.tz, ntp |-> m.system.ntp, info |-> m.system.info]
  OBVIOUS
<1>2. ReadSystem(MemToJson(m).system, Cleared.system) = x
  BY <1>1, SystemBack DEF Normal
<1>3. ReadNetwork(MemToJson(m).network, Cleared.network) = m.network
  BY NetworkBack DEF Normal
<1>4. PICK r : r = [system |-> x, network |-> m.network] OBVIOUS
<1>5. JsonToMem(MemToJson(m)) = r
  BY <1>2, <1>3, <1>4, Zenon DEF JsonToMem
<1>6. r = [m EXCEPT !.system.name = json_getValue(m.system.name)]
  <2>1. x = [m.system EXCEPT !.name = json_getValue(m.system.name)]
    <3>1. PICK y : y = json_getValue(m.system.name) OBVIOUS
    <3>2. PICK s : s = m.system OBVIOUS
    <3>3. s = [name |-> s.name, subModel |-> s.subModel, tz |-> s.tz, ntp |-> s.ntp,
               info |-> s.info]
      BY <3>2 DEF Normal, NormalSystem
    <3>4. [s EXCEPT !.name = y] =
            [name |-> y, subModel |-> s.subModel, tz |-> s.tz, ntp |-> s.ntp,
             info |-> s.info]
      BY <3>3
    <3> QED BY <1>1, <3>1, <3>2, <3>4, Zenon
  <2> QED BY <1>4, <2>1 DEF Normal
<1>7. r.system.subModel = m.system.subModel BY <1>1, <1>4
<1>8. (IF r.system.subModel = "" THEN [r EXCEPT !.system.subModel = Model] ELSE r) = r
  <2>1. CASE r.system.subModel = ""
    <3>1. Model = "" BY <1>7, <2>1 DEF Normal, NormalSystem
    <3>2. [x EXCEPT !.subModel = ""] = x
      <4>1. x.subModel = "" BY <1>4, <2>1
      <4> QED BY <1>1, <4>1
    <3>3. [r EXCEPT !.system.subModel = ""] = r
      <4>1. r.system = x /\ [r EXCEPT !.system = x] = r BY <1>4
      <4>2. [r EXCEPT !.system.subModel = ""] =
              [r EXCEPT !.system = [r.system EXCEPT !.subModel = ""]]
        BY <1>4
      <4> QED BY <3>2, <4>1, <4>2, Zenon
    <3>4. [r EXCEPT !.system.subModel = Model] = r BY <3>1, <3>3, Zenon
    <3> QED BY <2>1, <3>4, Zenon
  <2>2. CASE r.system.subModel # "" BY <2>2
  <2> QED BY <2>1, <2>2
<1>9. configInit(MemToJson(m)) = r BY <1>5, <1>8 DEF configInit
<1> QED BY <1>6, <1>9

----------------------------------------------------------------------------
(* What the first start makes of the default files                           *)

\* Each section of the default file is read into normal settings.
LEMMA PlainTimezone ==
  ASSUME NEW node, PlainMembers(node), NEW old
  PROVE  NormalTz(rf_system_timezone(node, old))
<1>1. PICK tz : tz = [f \in DOMAIN Seoul |-> json_getValueSibling(node, f, Seoul[f])]
  OBVIOUS
<1>2. DOMAIN Seoul = {"gmtOff", "zone", "id", "name"} BY DEF Seoul
<1>3. \A f \in DOMAIN Seoul : Plain(Seoul[f])
  <2>1. /\ Seoul["gmtOff"] = "9:00" /\ Seoul["zone"] = "KST"
        /\ Seoul["id"] = "Asia/Seoul" /\ Seoul["name"] = "Seoul"
    BY DEF Seoul
  <2> QED BY PlainTexts, <1>2, <2>1
<1>4. \A f \in DOMAIN Seoul : Plain(tz[f]) BY <1>1, <1>3, PlainRead
<1>5. CASE tz.id \in Zone
  <2>1. rf_system_timezone(node, old) = tz BY <1>1, <1>5 DEF rf_system_timezone
  <2>2. tz = [gmtOff |-> tz.gmtOff, zone |-> tz.zone, id |-> tz.id, name |-> tz.name]
    BY <1>1, <1>2
  <2>3. Plain(tz.gmtOff) /\ Plain(tz.zone) /\ Plain(tz.name) BY <1>2, <1>4
  <2> QED BY <1>5, <2>1, <2>2, <2>3 DEF NormalTz
<1>6. CASE tz.id \notin Zone
  <2>1. rf_system_timezone(node, old) = Seoul BY <1>1, <1>6 DEF rf_system_timezone
  <2>2. NormalTz(Seoul)
    BY SettingsAssumption, PlainTexts DEF Seoul, NormalTz
  <2> QED BY <2>1, <2>2
<1> QED BY <1>5, <1>6

LEMMA PlainInfo ==
  ASSUME NEW node, PlainMembers(node)
  PROVE  NormalInfo(rf_system_info(node, Cleared.system.info))
<1>1. PICK old : old = Cleared.system.info OBVIOUS
<1>2. DOMAIN old = InfoFields /\ \A f \in InfoFields : old[f] = ""
  BY <1>1, ClearedFacts
<1>3. \A f \in InfoFields : Plain(json_getValueSibling(node, f, old[f]))
  BY <1>2, PlainTexts, PlainRead
<1>4. PICK info : info = [f \in InfoFields |-> json_getValueSibling(node, f, old[f])]
  OBVIOUS
<1>5. rf_system_info(node, old) = info BY <1>2, <1>4 DEF rf_system_info
<1>6. NormalInfo(info) BY <1>3, <1>4 DEF NormalInfo
<1> QED BY <1>1, <1>5, <1>6

\* The length of a function on 1 .. n.
LEMMA SequenceOf ==
  ASSUME NEW n \in Nat, NEW S, NEW f \in [1 .. n -> S]
  PROVE  Len(f) = n
BY SMT

LEMMA PlainServers ==
  ASSUME NEW node, PlainNtp(node), NEW old, old.server = << >>, old.enable = FALSE
  PROVE  NormalNtp(rf_system_ntp(node, old))
<1>1. PICK p \in DOMAIN node : /\ node[p].key = "serverList"
                              /\ json_getObject(node, "serverList") = node[p].value
  BY SomePlace DEF PlainNtp
<1>2. PICK list : list = json_getObject(node, "serverList") OBVIOUS
<1>3. list \in Seq(STRING) /\ \A j \in DOMAIN list : Plain(list[j])
  BY <1>1, <1>2 DEF PlainNtp
<1>4. PICK n : n = IF Len(list) < MaxServers THEN Len(list) ELSE MaxServers OBVIOUS
<1>5. n \in 0 .. MaxServers /\ 1 .. n \subseteq DOMAIN list
  <2>1. MaxServers \in Nat BY Zenon, SettingsAssumption
  <2>2. Len(list) \in Nat /\ DOMAIN list = 1 .. Len(list) BY <1>3
  <2> QED BY <1>4, <2>1, <2>2
<1>6. PICK e : e = IF Has(node, "enable") THEN json_getObject(node, "enable") = "true"
                   ELSE old.enable
  OBVIOUS
<1>7. e \in BOOLEAN BY <1>6
<1>8. PICK s : s = IF n = 0 THEN << >> ELSE [i \in 1 .. n |-> json_getValue(list[i])]
  OBVIOUS
<1>9. rf_system_ntp(node, old) = [enable |-> e, server |-> s]
  BY <1>2, <1>4, <1>6, <1>8 DEF rf_system_ntp
<1>10. \A i \in 1 .. n : json_getValue(list[i]) = list[i] BY <1>3, <1>5, PlainRead
<1>11. CASE n = 0
  <2>1. s = << >> BY <1>8, <1>11
  <2> QED BY <1>5, <1>7, <1>9, <2>1, <1>11 DEF NormalNtp
<1>12. CASE n # 0
  <2>1. s = [i \in 1 .. n |-> list[i]] BY <1>8, <1>10, <1>12
  <2>2. s \in [1 .. n -> STRING] BY <2>1, <1>3, <1>5
  <2>3. Len(s) = n BY <2>2, <1>5, SequenceOf
  <2>4. DOMAIN s = 1 .. n /\ s = [i \in DOMAIN s |-> s[i]] BY <2>1
  <2>5. \A i \in DOMAIN s : Plain(s[i]) BY <2>1, <1>3, <1>5
  <2> QED BY <1>5, <1>7, <1>9, <2>3, <2>4, <2>5, <1>12 DEF NormalNtp
<1> QED BY <1>11, <1>12

LEMMA PlainBasic ==
  ASSUME NEW node, PlainMembers(node), NEW old, NormalBasic(old)
  PROVE  NormalBasic(rf_network_basic(node, old))
<1>1. Plain(json_getValueSibling(node, "devWired", "eth0")) BY PlainTexts, PlainRead
<1>2. \A table, name, o : o \in table => Named(table, name, o) \in table BY DEF Named
<1>3. PICK b : b = rf_network_basic(node, old) OBVIOUS
<1>4. /\ b = [netif |-> b.netif, type |-> b.type, devWired |-> b.devWired]
      /\ b.netif \in basic_interface_table /\ b.type \in basic_type_table
      /\ b.devWired = json_getValueSibling(node, "devWired", "eth0")
  BY <1>2, <1>3 DEF rf_network_basic, NormalBasic
<1> QED BY <1>1, <1>3, <1>4 DEF NormalBasic

LEMMA GivenIp ==
  ASSUME NEW node, ~Has(node, "dns2"), NEW old
  PROVE  NormalIp(rf_network_staticIp(node, old))
<1>1. \A k, t : t \in Address => staticIp_setConfig(node, k, t) \in Address
  BY DEF staticIp_setConfig
<1>2. staticIp_setConfig(node, "dns2", "8.8.8.8") = "8.8.8.8"
  BY DEF staticIp_setConfig, json_getValueSibling
<1>3. {"192.168.100.74", "255.255.255.0", "192.168.100.1", "168.126.63.1"} \subseteq Address
  BY SettingsAssumption
<1>4. PICK ip : ip = rf_network_staticIp(node, old) OBVIOUS
<1>5. /\ ip = [ipaddr |-> ip.ipaddr, netmask |-> ip.netmask, gateway |-> ip.gateway,
               dns1 |-> ip.dns1, dns2 |-> ip.dns2]
      /\ {ip.ipaddr, ip.netmask, ip.gateway, ip.dns1} \subseteq Address
      /\ ip.dns2 = "8.8.8.8"
  BY <1>1, <1>2, <1>3, <1>4 DEF rf_network_staticIp
<1> QED BY <1>4, <1>5 DEF NormalIp

\* So is each class.
LEMMA ShippedSystem ==
  ASSUME NEW json, Shipped(json),
         NEW x, x = ReadSystem(json.system, Cleared.system)
  PROVE  /\ x = [name |-> x.name, subModel |-> x.subModel, tz |-> x.tz, ntp |-> x.ntp,
                 info |-> x.info]
         /\ x.name = json_getValueSibling(json.system, "name", "")
         /\ Plain(x.subModel)
         /\ NormalTz(x.tz) /\ NormalNtp(x.ntp) /\ NormalInfo(x.info)
<1>1. PICK root : root = json.system OBVIOUS
<1>2. PICK old : old = Cleared.system OBVIOUS
<1>3. /\ PlainSections(root, {"timezone", "info"}) /\ Has(root, "timezone")
      /\ \A i \in DOMAIN root :
           /\ (root[i].key = "subModel" => Plain(root[i].value))
           /\ (root[i].key = "ntp" => PlainNtp(root[i].value))
  BY <1>1 DEF Shipped
<1>4. /\ DOMAIN root \subseteq Nat
      /\ \A i \in DOMAIN root :
           root[i].key \in {"timezone", "info"} => PlainMembers(root[i].value)
  BY <1>3 DEF PlainSections
<1>5. /\ old.ntp.server = << >> /\ old.ntp.enable = FALSE
      /\ old.info = Cleared.system.info /\ NormalInfo(old.info)
      /\ old.name = "" /\ old.subModel = ""
  BY <1>2, ClearedFacts
<1>6. Plain(json_getValueSibling(root, "subModel", old.subModel))
  <2>1. CASE Has(root, "subModel")
    <3>1. PICK i \in DOMAIN root : root[i].key = "subModel"
                                  /\ json_getObject(root, "subModel") = root[i].value
      BY <1>4, <2>1, SomePlace
    <3>2. Plain(json_getObject(root, "subModel")) BY <1>3, <3>1
    <3> QED BY <2>1, <3>2, PlainRead DEF json_getValueSibling
  <2>2. CASE ~Has(root, "subModel")
    BY <1>5, <2>2, PlainTexts DEF json_getValueSibling
  <2> QED BY <2>1, <2>2
<1>7. NormalTz(Section(root, "timezone", old.tz, rf_system_timezone))
  <2>1. PICK i \in DOMAIN root : root[i].key = "timezone"
                                /\ json_getObject(root, "timezone") = root[i].value
    BY <1>3, <1>4, SomePlace
  <2>2. PlainMembers(json_getObject(root, "timezone")) BY <1>4, <2>1
  <2> QED BY <1>3, <2>2, PlainTimezone DEF Section
<1>8. NormalNtp(Section(root, "ntp", old.ntp, rf_system_ntp))
  <2>1. CASE Has(root, "ntp")
    <3>1. PICK i \in DOMAIN root : root[i].key = "ntp"
                                  /\ json_getObject(root, "ntp") = root[i].value
      BY <1>4, <2>1, SomePlace
    <3>2. PlainNtp(json_getObject(root, "ntp")) BY <1>3, <3>1
    <3> QED BY <1>5, <2>1, <3>2, PlainServers DEF Section
  <2>2. CASE ~Has(root, "ntp")
    <3>1. Section(root, "ntp", old.ntp, rf_system_ntp) = Cleared.system.ntp
      BY <1>2, <2>2 DEF Section
    <3>2. NormalNtp(Cleared.system.ntp)
      <4>1. 0 \in 0 .. MaxServers
        <5>1. MaxServers \in Nat BY Zenon, SettingsAssumption
        <5> QED BY <5>1
      <4>2. Cleared.system.ntp = [enable |-> FALSE, server |-> << >>] BY DEF Cleared
      <4> QED BY <4>1, <4>2 DEF NormalNtp
    <3> QED BY <3>1, <3>2
  <2> QED BY <2>1, <2>2
<1>9. NormalInfo(Section(root, "info", old.info, rf_system_info))
  <2>1. CASE Has(root, "info")
    <3>1. PICK i \in DOMAIN root : root[i].key = "info"
                                  /\ json_getObject(root, "info") = root[i].value
      BY <1>4, <2>1, SomePlace
    <3>2. PlainMembers(json_getObject(root, "info")) BY <1>4, <3>1
    <3> QED BY <1>5, <2>1, <3>2, PlainInfo DEF Section
  <2>2. CASE ~Has(root, "info") BY <1>5, <2>2 DEF Section
  <2> QED BY <2>1, <2>2
<1>10. x = ReadSystem(root, old) BY <1>1, <1>2
<1>11. /\ x.name = json_getValueSibling(root, "name", old.name)
       /\ x.subModel = json_getValueSibling(root, "subModel", old.subModel)
       /\ x.tz = Section(root, "timezone", old.tz, rf_system_timezone)
       /\ x.ntp = Section(root, "ntp", old.ntp, rf_system_ntp)
       /\ x.info = Section(root, "info", old.info, rf_system_info)
       /\ x = [name |-> x.name, subModel |-> x.subModel, tz |-> x.tz, ntp |-> x.ntp,
               info |-> x.info]
  BY <1>10 DEF ReadSystem
<1> QED BY <1>1, <1>5, <1>6, <1>7, <1>8, <1>9, <1>11

LEMMA ShippedNetwork ==
  ASSUME NEW json, Shipped(json)
  PROVE  NormalNetwork(ReadNetwork(json.network, Cleared.network))
<1>1. PICK root : root = json.network OBVIOUS
<1>2. PICK old : old = Cleared.network OBVIOUS
<1>3. /\ PlainSections(root, {"basic", "staticIp"}) /\ Has(root, "staticIp")
      /\ \A i \in DOMAIN root : root[i].key = "staticIp" => ~Has(root[i].value, "dns2")
  BY <1>1 DEF Shipped
<1>4. /\ DOMAIN root \subseteq Nat
      /\ \A i \in DOMAIN root :
           root[i].key \in {"basic", "staticIp"} => PlainMembers(root[i].value)
  BY <1>3 DEF PlainSections
<1>5. NormalBasic(old.basic) BY <1>2, ClearedFacts
<1>6. NormalBasic(Section(root, "basic", old.basic, rf_network_basic))
  <2>1. CASE Has(root, "basic")
    <3>1. PICK i \in DOMAIN root : root[i].key = "basic"
                                  /\ json_getObject(root, "basic") = root[i].value
      BY <1>4, <2>1, SomePlace
    <3>2. PlainMembers(json_getObject(root, "basic")) BY <1>4, <3>1
    <3> QED BY <1>5, <2>1, <3>2, PlainBasic DEF Section
  <2>2. CASE ~Has(root, "basic") BY <1>5, <2>2 DEF Section
  <2> QED BY <2>1, <2>2
<1>7. NormalIp(Section(root, "staticIp", old.staticIp, rf_network_staticIp))
  <2>1. PICK i \in DOMAIN root : root[i].key = "staticIp"
                                /\ json_getObject(root, "staticIp") = root[i].value
    BY <1>3, <1>4, SomePlace
  <2>2. ~Has(json_getObject(root, "staticIp"), "dns2") BY <1>3, <2>1
  <2> QED BY <1>3, <2>2, GivenIp DEF Section
<1>8. PICK x : x = ReadNetwork(root, old) OBVIOUS
<1>9. /\ x.basic = Section(root, "basic", old.basic, rf_network_basic)
      /\ x.staticIp = Section(root, "staticIp", old.staticIp, rf_network_staticIp)
      /\ x = [basic |-> x.basic, staticIp |-> x.staticIp]
  BY <1>8 DEF ReadNetwork
<1> QED BY <1>1, <1>2, <1>6, <1>7, <1>8, <1>9 DEF NormalNetwork

\* The first start leaves settings that are normal, with the name in the file.
LEMMA ShippedIsNormal ==
  ASSUME NEW json, Shipped(json)
  PROVE  /\ Normal(configInit(json))
         /\ configInit(json).system.name = json_getValueSibling(json.system, "name", "")
<1>1. PICK x : x = ReadSystem(json.system, Cleared.system) OBVIOUS
<1>2. PICK y : y = ReadNetwork(json.network, Cleared.network) OBVIOUS
<1>3. NormalNetwork(y) BY <1>2, ShippedNetwork
<1>4. /\ x = [name |-> x.name, subModel |-> x.subModel, tz |-> x.tz, ntp |-> x.ntp,
              info |-> x.info]
      /\ x.name = json_getValueSibling(json.system, "name", "")
      /\ Plain(x.subModel)
      /\ NormalTz(x.tz) /\ NormalNtp(x.ntp) /\ NormalInfo(x.info)
  BY <1>1, ShippedSystem
<1>5. PICK m : m = [system |-> x, network |-> y] OBVIOUS
<1>6. JsonToMem(json) = m BY <1>1, <1>2, <1>5, Zenon DEF JsonToMem
<1>7. m.system = x /\ m.network = y BY <1>5
<1>8. CASE x.subModel = ""
  <2>1. PICK z : z = [x EXCEPT !.subModel = Model] OBVIOUS
  <2>2. configInit(json) = [system |-> z, network |-> y]
    <3>1. configInit(json) = [m EXCEPT !.system.subModel = Model]
      BY <1>6, <1>7, <1>8, Zenon DEF configInit
    <3>2. [m EXCEPT !.system.subModel = Model] = [system |-> z, network |-> y]
      BY <1>5, <2>1
    <3> QED BY <3>1, <3>2
  <2>3. z = [name |-> x.name, subModel |-> Model, tz |-> x.tz, ntp |-> x.ntp,
             info |-> x.info]
    BY <1>4, <2>1
  <2>4. NormalSystem(z) BY <1>4, <2>3, PlainTexts DEF NormalSystem
  <2>5. PICK r : r = [system |-> z, network |-> y] OBVIOUS
  <2>6. r.system = z /\ r.network = y BY <2>5
  <2>7. Normal(r) BY <1>3, <2>4, <2>5, <2>6, Zenon DEF Normal
  <2>8. r.system.name = x.name BY <2>3, <2>6
  <2>9. configInit(json) = r BY <2>2, <2>5, Zenon
  <2> QED BY <1>4, <2>7, <2>8, <2>9, Zenon
<1>9. CASE x.subModel # ""
  <2>1. configInit(json) = m BY <1>6, <1>7, <1>9, Zenon DEF configInit
  <2>2. NormalSystem(x) BY <1>4, <1>9 DEF NormalSystem
  <2>3. Normal(m) BY <1>3, <1>5, <1>7, <2>2, Zenon DEF Normal
  <2> QED BY <1>4, <1>7, <2>1, <2>3, Zenon
<1> QED BY <1>8, <1>9

----------------------------------------------------------------------------
(* The settings after any number of starts                                   *)

Starts(json, n) ==
  CHOOSE f : f = [i \in 0 .. n |-> IF i = 0 THEN configInit(json)
                                           ELSE configInit(MemToJson(f[i - 1]))]

\* The settings of the starts from 0 to n, as Settled defines them.
LEMMA SettledIsLast == \A json, n : Settled(json, n) = Starts(json, n)[n]
BY Zenon DEF Settled, Starts

\* A set that has the first settings and is closed under saving and loading
\* has all of them.
LEMMA SettledIn ==
  ASSUME NEW json, NEW V, configInit(json) \in V,
         \A m \in V : configInit(MemToJson(m)) \in V,
         NEW n \in Nat
  PROVE  Settled(json, n) \in V
<1> DEFINE Good(f) == f = [i \in 0 .. n |-> IF i = 0 THEN configInit(json)
                                              ELSE configInit(MemToJson(f[i - 1]))]
           g == [p \in Nat \X V |-> configInit(MemToJson(p[2]))]
<1>1. \E f : Good(f)
  <2>1. g \in [Nat \X V -> V] OBVIOUS
  <2>2. PICK F \in [Nat -> V] : Computes(F, configInit(json), g)
    <3> HIDE DEF g
    <3> QED BY <2>1, Recursion
  <2>3. F[0] = configInit(json) BY <2>2 DEF Computes
  <2>4. \A i \in Nat : F[i + 1] = configInit(MemToJson(F[i]))
    <3>1. \A i \in Nat : F[i + 1] = g[<<i, F[i]>>]
      <4> HIDE DEF g
      <4> QED BY <2>2 DEF Computes
    <3>2. \A i \in Nat : g[<<i, F[i]>>] = configInit(MemToJson(F[i]))
      BY <2>2
    <3> HIDE DEF g
    <3> QED BY <3>1, <3>2
  <2>5. PICK f : f = [i \in 0 .. n |-> F[i]] OBVIOUS
  <2>6. \A i \in 0 .. n : F[i] = IF i = 0 THEN configInit(json)
                                       ELSE configInit(MemToJson(f[i - 1]))
    <3> SUFFICES ASSUME NEW i \in 0 .. n, i # 0
                 PROVE  F[i] = configInit(MemToJson(f[i - 1]))
      BY <2>3
    <3>1. PICK j \in Nat : j = i - 1 OBVIOUS
    <3>2. j + 1 = i /\ j \in 0 .. n BY <3>1
    <3>3. f[j] = F[j] BY <2>5, <3>2
    <3> QED BY <2>4, <3>1, <3>2, <3>3
  <2> QED BY <2>5, <2>6
<1>2. PICK f : f = Starts(json, n) OBVIOUS
<1>3. Good(f)
  <2>1. f = CHOOSE h : Good(h) BY <1>2, Zenon DEF Starts
  <2> HIDE DEF Good
  <2> QED BY <1>1, <2>1
<1> DEFINE T == {i \in Nat : i <= n => f[i] \in V}
<1>4. 0 \in T BY <1>3
<1>5. ASSUME NEW i \in Nat, i \in T PROVE i + 1 \in T
  <2> SUFFICES ASSUME i + 1 <= n PROVE f[i + 1] \in V OBVIOUS
  <2>1. f[i + 1] = configInit(MemToJson(f[i + 1 - 1])) BY <1>3
  <2>2. i + 1 - 1 = i /\ f[i] \in V BY <1>5
  <2> QED BY <2>1, <2>2
<1>6. \A i \in Nat : i \in T
  <2> HIDE DEF T
  <2> QED BY <1>4, <1>5, SetInduction
<1>7. f[n] \in V BY <1>6
<1> QED BY <1>2, <1>7, SettledIsLast

Renamed(m, t) == [m EXCEPT !.system.name = t]

\* A name that is printed as it is stays; another one is escaped over and over,
\* and nothing else changes.
LEMMA SettledFacts ==
  ASSUME NEW json, NEW m, m = configInit(json), Normal(m), NEW n \in Nat
  PROVE  /\ \E t : Settled(json, n) = Renamed(m, t)
         /\ Plain(m.system.name) => Settled(json, n) = m
<1> DEFINE Name(t) == Renamed(m, t)
<1> USE DEF Renamed
<1>1. PICK s : s = m.system OBVIOUS
<1>2. /\ m = [system |-> s, network |-> m.network]
      /\ s = [name |-> s.name, subModel |-> s.subModel, tz |-> s.tz, ntp |-> s.ntp,
              info |-> s.info]
  BY <1>1 DEF Normal, NormalSystem
<1>3. ASSUME NEW t
      PROVE  /\ Name(t).system = [name |-> t, subModel |-> s.subModel, tz |-> s.tz,
                                  ntp |-> s.ntp, info |-> s.info]
             /\ Name(t).network = m.network
             /\ Name(t) = [system |-> Name(t).system, network |-> m.network]
  BY <1>1, <1>2
<1>4. Name(m.system.name) = m
  <2>1. [s EXCEPT !.name = s.name] = s BY <1>2
  <2>2. Name(s.name) = [system |-> [s EXCEPT !.name = s.name], network |-> m.network]
    BY <1>2
  <2> QED BY <1>1, <1>2, <2>1, <2>2
<1>5. ASSUME NEW t, NEW k, k = Name(t) PROVE configInit(MemToJson(k)) = Name(json_getValue(t))
  <2>1. Normal(k) BY <1>1, <1>3, <1>5 DEF Normal, NormalSystem
  <2>2. k.system.name = t
    <3>1. PICK r : r = k.system OBVIOUS
    <3>2. r = [name |-> t, subModel |-> s.subModel, tz |-> s.tz, ntp |-> s.ntp,
               info |-> s.info]
      BY <1>3, <1>5, <3>1
    <3> QED BY <3>1, <3>2
  <2>3. PICK u : u = json_getValue(t) OBVIOUS
  <2>4. configInit(MemToJson(k)) = [k EXCEPT !.system.name = u]
    BY <2>1, <2>2, <2>3, MemoryBack
  <2>5. [k EXCEPT !.system.name = u] = Name(u)
    <3>1. PICK r : r = k.system OBVIOUS
    <3>2. /\ r = [name |-> t, subModel |-> s.subModel, tz |-> s.tz, ntp |-> s.ntp,
                  info |-> s.info]
          /\ k = [system |-> r, network |-> m.network]
      BY <1>3, <1>5, <3>1
    <3>3. [r EXCEPT !.name = u] = [s EXCEPT !.name = u] BY <1>2, <3>2
    <3>4. [k EXCEPT !.system.name = u] =
            [system |-> [r EXCEPT !.name = u], network |-> m.network]
      BY <3>2
    <3>5. Name(u) = [system |-> [s EXCEPT !.name = u], network |-> m.network]
      BY <1>2
    <3> QED BY <3>3, <3>4, <3>5
  <2> QED BY <2>3, <2>4, <2>5
<1> HIDE DEF Name, Renamed
<1>6. \E t : Settled(json, n) = Name(t)
  <2> DEFINE N == {m.system.name} \cup DOMAIN Escaped
                    \cup {Escaped[t] : t \in DOMAIN Escaped}
             V == {Name(t) : t \in N}
  <2>1. \A t \in N : json_getValue(t) \in N BY DEF json_getValue
  <2> HIDE DEF N
  <2>2. ASSUME NEW k \in V PROVE configInit(MemToJson(k)) \in V
    <3>1. PICK t \in N : k = Name(t) OBVIOUS
    <3> QED BY <1>5, <2>1, <3>1
  <2>3. configInit(json) \in V
    <3>1. m.system.name \in N BY DEF N
    <3> QED BY <1>4, <3>1
  <2>4. Settled(json, n) \in V
    <3> HIDE DEF V
    <3> QED BY <2>2, <2>3, SettledIn
  <2> QED BY <2>4
<1>7. ASSUME Plain(m.system.name) PROVE Settled(json, n) = m
  <2>1. configInit(MemToJson(m)) = m
    <3>1. json_getValue(m.system.name) = m.system.name BY <1>7, PlainRead
    <3>2. configInit(MemToJson(m)) = Name(json_getValue(m.system.name)) BY <1>4, <1>5
    <3> QED BY <1>4, <3>1, <3>2
  <2>2. PICK V : V = {m} OBVIOUS
  <2>3. configInit(json) \in V /\ \A k \in V : configInit(MemToJson(k)) \in V
    BY <2>1, <2>2
  <2>4. Settled(json, n) \in V BY <2>3, SettledIn
  <2> QED BY <2>2, <2>4
<1> QED BY <1>6, <1>7 DEF Name

\* After any number of starts the settings are those of the first, and can be
\* saved.
LEMMA KeptForever == \A n \in Nat : KeptUntil(n)
<1> SUFFICES ASSUME NEW n \in Nat, NEW json \in DefaultFile
             PROVE  /\ Saveable(Settled(json, n))
                    /\ Kept(json, Settled(json, n)) = Kept(json, Settled(json, 0))
  BY DEF KeptUntil
<1>1. PICK m : m = configInit(json) OBVIOUS
<1>2. Shipped(json) BY DefaultFileAssumption
<1>3. Normal(m) /\ m.system.name = json_getValueSibling(json.system, "name", "")
  BY <1>1, <1>2, ShippedIsNormal
<1>4. PICK s : s = m.system OBVIOUS
<1>5. /\ m = [system |-> s, network |-> m.network]
      /\ s = [name |-> s.name, subModel |-> s.subModel, tz |-> s.tz, ntp |-> s.ntp,
              info |-> s.info]
  BY <1>3, <1>4 DEF Normal, NormalSystem
<1>6. PICK a, b : a = Settled(json, n) /\ b = Settled(json, 0) OBVIOUS
<1>7. PICK t, u : a = Renamed(m, t) /\ b = Renamed(m, u)
  <2>1. \A k \in Nat : \E t : Settled(json, k) = Renamed(m, t)
    <3>1. Normal(m) BY <1>3
    <3>2. ASSUME NEW k \in Nat
          PROVE  (\E t : Settled(json, k) = Renamed(m, t))
                 /\ (Plain(m.system.name) => Settled(json, k) = m)
      BY <1>1, <3>1, SettledFacts
    <3> QED BY <3>2
  <2>2. \E t : a = Renamed(m, t) BY <1>6, <2>1
  <2>3. \E u : b = Renamed(m, u) BY <1>6, <2>1
  <2> QED BY <2>2, <2>3, Zenon
<1>8. Saveable(a)
  <2>1. a.network = m.network BY <1>5, <1>7 DEF Renamed
  <2>2. PICK ip : ip = m.network.staticIp OBVIOUS
  <2>3. NormalIp(ip) BY <1>3, <2>2 DEF Normal, NormalNetwork
  <2>4. "8.8.8.8" \in Address BY SettingsAssumption
  <2>5. \A f \in DOMAIN ip : ip[f] \in Address BY <2>3, <2>4 DEF NormalIp
  <2> QED BY <2>1, <2>2, <2>5 DEF Saveable
<1>9. Kept(json, a) = Kept(json, b)
  <2>1. CASE Has(json.system, "name") /\ ~Plain(json_getObject(json.system, "name"))
    <3>1. /\ [a EXCEPT !.system.name = ""] = [m EXCEPT !.system.name = ""]
          /\ [b EXCEPT !.system.name = ""] = [m EXCEPT !.system.name = ""]
      BY <1>5, <1>7 DEF Renamed
    <3> QED BY <2>1, <3>1 DEF Kept
  <2>2. CASE ~(Has(json.system, "name") /\ ~Plain(json_getObject(json.system, "name")))
    <3>1. Plain(m.system.name)
      BY <1>3, <2>2, PlainTexts, PlainRead DEF json_getValueSibling
    <3>2. a = m /\ b = m BY <1>1, <1>3, <1>6, <3>1, SettledFacts
    <3> QED BY <3>2
  <2> QED BY <2>1, <2>2
<1> QED BY <1>6, <1>8, <1>9

----------------------------------------------------------------------------
(* The theorems *)

\* No handler, and no failure, breaks the invariant.
LEMMA Invariant == Spec => []IInv
<1>1. Init => IInv
  BY InitOK
<1>2. IInv /\ [Next]_vars => IInv'
  BY TypeStep, LockStep, LoadStep, FileStep DEF IInv
<1> QED BY <1>1, <1>2, PTL DEF Spec

\* The variables keep their types: the semaphore counts no more than
\* SEM_MAX_COUNT units, whoever dies while it holds some (SEM_UNDO), and
\* however often semaInit finds the semaphore there already.
THEOREM TypeCorrect == Spec => []TypeOK
<1>1. IInv => TypeOK
  BY DEF IInv
<1> QED BY <1>1, Invariant, PTL

\* What a reader finds between PFConfigGet and PFConfigPut, once the settings
\* are initialized: every database loaded, and no update half done.
THEOREM SettingsWhole == Spec => []ReadsWhole
<1>1. IInv => ReadsWhole
  <2> SUFFICES ASSUME IInv, initialized, NEW r \in Reader, held[r] = 1
               PROVE  /\ \A d \in Database : content[d] # None
                      /\ half => pc = "dead"
    BY DEF ReadsWhole
  <2>1. r \in Holders
    BY DEF Holders
  <2>2. \A d \in Database : content[d] # None
    BY DEF IInv, LoadInv
  <2>3. half => pc = "dead"
    BY <2>1 DEF IInv, LockInv
  <2> QED BY <2>2, <2>3
<1> QED BY <1>1, Invariant, PTL

\* The settings a reader looks at between PFConfigGet and PFConfigPut do not
\* change: updateConfigRuntimeService takes all the units, and memset and
\* JsonToMem, which take none, come before the flag is set.
THEOREM SettingsStable == Spec => ReadsStable
<1>1. ASSUME IInv, [Next]_vars, initialized, pc # "off",
             NEW r \in Reader, held[r] = 1, held'[r] = 1
      PROVE  UNCHANGED mvars
  <2>1. Holders # {}
    BY <1>1 DEF Holders
  <2>2. ~Starting
    BY <1>1 DEF IInv, LoadInv
  <2>3. ~Update
    <3>1. Cardinality(Holders) \in Nat /\ Cardinality(Holders) # 0
      BY <1>1, <2>1, HoldersFacts, FS_EmptySet DEF IInv
    <3>2. sem = Units => sem # None /\ sem + Cardinality(Holders) <= Units
      BY <1>1, Constants DEF IInv, LockInv
    <3>3. sem # Units
      BY <3>1, <3>2, Constants
    <3> QED BY <3>3 DEF Update, ConfigGet
  <2>4. ~UpdateEnds
    BY <1>1, <2>1 DEF IInv, LockInv, UpdateEnds
  <2>5. ~Reboot
    BY <1>1 DEF Reboot
  <2>6. CASE \E s \in Reader : ReaderLock(s) \/ ReaderUnlock(s)
    BY <2>6 DEF ReaderLock, ReaderUnlock
  <2>7. CASE Start \/ SemaCreate \/ SemaFound \/ SemaSetVal
    BY <1>1, <2>2, <2>7 DEF Start, SemaCreate, SemaFound, SemaSetVal, Starting
  <2>8. CASE CopyDefault \/ CopyEnds \/ Load \/ LoadTorn \/ LoadEmpty
    BY <2>2, <2>8
       DEF CopyDefault, CopyEnds, Load, LoadTorn, LoadEmpty, Starting
  <2>9. CASE Shutdown \/ Save \/ SaveEnds \/ Crash
    BY <2>9 DEF Shutdown, Save, SaveEnds, Crash
  <2>10. CASE UNCHANGED vars
    BY <2>10 DEF vars
  <2> QED BY <1>1, <2>3, <2>4, <2>5, <2>6, <2>7, <2>8, <2>9, <2>10 DEF Next
<1>2. IInv /\ [Next]_vars =>
        [(initialized /\ pc # "off" /\ \E r \in Reader : held[r] = 1 /\ held'[r] = 1)
           => UNCHANGED mvars]_vars
  BY <1>1
<1> QED BY <1>2, Invariant, PTL DEF Spec, ReadsStable

\* The ping and the pong of a database, with pf-getConfig, ValidDBFile and
\* json_saveFile: a load gives a complete save with the latest LastTime, for
\* every way the clock is set between the starts, as no save truncates the
\* slot that has it before the other slot has one as late.
THEOREM NewestSaveLoaded == Spec => LoadsNewestSave
<1>1. ASSUME IInv, [Next]_vars, NEW d \in Database, Loads(d), saves[d] # {}
      PROVE  \E s \in saves[d] :
               /\ content'[d] = s.gen
               /\ \A t \in saves[d] : t.time <= s.time
  <2>1. CASE Load
    <3>1. content' = [content EXCEPT ![db] = file[db][ValidDBFile(db)].gen]
      BY <2>1 DEF Load
    <3>2. d = db /\ content'[d] = file[d][ValidDBFile(d)].gen
      BY <1>1, <3>1 DEF IInv, TypeOK, Loads
    <3>3. PICK k \in Slot : Newest(d, k)
      BY <1>1 DEF IInv, FileInv, SlotsInv
    <3>4. Newest(d, ValidDBFile(d))
      BY <1>1, <3>3, ChosenNewest DEF IInv, FileInv
    <3> QED BY <3>2, <3>4 DEF Newest
  <2>2. CASE Start \/ Reboot
    BY <1>1, <2>2 DEF Start, Reboot, Nothing, Loads
  <2>3. CASE UNCHANGED content
    BY <1>1, <2>3 DEF Loads
  <2>4. Load \/ Start \/ Reboot \/ UNCHANGED content
    BY <1>1 DEF Next, vars, mvars, ReaderLock, ReaderUnlock, SemaCreate,
       SemaFound, SemaSetVal, CopyDefault, CopyEnds, LoadTorn, LoadEmpty,
       Update, UpdateEnds, Shutdown, Save, SaveEnds, Crash
  <2> QED BY <2>1, <2>2, <2>3, <2>4
<1>2. IInv /\ [Next]_vars =>
        [\A d \in Database :
           Loads(d) /\ saves[d] # {} =>
             \E s \in saves[d] :
               /\ content'[d] = s.gen
               /\ \A t \in saves[d] : t.time <= s.time]_vars
  BY <1>1
<1> QED BY <1>2, Invariant, PTL DEF Spec, LoadsNewestSave

\* Whichever start's save is loaded, the settings are those the default files
\* gave and pass the assertions of wf_network_staticIp, but for a name that
\* JSON escapes: MemToJson and JsonToMem are inverse to each other on what
\* configInit leaves, dns2 under the key dns1 included.
THEOREM SettingsSurvive == Spec => []SettingsKept
<1>1. TypeOK => SettingsKept
  <2> SUFFICES ASSUME TypeOK, NEW d \in Database, content[d] # None
               PROVE  KeptAtStart[content[d]]
    BY DEF SettingsKept
  <2>1. PICK n \in 0 .. MaxStarts : n = content[d] BY DEF TypeOK
  <2>2. n \in Nat BY Constants
  <2>3. KeptUntil(n) BY <2>2, KeptForever
  <2> QED BY <2>1, <2>3, Zenon DEF KeptAtStart
<1> QED BY <1>1, TypeCorrect, PTL
=============================================================================
