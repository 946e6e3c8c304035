--------------------------- MODULE RegistryProofs ---------------------------
(***************************************************************************)
(* Proofs about Registry: as long as its callers keep apart what Adminis-  *)
(* tered lists, and no proc_create_data fails, no object is used after it  *)
(* is freed and every refcnt is exact, for every number of threads, names, *)
(* segments and queues.                                                    *)
(***************************************************************************)
EXTENDS Registry, FiniteSetTheorems, TLAPS

Careful == Administered \subseteq Conflicts /\ "proc" \notin Failures

Creating == {"select", "manager", "list", "err3"}
HasSeg == Creating \cup {"remove"}
Removing == {"busy", "unlist", "unselect", "free"}
HasMgr == Removing \cup {"setup"}
Labels == {"idle", "create"} \cup HasSeg \cup HasMgr

Types ==
  /\ segName \in [Seg -> Name \cup {None}] /\ segRefcnt \in [Seg -> Int]
  /\ mgrMem \in [Mgr -> Seg \cup {None}] /\ mgrRefcnt \in [Mgr -> Int]
  /\ segList = AliveSeg /\ mgrList \subseteq AliveMgr
  /\ pc \in [Task -> Labels]
  /\ call \in [Task -> Calls \cup {None}] /\ name \in [Task -> Name \cup {None}]
  /\ seg \in [Task -> Seg \cup {None}] /\ mgr \in [Task -> Mgr \cup {None}]
  /\ file \in [Task -> Mgr \cup {None}] /\ shmFile \in [Task -> Seg \cup {None}]

\* Which call is at which label.
CallAt(t) ==
  /\ pc[t] = "idle" <=> call[t] = None
  /\ pc[t] # "idle" => name[t] \in Name
  /\ pc[t] = "create" => call[t] \in {"VMSHM_CREATE", "VMQ_CREATE"}
  /\ pc[t] \in Creating => call[t] = "VMQ_CREATE"
  /\ pc[t] = "remove" => call[t] \in {"VMQ_CREATE", "VMSHM_REMOVE"}
  /\ pc[t] \in Removing => call[t] = "VMQ_REMOVE"
  /\ pc[t] = "setup" => call[t] = "VMQ_SETUP"

\* What a call holds has the name it was called with.
Holds(t) ==
  /\ pc[t] = "create" => lookup(name[t]) = {}
  /\ pc[t] \in HasSeg => seg[t] \in segList /\ segName[seg[t]] = name[t]
  /\ pc[t] \in HasMgr => mgr[t] \in AliveMgr /\ segName[mgrMem[mgr[t]]] = name[t]
  /\ pc[t] = "list" =>
       mgr[t] \in AliveMgr \ mgrList /\ mgrMem[mgr[t]] = seg[t]
  /\ pc[t] \in {"busy", "unlist", "setup"} => mgr[t] \in mgrList
  /\ pc[t] \in {"unselect", "free"} => mgr[t] \notin mgrList
  /\ pc[t] \in {"unlist", "unselect", "free"} =>
       \A u \in Task : file[u] # mgr[t]
  /\ pc[t] \in HasSeg \ {"list"} /\ call[t] = "VMQ_CREATE" =>
       \A m \in AliveMgr : mgrMem[m] # seg[t]
  /\ pc[t] = "setup" => file[t] = None

Apart(t, u) ==
  pc[t] # "idle" /\ pc[u] # "idle" /\ name[t] = name[u] =>
    {call[t], call[u]} \notin Administered

\* A queue not listed yet and one not listed any more are different ones.
ListAlone(t, u) ==
  pc[t] = "list" /\ pc[u] \in {"unselect", "free"} => mgr[t] # mgr[u]

Objects ==
  /\ \A m \in AliveMgr : mgrMem[m] \in segList
  /\ \A s, r \in segList : segName[s] = segName[r] => s = r
  /\ \A m, k \in AliveMgr : mgrMem[m] = mgrMem[k] => m = k
  /\ \A t \in Task : /\ file[t] # None => file[t] \in mgrList
                     /\ shmFile[t] # None => shmFile[t] \in segList

Shape ==
  /\ Types /\ Objects
  /\ \A t \in Task : CallAt(t) /\ Holds(t)
  /\ \A t, u \in Task : t # u => Apart(t, u) /\ ListAlone(t, u)

Files(m) == {t \in Task : file[t] = m}
ShmFiles(s) == {t \in Task : shmFile[t] = s}
Queues(s) ==
  {m \in AliveMgr : mgrMem[m] = s
     /\ ~\E t \in Task : pc[t] = "free" /\ mgr[t] = m}
Creators(s) == {t \in Task : pc[t] \in {"manager", "err3"} /\ seg[t] = s}

IInv == Shape /\ RefcntExact

USE DEF Creating, HasSeg, Removing, HasMgr

------------------------------------------------------------------------------
LEMMA NoneFacts ==
  /\ None \notin Task /\ None \notin Name /\ None \notin Seg /\ None \notin Mgr
  /\ None \notin Calls /\ None # "VMSHM_CREATE" /\ None # "VMSHM_REMOVE"
  /\ None # "VMQ_CREATE" /\ None # "VMQ_REMOVE" /\ None # "VMQ_SETUP"
  /\ IsFiniteSet(Task) /\ IsFiniteSet(Mgr)
BY RegistryAssumption DEF Calls

\* None is no call, whatever it is.
LEMMA Clashes ==
  /\ {"VMQ_REMOVE", "VMQ_REMOVE"} \in Administered
  /\ {"VMSHM_REMOVE", "VMSHM_REMOVE"} \in Administered
  /\ {"VMSHM_REMOVE", "VMQ_REMOVE"} \in Administered
  /\ {"VMQ_REMOVE", "VMSHM_REMOVE"} \in Administered
  /\ {"VMQ_CREATE", "VMQ_CREATE"} \in Administered
  /\ {"VMSHM_CREATE", "VMSHM_CREATE"} \in Administered
  /\ {"VMSHM_CREATE", "VMQ_CREATE"} \in Administered
  /\ {"VMQ_CREATE", "VMSHM_CREATE"} \in Administered
  /\ {"VMSHM_REMOVE", "VMQ_CREATE"} \in Administered
  /\ {"VMQ_CREATE", "VMSHM_REMOVE"} \in Administered
  /\ {"VMQ_REMOVE", "VMQ_SETUP"} \in Administered
  /\ {"VMQ_SETUP", "VMQ_REMOVE"} \in Administered
BY DEF Administered

\* What two calls on one name cannot be.
LEMMA NotBoth ==
  ASSUME NEW t \in Task, NEW u \in Task, Apart(t, u),
         pc[t] # "idle", pc[u] # "idle", name[t] = name[u]
  PROVE  /\ call[t] \in {"VMQ_REMOVE", "VMSHM_REMOVE"} =>
              call[u] \notin {"VMQ_REMOVE", "VMSHM_REMOVE"}
         /\ call[t] \in {"VMQ_CREATE", "VMSHM_CREATE"} =>
              call[u] \notin {"VMQ_CREATE", "VMSHM_CREATE"}
         /\ call[t] = "VMSHM_REMOVE" => call[u] # "VMQ_CREATE"
         /\ call[t] = "VMQ_CREATE" => call[u] # "VMSHM_REMOVE"
         /\ call[t] = "VMQ_REMOVE" => call[u] # "VMQ_SETUP"
         /\ call[t] = "VMQ_SETUP" => call[u] # "VMQ_REMOVE"
BY Clashes DEF Apart

------------------------------------------------------------------------------
(* Where the tasks are after a step of t                                     *)

Locals(t, l, c, n) ==
  /\ pc' \in [Task -> Labels] /\ call' \in [Task -> Calls \cup {None}]
  /\ name' \in [Task -> Name \cup {None}]
  /\ pc'[t] = l /\ call'[t] = c /\ name'[t] = n
  /\ \A u \in Task \ {t} :
       pc'[u] = pc[u] /\ call'[u] = call[u] /\ name'[u] = name[u]

LEMMA GotoLocals ==
  ASSUME Types, NEW t \in Task, NEW l \in Labels, Goto(t, l)
  PROVE  Locals(t, l, call[t], name[t])
BY DEF Types, Goto, Locals, lvars

LEMMA ReturnLocals ==
  ASSUME Types, NEW t \in Task, Return(t)
  PROVE  /\ Locals(t, "idle", None, None)
         /\ seg' \in [Task -> Seg \cup {None}] /\ mgr' \in [Task -> Mgr \cup {None}]
         /\ \A u \in Task \ {t} : seg'[u] = seg[u] /\ mgr'[u] = mgr[u]
BY DEF Types, Return, Locals, Labels

LEMMA EnterLocals ==
  ASSUME Types, NEW t \in Task, NEW c \in Calls, NEW n \in Name,
         NEW l \in Labels, Enter(t, c, n, l)
  PROVE  Locals(t, l, c, n)
BY DEF Types, Enter, Locals

\* Calls that have begun apart go on apart.
LEMMA ApartGoto ==
  ASSUME Shape, NEW t \in Task, NEW l, Locals(t, l, call[t], name[t]),
         pc[t] # "idle", NEW u \in Task, NEW v \in Task, u # v
  PROVE  Apart(u, v)'
<1>1. /\ pc'[u] # "idle" => pc[u] # "idle" /\ call'[u] = call[u] /\ name'[u] = name[u]
      /\ pc'[v] # "idle" => pc[v] # "idle" /\ call'[v] = call[v] /\ name'[v] = name[v]
  BY DEF Locals
<1> QED BY <1>1 DEF Shape, Apart

LEMMA ApartReturn ==
  ASSUME Shape, NEW t \in Task, Locals(t, "idle", None, None),
         NEW u \in Task, NEW v \in Task, u # v
  PROVE  Apart(u, v)'
<1>1. /\ pc'[u] # "idle" => pc[u] # "idle" /\ call'[u] = call[u] /\ name'[u] = name[u]
      /\ pc'[v] # "idle" => pc[v] # "idle" /\ call'[v] = call[v] /\ name'[v] = name[v]
  BY DEF Locals
<1> QED BY <1>1 DEF Shape, Apart

LEMMA ApartEnter ==
  ASSUME Careful, Shape, NEW t \in Task, NEW c, NEW n, NEW l,
         Enter(t, c, n, l), Locals(t, l, c, n),
         NEW u \in Task, NEW v \in Task, u # v
  PROVE  Apart(u, v)'
<1>1. ASSUME NEW x \in Task \ {t}, pc[x] # "idle", name[x] = n
      PROVE  {c, call[x]} \notin Administered /\ {call[x], c} \notin Administered
  <2>1. {c, call[x]} \notin Administered
    BY <1>1 DEF Enter, KeptApart, Careful
  <2>2. {c, call[x]} = {call[x], c} OBVIOUS
  <2> QED BY <2>1, <2>2
<1>2. CASE u = t BY <1>1, <1>2 DEF Apart, Locals
<1>3. CASE v = t BY <1>1, <1>3 DEF Apart, Locals
<1>4. CASE u # t /\ v # t BY <1>4 DEF Apart, Locals, Shape
<1> QED BY <1>2, <1>3, <1>4

\* What is left to show when only the locals of t change.
LEMMA QuietShape ==
  ASSUME Shape, NEW t \in Task, NEW l, NEW c, NEW n, Locals(t, l, c, n),
         UNCHANGED <<svars, mvars, fvars>>,
         seg' \in [Task -> Seg \cup {None}], mgr' \in [Task -> Mgr \cup {None}],
         \A u \in Task \ {t} : seg'[u] = seg[u] /\ mgr'[u] = mgr[u],
         CallAt(t)', Holds(t)', l # "list", l \notin {"unselect", "free"},
         \A u, v \in Task : u # v => Apart(u, v)'
  PROVE  Shape'
<1> USE DEF svars, mvars, fvars
<1>1. Types' BY DEF Shape, Types, Locals, AliveSeg, AliveMgr
<1>2. Objects' BY DEF Shape, Objects, AliveMgr
<1>3. ASSUME NEW u \in Task \ {t} PROVE CallAt(u)' /\ Holds(u)'
  BY DEF Shape, CallAt, Holds, Locals, AliveMgr, lookup
<1>4. ASSUME NEW u \in Task, NEW v \in Task, u # v PROVE ListAlone(u, v)'
  BY <1>4 DEF Shape, ListAlone, Locals
<1> QED BY <1>1, <1>2, <1>3, <1>4 DEF Shape

LEMMA QuietKeeps ==
  ASSUME Careful, Shape, NEW t \in Task,
         \/ CreateFails(t) \/ QueueBusy(t) \/ SetupFails(t) \/ ManagerFails(t)
         \/ \E n \in Name :
              \/ SegmentFound(t, n) \/ QueueFound(t, n) \/ SetupFound(t, n)
              \/ \E c \in Calls : CreateChecked(t, c, n)
  PROVE  Shape'
<1> USE NoneFacts
<1>0. Types BY DEF Shape
<1>1. CASE CreateFails(t) \/ QueueBusy(t) \/ SetupFails(t)
  <2>1. Return(t) /\ UNCHANGED <<svars, mvars, fvars>>
    BY <1>1 DEF CreateFails, QueueBusy, SetupFails
  <2>2. Locals(t, "idle", None, None) BY <1>0, <2>1, ReturnLocals
  <2>3. CallAt(t)' /\ Holds(t)' BY <2>2 DEF Locals, CallAt, Holds
  <2> QED BY <1>0, <2>1, <2>2, <2>3, ReturnLocals, ApartReturn, QuietShape
<1>2. CASE ManagerFails(t)
  <2>1. Locals(t, "err3", call[t], name[t])
    BY <1>0, <1>2, GotoLocals DEF ManagerFails, Labels
  <2>2. CallAt(t)' /\ Holds(t)'
    BY <1>2, <2>1 DEF ManagerFails, Shape, Locals, CallAt, Holds, svars, mvars,
       AliveMgr
  <2> QED BY <1>0, <1>2, <2>1, <2>2, ApartGoto, QuietShape DEF ManagerFails, Types
<1>3. ASSUME NEW n \in Name, SegmentFound(t, n) PROVE Shape'
  <2>1. Locals(t, "remove", "VMSHM_REMOVE", n)
    BY <1>0, <1>3, EnterLocals DEF SegmentFound, Labels, Calls
  <2>2. PICK s \in lookup(n) : seg' = [seg EXCEPT ![t] = s]
    BY <1>3 DEF SegmentFound
  <2>3. s \in segList /\ s \in Seg /\ segName[s] = n /\ seg'[t] = s
        /\ seg' \in [Task -> Seg \cup {None}]
    BY <1>0, <2>2 DEF lookup, Types, AliveSeg
  <2>4. CallAt(t)' /\ Holds(t)'
    BY <1>3, <2>1, <2>3 DEF SegmentFound, Locals, CallAt, Holds, svars
  <2> QED
    BY <1>0, <1>3, <2>1, <2>2, <2>3, <2>4, ApartEnter, QuietShape
    DEF SegmentFound, Types
<1>4. ASSUME NEW n \in Name, QueueFound(t, n) \/ SetupFound(t, n) PROVE Shape'
  <2>1. PICK l \in {"busy", "setup"} :
          LET c == IF l = "busy" THEN "VMQ_REMOVE" ELSE "VMQ_SETUP"
          IN  /\ Locals(t, l, c, n) /\ Enter(t, c, n, l)
              /\ l = "setup" => file[t] = None
    BY <1>0, <1>4, EnterLocals DEF QueueFound, SetupFound, Labels, Calls
  <2>2. PICK m \in lookup_buffer_manager(n) : mgr' = [mgr EXCEPT ![t] = m]
    BY <1>4 DEF QueueFound, SetupFound
  <2>3. m \in mgrList /\ m \in AliveMgr /\ segName[mgrMem[m]] = n /\ mgr'[t] = m
        /\ mgr' \in [Task -> Mgr \cup {None}]
    BY <1>0, <2>2 DEF lookup_buffer_manager, Types, AliveMgr
  <2>4. UNCHANGED <<svars, mvars, fvars, seg>>
    BY <1>4 DEF QueueFound, SetupFound
  <2>5. CallAt(t)' /\ Holds(t)'
    BY <2>1, <2>3, <2>4 DEF Locals, CallAt, Holds, svars, mvars, fvars, AliveMgr
  <2> QED
    BY <1>0, <2>1, <2>2, <2>3, <2>4, <2>5, ApartEnter, QuietShape DEF Types
<1>5. ASSUME NEW n \in Name, NEW c \in Calls, CreateChecked(t, c, n) PROVE Shape'
  <2>1. Locals(t, "create", c, n)
    BY <1>0, <1>5, EnterLocals DEF CreateChecked, Labels
  <2>2. CallAt(t)' /\ Holds(t)'
    BY <1>5, <2>1 DEF CreateChecked, Locals, CallAt, Holds, svars, lookup
  <2> QED
    BY <1>0, <1>5, <2>1, <2>2, ApartEnter, QuietShape DEF CreateChecked, Types
<1> QED BY <1>1, <1>2, <1>3, <1>4, <1>5

------------------------------------------------------------------------------
(* The steps that count                                                      *)

Counting ==
  /\ UNCHANGED <<segName, segList, mgrMem, mgrList>>
  /\ segRefcnt' \in [Seg -> Int] /\ mgrRefcnt' \in [Mgr -> Int]

\* What is left to show when no object comes or goes.
LEMMA CountingShape ==
  ASSUME Shape, NEW t \in Task, NEW l, NEW c, NEW n, Locals(t, l, c, n), Counting,
         seg' \in [Task -> Seg \cup {None}], mgr' \in [Task -> Mgr \cup {None}],
         \A u \in Task \ {t} : seg'[u] = seg[u] /\ mgr'[u] = mgr[u],
         UNCHANGED fvars,
         CallAt(t)', Holds(t)', l # "list",
         l = "free" => pc[t] = "unselect" /\ mgr'[t] = mgr[t], l # "unselect",
         \A u, v \in Task : u # v => Apart(u, v)'
  PROVE  Shape'
<1> USE DEF Counting, fvars
<1>1. Types' BY DEF Shape, Types, Locals, AliveSeg, AliveMgr
<1>2. Objects' BY DEF Shape, Objects, AliveMgr
<1>3. ASSUME NEW u \in Task \ {t} PROVE CallAt(u)' /\ Holds(u)'
  BY DEF Shape, CallAt, Holds, Locals, AliveMgr, lookup
<1>4. ASSUME NEW u \in Task, NEW v \in Task, u # v PROVE ListAlone(u, v)'
  BY <1>4 DEF Shape, ListAlone, Locals
<1> QED BY <1>1, <1>2, <1>3, <1>4 DEF Shape

LEMMA SelectedIsOwn ==
  ASSUME Shape, NEW t \in Task, pc[t] = "select"
  PROVE  lookup(name[t]) = {seg[t]}
BY DEF Shape, Holds, Objects, lookup

\* Whatever is pointed at is an object.
LEMMA Addresses ==
  ASSUME Shape
  PROVE  \A t \in Task :
           /\ pc[t] \in HasSeg => seg[t] \in Seg
           /\ pc[t] \in HasMgr \cup {"list"} =>
                mgr[t] \in Mgr /\ mgrMem[mgr[t]] \in Seg
BY NoneFacts DEF Shape, Types, Holds, AliveSeg, AliveMgr

LEMMA FilesCounted ==
  ASSUME Shape, RefcntExact, NEW m \in AliveMgr, mgrRefcnt[m] = 0
  PROVE  \A t \in Task : file[t] # m
<1>1. Files(m) \subseteq Task /\ IsFiniteSet(Files(m))
  BY NoneFacts, FS_Subset DEF Files
<1>2. Files(m) = {} BY <1>1, FS_EmptySet DEF RefcntExact, Files
<1> QED BY <1>2 DEF Files

LEMMA CountKeeps ==
  ASSUME Shape, RefcntExact, NEW t \in Task,
         \/ SegmentSelected(t) \/ Err3(t) \/ QueueIdle(t) \/ ManagerUnselects(t)
  PROVE  Shape'
<1> USE NoneFacts
<1>0. Types BY DEF Shape
<1>1. CASE SegmentSelected(t)
  <2>1. /\ Counting /\ UNCHANGED <<fvars, seg, mgr>>
        /\ Goto(t, "manager")
    <3>1. lookup(name[t]) = {seg[t]} /\ seg[t] \in Seg
      BY <1>1, SelectedIsOwn, Addresses DEF SegmentSelected
    <3>2. /\ segRefcnt' = [r \in Seg |-> IF r = seg[t] THEN segRefcnt[r] + 1
                                                    ELSE segRefcnt[r]]
          /\ Goto(t, "manager")
      BY <1>1, <3>1 DEF SegmentSelected
    <3> QED BY <1>0, <1>1, <3>2 DEF SegmentSelected, Counting, Types, mvars
  <2>2. Locals(t, "manager", call[t], name[t])
    BY <1>0, <2>1, GotoLocals DEF Labels
  <2>3. CallAt(t)' /\ Holds(t)'
    BY <1>1, <2>1, <2>2
    DEF SegmentSelected, Shape, Locals, CallAt, Holds, Counting, AliveMgr
  <2>4. pc[t] = "select" BY <1>1 DEF SegmentSelected
  <2> QED BY <1>0, <2>1, <2>2, <2>3, <2>4, ApartGoto, CountingShape DEF Types
<1>2. CASE Err3(t)
  <2>1. /\ Counting /\ UNCHANGED <<fvars, seg, mgr>>
        /\ Goto(t, "remove")
    <3>1. seg[t] \in Seg BY <1>2, Addresses DEF Err3
    <3> QED BY <1>0, <1>2, <3>1 DEF Err3, Counting, Types, mvars
  <2>2. Locals(t, "remove", call[t], name[t])
    BY <1>0, <2>1, GotoLocals DEF Labels
  <2>3. CallAt(t)' /\ Holds(t)'
    BY <1>2, <2>1, <2>2 DEF Err3, Shape, Locals, CallAt, Holds, Counting, AliveMgr
  <2>4. pc[t] = "err3" BY <1>2 DEF Err3
  <2> QED BY <1>0, <2>1, <2>2, <2>3, <2>4, ApartGoto, CountingShape DEF Types
<1>3. CASE QueueIdle(t)
  <2>1. /\ Counting /\ UNCHANGED <<fvars, seg, mgr>>
        /\ Goto(t, "unlist")
    BY <1>0, <1>3 DEF QueueIdle, Counting, Types, mvars, svars
  <2>2. Locals(t, "unlist", call[t], name[t])
    BY <1>0, <2>1, GotoLocals DEF Labels
  <2>3. mgr[t] \in AliveMgr /\ \A u \in Task : file[u] # mgr[t]
    BY <1>3, FilesCounted DEF QueueIdle, Shape, Holds
  <2>4. CallAt(t)' /\ Holds(t)'
    BY <1>3, <2>1, <2>2, <2>3
    DEF QueueIdle, Shape, Locals, CallAt, Holds, Counting, AliveMgr, fvars
  <2>5. pc[t] = "busy" BY <1>3 DEF QueueIdle
  <2> QED BY <1>0, <2>1, <2>2, <2>4, <2>5, ApartGoto, CountingShape DEF Types
<1>4. CASE ManagerUnselects(t)
  <2>1. /\ Counting /\ UNCHANGED <<fvars, seg, mgr>>
        /\ Goto(t, "free")
    <3>1. mgrMem[mgr[t]] \in Seg BY <1>4, Addresses DEF ManagerUnselects
    <3> QED BY <1>0, <1>4, <3>1 DEF ManagerUnselects, Counting, Types, mvars
  <2>2. Locals(t, "free", call[t], name[t])
    BY <1>0, <2>1, GotoLocals DEF Labels
  <2>3. CallAt(t)' /\ Holds(t)'
    BY <1>4, <2>1, <2>2
    DEF ManagerUnselects, Shape, Locals, CallAt, Holds, Counting, AliveMgr, fvars
  <2>4. pc[t] = "unselect" BY <1>4 DEF ManagerUnselects
  <2> QED BY <1>0, <2>1, <2>2, <2>3, <2>4, ApartGoto, CountingShape DEF Types
<1> QED BY <1>1, <1>2, <1>3, <1>4

\* Files come and go; a file is opened to a queue that nobody removes.
LEMMA FileKeeps ==
  ASSUME Shape, NEW t \in Task,
         \/ SetupCounts(t) \/ Release(t) \/ Unselect(t)
         \/ \E n \in Name : Select(t, n)
  PROVE  Shape'
<1> USE NoneFacts
<1>0. Types BY DEF Shape
<1>1. CASE SetupCounts(t)
  <2>1. /\ Return(t) /\ Counting /\ UNCHANGED shmFile /\ pc[t] = "setup"
        /\ file' = [file EXCEPT ![t] = mgr[t]]
    <3>1. mgr[t] \in Mgr BY <1>1, Addresses DEF SetupCounts
    <3> QED BY <1>0, <1>1, <3>1 DEF SetupCounts, Types, Counting, svars
  <2>2. Locals(t, "idle", None, None) BY <1>0, <2>1, ReturnLocals
  <2>3. mgr[t] \in mgrList /\ mgr[t] \in Mgr
    BY <2>1 DEF Shape, Holds, Types, AliveMgr
  <2>4. Types'
    BY <1>0, <2>1, <2>2, <2>3, ReturnLocals
    DEF Types, Locals, Counting, AliveSeg, AliveMgr
  <2>5. Objects'
    BY <1>0, <2>1, <2>3 DEF Shape, Objects, Counting, AliveMgr, Types
  <2>6. ASSUME NEW u \in Task PROVE CallAt(u)' /\ Holds(u)'
    <3>1. CASE u = t BY <2>2, <3>1 DEF Locals, CallAt, Holds
    <3>2. CASE u # t
      <4>1. CallAt(u)' BY <2>2, <3>2 DEF Locals, CallAt, Shape
      <4>2. pc[u] \in {"unlist", "unselect", "free"} => mgr[u] # mgr[t]
        BY <2>1, <3>2, NotBoth DEF Shape, CallAt, Holds
      <4>3. Holds(u)'
        BY <1>0, <2>1, <2>2, <2>3, <3>2, <4>2, ReturnLocals
        DEF Shape, Locals, Holds, Counting, AliveMgr, lookup, Types
      <4> QED BY <4>1, <4>3
    <3> QED BY <3>1, <3>2
  <2>7. ASSUME NEW u \in Task, NEW v \in Task, u # v PROVE ListAlone(u, v)'
    BY <1>0, <2>1, <2>2, <2>7, ReturnLocals DEF Shape, ListAlone, Locals
  <2> QED BY <2>2, <2>4, <2>5, <2>6, <2>7, ApartReturn DEF Shape
<1>2. CASE Release(t) \/ Unselect(t) \/ \E n \in Name : Select(t, n)
  <2>1. /\ Counting /\ UNCHANGED <<pc, lvars, seg, mgr>>
        /\ \A u \in Task : file'[u] \in {file[u], None}
        /\ file' \in [Task -> Mgr \cup {None}]
        /\ shmFile' \in [Task -> Seg \cup {None}]
        /\ \A u \in Task : shmFile'[u] \in {shmFile[u], None} \cup segList
    <3>1. CASE Release(t) BY <1>0, <3>1 DEF Release, Counting, svars, Types
    <3>2. CASE Unselect(t) BY <1>0, <3>2 DEF Unselect, Counting, mvars, Types
    <3>3. ASSUME NEW n \in Name, Select(t, n)
          PROVE  /\ Counting /\ UNCHANGED <<pc, lvars, seg, mgr, file>>
                 /\ shmFile' \in [Task -> Seg \cup {None}]
                 /\ \A u \in Task : shmFile'[u] \in {shmFile[u], None} \cup segList
      <4>1. PICK s \in lookup(n) :
              /\ segRefcnt' = [segRefcnt EXCEPT ![s] = @ + 1]
              /\ shmFile' = [shmFile EXCEPT ![t] = s]
        BY <3>3 DEF Select
      <4>2. s \in Seg /\ s \in segList BY <1>0, <4>1 DEF lookup, Types, AliveSeg
      <4> QED BY <1>0, <3>3, <4>1, <4>2 DEF Select, Counting, mvars, Types
    <3> QED BY <1>0, <1>2, <3>1, <3>2, <3>3 DEF Types
  <2>2. Types' BY <1>0, <2>1 DEF Types, Counting, AliveSeg, AliveMgr, lvars
  <2>3. Objects' BY <2>1 DEF Shape, Objects, Counting, AliveMgr
  <2>4. ASSUME NEW u \in Task PROVE CallAt(u)' /\ Holds(u)'
    <3>1. CallAt(u)' BY <2>1 DEF Shape, CallAt, lvars
    <3>2. pc[u] \in {"unlist", "unselect", "free"} => mgr[u] # None
      BY DEF Shape, Holds, AliveMgr
    <3>3. Holds(u)'
      BY <2>1, <3>2 DEF Shape, Holds, Counting, AliveMgr, lookup, lvars
    <3> QED BY <3>1, <3>3
  <2>5. ASSUME NEW u \in Task, NEW v \in Task, u # v
        PROVE  Apart(u, v)' /\ ListAlone(u, v)'
    BY <2>1, <2>5 DEF Shape, Apart, ListAlone, lvars
  <2> QED BY <2>2, <2>3, <2>4, <2>5 DEF Shape
<1> QED BY <1>1, <1>2

------------------------------------------------------------------------------
(* The steps with which objects come and go                                  *)

LEMMA SegmentListedKeeps ==
  ASSUME Shape, NEW t \in Task, SegmentListed(t) PROVE Shape'
<1> USE NoneFacts
<1>0. Types BY DEF Shape
<1>1. PICK s \in Seg :
        /\ segName[s] = None
        /\ segName' = [segName EXCEPT ![s] = name[t]]
        /\ segRefcnt' = [segRefcnt EXCEPT ![s] = 0]
        /\ segList' = segList \cup {s}
        /\ IF call[t] = "VMQ_CREATE"
             THEN seg' = [seg EXCEPT ![t] = s] /\ Goto(t, "select") /\ UNCHANGED mgr
             ELSE Return(t)
  BY DEF SegmentListed
<1>2. PICK l \in {"select", "idle"} :
        /\ IF l = "idle" THEN Locals(t, l, None, None)
           ELSE /\ Locals(t, l, call[t], name[t]) /\ call[t] = "VMQ_CREATE"
                /\ seg'[t] = s
        /\ seg' \in [Task -> Seg \cup {None}] /\ mgr' \in [Task -> Mgr \cup {None}]
        /\ \A u \in Task \ {t} : seg'[u] = seg[u] /\ mgr'[u] = mgr[u]
  <2>1. CASE call[t] = "VMQ_CREATE"
    <3>1. Locals(t, "select", call[t], name[t])
      BY <1>0, <1>1, <2>1, GotoLocals DEF Labels
    <3> QED BY <1>0, <1>1, <2>1, <3>1 DEF Types
  <2>2. CASE call[t] # "VMQ_CREATE"
    BY <1>0, <1>1, <2>2, ReturnLocals
  <2> QED BY <2>1, <2>2
<1>3. /\ pc[t] = "create" /\ name[t] \in Name /\ lookup(name[t]) = {}
      /\ call[t] \in {"VMSHM_CREATE", "VMQ_CREATE"}
      /\ UNCHANGED <<mvars, fvars>> /\ s \notin segList
  BY <1>0, <1>1 DEF SegmentListed, Shape, CallAt, Holds, Types, AliveSeg
<1>4. Types'
  <2>1. segName' \in [Seg -> Name \cup {None}] /\ segList' = AliveSeg'
    BY <1>0, <1>1, <1>3 DEF Types, AliveSeg
  <2> QED BY <1>0, <1>1, <1>2, <1>3, <2>1 DEF Types, Locals, mvars, fvars, AliveMgr
<1>5. \A r \in segList : segName'[r] = segName[r] /\ segName[r] # name[t] /\ r # s
  BY <1>0, <1>1, <1>3 DEF Types, lookup
<1>6. Objects'
  <2>1. \A r, q \in segList' : segName'[r] = segName'[q] => r = q
    BY <1>0, <1>1, <1>5 DEF Shape, Objects, Types
  <2> QED BY <1>1, <1>3, <2>1 DEF Shape, Objects, mvars, fvars, AliveMgr
<1>7. ASSUME NEW u \in Task \ {t} PROVE CallAt(u)' /\ Holds(u)'
  <2>1. CallAt(u)' BY <1>2 DEF Locals, CallAt, Shape
  <2>2. pc[u] = "create" => name[u] # name[t]
    BY <1>3, NotBoth DEF Shape, CallAt
  <2>3. pc[u] = "create" => lookup(name[u])' = {}
    BY <1>0, <1>1, <1>2, <1>5, <2>2 DEF Shape, Holds, lookup, Locals, Types
  <2>4. \A m \in AliveMgr : mgrMem[m] \in segList
    BY DEF Shape, Objects
  <2>5. Holds(u)'
    BY <1>1, <1>2, <1>3, <1>5, <2>3, <2>4
    DEF Shape, Holds, Locals, mvars, fvars, AliveMgr
  <2> QED BY <2>1, <2>5
<1>8. CallAt(t)' /\ Holds(t)'
  <2>1. \A m \in AliveMgr : mgrMem[m] # s
    BY <1>3 DEF Shape, Objects
  <2>2. segName'[s] = name[t] BY <1>0, <1>1 DEF Types
  <2> QED BY <1>1, <1>2, <1>3, <2>1, <2>2
       DEF Locals, CallAt, Holds, mvars, fvars, AliveMgr
<1>9. ASSUME NEW u \in Task, NEW v \in Task, u # v
      PROVE  Apart(u, v)' /\ ListAlone(u, v)'
  <2>1. Apart(u, v)'
    BY <1>2, <1>3, <1>9, ApartGoto, ApartReturn
  <2>2. ListAlone(u, v)' BY <1>2, <1>9 DEF Shape, ListAlone, Locals
  <2> QED BY <2>1, <2>2
<1> QED BY <1>4, <1>6, <1>7, <1>8, <1>9 DEF Shape

LEMMA ManagerCreatedKeeps ==
  ASSUME Careful, Shape, NEW t \in Task, ManagerCreated(t) PROVE Shape'
<1> USE NoneFacts
<1>0. Types BY DEF Shape
<1>1. PICK m \in Mgr :
        /\ mgrMem[m] = None
        /\ mgrMem' = [mgrMem EXCEPT ![m] = seg[t]]
        /\ mgrRefcnt' = [mgrRefcnt EXCEPT ![m] = 0]
        /\ mgr' = [mgr EXCEPT ![t] = m]
  BY DEF ManagerCreated
<1>2. Goto(t, "list") /\ UNCHANGED <<svars, mgrList, seg, fvars>> /\ pc[t] = "manager"
  BY DEF ManagerCreated, Careful
<1>3. Locals(t, "list", call[t], name[t]) /\ call[t] = "VMQ_CREATE"
  BY <1>0, <1>2, GotoLocals DEF Labels, Shape, CallAt
<1>4. /\ seg[t] \in segList /\ seg[t] \in Seg /\ segName[seg[t]] = name[t]
      /\ m \notin AliveMgr /\ m \notin mgrList
      /\ \A k \in AliveMgr : mgrMem[k] # seg[t]
  BY <1>0, <1>1, <1>2, <1>3 DEF Shape, Holds, Types, AliveMgr, AliveSeg
<1>5. /\ AliveMgr' = AliveMgr \cup {m} /\ mgrMem'[m] = seg[t]
      /\ \A k \in AliveMgr : mgrMem'[k] = mgrMem[k] /\ k # m
  BY <1>0, <1>1, <1>4 DEF Types, AliveMgr
<1>6. Types'
  <2>1. mgrMem' \in [Mgr -> Seg \cup {None}] /\ mgrRefcnt' \in [Mgr -> Int]
        /\ mgr' \in [Task -> Mgr \cup {None}]
    BY <1>0, <1>1, <1>4 DEF Types
  <2>2. mgrList' \subseteq AliveMgr' /\ segList' = AliveSeg'
    BY <1>0, <1>2, <1>5 DEF Types, AliveSeg, svars
  <2> QED BY <1>0, <1>2, <1>3, <2>1, <2>2 DEF Types, Locals, svars, fvars
<1>7. Objects'
  BY <1>2, <1>4, <1>5 DEF Shape, Objects, svars, fvars
<1>8. ASSUME NEW u \in Task \ {t}
      PROVE  CallAt(u)' /\ Holds(u)' /\ ListAlone(t, u)' /\ ListAlone(u, t)'
  <2>1. CallAt(u)' BY <1>3 DEF Locals, CallAt, Shape
  <2>2. mgr'[u] = mgr[u] /\ seg'[u] = seg[u] BY <1>0, <1>1, <1>2 DEF Types
  <2>3. pc[u] \in HasMgr \cup {"list"} => mgr[u] \in AliveMgr
    BY DEF Shape, Holds
  <2>4. pc[u] \in HasSeg /\ call[u] = "VMQ_CREATE" => seg[u] # seg[t]
    BY <1>2, <1>3, <1>4, NotBoth DEF Shape, Holds
  <2>5. Holds(u)'
    BY <1>2, <1>3, <1>5, <2>2, <2>3, <2>4
    DEF Shape, Holds, Locals, lookup, svars, fvars
  <2>6. ListAlone(t, u)' /\ ListAlone(u, t)'
    BY <1>0, <1>1, <1>3, <1>5, <2>2, <2>3 DEF ListAlone, Locals, Types
  <2> QED BY <2>1, <2>5, <2>6
<1>9. CallAt(t)' /\ Holds(t)'
  <2>1. mgr'[t] = m BY <1>0, <1>1 DEF Types
  <2>2. CallAt(t)' BY <1>2, <1>3 DEF Locals, CallAt, Shape
  <2>3. Holds(t)'
    BY <1>2, <1>3, <1>4, <1>5, <2>1 DEF Locals, Holds, svars
  <2> QED BY <2>2, <2>3
<1>10. ASSUME NEW u \in Task, NEW v \in Task, u # v
       PROVE  Apart(u, v)' /\ ListAlone(u, v)'
  <2>1. Apart(u, v)' BY <1>2, <1>3, <1>10, ApartGoto
  <2>2. CASE u # t /\ v # t
    BY <1>0, <1>1, <1>3, <1>10, <2>1, <2>2 DEF Shape, ListAlone, Locals, Types
  <2>3. CASE u = t \/ v = t BY <1>8, <1>10, <2>1, <2>3
  <2> QED BY <2>1, <2>2, <2>3
<1> QED BY <1>6, <1>7, <1>8, <1>9, <1>10 DEF Shape

\* A queue is put on the list, or taken off it.
LEMMA ListKeeps ==
  ASSUME Shape, NEW t \in Task, QueueListed(t) \/ QueueUnlisted(t) PROVE Shape'
<1> USE NoneFacts
<1>0. Types BY DEF Shape
<1>1. CASE QueueListed(t)
  <2>1. /\ Return(t) /\ mgrList' = mgrList \cup {mgr[t]} /\ pc[t] = "list"
        /\ UNCHANGED <<svars, mgrMem, mgrRefcnt, fvars>>
    BY <1>1 DEF QueueListed
  <2>2. Locals(t, "idle", None, None) BY <1>0, <2>1, ReturnLocals
  <2>3. /\ mgr[t] \in AliveMgr /\ mgrMem[mgr[t]] = seg[t]
        /\ segName[seg[t]] = name[t] /\ call[t] = "VMQ_CREATE"
    BY <2>1 DEF Shape, Holds, CallAt
  <2>4. Types'
    BY <1>0, <2>1, <2>2, <2>3, ReturnLocals
    DEF Types, Locals, AliveSeg, AliveMgr, svars, fvars
  <2>5. Objects' BY <2>1 DEF Shape, Objects, AliveMgr, svars, fvars
  <2>6. ASSUME NEW u \in Task \ {t} PROVE CallAt(u)' /\ Holds(u)'
    <3>1. CallAt(u)' BY <2>2 DEF Locals, CallAt, Shape
    <3>2. pc[u] = "list" => mgr[u] # mgr[t]
      BY <2>1, <2>3, NotBoth DEF Shape, Holds, CallAt
    <3>3. pc[u] \in {"unselect", "free"} => mgr[u] # mgr[t]
      BY <2>1 DEF Shape, ListAlone
    <3>4. Holds(u)'
      BY <1>0, <2>1, <2>2, <3>2, <3>3, ReturnLocals
      DEF Shape, Holds, Locals, lookup, svars, fvars, AliveMgr
    <3> QED BY <3>1, <3>4
  <2>7. CallAt(t)' /\ Holds(t)' BY <2>2 DEF Locals, CallAt, Holds
  <2>8. ASSUME NEW u \in Task, NEW v \in Task, u # v PROVE ListAlone(u, v)'
    BY <1>0, <2>1, <2>2, <2>8, ReturnLocals DEF Shape, ListAlone, Locals
  <2> QED BY <2>2, <2>4, <2>5, <2>6, <2>7, <2>8, ApartReturn DEF Shape
<1>2. CASE QueueUnlisted(t)
  <2>1. /\ Goto(t, "unselect") /\ mgrList' = mgrList \ {mgr[t]} /\ pc[t] = "unlist"
        /\ UNCHANGED <<svars, mgrMem, mgrRefcnt, seg, mgr, fvars>>
    BY <1>2 DEF QueueUnlisted
  <2>2. Locals(t, "unselect", call[t], name[t])
    BY <1>0, <2>1, GotoLocals DEF Labels
  <2>3. /\ mgr[t] \in AliveMgr /\ segName[mgrMem[mgr[t]]] = name[t]
        /\ call[t] = "VMQ_REMOVE" /\ mgr[t] \in mgrList
        /\ \A u \in Task : file[u] # mgr[t]
    BY <2>1 DEF Shape, Holds, CallAt
  <2>4. Types'
    BY <1>0, <2>1, <2>2 DEF Types, Locals, AliveSeg, AliveMgr, svars, fvars
  <2>5. Objects' BY <2>1, <2>3 DEF Shape, Objects, AliveMgr, svars, fvars
  <2>6. ASSUME NEW u \in Task \ {t}
        PROVE  CallAt(u)' /\ Holds(u)' /\ ListAlone(u, t)'
    <3>1. CallAt(u)' BY <2>2 DEF Locals, CallAt, Shape
    <3>2. pc[u] \in {"busy", "unlist", "setup"} => mgr[u] # mgr[t]
      BY <2>1, <2>3, NotBoth DEF Shape, Holds, CallAt
    <3>3. Holds(u)'
      BY <2>1, <2>2, <3>2
      DEF Shape, Holds, Locals, lookup, svars, fvars, AliveMgr
    <3>4. ListAlone(u, t)'
      BY <2>1, <2>2, <2>3 DEF Shape, Holds, ListAlone, Locals
    <3> QED BY <3>1, <3>3, <3>4
  <2>7. CallAt(t)' /\ Holds(t)'
    BY <2>1, <2>2, <2>3 DEF Shape, Locals, CallAt, Holds, svars, fvars, AliveMgr
  <2>8. ASSUME NEW u \in Task, NEW v \in Task, u # v
        PROVE  Apart(u, v)' /\ ListAlone(u, v)'
    <3>1. Apart(u, v)' BY <2>1, <2>2, <2>8, ApartGoto
    <3>2. CASE u # t /\ v # t
      BY <2>1, <2>2, <2>8, <3>1, <3>2 DEF Shape, ListAlone, Locals
    <3>3. CASE u = t BY <2>2, <3>1, <3>3 DEF ListAlone, Locals
    <3>4. CASE v = t BY <2>6, <2>8, <3>1, <3>4
    <3> QED BY <3>1, <3>2, <3>3, <3>4
  <2> QED BY <2>4, <2>5, <2>6, <2>7, <2>8 DEF Shape
<1> QED BY <1>1, <1>2

\* A segment nobody counts on is used by nobody.
LEMMA SegmentCounted ==
  ASSUME Shape, RefcntExact, NEW s \in AliveSeg, segRefcnt[s] = 0
  PROVE  ShmFiles(s) = {} /\ Queues(s) = {} /\ Creators(s) = {}
<1>1. /\ ShmFiles(s) \subseteq Task /\ Queues(s) \subseteq Mgr
      /\ Creators(s) \subseteq Task
  BY DEF ShmFiles, Queues, Creators, AliveMgr
<1>2. /\ IsFiniteSet(ShmFiles(s)) /\ Cardinality(ShmFiles(s)) \in Nat
      /\ IsFiniteSet(Queues(s)) /\ Cardinality(Queues(s)) \in Nat
      /\ IsFiniteSet(Creators(s)) /\ Cardinality(Creators(s)) \in Nat
  BY <1>1, NoneFacts, FS_Subset, FS_CardinalityType
<1>3. Cardinality(ShmFiles(s)) + Cardinality(Queues(s)) + Cardinality(Creators(s)) = 0
  BY DEF RefcntExact, ShmFiles, Queues, Creators
<1>4. /\ Cardinality(ShmFiles(s)) = 0 /\ Cardinality(Queues(s)) = 0
      /\ Cardinality(Creators(s)) = 0
  BY <1>2, <1>3
<1> QED BY <1>2, <1>4, FS_EmptySet

\* What vmshm_remove(s) does, when the locals of nobody hold s any more.
Removed(s) ==
  \/ UNCHANGED <<segList, segName>>
  \/ /\ segList' = segList \ {s} /\ segName' = [segName EXCEPT ![s] = None]
     /\ \A t \in Task : shmFile[t] # s

LEMMA SegmentRemovedKeeps ==
  ASSUME Shape, RefcntExact, NEW t \in Task, SegmentRemoved(t) PROVE Shape'
<1> USE NoneFacts
<1> DEFINE s == seg[t]
<1>0. Types BY DEF Shape
<1>1. /\ Return(t) /\ vmshm_remove(s) /\ pc[t] = "remove"
      /\ UNCHANGED <<segRefcnt, mvars, fvars>>
  BY DEF SegmentRemoved
<1>2. Locals(t, "idle", None, None) BY <1>0, <1>1, ReturnLocals
<1>3. /\ s \in segList /\ s \in Seg /\ s \in AliveSeg /\ segName[s] = name[t]
      /\ call[t] \in {"VMQ_CREATE", "VMSHM_REMOVE"}
  BY <1>0, <1>1 DEF Shape, Holds, CallAt, Types, AliveSeg
<1> HIDE DEF s
<1>4. ASSUME NEW u \in Task \ {t}, pc[u] \in HasSeg PROVE seg[u] # s
  <2>1. name[u] # name[t]
    BY <1>1, <1>3, <1>4, NotBoth DEF Shape, CallAt
  <2> QED BY <1>3, <1>4, <2>1 DEF Shape, Holds
<1>5. Removed(s) /\ (segList' # segList => \A m \in AliveMgr : mgrMem[m] # s)
  <2>1. CASE segRefcnt[s] = 0
    <3>1. ShmFiles(s) = {} /\ Queues(s) = {}
      BY <1>3, <2>1, SegmentCounted
    <3>2. ASSUME NEW m \in AliveMgr, mgrMem[m] = s PROVE FALSE
      <4>1. PICK u \in Task : pc[u] = "free" /\ mgr[u] = m
        BY <3>1, <3>2 DEF Queues
      <4>2. name[u] = name[t] /\ call[u] = "VMQ_REMOVE" /\ u # t
        BY <1>1, <1>3, <3>2, <4>1 DEF Shape, Holds, CallAt
      <4>3. call[t] = "VMQ_CREATE"
        BY <1>1, <1>3, <4>1, <4>2, NotBoth DEF Shape
      <4> QED BY <1>1, <3>2, <4>3 DEF Shape, Holds, s
    <3> QED BY <1>1, <2>1, <3>1, <3>2 DEF vmshm_remove, Removed, ShmFiles
  <2>2. CASE segRefcnt[s] # 0
    BY <1>1, <2>2 DEF vmshm_remove, Removed
  <2> QED BY <2>1, <2>2
<1>6. /\ segList' \subseteq segList
      /\ \A r \in segList \ {s} : r \in segList' /\ segName'[r] = segName[r]
      /\ \A r \in segList' : segName'[r] = segName[r]
      /\ \A m \in AliveMgr :
           mgrMem[m] \in segList' /\ segName'[mgrMem[m]] = segName[mgrMem[m]]
      /\ \A u \in Task : shmFile[u] # None => shmFile[u] \in segList'
      /\ segList' = AliveSeg' /\ segName' \in [Seg -> Name \cup {None}]
  <2>1. CASE UNCHANGED <<segList, segName>>
    BY <1>0, <2>1 DEF Types, AliveSeg, Shape, Objects
  <2>2. CASE /\ segList' = segList \ {s} /\ segName' = [segName EXCEPT ![s] = None]
             /\ \A u \in Task : shmFile[u] # s
    <3>1. \A m \in AliveMgr : mgrMem[m] # s BY <1>3, <1>5, <2>2
    <3>2. segName' \in [Seg -> Name \cup {None}] /\ segList' = AliveSeg'
      BY <1>0, <1>3, <2>2 DEF Types, AliveSeg
    <3>3. \A r \in segList \ {s} : r \in segList' /\ segName'[r] = segName[r]
      BY <1>0, <1>3, <2>2 DEF Types
    <3> QED BY <2>2, <3>1, <3>2, <3>3 DEF Shape, Objects
  <2> QED BY <1>5, <2>1, <2>2 DEF Removed
<1>7. Types'
  BY <1>0, <1>1, <1>2, <1>6, ReturnLocals DEF Types, Locals, AliveMgr, mvars, fvars
<1>8. Objects'
  <2>1. \A r, q \in segList' : segName'[r] = segName'[q] => r = q
    BY <1>6 DEF Shape, Objects
  <2> QED BY <1>1, <1>6, <2>1 DEF Shape, Objects, AliveMgr, mvars, fvars
<1>9. ASSUME NEW u \in Task \ {t} PROVE CallAt(u)' /\ Holds(u)'
  <2>1. CallAt(u)' BY <1>2 DEF Locals, CallAt, Shape
  <2>2. pc[u] = "create" => lookup(name[u])' = {}
    BY <1>2, <1>6 DEF Locals, Shape, Holds, lookup
  <2>3. Holds(u)'
    BY <1>0, <1>1, <1>2, <1>4, <1>6, <2>2, ReturnLocals
    DEF Shape, Holds, Locals, mvars, fvars, AliveMgr
  <2> QED BY <2>1, <2>3
<1>10. CallAt(t)' /\ Holds(t)' BY <1>2 DEF Locals, CallAt, Holds
<1>11. ASSUME NEW u \in Task, NEW v \in Task, u # v PROVE ListAlone(u, v)'
  BY <1>0, <1>1, <1>2, <1>11, ReturnLocals DEF Shape, ListAlone, Locals
<1> QED BY <1>2, <1>7, <1>8, <1>9, <1>10, <1>11, ApartReturn DEF Shape

LEMMA ManagerFreedKeeps ==
  ASSUME Shape, RefcntExact, NEW t \in Task, ManagerFreed(t) PROVE Shape'
<1> USE NoneFacts
<1> DEFINE m == mgr[t]
           s == mgrMem[m]
<1>0. Types BY DEF Shape
<1>1. /\ pc[t] = "free" /\ call[t] = "VMQ_REMOVE"
      /\ Return(t) /\ vmshm_remove(s)
      /\ mgrMem' = [mgrMem EXCEPT ![m] = None]
      /\ UNCHANGED <<segRefcnt, mgrRefcnt, mgrList, fvars>>
  BY DEF ManagerFreed, Shape, CallAt
<1>2. Locals(t, "idle", None, None) BY <1>0, <1>1, ReturnLocals
<1>3. /\ m \in AliveMgr /\ m \in Mgr /\ m \notin mgrList
      /\ \A u \in Task : file[u] # m
      /\ s \in segList /\ s \in Seg /\ s \in AliveSeg /\ segName[s] = name[t]
  BY <1>0, <1>1 DEF Shape, Holds, Objects, Types, AliveSeg, AliveMgr
<1>4. mgrMem[m] = s OBVIOUS
<1> HIDE DEF s
<1>5. ASSUME NEW u \in Task \ {t}
      PROVE  pc[u] \in HasMgr \cup {"list"} => mgr[u] # m
  <2>1. CASE pc[u] \in HasMgr
    <3>1. name[u] # name[t]
      BY <1>1, <2>1, NotBoth DEF Shape, CallAt
    <3> QED BY <1>3, <1>4, <2>1, <3>1 DEF Shape, Holds
  <2>2. CASE pc[u] = "list" BY <1>1, <2>2 DEF Shape, ListAlone
  <2> QED BY <2>1, <2>2
<1>6. ASSUME NEW u \in Task \ {t} PROVE pc[u] \in HasSeg => seg[u] # s
  <2>1. CASE pc[u] \in HasSeg /\ call[u] = "VMSHM_REMOVE"
    <3>1. name[u] # name[t]
      BY <1>1, <2>1, NotBoth DEF Shape, CallAt
    <3> QED BY <1>3, <2>1, <3>1 DEF Shape, Holds
  <2>2. CASE pc[u] \in HasSeg \ {"list"} /\ call[u] = "VMQ_CREATE"
    BY <1>3, <1>4, <2>2 DEF Shape, Holds
  <2>3. CASE pc[u] = "list"
    BY <1>3, <1>4, <1>5, <2>3 DEF Shape, Holds, Objects
  <2> QED BY <2>1, <2>2, <2>3 DEF Shape, CallAt
<1>7. /\ AliveMgr' = AliveMgr \ {m}
      /\ \A k \in AliveMgr' : mgrMem'[k] = mgrMem[k] /\ mgrMem[k] # s
      /\ mgrMem' \in [Mgr -> Seg \cup {None}]
  <2>1. AliveMgr' = AliveMgr \ {m} /\ mgrMem' \in [Mgr -> Seg \cup {None}]
    BY <1>0, <1>1, <1>3 DEF Types, AliveMgr
  <2>2. \A k \in AliveMgr' : mgrMem'[k] = mgrMem[k]
    BY <1>0, <1>1, <1>3, <2>1 DEF Types, AliveMgr
  <2> QED BY <1>3, <1>4, <2>1, <2>2 DEF Shape, Objects
<1>8. Removed(s)
  <2>1. CASE segRefcnt[s] = 0
    <3>1. ShmFiles(s) = {} BY <1>3, <2>1, SegmentCounted
    <3> QED BY <1>1, <2>1, <3>1 DEF vmshm_remove, Removed, ShmFiles
  <2>2. CASE segRefcnt[s] # 0
    BY <1>1, <2>2 DEF vmshm_remove, Removed
  <2> QED BY <2>1, <2>2
<1>9. /\ segList' \subseteq segList
      /\ \A r \in segList \ {s} : r \in segList' /\ segName'[r] = segName[r]
      /\ \A r \in segList' : segName'[r] = segName[r]
      /\ \A u \in Task : shmFile[u] # None => shmFile[u] \in segList'
      /\ segList' = AliveSeg' /\ segName' \in [Seg -> Name \cup {None}]
  <2>1. CASE UNCHANGED <<segList, segName>>
    BY <1>0, <2>1 DEF Types, AliveSeg, Shape, Objects
  <2>2. CASE /\ segList' = segList \ {s} /\ segName' = [segName EXCEPT ![s] = None]
             /\ \A u \in Task : shmFile[u] # s
    <3>1. segName' \in [Seg -> Name \cup {None}] /\ segList' = AliveSeg'
      BY <1>0, <1>3, <2>2 DEF Types, AliveSeg
    <3>2. \A r \in segList \ {s} : r \in segList' /\ segName'[r] = segName[r]
      BY <1>0, <1>3, <2>2 DEF Types
    <3> QED BY <2>2, <3>1, <3>2 DEF Shape, Objects
  <2> QED BY <1>8, <2>1, <2>2 DEF Removed
<1>10. Types'
  BY <1>0, <1>1, <1>2, <1>3, <1>7, <1>9, ReturnLocals DEF Types, Locals, fvars
<1>11. Objects'
  <2>1. \A r, q \in segList' : segName'[r] = segName'[q] => r = q
    BY <1>9 DEF Shape, Objects
  <2>2. \A k \in AliveMgr' : mgrMem'[k] \in segList'
    BY <1>7, <1>9 DEF Shape, Objects
  <2>3. \A j, k \in AliveMgr' : mgrMem'[j] = mgrMem'[k] => j = k
    BY <1>7 DEF Shape, Objects
  <2> QED BY <1>1, <1>9, <2>1, <2>2, <2>3 DEF Shape, Objects, fvars
<1>12. ASSUME NEW u \in Task \ {t} PROVE CallAt(u)' /\ Holds(u)'
  <2>1. CallAt(u)' BY <1>2 DEF Locals, CallAt, Shape
  <2>2. pc[u] = "create" => lookup(name[u])' = {}
    BY <1>2, <1>9 DEF Locals, Shape, Holds, lookup
  <2>3. pc[u] \in HasMgr \cup {"list"} =>
          /\ mgr[u] \in AliveMgr' /\ mgrMem'[mgr[u]] = mgrMem[mgr[u]]
          /\ segName'[mgrMem[mgr[u]]] = segName[mgrMem[mgr[u]]]
    BY <1>5, <1>7, <1>9 DEF Shape, Holds, Objects
  <2>4. mgr'[u] = mgr[u] /\ seg'[u] = seg[u] BY <1>0, <1>1, ReturnLocals
  <2>5. Holds(u)'
    BY <1>1, <1>2, <1>6, <1>7, <1>9, <2>2, <2>3, <2>4
    DEF Shape, Holds, Locals, fvars
  <2> QED BY <2>1, <2>5
<1>13. CallAt(t)' /\ Holds(t)' BY <1>2 DEF Locals, CallAt, Holds
<1>14. ASSUME NEW u \in Task, NEW v \in Task, u # v PROVE ListAlone(u, v)'
  BY <1>0, <1>1, <1>2, <1>14, ReturnLocals DEF Shape, ListAlone, Locals
<1> QED BY <1>2, <1>10, <1>11, <1>12, <1>13, <1>14, ApartReturn DEF Shape

\* No step uses an object that is gone, or makes two of one name.
LEMMA ShapeStep == ASSUME Careful, IInv, [Next]_vars PROVE Shape'
<1>1. ASSUME NEW t \in Task, ShmStep(t) \/ QueueStep(t) PROVE Shape'
  <2>1. Shape /\ RefcntExact BY DEF IInv
  <2>2. CASE ShmStep(t)
    BY <2>1, <2>2, SegmentListedKeeps, QuietKeeps, SegmentRemovedKeeps, FileKeeps
    DEF ShmStep
  <2>3. CASE QueueStep(t)
    BY <2>1, <2>3, CountKeeps, ManagerCreatedKeeps, QuietKeeps, ListKeeps,
       ManagerFreedKeeps, FileKeeps
    DEF QueueStep
  <2> QED BY <1>1, <2>2, <2>3
<1>2. CASE UNCHANGED vars
  <2> USE <1>2 DEF vars, svars, mvars, lvars, fvars
  <2>1. Types' BY DEF IInv, Shape, Types, AliveSeg, AliveMgr
  <2>2. Objects' BY DEF IInv, Shape, Objects, AliveMgr
  <2>3. ASSUME NEW t \in Task PROVE CallAt(t)' /\ Holds(t)'
    BY DEF IInv, Shape, CallAt, Holds, AliveMgr, lookup
  <2>4. ASSUME NEW t \in Task, NEW u \in Task, t # u
        PROVE  Apart(t, u)' /\ ListAlone(t, u)'
    BY <2>4 DEF IInv, Shape, Apart, ListAlone
  <2> QED BY <2>1, <2>2, <2>3, <2>4 DEF Shape
<1> QED BY <1>1, <1>2 DEF Next

------------------------------------------------------------------------------
(* The counts                                                                *)

MgrExact == \A m \in AliveMgr : mgrRefcnt[m] = Cardinality(Files(m))
SegExact ==
  \A s \in AliveSeg :
    segRefcnt[s] =
      Cardinality(ShmFiles(s)) + Cardinality(Queues(s)) + Cardinality(Creators(s))

LEMMA Exact == RefcntExact <=> MgrExact /\ SegExact
BY DEF RefcntExact, MgrExact, SegExact, Files, ShmFiles, Queues, Creators

LEMMA FiniteCounts ==
  ASSUME NEW s
  PROVE  /\ IsFiniteSet(ShmFiles(s)) /\ Cardinality(ShmFiles(s)) \in Nat
         /\ IsFiniteSet(Queues(s)) /\ Cardinality(Queues(s)) \in Nat
         /\ IsFiniteSet(Creators(s)) /\ Cardinality(Creators(s)) \in Nat
         /\ IsFiniteSet(Files(s)) /\ Cardinality(Files(s)) \in Nat
<1>1. /\ ShmFiles(s) \subseteq Task /\ Queues(s) \subseteq Mgr
      /\ Creators(s) \subseteq Task /\ Files(s) \subseteq Task
  BY DEF ShmFiles, Queues, Creators, Files, AliveMgr
<1> QED BY <1>1, NoneFacts, FS_Subset, FS_CardinalityType

LEMMA OneMoreOrLess ==
  ASSUME NEW S, IsFiniteSet(S), NEW x
  PROVE  /\ x \notin S => Cardinality(S \cup {x}) = Cardinality(S) + 1
         /\ x \in S => Cardinality(S \ {x}) = Cardinality(S) - 1
BY FS_AddElement, FS_RemoveElement

\* Files
LEMMA MgrSame ==
  ASSUME MgrExact, UNCHANGED <<mgrRefcnt, file>>, AliveMgr' \subseteq AliveMgr
  PROVE  MgrExact'
<1>1. \A m : Files(m)' = Files(m) BY DEF Files
<1> QED BY <1>1 DEF MgrExact

LEMMA MgrStep == ASSUME Careful, IInv, [Next]_vars PROVE MgrExact'
<1> USE NoneFacts
<1>0. Shape /\ Types /\ MgrExact BY Exact DEF IInv, Shape
<1>1. ASSUME NEW t \in Task, ManagerCreated(t) PROVE MgrExact'
  <2>1. PICK m \in Mgr :
          /\ mgrMem[m] = None /\ mgrMem' = [mgrMem EXCEPT ![m] = seg[t]]
          /\ mgrRefcnt' = [mgrRefcnt EXCEPT ![m] = 0]
    BY <1>1 DEF ManagerCreated
  <2>2. m \notin AliveMgr /\ m \notin mgrList BY <1>0, <2>1 DEF Types, AliveMgr
  <2>3. \A k : Files(k)' = Files(k) BY <1>1 DEF ManagerCreated, Files, fvars
  <2>4. Files(m) = {} BY <1>0, <2>1, <2>2 DEF Shape, Objects, Files
  <2>5. AliveMgr' \subseteq AliveMgr \cup {m} BY <1>0, <2>1 DEF Types, AliveMgr
  <2>6. /\ mgrRefcnt'[m] = 0
        /\ \A k \in AliveMgr : mgrRefcnt'[k] = mgrRefcnt[k]
    BY <1>0, <2>1, <2>2 DEF Types, AliveMgr
  <2>7. Cardinality(Files(m)') = 0 BY <2>3, <2>4, FS_EmptySet
  <2> QED BY <1>0, <2>3, <2>5, <2>6, <2>7 DEF MgrExact
<1>2. ASSUME NEW t \in Task, SetupCounts(t) PROVE MgrExact'
  <2>0. mgr[t] \in AliveMgr /\ mgr[t] \in Mgr
    BY <1>0, <1>2 DEF SetupCounts, Shape, Holds, AliveMgr
  <2>1. PICK m \in AliveMgr :
        /\ m \in Mgr /\ file[t] = None
        /\ mgrRefcnt' = [mgrRefcnt EXCEPT ![m] = @ + 1]
        /\ file' = [file EXCEPT ![t] = m] /\ AliveMgr' = AliveMgr
    BY <1>0, <1>2, <2>0 DEF SetupCounts, Shape, Holds, AliveMgr
  <2>2. t \notin Files(m) /\ Files(m)' = Files(m) \cup {t}
    BY <1>0, <2>1 DEF Types, Files
  <2>3. ASSUME NEW k \in AliveMgr, k # m PROVE Files(k)' = Files(k)
    BY <1>0, <2>1, <2>3 DEF Types, Files, AliveMgr
  <2>4. Cardinality(Files(m)') = Cardinality(Files(m)) + 1
    BY <2>2, FiniteCounts, OneMoreOrLess
  <2>5. /\ mgrRefcnt'[m] = mgrRefcnt[m] + 1
        /\ \A k \in AliveMgr : k # m => mgrRefcnt'[k] = mgrRefcnt[k]
    BY <1>0, <2>1 DEF Types, AliveMgr
  <2> QED BY <1>0, <2>1, <2>3, <2>4, <2>5 DEF MgrExact
<1>3. ASSUME NEW t \in Task, Release(t) PROVE MgrExact'
  <2>0. file[t] \in AliveMgr /\ file[t] \in Mgr
    BY <1>0, <1>3 DEF Release, Shape, Objects, Types, AliveMgr
  <2>1. PICK m \in AliveMgr :
        /\ m \in Mgr /\ file[t] = m
        /\ mgrRefcnt' = [mgrRefcnt EXCEPT ![m] = @ - 1]
        /\ file' = [file EXCEPT ![t] = None] /\ AliveMgr' = AliveMgr
    BY <1>0, <1>3, <2>0, ZenonT(40) DEF Release, Shape, Objects, Types, AliveMgr
  <2>2. t \in Files(m) /\ Files(m)' = Files(m) \ {t}
    BY <1>0, <2>1 DEF Types, Files
  <2>3. ASSUME NEW k \in AliveMgr, k # m PROVE Files(k)' = Files(k)
    BY <1>0, <2>1, <2>3 DEF Types, Files, AliveMgr
  <2>4. Cardinality(Files(m)') = Cardinality(Files(m)) - 1
    BY <2>2, FiniteCounts, OneMoreOrLess
  <2>5. /\ mgrRefcnt'[m] = mgrRefcnt[m] - 1
        /\ \A k \in AliveMgr : k # m => mgrRefcnt'[k] = mgrRefcnt[k]
    BY <1>0, <2>1 DEF Types, AliveMgr
  <2> QED BY <1>0, <2>1, <2>3, <2>4, <2>5 DEF MgrExact
<1>4. ASSUME NEW t \in Task, ManagerFreed(t) PROVE MgrExact'
  <2>1. UNCHANGED <<mgrRefcnt, file>> /\ mgrMem' = [mgrMem EXCEPT ![mgr[t]] = None]
    BY <1>4 DEF ManagerFreed, fvars
  <2>2. AliveMgr' \subseteq AliveMgr BY <1>0, <2>1 DEF Types, AliveMgr
  <2> QED BY <1>0, <2>1, <2>2, MgrSame
<1>5. ASSUME NEW t \in Task,
             \/ ShmStep(t) \/ SegmentSelected(t) \/ ManagerFails(t)
             \/ QueueListed(t) \/ Err3(t) \/ QueueBusy(t) \/ QueueIdle(t)
             \/ QueueUnlisted(t) \/ ManagerUnselects(t) \/ SetupFails(t)
             \/ \E n \in Name : QueueFound(t, n) \/ SetupFound(t, n)
      PROVE  MgrExact'
  <2>1. UNCHANGED <<mgrRefcnt, mgrMem, file>>
    BY <1>5 DEF ShmStep, SegmentListed, CreateFails, SegmentRemoved, Unselect,
       Select, SegmentFound, CreateChecked, SegmentSelected, ManagerFails,
       QueueListed, Err3, QueueBusy, QueueIdle, QueueUnlisted,
       ManagerUnselects, SetupFails, QueueFound, SetupFound, mvars, fvars
  <2>2. AliveMgr' \subseteq AliveMgr BY <2>1 DEF AliveMgr
  <2> QED BY <1>0, <2>1, <2>2, MgrSame
<1>6. CASE UNCHANGED vars
  <2>1. UNCHANGED <<mgrRefcnt, file>> /\ AliveMgr' \subseteq AliveMgr
    BY <1>6 DEF vars, mvars, fvars, AliveMgr
  <2> QED BY <1>0, <2>1, MgrSame
<1> QED BY <1>1, <1>2, <1>3, <1>4, <1>5, <1>6 DEF Next, QueueStep

\* Segments.  Sets that are counted and do not change:
LEMMA SameShmFiles ==
  ASSUME UNCHANGED shmFile PROVE \A s : ShmFiles(s)' = ShmFiles(s)
BY DEF ShmFiles

LEMMA SameCreators ==
  ASSUME \A u \in Task :
           /\ (pc'[u] \in {"manager", "err3"}) = (pc[u] \in {"manager", "err3"})
           /\ pc[u] \in {"manager", "err3"} => seg'[u] = seg[u]
  PROVE  \A s : Creators(s)' = Creators(s)
BY DEF Creators

LEMMA SameQueues ==
  ASSUME UNCHANGED mgrMem,
         \A u \in Task : /\ (pc'[u] = "free") = (pc[u] = "free")
                         /\ pc[u] = "free" => mgr'[u] = mgr[u]
  PROVE  \A s : Queues(s)' = Queues(s)
<1>1. AliveMgr' = AliveMgr BY DEF AliveMgr
<1>2. \A m : (\E u \in Task : pc'[u] = "free" /\ mgr'[u] = m)
               <=> (\E u \in Task : pc[u] = "free" /\ mgr[u] = m)
  OBVIOUS
<1> QED BY <1>1, <1>2 DEF Queues

Same(s) ==
  /\ ShmFiles(s)' = ShmFiles(s) /\ Queues(s)' = Queues(s)
  /\ Creators(s)' = Creators(s) /\ segRefcnt'[s] = segRefcnt[s]

LEMMA SegSame ==
  ASSUME SegExact, AliveSeg' \subseteq AliveSeg, \A s \in AliveSeg' : Same(s)
  PROVE  SegExact'
BY DEF SegExact, Same

LEMMA SegOne ==
  ASSUME SegExact, NEW s, AliveSeg' \subseteq AliveSeg \cup {s},
         \A r \in AliveSeg' \ {s} : Same(r),
         segRefcnt'[s] = Cardinality(ShmFiles(s)') + Cardinality(Queues(s)')
                           + Cardinality(Creators(s)')
  PROVE  SegExact'
BY DEF SegExact, Same

\* Steps of which no segment notices anything, the queue of one freed or not.
LEMMA SegQuiet ==
  ASSUME Careful, IInv, NEW t \in Task,
         \/ CreateFails(t) \/ SegmentRemoved(t) \/ QueueBusy(t) \/ QueueIdle(t)
         \/ QueueListed(t) \/ QueueUnlisted(t) \/ SetupCounts(t) \/ SetupFails(t)
         \/ Release(t) \/ ManagerFails(t)
         \/ \E n \in Name :
              \/ SegmentFound(t, n) \/ QueueFound(t, n) \/ SetupFound(t, n)
              \/ \E c \in Calls : CreateChecked(t, c, n)
  PROVE  SegExact'
<1> USE NoneFacts
<1>0. Shape /\ Types /\ SegExact BY Exact DEF IInv, Shape
<1>1. UNCHANGED <<segRefcnt, mgrMem, shmFile>>
  BY DEF CreateFails, SegmentRemoved, QueueBusy, QueueIdle, QueueListed,
     QueueUnlisted, SetupCounts, SetupFails, Release, ManagerFails,
     SegmentFound, QueueFound, SetupFound, CreateChecked, svars, mvars, fvars
<1>2. \A u \in Task \ {t} : pc'[u] = pc[u] /\ seg'[u] = seg[u] /\ mgr'[u] = mgr[u]
  BY <1>0 DEF CreateFails, SegmentRemoved, QueueBusy, QueueIdle, QueueListed,
     QueueUnlisted, SetupCounts, SetupFails, Release, ManagerFails,
     SegmentFound, QueueFound, SetupFound, CreateChecked, Goto, Return, Enter,
     Types
<1>3. \/ {pc[t], pc'[t]} \cap {"manager", "err3", "free"} = {}
      \/ pc[t] = "manager" /\ pc'[t] = "err3" /\ seg'[t] = seg[t]
  BY <1>0 DEF CreateFails, SegmentRemoved, QueueBusy, QueueIdle, QueueListed,
     QueueUnlisted, SetupCounts, SetupFails, Release, ManagerFails,
     SegmentFound, QueueFound, SetupFound, CreateChecked, Goto, Return, Enter,
     Types
<1>4. \A s : Creators(s)' = Creators(s) /\ Queues(s)' = Queues(s)
  <2>1. \A u \in Task :
           /\ (pc'[u] \in {"manager", "err3"}) = (pc[u] \in {"manager", "err3"})
           /\ pc[u] \in {"manager", "err3"} => seg'[u] = seg[u]
           /\ (pc'[u] = "free") = (pc[u] = "free")
           /\ pc[u] = "free" => mgr'[u] = mgr[u]
    <3>1. CASE {pc[t], pc'[t]} \cap {"manager", "err3", "free"} = {}
      <4>1. pc[t] \notin {"manager", "err3", "free"} /\ pc'[t] \notin {"manager", "err3", "free"}
        BY <3>1
      <4> QED BY <1>2, <4>1
    <3>2. CASE pc[t] = "manager" /\ pc'[t] = "err3" /\ seg'[t] = seg[t]
      BY <1>2, <3>2
    <3> QED BY <1>3, <3>1, <3>2
  <2> QED BY <1>1, <2>1, SameCreators, SameQueues
<1>5. AliveSeg' \subseteq AliveSeg
  <2>1. CASE SegmentRemoved(t)
    BY <1>0, <2>1 DEF SegmentRemoved, vmshm_remove, Types, AliveSeg
  <2>2. CASE UNCHANGED segName BY <2>2 DEF AliveSeg
  <2> QED
    BY <2>1, <2>2 DEF CreateFails, QueueBusy, QueueIdle, QueueListed,
       QueueUnlisted, SetupCounts, SetupFails, Release, ManagerFails,
       SegmentFound, QueueFound, SetupFound, CreateChecked, svars
<1> QED BY <1>0, <1>1, <1>4, <1>5, SameShmFiles, SegSame DEF Same

LEMMA SegFreed ==
  ASSUME IInv, NEW t \in Task, ManagerFreed(t) PROVE SegExact'
<1> USE NoneFacts
<1>0. Shape /\ Types /\ SegExact BY Exact DEF IInv, Shape
<1>1. PICK m \in Mgr :
        /\ m = mgr[t] /\ pc[t] = "free" /\ Return(t)
        /\ vmshm_remove(mgrMem[m]) /\ mgrMem' = [mgrMem EXCEPT ![m] = None]
        /\ UNCHANGED <<segRefcnt, shmFile>>
  BY <1>0 DEF ManagerFreed, Shape, Holds, CallAt, AliveMgr, fvars
<1>2. /\ pc'[t] = "idle"
      /\ \A u \in Task \ {t} : pc'[u] = pc[u] /\ seg'[u] = seg[u] /\ mgr'[u] = mgr[u]
  BY <1>0, <1>1 DEF Return, Types
<1>3. \A s : Creators(s)' = Creators(s)
  BY <1>1, <1>2, SameCreators
<1>4. AliveSeg' \subseteq AliveSeg
  BY <1>0, <1>1 DEF vmshm_remove, Types, AliveSeg
<1>5. ASSUME NEW s PROVE Queues(s)' = Queues(s)
  <2>1. /\ AliveMgr' = AliveMgr \ {m}
        /\ \A k \in AliveMgr \ {m} : mgrMem'[k] = mgrMem[k]
    BY <1>0, <1>1 DEF Types, AliveMgr
  <2>2. \A k \in AliveMgr \ {m} :
           (\E u \in Task : pc'[u] = "free" /\ mgr'[u] = k)
             <=> (\E u \in Task : pc[u] = "free" /\ mgr[u] = k)
    BY <1>1, <1>2
  <2>3. m \notin Queues(s) BY <1>1 DEF Queues
  <2> QED BY <2>1, <2>2, <2>3 DEF Queues
<1> QED BY <1>0, <1>1, <1>3, <1>4, <1>5, SameShmFiles, SegSame DEF Same

\* A new segment is counted by nobody.
LEMMA SegNew ==
  ASSUME IInv, NEW t \in Task, SegmentListed(t) PROVE SegExact'
<1> USE NoneFacts
<1>0. Shape /\ Types /\ SegExact BY Exact DEF IInv, Shape
<1>1. PICK s \in Seg :
        /\ segName[s] = None /\ segName' = [segName EXCEPT ![s] = name[t]]
        /\ segRefcnt' = [segRefcnt EXCEPT ![s] = 0]
        /\ \/ seg' = [seg EXCEPT ![t] = s] /\ Goto(t, "select") /\ UNCHANGED mgr
           \/ Return(t)
  BY DEF SegmentListed
<1>2. /\ pc[t] = "create" /\ pc'[t] \in {"select", "idle"}
      /\ UNCHANGED <<mgrMem, shmFile>>
      /\ \A u \in Task \ {t} : pc'[u] = pc[u] /\ seg'[u] = seg[u] /\ mgr'[u] = mgr[u]
  BY <1>0, <1>1 DEF SegmentListed, Goto, Return, Types, mvars, fvars
<1>3. \A r : /\ ShmFiles(r)' = ShmFiles(r) /\ Queues(r)' = Queues(r)
             /\ Creators(r)' = Creators(r)
  BY <1>2, SameShmFiles, SameQueues, SameCreators
<1>4. s \notin AliveSeg /\ s \notin segList BY <1>0, <1>1 DEF Types, AliveSeg
<1>5. ShmFiles(s) = {} /\ Queues(s) = {} /\ Creators(s) = {}
  BY <1>0, <1>4 DEF Shape, Objects, Holds, ShmFiles, Queues, Creators
<1>6. /\ AliveSeg' \subseteq AliveSeg \cup {s} /\ segRefcnt'[s] = 0
      /\ \A r \in AliveSeg' \ {s} : segRefcnt'[r] = segRefcnt[r]
  BY <1>0, <1>1 DEF Types, AliveSeg
<1>7. Cardinality({}) = 0 BY FS_EmptySet
<1>8. segRefcnt'[s] = Cardinality(ShmFiles(s)') + Cardinality(Queues(s)')
                        + Cardinality(Creators(s)')
  BY <1>3, <1>5, <1>6, <1>7
<1>9. \A r \in AliveSeg' \ {s} : Same(r) BY <1>3, <1>6 DEF Same
<1> QED BY <1>0, <1>6, <1>8, <1>9, SegOne

\* A creation selects its segment, and unselects it when it fails.
LEMMA SegSelected ==
  ASSUME IInv, NEW t \in Task, SegmentSelected(t) \/ Err3(t) PROVE SegExact'
<1> USE NoneFacts
<1>0. Shape /\ Types /\ SegExact BY Exact DEF IInv, Shape
<1>1. /\ pc[t] \in {"select", "err3"} /\ seg[t] \in segList /\ seg[t] \in Seg
      /\ UNCHANGED <<segName, mgrMem, shmFile, seg, mgr>>
      /\ pc[t] = "select" => SegmentSelected(t)
      /\ pc[t] = "err3" => Err3(t)
  BY <1>0, Addresses DEF SegmentSelected, Err3, Shape, Holds, mvars, fvars
<1>2. PICK s \in AliveSeg : s = seg[t] /\ s \in Seg
  BY <1>0, <1>1 DEF Types
<1>3. /\ segRefcnt' = [r \in Seg |-> IF r # s THEN segRefcnt[r] ELSE
                          IF pc[t] = "select" THEN segRefcnt[r] + 1
                                              ELSE segRefcnt[r] - 1]
      /\ Goto(t, IF pc[t] = "select" THEN "manager" ELSE "remove")
  <2>1. CASE pc[t] = "select"
    <3>1. lookup(name[t]) = {s} BY <1>0, <1>2, <2>1, SelectedIsOwn
    <3> QED BY <1>1, <1>2, <2>1, <3>1 DEF SegmentSelected
  <2>2. CASE pc[t] = "err3"
    BY <1>0, <1>1, <1>2, <2>2 DEF Err3, Types
  <2> QED BY <1>1, <2>1, <2>2
<1>4. /\ pc'[t] = IF pc[t] = "select" THEN "manager" ELSE "remove"
      /\ \A u \in Task \ {t} : pc'[u] = pc[u]
  BY <1>0, <1>3 DEF Goto, Types
<1>5. \A r : ShmFiles(r)' = ShmFiles(r) /\ Queues(r)' = Queues(r)
  <2>1. \A u \in Task : (pc'[u] = "free") = (pc[u] = "free")
    BY <1>1, <1>4
  <2> QED BY <1>1, <2>1, SameShmFiles, SameQueues
<1>6. \A r : r # s => Creators(r)' = Creators(r)
  BY <1>1, <1>2, <1>4 DEF Creators
<1>7. Cardinality(Creators(s)')
        = IF pc[t] = "select" THEN Cardinality(Creators(s)) + 1
                              ELSE Cardinality(Creators(s)) - 1
  <2>1. CASE pc[t] = "select"
    <3>1. t \notin Creators(s) /\ Creators(s)' = Creators(s) \cup {t}
      BY <1>1, <1>2, <1>4, <2>1 DEF Creators
    <3> QED BY <2>1, <3>1, FiniteCounts, OneMoreOrLess
  <2>2. CASE pc[t] = "err3"
    <3>1. t \in Creators(s) /\ Creators(s)' = Creators(s) \ {t}
      BY <1>1, <1>2, <1>4, <2>2 DEF Creators
    <3> QED BY <2>2, <3>1, FiniteCounts, OneMoreOrLess
  <2> QED BY <1>1, <2>1, <2>2
<1>8. segRefcnt[s] = Cardinality(ShmFiles(s)) + Cardinality(Queues(s))
                       + Cardinality(Creators(s))
  BY <1>0 DEF SegExact
<1>9. segRefcnt'[s] = Cardinality(ShmFiles(s)') + Cardinality(Queues(s)')
                        + Cardinality(Creators(s)')
  <2>1. segRefcnt'[s] = IF pc[t] = "select" THEN segRefcnt[s] + 1
                                            ELSE segRefcnt[s] - 1
    BY <1>2, <1>3
  <2> QED BY <1>5, <1>7, <1>8, <2>1, FiniteCounts
<1>10. AliveSeg' = AliveSeg /\ \A r \in AliveSeg' \ {s} : Same(r)
  BY <1>1, <1>3, <1>5, <1>6 DEF AliveSeg, Same
<1> QED BY <1>0, <1>9, <1>10, SegOne

\* The queue takes over from its creation, which counts no more.
LEMMA SegHandedOver ==
  ASSUME Careful, IInv, NEW t \in Task, ManagerCreated(t) PROVE SegExact'
<1> USE NoneFacts
<1>0. Shape /\ Types /\ SegExact BY Exact DEF IInv, Shape
<1>1. PICK m \in Mgr : /\ mgrMem[m] = None /\ mgrMem' = [mgrMem EXCEPT ![m] = seg[t]]
                       /\ mgr' = [mgr EXCEPT ![t] = m]
  BY DEF ManagerCreated
<1>2. /\ pc[t] = "manager" /\ Goto(t, "list") /\ UNCHANGED <<svars, seg, shmFile>>
      /\ seg[t] \in segList /\ seg[t] \in Seg
  BY <1>0, Addresses DEF ManagerCreated, Careful, Shape, Holds, fvars
<1>3. PICK s \in AliveSeg : s = seg[t] /\ s \in Seg BY <1>0, <1>2 DEF Types
<1>4. pc'[t] = "list" /\ \A u \in Task \ {t} : pc'[u] = pc[u] /\ mgr'[u] = mgr[u]
  BY <1>0, <1>1, <1>2 DEF Goto, Types
<1>5. \A r : ShmFiles(r)' = ShmFiles(r) BY <1>2, SameShmFiles
<1>6. /\ \A r : r # s => Creators(r)' = Creators(r)
      /\ t \in Creators(s) /\ Creators(s)' = Creators(s) \ {t}
  BY <1>2, <1>3, <1>4 DEF Creators
<1>7. /\ m \notin AliveMgr /\ AliveMgr' = AliveMgr \cup {m} /\ mgrMem'[m] = s
      /\ \A k \in AliveMgr : mgrMem'[k] = mgrMem[k]
  BY <1>0, <1>1, <1>3 DEF Types, AliveMgr
<1>8. /\ \A k : (\E u \in Task : pc'[u] = "free" /\ mgr'[u] = k)
               <=> (\E u \in Task : pc[u] = "free" /\ mgr[u] = k)
      /\ ~\E u \in Task : pc[u] = "free" /\ mgr[u] = m
  <2>1. \A u \in Task : pc[u] = "free" => mgr[u] # m
    BY <1>0, <1>7 DEF Shape, Holds
  <2> QED BY <1>2, <1>4, <2>1
<1>9. /\ \A r : r # s => Queues(r)' = Queues(r)
      /\ m \notin Queues(s) /\ Queues(s)' = Queues(s) \cup {m}
  BY <1>7, <1>8 DEF Queues
<1>10. /\ Cardinality(Creators(s)') = Cardinality(Creators(s)) - 1
       /\ Cardinality(Queues(s)') = Cardinality(Queues(s)) + 1
  BY <1>6, <1>9, FiniteCounts, OneMoreOrLess
<1>11. segRefcnt[s] = Cardinality(ShmFiles(s)) + Cardinality(Queues(s))
                        + Cardinality(Creators(s))
  BY <1>0 DEF SegExact
<1>12. segRefcnt'[s] = Cardinality(ShmFiles(s)') + Cardinality(Queues(s)')
                         + Cardinality(Creators(s)')
  BY <1>2, <1>5, <1>10, <1>11, FiniteCounts DEF svars
<1>13. AliveSeg' = AliveSeg /\ \A r \in AliveSeg' \ {s} : Same(r)
  BY <1>2, <1>5, <1>6, <1>9 DEF AliveSeg, Same, svars
<1> QED BY <1>0, <1>12, <1>13, SegOne

\* A queue unselects its segment before it is freed.
LEMMA SegUnselected ==
  ASSUME IInv, NEW t \in Task, ManagerUnselects(t) PROVE SegExact'
<1> USE NoneFacts
<1>0. Shape /\ Types /\ SegExact BY Exact DEF IInv, Shape
<1>1. /\ pc[t] = "unselect" /\ Goto(t, "free") /\ call[t] = "VMQ_REMOVE"
      /\ mgr[t] \in AliveMgr /\ segName[mgrMem[mgr[t]]] = name[t]
      /\ segRefcnt' = [segRefcnt EXCEPT ![mgrMem[mgr[t]]] = @ - 1]
      /\ UNCHANGED <<segName, mvars, seg, mgr, shmFile>>
  BY <1>0 DEF ManagerUnselects, Shape, Holds, CallAt, fvars
<1>2. PICK m \in AliveMgr : m = mgr[t] BY <1>1
<1>3. mgrMem[m] \in AliveSeg /\ mgrMem[m] \in Seg
  BY <1>0, <1>2 DEF Types, Shape, Objects, AliveSeg
<1>4. PICK s \in AliveSeg : s = mgrMem[m] /\ s \in Seg BY <1>3
<1>5. pc'[t] = "free" /\ \A u \in Task \ {t} : pc'[u] = pc[u]
  BY <1>0, <1>1 DEF Goto, Types
<1>6. \A r : ShmFiles(r)' = ShmFiles(r) /\ Creators(r)' = Creators(r)
  <2>1. \A u \in Task :
          (pc'[u] \in {"manager", "err3"}) = (pc[u] \in {"manager", "err3"})
    BY <1>1, <1>5
  <2> QED BY <1>1, <2>1, SameShmFiles, SameCreators
<1>7. \A u \in Task : pc[u] = "free" => mgr[u] # m
  <2> SUFFICES ASSUME NEW u \in Task, pc[u] = "free", mgr[u] = m PROVE FALSE
    OBVIOUS
  <2>1. name[u] = name[t] /\ call[u] = "VMQ_REMOVE" /\ u # t
    BY <1>0, <1>1, <1>2 DEF Shape, Holds, CallAt
  <2> QED BY <1>0, <1>1, <2>1, NotBoth DEF Shape
<1>8. /\ AliveMgr' = AliveMgr
      /\ \A k : k # m => ((\E u \in Task : pc'[u] = "free" /\ mgr'[u] = k)
                            <=> (\E u \in Task : pc[u] = "free" /\ mgr[u] = k))
      /\ \E u \in Task : pc'[u] = "free" /\ mgr'[u] = m
  BY <1>1, <1>2, <1>5 DEF AliveMgr, mvars
<1>9. m \in Queues(s) /\ Queues(s)' = Queues(s) \ {m}
  BY <1>1, <1>4, <1>7, <1>8 DEF Queues, mvars
<1>10. \A r : r # s => Queues(r)' = Queues(r)
  BY <1>1, <1>4, <1>8 DEF Queues, mvars
<1>11. Cardinality(Queues(s)') = Cardinality(Queues(s)) - 1
  BY <1>9, FiniteCounts, OneMoreOrLess
<1>12. segRefcnt[s] = Cardinality(ShmFiles(s)) + Cardinality(Queues(s))
                        + Cardinality(Creators(s))
  BY <1>0 DEF SegExact
<1>13. /\ segRefcnt'[s] = segRefcnt[s] - 1
       /\ \A r \in AliveSeg : r # s => segRefcnt'[r] = segRefcnt[r]
  BY <1>0, <1>1, <1>2, <1>4 DEF Types, AliveSeg
<1>14. segRefcnt'[s] = Cardinality(ShmFiles(s)') + Cardinality(Queues(s)')
                         + Cardinality(Creators(s)')
  BY <1>6, <1>11, <1>12, <1>13, FiniteCounts
<1>15. AliveSeg' = AliveSeg /\ \A r \in AliveSeg' \ {s} : Same(r)
  BY <1>1, <1>6, <1>10, <1>13 DEF AliveSeg, Same
<1> QED BY <1>0, <1>14, <1>15, SegOne

\* A file of /dev/vmshm.
LEMMA SegFile ==
  ASSUME IInv, NEW t \in Task, Unselect(t) \/ \E n \in Name : Select(t, n)
  PROVE  SegExact'
<1> USE NoneFacts
<1>0. Shape /\ Types /\ SegExact BY Exact DEF IInv, Shape
<1>1. PICK s \in AliveSeg :
        \/ /\ shmFile[t] = None /\ shmFile' = [shmFile EXCEPT ![t] = s]
           /\ segRefcnt' = [segRefcnt EXCEPT ![s] = @ + 1]
        \/ /\ shmFile[t] = s /\ shmFile' = [shmFile EXCEPT ![t] = None]
           /\ segRefcnt' = [segRefcnt EXCEPT ![s] = @ - 1]
  <2>1. CASE Unselect(t)
    <3>1. shmFile[t] \in AliveSeg BY <1>0, <2>1 DEF Unselect, Shape, Objects, Types
    <3> QED BY <2>1, <3>1 DEF Unselect
  <2>2. CASE \E n \in Name : Select(t, n)
    BY <1>0, <2>2 DEF Select, lookup, Types
  <2> QED BY <2>1, <2>2
<1>2. UNCHANGED <<segName, mvars, pc, seg, mgr>> BY DEF Select, Unselect
<1>3. \A r : Queues(r)' = Queues(r) /\ Creators(r)' = Creators(r)
  BY <1>2, SameQueues, SameCreators DEF mvars
<1>4. s \in Seg BY DEF AliveSeg
<1>5. \A r \in AliveSeg : r # s => ShmFiles(r)' = ShmFiles(r) /\ segRefcnt'[r] = segRefcnt[r]
  BY <1>0, <1>1, <1>4 DEF ShmFiles, Types, AliveSeg
<1>6. segRefcnt[s] = Cardinality(ShmFiles(s)) + Cardinality(Queues(s))
                       + Cardinality(Creators(s))
  BY <1>0 DEF SegExact
<1>7. segRefcnt'[s] = Cardinality(ShmFiles(s)') + Cardinality(Queues(s)')
                        + Cardinality(Creators(s)')
  <2>1. CASE shmFile[t] = None
    <3>1. t \notin ShmFiles(s) /\ ShmFiles(s)' = ShmFiles(s) \cup {t}
      BY <1>0, <1>1, <1>4, <2>1 DEF ShmFiles, Types
    <3>2. Cardinality(ShmFiles(s)') = Cardinality(ShmFiles(s)) + 1
      BY <3>1, FiniteCounts, OneMoreOrLess
    <3>3. segRefcnt'[s] = segRefcnt[s] + 1 BY <1>0, <1>1, <1>4, <2>1 DEF Types
    <3> QED BY <1>3, <1>6, <3>2, <3>3, FiniteCounts
  <2>2. CASE shmFile[t] = s
    <3>1. t \in ShmFiles(s) /\ ShmFiles(s)' = ShmFiles(s) \ {t}
      BY <1>0, <1>1, <1>4, <2>2 DEF ShmFiles, Types
    <3>2. Cardinality(ShmFiles(s)') = Cardinality(ShmFiles(s)) - 1
      BY <3>1, FiniteCounts, OneMoreOrLess
    <3>3. segRefcnt'[s] = segRefcnt[s] - 1 BY <1>0, <1>1, <1>4, <2>2 DEF Types
    <3> QED BY <1>3, <1>6, <3>2, <3>3, FiniteCounts
  <2> QED BY <1>1, <2>1, <2>2
<1>8. AliveSeg' = AliveSeg /\ \A r \in AliveSeg' \ {s} : Same(r)
  BY <1>2, <1>3, <1>5 DEF AliveSeg, Same
<1> QED BY <1>0, <1>7, <1>8, SegOne

LEMMA SegStep == ASSUME Careful, IInv, [Next]_vars PROVE SegExact'
<1>1. ASSUME NEW t \in Task, ShmStep(t) \/ QueueStep(t) PROVE SegExact'
  BY <1>1, SegQuiet, SegFreed, SegNew, SegSelected, SegHandedOver, SegUnselected,
     SegFile
  DEF ShmStep, QueueStep
<1>2. CASE UNCHANGED vars
  <2>1. UNCHANGED <<shmFile, mgrMem, segName, segRefcnt, pc, seg, mgr>>
    BY <1>2 DEF vars, svars, mvars, fvars
  <2>2. AliveSeg' = AliveSeg BY <2>1 DEF AliveSeg
  <2>3. \A s : Same(s)
    BY <2>1, SameShmFiles, SameCreators, SameQueues DEF Same
  <2>4. SegExact BY Exact DEF IInv
  <2> QED BY <2>2, <2>3, <2>4, SegSame
<1> QED BY <1>1, <1>2 DEF Next

LEMMA InitIInv == ASSUME Init PROVE IInv
<1> USE NoneFacts DEF Init
<1>1. AliveSeg = {} /\ AliveMgr = {} BY DEF AliveSeg, AliveMgr
<1>2. Types BY <1>1 DEF Types, Labels
<1>3. Objects BY <1>1 DEF Objects
<1>4. \A t \in Task : CallAt(t) /\ Holds(t) BY DEF CallAt, Holds
<1>5. \A t, u \in Task : Apart(t, u) /\ ListAlone(t, u) BY DEF Apart, ListAlone
<1>6. RefcntExact BY <1>1 DEF RefcntExact
<1> QED BY <1>2, <1>3, <1>4, <1>5, <1>6 DEF IInv, Shape

\* The strengthening of the invariants below is inductive.
THEOREM Inductive == ASSUME Careful PROVE Spec => []IInv
<1>1. Init => IInv BY InitIInv
<1>2. ASSUME IInv, [Next]_vars PROVE IInv'
  <2>1. Shape' BY <1>2, Careful, ShapeStep
  <2>2. MgrExact' /\ SegExact' BY <1>2, Careful, MgrStep, SegStep
  <2>3. RefcntExact'
    BY <2>2 DEF RefcntExact, MgrExact, SegExact, Files, ShmFiles, Queues, Creators
  <2> QED BY <2>1, <2>3 DEF IInv
<1> QED BY <1>1, <1>2, PTL DEF Spec

\* The types; the lists have allocated objects only.
THEOREM TypeCorrect == ASSUME Careful PROVE Spec => []TypeOK
<1>1. IInv => TypeOK
  BY DEF IInv, Shape, Types, TypeOK, CallAt
<1> QED BY <1>1, Inductive, PTL

\* What a call, a queue or a file points at is still allocated, and a name
\* leads to one object: the lookups of vmq_create, vmq_remove and vmq_setup
\* are as good as if one lock were held throughout.
THEOREM NoUseAfterFree == ASSUME Careful PROVE Spec => []PointersAlive
<1>1. IInv => PointersAlive
  BY DEF IInv, Shape, Types, Objects, Holds, PointersAlive, UsesSeg, UsesMgr
<1> QED BY <1>1, Inductive, PTL

\* refcnt of a segment and of a queue is the number of their users.
THEOREM CountsExact == ASSUME Careful PROVE Spec => []RefcntExact
<1>1. IInv => RefcntExact BY DEF IInv
<1> QED BY <1>1, Inductive, PTL

------------------------------------------------------------------------------
(* Registry implements QueueNames                                            *)

QueueName(m) == segName[mgrMem[m]]
NamesOf == {QueueName(m) : m \in mgrList}
Opened(t) == IF file[t] = None THEN None ELSE QueueName(file[t])

\* Of a listed queue, the segment is neither freed nor replaced.
LEMMA NamesSame ==
  ASSUME Shape, Shape', mgrList' \subseteq mgrList \/ mgrList \subseteq mgrList',
         \A m \in mgrList : mgrMem'[m] = mgrMem[m],
         \A s \in Seg : segName'[s] \in {segName[s], None} \/ segName[s] = None
  PROVE  /\ \A m \in mgrList \cap mgrList' : QueueName(m)' = QueueName(m)
         /\ \A t \in Task : file'[t] = file[t] => Opened(t)' = Opened(t)
<1>1. ASSUME NEW m \in mgrList, m \in mgrList' PROVE QueueName(m)' = QueueName(m)
  <2>1. mgrMem[m] \in segList /\ mgrMem[m] \in Seg /\ segName[mgrMem[m]] # None
    BY DEF Shape, Objects, Types, AliveMgr, AliveSeg
  <2>2. mgrMem'[m] \in segList' /\ segName'[mgrMem'[m]] # None
    BY <1>1 DEF Shape, Objects, Types, AliveMgr, AliveSeg
  <2> QED BY <2>1, <2>2 DEF QueueName
<1>2. ASSUME NEW t \in Task, file'[t] = file[t] PROVE Opened(t)' = Opened(t)
  <2>1. CASE file[t] = None BY <1>2, <2>1 DEF Opened
  <2>2. CASE file[t] # None
    <3>1. file[t] \in mgrList BY <2>2 DEF Shape, Objects
    <3>2. file[t] \in mgrList' BY <1>2, <2>2 DEF Shape, Objects
    <3>3. QueueName(file[t])' = segName'[mgrMem'[file'[t]]] BY DEF QueueName
    <3>4. \A m \in mgrList : m \in mgrList' =>
            segName'[mgrMem'[m]] = segName[mgrMem[m]]
      BY <1>1 DEF QueueName
    <3> QED BY <1>2, <2>2, <3>1, <3>2, <3>4 DEF Opened, QueueName
  <2> QED BY <2>1, <2>2
<1> QED BY <1>1, <1>2

LEMMA NamesStutter ==
  ASSUME Shape, Shape', mgrList' = mgrList, file' = file,
         \A m \in mgrList : mgrMem'[m] = mgrMem[m],
         \A s \in Seg : segName'[s] \in {segName[s], None} \/ segName[s] = None
  PROVE  UNCHANGED <<NamesOf, [t \in Task |-> Opened(t)]>>
<1>1. \A m \in mgrList : QueueName(m)' = QueueName(m) BY NamesSame
<1>2. NamesOf' = NamesOf BY <1>1 DEF NamesOf
<1>3. \A t \in Task : Opened(t)' = Opened(t) BY NamesSame
<1> QED BY <1>2, <1>3

LEMMA ListedNames ==
  ASSUME Shape
  PROVE  /\ \A m, k \in mgrList : QueueName(m) = QueueName(k) => m = k
         /\ \A m \in AliveMgr : QueueName(m) \in Name
         /\ mgrList \subseteq AliveMgr
         /\ \A m, k \in AliveMgr : QueueName(m) = QueueName(k) => m = k
BY DEF Shape, Objects, Types, AliveMgr, AliveSeg, QueueName

\* vmq_create ends: a name that no queue had.
LEMMA CreateImplemented ==
  ASSUME Shape, Shape', NEW t \in Task, QueueListed(t)
  PROVE  \E n \in Name : Names!Create(n)
<1> DEFINE n == QueueName(mgr[t])
<1>1. /\ mgr[t] \in AliveMgr \ mgrList /\ mgrList' = mgrList \cup {mgr[t]}
      /\ segName' = segName /\ mgrMem' = mgrMem /\ file' = file
  BY DEF QueueListed, Shape, Holds, svars, fvars
<1>2. PICK m \in Mgr : m = mgr[t] BY <1>1 DEF AliveMgr
<1>3. QueueName(m) \in Name /\ QueueName(m) \notin NamesOf
  BY <1>1, <1>2, ListedNames DEF NamesOf
<1>4. \A k : QueueName(k)' = QueueName(k) BY <1>1 DEF QueueName
<1>5. NamesOf' = NamesOf \cup {QueueName(m)}
  BY <1>1, <1>2, <1>4 DEF NamesOf
<1>6. \A u \in Task : Opened(u)' = Opened(u) BY <1>1 DEF Opened, QueueName
<1>7. PICK k \in Name : k = QueueName(m) BY <1>3
<1>8. Names!Create(k)
  BY <1>3, <1>5, <1>6, <1>7 DEF Names!Create, NamesOf, Opened, QueueName
<1> QED BY <1>8

\* vmq_remove takes a queue off the list that no file has open.
LEMMA RemoveImplemented ==
  ASSUME Shape, Shape', NEW t \in Task, QueueUnlisted(t)
  PROVE  \E n \in Name : Names!Remove(n)
<1>1. /\ mgr[t] \in mgrList /\ mgrList' = mgrList \ {mgr[t]}
      /\ segName' = segName /\ mgrMem' = mgrMem /\ file' = file
      /\ \A u \in Task : file[u] # mgr[t]
  BY DEF QueueUnlisted, Shape, Holds, svars, fvars
<1>2. PICK m \in mgrList : m = mgr[t] BY <1>1
<1>3. QueueName(m) \in Name /\ QueueName(m) \in NamesOf
  BY <1>2, ListedNames DEF NamesOf
<1>4. \A k : QueueName(k)' = QueueName(k) BY <1>1 DEF QueueName
<1>5. NamesOf' = NamesOf \ {QueueName(m)}
  BY <1>1, <1>2, <1>4, ListedNames DEF NamesOf
<1>6. \A u \in Task : Opened(u)' = Opened(u) BY <1>1 DEF Opened, QueueName
<1>7. PICK k \in Name : k = QueueName(m) BY <1>3
<1>8. ASSUME NEW u \in Task PROVE Opened(u) # k
  <2>1. CASE file[u] = None BY <1>7, <2>1, NoneFacts DEF Opened
  <2>2. CASE file[u] # None
    <3>1. file[u] \in mgrList BY <2>2 DEF Shape, Objects
    <3> QED BY <1>1, <1>2, <1>7, <2>2, <3>1, ListedNames DEF Opened
  <2> QED BY <2>1, <2>2
<1>9. Names!Remove(k)
  BY <1>3, <1>5, <1>6, <1>7, <1>8 DEF Names!Remove, NamesOf, Opened, QueueName
<1> QED BY <1>9

\* vmq_setup attaches a file to a queue that is still on the list.
LEMMA OpenImplemented ==
  ASSUME Shape, Shape', NEW t \in Task, SetupCounts(t)
  PROVE  \E n \in Name : Names!Open(t, n)
<1>1. /\ mgr[t] \in mgrList /\ mgrList' = mgrList /\ file[t] = None
      /\ segName' = segName /\ mgrMem' = mgrMem
      /\ file' = [file EXCEPT ![t] = mgr[t]] /\ file \in [Task -> Mgr \cup {None}]
  BY DEF SetupCounts, Shape, Types, Holds, svars
<1>2. PICK m \in mgrList : m = mgr[t] BY <1>1
<1>3. QueueName(m) \in Name /\ QueueName(m) \in NamesOf /\ m # None
  BY <1>2, ListedNames, NoneFacts DEF NamesOf, AliveMgr
<1>4. \A k : QueueName(k)' = QueueName(k) BY <1>1 DEF QueueName
<1>5. NamesOf' = NamesOf BY <1>1, <1>4 DEF NamesOf
<1>6. \A u \in Task : Opened(u)' = IF u = t THEN QueueName(m) ELSE Opened(u)
  BY <1>1, <1>2, <1>3 DEF Opened, QueueName
<1>7. PICK k \in Name : k = QueueName(m) BY <1>3
<1>8. Opened(t) = None BY <1>1 DEF Opened
<1>9. [u \in Task |-> Opened(u)'] = [[u \in Task |-> Opened(u)] EXCEPT ![t] = k]
  BY <1>6, <1>7
<1>10. Names!Open(t, k)
  BY <1>3, <1>5, <1>7, <1>8, <1>9 DEF Names!Open, NamesOf, Opened, QueueName
<1> QED BY <1>10

LEMMA CloseImplemented ==
  ASSUME Shape, NEW t \in Task, Release(t)
  PROVE  Names!Close(t)
<1>1. /\ file[t] # None /\ file' = [file EXCEPT ![t] = None] /\ mgrList' = mgrList
      /\ segName' = segName /\ mgrMem' = mgrMem /\ file \in [Task -> Mgr \cup {None}]
  BY DEF Release, Shape, Types, svars
<1>2. NamesOf' = NamesOf BY <1>1 DEF NamesOf, QueueName
<1>3. \A u \in Task : Opened(u)' = IF u = t THEN None ELSE Opened(u)
  BY <1>1 DEF Opened, QueueName
<1>4. Opened(t) # None
  BY <1>1, ListedNames, NoneFacts DEF Opened, Shape, Objects
<1>5. [u \in Task |-> Opened(u)'] = [[u \in Task |-> Opened(u)] EXCEPT ![t] = None]
  BY <1>3
<1> QED BY <1>2, <1>4, <1>5 DEF Names!Close, NamesOf, Opened, QueueName

LEMMA OthersStutter ==
  ASSUME Shape, Shape', NEW t \in Task, ShmStep(t) \/ QueueStep(t),
         ~QueueListed(t), ~QueueUnlisted(t), ~SetupCounts(t), ~Release(t)
  PROVE  UNCHANGED <<NamesOf, [u \in Task |-> Opened(u)]>>
<1> USE DEF svars, mvars, lvars, fvars
<1>1. mgrList' = mgrList /\ file' = file
  BY DEF ShmStep, QueueStep, SegmentListed, CreateFails, SegmentRemoved, Unselect,
         Select, SegmentFound, CreateChecked, SegmentSelected, ManagerCreated,
         ManagerFails, Err3, QueueBusy, QueueIdle, ManagerUnselects, ManagerFreed,
         SetupFails, QueueFound, SetupFound
<1>2. \A m \in mgrList : mgrMem'[m] = mgrMem[m]
  <2>1. CASE ManagerCreated(t)
    <3>1. \A m \in mgrList : mgrMem[m] # None BY DEF Shape, Types, AliveMgr
    <3> QED BY <2>1, <3>1 DEF ManagerCreated
  <2>2. CASE ManagerFreed(t)
    <3>1. mgr[t] \notin mgrList BY <2>2 DEF ManagerFreed, Shape, Holds
    <3> QED BY <2>2, <3>1 DEF ManagerFreed
  <2>3. CASE ~ManagerCreated(t) /\ ~ManagerFreed(t)
    <3>1. mgrMem' = mgrMem
      BY <2>3 DEF ShmStep, QueueStep, SegmentListed, CreateFails, SegmentRemoved,
         Unselect, Select, SegmentFound, CreateChecked, SegmentSelected,
         ManagerFails, Err3, QueueBusy, QueueIdle, ManagerUnselects,
         SetupFails, QueueFound, SetupFound
    <3> QED BY <3>1
  <2> QED BY <2>1, <2>2, <2>3
<1>3. \A s \in Seg : segName'[s] \in {segName[s], None} \/ segName[s] = None
  <2>1. CASE SegmentListed(t) BY <2>1 DEF SegmentListed, Shape, Types
  <2>2. CASE SegmentRemoved(t)
    BY <2>2 DEF SegmentRemoved, vmshm_remove, Shape, Types
  <2>3. CASE ManagerFreed(t)
    BY <2>3 DEF ManagerFreed, vmshm_remove, Shape, Types
  <2>4. CASE ~SegmentListed(t) /\ ~SegmentRemoved(t) /\ ~ManagerFreed(t)
    <3>1. segName' = segName
      BY <2>4 DEF ShmStep, QueueStep, CreateFails,
         Unselect, Select, SegmentFound, CreateChecked, SegmentSelected,
         ManagerCreated, ManagerFails, Err3, QueueBusy, QueueIdle, ManagerUnselects,
         SetupFails, QueueFound, SetupFound
    <3> QED BY <3>1
  <2> QED BY <2>1, <2>2, <2>3, <2>4
<1> QED BY <1>1, <1>2, <1>3, NamesStutter

\* The driver implements the directory of queues: a queue is removed only
\* when no file has it open, and vmq_setup never attaches to one that is gone.
THEOREM Implements == ASSUME Careful PROVE Spec => QueuesKept
<1>1. Init => Names!Init
  BY DEF Init, Names!Init
<1>2. ASSUME IInv, IInv', [Next]_vars PROVE [Names!Next]_(Names!vars)
  <2>1. Shape /\ Shape' BY <1>2 DEF IInv
  <2>2. CASE UNCHANGED vars
    BY <2>2 DEF vars, svars, mvars, fvars, Names!vars
  <2>3. ASSUME NEW t \in Task, ShmStep(t) \/ QueueStep(t)
        PROVE  [Names!Next]_(Names!vars)
    <3>1. CASE QueueListed(t) BY <2>1, <3>1, CreateImplemented DEF Names!Next
    <3>2. CASE QueueUnlisted(t) BY <2>1, <3>2, RemoveImplemented DEF Names!Next
    <3>3. CASE SetupCounts(t) BY <2>1, <3>3, OpenImplemented DEF Names!Next
    <3>4. CASE Release(t) BY <2>1, <3>4, CloseImplemented DEF Names!Next
    <3>5. CASE ~QueueListed(t) /\ ~QueueUnlisted(t) /\ ~SetupCounts(t) /\ ~Release(t)
      <4>1. UNCHANGED <<NamesOf, [u \in Task |-> Opened(u)]>>
        BY <2>1, <2>3, <3>5, OthersStutter
      <4> QED BY <4>1 DEF Names!vars, NamesOf, Opened, QueueName
    <3> QED BY <3>1, <3>2, <3>3, <3>4, <3>5
  <2> QED BY <1>2, <2>2, <2>3 DEF Next
<1> QED BY <1>1, <1>2, Inductive, PTL DEF Spec, QueuesKept, Names!Spec
=============================================================================
