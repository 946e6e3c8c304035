------------------------------ MODULE Registry ------------------------------
(***************************************************************************)
(* The named objects of the two drivers: the segments of drivers/vmshm     *)
(* (vmshm_list, under vmshm_mutex) and the queues of drivers/vmq           *)
(* (vmq_buffer_list, under vmq_buffer_mutex), each queue on a segment of   *)
(* its name.  One step below is one critical section: the calls find an    *)
(* object in one section and use it in a later one, so that what they      *)
(* found may be gone.  Conflicts lists the pairs of calls the callers keep *)
(* apart when they name the same object.                                   *)
(***************************************************************************)
EXTENDS Integers, FiniteSets

CONSTANTS
  Task,       \* threads, each with one file of /dev/vmq, one of /dev/vmshm
  Name,       \* names of queues and segments
  Seg, Mgr,   \* addresses of struct VMSharedMemory, VMQBufferManager
  None,
  Conflicts,  \* sets of calls that never overlap on one name
  Failures    \* "enomem": an allocation fails; "proc": proc_create_data fails

Calls == {"VMSHM_CREATE", "VMSHM_REMOVE", "VMQ_CREATE", "VMQ_REMOVE", "VMQ_SETUP"}

ASSUME RegistryAssumption ==
  /\ \A S \in {Task, Name, Seg, Mgr, Calls} : IsFiniteSet(S) /\ None \notin S
  /\ Conflicts \subseteq SUBSET Calls
  /\ Failures \subseteq {"enomem", "proc"}

(* What the callers keep apart: two removals, two creations, a removal of *)
(* the segment and any call of vmq that relies on it, and a removal of the *)
(* queue and a setup.  Without one of these pairs a property fails.        *)
Administered ==
  {{"VMQ_REMOVE"}, {"VMSHM_REMOVE"}, {"VMSHM_REMOVE", "VMQ_REMOVE"},
   {"VMQ_CREATE"}, {"VMSHM_CREATE"}, {"VMSHM_CREATE", "VMQ_CREATE"},
   {"VMSHM_REMOVE", "VMQ_CREATE"}, {"VMQ_REMOVE", "VMQ_SETUP"}}

VARIABLES
  segName,    \* mem->name, None: the struct is not allocated
  segRefcnt,  \* mem->refcnt
  segList,    \* vmshm_list
  mgrMem,     \* mgr->mem, None: the struct is not allocated
  mgrRefcnt,  \* mgr->refcnt
  mgrList,    \* vmq_buffer_list
  pc, call, name, seg, mgr,   \* a task in a call, and its local variables
  file,       \* filp->private_data of /dev/vmq, its mgr, or None
  shmFile     \* filp->private_data of /dev/vmshm, or None

svars == <<segName, segRefcnt, segList>>
mvars == <<mgrMem, mgrRefcnt, mgrList>>
lvars == <<call, name>>
fvars == <<file, shmFile>>
vars == <<svars, mvars, pc, lvars, seg, mgr, fvars>>

Init ==
  /\ segName = [s \in Seg |-> None] /\ segRefcnt = [s \in Seg |-> 0]
  /\ segList = {}
  /\ mgrMem = [m \in Mgr |-> None] /\ mgrRefcnt = [m \in Mgr |-> 0]
  /\ mgrList = {}
  /\ pc = [t \in Task |-> "idle"]
  /\ call = [t \in Task |-> None] /\ name = [t \in Task |-> None]
  /\ seg = [t \in Task |-> None] /\ mgr = [t \in Task |-> None]
  /\ file = [t \in Task |-> None] /\ shmFile = [t \in Task |-> None]

----------------------------------------------------------------------------
lookup(n) == {s \in segList : segName[s] = n}

(* The name of a queue is the name of its segment. *)
lookup_buffer_manager(n) == {m \in mgrList : segName[mgrMem[m]] = n}

(* The callers run one after the other: scripts/pi-frame.init and            *)
(* pi-frame.deinit call vmqctl and vmshmctl with nothing else going on.      *)
KeptApart(t, c, n) ==
  \A u \in Task \ {t} :
    pc[u] # "idle" /\ name[u] = n => {c, call[u]} \notin Conflicts

(* The call c starts, and goes on at `label' after its first section. *)
Enter(t, c, n, label) ==
  /\ pc[t] = "idle" /\ KeptApart(t, c, n)
  /\ pc' = [pc EXCEPT ![t] = label]
  /\ call' = [call EXCEPT ![t] = c]
  /\ name' = [name EXCEPT ![t] = n]

Goto(t, label) == pc' = [pc EXCEPT ![t] = label] /\ UNCHANGED lvars

Return(t) ==
  /\ pc' = [pc EXCEPT ![t] = "idle"]
  /\ call' = [call EXCEPT ![t] = None]
  /\ name' = [name EXCEPT ![t] = None]
  /\ seg' = [seg EXCEPT ![t] = None]
  /\ mgr' = [mgr EXCEPT ![t] = None]

----------------------------------------------------------------------------
(* vmshm_create: the name is looked up in one section, the segment listed  *)
(* in another.  A name that exists is refused, with no other effect.       *)

CreateChecked(t, c, n) ==
  /\ c \in {"VMSHM_CREATE", "VMQ_CREATE"}
  /\ lookup(n) = {}
  /\ Enter(t, c, n, "create")
  /\ UNCHANGED <<svars, mvars, seg, mgr, fvars>>

SegmentListed(t) ==
  /\ pc[t] = "create"
  /\ \E s \in {x \in Seg : segName[x] = None} :
       /\ segName' = [segName EXCEPT ![s] = name[t]]
       /\ segRefcnt' = [segRefcnt EXCEPT ![s] = 0]
       /\ segList' = segList \cup {s}
       /\ IF call[t] = "VMQ_CREATE"
            THEN /\ seg' = [seg EXCEPT ![t] = s]
                 /\ Goto(t, "select") /\ UNCHANGED mgr
            ELSE Return(t)
  /\ UNCHANGED <<mvars, fvars>>

(* An allocation fails before the segment is listed.  err4 comes after, when *)
(* try_module_get fails: never while a file of the module is open or vmq     *)
(* uses it, as in each of these calls.                                       *)
CreateFails(t) ==
  /\ pc[t] = "create" /\ "enomem" \in Failures
  /\ Return(t)
  /\ UNCHANGED <<svars, mvars, fvars>>

(* vmshm_select(name) must find the segment just created. *)
SegmentSelected(t) ==
  /\ pc[t] = "select"
  /\ \E s \in (IF lookup(name[t]) = {} THEN {None} ELSE lookup(name[t])) :
       /\ segRefcnt' = [r \in Seg |-> IF r = s THEN segRefcnt[r] + 1 ELSE segRefcnt[r]]
       /\ Goto(t, IF s = seg[t] THEN "manager" ELSE "remove")
  /\ UNCHANGED <<segName, segList, mvars, seg, mgr, fvars>>

(* create_buffer_manager and the entry in /proc. *)
ManagerCreated(t) ==
  /\ pc[t] = "manager"
  /\ \E m \in {x \in Mgr : mgrMem[x] = None} :
       /\ mgrMem' = [mgrMem EXCEPT ![m] = seg[t]]
       /\ mgrRefcnt' = [mgrRefcnt EXCEPT ![m] = 0]
       /\ mgr' = [mgr EXCEPT ![t] = m]
  /\ \E label \in {"list"} \cup (IF "proc" \in Failures THEN {"unselect"} ELSE {}) :
       Goto(t, label)
  /\ UNCHANGED <<svars, mgrList, seg, fvars>>

ManagerFails(t) ==
  /\ pc[t] = "manager" /\ "enomem" \in Failures
  /\ Goto(t, "err3")
  /\ UNCHANGED <<svars, mvars, seg, mgr, fvars>>

QueueListed(t) ==
  /\ pc[t] = "list"
  /\ mgrList' = mgrList \cup {mgr[t]}
  /\ Return(t)
  /\ UNCHANGED <<svars, mgrMem, mgrRefcnt, fvars>>

(* err3 of vmq_create. *)
Err3_noUnselect(t) ==
  /\ pc[t] = "err3"
  /\ Goto(t, "remove")
  /\ UNCHANGED <<svars, mvars, seg, mgr, fvars>>
Err3(t) ==
  /\ pc[t] = "err3"
  /\ segRefcnt' = [segRefcnt EXCEPT ![seg[t]] = @ - 1]
  /\ Goto(t, "remove")
  /\ UNCHANGED <<segName, segList, mvars, seg, mgr, fvars>>

(* vmshm_remove: at refcnt 0 the segment is freed, otherwise it is busy    *)
(* and stays; vmq ignores the difference.                                  *)
vmshm_remove_busyToo(s) ==
  /\ segList' = segList \ {s}
  /\ segName' = [segName EXCEPT ![s] = None]
vmshm_remove(s) ==
  IF segRefcnt[s] = 0
    THEN /\ segList' = segList \ {s}
         /\ segName' = [segName EXCEPT ![s] = None]
    ELSE UNCHANGED <<segList, segName>>

(* The end of VMSHM_REMOVE, and err2 of vmq_create. *)
SegmentRemoved(t) ==
  /\ pc[t] = "remove"
  /\ vmshm_remove(seg[t])
  /\ Return(t)
  /\ UNCHANGED <<segRefcnt, mvars, fvars>>

SegmentFound(t, n) ==
  /\ \E s \in lookup(n) : seg' = [seg EXCEPT ![t] = s]
  /\ Enter(t, "VMSHM_REMOVE", n, "remove")
  /\ UNCHANGED <<svars, mvars, mgr, fvars>>

(* VMSHM_SELECT; VMSHM_UNSELECT or the close of the file. *)
Select(t, n) ==
  /\ pc[t] = "idle" /\ shmFile[t] = None
  /\ \E s \in lookup(n) :
       /\ segRefcnt' = [segRefcnt EXCEPT ![s] = @ + 1]
       /\ shmFile' = [shmFile EXCEPT ![t] = s]
  /\ UNCHANGED <<segName, segList, mvars, pc, lvars, seg, mgr, file>>

Unselect(t) ==
  /\ pc[t] = "idle" /\ shmFile[t] # None
  /\ segRefcnt' = [segRefcnt EXCEPT ![shmFile[t]] = @ - 1]
  /\ shmFile' = [shmFile EXCEPT ![t] = None]
  /\ UNCHANGED <<segName, segList, mvars, pc, lvars, seg, mgr, file>>

----------------------------------------------------------------------------
(* vmq_remove: look up, test refcnt, take off the list, and                *)
(* remove_buffer_manager, which err4 of vmq_create calls too.              *)

QueueFound(t, n) ==
  /\ \E m \in lookup_buffer_manager(n) : mgr' = [mgr EXCEPT ![t] = m]
  /\ Enter(t, "VMQ_REMOVE", n, "busy")
  /\ UNCHANGED <<svars, mvars, seg, fvars>>

QueueBusy(t) ==
  /\ pc[t] = "busy" /\ mgrRefcnt[mgr[t]] # 0
  /\ Return(t)
  /\ UNCHANGED <<svars, mvars, fvars>>

QueueIdle_unchecked(t) ==
  /\ pc[t] = "busy"
  /\ Goto(t, "unlist")
  /\ UNCHANGED <<svars, mvars, seg, mgr, fvars>>
QueueIdle(t) ==
  /\ pc[t] = "busy" /\ mgrRefcnt[mgr[t]] = 0
  /\ Goto(t, "unlist")
  /\ UNCHANGED <<svars, mvars, seg, mgr, fvars>>

QueueUnlisted_keptListed(t) ==
  /\ pc[t] = "unlist"
  /\ Goto(t, "unselect")
  /\ UNCHANGED <<svars, mvars, seg, mgr, fvars>>
QueueUnlisted(t) ==
  /\ pc[t] = "unlist"
  /\ mgrList' = mgrList \ {mgr[t]}
  /\ Goto(t, "unselect")
  /\ UNCHANGED <<svars, mgrMem, mgrRefcnt, seg, mgr, fvars>>

ManagerUnselects(t) ==
  /\ pc[t] = "unselect"
  /\ segRefcnt' = [segRefcnt EXCEPT ![mgrMem[mgr[t]]] = @ - 1]
  /\ Goto(t, "free")
  /\ UNCHANGED <<segName, segList, mvars, seg, mgr, fvars>>

(* After err4 vmq_create goes on to err3, with a segment already gone. *)
ManagerFreed(t) ==
  /\ pc[t] = "free"
  /\ vmshm_remove(mgrMem[mgr[t]])
  /\ mgrMem' = [mgrMem EXCEPT ![mgr[t]] = None]
  /\ IF call[t] = "VMQ_CREATE" THEN Goto(t, "err3") /\ UNCHANGED <<seg, mgr>>
                               ELSE Return(t)
  /\ UNCHANGED <<segRefcnt, mgrRefcnt, mgrList, fvars>>

(* vmq_setup: the reference is counted after the lookup let go of the lock. *)
SetupFound(t, n) ==
  /\ file[t] = None
  /\ \E m \in lookup_buffer_manager(n) : mgr' = [mgr EXCEPT ![t] = m]
  /\ Enter(t, "VMQ_SETUP", n, "setup")
  /\ UNCHANGED <<svars, mvars, seg, fvars>>

SetupCounts(t) ==
  /\ pc[t] = "setup"
  /\ mgrRefcnt' = [mgrRefcnt EXCEPT ![mgr[t]] = @ + 1]
  /\ file' = [file EXCEPT ![t] = mgr[t]]
  /\ Return(t)
  /\ UNCHANGED <<svars, mgrMem, mgrList, shmFile>>

(* No memory for the context, or a type that is neither. *)
SetupFails(t) ==
  /\ pc[t] = "setup"
  /\ Return(t)
  /\ UNCHANGED <<svars, mvars, fvars>>

(* The last thing vmq_release does with mgr is to count it down. *)
Release(t) ==
  /\ pc[t] = "idle" /\ file[t] # None
  /\ mgrRefcnt' = [mgrRefcnt EXCEPT ![file[t]] = @ - 1]
  /\ file' = [file EXCEPT ![t] = None]
  /\ UNCHANGED <<svars, mgrMem, mgrList, pc, lvars, seg, mgr, shmFile>>

----------------------------------------------------------------------------
ShmStep(t) ==
  \/ SegmentListed(t) \/ CreateFails(t) \/ SegmentRemoved(t) \/ Unselect(t)
  \/ \E n \in Name :
       Select(t, n) \/ SegmentFound(t, n) \/ \E c \in Calls : CreateChecked(t, c, n)

QueueStep(t) ==
  \/ SegmentSelected(t) \/ ManagerCreated(t) \/ ManagerFails(t)
  \/ QueueListed(t) \/ Err3(t)
  \/ QueueBusy(t) \/ QueueIdle(t) \/ QueueUnlisted(t)
  \/ ManagerUnselects(t) \/ ManagerFreed(t)
  \/ SetupCounts(t) \/ SetupFails(t) \/ Release(t)
  \/ \E n \in Name : QueueFound(t, n) \/ SetupFound(t, n)

Next == \E t \in Task : ShmStep(t) \/ QueueStep(t)

Spec == Init /\ [][Next]_vars

----------------------------------------------------------------------------
AliveSeg == {s \in Seg : segName[s] # None}
AliveMgr == {m \in Mgr : mgrMem[m] # None}

TypeOK ==
  /\ segName \in [Seg -> Name \cup {None}] /\ segRefcnt \in [Seg -> Int]
  /\ mgrMem \in [Mgr -> Seg \cup {None}] /\ mgrRefcnt \in [Mgr -> Int]
  /\ segList \subseteq AliveSeg /\ mgrList \subseteq AliveMgr
  /\ call \in [Task -> Calls \cup {None}] /\ name \in [Task -> Name \cup {None}]
  /\ \A t \in Task : pc[t] = "idle" <=> call[t] = None

(* The labels at which a call is about to use its mem, its mgr. *)
UsesSeg == {"manager", "err3", "remove"}
UsesMgr == {"list", "busy", "unlist", "unselect", "free", "setup"}

(* No use after free: what a call holds in a local variable, a queue in    *)
(* mgr->mem and a file in private_data is still allocated, although the    *)
(* mutexes protect only the lists.  A name leads to one object, although   *)
(* vmshm_create looks it up long before it lists the segment.              *)
PointersAlive ==
  /\ \A t \in Task :
       /\ pc[t] \in UsesSeg => seg[t] \in AliveSeg
       /\ pc[t] \in UsesMgr => mgr[t] \in AliveMgr
       /\ file[t] # None => file[t] \in AliveMgr
       /\ shmFile[t] # None => shmFile[t] \in AliveSeg
  /\ \A m \in AliveMgr : mgrMem[m] \in segList
  /\ \A s, r \in segList : segName[s] = segName[r] => s = r
  /\ \A m, k \in mgrList : mgrMem[m] = mgrMem[k] => m = k

(* refcnt is the number of users: files, and for a segment its queue until *)
(* that has unselected it, on the error paths of vmq_create too.           *)
RefcntExact ==
  /\ \A m \in AliveMgr : mgrRefcnt[m] = Cardinality({t \in Task : file[t] = m})
  /\ \A s \in AliveSeg :
       segRefcnt[s] =
         Cardinality({t \in Task : shmFile[t] = s})
         + Cardinality({m \in AliveMgr : mgrMem[m] = s
                          /\ ~\E t \in Task : pc[t] = "free" /\ mgr[t] = m})
         + Cardinality({t \in Task : pc[t] \in {"manager", "err3"} /\ seg[t] = s})

Names == INSTANCE QueueNames WITH
  queues <- {segName[mgrMem[m]] : m \in mgrList},
  open <- [t \in Task |->
             IF file[t] = None THEN None ELSE segName[mgrMem[file[t]]]]

(* A queue that somebody has open is never removed, and vmq_setup never    *)
(* attaches a file to a queue that is gone.                                *)
QueuesKept == Names!Spec
=============================================================================
