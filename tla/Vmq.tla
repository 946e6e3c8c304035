-------------------------------- MODULE Vmq --------------------------------
(***************************************************************************)
(* One queue of the VMQ kernel driver (drivers/vmq/main.c): producers take *)
(* a buffer in shared memory, fill it and put it; the driver links it to   *)
(* the queue of every consumer and frees it when the last one gives its    *)
(* item back.  A task below is an open file and the thread that uses it.   *)
(*                                                                         *)
(* mgr->mutex is the only lock whose critical section is not one step: the *)
(* loop of put_buffer_item releases nothing between two consumers, and     *)
(* getitem, which takes only con->mutex, runs in between.                  *)
(*                                                                         *)
(* An operator Op_fault is a faulty variant of the Op that follows it,     *)
(* used by no action: with it in place of Op, a property must fail.        *)
(***************************************************************************)
EXTENDS Blocks, Integers, Sequences, FiniteSets

CONSTANTS
  Producers, Consumers,   \* files set up with VMQ_TYPE_PRODUCER, _CONSUMER
  Residents,              \* consumers subscribed before any producer, for good
  Msg,                    \* what a producer may write into its buffer
  None,
  MaxItemCount,           \* mgr->maxItemCount, 0: no limit
  Env                     \* what the environment may do, see EnvEvents

EnvEvents == {"signal", "efault", "enomem_buffer", "enomem_item",
              "close_producer", "close_consumer"}

ASSUME VmqAssumption ==
  /\ IsFiniteSet(Producers) /\ IsFiniteSet(Consumers)
  /\ Producers \cap Consumers = {}
  /\ Residents \subseteq Consumers
  /\ None \notin Block /\ None \notin Request
  /\ None \notin Msg /\ None \notin Producers
  /\ MaxItemCount \in Nat
  /\ Env \subseteq EnvEvents

Tasks == Producers \cup Consumers

VARIABLES
  pc,            \* where a task is in its system calls
  asleep,        \* tasks sleeping on b_wq (producers) or q_wq (consumers)
  request,       \* the size a producer asked for
  buffer,        \* the block of a producer: `page', then pro->buffer
  allocated,     \* blocks marked allocated in the bitmap
  buffers,       \* blocks with a struct VMQBuffer
  refcnt,        \* buffer->refcnt
  bufItemCount,  \* mgr->bufItemCount
  owner,         \* the producer inside put_buffer_item with mgr->mutex, or None
  todo,          \* consumers its loop has still to visit
  count,         \* the local variable of put_buffer_item
  consumers,     \* mgr->consumers
  items,         \* con->items
  item,          \* the item popped or held by a consumer: con->item
  mem            \* the content of the shared pages

tvars == <<pc, asleep>>
pvars == <<request, buffer>>
bvars == <<allocated, buffers, refcnt, bufItemCount>>
lvars == <<owner, todo, count>>
cvars == <<consumers, items, item>>
vars == <<tvars, pvars, bvars, lvars, cvars, mem>>

ProducerPc == {"closed", "idle", "limit", "alloc", "memory", "add",
               "copyout", "fill", "ready", "put"}
ConsumerPc == {"closed", "idle", "get", "copyout", "hold", "wake"}

Init ==
  /\ pc = [t \in Tasks |-> IF t \in Residents THEN "idle" ELSE "closed"]
  /\ asleep = {}
  /\ request = [p \in Producers |-> None]
  /\ buffer = [p \in Producers |-> None]
  /\ allocated = {} /\ buffers = {}
  /\ refcnt = [b \in Block |-> 0]
  /\ bufItemCount = 0
  /\ owner = None /\ todo = {} /\ count = 0
  /\ consumers = Residents
  /\ items = [c \in Consumers |-> << >>]
  /\ item = [c \in Consumers |-> None]
  /\ mem \in [Page -> Msg]

----------------------------------------------------------------------------
(* wait_event_interruptible: the task is on the wait queue before it tests *)
(* its condition, so that test and sleep are one step for a waker.         *)

Goto(t, label) == pc' = [pc EXCEPT ![t] = label]

WakeB == asleep' = asleep \ Producers

WakeQ_wrongQueue == asleep' = asleep \ Producers
WakeQ == asleep' = asleep \ Consumers

(* mgr->mutex can be taken. *)
MutexFree == owner = None

AtLimit_offByOne == MaxItemCount > 0 /\ bufItemCount > MaxItemCount
AtLimit == MaxItemCount > 0 /\ bufItemCount >= MaxItemCount

(* The condition the task waits for is false. *)
Blocked(t) ==
  \/ pc[t] = "limit" /\ AtLimit
  \/ pc[t] = "memory" /\ Candidates(request[t], allocated) = {}
  \/ pc[t] = "get" /\ items[t] = << >>

(* A signal ends the sleep too; the condition is tested once more. *)
Awake(t) == t \notin asleep \/ "signal" \in Env

Sleep(t) ==
  /\ Blocked(t) /\ t \notin asleep
  /\ asleep' = asleep \cup {t}
  /\ UNCHANGED <<pc, pvars, bvars, lvars, cvars, mem>>

Interrupted(t) ==
  /\ "signal" \in Env
  /\ Blocked(t)
  /\ asleep' = asleep \ {t}
  /\ Goto(t, "idle")
  /\ request' = [p \in Producers |-> IF p = t THEN None ELSE request[p]]
  /\ UNCHANGED <<buffer, bvars, lvars, cvars, mem>>

(* remove_buffer_item for each block of gone: the pages go back to the     *)
(* allocator and the struct is freed, in one section of mgr->mutex.        *)
RemoveBuffers(gone) ==
  /\ allocated' = allocated \ gone
  /\ buffers' = buffers \ gone
  /\ bufItemCount' = bufItemCount - Cardinality(gone)

----------------------------------------------------------------------------
(* VMQ_SETUP as a producer, VMQ_GETBUF, VMQ_PUTBUF, and the last close.    *)

SetupProducer(p) ==
  /\ pc[p] = "closed" /\ MutexFree
  /\ Goto(p, "idle")
  /\ UNCHANGED <<asleep, pvars, bvars, lvars, cvars, mem>>

(* The limit is tested with no lock held. *)
GetBuffer(p, r) ==
  /\ pc[p] = "idle"
  /\ request' = [request EXCEPT ![p] = r]
  /\ Goto(p, IF AtLimit THEN "limit" ELSE "alloc")
  /\ UNCHANGED <<asleep, buffer, bvars, lvars, cvars, mem>>

LimitPassed(p) ==
  /\ pc[p] = "limit" /\ Awake(p)
  /\ ~AtLimit
  /\ asleep' = asleep \ {p}
  /\ Goto(p, "alloc")
  /\ UNCHANGED <<pvars, bvars, lvars, cvars, mem>>

AllocPages(p) ==
  /\ pc[p] \in {"alloc", "memory"} /\ Awake(p)
  /\ \E b \in Candidates(request[p], allocated) :
       /\ allocated' = allocated \cup {b}
       /\ buffer' = [buffer EXCEPT ![p] = b]
  /\ asleep' = asleep \ {p}
  /\ Goto(p, "add")
  /\ UNCHANGED <<request, buffers, refcnt, bufItemCount, lvars, cvars, mem>>

AllocFails(p) ==
  /\ pc[p] = "alloc"
  /\ Candidates(request[p], allocated) = {}
  /\ Goto(p, "memory")
  /\ UNCHANGED <<asleep, pvars, bvars, lvars, cvars, mem>>

AddBuffer(p) ==
  /\ pc[p] = "add" /\ MutexFree
  /\ buffers' = buffers \cup {buffer[p]}
  /\ bufItemCount' = bufItemCount + 1
  /\ refcnt' = [refcnt EXCEPT ![buffer[p]] = 0]
  /\ Goto(p, "copyout")
  /\ UNCHANGED <<asleep, pvars, allocated, lvars, cvars, mem>>

(* kmem_cache_zalloc fails: the pages stay allocated, nobody owns them. *)
AddBufferFails(p) ==
  /\ "enomem_buffer" \in Env
  /\ pc[p] = "add" /\ MutexFree
  /\ buffer' = [buffer EXCEPT ![p] = None]
  /\ request' = [request EXCEPT ![p] = None]
  /\ Goto(p, "idle")
  /\ UNCHANGED <<asleep, bvars, lvars, cvars, mem>>

GetBufferReturns(p) ==
  /\ pc[p] = "copyout"
  /\ request' = [request EXCEPT ![p] = None]
  /\ Goto(p, "fill")
  /\ UNCHANGED <<asleep, buffer, bvars, lvars, cvars, mem>>

(* copy_to_user fails: the buffer is dropped, and nobody is woken. *)
GetBufferFaults(p) ==
  /\ "efault" \in Env
  /\ pc[p] = "copyout" /\ MutexFree
  /\ RemoveBuffers({buffer[p]})
  /\ buffer' = [buffer EXCEPT ![p] = None]
  /\ request' = [request EXCEPT ![p] = None]
  /\ Goto(p, "idle")
  /\ UNCHANGED <<asleep, refcnt, lvars, cvars, mem>>

(* The caller writes its message through its mapping of the segment, as     *)
(* the memcpy of doNotifyStruct does.                                       *)
Fill(p, m) ==
  /\ pc[p] = "fill"
  /\ mem' = [g \in Page |-> IF g \in PagesOf[buffer[p]] THEN m ELSE mem[g]]
  /\ Goto(p, "ready")
  /\ UNCHANGED <<asleep, pvars, bvars, lvars, cvars>>

PutBuffer_noBuffer(p) ==
  /\ pc[p] \in {"idle", "ready"} /\ MutexFree
  /\ owner' = p /\ todo' = consumers /\ count' = 0
  /\ Goto(p, "put")
  /\ UNCHANGED <<asleep, pvars, bvars, cvars, mem>>
PutBuffer(p) ==
  /\ pc[p] = "ready" /\ MutexFree
  /\ owner' = p /\ todo' = consumers /\ count' = 0
  /\ Goto(p, "put")
  /\ UNCHANGED <<asleep, pvars, bvars, cvars, mem>>

ListAddTail_head(queue, b) == <<b>> \o queue
ListAddTail(queue, b) == Append(queue, b)

(* The body of the loop for one consumer. *)
Link(p, c) ==
  /\ owner = p /\ c \in todo
  /\ refcnt' = [refcnt EXCEPT ![buffer[p]] = @ + 1]
  /\ items' = [items EXCEPT ![c] = ListAddTail(@, buffer[p])]
  /\ count' = count + 1
  /\ todo' = todo \ {c}
  /\ UNCHANGED <<tvars, pvars, allocated, buffers, bufItemCount, owner,
                 consumers, item, mem>>

(* alloc_queue_item fails: `continue'. *)
LinkFails(p, c) ==
  /\ "enomem_item" \in Env
  /\ owner = p /\ c \in todo
  /\ todo' = todo \ {c}
  /\ UNCHANGED <<tvars, pvars, bvars, owner, count, cvars, mem>>

NobodyLinked == count = 0

(* With no consumer the buffer goes, but no producer is woken. *)
PutBufferReturns(p) ==
  /\ owner = p /\ todo = {}
  /\ IF NobodyLinked
       THEN RemoveBuffers({buffer[p]}) /\ UNCHANGED asleep
       ELSE WakeQ /\ UNCHANGED <<allocated, buffers, bufItemCount>>
  /\ owner' = None /\ count' = 0
  /\ buffer' = [buffer EXCEPT ![p] = None]
  /\ Goto(p, "idle")
  /\ UNCHANGED <<request, refcnt, todo, cvars, mem>>

(* vmq_release drops the buffer the producer holds, and wakes nobody. *)
CloseProducer(p) ==
  /\ "close_producer" \in Env
  /\ pc[p] \in {"idle", "fill", "ready"} /\ MutexFree
  /\ IF buffer[p] # None
       THEN RemoveBuffers({buffer[p]})
       ELSE UNCHANGED <<allocated, buffers, bufItemCount>>
  /\ buffer' = [buffer EXCEPT ![p] = None]
  /\ Goto(p, "closed")
  /\ UNCHANGED <<asleep, request, refcnt, lvars, cvars, mem>>

----------------------------------------------------------------------------
(* VMQ_SETUP as a consumer, VMQ_GETITEM, VMQ_PUTITEM, and the last close.  *)

SeqSet(q) == {q[i] : i \in DOMAIN q}
Queued(c) == SeqSet(items[c])
Held(c) == Queued(c) \cup ({item[c]} \ {None})

(* unref_buffer for each block of refs. *)
LastRefs_early(refs) == {b \in refs : refcnt[b] <= 2}
LastRefs_late(refs) == {b \in refs : refcnt[b] = 0}
LastRefs(refs) == {b \in refs : refcnt[b] = 1}
Unref(refs) ==
  /\ refcnt' = [b \in Block |-> IF b \in refs THEN refcnt[b] - 1 ELSE refcnt[b]]
  /\ RemoveBuffers(LastRefs(refs))

SetupConsumer(c) ==
  /\ pc[c] = "closed" /\ MutexFree
  /\ consumers' = consumers \cup {c}
  /\ Goto(c, "idle")
  /\ UNCHANGED <<asleep, pvars, bvars, lvars, items, item, mem>>

GetItem(c) ==
  /\ pc[c] = "idle"
  /\ Goto(c, "get")
  /\ UNCHANGED <<asleep, pvars, bvars, lvars, cvars, mem>>

(* get_first_queue_item holds con->mutex, not mgr->mutex. *)
PopItem(c) ==
  /\ pc[c] = "get" /\ Awake(c)
  /\ items[c] # << >>
  /\ item' = [item EXCEPT ![c] = Head(items[c])]
  /\ items' = [items EXCEPT ![c] = Tail(@)]
  /\ asleep' = asleep \ {c}
  /\ Goto(c, "copyout")
  /\ UNCHANGED <<pvars, bvars, lvars, consumers, mem>>

GetItemReturns(c) ==
  /\ pc[c] = "copyout"
  /\ Goto(c, "hold")
  /\ UNCHANGED <<asleep, pvars, bvars, lvars, cvars, mem>>

(* put_queue_item, called by VMQ_PUTITEM and, when copy_to_user fails, by  *)
(* VMQ_GETITEM, which loses the item for this consumer.                    *)
PutItem(c) ==
  /\ \/ pc[c] = "hold"
     \/ pc[c] = "copyout" /\ "efault" \in Env
  /\ MutexFree
  /\ Unref({item[c]})
  /\ IF LastRefs({item[c]}) # {} THEN WakeB ELSE UNCHANGED asleep
  /\ item' = [item EXCEPT ![c] = None]
  /\ Goto(c, "idle")
  /\ UNCHANGED <<pvars, lvars, consumers, items, mem>>

(* vmq_release; its wake-up comes after the mutex is released. *)
CloseConsumer(c) ==
  /\ "close_consumer" \in Env /\ c \notin Residents
  /\ pc[c] \in {"idle", "hold"} /\ MutexFree
  /\ consumers' = consumers \ {c}
  /\ Unref(Held(c))
  /\ items' = [items EXCEPT ![c] = << >>]
  /\ item' = [item EXCEPT ![c] = None]
  /\ Goto(c, IF LastRefs(Held(c)) # {} THEN "wake" ELSE "closed")
  /\ UNCHANGED <<asleep, pvars, lvars, mem>>

CloseConsumerWakes(c) ==
  /\ pc[c] = "wake"
  /\ WakeB
  /\ Goto(c, "closed")
  /\ UNCHANGED <<pvars, bvars, lvars, cvars, mem>>

----------------------------------------------------------------------------
(* What a task does once it is inside a system call or holds a buffer. *)
ProducerStep(p) ==
  \/ Sleep(p) \/ LimitPassed(p) \/ AllocPages(p) \/ AllocFails(p)
  \/ AddBuffer(p) \/ GetBufferReturns(p)
  \/ \E m \in Msg : Fill(p, m)
  \/ PutBuffer(p) \/ PutBufferReturns(p)
  \/ \E c \in Consumers : Link(p, c)

ConsumerStep(c) ==
  \/ Sleep(c) \/ PopItem(c) \/ GetItemReturns(c) \/ PutItem(c)
  \/ CloseConsumerWakes(c)

(* What it may do besides: new calls, failures, the end of the process. *)
ProducerChoice(p) ==
  \/ SetupProducer(p) \/ CloseProducer(p) \/ Interrupted(p)
  \/ \E r \in Request : GetBuffer(p, r)
  \/ AddBufferFails(p) \/ GetBufferFaults(p)
  \/ \E c \in Consumers : LinkFails(p, c)

ConsumerChoice(c) ==
  SetupConsumer(c) \/ CloseConsumer(c) \/ Interrupted(c) \/ GetItem(c)

Next ==
  \/ \E p \in Producers : ProducerStep(p) \/ ProducerChoice(p)
  \/ \E c \in Consumers : ConsumerStep(c) \/ ConsumerChoice(c)

Spec == Init /\ [][Next]_vars

(* A task inside a call goes on; a mutex is granted in the order of the    *)
(* requests, hence SF for the steps that take mgr->mutex; the users fill   *)
(* and put the buffer they got, and a consumer loops over GetItem and       *)
(* PutItem until it leaves (the main loop of every service).               *)
Fairness ==
  /\ \A p \in Producers :
       /\ WF_vars(ProducerStep(p))
       /\ SF_vars(AddBuffer(p)) /\ SF_vars(PutBuffer(p))
  /\ \A c \in Consumers :
       WF_vars(ConsumerStep(c)) /\ SF_vars(pc[c] = "hold" /\ PutItem(c))
  /\ \A c \in Consumers : WF_vars(GetItem(c))

FairSpec == Spec /\ Fairness
=============================================================================
