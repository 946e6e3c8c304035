--------------------------- MODULE VmqProperties ---------------------------
(***************************************************************************)
(* What makes the queue of Vmq correct.                                    *)
(***************************************************************************)
EXTENDS Vmq

TypeOK ==
  /\ pc \in [Tasks -> ProducerPc \cup ConsumerPc]
  /\ \A p \in Producers : pc[p] \in ProducerPc
  /\ \A c \in Consumers : pc[c] \in ConsumerPc
  /\ asleep \subseteq Tasks
  /\ request \in [Producers -> Request \cup {None}]
  /\ buffer \in [Producers -> Block \cup {None}]
  /\ allocated \subseteq Block /\ buffers \subseteq Block
  /\ refcnt \in [Block -> Int]
  /\ bufItemCount \in Int
  /\ owner \in Producers \cup {None}
  /\ todo \subseteq Consumers
  /\ count \in Nat
  /\ consumers \subseteq Consumers
  /\ items \in [Consumers -> Seq(Block)]
  /\ item \in [Consumers -> Block \cup {None}]
  /\ mem \in [Page -> Msg]

Holders(b) == {c \in Consumers : b \in Held(c)}

(* A producer that has its struct VMQBuffer. *)
HasBuffer(p) == pc[p] \in {"copyout", "fill", "ready", "put"}

(***************************************************************************)
(* The state of a call and the data it works on go together.               *)
(***************************************************************************)
CallState ==
  /\ \A p \in Producers :
       /\ pc[p] \in {"limit", "alloc", "memory"} => request[p] \in Request
       /\ buffer[p] # None <=> pc[p] = "add" \/ HasBuffer(p)
       /\ owner = p <=> pc[p] = "put"
  /\ \A c \in Consumers : item[c] # None <=> pc[c] \in {"copyout", "hold"}
  /\ owner = None => todo = {} /\ count = 0

NoRepeat(q) == \A i, j \in DOMAIN q : q[i] = q[j] => i = j

(* No use after free: whatever a queue, a consumer or a producer still     *)
(* points at has its struct VMQBuffer and its pages.                       *)
ReferencesAlive ==
  /\ buffers \subseteq allocated
  /\ \A c \in Consumers : Held(c) \subseteq buffers
  /\ \A p \in Producers :
       /\ buffer[p] # None => buffer[p] \in allocated
       /\ HasBuffer(p) <=> buffer[p] \in buffers

(* unref_buffer frees at zero, whoever comes last: refcnt is the number of *)
(* consumers that hold the buffer, none of which holds it twice; while     *)
(* put_buffer_item runs, `count' of its consumers hold it and those it has *)
(* not reached do not.                                                     *)
RefCounts ==
  /\ \A b \in buffers : refcnt[b] = Cardinality(Holders(b))
  /\ \A c \in Consumers : NoRepeat(items[c]) /\ item[c] \notin Queued(c)
  /\ owner # None =>
       /\ count = Cardinality(Holders(buffer[owner]))
       /\ Holders(buffer[owner]) \cap todo = {}

(* A buffer a producer may still write belongs to it alone. *)
WriterIsAlone ==
  \A p \in Producers : buffer[p] # None =>
    /\ \A q \in Producers \ {p} : buffer[q] # buffer[p]
    /\ pc[p] # "put" => Holders(buffer[p]) = {}

(* No struct VMQBuffer is lost: it is in the hands of a producer or of a   *)
(* consumer, even when the kernel runs out of memory in between.           *)
NoBufferLost ==
  \A b \in buffers :
    Holders(b) # {} \/ \E p \in Producers : HasBuffer(p) /\ buffer[p] = b

(* No page is lost either, unless alloc_buffer_item failed: its error path *)
(* does not give the pages back.                                           *)
NoPageLost ==
  "enomem_buffer" \notin Env =>
    allocated \subseteq buffers \cup {buffer[p] : p \in Producers}

(* bufItemCount, which the limit is tested against, counts the buffers:    *)
(* every path that frees one, three of them error paths, counts it once.   *)
CountExact == IsFiniteSet(buffers) /\ bufItemCount = Cardinality(buffers)

IInv ==
  /\ TypeOK /\ CallState
  /\ ReferencesAlive /\ RefCounts /\ WriterIsAlone
  /\ NoBufferLost /\ NoPageLost /\ CountExact

(* Producers past the limit test whose buffer is not counted yet. *)
PastLimit == {p \in Producers : pc[p] \in {"alloc", "memory", "add"}}

(* The test of maxItemCount takes no lock, so the limit may be overrun,    *)
(* but by no more than one buffer for every other producer.                *)
OvershootBound ==
  MaxItemCount > 0 =>
    bufItemCount + Cardinality(PastLimit)
      <= MaxItemCount + Cardinality(Producers) - 1

(* A producer asleep on b_wq is woken some day. *)
SleepersWoken ==
  \A p \in Producers : p \in asleep ~> p \notin asleep

(* What is queued for a resident consumer is in its hands some day. *)
Delivered ==
  \A c \in Residents, b \in Block : b \in Queued(c) ~> item[c] = b

----------------------------------------------------------------------------
(* Refinement: the queue a user sees.  A buffer is published when          *)
(* put_buffer_item gets the mutex; from then on it is in the queue of      *)
(* every consumer, those the loop has not reached included.                *)

Content(b) ==
  LET values == {mem[g] : g \in PagesOf[b]}
  IN  IF Cardinality(values) = 1 THEN CHOOSE m \in values : TRUE ELSE None

UserQueue(c) ==
  [i \in DOMAIN items[c] |-> Content(items[c][i])]
    \o (IF c \in todo THEN <<Content(buffer[owner])>> ELSE << >>)

UserItem(c) == IF item[c] = None THEN None ELSE Content(item[c])

Multicast == INSTANCE MulticastQueue WITH
  sub <- consumers,
  queue <- [c \in Consumers |-> UserQueue(c)],
  taken <- [c \in Consumers |-> UserItem(c)],
  Lossy <- "enomem_item" \in Env

(* Every message published reaches every consumer subscribed, in the same  *)
(* order, and stays as written until given back, although it is never      *)
(* copied: nobody's pages are reused while somebody can read them.         *)
MulticastSpec == Multicast!Spec
=============================================================================
