----------------------------- MODULE VmqProofs -----------------------------
(***************************************************************************)
(* Proofs about the driver of the queues.                                  *)
(*                                                                         *)
(* Vmq: memory safety, the limit, and that it implements MulticastQueue,   *)
(* for every set of producers and consumers, every geometry of blocks,     *)
(* every limit and every environment.                                      *)
(*                                                                         *)
(* Balloc, in the second half: the bitmap is a tiling of the segment, and  *)
(* the allocator implements BlockAllocator, for segments of every size.    *)
(***************************************************************************)
EXTENDS VmqProperties, Balloc, DataProofs, FiniteSetTheorems

LEMMA TaskFacts ==
  /\ \A p \in Producers : p \in Tasks /\ p \notin Consumers
  /\ \A c \in Consumers : c \in Tasks /\ c \notin Producers
  /\ None \notin Block /\ None \notin Producers
BY VmqAssumption DEF Tasks

(* The set of elements of a queue, after list_add_tail and list_del. *)
LEMMA AppendFacts ==
  ASSUME NEW q \in Seq(Block), NEW b \in Block
  PROVE  /\ Append(q, b) \in Seq(Block)
         /\ SeqSet(Append(q, b)) = SeqSet(q) \cup {b}
         /\ NoRepeat(q) /\ b \notin SeqSet(q) => NoRepeat(Append(q, b))
<1>1. /\ Append(q, b) \in Seq(Block)
      /\ Len(Append(q, b)) = Len(q) + 1
      /\ \A i \in 1 .. Len(q) : Append(q, b)[i] = q[i]
      /\ Append(q, b)[Len(q) + 1] = b
      /\ Len(q) \in Nat
  OBVIOUS
<1>2. DOMAIN q = 1 .. Len(q) /\ DOMAIN Append(q, b) = 1 .. Len(q) + 1
  BY <1>1
<1>3. \A i \in 1 .. Len(q) + 1 : i \in 1 .. Len(q) \/ i = Len(q) + 1
  BY <1>1
<1>4. 1 .. Len(q) \subseteq 1 .. Len(q) + 1 /\ Len(q) + 1 \in 1 .. Len(q) + 1
  BY <1>1
<1>5. SeqSet(Append(q, b)) = SeqSet(q) \cup {b}
  BY <1>1, <1>2, <1>3, <1>4, Zenon DEF SeqSet
<1>6. ASSUME NoRepeat(q), b \notin SeqSet(q)  PROVE NoRepeat(Append(q, b))
  BY <1>1, <1>2, <1>3, <1>6 DEF SeqSet, NoRepeat
<1> QED BY <1>1, <1>5, <1>6

LEMMA TailFacts ==
  ASSUME NEW q \in Seq(Block), q # << >>
  PROVE  /\ Head(q) \in Block /\ Tail(q) \in Seq(Block)
         /\ SeqSet(q) = SeqSet(Tail(q)) \cup {Head(q)}
         /\ NoRepeat(q) => NoRepeat(Tail(q)) /\ Head(q) \notin SeqSet(Tail(q))
<1>1. /\ Len(q) \in Nat \ {0}
      /\ Head(q) = q[1] /\ Head(q) \in Block
      /\ Tail(q) \in Seq(Block)
      /\ Len(Tail(q)) = Len(q) - 1
      /\ \A i \in 1 .. Len(q) - 1 : Tail(q)[i] = q[i + 1]
  OBVIOUS
<1>2. DOMAIN q = 1 .. Len(q) /\ DOMAIN Tail(q) = 1 .. Len(q) - 1
  BY <1>1
<1>3. /\ \A i \in 1 .. Len(q) : i = 1 \/ i - 1 \in 1 .. Len(q) - 1
      /\ \A i \in 1 .. Len(q) - 1 : i + 1 \in 1 .. Len(q) /\ i + 1 # 1
      /\ 1 \in 1 .. Len(q)
  BY <1>1
<1>4. \A i \in 1 .. Len(q) : i # 1 => q[i] = Tail(q)[i - 1]
  BY <1>1, <1>3
<1>5. ASSUME NEW i \in DOMAIN q
      PROVE  q[i] \in SeqSet(Tail(q)) \cup {Head(q)}
  <2>1. CASE i = 1
    BY <1>1, <2>1
  <2>2. CASE i # 1
    <3>1. q[i] = Tail(q)[i - 1] /\ i - 1 \in DOMAIN Tail(q)
      BY <1>2, <1>3, <1>4, <1>5, <2>2
    <3> QED BY <3>1 DEF SeqSet
  <2> QED BY <2>1, <2>2
<1>6. SeqSet(Tail(q)) \cup {Head(q)} \subseteq SeqSet(q)
  BY <1>1, <1>2, <1>3 DEF SeqSet
<1>7. ASSUME NoRepeat(q)
      PROVE  NoRepeat(Tail(q)) /\ Head(q) \notin SeqSet(Tail(q))
  BY <1>1, <1>2, <1>3, <1>7 DEF SeqSet, NoRepeat
<1>8. SeqSet(q) = SeqSet(Tail(q)) \cup {Head(q)}
  BY <1>5, <1>6 DEF SeqSet
<1> QED BY <1>1, <1>7, <1>8

----------------------------------------------------------------------------
(* Typing, and the link between the state of a call and its data. *)

LEMMA InitTyped == Init => TypeOK /\ CallState
<1> SUFFICES ASSUME Init PROVE TypeOK /\ CallState
  OBVIOUS
<1>1. TypeOK
  BY TaskFacts, VmqAssumption
  DEF Init, TypeOK, ProducerPc, ConsumerPc, Tasks
<1>2. CallState
  BY TaskFacts, VmqAssumption DEF Init, CallState, HasBuffer
<1> QED BY <1>1, <1>2

LEMMA WaitTyped ==
  ASSUME TypeOK, CallState, NEW t \in Tasks, Sleep(t) \/ Interrupted(t)
  PROVE  TypeOK' /\ CallState'
<1> USE TaskFacts DEF TypeOK, CallState, HasBuffer, Goto, ProducerPc, ConsumerPc,
        pvars, bvars, lvars, cvars
<1>1. CASE Sleep(t)
  BY <1>1 DEF Sleep
<1>2. CASE Interrupted(t)
  <2>1. pc[t] \in {"limit", "memory", "get"}
    BY <1>2 DEF Interrupted, Blocked
  <2>2. TypeOK'
    BY <1>2, <2>1 DEF Interrupted
  <2>3. CallState'
    BY <1>2, <2>1 DEF Interrupted
  <2> QED BY <2>2, <2>3
<1> QED BY <1>1, <1>2

LEMMA OneBuffer == \A b : Cardinality({b}) = 1
BY FS_Singleton

LEMMA ProducerTyped ==
  ASSUME TypeOK, CallState, NEW p \in Producers,
         ProducerStep(p) \/ ProducerChoice(p)
  PROVE  TypeOK' /\ CallState'
<1> USE TaskFacts DEF TypeOK, CallState, HasBuffer, Goto, ProducerPc, ConsumerPc,
        pvars, bvars, lvars, cvars, tvars
<1>1. CASE Sleep(p) \/ Interrupted(p)
  BY <1>1, WaitTyped
<1>2. CASE LimitPassed(p)
  BY <1>2 DEF LimitPassed
<1>3. CASE AllocPages(p)
  BY <1>3, BlocksAssumption DEF AllocPages, Candidates
<1>4. CASE AllocFails(p)
  BY <1>4 DEF AllocFails
<1>5. CASE AddBuffer(p)
  BY <1>5 DEF AddBuffer
<1>6. CASE GetBufferReturns(p)
  BY <1>6 DEF GetBufferReturns
<1>7. CASE \E m \in Msg : Fill(p, m)
  BY <1>7 DEF Fill
<1>8. CASE PutBuffer(p)
  BY <1>8 DEF PutBuffer, MutexFree
<1>9. CASE PutBufferReturns(p)
  <2>1. CASE NobodyLinked
    <3>1. RemoveBuffers({buffer[p]}) /\ UNCHANGED asleep
      BY <1>9, <2>1 DEF PutBufferReturns
    <3>2. TypeOK'
      BY <1>9, <3>1, OneBuffer DEF PutBufferReturns, RemoveBuffers
    <3>3. CallState'
      BY <1>9, <3>1 DEF PutBufferReturns
    <3> QED BY <3>2, <3>3
  <2>2. CASE ~NobodyLinked
    BY <1>9, <2>2 DEF PutBufferReturns, WakeQ
  <2> QED BY <2>1, <2>2
<1>10. CASE \E c \in Consumers : Link(p, c)
  BY <1>10, AppendFacts DEF Link, ListAddTail
<1>11. CASE SetupProducer(p)
  BY <1>11 DEF SetupProducer
<1>12. CASE CloseProducer(p)
  <2>1. CASE buffer[p] # None
    <3>1. RemoveBuffers({buffer[p]})
      BY <1>12, <2>1 DEF CloseProducer
    <3>2. TypeOK'
      BY <1>12, <3>1, OneBuffer DEF CloseProducer, RemoveBuffers
    <3>3. CallState'
      BY <1>12 DEF CloseProducer
    <3> QED BY <3>2, <3>3
  <2>2. CASE buffer[p] = None
    BY <1>12, <2>2 DEF CloseProducer
  <2> QED BY <2>1, <2>2
<1>13. CASE \E r \in Request : GetBuffer(p, r)
  BY <1>13 DEF GetBuffer
<1>14. CASE AddBufferFails(p)
  BY <1>14 DEF AddBufferFails
<1>15. CASE GetBufferFaults(p)
  BY <1>15 DEF GetBufferFaults, RemoveBuffers
<1>16. CASE \E c \in Consumers : LinkFails(p, c)
  BY <1>16 DEF LinkFails
<1> QED
  BY <1>1, <1>2, <1>3, <1>4, <1>5, <1>6, <1>7, <1>8, <1>9, <1>10, <1>11, <1>12,
     <1>13, <1>14, <1>15, <1>16 DEF ProducerStep, ProducerChoice

LEMMA ConsumerTyped ==
  ASSUME TypeOK, CallState, NEW c \in Consumers,
         ConsumerStep(c) \/ ConsumerChoice(c)
  PROVE  TypeOK' /\ CallState'
<1> USE TaskFacts DEF TypeOK, CallState, HasBuffer, Goto, ProducerPc, ConsumerPc,
        pvars, bvars, lvars, cvars
<1>1. CASE Sleep(c) \/ Interrupted(c)
  BY <1>1, WaitTyped
<1>2. CASE PopItem(c)
  BY <1>2, TailFacts DEF PopItem
<1>3. CASE GetItemReturns(c)
  BY <1>3 DEF GetItemReturns
<1>4. CASE PutItem(c)
  BY <1>4 DEF PutItem, Unref, RemoveBuffers, WakeB
<1>5. CASE CloseConsumerWakes(c)
  BY <1>5 DEF CloseConsumerWakes, WakeB
<1>6. CASE SetupConsumer(c)
  BY <1>6 DEF SetupConsumer
<1>7. CASE CloseConsumer(c)
  BY <1>7 DEF CloseConsumer, Unref, RemoveBuffers
<1>8. CASE GetItem(c)
  BY <1>8 DEF GetItem
<1> QED
  BY <1>1, <1>2, <1>3, <1>4, <1>5, <1>6, <1>7, <1>8
  DEF ConsumerStep, ConsumerChoice

LEMMA TypedStep ==
  ASSUME TypeOK, CallState, [Next]_vars
  PROVE  TypeOK' /\ CallState'
<1>1. CASE Next
  BY <1>1, ProducerTyped, ConsumerTyped DEF Next
<1>2. CASE UNCHANGED vars
  BY <1>2 DEF vars, tvars, pvars, bvars, lvars, cvars, TypeOK, CallState, HasBuffer
<1> QED BY <1>1, <1>2

(* Every variable keeps its type, and the state of every call matches its  *)
(* data: a task never reaches put_buffer_item or put_queue_item without    *)
(* the buffer or the item those functions dereference.                     *)
THEOREM TypeCorrect == Spec => [](TypeOK /\ CallState)
<1>1. Init => TypeOK /\ CallState
  BY InitTyped
<1>2. TypeOK /\ CallState /\ [Next]_vars => (TypeOK /\ CallState)'
  BY TypedStep
<1> QED BY <1>1, <1>2, PTL DEF Spec

----------------------------------------------------------------------------
(* Memory safety. *)

LEMMA HolderFacts ==
  \A b : Holders(b) \subseteq Consumers /\ IsFiniteSet(Holders(b))
BY VmqAssumption, FS_Subset DEF Holders

Memory ==
  /\ ReferencesAlive /\ RefCounts /\ WriterIsAlone
  /\ NoBufferLost /\ NoPageLost /\ CountExact

LEMMA InitMemory == Init => Memory
<1> SUFFICES ASSUME Init PROVE Memory
  OBVIOUS
<1>1. \A c \in Consumers : items[c] = << >> /\ item[c] = None
  BY DEF Init
<1>2. \A c \in Consumers : Queued(c) = {} /\ Held(c) = {} /\ NoRepeat(items[c])
  BY <1>1 DEF Queued, SeqSet, Held, NoRepeat
<1>3. Cardinality({}) = 0 /\ IsFiniteSet({})
  BY FS_EmptySet
<1>4. /\ buffers = {} /\ allocated = {} /\ bufItemCount = 0 /\ owner = None
      /\ \A p \in Producers : buffer[p] = None /\ pc[p] \in {"idle", "closed"}
  BY TaskFacts, VmqAssumption DEF Init, Tasks
<1> QED
  BY <1>2, <1>3, <1>4 DEF Memory, ReferencesAlive, RefCounts, WriterIsAlone,
     NoBufferLost, NoPageLost, CountExact, HasBuffer

(* Steps that move no buffer: from one state of a call to the next. *)
LEMMA QuietMemory ==
  ASSUME TypeOK, CallState, Memory, TypeOK', CallState',
         UNCHANGED <<buffer, bvars, owner, count, items, item>>,
         todo' \subseteq todo,
         \A p \in Producers : HasBuffer(p)' = HasBuffer(p)
  PROVE  Memory'
<1>1. \A c : Queued(c)' = Queued(c) /\ Held(c)' = Held(c)
  BY DEF Queued, Held
<1>2. \A b : Holders(b)' = Holders(b)
  BY <1>1 DEF Holders
<1>3. \A p \in Producers : pc[p] = "put" <=> pc'[p] = "put"
  BY DEF CallState
<1>4. ReferencesAlive'
  BY <1>1 DEF Memory, ReferencesAlive, bvars
<1>5. RefCounts'
  BY <1>1, <1>2 DEF Memory, RefCounts, bvars
<1>6. WriterIsAlone'
  BY <1>2, <1>3 DEF Memory, WriterIsAlone
<1>7. NoBufferLost'
  BY <1>2 DEF Memory, NoBufferLost, bvars
<1>8. NoPageLost' /\ CountExact'
  BY DEF Memory, NoPageLost, CountExact, bvars
<1> QED BY <1>4, <1>5, <1>6, <1>7, <1>8 DEF Memory

(* A producer gives up a buffer no consumer has. *)
LEMMA DropMemory ==
  ASSUME TypeOK, CallState, Memory, TypeOK', CallState',
         NEW p \in Producers, HasBuffer(p), Holders(buffer[p]) = {},
         RemoveBuffers({buffer[p]}),
         buffer' = [buffer EXCEPT ![p] = None],
         owner' = None, UNCHANGED <<refcnt, items, item>>,
         pc'[p] \in {"idle", "closed"},
         \A q \in Producers \ {p} : pc'[q] = pc[q]
  PROVE  Memory'
<1> DEFINE b == buffer[p]
<1>1. \A c : Queued(c)' = Queued(c) /\ Held(c)' = Held(c)
  BY DEF Queued, Held
<1>2. \A x : Holders(x)' = Holders(x)
  BY <1>1 DEF Holders
<1>3. b # None /\ b \in buffers /\ ~HasBuffer(p)' /\ buffer'[p] = None
  BY DEF CallState, Memory, ReferencesAlive, HasBuffer, TypeOK
<1>4. /\ \A q \in Producers \ {p} : /\ HasBuffer(q)' = HasBuffer(q)
                                    /\ buffer'[q] = buffer[q] /\ buffer[q] # b
      /\ \A c \in Consumers : b \notin Held(c)
  BY <1>3 DEF HasBuffer, Memory, WriterIsAlone, Holders, TypeOK
<1>5. /\ buffers' = buffers \ {b} /\ allocated' = allocated \ {b}
      /\ bufItemCount' = bufItemCount - Cardinality({b})
  BY DEF RemoveBuffers
<1>6. ReferencesAlive'
  BY <1>1, <1>3, <1>4, <1>5, TaskFacts DEF Memory, ReferencesAlive, TypeOK
<1>7. RefCounts'
  BY <1>1, <1>2, <1>5 DEF Memory, RefCounts
<1>8. WriterIsAlone'
  BY <1>2, <1>3, <1>4 DEF Memory, WriterIsAlone
<1>9. NoBufferLost'
  BY <1>2, <1>3, <1>4, <1>5 DEF Memory, NoBufferLost
<1>10. NoPageLost'
  <2> SUFFICES ASSUME "enomem_buffer" \notin Env, NEW x \in allocated'
               PROVE  x \in buffers' \/ \E q \in Producers : x = buffer'[q]
    BY DEF NoPageLost
  <2>1. x \in buffers \/ \E q \in Producers : x = buffer[q]
    BY <1>5 DEF Memory, NoPageLost
  <2> QED BY <2>1, <1>4, <1>5
<1>11. CountExact'
  BY <1>3, <1>5, ZenonT(60), OneBuffer, FS_RemoveElement DEF Memory, CountExact, TypeOK
<1> QED BY <1>6, <1>7, <1>8, <1>9, <1>10, <1>11 DEF Memory

LEMMA AllocMemory ==
  ASSUME TypeOK, CallState, Memory, TypeOK', CallState',
         NEW p \in Producers, AllocPages(p)
  PROVE  Memory'
<1>1. PICK b \in Candidates(request[p], allocated) :
        /\ allocated' = allocated \cup {b}
        /\ buffer' = [buffer EXCEPT ![p] = b]
  BY DEF AllocPages
<1>2. b \in Block /\ b \notin allocated
  <2>1. request[p] \in Request
    BY DEF AllocPages, CallState
  <2>2. b \in Block /\ PagesOf[b] # {}
    BY <1>1, <2>1, BlocksAssumption DEF Candidates
  <2>3. Overlap(b, b)
    BY <2>2 DEF Overlap
  <2> QED BY <1>1, <2>2, <2>3 DEF Candidates
<1>3. /\ UNCHANGED <<buffers, refcnt, bufItemCount, lvars, cvars>>
      /\ pc'[p] = "add" /\ buffer'[p] = b /\ buffer[p] = None
      /\ pc[p] # "put" /\ ~HasBuffer(p) /\ ~HasBuffer(p)'
      /\ \A q \in Producers \ {p} : pc'[q] = pc[q] /\ buffer'[q] = buffer[q]
  BY <1>1, TaskFacts DEF AllocPages, Goto, TypeOK, CallState, HasBuffer
<1>4. \A q \in Producers \ {p} : HasBuffer(q)' = HasBuffer(q)
  BY <1>3 DEF HasBuffer
<1>5. \A c : Queued(c)' = Queued(c) /\ Held(c)' = Held(c)
  BY <1>3 DEF Queued, Held, cvars
<1>6. \A x : Holders(x)' = Holders(x)
  BY <1>5 DEF Holders
<1>7. b \notin buffers /\ Holders(b) = {}
  BY <1>2 DEF Memory, ReferencesAlive, Holders
<1>8. \A q \in Producers : buffer[q] # None => buffer[q] # b
  BY <1>2 DEF Memory, ReferencesAlive
<1>9. ReferencesAlive'
  BY <1>1, <1>3, <1>4, <1>5, <1>7 DEF Memory, ReferencesAlive
<1>10. RefCounts'
  <2>1. owner # None => buffer'[owner] = buffer[owner]
    BY <1>3 DEF CallState, TypeOK
  <2> QED
    BY <2>1, <1>3, <1>5, <1>6 DEF Memory, RefCounts, lvars, cvars
<1>11. WriterIsAlone'
  BY <1>2, <1>3, <1>6, <1>7, <1>8 DEF Memory, WriterIsAlone
<1>12. NoBufferLost'
  BY <1>3, <1>4, <1>6 DEF Memory, NoBufferLost
<1>13. NoPageLost'
  <2> SUFFICES ASSUME "enomem_buffer" \notin Env, NEW x \in allocated'
               PROVE  x \in buffers' \/ \E q \in Producers : x = buffer'[q]
    BY DEF NoPageLost
  <2>1. CASE x = b
    BY <2>1, <1>3
  <2>2. CASE x # b
    <3>1. x \in allocated /\ x \in Block
      BY <1>1, <2>2 DEF TypeOK
    <3>2. x \in buffers \/ \E q \in Producers : x = buffer[q]
      BY <3>1 DEF Memory, NoPageLost
    <3> QED BY <3>1, <3>2, <1>3, TaskFacts
  <2> QED BY <2>1, <2>2
<1>14. CountExact'
  BY <1>3 DEF Memory, CountExact
<1> QED BY <1>9, <1>10, <1>11, <1>12, <1>13, <1>14 DEF Memory

LEMMA AddMemory ==
  ASSUME TypeOK, CallState, Memory, TypeOK', CallState',
         NEW p \in Producers, AddBuffer(p)
  PROVE  Memory'
<1> DEFINE b == buffer[p]
<1>0. /\ owner = None /\ pc[p] = "add" /\ pc'[p] = "copyout"
      /\ ~HasBuffer(p) /\ HasBuffer(p)'
      /\ buffers' = buffers \cup {b} /\ bufItemCount' = bufItemCount + 1
      /\ refcnt' = [refcnt EXCEPT ![b] = 0]
      /\ UNCHANGED <<pvars, allocated, lvars, cvars>>
  BY TaskFacts DEF AddBuffer, MutexFree, Goto, TypeOK, HasBuffer
<1>1. /\ b # None /\ b \in Block /\ b \in allocated /\ b \notin buffers
      /\ refcnt'[b] = 0 /\ \A x \in Block \ {b} : refcnt'[x] = refcnt[x]
  BY <1>0 DEF TypeOK, CallState, Memory, ReferencesAlive
<1>2. /\ \A q \in Producers \ {p} : /\ HasBuffer(q)' = HasBuffer(q)
                                    /\ pc'[q] = pc[q] /\ buffer[q] # b
      /\ UNCHANGED <<buffer, owner, items, item>>
  BY <1>0, <1>1, TaskFacts DEF AddBuffer, Goto, TypeOK, HasBuffer, Memory, WriterIsAlone,
     pvars, lvars, cvars
<1>3. \A c : Queued(c)' = Queued(c) /\ Held(c)' = Held(c)
  BY <1>2 DEF Queued, Held
<1>4. \A x : Holders(x)' = Holders(x)
  BY <1>3 DEF Holders
<1>5. Holders(b) = {}
  BY <1>0, <1>1 DEF Memory, WriterIsAlone
<1>6. ReferencesAlive'
  BY <1>0, <1>1, <1>2, <1>3 DEF Memory, ReferencesAlive
<1>7. RefCounts'
  BY <1>0, <1>1, <1>2, <1>3, <1>4, <1>5, FS_EmptySet DEF Memory, RefCounts, TypeOK
<1>8. WriterIsAlone'
  BY <1>0, <1>1, <1>2, <1>4, <1>5 DEF Memory, WriterIsAlone
<1>9. NoBufferLost'
  BY <1>0, <1>1, <1>2, <1>4 DEF Memory, NoBufferLost
<1>10. NoPageLost'
  BY <1>0, <1>1, <1>2 DEF Memory, NoPageLost
<1>11. CountExact'
  BY <1>0, <1>1, FS_AddElement DEF Memory, CountExact
<1> QED BY <1>6, <1>7, <1>8, <1>9, <1>10, <1>11 DEF Memory

LEMMA AddFailsMemory ==
  ASSUME TypeOK, CallState, Memory, TypeOK', CallState',
         NEW p \in Producers, AddBufferFails(p)
  PROVE  Memory'
<1>1. /\ "enomem_buffer" \in Env /\ owner = None
      /\ ~HasBuffer(p) /\ ~HasBuffer(p)' /\ buffer'[p] = None
      /\ \A q \in Producers \ {p} : /\ HasBuffer(q)' = HasBuffer(q)
                                    /\ pc'[q] = pc[q] /\ buffer'[q] = buffer[q]
      /\ UNCHANGED <<bvars, lvars, cvars>>
  BY TaskFacts DEF AddBufferFails, MutexFree, Goto, TypeOK, CallState, HasBuffer
<1>2. \A c : Queued(c)' = Queued(c) /\ Held(c)' = Held(c)
  BY <1>1 DEF Queued, Held, cvars
<1>3. \A x : Holders(x)' = Holders(x)
  BY <1>2 DEF Holders
<1>4. UNCHANGED <<allocated, buffers, refcnt, bufItemCount, owner, items, item>>
  BY <1>1 DEF bvars, lvars, cvars
<1>5. ReferencesAlive'
  BY <1>1, <1>2, <1>4, TaskFacts DEF Memory, ReferencesAlive, TypeOK
<1>6. RefCounts' /\ WriterIsAlone' /\ NoBufferLost'
  BY <1>1, <1>2, <1>3, <1>4 DEF Memory, RefCounts, WriterIsAlone, NoBufferLost
<1>7. NoPageLost' /\ CountExact'
  BY <1>1, <1>4 DEF Memory, NoPageLost, CountExact
<1> QED BY <1>5, <1>6, <1>7 DEF Memory

LEMMA PutMemory ==
  ASSUME TypeOK, CallState, Memory, TypeOK', CallState',
         NEW p \in Producers, PutBuffer(p)
  PROVE  Memory'
<1>1. /\ owner = None /\ owner' = p /\ count' = 0
      /\ HasBuffer(p) /\ HasBuffer(p)' /\ pc'[p] = "put" /\ pc[p] # "put"
      /\ \A q \in Producers \ {p} : pc'[q] = pc[q] /\ HasBuffer(q)' = HasBuffer(q)
      /\ UNCHANGED <<buffer, allocated, buffers, refcnt, bufItemCount, items, item>>
  BY TaskFacts DEF PutBuffer, MutexFree, Goto, TypeOK, HasBuffer, pvars, bvars, cvars
<1>2. \A c : Queued(c)' = Queued(c) /\ Held(c)' = Held(c)
  BY <1>1 DEF Queued, Held
<1>3. \A x : Holders(x)' = Holders(x)
  BY <1>2 DEF Holders
<1>4. buffer[p] # None /\ Holders(buffer[p]) = {}
  BY <1>1 DEF CallState, Memory, WriterIsAlone
<1>5. ReferencesAlive' /\ WriterIsAlone' /\ NoBufferLost'
  BY <1>1, <1>2, <1>3 DEF Memory, ReferencesAlive, WriterIsAlone, NoBufferLost
<1>6. RefCounts'
  BY <1>1, <1>2, <1>3, <1>4, FS_EmptySet DEF Memory, RefCounts
<1>7. NoPageLost' /\ CountExact'
  BY <1>1 DEF Memory, NoPageLost, CountExact
<1> QED BY <1>5, <1>6, <1>7 DEF Memory

LEMMA LinkMemory ==
  ASSUME TypeOK, CallState, Memory, TypeOK', CallState',
         NEW p \in Producers, NEW c \in Consumers, Link(p, c)
  PROVE  Memory'
<1> DEFINE b == buffer[p]
<1>1. /\ owner = p /\ owner' = p /\ c \in todo /\ todo' = todo \ {c}
      /\ count' = count + 1
      /\ refcnt' = [refcnt EXCEPT ![b] = @ + 1]
      /\ items' = [items EXCEPT ![c] = Append(@, b)]
      /\ UNCHANGED <<pc, buffer, allocated, buffers, bufItemCount, item>>
  BY DEF Link, ListAddTail, tvars, pvars
<1>2. pc[p] = "put" /\ HasBuffer(p) /\ b \in buffers /\ b \in Block /\ b # None
  BY <1>1, TaskFacts DEF CallState, HasBuffer, Memory, ReferencesAlive, TypeOK
<1>3. b \notin Held(c) /\ Holders(b) \cap todo = {} /\ count = Cardinality(Holders(b))
  BY <1>1, TaskFacts DEF Memory, RefCounts, Holders
<1>4. b \notin Queued(c) /\ item[c] # b
  BY <1>2, <1>3 DEF Held
<1>5. /\ items'[c] = Append(items[c], b)
      /\ NoRepeat(items'[c]) /\ Queued(c)' = Queued(c) \cup {b}
  BY <1>1, <1>2, <1>4, AppendFacts DEF Queued, TypeOK, Memory, RefCounts
<1>6. Held(c)' = Held(c) \cup {b}
  BY <1>1, <1>5 DEF Held
<1>7. \A d \in Consumers \ {c} :
        items'[d] = items[d] /\ Queued(d)' = Queued(d) /\ Held(d)' = Held(d)
  BY <1>1 DEF TypeOK, Queued, Held
<1>8. /\ Holders(b)' = Holders(b) \cup {c} /\ c \notin Holders(b)
      /\ \A x : x # b => Holders(x)' = Holders(x)
  BY <1>1, <1>3, <1>6, <1>7 DEF Holders
<1>9. Cardinality(Holders(b)') = Cardinality(Holders(b)) + 1
  BY <1>8, HolderFacts, FS_AddElement
<1>10. \A q \in Producers : HasBuffer(q)' = HasBuffer(q)
  BY <1>1 DEF HasBuffer
<1>11. ReferencesAlive'
  BY <1>1, <1>2, <1>6, <1>7, <1>10 DEF Memory, ReferencesAlive
<1>12. RefCounts'
  <2>1. \A x \in buffers' : refcnt'[x] = Cardinality(Holders(x)')
    BY <1>1, <1>2, <1>8, <1>9 DEF Memory, RefCounts, TypeOK
  <2>2. \A d \in Consumers : NoRepeat(items'[d]) /\ item'[d] \notin Queued(d)'
    BY <1>1, <1>4, <1>5, <1>7 DEF Memory, RefCounts
  <2>3. count' = Cardinality(Holders(b)') /\ Holders(b)' \cap todo' = {}
    BY <1>1, <1>3, <1>8, <1>9
  <2> QED BY <1>1, <2>1, <2>2, <2>3 DEF RefCounts
<1>13. WriterIsAlone'
  BY <1>1, <1>2, <1>8 DEF Memory, WriterIsAlone
<1>14. NoBufferLost'
  BY <1>1, <1>8, <1>10 DEF Memory, NoBufferLost
<1>15. NoPageLost' /\ CountExact'
  BY <1>1 DEF Memory, NoPageLost, CountExact
<1> QED BY <1>11, <1>12, <1>13, <1>14, <1>15 DEF Memory

LEMMA PutReturnsMemory ==
  ASSUME TypeOK, CallState, Memory, TypeOK', CallState',
         NEW p \in Producers, PutBufferReturns(p)
  PROVE  Memory'
<1>1. /\ owner = p /\ owner' = None /\ todo = {}
      /\ buffer' = [buffer EXCEPT ![p] = None]
      /\ pc' = [pc EXCEPT ![p] = "idle"]
      /\ UNCHANGED <<refcnt, items, item>>
  BY DEF PutBufferReturns, Goto, cvars
<1>2. pc[p] = "put" /\ HasBuffer(p) /\ pc'[p] = "idle"
  BY <1>1, TaskFacts DEF CallState, HasBuffer, TypeOK
<1>3. \A q \in Producers \ {p} : pc'[q] = pc[q] /\ HasBuffer(q)' = HasBuffer(q)
  BY <1>1, TaskFacts DEF TypeOK, HasBuffer
<1>4. count = Cardinality(Holders(buffer[p]))
  BY <1>1, TaskFacts DEF Memory, RefCounts
<1>5. CASE NobodyLinked
  <2>1. RemoveBuffers({buffer[p]})
    BY <1>5 DEF PutBufferReturns
  <2>2. Holders(buffer[p]) = {}
    BY <1>4, <1>5, HolderFacts, FS_EmptySet DEF NobodyLinked
  <2> QED BY <1>1, <1>2, <1>3, <2>1, <2>2, DropMemory
<1>6. CASE ~NobodyLinked
  <2>1. UNCHANGED <<allocated, buffers, bufItemCount>>
    BY <1>6 DEF PutBufferReturns
  <2>2. Holders(buffer[p]) # {}
    BY <1>4, <1>6, FS_EmptySet DEF NobodyLinked
  <2>3. \A c : Queued(c)' = Queued(c) /\ Held(c)' = Held(c)
    BY <1>1 DEF Queued, Held
  <2>4. \A x : Holders(x)' = Holders(x)
    BY <2>3 DEF Holders
  <2>5. /\ ~HasBuffer(p)' /\ buffer'[p] = None
        /\ \A q \in Producers \ {p} : buffer'[q] = buffer[q]
    BY <1>1, <1>2 DEF HasBuffer, TypeOK
  <2>6. buffer[p] \in buffers
    BY <1>2 DEF Memory, ReferencesAlive
  <2>7. ReferencesAlive'
    BY <1>3, <2>1, <2>3, <2>5, TaskFacts DEF Memory, ReferencesAlive, TypeOK
  <2>11. WriterIsAlone'
    BY <1>3, <2>4, <2>5 DEF Memory, WriterIsAlone
  <2>12. NoBufferLost'
    BY <1>3, <2>1, <2>2, <2>4, <2>5 DEF Memory, NoBufferLost
  <2>8. RefCounts'
    BY <1>1, <2>1, <2>3, <2>4 DEF Memory, RefCounts
  <2>9. NoPageLost'
    <3> SUFFICES ASSUME "enomem_buffer" \notin Env, NEW x \in allocated'
                 PROVE  x \in buffers' \/ \E q \in Producers : x = buffer'[q]
      BY DEF NoPageLost
    <3>1. x \in buffers \/ \E q \in Producers : x = buffer[q]
      BY <2>1 DEF Memory, NoPageLost
    <3> QED BY <3>1, <2>1, <2>5, <2>6
  <2>10. CountExact'
    BY <2>1 DEF Memory, CountExact
  <2> QED BY <2>7, <2>8, <2>9, <2>10, <2>11, <2>12 DEF Memory
<1> QED BY <1>5, <1>6

LEMMA PopMemory ==
  ASSUME TypeOK, CallState, Memory, TypeOK', CallState',
         NEW c \in Consumers, PopItem(c)
  PROVE  Memory'
<1>1. /\ items[c] # << >> /\ item[c] = None
      /\ item' = [item EXCEPT ![c] = Head(items[c])]
      /\ items' = [items EXCEPT ![c] = Tail(@)]
      /\ UNCHANGED <<buffer, bvars, lvars>>
  BY DEF PopItem, CallState, pvars
<1>2. \A p \in Producers : HasBuffer(p)' = HasBuffer(p) /\ pc'[p] = pc[p]
  BY TaskFacts DEF PopItem, Goto, HasBuffer, TypeOK
<1>3. /\ items'[c] = Tail(items[c]) /\ item'[c] = Head(items[c])
      /\ \A d \in Consumers \ {c} : items'[d] = items[d] /\ item'[d] = item[d]
  BY <1>1 DEF TypeOK
<1>4. /\ Queued(c) = Queued(c)' \cup {item'[c]}
      /\ NoRepeat(items'[c]) /\ item'[c] \notin Queued(c)' /\ item'[c] \in Block
  BY <1>1, <1>3, TailFacts DEF Queued, TypeOK, Memory, RefCounts
<1>5. \A d \in Consumers : Held(d)' = Held(d)
  BY <1>1, <1>3, <1>4, TaskFacts DEF Held, Queued
<1>6. \A x : Holders(x)' = Holders(x)
  BY <1>5 DEF Holders
<1>7. UNCHANGED <<allocated, buffers, refcnt, bufItemCount, owner, todo, count>>
  BY <1>1 DEF bvars, lvars
<1>8. ReferencesAlive' /\ WriterIsAlone' /\ NoBufferLost'
  BY <1>1, <1>2, <1>5, <1>6, <1>7
  DEF Memory, ReferencesAlive, WriterIsAlone, NoBufferLost
<1>9. RefCounts'
  BY <1>1, <1>3, <1>4, <1>6, <1>7 DEF Memory, RefCounts, Queued
<1>10. NoPageLost' /\ CountExact'
  BY <1>1, <1>7 DEF Memory, NoPageLost, CountExact
<1> QED BY <1>8, <1>9, <1>10 DEF Memory

(* A consumer gives back some of what it holds; the buffers it was the     *)
(* last to hold are freed.                                                 *)
LEMMA ReleaseMemory ==
  ASSUME TypeOK, CallState, Memory, TypeOK', CallState',
         NEW c \in Consumers, NEW refs \in SUBSET Held(c), Unref(refs),
         MutexFree, UNCHANGED <<buffer, owner, count, todo>>,
         \A p \in Producers : pc'[p] = pc[p],
         \A d \in Consumers \ {c} : items'[d] = items[d] /\ item'[d] = item[d],
         NoRepeat(items'[c]), item'[c] = None, Held(c)' = Held(c) \ refs
  PROVE  Memory'
<1> DEFINE gone == LastRefs(refs)
<1>1. /\ buffers' = buffers \ gone /\ allocated' = allocated \ gone
      /\ bufItemCount' = bufItemCount - Cardinality(gone)
      /\ refcnt' = [x \in Block |-> IF x \in refs THEN refcnt[x] - 1 ELSE refcnt[x]]
  BY DEF Unref, RemoveBuffers
<1>2. refs \subseteq buffers /\ gone \subseteq refs
  BY DEF Memory, ReferencesAlive, LastRefs
<1>3. \A d \in Consumers \ {c} : Held(d)' = Held(d) /\ Queued(d)' = Queued(d)
  BY DEF Held, Queued
<1>4. /\ \A x \in refs : Holders(x)' = Holders(x) \ {c} /\ c \in Holders(x)
      /\ \A x : x \notin refs => Holders(x)' = Holders(x)
  <2>1. \A x \in refs : x \in Held(c) /\ x \notin Held(c)'
    OBVIOUS
  <2>2. \A x : x \notin refs => (x \in Held(c)' <=> x \in Held(c))
    OBVIOUS
  <2> QED BY <1>3, <2>1, <2>2 DEF Holders
<1>5. \A x \in buffers : refcnt[x] = Cardinality(Holders(x))
  BY DEF Memory, RefCounts
<1>6. \A x \in refs : /\ Cardinality(Holders(x)') = Cardinality(Holders(x)) - 1
                     /\ Cardinality(Holders(x)) \in Nat
  BY <1>4, HolderFacts, FS_RemoveElement, FS_CardinalityType
<1>7. \A x \in gone : Holders(x) = {c}
  <2> SUFFICES ASSUME NEW x \in gone PROVE Holders(x) = {c}
    OBVIOUS
  <2>1. Cardinality(Holders(x)) = 1 /\ c \in Holders(x)
    BY <1>2, <1>4, <1>5 DEF LastRefs
  <2>2. \E y : Holders(x) = {y}
    BY <2>1, HolderFacts, FS_Singleton
  <2> QED BY <2>1, <2>2
<1>8. /\ owner = None
      /\ \A p \in Producers : HasBuffer(p)' = HasBuffer(p) /\ pc[p] # "put"
  BY TaskFacts DEF MutexFree, HasBuffer, CallState
<1>9. \A p \in Producers : buffer[p] \notin gone
  BY <1>2, <1>7, <1>8, TaskFacts, ZenonT(60) DEF Memory, WriterIsAlone, TypeOK
<1>10. ReferencesAlive'
  <2>1. \A d \in Consumers \ {c} : Held(d) \cap gone = {}
    BY <1>7 DEF Holders
  <2>2. \A d \in Consumers : Held(d)' \subseteq buffers'
    BY <1>1, <1>2, <1>3, <2>1 DEF Memory, ReferencesAlive
  <2> QED BY <1>1, <1>8, <1>9, <2>2 DEF Memory, ReferencesAlive
<1>11. RefCounts'
  <2>1. \A x \in buffers' : refcnt'[x] = Cardinality(Holders(x)')
    BY <1>1, <1>4, <1>5, <1>6 DEF TypeOK
  <2>2. \A d \in Consumers : NoRepeat(items'[d]) /\ item'[d] \notin Queued(d)'
    <3>1. Queued(c)' \subseteq Block
      <4>1. items'[c] \in Seq(Block)
        BY DEF TypeOK
      <4> QED BY <4>1 DEF Queued, SeqSet
    <3> QED BY <1>3, <3>1, TaskFacts DEF Memory, RefCounts
  <2> QED BY <1>8, <2>1, <2>2 DEF RefCounts
<1>12. WriterIsAlone'
  BY <1>4, <1>8 DEF Memory, WriterIsAlone
<1>13. NoBufferLost'
  <2> SUFFICES ASSUME NEW x \in buffers'
               PROVE  Holders(x)' # {} \/ \E p \in Producers :
                                            HasBuffer(p)' /\ buffer'[p] = x
    BY DEF NoBufferLost
  <2>1. CASE x \in refs
    <3>1. Cardinality(Holders(x)) # 1
      BY <1>1, <1>5, <2>1 DEF LastRefs
    <3>2. Cardinality(Holders(x)') # 0
      BY <1>6, <2>1, <3>1
    <3> QED BY <3>2, FS_EmptySet
  <2>2. CASE x \notin refs
    BY <1>1, <1>4, <1>8, <2>2 DEF Memory, NoBufferLost
  <2> QED BY <2>1, <2>2
<1>14. NoPageLost'
  BY <1>1 DEF Memory, NoPageLost
<1>15. CountExact'
  <2>1. buffers \cap gone = gone
    BY <1>2
  <2>2. /\ IsFiniteSet(buffers \ gone)
        /\ Cardinality(buffers \ gone) = Cardinality(buffers) - Cardinality(gone)
    BY <2>1, FS_Difference DEF Memory, CountExact
  <2> QED BY <1>1, <2>2 DEF Memory, CountExact
<1> QED BY <1>10, <1>11, <1>12, <1>13, <1>14, <1>15 DEF Memory

LEMMA PutItemMemory ==
  ASSUME TypeOK, CallState, Memory, TypeOK', CallState',
         NEW c \in Consumers, PutItem(c)
  PROVE  Memory'
<1>1. /\ item[c] # None /\ item[c] \in Block /\ item[c] \notin Queued(c)
      /\ NoRepeat(items[c])
  BY DEF PutItem, CallState, TypeOK, Memory, RefCounts
<1>2. /\ item'[c] = None /\ items' = items
      /\ \A d \in Consumers \ {c} : item'[d] = item[d]
      /\ \A p \in Producers : pc'[p] = pc[p]
      /\ MutexFree /\ Unref({item[c]})
      /\ UNCHANGED <<buffer, owner, count, todo>>
  BY TaskFacts DEF PutItem, Goto, TypeOK, pvars, lvars
<1>3. {item[c]} \in SUBSET Held(c) /\ Held(c)' = Held(c) \ {item[c]}
  BY <1>1, <1>2 DEF Held, Queued
<1> QED BY <1>1, <1>2, <1>3, ReleaseMemory

LEMMA CloseConsumerMemory ==
  ASSUME TypeOK, CallState, Memory, TypeOK', CallState',
         NEW c \in Consumers, CloseConsumer(c)
  PROVE  Memory'
<1>1. /\ item'[c] = None /\ items'[c] = << >>
      /\ \A d \in Consumers \ {c} : items'[d] = items[d] /\ item'[d] = item[d]
      /\ \A p \in Producers : pc'[p] = pc[p]
      /\ MutexFree /\ Unref(Held(c))
      /\ UNCHANGED <<buffer, owner, count, todo>>
  BY TaskFacts DEF CloseConsumer, Goto, TypeOK, pvars, lvars
<1>2. NoRepeat(items'[c]) /\ Held(c)' = Held(c) \ Held(c)
  BY <1>1 DEF NoRepeat, Held, Queued, SeqSet
<1> QED BY <1>1, <1>2, ReleaseMemory

LEMMA ProducerMemory ==
  ASSUME TypeOK, CallState, Memory, TypeOK', CallState',
         NEW p \in Producers, ProducerStep(p) \/ ProducerChoice(p)
  PROVE  Memory'
<1> DEFINE Quiet == /\ UNCHANGED <<buffer, bvars, owner, count, items, item>>
                    /\ todo' \subseteq todo
                    /\ \A q \in Producers : HasBuffer(q)' = HasBuffer(q)
<1>1. Quiet => Memory'
  BY QuietMemory
<1> HIDE DEF Quiet
<1>2. CASE Sleep(p) \/ LimitPassed(p) \/ AllocFails(p) \/ GetBufferReturns(p)
  BY <1>1, <1>2, TaskFacts DEF Quiet, Sleep, LimitPassed, AllocFails,
     GetBufferReturns, Goto, HasBuffer, TypeOK, pvars, lvars, cvars
<1>3. CASE Interrupted(p)
  <2>1. pc[p] \in {"limit", "memory", "get"}
    BY <1>3 DEF Interrupted, Blocked
  <2> QED BY <1>1, <1>3, <2>1, TaskFacts DEF Quiet, Interrupted, Goto, HasBuffer,
             TypeOK, lvars, cvars
<1>4. CASE SetupProducer(p) \/ \E r \in Request : GetBuffer(p, r)
  BY <1>1, <1>4, TaskFacts DEF Quiet, SetupProducer, GetBuffer, Goto, HasBuffer,
     TypeOK, pvars, lvars, cvars
<1>5. CASE \E m \in Msg : Fill(p, m)
  BY <1>1, <1>5, TaskFacts DEF Quiet, Fill, Goto, HasBuffer, TypeOK, pvars, lvars, cvars
<1>6. CASE \E c \in Consumers : LinkFails(p, c)
  BY <1>1, <1>6 DEF Quiet, LinkFails, HasBuffer, tvars, pvars, cvars
<1>7. CASE GetBufferFaults(p) \/ (CloseProducer(p) /\ buffer[p] # None)
  <2>1. pc[p] \in {"copyout", "fill", "ready"}
    BY <1>7 DEF GetBufferFaults, CloseProducer, CallState, HasBuffer
  <2>2. HasBuffer(p) /\ buffer[p] # None /\ Holders(buffer[p]) = {}
    BY <2>1 DEF HasBuffer, CallState, Memory, WriterIsAlone
  <2>3. /\ RemoveBuffers({buffer[p]}) /\ buffer' = [buffer EXCEPT ![p] = None]
        /\ owner' = None /\ UNCHANGED <<refcnt, items, item>>
        /\ pc'[p] \in {"idle", "closed"}
        /\ \A q \in Producers \ {p} : pc'[q] = pc[q]
    BY <1>7, TaskFacts DEF GetBufferFaults, CloseProducer, MutexFree, Goto, TypeOK,
       lvars, cvars
  <2> QED BY <2>2, <2>3, DropMemory
<1>8. CASE CloseProducer(p) /\ buffer[p] = None
  <2>1. pc[p] = "idle"
    BY <1>8 DEF CloseProducer, CallState, HasBuffer
  <2>2. buffer' = buffer
    BY <1>8 DEF CloseProducer, TypeOK
  <2> QED BY <1>1, <1>8, <2>1, <2>2, TaskFacts DEF Quiet, CloseProducer, Goto,
             HasBuffer, TypeOK, bvars, lvars, cvars
<1> QED
  BY <1>2, <1>3, <1>4, <1>5, <1>6, <1>7, <1>8, AllocMemory, AddMemory, AddFailsMemory,
     PutMemory, LinkMemory, PutReturnsMemory DEF ProducerStep, ProducerChoice

LEMMA ConsumerMemory ==
  ASSUME TypeOK, CallState, Memory, TypeOK', CallState',
         NEW c \in Consumers, ConsumerStep(c) \/ ConsumerChoice(c)
  PROVE  Memory'
<1>1. CASE Sleep(c) \/ Interrupted(c) \/ GetItemReturns(c) \/ SetupConsumer(c)
           \/ GetItem(c) \/ CloseConsumerWakes(c)
  <2>1. /\ UNCHANGED <<bvars, owner, count, todo, items, item>>
        /\ \A p \in Producers : pc'[p] = pc[p]
    BY <1>1, TaskFacts DEF Sleep, Interrupted, GetItemReturns, SetupConsumer, GetItem,
       CloseConsumerWakes, Goto, TypeOK, lvars, cvars
  <2>2. UNCHANGED buffer
    BY <1>1 DEF Sleep, Interrupted, GetItemReturns, SetupConsumer, GetItem,
       CloseConsumerWakes, pvars
  <2> QED BY <2>1, <2>2, QuietMemory DEF HasBuffer
<1> QED
  BY <1>1, PopMemory, PutItemMemory, CloseConsumerMemory
  DEF ConsumerStep, ConsumerChoice

LEMMA MemoryStep == IInv /\ [Next]_vars => IInv'
<1> SUFFICES ASSUME TypeOK, CallState, Memory, [Next]_vars
             PROVE  TypeOK' /\ CallState' /\ Memory'
  BY DEF IInv, Memory
<1>1. TypeOK' /\ CallState'
  BY TypedStep
<1>2. CASE Next
  BY <1>1, <1>2, ProducerMemory, ConsumerMemory DEF Next
<1>3. CASE UNCHANGED vars
  <2>1. /\ UNCHANGED <<buffer, bvars, owner, count, todo, items, item>>
        /\ \A p \in Producers : HasBuffer(p)' = HasBuffer(p)
    BY <1>3 DEF vars, tvars, pvars, lvars, cvars, HasBuffer
  <2> QED BY <1>1, <2>1, QuietMemory
<1> QED BY <1>1, <1>2, <1>3

(* The queue is memory safe, whatever interleaving, failure or departure:  *)
(* nothing still referenced is freed, a buffer is freed exactly once, when *)
(* its last reference goes, and a writer shares its buffer with nobody.    *)
THEOREM MemorySafe == Spec => []IInv
<1>1. Init => IInv
  BY InitTyped, InitMemory DEF IInv, Memory
<1> QED BY <1>1, MemoryStep, PTL DEF Spec

THEOREM NoUseAfterFree == Spec => [](ReferencesAlive /\ RefCounts /\ WriterIsAlone)
<1>1. IInv => ReferencesAlive /\ RefCounts /\ WriterIsAlone
  BY DEF IInv
<1> QED BY <1>1, MemorySafe, PTL

(* Nothing leaks but the pages of a failed alloc_buffer_item, and the      *)
(* count the limit is tested against is exact.                             *)
THEOREM NoLeak == Spec => [](NoBufferLost /\ NoPageLost /\ CountExact)
<1>1. IInv => NoBufferLost /\ NoPageLost /\ CountExact
  BY DEF IInv
<1> QED BY <1>1, MemorySafe, PTL

----------------------------------------------------------------------------
(* The limit on the number of items. *)

LEMMA PastLimitFacts ==
  /\ PastLimit \subseteq Producers /\ IsFiniteSet(PastLimit)
  /\ Cardinality(PastLimit) \in Nat
  /\ Cardinality(Producers) \in Nat
BY VmqAssumption, FS_Subset, FS_CardinalityType DEF PastLimit

(* Passing the test: fewer than MaxItemCount are counted, and every other  *)
(* producer may have passed it too.                                        *)
LEMMA PassLimit ==
  ASSUME TypeOK, NEW p \in Producers, pc[p] \in {"idle", "limit"}, ~AtLimit,
         pc' = [pc EXCEPT ![p] = "alloc"], bufItemCount' = bufItemCount
  PROVE  OvershootBound'
<1>1. PastLimit' = PastLimit \cup {p} /\ p \notin PastLimit
  BY TaskFacts DEF PastLimit, TypeOK
<1>2. Cardinality(PastLimit') = Cardinality(PastLimit) + 1
  BY <1>1, PastLimitFacts, FS_AddElement
<1>3. Cardinality(PastLimit') <= Cardinality(Producers)
  BY <1>1, PastLimitFacts, VmqAssumption, FS_Subset
<1>4. MaxItemCount > 0 => bufItemCount <= MaxItemCount - 1
  BY VmqAssumption DEF AtLimit, TypeOK
<1> QED
  BY <1>3, <1>4, PastLimitFacts, <1>2, VmqAssumption DEF OvershootBound, TypeOK

(* Steps that neither pass the test nor add a buffer. *)
LEMMA StayBelow ==
  ASSUME TypeOK, OvershootBound, PastLimit' \subseteq PastLimit,
         bufItemCount' \in Int, bufItemCount' <= bufItemCount
  PROVE  OvershootBound'
<1>1. Cardinality(PastLimit') <= Cardinality(PastLimit) /\ Cardinality(PastLimit') \in Nat
  BY PastLimitFacts, FS_Subset, FS_CardinalityType
<1> QED BY <1>1, PastLimitFacts, VmqAssumption DEF OvershootBound, TypeOK

LEMMA AddBelow ==
  ASSUME TypeOK, OvershootBound, NEW p \in Producers, AddBuffer(p)
  PROVE  OvershootBound'
<1>1. PastLimit' = PastLimit \ {p} /\ p \in PastLimit
  BY TaskFacts DEF AddBuffer, Goto, PastLimit, TypeOK
<1>2. Cardinality(PastLimit') = Cardinality(PastLimit) - 1
  BY <1>1, PastLimitFacts, FS_RemoveElement
<1>3. bufItemCount' = bufItemCount + 1
  BY DEF AddBuffer
<1> QED
  BY <1>2, <1>3, PastLimitFacts, VmqAssumption DEF OvershootBound, TypeOK

LEMMA RemoveLowers ==
  ASSUME TypeOK, NEW gone, IsFiniteSet(gone), RemoveBuffers(gone)
  PROVE  bufItemCount' \in Int /\ bufItemCount' <= bufItemCount
<1>1. Cardinality(gone) \in Nat
  BY FS_CardinalityType
<1> QED BY <1>1 DEF RemoveBuffers, TypeOK

LEMMA ProducerBelow ==
  ASSUME IInv, OvershootBound, NEW p \in Producers,
         ProducerStep(p) \/ ProducerChoice(p)
  PROVE  OvershootBound'
<1>1. TypeOK
  BY DEF IInv
<1>2. CASE LimitPassed(p)
  BY <1>1, <1>2, PassLimit DEF LimitPassed, Goto, bvars
<1>3. CASE \E r \in Request : GetBuffer(p, r)
  <2>1. CASE AtLimit
    <3>1. pc' = [pc EXCEPT ![p] = "limit"] /\ bufItemCount' = bufItemCount
      BY <1>3, <2>1 DEF GetBuffer, Goto, bvars
    <3> QED BY <1>1, <3>1, StayBelow, TaskFacts DEF TypeOK, PastLimit
  <2>2. CASE ~AtLimit
    BY <1>1, <1>3, <2>2, PassLimit DEF GetBuffer, Goto, bvars
  <2> QED BY <2>1, <2>2
<1>4. CASE AddBuffer(p)
  BY <1>1, <1>4, AddBelow
<1>5. CASE Sleep(p) \/ AllocPages(p) \/ AllocFails(p) \/ AddBufferFails(p)
           \/ GetBufferReturns(p) \/ (\E m \in Msg : Fill(p, m)) \/ PutBuffer(p)
           \/ (\E c \in Consumers : Link(p, c) \/ LinkFails(p, c))
           \/ SetupProducer(p) \/ Interrupted(p)
  <2>1. PastLimit' \subseteq PastLimit /\ bufItemCount' = bufItemCount
    BY <1>1, <1>5, TaskFacts DEF Sleep, AllocPages, AllocFails, AddBufferFails,
       GetBufferReturns, Fill, PutBuffer, Link, LinkFails, SetupProducer,
       Interrupted, Goto, PastLimit, TypeOK, bvars, tvars
  <2> QED BY <1>1, <2>1, StayBelow DEF TypeOK
<1>6. CASE PutBufferReturns(p) \/ GetBufferFaults(p) \/ CloseProducer(p)
  <2>1. PastLimit' \subseteq PastLimit
    BY <1>1, <1>6, TaskFacts DEF PutBufferReturns, GetBufferFaults, CloseProducer,
       Goto, PastLimit, TypeOK
  <2>2. RemoveBuffers({buffer[p]}) \/ bufItemCount' = bufItemCount
    BY <1>6 DEF PutBufferReturns, GetBufferFaults, CloseProducer
  <2>3. bufItemCount' \in Int /\ bufItemCount' <= bufItemCount
    <3>1. IsFiniteSet({buffer[p]})
      BY FS_Singleton
    <3>2. CASE RemoveBuffers({buffer[p]})
      BY <1>1, <3>1, <3>2, RemoveLowers
    <3>3. CASE bufItemCount' = bufItemCount
      BY <1>1, <3>3 DEF TypeOK
    <3> QED BY <2>2, <3>2, <3>3
  <2> QED BY <1>1, <2>1, <2>3, StayBelow
<1> QED
  BY <1>2, <1>3, <1>4, <1>5, <1>6 DEF ProducerStep, ProducerChoice

LEMMA ConsumerBelow ==
  ASSUME IInv, OvershootBound, NEW c \in Consumers,
         ConsumerStep(c) \/ ConsumerChoice(c)
  PROVE  OvershootBound'
<1>1. TypeOK
  BY DEF IInv
<1>2. PastLimit' \subseteq PastLimit
  BY <1>1, TaskFacts DEF ConsumerStep, ConsumerChoice, Sleep, PopItem, GetItemReturns,
     PutItem, CloseConsumerWakes, SetupConsumer, CloseConsumer, Interrupted, GetItem,
     Goto, PastLimit, TypeOK
<1>3. CASE PutItem(c) \/ CloseConsumer(c)
  <2>1. PICK refs \in {{item[c]}, Held(c)} : Unref(refs) /\ refs \subseteq buffers
    <3>1. PutItem(c) => item[c] \in Held(c)
      BY DEF PutItem, Held, IInv, CallState
    <3> QED BY <1>3, <3>1 DEF PutItem, CloseConsumer, IInv, ReferencesAlive
  <2>2. IsFiniteSet(LastRefs(refs))
    BY <2>1, FS_Subset DEF LastRefs, IInv, CountExact
  <2> QED BY <1>1, <1>2, <2>1, <2>2, RemoveLowers, StayBelow DEF Unref
<1>4. CASE ~(PutItem(c) \/ CloseConsumer(c))
  <2>1. bufItemCount' = bufItemCount
    BY <1>4 DEF ConsumerStep, ConsumerChoice, Sleep, PopItem, GetItemReturns,
       CloseConsumerWakes, SetupConsumer, Interrupted, GetItem, bvars
  <2> QED BY <1>1, <1>2, <2>1, StayBelow DEF TypeOK
<1> QED BY <1>3, <1>4

(* The limit is exceeded by at most one buffer for every other producer,   *)
(* although get_buffer_item tests it without the mutex.                    *)
THEOREM LimitOvershoot == Spec => []OvershootBound
<1>1. Init => OvershootBound
  <2> SUFFICES ASSUME Init PROVE OvershootBound
    OBVIOUS
  <2>1. PastLimit = {} /\ bufItemCount = 0
    BY TaskFacts, VmqAssumption DEF Init, PastLimit, Tasks
  <2>2. CASE Producers = {}
    BY <2>1, <2>2, FS_EmptySet, VmqAssumption DEF OvershootBound
  <2>3. CASE Producers # {}
    <3>1. Cardinality(Producers) >= 1
      BY <2>3, PastLimitFacts, FS_EmptySet, VmqAssumption
    <3> QED BY <2>1, <3>1, PastLimitFacts, FS_EmptySet, VmqAssumption DEF OvershootBound
  <2> QED BY <2>2, <2>3
<1>2. IInv /\ OvershootBound /\ [Next]_vars => OvershootBound'
  <2> SUFFICES ASSUME IInv, OvershootBound, [Next]_vars PROVE OvershootBound'
    OBVIOUS
  <2>1. CASE Next
    BY <2>1, ProducerBelow, ConsumerBelow DEF Next
  <2>2. CASE UNCHANGED vars
    BY <2>2, StayBelow DEF IInv, TypeOK, PastLimit, vars, tvars, bvars
  <2> QED BY <2>1, <2>2
<1> QED BY <1>1, <1>2, MemorySafe, PTL DEF Spec

------------------------------------------------------------------------------
(* Vmq implements MulticastQueue: whatever is published reaches every         *)
(* consumer subscribed, in one order, and stays as written until it is given  *)
(* back, although all of them share the producer's pages.                     *)

(* Sequences of blocks and of what they contain *)

Contents(f, q) == [i \in DOMAIN q |-> f[q[i]]]

LEMMA ContentsFacts ==
  ASSUME NEW V, NEW f \in [Block -> V], NEW q \in Seq(Block), NEW b \in Block
  PROVE  /\ Contents(f, q) \in Seq(V)
         /\ Contents(f, Append(q, b)) = Append(Contents(f, q), f[b])
         /\ Contents(f, << >>) = << >>
<1>1. Contents(f, q) \in Seq(V) /\ Len(Contents(f, q)) = Len(q)
  BY DEF Contents
<1>2. Contents(f, << >>) = << >> BY DEF Contents
<1>3. /\ Append(q, b) \in Seq(Block) /\ Len(Append(q, b)) = Len(q) + 1
      /\ Len(q) \in Nat /\ DOMAIN q = 1 .. Len(q)
      /\ DOMAIN Append(q, b) = 1 .. Len(q) + 1
      /\ \A i \in 1 .. Len(q) : Append(q, b)[i] = q[i]
      /\ Append(q, b)[Len(q) + 1] = b
  OBVIOUS
<1>4. Contents(f, Append(q, b)) = Append(Contents(f, q), f[b])
  <2>1. /\ Contents(f, Append(q, b)) \in Seq(V)
        /\ Len(Contents(f, Append(q, b))) = Len(q) + 1
    BY <1>3 DEF Contents
  <2>2. /\ Append(Contents(f, q), f[b]) \in Seq(V)
        /\ Len(Append(Contents(f, q), f[b])) = Len(q) + 1
        /\ \A i \in 1 .. Len(q) : Append(Contents(f, q), f[b])[i] = Contents(f, q)[i]
        /\ Append(Contents(f, q), f[b])[Len(q) + 1] = f[b]
    BY <1>1, <1>3
  <2>3. \A i \in 1 .. Len(q) :
          Contents(f, Append(q, b))[i] = f[q[i]] /\ Contents(f, q)[i] = f[q[i]]
    BY <1>3 DEF Contents
  <2>4. Contents(f, Append(q, b))[Len(q) + 1] = f[b] BY <1>3 DEF Contents
  <2> HIDE DEF Contents
  <2> QED BY <1>3, <2>1, <2>2, <2>3, <2>4, SeqEqual
<1> QED BY <1>1, <1>2, <1>4

LEMMA ContentsTail ==
  ASSUME NEW V, NEW f \in [Block -> V], NEW q \in Seq(Block), q # << >>
  PROVE  /\ Contents(f, q) # << >>
         /\ Head(Contents(f, q)) = f[Head(q)]
         /\ Tail(Contents(f, q)) = Contents(f, Tail(q))
<1>1. /\ Contents(f, q) \in Seq(V) /\ Len(Contents(f, q)) = Len(q)
      /\ \A i \in 1 .. Len(q) : Contents(f, q)[i] = f[q[i]]
  BY DEF Contents
<1>2. /\ Tail(q) \in Seq(Block) /\ Len(Tail(q)) = Len(q) - 1
      /\ \A i \in 1 .. Len(q) - 1 : Tail(q)[i] = q[i + 1]
      /\ Len(q) \in Nat \ {0} /\ Head(q) = q[1]
  OBVIOUS
<1>3. Contents(f, q) # << >> BY <1>1, <1>2
<1>4. /\ Contents(f, Tail(q)) \in Seq(V) /\ Len(Contents(f, Tail(q))) = Len(q) - 1
      /\ \A i \in 1 .. Len(q) - 1 : Contents(f, Tail(q))[i] = f[q[i + 1]]
  BY <1>2 DEF Contents
<1> HIDE DEF Contents
<1>5. /\ Tail(Contents(f, q)) \in Seq(V) /\ Len(Tail(Contents(f, q))) = Len(q) - 1
      /\ \A i \in 1 .. Len(q) - 1 :
           Tail(Contents(f, q))[i] = Contents(f, q)[i + 1]
      /\ Head(Contents(f, q)) = Contents(f, q)[1]
  BY <1>1, <1>2, <1>3
<1>6. Tail(Contents(f, q)) = Contents(f, Tail(q))
  <2> DEFINE s == Tail(Contents(f, q))
             t == Contents(f, Tail(q))
  <2>1. \A i \in 1 .. Len(q) - 1 : s[i] = t[i]
    <3>1. \A i \in 1 .. Len(q) - 1 : i + 1 \in 1 .. Len(q) BY <1>2
    <3> QED BY <1>1, <1>2, <1>4, <1>5, <3>1, Zenon
  <2>2. s \in Seq(V) /\ t \in Seq(V) /\ Len(s) = Len(q) - 1 /\ Len(t) = Len(q) - 1
    BY <1>4, <1>5
  <2> HIDE DEF s, t
  <2>3. s = t BY <2>1, <2>2, SeqEqual
  <2> QED BY <2>3 DEF s, t
<1>7. 1 \in 1 .. Len(q) BY <1>2
<1>8. Head(Contents(f, q)) = f[Head(q)] BY <1>1, <1>2, <1>5, <1>7, Zenon
<1> QED BY <1>3, <1>6, <1>8, Zenon

LEMMA LastFacts ==
  ASSUME NEW V, NEW s \in Seq(V), NEW x \in V
  PROVE  /\ s \o << >> = s /\ s \o <<x>> = Append(s, x)
         /\ Append(s, x) # << >> /\ Append(s, x) \in Seq(V)
         /\ SubSeq(Append(s, x), 1, Len(Append(s, x)) - 1) = s
         /\ s # << >> => /\ Head(Append(s, x)) = Head(s)
                         /\ Tail(Append(s, x)) = Append(Tail(s), x)
<1>1. /\ Append(s, x) \in Seq(V) /\ Append(s, x) # << >>
      /\ Len(Append(s, x)) = Len(s) + 1 /\ Len(s) \in Nat
      /\ \A i \in 1 .. Len(s) : Append(s, x)[i] = s[i]
  BY AppendProperties
<1>2. SubSeq(Append(s, x), 1, Len(Append(s, x)) - 1) = s
  <2> DEFINE t == Append(s, x)
  <2>1. /\ t \in Seq(V) /\ Len(t) - 1 = Len(s) /\ Len(s) \in Nat
        /\ \A i \in 1 .. Len(s) : t[i] = s[i]
    BY <1>1
  <2> HIDE DEF t
  <2>2. \A i \in 1 .. Len(s) : t[i] \in V BY <2>1
  <2>3. /\ SubSeq(t, 1, Len(s)) \in Seq(V) /\ Len(SubSeq(t, 1, Len(s))) = Len(s)
        /\ \A i \in 1 .. Len(s) : SubSeq(t, 1, Len(s))[i] = t[i]
    BY <2>1, <2>2
  <2>4. SubSeq(t, 1, Len(s)) = s BY <2>1, <2>3, SeqEqual
  <2> QED BY <2>1, <2>4 DEF t
<1> QED BY <1>1, <1>2, ConcatEmptySeq, AppendIsConcat, HeadTailAppend

------------------------------------------------------------------------------
(* The pages of what consumers hold                                          *)

Written(b, m) == \A g \in PagesOf[b] : mem[g] = m
Full(b) == \E m \in Msg : Written(b, m)

(* No two blocks in use share a page.                                        *)
Apart == \A b, d \in allocated : b # d => ~Overlap(b, d)

(* What is published was written to the end before.                          *)
AllWritten ==
  /\ \A p \in Producers : pc[p] \in {"ready", "put"} => Full(buffer[p])
  /\ \A c \in Consumers : \A b \in Held(c) : Full(b)

Subscribed == \A c \in Consumers : c \in consumers <=> pc[c] \notin {"closed", "wake"}

MInv == IInv /\ Apart /\ AllWritten /\ Subscribed

LEMMA ContentFacts ==
  ASSUME TypeOK, NEW b \in Block
  PROVE  /\ Content(b) \in Msg \cup {None}
         /\ Full(b) => Content(b) \in Msg /\ Content(b) # None
         /\ PagesOf[b] # {} /\ PagesOf[b] \subseteq Page
<1>1. PagesOf[b] # {} /\ PagesOf[b] \subseteq Page BY BlocksAssumption
<1> DEFINE values == {mem[g] : g \in PagesOf[b]}
<1>2. values \subseteq Msg BY <1>1 DEF TypeOK
<1>3. Content(b) = IF Cardinality(values) = 1 THEN CHOOSE m \in values : TRUE ELSE None
  BY DEF Content
<1>4. Cardinality(values) = 1 => values # {}
  BY FS_EmptySet
<1>5. Content(b) \in Msg \cup {None} BY <1>2, <1>3, <1>4
<1>6. ASSUME NEW m \in Msg, Written(b, m) PROVE Content(b) = m
  <2>1. values = {m} BY <1>1, <1>6 DEF Written
  <2> HIDE DEF values
  <2> QED BY <1>3, <2>1, OneBuffer
<1>7. None \notin Msg BY VmqAssumption
<1> QED BY <1>1, <1>5, <1>6, <1>7 DEF Full

LEMMA ContentKept ==
  ASSUME NEW b, \A g \in PagesOf[b] : mem'[g] = mem[g]
  PROVE  Content(b)' = Content(b) /\ Full(b)' = Full(b)
<1>1. {mem'[g] : g \in PagesOf[b]} = {mem[g] : g \in PagesOf[b]} OBVIOUS
<1> DEFINE TheOne(S) == IF Cardinality(S) = 1 THEN CHOOSE m \in S : TRUE ELSE None
<1>a. Content(b) = TheOne({mem[g] : g \in PagesOf[b]}) BY DEF Content
<1>b. Content(b)' = TheOne({mem'[g] : g \in PagesOf[b]}) BY DEF Content
<1>2. Content(b)' = Content(b)
  <2> HIDE DEF TheOne
  <2> QED BY <1>1, <1>a, <1>b
<1>3. \A m : Written(b, m)' <=> Written(b, m) BY DEF Written
<1>4. Full(b)' = Full(b) BY <1>3 DEF Full
<1> QED BY <1>2, <1>4

(* Fill writes to pages no other buffer in use has.                          *)
LEMMA FillKept ==
  ASSUME MInv, NEW p \in Producers, NEW m \in Msg, Fill(p, m),
         NEW b \in allocated, b # buffer[p]
  PROVE  Content(b)' = Content(b) /\ Full(b)' = Full(b)
<1>1. buffer[p] \in allocated
  BY DEF MInv, IInv, CallState, ReferencesAlive, Fill, HasBuffer
<1>2. PagesOf[b] \cap PagesOf[buffer[p]] = {}
  BY <1>1 DEF MInv, Apart, Overlap
<1>3. PagesOf[b] \subseteq Page
  BY ContentFacts DEF MInv, IInv, TypeOK
<1>4. \A g \in PagesOf[b] : mem'[g] = mem[g] BY <1>2, <1>3 DEF Fill
<1> QED BY <1>4, ContentKept

(* What consumers have is allocated, and no producer but the owner of the    *)
(* mutex has it too.                                                         *)
LEMMA HeldFacts ==
  ASSUME MInv
  PROVE  /\ \A c \in Consumers : \A b \in Held(c) :
              /\ b \in allocated /\ b \in Block
              /\ \A p \in Producers : pc[p] # "put" => buffer[p] # b
         /\ \A c \in Consumers : items[c] \in Seq(Block)
         /\ \A c \in todo : /\ owner \in Producers /\ pc[owner] = "put"
                            /\ buffer[owner] \in Block
                            /\ buffer[owner] \in allocated
<1> USE DEF MInv, IInv
<1>1. ASSUME NEW c \in Consumers, NEW b \in Held(c)
      PROVE  /\ b \in allocated /\ b \in Block
             /\ \A p \in Producers : pc[p] # "put" => buffer[p] # b
  <2>1. b \in buffers /\ b \in allocated /\ b \in Block
    BY <1>1 DEF ReferencesAlive, TypeOK
  <2>2. c \in Holders(b) BY <1>1 DEF Holders
  <2> QED BY <2>1, <2>2, TaskFacts DEF WriterIsAlone
<1>2. ASSUME NEW c \in todo
      PROVE  /\ owner \in Producers /\ pc[owner] = "put"
             /\ buffer[owner] \in Block /\ buffer[owner] \in allocated
  <2>1. owner \in Producers BY DEF CallState, TypeOK
  <2>2. pc[owner] = "put" /\ buffer[owner] # None
    BY <2>1 DEF CallState, HasBuffer
  <2> QED BY <2>1, <2>2 DEF ReferencesAlive, TypeOK
<1> QED BY <1>1, <1>2 DEF TypeOK

------------------------------------------------------------------------------
(* MInv is inductive                                                         *)

LEMMA ProducerAllocates ==
  ASSUME TypeOK, NEW p \in Producers, ProducerStep(p) \/ ProducerChoice(p)
  PROVE  AllocPages(p) \/ allocated' \subseteq allocated
<1> USE DEF bvars
<1>1. CASE ProducerStep(p)
  BY <1>1 DEF ProducerStep, Sleep, LimitPassed, AllocFails, AddBuffer,
     GetBufferReturns, Fill, PutBuffer, PutBufferReturns, Link, RemoveBuffers
<1>2. CASE ProducerChoice(p)
  BY <1>2 DEF ProducerChoice, SetupProducer, CloseProducer, Interrupted, GetBuffer,
     AddBufferFails, GetBufferFaults, LinkFails, RemoveBuffers
<1> QED BY <1>1, <1>2

LEMMA ConsumerAllocates ==
  ASSUME NEW c \in Consumers, ConsumerStep(c) \/ ConsumerChoice(c)
  PROVE  allocated' \subseteq allocated
BY DEF bvars, ConsumerStep, ConsumerChoice, Sleep, PopItem, GetItemReturns, PutItem,
   CloseConsumerWakes, SetupConsumer, CloseConsumer, Interrupted, GetItem, Unref,
   RemoveBuffers

LEMMA ApartStep == ASSUME MInv, [Next]_vars PROVE Apart'
<1> USE DEF MInv
<1>1. ASSUME allocated' \subseteq allocated PROVE Apart'
  BY <1>1 DEF Apart
<1>2. ASSUME NEW p \in Producers, AllocPages(p) PROVE Apart'
  <2>1. PICK b \in Candidates(request[p], allocated) : allocated' = allocated \cup {b}
    BY <1>2 DEF AllocPages
  <2>2. \A l \in allocated : ~Overlap(b, l) /\ ~Overlap(l, b)
    BY <2>1 DEF Candidates, Overlap
  <2> QED BY <2>1, <2>2 DEF Apart
<1>3. CASE UNCHANGED vars BY <1>1, <1>3 DEF vars, bvars
<1> QED BY <1>1, <1>2, <1>3, ProducerAllocates, ConsumerAllocates DEF Next, IInv

LEMMA ProducerLists ==
  ASSUME TypeOK, CallState, NEW p \in Producers, ProducerStep(p) \/ ProducerChoice(p)
  PROVE  /\ UNCHANGED <<consumers, item>>
         /\ (\E m \in Msg : Fill(p, m)) \/ mem' = mem
         /\ (\E c \in Consumers : Link(p, c)) \/ items' = items
         /\ \A t \in Tasks : t # p => pc'[t] = pc[t]
         /\ \A q \in Producers : q # p => buffer'[q] = buffer[q]
         /\ \/ \E m \in Msg : Fill(p, m)
            \/ pc'[p] \in {"ready", "put"} =>
                 pc[p] \in {"ready", "put"} /\ buffer'[p] = buffer[p]
<1> USE DEF cvars, pvars, tvars, Goto, TypeOK, Tasks
<1>1. CASE ProducerStep(p)
  BY <1>1 DEF ProducerStep, Sleep, LimitPassed, AllocPages, AllocFails, AddBuffer,
     GetBufferReturns, Fill, PutBuffer, PutBufferReturns, Link
<1>2. CASE ProducerChoice(p)
  BY <1>2 DEF ProducerChoice, SetupProducer, CloseProducer, Interrupted, GetBuffer,
     AddBufferFails, GetBufferFaults, LinkFails
<1> QED BY <1>1, <1>2

LEMMA ConsumerLists ==
  ASSUME TypeOK, NEW c \in Consumers, ConsumerStep(c) \/ ConsumerChoice(c)
  PROVE  /\ UNCHANGED <<buffer, owner, todo, mem>>
         /\ \A t \in Tasks : t # c => pc'[t] = pc[t]
         /\ \A d \in Consumers : Held(d)' \subseteq Held(d)
<1> USE DEF cvars, pvars, tvars, lvars, Goto, TypeOK, Tasks, Held, Queued
<1>0. \A q \in Seq(Block) : q # << >> =>
        SeqSet(Tail(q)) \subseteq SeqSet(q) /\ Head(q) \in SeqSet(q)
  BY TailFacts
<1>1. SeqSet(<< >>) = {} BY DEF SeqSet
<1>2. CASE PopItem(c)
  <2>1. /\ UNCHANGED <<buffer, owner, todo, mem>>
        /\ \A t \in Tasks : t # c => pc'[t] = pc[t]
    BY <1>2 DEF PopItem
  <2>2. \A d \in Consumers : Held(d)' \subseteq Held(d)
    BY <1>0, <1>2 DEF PopItem
  <2> QED BY <2>1, <2>2
<1>3. CASE ~PopItem(c) /\ ConsumerStep(c)
  BY <1>3 DEF ConsumerStep, Sleep, GetItemReturns, PutItem, CloseConsumerWakes
<1>4. CASE ConsumerChoice(c)
  BY <1>1, <1>4 DEF ConsumerChoice, SetupConsumer, CloseConsumer, Interrupted, GetItem
<1> QED BY <1>2, <1>3, <1>4

LEMMA WrittenStep == ASSUME MInv, [Next]_vars PROVE AllWritten'
<1> USE DEF MInv, IInv
<1>1. ASSUME NEW p \in Producers, ProducerStep(p) \/ ProducerChoice(p)
      PROVE  AllWritten'
  <2>0. /\ item' = item
        /\ \A q \in Producers : q # p => pc'[q] = pc[q] /\ buffer'[q] = buffer[q]
    BY <1>1, ProducerLists, TaskFacts
  <2>1. ASSUME NEW m \in Msg, Fill(p, m) PROVE AllWritten'
    <3>1. /\ pc'[p] = "ready" /\ buffer' = buffer /\ items' = items
          /\ buffer[p] \in Block /\ pc[p] = "fill"
      BY <2>1, TaskFacts
      DEF Fill, Goto, pvars, cvars, CallState, HasBuffer, TypeOK
    <3>2. Full(buffer[p])'
      BY <2>1, <3>1, ContentFacts DEF Fill, Full, Written
    <3>3. ASSUME NEW q \in Producers, q # p, pc'[q] \in {"ready", "put"}
          PROVE  Full(buffer[q])'
      <4>1. pc[q] \in {"ready", "put"} BY <2>0, <3>3
      <4>2. buffer[q] \in allocated /\ buffer[q] # buffer[p] /\ Full(buffer[q])
        BY <3>1, <3>3, <4>1, TaskFacts
        DEF AllWritten, CallState, HasBuffer, ReferencesAlive, WriterIsAlone
      <4>3. PICK b \in allocated : b = buffer[q] BY <4>2
      <4>4. Full(b)' BY <2>1, <4>2, <4>3, FillKept
      <4> QED BY <3>1, <4>3, <4>4 DEF Full, Written
    <3>4. ASSUME NEW c \in Consumers, NEW b \in Held(c)' PROVE Full(b)'
      <4>1. b \in Held(c) BY <2>0, <3>1 DEF Held, Queued
      <4>2. b \in allocated /\ buffer[p] # b BY <3>1, <4>1, HeldFacts
      <4>3. Full(b) BY <4>1 DEF AllWritten
      <4> QED BY <2>1, <4>2, <4>3, FillKept
    <3> QED BY <3>1, <3>2, <3>3, <3>4 DEF AllWritten, Full, Written
  <2>2. ASSUME \A m \in Msg : ~Fill(p, m) PROVE AllWritten'
    <3>1. /\ mem' = mem
          /\ \A q \in Producers : pc'[q] \in {"ready", "put"} =>
               pc[q] \in {"ready", "put"} /\ buffer'[q] = buffer[q]
      BY <1>1, <2>0, <2>2, ProducerLists
    <3>2. \A b : Full(b)' = Full(b) BY <3>1 DEF Full, Written
    <3>3. ASSUME NEW q \in Producers, pc'[q] \in {"ready", "put"}
          PROVE  \E m \in Msg : \A g \in PagesOf[buffer'[q]] : mem'[g] = m
      BY <3>1, <3>3 DEF AllWritten, Full, Written
    <3>4. ASSUME NEW c \in Consumers, NEW b \in Held(c)' PROVE Full(b)
      <4>1. CASE items' = items
        BY <2>0, <3>4, <4>1 DEF Held, Queued, AllWritten
      <4>2. CASE \E d \in Consumers : Link(p, d)
        <5>1. PICK d \in Consumers : Link(p, d) BY <4>2
        <5>2. /\ pc[p] = "put" /\ buffer[p] \in Block
              /\ items' = [items EXCEPT ![d] = Append(@, buffer[p])]
          BY <5>1 DEF Link, ListAddTail, CallState, HasBuffer, TypeOK
        <5>3. SeqSet(Append(items[d], buffer[p])) = SeqSet(items[d]) \cup {buffer[p]}
          BY <5>2, AppendFacts DEF TypeOK
        <5>4. b \in Held(c) \/ b = buffer[p]
          BY <2>0, <3>4, <5>2, <5>3 DEF Held, Queued, TypeOK
        <5> QED BY <5>2, <5>4 DEF AllWritten
      <4> QED BY <1>1, <4>1, <4>2, ProducerLists
    <3> QED BY <3>2, <3>3, <3>4 DEF AllWritten, Full, Written
  <2> QED BY <2>1, <2>2
<1>2. ASSUME mem' = mem, buffer' = buffer,
             \A p \in Producers : pc'[p] = pc[p],
             \A c \in Consumers : Held(c)' \subseteq Held(c)
      PROVE  AllWritten'
  BY <1>2 DEF AllWritten, Full, Written
<1>3. ASSUME NEW c \in Consumers, ConsumerStep(c) \/ ConsumerChoice(c)
      PROVE  AllWritten'
  BY <1>2, <1>3, ConsumerLists, TaskFacts
<1>4. CASE UNCHANGED vars
  <2>1. mem' = mem /\ buffer' = buffer /\ pc' = pc /\ items' = items /\ item' = item
    BY <1>4 DEF vars, tvars, pvars, cvars
  <2>2. \A c \in Consumers : Held(c)' = Held(c) BY <2>1 DEF Held, Queued
  <2> QED BY <1>2, <2>1, <2>2
<1> QED BY <1>1, <1>3, <1>4 DEF Next

LEMMA SubscribedStep == ASSUME MInv, [Next]_vars PROVE Subscribed'
<1> USE DEF MInv, IInv, TypeOK, Goto, Tasks
<1>1. ASSUME NEW p \in Producers, ProducerStep(p) \/ ProducerChoice(p)
      PROVE  Subscribed'
  BY <1>1, ProducerLists, TaskFacts DEF Subscribed
<1>2. ASSUME NEW c \in Consumers, ConsumerStep(c) PROVE Subscribed'
  <2>1. consumers' = consumers
    BY <1>2 DEF ConsumerStep, Sleep, PopItem, GetItemReturns, PutItem,
       CloseConsumerWakes, cvars
  <2>2. pc'[c] \in {"closed", "wake"} <=> pc[c] \in {"closed", "wake"}
    BY <1>2, TaskFacts
    DEF ConsumerStep, Sleep, PopItem, GetItemReturns, PutItem, CloseConsumerWakes
  <2> QED BY <1>2, <2>1, <2>2, ConsumerLists DEF Subscribed
<1>3. ASSUME NEW c \in Consumers, ConsumerChoice(c) PROVE Subscribed'
  <2>1. c \in consumers' <=> pc'[c] \notin {"closed", "wake"}
    BY <1>3, TaskFacts
    DEF ConsumerChoice, SetupConsumer, CloseConsumer, Interrupted, GetItem, Subscribed,
        Blocked, cvars
  <2>2. \A d \in Consumers : d # c => (d \in consumers' <=> d \in consumers)
    BY <1>3
    DEF ConsumerChoice, SetupConsumer, CloseConsumer, Interrupted, GetItem, cvars
  <2> QED BY <1>3, <2>1, <2>2, ConsumerLists DEF Subscribed
<1>4. CASE UNCHANGED vars BY <1>4 DEF vars, tvars, cvars, Subscribed
<1> QED BY <1>1, <1>2, <1>3, <1>4 DEF Next

LEMMA InitMInv == Init => MInv
<1> SUFFICES ASSUME Init PROVE MInv
  OBVIOUS
<1>1. IInv BY InitTyped, InitMemory DEF IInv, Memory
<1>2. \A c \in Consumers : Held(c) = {}
  BY DEF Init, Held, Queued, SeqSet
<1>3. AllWritten BY <1>2, TaskFacts, VmqAssumption DEF Init, AllWritten
<1>4. Apart /\ Subscribed
  BY TaskFacts DEF Init, Apart, Subscribed
<1> QED BY <1>1, <1>3, <1>4 DEF MInv

LEMMA MStep == MInv /\ [Next]_vars => MInv'
<1> SUFFICES ASSUME MInv, [Next]_vars PROVE MInv'
  OBVIOUS
<1>1. IInv' BY MemoryStep DEF MInv
<1> QED BY <1>1, ApartStep, WrittenStep, SubscribedStep DEF MInv

\* Buffers in use share no page, and whatever a consumer has was written to
\* the end by its producer: this is why what it reads cannot change.
THEOREM PagesApart == Spec => [](Apart /\ AllWritten /\ Subscribed)
<1>1. MInv => Apart /\ AllWritten /\ Subscribed BY DEF MInv
<1> QED BY <1>1, InitMInv, MStep, PTL DEF Spec

------------------------------------------------------------------------------
(* The refinement                                                            *)

(* What the user of a consumer sees, with `more' when put_buffer_item has    *)
(* still to link block b to it.                                              *)
Seen(f, q, more, b) == Contents(f, q) \o (IF more THEN <<f[b]>> ELSE << >>)

Values == Msg \cup {None}

LEMMA SeenFacts ==
  \A f \in [Block -> Values], q \in Seq(Block), b \in Block :
    /\ Seen(f, q, FALSE, b) = Contents(f, q)
    /\ Seen(f, q, TRUE, b) = Append(Contents(f, q), f[b])
    /\ Contents(f, q) \in Seq(Values) /\ f[b] \in Values
    /\ Contents(f, Append(q, b)) = Append(Contents(f, q), f[b])
<1> SUFFICES ASSUME NEW f \in [Block -> Values], NEW q \in Seq(Block), NEW b \in Block
             PROVE  /\ Seen(f, q, FALSE, b) = Contents(f, q)
                    /\ Seen(f, q, TRUE, b) = Append(Contents(f, q), f[b])
                    /\ Contents(f, q) \in Seq(Values) /\ f[b] \in Values
                    /\ Contents(f, Append(q, b)) = Append(Contents(f, q), f[b])
  OBVIOUS
<1>1. /\ Contents(f, q) \in Seq(Values) /\ f[b] \in Values
      /\ Contents(f, Append(q, b)) = Append(Contents(f, q), f[b])
  BY ContentsFacts
<1>2. /\ Contents(f, q) \o << >> = Contents(f, q)
      /\ Contents(f, q) \o <<f[b]>> = Append(Contents(f, q), f[b])
  BY <1>1, LastFacts
<1> QED BY <1>1, <1>2 DEF Seen

View == [b \in Block |-> Content(b)]

LEMMA QueueSeen ==
  ASSUME MInv, NEW c \in Consumers
  PROVE  /\ UserQueue(c) = Seen(View, items[c], c \in todo, buffer[owner])
         /\ items[c] \in Seq(Block)
         /\ c \in todo => buffer[owner] \in Block
         /\ View \in [Block -> Values]
<1>1. items[c] \in Seq(Block) /\ (c \in todo => buffer[owner] \in Block)
  BY HeldFacts
<1>2. \A i \in DOMAIN items[c] : items[c][i] \in Block
  BY <1>1
<1>3. View \in [Block -> Values]
  BY ContentFacts DEF View, Values, MInv, IInv
<1>4. [i \in DOMAIN items[c] |-> Content(items[c][i])] = Contents(View, items[c])
  BY <1>2 DEF Contents, View
<1>5. c \in todo => View[buffer[owner]] = Content(buffer[owner])
  BY <1>1 DEF View
<1> QED BY <1>1, <1>3, <1>4, <1>5 DEF UserQueue, Seen

LEMMA QueueSeenNext ==
  ASSUME MInv, MInv', NEW c \in Consumers
  PROVE  /\ UserQueue(c)' = Seen(View', items'[c], c \in todo', buffer'[owner'])
         /\ items'[c] \in Seq(Block)
         /\ c \in todo' => buffer'[owner'] \in Block
<1>1. items'[c] \in Seq(Block) /\ (c \in todo' => buffer'[owner'] \in Block)
  <2>1. TypeOK' /\ CallState' BY DEF MInv, IInv
  <2>2. items'[c] \in Seq(Block) BY <2>1 DEF TypeOK
  <2>3. ASSUME c \in todo' PROVE buffer'[owner'] \in Block
    <3>1. owner' \in Producers BY <2>1, <2>3 DEF TypeOK, CallState
    <3>2. PICK p \in Producers : p = owner' BY <3>1
    <3>3. pc'[p] = "put" BY <2>1, <3>2 DEF CallState
    <3>4. buffer'[p] # None BY <2>1, <3>3 DEF CallState, HasBuffer
    <3> QED BY <2>1, <3>2, <3>4 DEF TypeOK
  <2> QED BY <2>2, <2>3
<1>2. \A i \in DOMAIN items'[c] : items'[c][i] \in Block
  BY <1>1
<1>4. [i \in DOMAIN items'[c] |-> Content(items[c][i])'] = Contents(View', items'[c])
  BY <1>2 DEF Contents, View
<1>5. c \in todo' => View'[buffer'[owner']] = Content(buffer[owner])'
  BY <1>1 DEF View
<1> QED BY <1>1, <1>4, <1>5 DEF UserQueue, Seen

LEMMA MemKept ==
  ASSUME mem' = mem
  PROVE  /\ \A b : Content(b)' = Content(b)
         /\ View' = View
         /\ \A c \in Consumers : item'[c] = item[c] => UserItem(c)' = UserItem(c)
<1>1. \A b : Content(b)' = Content(b) BY ContentKept
<1>2. View' = View BY <1>1 DEF View
<1> QED BY <1>1, <1>2 DEF UserItem

(* Steps that change nothing a user sees.                                    *)
LEMMA QuietStep ==
  ASSUME MInv, MInv', UNCHANGED <<mem, consumers, items, item, todo>>,
         todo # {} => buffer'[owner'] = buffer[owner]
  PROVE  UNCHANGED Multicast!vars
<1>1. \A c \in Consumers : UserItem(c)' = UserItem(c) BY MemKept
<1>2. ASSUME NEW c \in Consumers PROVE UserQueue(c)' = UserQueue(c)
  <2>1. UserQueue(c) = Seen(View, items[c], c \in todo, buffer[owner])
    BY QueueSeen
  <2>2. UserQueue(c)' = Seen(View, items[c], c \in todo, buffer'[owner'])
    BY QueueSeenNext, MemKept
  <2>3. CASE c \in todo BY <2>1, <2>2, <2>3
  <2>4. CASE c \notin todo BY <2>1, <2>2, <2>4 DEF Seen
  <2> QED BY <2>3, <2>4
<1>3. [c \in Consumers |-> UserQueue(c)'] = [c \in Consumers |-> UserQueue(c)]
  BY <1>2
<1>4. [c \in Consumers |-> UserItem(c)'] = [c \in Consumers |-> UserItem(c)]
  BY <1>1
<1> QED BY <1>3, <1>4 DEF Multicast!vars

LEMMA FillStep ==
  ASSUME MInv, MInv', NEW p \in Producers, NEW m \in Msg, Fill(p, m)
  PROVE  UNCHANGED Multicast!vars
<1> USE DEF MInv, IInv
<1>1. /\ UNCHANGED <<consumers, items, item, todo, owner, buffer>>
      /\ pc[p] = "fill" /\ buffer[p] \in Block
  BY TaskFacts DEF Fill, pvars, cvars, lvars, CallState, HasBuffer, TypeOK
<1>2. ASSUME NEW c \in Consumers, NEW b \in Held(c) PROVE Content(b)' = Content(b)
  <2>1. b \in allocated /\ b # buffer[p] BY <1>1, HeldFacts
  <2> QED BY <2>1, FillKept
<1>3. ASSUME NEW c \in todo
      PROVE  Content(buffer[owner])' = Content(buffer[owner])
  <2>1. owner \in Producers /\ pc[owner] = "put" /\ buffer[owner] \in allocated
    BY HeldFacts
  <2>2. owner # p BY <1>1, <2>1
  <2>3. buffer[owner] # buffer[p] BY <1>1, <2>1, <2>2, TaskFacts DEF WriterIsAlone
  <2>4. PICK b \in allocated : b = buffer[owner] BY <2>1
  <2>5. Content(b)' = Content(b) BY <2>3, <2>4, FillKept
  <2>6. b = buffer'[owner'] BY <1>1, <2>4
  <2> QED BY <2>4, <2>5, <2>6 DEF Content
<1>4. ASSUME NEW c \in Consumers PROVE UserQueue(c)' = UserQueue(c)
  <2>1. \A i \in DOMAIN items[c] : items[c][i] \in Held(c)
    BY DEF Held, Queued, SeqSet
  <2>2. \A i \in DOMAIN items'[c] : Content(items[c][i])' = Content(items[c][i])
    BY <1>1, <1>2, <2>1 DEF Content
  <2>3. [i \in DOMAIN items'[c] |-> Content(items[c][i])']
          = [i \in DOMAIN items[c] |-> Content(items[c][i])]
    BY <1>1, <2>2
  <2>4. UserQueue(c)' = [i \in DOMAIN items'[c] |-> Content(items[c][i])']
          \o (IF c \in todo THEN <<Content(buffer[owner])'>> ELSE << >>)
    BY <1>1 DEF UserQueue
  <2> QED BY <1>3, <2>3, <2>4 DEF UserQueue
<1>5. ASSUME NEW c \in Consumers PROVE UserItem(c)' = UserItem(c)
  <2>1. CASE item[c] = None BY <1>1, <2>1 DEF UserItem
  <2>2. CASE item[c] # None
    <3>1. item[c] \in Held(c) BY <2>2 DEF Held
    <3>2. PICK b \in Held(c) : b = item[c] BY <3>1
    <3>3. Content(item[c])' = Content(item[c]) BY <1>1, <1>2, <3>2 DEF Content
    <3> QED BY <1>1, <2>2, <3>3 DEF UserItem
  <2> QED BY <2>1, <2>2
<1>6. [c \in Consumers |-> UserQueue(c)'] = [c \in Consumers |-> UserQueue(c)]
  BY <1>4
<1>7. [c \in Consumers |-> UserItem(c)'] = [c \in Consumers |-> UserItem(c)]
  BY <1>5
<1> QED BY <1>1, <1>6, <1>7 DEF Multicast!vars

(* put_buffer_item gets the mutex: the message is in every queue at once.    *)
LEMMA PublishStep ==
  ASSUME MInv, MInv', NEW p \in Producers, PutBuffer(p)
  PROVE  \E m \in Msg : Multicast!Publish(m)
<1>1. /\ UNCHANGED <<mem, consumers, items, item, buffer>>
      /\ owner = None /\ todo = {} /\ owner' = p /\ todo' = consumers
      /\ buffer[p] \in Block /\ pc[p] = "ready"
  BY TaskFacts
  DEF MInv, IInv, PutBuffer, MutexFree, pvars, cvars, CallState, HasBuffer, TypeOK
<1>2. PICK b \in Block : b = buffer[p] BY <1>1
<1>3. Content(b) \in Msg BY <1>1, <1>2, ContentFacts DEF MInv, IInv, AllWritten
<1>4. ASSUME NEW c \in Consumers
      PROVE  UserQueue(c)' = IF c \in consumers THEN Append(UserQueue(c), Content(b))
                                                ELSE UserQueue(c)
  <2>1. /\ UserQueue(c) = Contents(View, items[c]) /\ items[c] \in Seq(Block)
        /\ View \in [Block -> Values]
    BY <1>1, <1>2, QueueSeen, SeenFacts DEF Seen
  <2>2. UserQueue(c)' = Seen(View, items[c], c \in consumers, b)
    BY <1>1, <1>2, QueueSeenNext, MemKept
  <2>3. View[b] = Content(b) BY DEF View
  <2>4. CASE c \in consumers
    <3>1. UserQueue(c)' = Seen(View, items[c], TRUE, b) BY <2>2, <2>4 DEF Seen
    <3>2. Seen(View, items[c], TRUE, b) = Append(Contents(View, items[c]), View[b])
      BY <2>1, SeenFacts
    <3> QED BY <2>1, <2>3, <2>4, <3>1, <3>2, Zenon
  <2>5. CASE c \notin consumers
    <3>1. UserQueue(c)' = Seen(View, items[c], FALSE, b) BY <2>2, <2>5 DEF Seen
    <3>2. Seen(View, items[c], FALSE, b) = Contents(View, items[c])
      BY <2>1, SeenFacts
    <3> QED BY <2>1, <2>5, <3>1, <3>2, Zenon
  <2> QED BY <2>4, <2>5
<1>5. \A c \in Consumers : UserItem(c)' = UserItem(c) BY <1>1, MemKept
<1>6. Multicast!Publish(Content(b)) BY <1>1, <1>4, <1>5 DEF Multicast!Publish
<1> QED BY <1>3, <1>6

(* The loop reaches a consumer: its user sees nothing of it.                 *)
LEMMA LinkStep ==
  ASSUME MInv, MInv', NEW p \in Producers, NEW d \in Consumers, Link(p, d)
  PROVE  UNCHANGED Multicast!vars
<1>1. /\ UNCHANGED <<mem, consumers, item, owner, buffer>>
      /\ owner = p /\ d \in todo /\ todo' = todo \ {d}
      /\ items' = [items EXCEPT ![d] = Append(@, buffer[p])]
      /\ items \in [Consumers -> Seq(Block)]
  BY DEF Link, ListAddTail, pvars, MInv, IInv, TypeOK
<1>2. ASSUME NEW c \in Consumers PROVE UserQueue(c)' = UserQueue(c)
  <2>1. /\ UserQueue(c) = Seen(View, items[c], c \in todo, buffer[p])
        /\ items[c] \in Seq(Block)
        /\ c \in todo => buffer[p] \in Block
        /\ View \in [Block -> Values]
    BY <1>1, QueueSeen
  <2>2. UserQueue(c)' = Seen(View, items'[c], c \in todo', buffer[p])
    BY <1>1, QueueSeenNext, MemKept
  <2>3. CASE c # d
    <3>1. items'[c] = items[c] /\ (c \in todo' <=> c \in todo) BY <1>1, <2>3
    <3> QED BY <2>1, <2>2, <3>1 DEF Seen
  <2>4. CASE c = d
    <3>1. /\ items'[c] = Append(items[c], buffer[p]) /\ c \notin todo' /\ c \in todo
          /\ buffer[p] \in Block
      BY <1>1, <2>1, <2>4
    <3>2. PICK b \in Block : b = buffer[p] BY <3>1
    <3>3. UserQueue(c)' = Contents(View, Append(items[c], b))
      <4>1. Append(items[c], b) \in Seq(Block) BY <2>1
      <4>2. UserQueue(c)' = Seen(View, Append(items[c], b), FALSE, b)
        BY <2>2, <3>1, <3>2 DEF Seen
      <4>3. Seen(View, Append(items[c], b), FALSE, b) = Contents(View, Append(items[c], b))
        BY <2>1, <4>1, SeenFacts
      <4> QED BY <4>2, <4>3, Zenon
    <3>4. UserQueue(c) = Append(Contents(View, items[c]), View[b])
      <4>1. UserQueue(c) = Seen(View, items[c], TRUE, b)
        BY <2>1, <3>1, <3>2 DEF Seen
      <4>2. Seen(View, items[c], TRUE, b) = Append(Contents(View, items[c]), View[b])
        BY <2>1, SeenFacts
      <4> QED BY <4>1, <4>2, Zenon
    <3>5. Contents(View, Append(items[c], b)) = Append(Contents(View, items[c]), View[b])
      BY <2>1, SeenFacts
    <3> QED BY <3>3, <3>4, <3>5, Zenon
  <2> QED BY <2>3, <2>4
<1>3. \A c \in Consumers : UserItem(c)' = UserItem(c) BY <1>1, MemKept
<1>4. [c \in Consumers |-> UserQueue(c)'] = [c \in Consumers |-> UserQueue(c)]
  BY <1>2
<1>5. [c \in Consumers |-> UserItem(c)'] = [c \in Consumers |-> UserItem(c)]
  BY <1>3
<1> QED BY <1>1, <1>4, <1>5 DEF Multicast!vars

(* No memory for an item: that consumer misses the message.                  *)
LEMMA MissStep ==
  ASSUME MInv, MInv', NEW p \in Producers, NEW d \in Consumers, LinkFails(p, d)
  PROVE  Multicast!Miss(d)
<1>1. /\ UNCHANGED <<mem, consumers, items, item, owner, buffer>>
      /\ owner = p /\ d \in todo /\ todo' = todo \ {d} /\ "enomem_item" \in Env
  BY DEF LinkFails, pvars, cvars
<1>2. ASSUME NEW c \in Consumers
      PROVE  /\ UserQueue(c) = Seen(View, items[c], c \in todo, buffer[p])
             /\ UserQueue(c)' = Seen(View, items[c], c \in todo', buffer[p])
             /\ items[c] \in Seq(Block)
             /\ c \in todo => buffer[p] \in Block
             /\ View \in [Block -> Values]
  BY <1>1, QueueSeen, QueueSeenNext, MemKept
<1>3. ASSUME NEW c \in Consumers, c # d PROVE UserQueue(c)' = UserQueue(c)
  BY <1>1, <1>2, <1>3 DEF Seen
<1>4. PICK b \in Block : b = buffer[p] BY <1>1, <1>2
<1>5. /\ UserQueue(d) = Append(Contents(View, items[d]), View[b])
      /\ UserQueue(d)' = Contents(View, items[d])
      /\ Contents(View, items[d]) \in Seq(Values)
      /\ View[b] \in Values
  <2>1. UserQueue(d) = Seen(View, items[d], TRUE, b) BY <1>1, <1>2, <1>4 DEF Seen
  <2>2. UserQueue(d)' = Seen(View, items[d], FALSE, b) BY <1>1, <1>2, <1>4 DEF Seen
  <2>3. View \in [Block -> Values] /\ items[d] \in Seq(Block) BY <1>2
  <2>4. /\ Seen(View, items[d], TRUE, b) = Append(Contents(View, items[d]), View[b])
        /\ Seen(View, items[d], FALSE, b) = Contents(View, items[d])
        /\ Contents(View, items[d]) \in Seq(Values)
    BY <2>3, SeenFacts
  <2>5. View[b] \in Values BY <2>3
  <2> QED BY <2>1, <2>2, <2>4, <2>5, Zenon
<1>6. /\ UserQueue(d) # << >>
      /\ UserQueue(d)' = SubSeq(UserQueue(d), 1, Len(UserQueue(d)) - 1)
  BY <1>5, LastFacts
<1>7. \A c \in Consumers : UserItem(c)' = UserItem(c) BY <1>1, MemKept
<1>8. [c \in Consumers |-> UserQueue(c)']
        = [[c \in Consumers |-> UserQueue(c)] EXCEPT
             ![d] = SubSeq(@, 1, Len(@) - 1)]
  BY <1>3, <1>6
<1> QED BY <1>1, <1>6, <1>7, <1>8 DEF Multicast!Miss

LEMMA TakeStep ==
  ASSUME MInv, MInv', NEW d \in Consumers, PopItem(d)
  PROVE  Multicast!Take(d)
<1>1. /\ UNCHANGED <<mem, consumers, todo, owner, buffer>>
      /\ items[d] # << >> /\ pc[d] = "get"
      /\ items' = [items EXCEPT ![d] = Tail(@)]
      /\ item' = [item EXCEPT ![d] = Head(items[d])]
      /\ items \in [Consumers -> Seq(Block)] /\ item \in [Consumers -> Block \cup {None}]
  BY DEF MInv, IInv, PopItem, pvars, lvars, TypeOK
<1>2. item[d] = None BY <1>1 DEF MInv, IInv, CallState
<1>3. UserItem(d) = None BY <1>2 DEF UserItem
<1>4. ASSUME NEW c \in Consumers
      PROVE  /\ UserQueue(c) = Seen(View, items[c], c \in todo, buffer[owner])
             /\ UserQueue(c)' = Seen(View, items'[c], c \in todo, buffer[owner])
             /\ items[c] \in Seq(Block)
             /\ c \in todo => buffer[owner] \in Block
             /\ View \in [Block -> Values]
  BY <1>1, QueueSeen, QueueSeenNext, MemKept
<1>5. PICK q \in Seq(Block) : q = items[d] BY <1>4
<1>6. /\ q # << >> /\ Head(q) \in Block /\ Tail(q) \in Seq(Block)
      /\ items'[d] = Tail(q) /\ item'[d] = Head(q)
  BY <1>1, <1>5, TailFacts
<1>7. /\ Contents(View, q) \in Seq(Values)
      /\ Contents(View, q) # << >>
      /\ Head(Contents(View, q)) = View[Head(q)]
      /\ Tail(Contents(View, q)) = Contents(View, Tail(q))
  <2>1. Contents(View, q) \in Seq(Values) BY <1>4, <1>6, SeenFacts
  <2> QED BY <1>4, <1>6, <2>1, ContentsTail
<1>8. /\ UserQueue(d) # << >>
      /\ Head(UserQueue(d)) = View[Head(q)]
      /\ UserQueue(d)' = Tail(UserQueue(d))
  <2>1. CASE d \in todo
    <3>1. PICK b \in Block : b = buffer[owner] BY <1>4, <2>1
    <3>2. /\ UserQueue(d) = Seen(View, q, TRUE, b)
          /\ UserQueue(d)' = Seen(View, Tail(q), TRUE, b)
      BY <1>4, <1>5, <1>6, <2>1, <3>1 DEF Seen
    <3>3. /\ UserQueue(d) = Append(Contents(View, q), View[b])
          /\ UserQueue(d)' = Append(Contents(View, Tail(q)), View[b])
          /\ View[b] \in Values
      <4>0. View \in [Block -> Values] BY <1>4
      <4>1. Seen(View, q, TRUE, b) = Append(Contents(View, q), View[b])
        BY <4>0, SeenFacts
      <4>2. Seen(View, Tail(q), TRUE, b) = Append(Contents(View, Tail(q)), View[b])
        BY <1>6, <4>0, SeenFacts
      <4>3. View[b] \in Values BY <4>0
      <4> QED BY <3>2, <4>1, <4>2, <4>3, Zenon
    <3> QED BY <1>7, <3>3, LastFacts
  <2>2. CASE d \notin todo
    <3>1. PICK b \in Block : TRUE BY <1>6
    <3>2. /\ UserQueue(d) = Seen(View, q, FALSE, b)
          /\ UserQueue(d)' = Seen(View, Tail(q), FALSE, b)
      <4>1. \A r : Seen(View, r, d \in todo, buffer[owner]) = Seen(View, r, FALSE, b)
        BY <2>2 DEF Seen
      <4>2. /\ UserQueue(d) = Seen(View, q, d \in todo, buffer[owner])
            /\ UserQueue(d)' = Seen(View, Tail(q), d \in todo, buffer[owner])
        BY <1>4, <1>5, <1>6
      <4> QED BY <4>1, <4>2
    <3>3. /\ UserQueue(d) = Contents(View, q)
          /\ UserQueue(d)' = Contents(View, Tail(q))
      <4>0. View \in [Block -> Values] BY <1>4
      <4>1. Seen(View, q, FALSE, b) = Contents(View, q)
        BY <4>0, SeenFacts
      <4>2. Seen(View, Tail(q), FALSE, b) = Contents(View, Tail(q))
        BY <1>6, <4>0, SeenFacts
      <4> QED BY <3>2, <4>1, <4>2, Zenon
    <3> QED BY <1>7, <3>3
  <2> QED BY <2>1, <2>2
<1>9. UserItem(d)' = View[Head(q)]
  <2>1. item'[d] # None BY <1>6, TaskFacts
  <2>2. PICK b \in Block : b = Head(q) BY <1>6
  <2>3. Content(b)' = Content(b) BY <1>1, MemKept
  <2>4. UserItem(d)' = Content(b)' BY <1>6, <2>1, <2>2 DEF UserItem, Content
  <2> QED BY <2>2, <2>3, <2>4 DEF View
<1>10. \A c \in Consumers : c # d =>
         UserQueue(c)' = UserQueue(c) /\ UserItem(c)' = UserItem(c)
  BY <1>1, <1>4, MemKept
<1>11. [c \in Consumers |-> UserQueue(c)']
         = [[c \in Consumers |-> UserQueue(c)] EXCEPT ![d] = Tail(@)]
  BY <1>8, <1>10
<1>12. [c \in Consumers |-> UserItem(c)']
         = [[c \in Consumers |-> UserItem(c)] EXCEPT ![d] = Head(UserQueue(d))]
  BY <1>8, <1>9, <1>10
<1> QED BY <1>1, <1>3, <1>8, <1>11, <1>12 DEF Multicast!Take

LEMMA GiveBackStep ==
  ASSUME MInv, MInv', NEW d \in Consumers, PutItem(d)
  PROVE  Multicast!GiveBack(d)
<1> USE DEF MInv, IInv
<1>1. /\ UNCHANGED <<mem, consumers, items, todo, owner, buffer>>
      /\ item' = [item EXCEPT ![d] = None]
      /\ item[d] # None /\ item[d] \in Block /\ item \in [Consumers -> Block \cup {None}]
  BY DEF PutItem, pvars, lvars, TypeOK, CallState
<1>2. PICK b \in Held(d) : b = item[d] BY <1>1 DEF Held
<1>3. UserItem(d) # None
  <2>1. UserItem(d) = Content(b) BY <1>1, <1>2 DEF UserItem
  <2>2. Full(b) /\ b \in Block BY <1>1, <1>2 DEF AllWritten
  <2> QED BY <2>1, <2>2, ContentFacts
<1>4. UserItem(d)' = None BY <1>1 DEF UserItem
<1>5. \A c \in Consumers : c # d => UserItem(c)' = UserItem(c) BY <1>1, MemKept
<1>6. ASSUME NEW c \in Consumers PROVE UserQueue(c)' = UserQueue(c)
  BY <1>1, QueueSeen, QueueSeenNext, MemKept
<1>7. [c \in Consumers |-> UserQueue(c)'] = [c \in Consumers |-> UserQueue(c)]
  BY <1>6
<1>8. [c \in Consumers |-> UserItem(c)']
         = [[c \in Consumers |-> UserItem(c)] EXCEPT ![d] = None]
  BY <1>4, <1>5
<1> QED BY <1>1, <1>3, <1>7, <1>8 DEF Multicast!GiveBack

LEMMA SubscribeStep ==
  ASSUME MInv, MInv', NEW d \in Consumers, SetupConsumer(d)
  PROVE  Multicast!Subscribe(d)
<1> USE DEF MInv, IInv
<1>1. /\ UNCHANGED <<mem, items, item, todo, owner, buffer>>
      /\ consumers' = consumers \cup {d} /\ d \notin consumers
  BY DEF SetupConsumer, pvars, lvars, Subscribed
<1>2. \A c \in Consumers : UserItem(c)' = UserItem(c) BY <1>1, MemKept
<1>3. ASSUME NEW c \in Consumers PROVE UserQueue(c)' = UserQueue(c)
  BY <1>1, QueueSeen, QueueSeenNext, MemKept
<1>4. [c \in Consumers |-> UserQueue(c)'] = [c \in Consumers |-> UserQueue(c)]
  BY <1>3
<1>5. [c \in Consumers |-> UserItem(c)'] = [c \in Consumers |-> UserItem(c)]
  BY <1>2
<1> QED BY <1>1, <1>4, <1>5 DEF Multicast!Subscribe

LEMMA LeaveStep ==
  ASSUME MInv, MInv', NEW d \in Consumers, CloseConsumer(d)
  PROVE  Multicast!Leave(d)
<1> USE DEF MInv, IInv
<1>1. /\ UNCHANGED <<mem, todo, owner, buffer>>
      /\ consumers' = consumers \ {d} /\ d \in consumers /\ todo = {}
      /\ items' = [items EXCEPT ![d] = << >>] /\ item' = [item EXCEPT ![d] = None]
      /\ items \in [Consumers -> Seq(Block)] /\ item \in [Consumers -> Block \cup {None}]
  BY DEF CloseConsumer, MutexFree, CallState, pvars, lvars, Subscribed, TypeOK
<1>2. UserItem(d)' = None BY <1>1 DEF UserItem
<1>3. \A c \in Consumers : c # d => UserItem(c)' = UserItem(c) BY <1>1, MemKept
<1>4. ASSUME NEW c \in Consumers, c # d PROVE UserQueue(c)' = UserQueue(c)
  BY <1>1, <1>4, QueueSeen, QueueSeenNext, MemKept
<1>5. UserQueue(d)' = << >> BY <1>1 DEF UserQueue
<1>6. [c \in Consumers |-> UserQueue(c)']
        = [[c \in Consumers |-> UserQueue(c)] EXCEPT ![d] = << >>]
  BY <1>4, <1>5
<1>7. [c \in Consumers |-> UserItem(c)']
         = [[c \in Consumers |-> UserItem(c)] EXCEPT ![d] = None]
  BY <1>2, <1>3
<1> QED BY <1>1, <1>6, <1>7 DEF Multicast!Leave

(* Every other step is one that no user sees.                                *)
LEMMA ProducerQuiet ==
  ASSUME MInv, MInv', NEW p \in Producers, ProducerStep(p) \/ ProducerChoice(p),
         ~PutBuffer(p), \A m \in Msg : ~Fill(p, m),
         \A c \in Consumers : ~Link(p, c) /\ ~LinkFails(p, c)
  PROVE  UNCHANGED Multicast!vars
<1> USE DEF MInv, IInv
<1>1. UNCHANGED <<mem, consumers, items, item>> BY ProducerLists
<1>2. todo' = todo /\ (todo # {} => owner' = owner /\ buffer'[owner] = buffer[owner])
  <2>1. todo # {} => owner \in Producers /\ pc[owner] = "put"
    BY HeldFacts DEF TypeOK
  <2>2. todo' = todo /\ (todo # {} => owner' = owner)
    BY DEF lvars, ProducerStep, ProducerChoice, Sleep, LimitPassed, AllocPages,
       AllocFails, AddBuffer, GetBufferReturns, PutBufferReturns, SetupProducer,
       CloseProducer, Interrupted, GetBuffer, AddBufferFails, GetBufferFaults
  <2>3. todo # {} => buffer'[owner] = buffer[owner]
    <3>1. ASSUME pc[p] = "put", todo # {} PROVE buffer' = buffer
      BY <3>1 DEF pvars, ProducerStep, ProducerChoice, Sleep, LimitPassed, AllocPages,
         AllocFails, AddBuffer, GetBufferReturns, PutBufferReturns, SetupProducer,
         CloseProducer, Interrupted, GetBuffer, AddBufferFails, GetBufferFaults
    <3> QED BY <2>1, <3>1, ProducerLists
  <2> QED BY <2>2, <2>3
<1> QED BY <1>1, <1>2, QuietStep

LEMMA ConsumerQuiet ==
  ASSUME MInv, MInv', NEW c \in Consumers, ConsumerStep(c) \/ ConsumerChoice(c),
         ~SetupConsumer(c), ~PopItem(c), ~PutItem(c), ~CloseConsumer(c)
  PROVE  UNCHANGED Multicast!vars
<1>1. UNCHANGED <<mem, consumers, items, item, todo, owner, buffer>>
  BY TaskFacts
  DEF ConsumerStep, ConsumerChoice, Sleep, GetItemReturns, CloseConsumerWakes,
      Interrupted, GetItem, cvars, pvars, lvars
<1> QED BY <1>1, QuietStep

\* The driver implements the multicast queue: whatever is published reaches
\* every consumer subscribed, in one order, unmodified until it is given back,
\* although no message is ever copied.
THEOREM Implements == Spec => MulticastSpec
<1>1. Init => Multicast!Init
  <2> SUFFICES ASSUME Init PROVE Multicast!Init
    OBVIOUS
  <2>1. \A c \in Consumers : UserQueue(c) = << >> /\ UserItem(c) = None
    BY DEF Init, UserQueue, UserItem
  <2> QED BY <2>1, VmqAssumption DEF Init, Multicast!Init
<1>2. ASSUME MInv, MInv', [Next]_vars PROVE [Multicast!Next]_(Multicast!vars)
  <2>1. CASE UNCHANGED vars
    <3>1. UNCHANGED <<mem, consumers, items, item, todo, owner, buffer>>
      BY <2>1 DEF vars, cvars, lvars, pvars
    <3> QED BY <1>2, <3>1, QuietStep
  <2>2. ASSUME NEW p \in Producers, ProducerStep(p) \/ ProducerChoice(p)
        PROVE  [Multicast!Next]_(Multicast!vars)
    <3>1. CASE PutBuffer(p) BY <1>2, <3>1, PublishStep DEF Multicast!Next
    <3>2. CASE \E m \in Msg : Fill(p, m) BY <1>2, <3>2, FillStep
    <3>3. CASE \E c \in Consumers : Link(p, c) BY <1>2, <3>3, LinkStep
    <3>4. CASE \E c \in Consumers : LinkFails(p, c)
      BY <1>2, <3>4, MissStep DEF Multicast!Next
    <3> QED BY <1>2, <2>2, <3>1, <3>2, <3>3, <3>4, ProducerQuiet
  <2>3. ASSUME NEW c \in Consumers, ConsumerStep(c) \/ ConsumerChoice(c)
        PROVE  [Multicast!Next]_(Multicast!vars)
    <3>1. CASE SetupConsumer(c) BY <1>2, <3>1, SubscribeStep DEF Multicast!Next
    <3>2. CASE PopItem(c) BY <1>2, <3>2, TakeStep DEF Multicast!Next
    <3>3. CASE PutItem(c) BY <1>2, <3>3, GiveBackStep DEF Multicast!Next
    <3>4. CASE CloseConsumer(c) BY <1>2, <3>4, LeaveStep DEF Multicast!Next
    <3> QED BY <1>2, <2>3, <3>1, <3>2, <3>3, <3>4, ConsumerQuiet
  <2> QED BY <1>2, <2>1, <2>2, <2>3 DEF Next
<1> QED BY <1>1, <1>2, InitMInv, MStep, PTL DEF Spec, MulticastSpec, Multicast!Spec

------------------------------------------------------------------------------
(* Balloc, for segments of every size                                        *)

------------------------------------------------------------------------------
(* The index arithmetic of buddies                                           *)

LEMMA StartFacts ==
  ASSUME NEW i \in Nat, NEW k \in Nat
  PROVE  /\ StartAt(i, k) \in Nat /\ Multiple(StartAt(i, k), Pow2[k])
         /\ StartAt(i, k) <= i /\ i < StartAt(i, k) + Pow2[k]
         /\ \A t \in Int : Multiple(t, Pow2[k]) /\ t <= i /\ i < t + Pow2[k]
              => t = StartAt(i, k)
<1>1. PICK p \in Nat \ {0} : p = Pow2[k] BY Pow2Facts
<1>0. /\ i % p \in 0 .. p - 1 /\ Multiple(i - (i % p), p)
      /\ \A t \in Int :
           Multiple(t, p) /\ t <= i /\ i < t + p => t = i - (i % p)
  <2>1. i \in Int OBVIOUS
  <2> QED BY <2>1, Remainder, Zenon
<1>2. PICK r \in 0 .. p - 1 : r = i % p BY <1>0
<1>3. /\ Multiple(i - r, p)
      /\ \A t \in Int : Multiple(t, p) /\ t <= i /\ i < t + p => t = i - r
  BY <1>0, <1>2, Zenon
<1>4. i - r \in Int /\ i - r <= i /\ i < (i - r) + p BY <1>2
<1>5. i - r >= 0
  BY <1>3, <1>4, ZeroAndSelf, MultipleFacts
<1>6. StartAt(i, k) = i - r BY <1>1, <1>2 DEF StartAt
<1> QED BY <1>1, <1>3, <1>4, <1>5, <1>6

\* A page whose index is a multiple of the size starts the lower or the upper
\* half of a pair.
LEMMA Half ==
  ASSUME NEW i \in Nat, NEW k \in Nat, Multiple(i, Pow2[k])
  PROVE  IF Upper(i, k)
         THEN i - Pow2[k] \in Nat /\ Multiple(i - Pow2[k], Pow2[k + 1])
         ELSE Multiple(i, Pow2[k + 1])
<1>1. PICK p \in Nat \ {0} : p = Pow2[k] /\ Pow2[k + 1] = 2 * p BY Pow2Facts
<1>2. PICK q \in Int : i = q * p BY <1>1 DEF Multiple
<1>3. q >= 0 BY <1>2
<1>4. i \div p = q BY <1>2, Quotient
<1>5. PICK r \in Int : q = 2 * r \/ q = 2 * r + 1
  <2>1. q = 2 * (q \div 2) \/ q = 2 * (q \div 2) + 1 OBVIOUS
  <2> QED BY <2>1
<1>6. Upper(i, k) <=> q % 2 = 1 BY <1>1, <1>4 DEF Upper
<1>7. CASE q = 2 * r
  <2>1. q % 2 = 0 BY <1>7
  <2>2. i = r * (2 * p) BY <1>2, <1>7
  <2> QED BY <1>1, <1>6, <2>1, <2>2 DEF Multiple
<1>8. CASE q = 2 * r + 1
  <2>1. q % 2 = 1 BY <1>8
  <2>2. r >= 0 BY <1>3, <1>8
  <2>3. i - p = r * (2 * p) BY <1>2, <1>8
  <2>4. i - p >= 0 BY <2>2, <2>3
  <2>5. Multiple(i - p, 2 * p) BY <2>3 DEF Multiple
  <2> QED BY <1>1, <1>6, <2>1, <2>4, <2>5
<1> QED BY <1>5, <1>7, <1>8

\* The buddies of a pair name each other.
LEMMA Pair ==
  ASSUME NEW a \in Nat, NEW k \in Nat, Multiple(a, Pow2[k + 1])
  PROVE  /\ Multiple(a, Pow2[k]) /\ Multiple(a + Pow2[k], Pow2[k])
         /\ Xor(a, k) = a + Pow2[k] /\ Xor(a + Pow2[k], k) = a
<1>1. PICK p \in Nat \ {0} : p = Pow2[k] /\ Pow2[k + 1] = 2 * p BY Pow2Facts
<1>2. Multiple(2 * p, p) BY DEF Multiple
<1>3. Multiple(a, p) BY <1>1, <1>2, MultipleOfMultiple
<1>4. Multiple(a + p, p) BY <1>3, ZeroAndSelf, MultipleFacts
<1>a. PICK d \in Nat \ {0} : d = 2 * p OBVIOUS
<1>b. Multiple(a, d) BY <1>1, <1>a
<1>5. ~Multiple(a - p, 2 * p)
  <2>1. PICK b \in Int : b = a - p OBVIOUS
  <2>2. b < a /\ ~(b + d <= a) BY <1>a, <2>1
  <2> QED BY <1>a, <1>b, <2>1, <2>2, MultipleFacts
<1>6. ~Multiple(a + p, 2 * p)
  <2>1. PICK b \in Int : b = a + p OBVIOUS
  <2>2. a < b /\ ~(a + d <= b) BY <1>a, <2>1
  <2> QED BY <1>a, <1>b, <2>1, <2>2, MultipleFacts
<1>7. ~Upper(a, k) BY <1>1, <1>3, <1>5, Half
<1>8. Upper(a + p, k)
  <2>1. a + p \in Nat OBVIOUS
  <2> QED BY <2>1, <1>1, <1>4, <1>6, Half
<1> QED BY <1>1, <1>3, <1>4, <1>7, <1>8 DEF Xor

LEMMA Buddies ==
  ASSUME NEW i \in Nat, NEW k \in Nat, Multiple(i, Pow2[k])
  PROVE  \E a \in Nat : /\ Multiple(a, Pow2[k + 1])
                        /\ \/ (i = a /\ Xor(i, k) = a + Pow2[k])
                           \/ (i = a + Pow2[k] /\ Xor(i, k) = a)
<1>1. Pow2[k] \in Nat \ {0} BY Pow2Facts
<1>2. CASE Upper(i, k)
  <2>1. i - Pow2[k] \in Nat /\ Multiple(i - Pow2[k], Pow2[k + 1]) BY <1>2, Half
  <2>2. i = (i - Pow2[k]) + Pow2[k] BY <1>1
  <2>3. Xor(i, k) = i - Pow2[k] BY <1>2 DEF Xor
  <2> QED BY <2>1, <2>2, <2>3
<1>3. CASE ~Upper(i, k)
  BY <1>3, Half DEF Xor
<1> QED BY <1>2, <1>3

\* Two blocks that start at multiples of their sizes are apart or one in the
\* other.
LEMMA Nested ==
  ASSUME NEW i \in Nat, NEW k \in Nat, NEW j \in Nat, NEW m \in Nat,
         Multiple(i, Pow2[k]), Multiple(j, Pow2[m]), k <= m
  PROVE  \/ i + Pow2[k] <= j \/ j + Pow2[m] <= i
         \/ (j <= i /\ i + Pow2[k] <= j + Pow2[m])
<1>1. PICK p \in Nat \ {0} : p = Pow2[k] BY Pow2Facts
<1>2. PICK q \in Nat \ {0} : q = Pow2[m] BY Pow2Facts
<1>3. Multiple(q, p) BY <1>1, <1>2, Pow2Divides
<1>4. Multiple(j, p) BY <1>1, <1>2, <1>3, MultipleOfMultiple
<1>5. Multiple(j + q, p) BY <1>3, <1>4, MultipleFacts
<1>6. i < j => i + p <= j BY <1>1, <1>4, MultipleFacts
<1>7. i < j + q => i + p <= j + q BY <1>1, <1>5, MultipleFacts
<1> QED BY <1>1, <1>2, <1>6, <1>7

------------------------------------------------------------------------------
(* Tilings                                                                   *)

\* The blocks that start at H, of the orders o, cover every page once.
Tiling(H, o) ==
  /\ H \subseteq Pages
  /\ \A h \in H : o[h] \in Nat /\ Multiple(h, Pow2[o[h]])
  /\ \A h, g \in H : h < g => h + Pow2[o[h]] <= g
  /\ \A x \in Pages : \E h \in H : h <= x /\ x < h + Pow2[o[h]]

LEMMA PageFacts ==
  /\ NPages \in Nat \ {0} /\ MaxOrder \in Nat
  /\ \A x \in Pages : x \in Nat /\ x < NPages
  /\ \A x \in Nat : x < NPages => x \in Pages
BY GeometryAssumption DEF Pages

LEMMA TilingFacts ==
  ASSUME NEW H, NEW o, Tiling(H, o)
  PROVE  /\ \A h \in H : h \in Pages /\ h \in Nat /\ o[h] \in Nat
                       /\ Multiple(h, Pow2[o[h]]) /\ Pow2[o[h]] \in Nat \ {0}
         /\ \A h, g \in H : h < g => h + Pow2[o[h]] <= g
         /\ \A x \in Pages : \E h \in H : h <= x /\ x < h + Pow2[o[h]]
<1>1. \A h \in H : h \in Pages /\ h \in Nat /\ o[h] \in Nat
                 /\ Multiple(h, Pow2[o[h]]) /\ Pow2[o[h]] \in Nat \ {0}
  BY Pow2Facts DEF Tiling, Pages
<1> QED BY <1>1, Zenon DEF Tiling

\* The buddy of a block starts a block, whatever its entry says.
LEMMA BuddyIsHead ==
  ASSUME NEW H, NEW o, Tiling(H, o), NEW i \in H, Xor(i, o[i]) \in Pages
  PROVE  Xor(i, o[i]) \in H
<1>1. PICK k \in Nat : k = o[i] /\ Multiple(i, Pow2[k]) BY DEF Tiling
<1>2. i \in Nat BY DEF Tiling, Pages
<1>3. PICK a \in Nat : /\ Multiple(a, Pow2[k + 1])
                       /\ \/ (i = a /\ Xor(i, k) = a + Pow2[k])
                          \/ (i = a + Pow2[k] /\ Xor(i, k) = a)
  BY <1>1, <1>2, Buddies
<1>4. PICK g \in Nat : g = Xor(i, k) /\ g \in Pages /\ g # i
  BY <1>1, <1>3, Pow2Facts DEF Pages
<1>5. PICK h \in H : h <= g /\ g < h + Pow2[o[h]] BY <1>4 DEF Tiling
<1>6. PICK m \in Nat : m = o[h] /\ Multiple(h, Pow2[m]) BY DEF Tiling
<1>7. h \in Nat BY DEF Tiling, Pages
<1>8. Multiple(g, Pow2[k])
  <2>1. Multiple(a, Pow2[k]) /\ Multiple(a + Pow2[k], Pow2[k]) BY <1>3, Pair
  <2>2. g = a \/ g = a + Pow2[k] BY <1>3, <1>4
  <2> QED BY <2>1, <2>2, Zenon
<1>9. CASE m <= k
  <2>1. PICK q \in Nat \ {0} : q = Pow2[m] BY Pow2Facts
  <2>2. PICK p \in Nat \ {0} : p = Pow2[k] BY Pow2Facts
  <2>3. Multiple(p, q) BY <1>9, <2>1, <2>2, Pow2Divides
  <2>4. Multiple(g, q) BY <1>8, <2>2, <2>3, MultipleOfMultiple
  <2>5. h < g => h + q <= g
    BY <1>6, <1>7, <2>4, <2>1, MultipleFacts
  <2>6. h = g BY <1>4, <1>5, <1>6, <1>7, <2>1, <2>5
  <2> QED BY <1>1, <1>4, <2>6
<1>10. CASE k < m
  <2>1. \/ a + Pow2[k + 1] <= h \/ h + Pow2[m] <= a
        \/ (h <= a /\ a + Pow2[k + 1] <= h + Pow2[m])
    BY <1>3, <1>6, <1>7, <1>10, Nested
  <2>2. PICK p \in Nat \ {0} : p = Pow2[k] /\ Pow2[k + 1] = 2 * p BY Pow2Facts
  <2>3. h <= i /\ i < h + Pow2[m]
    BY <1>3, <1>4, <1>5, <1>6, <1>7, <2>1, <2>2, Pow2Facts
  <2>4. i = h BY <1>2, <1>6, <1>7, <2>3, Pow2Facts DEF Tiling
  <2> QED BY <1>1, <1>6, <1>10, <2>4
<1> QED BY <1>9, <1>10

\* Half of a block and the other half; what lies past the segment is not part
\* of it.
LEMMA Halve ==
  ASSUME NEW H, NEW o, Tiling(H, o), NEW b \in H, NEW m \in Nat, o[b] = m + 1,
         NEW u, u = [x \in Pages |-> IF x = b \/ x = b + Pow2[m] THEN m ELSE o[x]],
         NEW G, G = {x \in Pages : x \in H \/ x = b + Pow2[m]}
  PROVE  Tiling(G, u)
<1>1. PICK p \in Nat \ {0} : p = Pow2[m] /\ Pow2[m + 1] = 2 * p BY Pow2Facts
<1>2. b \in Nat /\ b \in Pages /\ Multiple(b, Pow2[m + 1]) BY DEF Tiling, Pages
<1>3. PICK c \in Nat : c = b + p BY <1>2
<1>4. Multiple(b, p) /\ Multiple(c, p) BY <1>1, <1>2, <1>3, Pair
<1>5. /\ \A h \in H : h \in Pages /\ h \in Nat /\ o[h] \in Nat
                     /\ Multiple(h, Pow2[o[h]]) /\ Pow2[o[h]] \in Nat \ {0}
      /\ \A h, g \in H : h < g => h + Pow2[o[h]] <= g
      /\ \A x \in Pages : \E h \in H : h <= x /\ x < h + Pow2[o[h]]
  BY TilingFacts
<1>6. \A h \in H : b < h => b + 2 * p <= h BY <1>1, <1>5
<1>7. c \notin H BY <1>1, <1>2, <1>3, <1>6
<1>8. /\ \A x \in G : u[x] = IF x = b \/ x = c THEN m ELSE o[x]
      /\ \A x : x \in G <=> x \in H \/ (x = c /\ c \in Pages)
  BY <1>1, <1>3, <1>5
<1>9. \A h \in G : u[h] \in Nat /\ Multiple(h, Pow2[u[h]])
  BY <1>1, <1>4, <1>5, <1>8
<1>10. ASSUME NEW h \in G, NEW g \in G, h < g PROVE h + Pow2[u[h]] <= g
  <2>1. CASE h = b \/ h = c
    <3>1. Pow2[u[h]] = p BY <1>1, <1>8, <2>1
    <3>2. h = b => h + p <= g BY <1>1, <1>2, <1>3, <1>6, <1>8, <1>10, <1>5
    <3>3. h = c => h + p <= g BY <1>1, <1>2, <1>3, <1>6, <1>8, <1>10, <1>5
    <3> QED BY <2>1, <3>1, <3>2, <3>3
  <2>2. CASE h # b /\ h # c
    <3>1. h \in H /\ u[h] = o[h] BY <1>8, <2>2
    <3>2. CASE g \in H BY <1>5, <1>10, <3>1, <3>2
    <3>3. CASE g = c
      <4>1. h < b BY <1>1, <1>2, <1>3, <1>5, <1>6, <1>10, <2>2, <3>1, <3>3
      <4>2. h + Pow2[o[h]] <= b BY <1>5, <3>1, <4>1
      <4> QED BY <1>2, <1>3, <1>5, <3>1, <3>3, <4>2
    <3> QED BY <1>8, <3>2, <3>3
  <2> QED BY <2>1, <2>2
<1>11. ASSUME NEW x \in Pages PROVE \E h \in G : h <= x /\ x < h + Pow2[u[h]]
  <2>1. PICK h \in H : h <= x /\ x < h + Pow2[o[h]] BY <1>5
  <2>2. CASE h # b
    <3>1. h \in G /\ u[h] = o[h] BY <1>7, <1>8, <2>2
    <3> QED BY <2>1, <3>1
  <2>3. CASE h = b /\ x < c
    <3>1. b \in G /\ Pow2[u[b]] = p BY <1>1, <1>8
    <3> QED BY <1>3, <2>1, <2>3, <3>1
  <2>4. CASE h = b /\ c <= x
    <3>1. c \in Pages BY <2>4, PageFacts
    <3>2. c \in G /\ Pow2[u[c]] = p BY <1>1, <1>8, <3>1
    <3>3. x < c + p
      <4>1. Pow2[o[h]] = 2 * p BY <1>1, <2>4
      <4>2. x \in Nat /\ x < b + 2 * p BY <2>1, <2>4, <4>1, PageFacts
      <4> QED BY <1>2, <1>3, <4>2
    <3> QED BY <2>4, <3>2, <3>3
  <2> QED BY <1>3, <2>2, <2>3, <2>4 DEF Pages
<1>12. G \subseteq Pages OBVIOUS
<1> QED BY <1>9, <1>10, <1>11, <1>12 DEF Tiling

\* A block and its buddy of the same order; a is the lower of them, the upper
\* one may lie past the segment.
LEMMA Join ==
  ASSUME NEW H, NEW o, Tiling(H, o), NEW m \in Nat,
         NEW a \in H, o[a] = m, Multiple(a, Pow2[m + 1]),
         a + Pow2[m] \in Pages => a + Pow2[m] \in H /\ o[a + Pow2[m]] = m,
         NEW u, u = [x \in Pages |-> IF x = a \/ x = a + Pow2[m] THEN m + 1 ELSE o[x]],
         NEW G, G = {x \in H : x # a + Pow2[m]}
  PROVE  Tiling(G, u)
<1>1. PICK p \in Nat \ {0} : p = Pow2[m] /\ Pow2[m + 1] = 2 * p BY Pow2Facts
<1>2. a \in Nat /\ a \in Pages BY DEF Tiling, Pages
<1>3. PICK c \in Nat : c = a + p BY <1>2
<1>5. /\ \A h \in H : h \in Pages /\ h \in Nat /\ o[h] \in Nat
                     /\ Multiple(h, Pow2[o[h]]) /\ Pow2[o[h]] \in Nat \ {0}
      /\ \A h, g \in H : h < g => h + Pow2[o[h]] <= g
      /\ \A x \in Pages : \E h \in H : h <= x /\ x < h + Pow2[o[h]]
  BY TilingFacts
<1>6. /\ \A h \in H : a < h => c <= h
      /\ \A h \in H : c < h => c + p <= h
      /\ c \in Pages => c \in H
  <2>1. \A h \in H : a < h => c <= h BY <1>1, <1>3, <1>5
  <2>2. c \in Pages => c \in H /\ Pow2[o[c]] = p BY <1>1, <1>3
  <2>3. ASSUME NEW h \in H, c < h PROVE c + p <= h
    <3>1. c \in Pages BY <1>5, <2>3, PageFacts
    <3> QED BY <1>5, <2>2, <2>3, <3>1
  <2> QED BY <2>1, <2>2, <2>3
<1>8. /\ u[a] = m + 1
      /\ \A x \in G : x # a => u[x] = o[x]
      /\ \A x : x \in G <=> x \in H /\ x # c
      /\ a \in G
  <2>1. u[a] = m + 1 BY <1>2
  <2>2. \A x : x \in G <=> x \in H /\ x # c BY <1>1, <1>3
  <2>3. \A x \in G : x # a => u[x] = o[x] BY <1>1, <1>3, <1>5, <2>2
  <2>4. a \in G BY <1>1, <1>2, <1>3, <2>2
  <2> QED BY <2>1, <2>2, <2>3, <2>4
<1>9. \A h \in G : u[h] \in Nat /\ Multiple(h, Pow2[u[h]])
  <2> TAKE h \in G
  <2>1. CASE h = a
    <3>1. u[h] = m + 1 BY <1>8, <2>1, Zenon
    <3>2. Multiple(h, Pow2[m + 1]) BY <2>1, Zenon
    <3>3. m + 1 \in Nat OBVIOUS
    <3> QED BY <3>1, <3>2, <3>3, Zenon
  <2>2. CASE h # a BY <1>5, <1>8, <2>2
  <2> QED BY <2>1, <2>2
<1>10. ASSUME NEW h \in G, NEW g \in G, h < g PROVE h + Pow2[u[h]] <= g
  <2>1. CASE h = a
    <3>1. Pow2[u[h]] = 2 * p BY <1>1, <1>8, <2>1
    <3>2. c <= g /\ g # c /\ g \in Nat /\ g \in H
      BY <1>5, <1>6, <1>8, <1>10, <2>1
    <3>3. c < g BY <1>3, <3>2
    <3>4. c + p <= g BY <1>6, <3>2, <3>3
    <3> QED BY <1>2, <1>3, <2>1, <3>1, <3>4
  <2>2. CASE h # a BY <1>5, <1>8, <1>10, <2>2
  <2> QED BY <2>1, <2>2
<1>11. ASSUME NEW x \in Pages PROVE \E h \in G : h <= x /\ x < h + Pow2[u[h]]
  <2>1. PICK h \in H : h <= x /\ x < h + Pow2[o[h]] BY <1>5
  <2>2. CASE h = a \/ h = c
    <3>1. Pow2[u[a]] = 2 * p BY <1>1, <1>8
    <3>2. Pow2[o[h]] = p BY <1>1, <1>3, <1>5, <2>2
    <3>3. a <= x /\ x < a + 2 * p BY <1>2, <1>3, <2>1, <2>2, <3>2 DEF Pages
    <3> QED BY <1>8, <3>1, <3>3
  <2>3. CASE h # a /\ h # c
    <3>1. h \in G /\ u[h] = o[h] BY <1>8, <2>3
    <3> QED BY <2>1, <3>1
  <2> QED BY <2>2, <2>3
<1>12. G \subseteq Pages BY DEF Tiling
<1> QED BY <1>9, <1>10, <1>11, <1>12 DEF Tiling

------------------------------------------------------------------------------
(* The walk by BA_NEXT_INDEX                                                 *)

HeadsOf(o) ==
  LET visited[i \in Pages] ==
        i = 0 \/ \E j \in 0 .. i - 1 : visited[j] /\ j + Pow2[o[j]] = i
  IN  {i \in Pages : visited[i]}

\* Every block but the first follows another.
LEMMA NextHead ==
  ASSUME NEW H, NEW o, Tiling(H, o), NEW i \in Pages
  PROVE  i \in H <=> i = 0 \/ \E j \in 0 .. i - 1 : j \in H /\ j + Pow2[o[j]] = i
<1> USE TilingFacts, PageFacts
<1>1. 0 \in H
  <2>1. 0 \in Pages OBVIOUS
  <2>2. PICK h \in H : h <= 0 /\ 0 < h + Pow2[o[h]] BY <2>1
  <2> QED BY <2>2
<1>2. ASSUME i \in H, i # 0
      PROVE  \E j \in 0 .. i - 1 : j \in H /\ j + Pow2[o[j]] = i
  <2>1. i - 1 \in Pages BY <1>2
  <2>2. PICK h \in H : h <= i - 1 /\ i - 1 < h + Pow2[o[h]] BY <2>1
  <2>3. h + Pow2[o[h]] <= i BY <1>2, <2>2
  <2>4. h + Pow2[o[h]] = i /\ h \in 0 .. i - 1 BY <2>2, <2>3
  <2> QED BY <2>4
<1>3. ASSUME NEW j \in 0 .. i - 1, j \in H, j + Pow2[o[j]] = i PROVE i \in H
  <2>1. PICK g \in H : g <= i /\ i < g + Pow2[o[g]] OBVIOUS
  <2>2. i \in Nat /\ j \in Nat /\ g \in Nat /\ j < i BY <1>3
  <2>3. PICK q \in Nat \ {0} : q = Pow2[o[j]] /\ j + q = i BY <1>3
  <2>4. g # j BY <2>1, <2>2, <2>3
  <2>5. ~(g < j)
    <3>1. g < j => g + Pow2[o[g]] <= j BY <1>3, <2>1
    <3>2. PICK r \in Nat \ {0} : r = Pow2[o[g]] BY <2>1
    <3> QED BY <2>1, <2>2, <3>1, <3>2
  <2>6. j < g => i <= g BY <1>3, <2>1, <2>3
  <2>7. g = i BY <2>1, <2>2, <2>4, <2>5, <2>6
  <2> QED BY <2>7
<1> QED BY <1>1, <1>2, <1>3

LEMMA Walk == ASSUME NEW H, NEW o, Tiling(H, o) PROVE HeadsOf(o) = H
<1> DEFINE Good(v) ==
      v = [i \in Pages |->
             i = 0 \/ \E j \in 0 .. i - 1 : v[j] /\ j + Pow2[o[j]] = i]
<1>0. H \subseteq Pages BY DEF Tiling
<1>1. Good([i \in Pages |-> i \in H])
  <2>1. PICK v : v = [i \in Pages |-> i \in H] OBVIOUS
  <2>2. ASSUME NEW i \in Pages
        PROVE  (i \in H) = (i = 0 \/ \E j \in 0 .. i - 1 : v[j] /\ j + Pow2[o[j]] = i)
    <3>1. \A j \in 0 .. i - 1 : j \in Pages BY PageFacts
    <3>2. \A j \in 0 .. i - 1 : v[j] <=> j \in H BY <2>1, <3>1
    <3> QED BY <3>2, NextHead
  <2>3. Good(v) BY <2>1, <2>2, Zenon
  <2> QED BY <2>1, <2>3
<1>2. ASSUME NEW v, Good(v) PROVE \A i \in Pages : v[i] <=> i \in H
  <2>1. \A i \in Pages :
           v[i] = (i = 0 \/ \E j \in 0 .. i - 1 : v[j] /\ j + Pow2[o[j]] = i)
    BY <1>2, Zenon
  <2> DEFINE D == {i \in Pages : ~(v[i] <=> i \in H)}
  <2>2. SUFFICES ASSUME D # {} PROVE FALSE OBVIOUS
  <2>3. D \subseteq Nat BY PageFacts
  <2>4. PICK x \in D : \A y \in D : x <= y
    <3> HIDE DEF D, Good
    <3> QED BY <2>2, <2>3, LeastNumber
  <2>5. \A j \in 0 .. x - 1 : j \in Pages /\ j \notin D BY <2>4, PageFacts
  <2>6. \A j \in 0 .. x - 1 : v[j] <=> j \in H BY <2>5
  <2>7. v[x] <=> x = 0 \/ \E j \in 0 .. x - 1 : j \in H /\ j + Pow2[o[j]] = x
    BY <2>1, <2>6
  <2>8. v[x] <=> x \in H BY <2>7, NextHead
  <2> QED BY <2>8
<1>3. HeadsOf(o) = {i \in Pages : (CHOOSE v : Good(v))[i]}
  BY Zenon DEF HeadsOf
<1>4. PICK v : Good(v) /\ HeadsOf(o) = {i \in Pages : v[i]}
  <2> HIDE DEF Good
  <2> QED BY <1>1, <1>3
<1>5. \A i \in Pages : v[i] <=> i \in H BY <1>2, <1>4
<1>6. {i \in Pages : v[i]} = H
  <2> HIDE DEF Good
  <2> QED BY <1>0, <1>5
<1> QED BY <1>4, <1>6

LEMMA HeadsAre ==
  /\ Heads = HeadsOf(order) /\ Heads' = HeadsOf(order')
BY DEF Heads, HeadsOf

------------------------------------------------------------------------------
(* A split                                                                   *)

LEMMA Smaller ==
  ASSUME NEW j \in Nat, NEW k \in Nat, j < k
  PROVE  /\ Pow2[j] \in Nat \ {0} /\ Pow2[k] \in Nat \ {0}
         /\ Pow2[j] < Pow2[k] /\ 2 * Pow2[j] <= Pow2[k]
BY Pow2Facts, Pow2Divides

\* What ba_alloc writes for a split to order m is what it has written for one
\* to the order above, and one cut more.
LEMMA SplitOnce ==
  ASSUME NEW b \in Nat, NEW m \in Nat, order[b] \in Nat, m < order[b],
         Multiple(b, Pow2[order[b]])
  PROVE  Split(b, m) = [x \in Pages |->
           IF x = b \/ x = b + Pow2[m] THEN m ELSE Split(b, m + 1)[x]]
<1>1. PICK K \in Nat : K = order[b] /\ m < K /\ Multiple(b, Pow2[K]) OBVIOUS
<1>2. ASSUME NEW j \in m .. K - 1 PROVE Xor(b, j) = b + Pow2[j]
  <2>1. j \in Nat /\ j + 1 \in Nat /\ j + 1 <= K BY <1>1
  <2>2. Multiple(Pow2[K], Pow2[j + 1]) BY <1>1, <2>1, Pow2Divides
  <2>3. Pow2[K] \in Int /\ Pow2[j + 1] \in Nat \ {0} BY <2>1, Pow2Facts
  <2>4. Multiple(b, Pow2[j + 1]) BY <1>1, <2>2, <2>3, MultipleOfMultiple
  <2> QED BY <2>1, <2>4, Pair
<1> DEFINE cut(n, x) == {j \in n .. K - 1 : x = Xor(b, j)}
           new(n, x) == IF x = b THEN n
                        ELSE IF cut(n, x) = {} THEN order[x] ELSE Least(cut(n, x))
<1>3. \A n : Split(b, n) = [x \in Pages |-> new(n, x)]
  BY <1>1, Zenon DEF Split
<1>4. ASSUME NEW x \in Pages, x # b, x # b + Pow2[m]
      PROVE  new(m, x) = new(m + 1, x)
  <2>1. ASSUME NEW j \in m .. K - 1, x = Xor(b, j) PROVE j # m
    BY <1>2, <1>4, <2>1
  <2>2. cut(m, x) = cut(m + 1, x) BY <2>1
  <2> HIDE DEF cut
  <2> QED BY <1>4, <2>2
<1>5. ASSUME NEW x \in Pages, x = b + Pow2[m] PROVE new(m, x) = m
  <2>1. \A j \in m .. K - 1 : j # m => Pow2[m] < Pow2[j]
    BY Smaller
  <2>2. \A j \in m .. K - 1 : Pow2[j] \in Nat \ {0} BY Pow2Facts
  <2>3. cut(m, x) = {m} BY <1>1, <1>2, <1>5, <2>1, <2>2
  <2>4. Least({m}) = m BY DEF Least
  <2>5. x # b BY <1>5, Pow2Facts
  <2> HIDE DEF cut
  <2> QED BY <2>3, <2>4, <2>5
<1>6. ASSUME NEW x \in Pages
      PROVE  new(m, x) = IF x = b \/ x = b + Pow2[m] THEN m ELSE Split(b, m + 1)[x]
  <2>1. Split(b, m + 1)[x] = new(m + 1, x) BY <1>3, Zenon
  <2>2. x = b => new(m, x) = m OBVIOUS
  <2> HIDE DEF new
  <2> QED BY <1>4, <1>5, <2>1, <2>2
<1> HIDE DEF new
<1> QED BY <1>3, <1>6

\* The blocks G after a split of the block b of H.
SplitInto(H, G, b, m) ==
  /\ Tiling(G, Split(b, m)) /\ H \subseteq G /\ Split(b, m)[b] = m
  /\ \A h \in H : h # b => Split(b, m)[h] = order[h]
  /\ \A h \in G : h \notin H =>
       \E j \in m .. order[b] - 1 : h = b + Pow2[j] /\ Split(b, m)[h] = j

LEMMA SplitTiles ==
  ASSUME NEW H, Tiling(H, order), NEW b \in H, NEW k \in Nat, k <= order[b],
         order \in [Pages -> Levels]
  PROVE  \E G : SplitInto(H, G, b, k)
<1>1. /\ b \in Nat /\ b \in Pages /\ order[b] \in Nat
      /\ Multiple(b, Pow2[order[b]])
  BY TilingFacts
<1>2. PICK K \in Nat : K = order[b] BY <1>1
<1> DEFINE T == {d \in Nat : d <= K => \E G : SplitInto(H, G, b, K - d)}
<1>3. 0 \in T
  <2>1. Split(b, K) = order
    <3>1. \A x \in Pages : {j \in K .. order[b] - 1 : x = Xor(b, j)} = {}
      BY <1>2
    <3>2. Split(b, K) = [x \in Pages |-> IF x = b THEN K ELSE order[x]]
      BY <3>1 DEF Split
    <3>3. \A x \in Pages : (IF x = b THEN K ELSE order[x]) = order[x] BY <1>2
    <3> QED BY <3>2, <3>3
  <2>2. SplitInto(H, H, b, K) BY <1>2, <2>1 DEF SplitInto
  <2>3. K - 0 = K OBVIOUS
  <2> QED BY <2>2, <2>3
<1>4. ASSUME NEW d \in Nat, d \in T PROVE d + 1 \in T
  <2>1. SUFFICES ASSUME d + 1 <= K PROVE \E G : SplitInto(H, G, b, K - (d + 1))
    OBVIOUS
  <2>2. PICK m \in Nat : m = K - (d + 1) /\ m + 1 = K - d /\ m < K BY <2>1
  <2>3. PICK G : SplitInto(H, G, b, m + 1) BY <1>4, <2>1, <2>2
  <2>4. PICK o : o = Split(b, m + 1) OBVIOUS
  <2>5. PICK u : u = Split(b, m) OBVIOUS
  <2>6. u = [x \in Pages |-> IF x = b \/ x = b + Pow2[m] THEN m ELSE o[x]]
    <3>1. Split(b, m) = [x \in Pages |->
            IF x = b \/ x = b + Pow2[m] THEN m ELSE Split(b, m + 1)[x]]
      BY <1>1, <1>2, <2>2, SplitOnce
    <3> QED BY <2>4, <2>5, <3>1, Zenon
  <2>7. Tiling(G, o) /\ b \in G /\ o[b] = m + 1
    BY <2>3, <2>4 DEF SplitInto
  <2>8. PICK F : F = {x \in Pages : x \in G \/ x = b + Pow2[m]} OBVIOUS
  <2>9. Tiling(F, u)
    BY <2>6, <2>7, <2>8, Halve
  <2>10. ASSUME NEW h \in H PROVE h # b + Pow2[m]
    BY <1>1, <1>2, <2>2, <2>10, Smaller, TilingFacts
  <2>11. H \subseteq F
    BY <2>3, <2>8, TilingFacts DEF SplitInto
  <2>12. \A h \in H : h # b => u[h] = order[h]
    BY <2>3, <2>4, <2>6, <2>10, TilingFacts DEF SplitInto
  <2>13. u[b] = m BY <1>1, <2>6
  <2>14. ASSUME NEW h \in F, h \notin H
         PROVE  \E j \in m .. order[b] - 1 : h = b + Pow2[j] /\ u[h] = j
    <3>1. CASE h = b + Pow2[m]
      <4>1. h \in Pages BY <2>8, <3>1
      <4>2. u[h] = m BY <2>6, <3>1, <4>1
      <4>3. m \in m .. order[b] - 1 BY <1>2, <2>2
      <4> QED BY <3>1, <4>2, <4>3
    <3>2. CASE h # b + Pow2[m]
      <4>1. h \in G /\ h # b BY <2>8, <2>14, <3>2
      <4>2. PICK j \in m + 1 .. order[b] - 1 : h = b + Pow2[j] /\ o[h] = j
        BY <2>3, <2>4, <2>14, <4>1 DEF SplitInto
      <4>3. u[h] = o[h] BY <2>6, <2>8, <3>2, <4>1
      <4> QED BY <1>2, <4>2, <4>3
    <3> QED BY <3>1, <3>2
  <2>15. SplitInto(H, F, b, m)
    BY <2>5, <2>9, <2>11, <2>12, <2>13, <2>14 DEF SplitInto
  <2> QED BY <2>2, <2>15
<1> HIDE DEF T
<1>5. \A d \in Nat : d \in T BY <1>3, <1>4, SetInduction
<1>6. K - k \in T /\ K - k <= K /\ K - (K - k) = k BY <1>2, <1>5
<1> QED BY <1>6 DEF T

------------------------------------------------------------------------------
(* A merge                                                                   *)

LEMMA LeastFacts ==
  ASSUME NEW S, S \subseteq Nat, S # {}
  PROVE  Least(S) \in S /\ \A x \in S : Least(S) <= x
BY LeastNumber DEF Least

LEMMA LargestIs ==
  ASSUME NEW S, S \subseteq Nat, NEW m \in S, \A x \in S : x <= m
  PROVE  Largest(S) = m
<1>1. \A x \in S : (\A y \in S : y <= x) => x = m OBVIOUS
<1> QED BY <1>1 DEF Largest

\* What ba_free writes while it merges up to order m.
Freed(i, m) ==
  [x \in Pages |->
     LET raised == {k \in order[i] .. m - 1 :
                      x \in {StartAt(i, k), Xor(StartAt(i, k), k)}}
     IN  IF raised = {} THEN order[x] ELSE Largest(raised) + 1]

LEMMA FreedOnce ==
  ASSUME NEW i \in Nat, NEW m \in Nat, order[i] \in Nat, order[i] <= m
  PROVE  Freed(i, m + 1) = [x \in Pages |->
           IF x = StartAt(i, m) \/ x = Xor(StartAt(i, m), m) THEN m + 1
           ELSE Freed(i, m)[x]]
<1> DEFINE raised(n, x) == {k \in order[i] .. n - 1 :
                              x \in {StartAt(i, k), Xor(StartAt(i, k), k)}}
           new(n, x) == IF raised(n, x) = {} THEN order[x]
                        ELSE Largest(raised(n, x)) + 1
<1>1. \A n : Freed(i, n) = [x \in Pages |-> new(n, x)]
  BY Zenon DEF Freed
<1>2. PICK f \in Nat : f = order[i] /\ f <= m OBVIOUS
<1>3. ASSUME NEW x \in Pages, x # StartAt(i, m), x # Xor(StartAt(i, m), m)
      PROVE  new(m + 1, x) = new(m, x)
  <2>1. raised(m + 1, x) = raised(m, x) BY <1>2, <1>3
  <2> HIDE DEF raised
  <2> QED BY <2>1
<1>4. ASSUME NEW x \in Pages, x = StartAt(i, m) \/ x = Xor(StartAt(i, m), m)
      PROVE  new(m + 1, x) = m + 1
  <2>1. m \in raised(m + 1, x) BY <1>2, <1>4
  <2>2. raised(m + 1, x) \subseteq Nat /\ \A k \in raised(m + 1, x) : k <= m
    BY <1>2
  <2> HIDE DEF raised
  <2>3. Largest(raised(m + 1, x)) = m BY <2>1, <2>2, LargestIs
  <2> QED BY <2>1, <2>3
<1>5. ASSUME NEW x \in Pages
      PROVE  new(m + 1, x) = IF x = StartAt(i, m) \/ x = Xor(StartAt(i, m), m)
                             THEN m + 1 ELSE Freed(i, m)[x]
  <2>1. Freed(i, m)[x] = new(m, x) BY <1>1, Zenon
  <2> HIDE DEF new
  <2> QED BY <1>3, <1>4, <2>1
<1> HIDE DEF new
<1> QED BY <1>1, <1>5

\* Every block is inside the segment, unless it has swallowed all of it.
InBounds(H, o) ==
  \A h \in H : \/ h + Pow2[o[h]] <= NPages
              \/ (Garbage /\ o[h] > MaxOrder)

\* The blocks G when the block i of H has been merged up to order m.
FreedInto(H, G, i, m) ==
  /\ Tiling(G, Freed(i, m)) /\ InBounds(G, Freed(i, m)) /\ G \subseteq H
  /\ StartAt(i, m) \in G /\ Freed(i, m)[StartAt(i, m)] = m
  /\ \A h \in G : h # StartAt(i, m) => Freed(i, m)[h] = order[h]
  /\ \A h \in busy : h # i => h \in G /\ h # StartAt(i, m)

\* One turn of the loop of ba_free.
LEMMA MergeOnce ==
  ASSUME NEW H, Tiling(H, order), InBounds(H, order), busy \subseteq H,
         order \in [Pages -> Levels],
         NEW i \in busy, NEW m \in Nat, order[i] <= m,
         NEW lies, Garbage \/ lies = {}, Merges(i, m, lies),
         NEW G, FreedInto(H, G, i, m)
  PROVE  \E F : FreedInto(H, F, i, m + 1)
<1>1. i \in Nat /\ i \in H /\ i \in Pages /\ order[i] \in Nat BY TilingFacts
<1>2. PICK p \in Nat \ {0} : p = Pow2[m] /\ Pow2[m + 1] = 2 * p BY Pow2Facts
<1>3. PICK st \in Nat : /\ st = StartAt(i, m) /\ Multiple(st, Pow2[m])
                        /\ st <= i /\ i < st + p
  BY <1>1, <1>2, StartFacts
<1>4. PICK a \in Nat : /\ Multiple(a, Pow2[m + 1])
                       /\ \/ (st = a /\ Xor(st, m) = a + p)
                          \/ (st = a + p /\ Xor(st, m) = a)
  BY <1>2, <1>3, Buddies
<1>5. PICK g \in Nat : g = Xor(st, m) /\ {st, g} = {a, a + p} /\ g # st
  BY <1>2, <1>4
<1>6. PICK o : o = Freed(i, m) OBVIOUS
<1>7. PICK u : u = Freed(i, m + 1) OBVIOUS
<1>8. u = [x \in Pages |-> IF x = a \/ x = a + Pow2[m] THEN m + 1 ELSE o[x]]
  <2>1. u = [x \in Pages |-> IF x = st \/ x = g THEN m + 1 ELSE o[x]]
    <3>1. Freed(i, m + 1) = [x \in Pages |->
            IF x = StartAt(i, m) \/ x = Xor(StartAt(i, m), m) THEN m + 1
            ELSE Freed(i, m)[x]]
      BY <1>1, FreedOnce
    <3> QED BY <1>3, <1>5, <1>6, <1>7, <3>1, Zenon
  <2>2. \A x : (x = st \/ x = g) <=> (x = a \/ x = a + Pow2[m]) BY <1>2, <1>5
  <2> QED BY <2>1, <2>2
<1>9. /\ Tiling(G, o) /\ InBounds(G, o) /\ G \subseteq H
      /\ st \in G /\ o[st] = m
      /\ \A h \in G : h # st => o[h] = order[h]
      /\ \A h \in busy : h # i => h \in G /\ h # st
  BY <1>3, <1>6, Zenon DEF FreedInto
<1>10. g \in Pages => g \notin busy /\ g \in G /\ o[g] = m
  <2>1. SUFFICES ASSUME g \in Pages PROVE g \notin busy /\ g \in G /\ o[g] = m
    OBVIOUS
  <2>2. g \notin busy /\ order[g] = m
    BY <1>3, <1>5, <2>1, PageFacts DEF Merges
  <2>3. g \in G BY <1>5, <1>9, <2>1, BuddyIsHead
  <2> QED BY <1>5, <1>9, <2>2, <2>3
<1>11. g \notin Pages => Garbage /\ a = st /\ g = a + p
  <2>1. SUFFICES ASSUME g \notin Pages PROVE Garbage /\ a = st /\ g = a + p
    OBVIOUS
  <2>2. g >= NPages BY <2>1, PageFacts
  <2>3. m \in lies BY <1>3, <1>5, <2>2, PageFacts DEF Merges
  <2>4. st < NPages BY <1>9, TilingFacts, PageFacts
  <2> QED BY <1>4, <1>5, <2>2, <2>3, <2>4, PageFacts
<1>12. a \in G /\ o[a] = m
  <2>1. CASE a = st BY <1>9, <2>1
  <2>2. CASE a = g BY <1>10, <1>11, <1>5, <2>2
  <2> QED BY <1>5, <2>1, <2>2
<1>13. a + Pow2[m] \in Pages => a + Pow2[m] \in G /\ o[a + Pow2[m]] = m
  BY <1>2, <1>5, <1>9, <1>10
<1>14. PICK F : F = {x \in G : x # a + Pow2[m]} OBVIOUS
<1>15. Tiling(F, u) BY <1>8, <1>9, <1>4, <1>12, <1>13, <1>14, Join
<1>16. a \in F /\ a \in Pages /\ u[a] = m + 1
  <2>1. a \in F BY <1>2, <1>12, <1>14
  <2>2. a \in Pages BY <1>9, <1>12, TilingFacts
  <2> QED BY <1>8, <2>1, <2>2
<1>17. a = StartAt(i, m + 1)
  <2>1. a <= i /\ i < a + 2 * p BY <1>1, <1>2, <1>3, <1>4
  <2>2. \A t \in Int : Multiple(t, Pow2[m + 1]) /\ t <= i /\ i < t + Pow2[m + 1]
          => t = StartAt(i, m + 1)
    <3>1. m + 1 \in Nat OBVIOUS
    <3> QED BY <1>1, <3>1, StartFacts, Zenon
  <2>3. a \in Int /\ i < a + Pow2[m + 1] BY <1>2, <2>1
  <2> QED BY <1>4, <2>1, <2>2, <2>3, Zenon
<1>18. \A h \in F : h # a => h # st /\ u[h] = o[h] /\ h \in G
  BY <1>2, <1>5, <1>8, <1>9, <1>14, TilingFacts
<1>19. \A h \in F : h # a => u[h] = order[h] BY <1>9, <1>18
<1>20. \A h \in busy : h # i => h \in F /\ h # a
  <2> TAKE h \in busy
  <2> HAVE h # i
  <2>1. h \in G /\ h # st /\ h \in Pages BY <1>9, TilingFacts
  <2>2. h # g BY <1>10, <2>1
  <2> QED BY <1>2, <1>5, <1>14, <2>1, <2>2
<1>21. InBounds(F, u)
  <2>1. ASSUME NEW h \in F, h # a
        PROVE  h + Pow2[u[h]] <= NPages \/ (Garbage /\ u[h] > MaxOrder)
    BY <1>9, <1>18, <2>1 DEF InBounds
  <2>2. a + 2 * p <= NPages \/ (Garbage /\ m + 1 > MaxOrder)
    <3>1. CASE g \in Pages
      <4>1. a + p \in G /\ o[a + p] = m BY <1>5, <1>9, <1>10, <3>1
      <4>2. (a + p) + p <= NPages \/ (Garbage /\ m > MaxOrder)
        <5>1. PICK c \in G : c = a + p /\ o[c] = m BY <4>1
        <5>2. c + Pow2[o[c]] <= NPages \/ (Garbage /\ o[c] > MaxOrder)
          BY <1>9, Zenon DEF InBounds
        <5> QED BY <1>2, <5>1, <5>2
      <4> QED BY <1>2, <4>2, PageFacts
    <3>2. CASE g \notin Pages
      <4>1. Garbage /\ ~(a + p < NPages) BY <1>11, <3>2, PageFacts
      <4>2. CASE m + 1 <= MaxOrder
        <5>1. PICK n \in Nat \ {0} : n = NPages BY PageFacts
        <5>2. Multiple(n, 2 * p)
          BY <1>2, <4>1, <4>2, <5>1, SizeAssumption, PageFacts, Pow2Divides
        <5>3. a < n BY <1>16, <5>1, PageFacts
        <5>4. PICK d \in Nat \ {0} : d = 2 * p OBVIOUS
        <5>5. Multiple(a, d) /\ Multiple(n, d) BY <1>2, <1>4, <5>2, <5>4
        <5>6. a + d <= n BY <5>3, <5>5, MultipleFacts
        <5> QED BY <5>1, <5>4, <5>6
      <4> QED BY <4>1, <4>2, PageFacts
    <3> QED BY <3>1, <3>2
  <2>3. Pow2[u[a]] = 2 * p BY <1>2, <1>16
  <2>4. a + Pow2[u[a]] <= NPages \/ (Garbage /\ u[a] > MaxOrder)
    BY <1>16, <2>2, <2>3
  <2>5. ASSUME NEW h \in F
        PROVE  h + Pow2[u[h]] <= NPages \/ (Garbage /\ u[h] > MaxOrder)
    BY <2>1, <2>4, Zenon
  <2>6. \A h \in F : h + Pow2[u[h]] <= NPages \/ (Garbage /\ u[h] > MaxOrder)
    BY <2>5, Zenon
  <2> QED BY <2>6 DEF InBounds
<1>22. F \subseteq H BY <1>9, <1>14
<1>23. FreedInto(H, F, i, m + 1)
  BY <1>7, <1>15, <1>16, <1>17, <1>19, <1>20, <1>21, <1>22, Zenon DEF FreedInto
<1> QED BY <1>23

LEMMA LargestFacts ==
  ASSUME NEW n \in Nat, NEW S, S \subseteq 0 .. n, S # {}
  PROVE  Largest(S) \in S
<1> DEFINE T == {d \in 0 .. n : n - d \in S}
<1>1. \A x \in S : n - x \in T
  <2>1. \A x \in S : n - x \in 0 .. n /\ n - (n - x) = x OBVIOUS
  <2> QED BY <2>1
<1>a. T \subseteq Nat OBVIOUS
<1>2. T # {}
  <2> HIDE DEF T
  <2> QED BY <1>1
<1>3. PICK d \in T : \A e \in T : d <= e
  <2> HIDE DEF T
  <2> QED BY <1>a, <1>2, LeastNumber
<1>4. PICK m \in S : m = n - d OBVIOUS
<1>5. \A x \in S : x <= m BY <1>1, <1>3, <1>4
<1>6. S \subseteq Nat OBVIOUS
<1>7. Largest(S) = m BY <1>5, <1>6, LargestIs
<1> QED BY <1>7

\* The order at which the loop of ba_free ends.
Last(i, lies) ==
  Least({k \in order[i] .. MaxLevel : k = MaxLevel \/ ~Merges(i, k, lies)})

\* The whole loop of ba_free.
LEMMA FreeTiles ==
  ASSUME NEW H, Tiling(H, order), InBounds(H, order), busy \subseteq H,
         order \in [Pages -> Levels],
         NEW i \in busy, NEW lies, Garbage \/ lies = {},
         NEW last, last = Last(i, lies)
  PROVE  /\ last \in order[i] .. MaxLevel
         /\ last = MaxLevel \/ ~Merges(i, last, lies)
         /\ \E G : FreedInto(H, G, i, last)
<1>1. i \in Nat /\ i \in H /\ i \in Pages /\ order[i] \in Nat
      /\ Multiple(i, Pow2[order[i]])
  BY TilingFacts
<1>2. order[i] \in 0 .. MaxLevel /\ MaxLevel \in Nat
  BY <1>1, BallocAssumption DEF Levels
<1>3. PICK f \in Nat : f = order[i] /\ f <= MaxLevel BY <1>2
<1> DEFINE Stops == {k \in f .. MaxLevel : k = MaxLevel \/ ~Merges(i, k, lies)}
<1>4. last \in Stops /\ \A k \in Stops : last <= k
  <2>1. MaxLevel \in Stops BY <1>2, <1>3
  <2>2. Stops \subseteq Nat OBVIOUS
  <2>3. last = Least(Stops) BY <1>3 DEF Last
  <2> HIDE DEF Stops
  <2>4. Least(Stops) \in Stops /\ \A k \in Stops : Least(Stops) <= k
    BY <2>1, <2>2, LeastFacts
  <2> QED BY <2>3, <2>4, Zenon
<1>5. \A k \in f .. last - 1 : Merges(i, k, lies) BY <1>2, <1>3, <1>4
<1> DEFINE T == {d \in Nat : f + d <= last => \E G : FreedInto(H, G, i, f + d)}
<1>6. 0 \in T
  <2>1. Freed(i, f) = order
    <3>1. \A x \in Pages :
            {k \in order[i] .. f - 1 :
               x \in {StartAt(i, k), Xor(StartAt(i, k), k)}} = {}
      BY <1>3
    <3>2. Freed(i, f) = [x \in Pages |-> order[x]] BY <3>1 DEF Freed
    <3> QED BY <3>2
  <2>2. StartAt(i, f) = i
    <3>1. \A t \in Int : Multiple(t, Pow2[f]) /\ t <= i /\ i < t + Pow2[f]
            => t = StartAt(i, f)
      BY <1>1, <1>3, StartFacts, Zenon
    <3>2. i \in Int /\ i <= i /\ i < i + Pow2[f] BY <1>1, Pow2Facts
    <3> QED BY <1>1, <1>3, <3>1, <3>2
  <2>3. FreedInto(H, H, i, f) BY <1>1, <1>3, <2>1, <2>2 DEF FreedInto
  <2>4. f + 0 = f OBVIOUS
  <2> QED BY <2>3, <2>4
<1>7. ASSUME NEW d \in Nat, d \in T PROVE d + 1 \in T
  <2>1. SUFFICES ASSUME f + (d + 1) <= last
                 PROVE  \E G : FreedInto(H, G, i, f + (d + 1))
    OBVIOUS
  <2>2. PICK m \in Nat : m = f + d /\ m + 1 = f + (d + 1) /\ f <= m
    OBVIOUS
  <2>3. m <= last /\ m \in f .. last - 1 BY <1>3, <1>4, <2>1, <2>2
  <2>4. PICK G : FreedInto(H, G, i, m) BY <1>7, <2>2, <2>3
  <2>5. Merges(i, m, lies) BY <1>5, <2>3
  <2>6. \E F : FreedInto(H, F, i, m + 1)
    BY <1>3, <2>2, <2>4, <2>5, MergeOnce
  <2> QED BY <2>2, <2>6
<1> HIDE DEF T
<1>8. \A d \in Nat : d \in T BY <1>6, <1>7, SetInduction
<1>9. last - f \in T /\ f + (last - f) = last BY <1>3, <1>4, <1>8
<1>10. \E G : FreedInto(H, G, i, last)
  <2>1. last <= last BY <1>4
  <2> QED BY <1>9, <2>1 DEF T
<1> QED BY <1>3, <1>4, <1>10

LEMMA FreedType ==
  ASSUME order \in [Pages -> Levels], NEW i \in Pages, NEW m \in Levels
  PROVE  Freed(i, m) \in [Pages -> Levels]
<1> DEFINE raised(x) == {k \in order[i] .. m - 1 :
                           x \in {StartAt(i, k), Xor(StartAt(i, k), k)}}
           new(x) == IF raised(x) = {} THEN order[x] ELSE Largest(raised(x)) + 1
<1>1. Freed(i, m) = [x \in Pages |-> new(x)] BY Zenon DEF Freed
<1>2. ASSUME NEW x \in Pages PROVE new(x) \in Levels
  <2>1. order[i] \in Nat /\ m \in Nat /\ m <= MaxLevel /\ MaxLevel \in Nat
    BY BallocAssumption DEF Levels
  <2>2. raised(x) \subseteq 0 .. m - 1 BY <2>1
  <2>3. order[x] \in Levels OBVIOUS
  <2>4. raised(x) # {} => m # 0 BY <2>2
  <2> HIDE DEF raised
  <2>5. ASSUME raised(x) # {} PROVE Largest(raised(x)) \in 0 .. m - 1
    <3>1. m - 1 \in Nat BY <2>1, <2>4, <2>5
    <3> QED BY <2>2, <2>5, <3>1, LargestFacts
  <2> QED BY <2>1, <2>3, <2>5 DEF Levels
<1> HIDE DEF new
<1> QED BY <1>1, <1>2

------------------------------------------------------------------------------
(* What ba_create writes                                                     *)

\* The pages that are left when the bits from k on have their blocks.
Rest(k) == NPages % Pow2[k]

LEMMA RestFacts ==
  ASSUME NEW k \in Nat
  PROVE  /\ Rest(k) \in 0 .. NPages /\ Rest(k) < Pow2[k]
         /\ Multiple(NPages - Rest(k), Pow2[k])
         /\ (NPages \div Pow2[k]) % 2 = 1 => Rest(k + 1) = Rest(k) + Pow2[k]
         /\ (NPages \div Pow2[k]) % 2 # 1 => Rest(k + 1) = Rest(k)
<1>1. PICK p \in Nat \ {0} : p = Pow2[k] /\ Pow2[k + 1] = 2 * p BY Pow2Facts
<1>2. PICK n \in Nat \ {0} : n = NPages BY PageFacts
<1>3. PICK r \in 0 .. p - 1 : /\ r = n % p /\ n = (n \div p) * p + r
                              /\ n \div p \in Nat
  OBVIOUS
<1>4. PICK q \in Nat : q = n \div p /\ n = q * p + r BY <1>3
<1>5. r = Rest(k) /\ Multiple(n - r, p)
  <2>1. n \in Int OBVIOUS
  <2>2. Multiple(n - (n % p), p) BY <2>1, Remainder, Zenon
  <2>3. r = n % p BY <1>3
  <2>4. Multiple(n - r, p) BY <2>2, <2>3, Zenon
  <2> QED BY <1>1, <1>2, <2>3, <2>4 DEF Rest
<1>6. r <= n
  <2>1. q * p >= 0 BY <1>4
  <2> QED BY <1>4, <2>1
<1>7. PICK d \in Nat \ {0} : d = 2 * p OBVIOUS
<1>8. \A t \in Int : Multiple(t, d) /\ t <= n /\ n < t + d => t = n - Rest(k + 1)
  <2>1. n \in Int /\ Rest(k + 1) = n % d BY <1>1, <1>2, <1>7 DEF Rest
  <2> QED BY <2>1, Remainder, Zenon
<1>9. Rest(k + 1) \in Int
  <2>1. n % d \in Int OBVIOUS
  <2> QED BY <1>1, <1>2, <1>7, <2>1 DEF Rest
<1>10. ASSUME q % 2 = 1 PROVE Rest(k + 1) = r + p
  <2>1. PICK s \in Int : q = 2 * s + 1
    <3>1. q = 2 * (q \div 2) + 1 BY <1>10
    <3> QED BY <3>1
  <2>2. PICK t \in Int : t = s * d OBVIOUS
  <2>3. q * p = t + p BY <1>7, <2>1, <2>2
  <2>4. n = t + p + r BY <1>4, <2>3
  <2>5. Multiple(t, d) BY <2>2 DEF Multiple
  <2>6. t = n - Rest(k + 1) BY <1>7, <1>8, <2>4, <2>5
  <2> QED BY <1>9, <2>4, <2>6
<1>11. ASSUME q % 2 # 1 PROVE Rest(k + 1) = r
  <2>1. PICK s \in Int : q = 2 * s
    <3>1. q = 2 * (q \div 2) BY <1>11
    <3> QED BY <3>1
  <2>2. PICK t \in Int : t = s * d OBVIOUS
  <2>3. q * p = t BY <1>7, <2>1, <2>2
  <2>4. n = t + r BY <1>4, <2>3
  <2>5. Multiple(t, d) BY <2>2 DEF Multiple
  <2>6. t = n - Rest(k + 1) BY <1>7, <1>8, <2>4, <2>5
  <2> QED BY <1>9, <2>4, <2>6
<1> QED BY <1>1, <1>2, <1>4, <1>5, <1>6, <1>10, <1>11

LEMMA RestFalls ==
  ASSUME NEW j \in Nat, NEW k \in Nat, j <= k PROVE Rest(j) <= Rest(k)
<1> DEFINE T == {d \in Nat : Rest(j) <= Rest(j + d)}
<1>1. 0 \in T
  <2>1. j + 0 = j /\ Rest(j) \in Nat BY RestFacts, PageFacts
  <2> QED BY <2>1
<1>2. ASSUME NEW d \in Nat, d \in T PROVE d + 1 \in T
  <2>1. PICK m \in Nat : m = j + d /\ m + 1 = j + (d + 1) OBVIOUS
  <2>2. Pow2[m] \in Nat /\ Rest(m) \in Nat /\ Rest(j) \in Nat
    BY Pow2Facts, RestFacts, PageFacts
  <2>3. Rest(m + 1) = Rest(m) \/ Rest(m + 1) = Rest(m) + Pow2[m]
    BY RestFacts
  <2>4. Rest(j) <= Rest(m + 1) BY <1>2, <2>1, <2>2, <2>3
  <2> QED BY <2>1, <2>4
<1> HIDE DEF T
<1>3. \A d \in Nat : d \in T BY <1>1, <1>2, SetInduction
<1>4. k - j \in T /\ j + (k - j) = k BY <1>3
<1> QED BY <1>4 DEF T

LEMMA RestEnds == Rest(0) = 0 /\ Rest(MaxOrder + 1) = NPages
<1>1. Rest(0) = 0
  <2>1. Rest(0) \in Nat /\ Rest(0) < 1 BY RestFacts, Pow2Facts, PageFacts
  <2> QED BY <2>1
<1>2. PICK p \in Nat \ {0} : p = Pow2[MaxOrder + 1] /\ NPages < p
  BY Pow2Facts, SizeAssumption, PageFacts
<1>3. PICK n \in Nat : n = NPages BY PageFacts
<1>4. 0 <= n /\ n < 0 + p /\ Multiple(0, p) BY <1>2, <1>3, ZeroAndSelf
<1>5. 0 = n - (n % p)
  <2>1. n \in Int /\ 0 \in Int OBVIOUS
  <2>2. \A t \in Int : Multiple(t, p) /\ t <= n /\ n < t + p => t = n - (n % p)
    BY <2>1, Remainder, Zenon
  <2> QED BY <1>4, <2>1, <2>2, Zenon
<1>6. n % p = n
  <2>1. n % p \in Int OBVIOUS
  <2> QED BY <1>5, <2>1
<1> QED BY <1>1, <1>2, <1>3, <1>6 DEF Rest

\* The block of bit k of the number of pages.
Bit(k) == (NPages \div Pow2[k]) % 2 = 1
First(k) == NPages - Rest(k + 1)

LEMMA BitFacts ==
  ASSUME NEW k \in Orders, Bit(k)
  PROVE  /\ First(k) \in Pages /\ First(k) + Pow2[k] = NPages - Rest(k)
         /\ First(k) + Pow2[k] <= NPages
         /\ Multiple(First(k), Pow2[k + 1])
         /\ \A j \in Orders : k < j /\ Bit(j) => First(j) + Pow2[j] <= First(k)
<1>1. k \in Nat /\ Orders \subseteq Nat BY PageFacts DEF Orders
<1>2. PICK n \in Nat : n = NPages BY PageFacts
<1>3. PICK r \in 0 .. n : r = Rest(k) BY <1>1, <1>2, RestFacts
<1>4. PICK p \in Nat \ {0} : p = Pow2[k] BY <1>1, Pow2Facts
<1>5. Rest(k + 1) = r + p BY <1>1, <1>3, <1>4, RestFacts DEF Bit
<1>6. r + p <= n
  <2>1. k + 1 \in Nat BY <1>1
  <2>2. Rest(k + 1) \in 0 .. n BY <1>2, <2>1, RestFacts
  <2> QED BY <1>3, <1>5, <2>2
<1>7. First(k) = n - (r + p) BY <1>2, <1>5 DEF First
<1>8. First(k) \in Pages BY <1>2, <1>3, <1>6, <1>7 DEF Pages
<1>9. First(k) + Pow2[k] = NPages - Rest(k) /\ First(k) + Pow2[k] <= NPages
  BY <1>2, <1>3, <1>4, <1>7
<1>10. Multiple(First(k), Pow2[k + 1])
  <2>1. k + 1 \in Nat BY <1>1
  <2>2. Multiple(NPages - Rest(k + 1), Pow2[k + 1])
    BY <2>1, RestFacts, Zenon
  <2> QED BY <2>2 DEF First
<1>11. ASSUME NEW j \in Orders, k < j, Bit(j)
       PROVE  First(j) + Pow2[j] <= First(k)
  <2>1. j \in Nat /\ k + 1 \in Nat /\ k + 1 <= j BY <1>1, <1>11
  <2>2. Rest(k + 1) <= Rest(j) BY <2>1, RestFalls
  <2>3. PICK t \in Nat : t = Rest(j) BY <2>1, <1>2, RestFacts
  <2>4. PICK q \in Nat : q = Pow2[j] BY <2>1, Pow2Facts
  <2>5. Rest(j + 1) = t + q BY <2>1, <2>3, <2>4, <1>11, RestFacts DEF Bit
  <2>6. First(j) = n - (t + q) BY <1>2, <2>5 DEF First
  <2>7. r + p <= t BY <1>5, <2>2, <2>3
  <2> QED BY <1>3, <1>4, <1>7, <2>3, <2>4, <2>6, <2>7
<1> QED BY <1>8, <1>9, <1>10, <1>11

\* No block is free next to a buddy that is free and as large.
Merged(H, B, o) ==
  \A h \in H : h \notin B =>
    ~(Xor(h, o[h]) \in Pages /\ Xor(h, o[h]) \notin B /\ o[Xor(h, o[h])] = o[h])

\* The inductive invariant: the entries that the walk visits are the blocks of
\* a tiling of the segment, and buddies that are both free have been merged.
BallocInv ==
  /\ order \in [Pages -> Levels]
  /\ busy \subseteq Heads
  /\ Tiling(Heads, order)
  /\ InBounds(Heads, order)
  /\ \A i \in busy : order[i] <= MaxOrder
  /\ Merged(Heads, busy, order)

LEMMA InitTiles ==
  ASSUME ba_create
  PROVE  \E H : /\ Tiling(H, order) /\ InBounds(H, order)
               /\ Merged(H, {}, order)
<1>1. Orders \subseteq Nat /\ \A k \in Orders : k + 1 \in Nat
  BY PageFacts DEF Orders
<1>2. PICK H : H = {x \in Pages : \E k \in Orders : Bit(k) /\ x = First(k)}
  OBVIOUS
<1>3. ASSUME NEW k \in Orders, Bit(k)
      PROVE  First(k) \in H /\ order[First(k)] = k
  <2>1. First(k) \in Pages BY <1>3, BitFacts
  <2>2. First(k) \in H BY <1>2, <1>3, <2>1
  <2> DEFINE bits(i) == {j \in Orders : /\ (NPages \div Pow2[j]) % 2 = 1
                                       /\ i = NPages - (NPages % Pow2[j + 1])}
  <2>3. order[First(k)] = IF bits(First(k)) = {} THEN 0 ELSE Least(bits(First(k)))
    BY <2>1 DEF ba_create
  <2>4. \A j \in Orders : j \in bits(First(k)) <=> Bit(j) /\ First(k) = First(j)
    BY DEF Bit, First, Rest
  <2>5. ASSUME NEW j \in Orders, Bit(j), First(k) = First(j) PROVE j = k
    <3>1. j \in Nat /\ k \in Nat BY <1>1
    <3>2. /\ Pow2[j] \in Nat \ {0} /\ Pow2[k] \in Nat \ {0}
          /\ First(k) \in Nat
      BY <2>1, <3>1, Pow2Facts, PageFacts
    <3>3. k < j => First(j) + Pow2[j] <= First(k) BY <1>3, <2>5, BitFacts
    <3>4. j < k => First(k) + Pow2[k] <= First(j) BY <1>3, <2>5, BitFacts
    <3> QED BY <2>5, <3>1, <3>2, <3>3, <3>4
  <2>6. bits(First(k)) = {k} BY <1>3, <2>4, <2>5
  <2>7. Least({k}) = k
    <3>1. {k} \subseteq Nat BY <1>1
    <3> QED BY <3>1, LeastFacts
  <2> HIDE DEF bits
  <2> QED BY <2>2, <2>3, <2>6, <2>7
<1>4. \A h \in H : \E k \in Orders : Bit(k) /\ h = First(k) /\ order[h] = k
  BY <1>2, <1>3
<1>5. \A h \in H : h \in Pages /\ h \in Nat /\ order[h] \in Orders
                /\ order[h] \in Nat
  BY <1>1, <1>2, <1>4, PageFacts
<1>6. \A h \in H : Multiple(h, Pow2[order[h] + 1])
  BY <1>4, BitFacts
<1>7. \A h \in H : Multiple(h, Pow2[order[h]])
  BY <1>5, <1>6, Pair
<1>8. \A h, g \in H : order[h] > order[g] => h + Pow2[order[h]] <= g
  <2> TAKE h, g \in H
  <2> HAVE order[h] > order[g]
  <2>1. PICK k \in Orders : Bit(k) /\ h = First(k) /\ order[h] = k BY <1>4
  <2>2. PICK j \in Orders : Bit(j) /\ g = First(j) /\ order[g] = j BY <1>4
  <2>3. j < k BY <1>1, <2>1, <2>2
  <2> QED BY <2>1, <2>2, <2>3, BitFacts
<1>9. \A h, g \in H : h < g => h + Pow2[order[h]] <= g
  <2> TAKE h, g \in H
  <2> HAVE h < g
  <2>1. PICK k \in Orders : h = First(k) /\ order[h] = k BY <1>4
  <2>2. PICK j \in Orders : g = First(j) /\ order[g] = j BY <1>4
  <2>3. j \in Nat /\ k \in Nat /\ Pow2[j] \in Nat \ {0} BY <1>1, Pow2Facts
  <2>4. h \in Nat /\ g \in Nat BY <1>5
  <2>5. ~(k < j)
    <3>1. k < j => g + Pow2[j] <= h BY <1>8, <2>1, <2>2, <2>3
    <3> QED BY <2>3, <2>4, <3>1
  <2>6. k # j BY <2>1, <2>2, <2>4
  <2> QED BY <1>8, <2>1, <2>2, <2>3, <2>5, <2>6
<1>10. ASSUME NEW x \in Pages
       PROVE  \E h \in H : h <= x /\ x < h + Pow2[order[h]]
  <2>1. PICK n \in Nat : n = NPages BY PageFacts
  <2>2. x \in Nat /\ x < n BY <2>1, PageFacts
  <2> DEFINE T == {k \in Nat : n - Rest(k) <= x}
  <2>3. MaxOrder + 1 \in T BY <2>1, <2>2, RestEnds, PageFacts
  <2>4. PICK k \in T : \A j \in T : k <= j
    <3>1. T \subseteq Nat /\ T # {} BY <2>3
    <3> HIDE DEF T
    <3> QED BY <3>1, LeastNumber
  <2>5. k # 0 /\ k \in Nat /\ k <= MaxOrder + 1
    BY <2>1, <2>2, <2>3, <2>4, RestEnds
  <2>6. PICK j \in Nat : j + 1 = k BY <2>5
  <2>7. j \notin T /\ j \in Orders BY <2>4, <2>5, <2>6, PageFacts DEF Orders
  <2>8. Rest(j) \in 0 .. n BY <2>1, RestFacts
  <2>9. x < n - Rest(j) /\ n - Rest(j + 1) <= x
    BY <2>2, <2>4, <2>6, <2>7, <2>8
  <2>10. Bit(j) BY <2>8, <2>9, <2>2, RestFacts DEF Bit
  <2>11. First(j) = n - Rest(j + 1) /\ First(j) + Pow2[j] = n - Rest(j)
    BY <2>1, <2>7, <2>10, BitFacts DEF First
  <2>12. First(j) \in H /\ order[First(j)] = j BY <1>3, <2>7, <2>10
  <2> QED BY <2>9, <2>11, <2>12
<1>11. Tiling(H, order)
  BY <1>2, <1>5, <1>7, <1>9, <1>10 DEF Tiling
<1>12. InBounds(H, order)
  BY <1>4, BitFacts DEF InBounds
<1>13. Merged(H, {}, order)
  <2> SUFFICES ASSUME NEW h \in H, Xor(h, order[h]) \in Pages,
                      order[Xor(h, order[h])] = order[h]
               PROVE  FALSE
    BY DEF Merged
  <2>1. PICK g : g = Xor(h, order[h]) /\ g \in Pages /\ order[g] = order[h]
    OBVIOUS
  <2>2. g \in H BY <1>11, <2>1, BuddyIsHead
  <2>3. g = h + Pow2[order[h]] /\ Pow2[order[h]] \in Nat \ {0}
    BY <1>5, <1>6, <2>1, Pair, Pow2Facts
  <2>4. PICK k \in Orders : h = First(k) /\ order[h] = k BY <1>4
  <2>5. PICK j \in Orders : g = First(j) /\ order[g] = j BY <1>4, <2>2
  <2>6. g = h BY <2>1, <2>4, <2>5
  <2> QED BY <1>5, <2>3, <2>6
<1> QED BY <1>11, <1>12, <1>13

LEMMA CreateInv == ba_create => BallocInv
<1> SUFFICES ASSUME ba_create PROVE BallocInv OBVIOUS
<1>1. PICK H : Tiling(H, order) /\ InBounds(H, order) /\ Merged(H, {}, order)
  BY InitTiles
<1>2. Heads = H BY <1>1, Walk, HeadsAre
<1>3. busy = {} BY DEF ba_create
<1>4. order \in [Pages -> Levels]
  <2> DEFINE bits(i) == {k \in Orders : /\ (NPages \div Pow2[k]) % 2 = 1
                                       /\ i = NPages - (NPages % Pow2[k + 1])}
             new(i) == IF bits(i) = {} THEN 0 ELSE Least(bits(i))
  <2>1. order = [i \in Pages |-> new(i)] BY Zenon DEF ba_create
  <2>2. ASSUME NEW i \in Pages PROVE new(i) \in Levels
    <3>1. Orders \subseteq Levels /\ 0 \in Levels /\ Orders \subseteq Nat
      BY PageFacts, BallocAssumption DEF Orders, Levels
    <3>2. bits(i) \subseteq Orders OBVIOUS
    <3> HIDE DEF bits
    <3>3. bits(i) # {} => Least(bits(i)) \in bits(i) BY <3>1, <3>2, LeastFacts
    <3> QED BY <3>1, <3>2, <3>3
  <2> HIDE DEF new
  <2> QED BY <2>1, <2>2
<1> QED BY <1>1, <1>2, <1>3, <1>4 DEF BallocInv

------------------------------------------------------------------------------
(* ba_alloc                                                                  *)

LEMMA XorBack ==
  ASSUME NEW i \in Nat, NEW k \in Nat, Multiple(i, Pow2[k])
  PROVE  /\ Xor(i, k) \in Nat /\ Multiple(Xor(i, k), Pow2[k])
         /\ Xor(Xor(i, k), k) = i /\ Xor(i, k) # i
<1>1. PICK a \in Nat : /\ Multiple(a, Pow2[k + 1])
                       /\ \/ (i = a /\ Xor(i, k) = a + Pow2[k])
                          \/ (i = a + Pow2[k] /\ Xor(i, k) = a)
  BY Buddies
<1>2. /\ Multiple(a, Pow2[k]) /\ Multiple(a + Pow2[k], Pow2[k])
      /\ Xor(a, k) = a + Pow2[k] /\ Xor(a + Pow2[k], k) = a
  BY <1>1, Pair
<1>3. a # a + Pow2[k] /\ a + Pow2[k] \in Nat BY Pow2Facts
<1> QED BY <1>1, <1>2, <1>3

LEMMA OrderFacts ==
  ASSUME NEW len \in 1 .. NPages
  PROVE  /\ ba_order(len) \in Orders
         /\ len <= Pow2[ba_order(len)] /\ Pow2[ba_order(len)] < 2 * len
         /\ \A m \in Nat : len <= Pow2[m] /\ Pow2[m] < 2 * len => m = ba_order(len)
<1>1. NPages \in Nat /\ MaxOrder \in Nat /\ len \in Nat \ {0} /\ len <= NPages
  BY PageFacts
<1> DEFINE S == {k \in 0 .. 30 : len - 1 < Pow2[k]}
<1>2. MaxOrder \in S
  BY <1>1, SizeAssumption, Pow2Facts
<1>3. PICK k : k = ba_order(len) /\ k \in S /\ \A m \in S : k <= m
  <2>1. S \subseteq Nat /\ S # {} BY <1>2
  <2>2. ba_order(len) = Least(S) BY DEF ba_order
  <2> HIDE DEF S
  <2> QED BY <2>1, <2>2, LeastFacts
<1>4. k \in Orders /\ k \in Nat BY <1>1, <1>2, <1>3 DEF Orders
<1>5. PICK p \in Nat \ {0} : p = Pow2[k] BY <1>4, Pow2Facts
<1>6. len <= p BY <1>1, <1>3, <1>5
<1>7. p < 2 * len
  <2>1. CASE k = 0 BY <1>1, <1>5, <2>1, Pow2Facts
  <2>2. CASE k # 0
    <3>1. PICK j \in Nat : j + 1 = k /\ j \in 0 .. 30 BY <1>3, <2>2
    <3>2. j \notin S BY <1>3, <3>1
    <3>3. PICK q \in Nat : q = Pow2[j] /\ p = 2 * q BY <1>5, <3>1, Pow2Facts
    <3>4. q <= len - 1 BY <1>1, <3>1, <3>2, <3>3
    <3> QED BY <1>1, <3>3, <3>4
  <2> QED BY <2>1, <2>2
<1>8. ASSUME NEW m \in Nat, len <= Pow2[m], Pow2[m] < 2 * len PROVE m = k
  <2>1. PICK q \in Nat \ {0} : q = Pow2[m] BY Pow2Facts
  <2>2. m < k => 2 * q <= p BY <1>4, <1>5, <2>1, Smaller
  <2>3. k < m => 2 * p <= q BY <1>4, <1>5, <2>1, Smaller
  <2> QED BY <1>1, <1>4, <1>6, <1>7, <1>8, <2>1, <2>2, <2>3
<1> QED BY <1>3, <1>4, <1>5, <1>6, <1>7, <1>8

LEMMA BestFacts ==
  ASSUME BallocInv, NEW k \in Nat, FreeHeads(k) # {}
  PROVE  Best(k) \in FreeHeads(k)
<1>1. PICK F : F = FreeHeads(k) OBVIOUS
<1>2. \A i \in F : i \in Nat /\ order[i] \in Nat
  BY <1>1, TilingFacts DEF BallocInv, FreeHeads
<1> DEFINE O == {order[i] : i \in F}
<1>3. PICK i \in F : \A j \in F : order[i] <= order[j]
  <2>1. O \subseteq Nat /\ O # {} BY <1>1, <1>2
  <2>2. PICK m \in O : \A n \in O : m <= n
    <3> HIDE DEF O
    <3> QED BY <2>1, LeastNumber
  <2> QED BY <2>2
<1> DEFINE I == {j \in F : order[j] = order[i]}
<1>4. PICK b \in I : \A j \in I : b <= j
  <2>1. I \subseteq Nat /\ I # {} BY <1>2
  <2> HIDE DEF I
  <2> QED BY <2>1, LeastNumber
<1>5. b \in F /\ \A j \in F : order[b] < order[j] \/ (order[b] = order[j] /\ b <= j)
  BY <1>2, <1>3, <1>4
<1> QED BY <1>1, <1>5 DEF Best

LEMMA SplitType ==
  ASSUME order \in [Pages -> Levels], NEW b \in Pages, NEW k \in Levels
  PROVE  Split(b, k) \in [Pages -> Levels]
<1> DEFINE cut(x) == {j \in k .. order[b] - 1 : x = Xor(b, j)}
           new(x) == IF x = b THEN k
                     ELSE IF cut(x) = {} THEN order[x] ELSE Least(cut(x))
<1>1. Split(b, k) = [x \in Pages |-> new(x)] BY Zenon DEF Split
<1>2. ASSUME NEW x \in Pages PROVE new(x) \in Levels
  <2>1. order[b] \in Levels /\ order[x] \in Levels /\ MaxLevel \in Nat
    BY BallocAssumption
  <2>2. k .. order[b] - 1 \subseteq Levels /\ Levels \subseteq Nat
    BY <2>1 DEF Levels
  <2>3. cut(x) \subseteq Levels BY <2>2
  <2> HIDE DEF cut
  <2>4. cut(x) # {} => Least(cut(x)) \in cut(x) BY <2>2, <2>3, LeastFacts
  <2> QED BY <2>1, <2>3, <2>4
<1> HIDE DEF new
<1> QED BY <1>1, <1>2

LEMMA Allocated ==
  ASSUME BallocInv, NEW len \in 1 .. NPages, ba_alloc(len)
  PROVE  /\ BallocInv'
         /\ \E b \in Heads \ busy :
              /\ order'[b] = ba_order(len) /\ busy' = busy \cup {b}
              /\ \A h \in busy : order'[h] = order[h]
<1>1. PICK H : H = Heads OBVIOUS
<1>2. /\ order \in [Pages -> Levels] /\ busy \subseteq H /\ Tiling(H, order)
      /\ InBounds(H, order) /\ Merged(H, busy, order)
      /\ \A i \in busy : order[i] <= MaxOrder
  BY <1>1 DEF BallocInv
<1>3. PICK k \in Nat : k = ba_order(len) /\ k <= MaxOrder /\ FreeHeads(k) # {}
  BY OrderFacts, PageFacts DEF ba_alloc, Orders
<1>4. PICK b \in H : /\ b = Best(k) /\ b \notin busy /\ k <= order[b]
  <2>1. Best(k) \in FreeHeads(k) BY <1>3, BestFacts
  <2> QED BY <1>1, <2>1 DEF FreeHeads
<1>5. busy' = busy \cup {b} /\ order' = Split(b, k)
  BY <1>3, <1>4 DEF ba_alloc
<1>6. PICK u : u = order' OBVIOUS
<1>7. PICK G : SplitInto(H, G, b, k) BY <1>2, <1>4, SplitTiles
<1>8. /\ Tiling(G, u) /\ H \subseteq G /\ u[b] = k
      /\ \A h \in H : h # b => u[h] = order[h]
      /\ \A h \in G : h \notin H =>
           \E j \in k .. order[b] - 1 : h = b + Pow2[j] /\ u[h] = j
  BY <1>5, <1>6, <1>7, Zenon DEF SplitInto
<1>9. G = Heads' BY <1>6, <1>8, Walk, HeadsAre
<1>10. /\ b \in Nat /\ b \in Pages /\ order[b] \in Nat
       /\ Multiple(b, Pow2[order[b]])
  BY <1>2, TilingFacts
<1>11. PICK K \in Nat : K = order[b] /\ k <= K BY <1>4, <1>10
<1>12. b + Pow2[K] <= NPages \/ (NPages = Pow2[MaxOrder] /\ b = 0)
  <2>1. CASE b + Pow2[order[b]] <= NPages BY <1>11, <2>1
  <2>2. CASE Garbage /\ order[b] > MaxOrder
    <3>1. NPages = Pow2[MaxOrder] BY <2>2, SizeAssumption
    <3>2. Pow2[MaxOrder] < Pow2[K] BY <1>11, <2>2, Smaller, PageFacts
    <3>3. PICK p \in Nat \ {0} : p = Pow2[K] BY Pow2Facts
    <3>4. b < p BY <1>10, <3>1, <3>2, <3>3, PageFacts
    <3>5. 0 < b => 0 + p <= b
      <4>1. PICK z \in Int : z = 0 OBVIOUS
      <4>2. Multiple(z, p) /\ Multiple(b, p) /\ b \in Int
        BY <1>10, <1>11, <3>3, <4>1, ZeroAndSelf
      <4>3. z < b => z + p <= b BY <4>2, MultipleFacts
      <4> QED BY <4>1, <4>3
    <3> QED BY <1>10, <3>1, <3>3, <3>4, <3>5
  <2> QED BY <1>2, <2>1, <2>2 DEF InBounds
<1>13. InBounds(G, u)
  <2> SUFFICES ASSUME NEW h \in G
               PROVE  h + Pow2[u[h]] <= NPages \/ (Garbage /\ u[h] > MaxOrder)
    BY DEF InBounds
  <2>1. CASE h \in H /\ h # b BY <1>2, <1>8, <2>1 DEF InBounds
  <2>2. CASE h = b
    <3>1. Pow2[k] <= Pow2[K] /\ Pow2[k] <= Pow2[MaxOrder]
      BY <1>3, <1>11, Pow2Divides, PageFacts
    <3>2. Pow2[k] \in Nat /\ Pow2[K] \in Nat /\ NPages \in Nat
      BY <1>11, Pow2Facts, PageFacts
    <3>3. b + Pow2[k] <= NPages BY <1>10, <1>12, <3>1, <3>2
    <3> QED BY <1>8, <2>2, <3>3
  <2>3. CASE h \notin H
    <3>1. PICK j \in k .. K - 1 : h = b + Pow2[j] /\ u[h] = j
      BY <1>8, <1>11, <2>3
    <3>2. j \in Nat /\ j < K BY <1>11, <3>1
    <3>3. PICK q \in Nat \ {0} : q = Pow2[j] BY <3>2, Pow2Facts
    <3>4. 2 * q <= Pow2[K] /\ Pow2[K] \in Nat BY <3>2, <3>3, Smaller
    <3>5. CASE b + Pow2[K] <= NPages
      BY <1>10, <3>1, <3>3, <3>4, <3>5, PageFacts
    <3>6. CASE NPages = Pow2[MaxOrder] /\ b = 0
      <4>1. q < Pow2[MaxOrder]
        BY <1>8, <3>1, <3>3, <3>6, TilingFacts, PageFacts
      <4>2. ~(MaxOrder <= j)
        BY <3>2, <3>3, <4>1, Pow2Divides, PageFacts, Pow2Facts
      <4>3. 2 * q <= Pow2[MaxOrder] BY <3>2, <3>3, <4>2, Smaller, PageFacts
      <4> QED BY <3>1, <3>3, <3>6, <4>3
    <3> QED BY <1>12, <3>5, <3>6
  <2> QED BY <2>1, <2>2, <2>3
<1>14. ASSUME NEW h \in G, h \notin H
       PROVE  \E j \in Nat : /\ u[h] = j /\ Xor(h, j) = b /\ Xor(b, j) = h
  <2>1. PICK j \in k .. K - 1 : h = b + Pow2[j] /\ u[h] = j
    BY <1>8, <1>11, <1>14
  <2>2. j \in Nat /\ j + 1 \in Nat /\ j + 1 <= K BY <1>11, <2>1
  <2>3. Multiple(Pow2[K], Pow2[j + 1]) BY <2>2, Pow2Divides
  <2>4. Pow2[K] \in Int /\ Pow2[j + 1] \in Nat \ {0} BY <2>2, Pow2Facts
  <2>5. Multiple(b, Pow2[j + 1]) BY <1>10, <1>11, <2>3, <2>4, MultipleOfMultiple
  <2> QED BY <1>10, <2>1, <2>2, <2>5, Pair
<1>15. Merged(G, busy', u)
  <2> SUFFICES ASSUME NEW h \in G, h \notin busy',
                      NEW g, g = Xor(h, u[h]), g \in Pages, g \notin busy',
                      u[g] = u[h]
               PROVE  FALSE
    BY DEF Merged
  <2>1. h # b /\ g # b /\ h \notin busy /\ g \notin busy BY <1>5
  <2>2. g \in G BY <1>8, BuddyIsHead
  <2>3. h \in H BY <1>14, <2>1
  <2>4. g \in H
    <3> SUFFICES ASSUME g \notin H PROVE FALSE OBVIOUS
    <3>1. PICK j \in Nat : u[g] = j /\ Xor(g, j) = b BY <1>14, <2>2
    <3>2. Multiple(h, Pow2[j]) /\ h \in Nat
      <4>1. Multiple(h, Pow2[u[h]]) /\ h \in Nat BY <1>8, TilingFacts
      <4>2. u[h] = j BY <3>1
      <4> QED BY <4>1, <4>2, Zenon
    <3>3. Xor(Xor(h, j), j) = h BY <3>2, XorBack
    <3> QED BY <2>1, <3>1, <3>3
  <2>5. u[h] = order[h] /\ u[g] = order[g] BY <1>8, <2>1, <2>3, <2>4
  <2> QED BY <1>2, <2>1, <2>3, <2>5 DEF Merged
<1>16. order' \in [Pages -> Levels]
  <2>1. k \in Levels BY <1>3, BallocAssumption, PageFacts DEF Levels
  <2> QED BY <1>2, <1>5, <1>10, <2>1, SplitType
<1>17. busy' \subseteq G BY <1>2, <1>5, <1>8
<1>18. \A h \in busy : u[h] = order[h] BY <1>2, <1>4, <1>8
<1>19. \A i \in busy' : u[i] <= MaxOrder BY <1>2, <1>3, <1>5, <1>8, <1>18
<1>20. BallocInv'
  BY <1>6, <1>8, <1>9, <1>13, <1>15, <1>16, <1>17, <1>19
  DEF BallocInv, Tiling, InBounds, Merged
<1> QED BY <1>1, <1>3, <1>4, <1>5, <1>6, <1>8, <1>18, <1>20

------------------------------------------------------------------------------
(* ba_free                                                                   *)

LEMMA FreeWrites ==
  ASSUME NEW i, NEW lies, ba_free(i, lies)
  PROVE  /\ i \in busy /\ busy' = busy \ {i}
         /\ order' = Freed(i, Last(i, lies))
<1>1. order' = Freed(i, Last(i, lies)) BY Zenon DEF ba_free, Freed, Last
<1> QED BY <1>1 DEF ba_free

\* The block that has grown to all of the segment has no buddy in it.
LEMMA NoBuddyAbove ==
  ASSUME NEW x \in Pages, NEW k \in Nat, k > MaxOrder, Multiple(x, Pow2[k])
  PROVE  Xor(x, k) \notin Pages
<1>1. PICK a \in Nat : \/ (x = a /\ Xor(x, k) = a + Pow2[k])
                       \/ (x = a + Pow2[k] /\ Xor(x, k) = a)
  <2>1. x \in Nat BY PageFacts
  <2> QED BY <2>1, Buddies
<1>2. NPages < Pow2[k] /\ Pow2[k] \in Nat
  <2>1. PICK m \in Nat : m = MaxOrder BY PageFacts
  <2>2. Pow2[m] < Pow2[k] /\ Pow2[m] \in Nat /\ Pow2[k] \in Nat
    BY <2>1, Smaller
  <2>3. NPages <= Pow2[m] BY <2>1, SizeAssumption
  <2> QED BY <2>2, <2>3, PageFacts
<1> QED BY <1>1, <1>2, PageFacts

LEMMA Deallocated ==
  ASSUME BallocInv, NEW i \in busy, NEW lies, Garbage \/ lies = {}, ba_free(i, lies)
  PROVE  /\ BallocInv' /\ busy' = busy \ {i}
         /\ \A h \in busy' : order'[h] = order[h]
<1>1. PICK H : H = Heads OBVIOUS
<1>2. /\ order \in [Pages -> Levels] /\ busy \subseteq H /\ Tiling(H, order)
      /\ InBounds(H, order) /\ Merged(H, busy, order)
      /\ \A h \in busy : order[h] <= MaxOrder
  BY <1>1 DEF BallocInv
<1>3. PICK last : /\ last = Last(i, lies)
                  /\ order' = Freed(i, last) /\ busy' = busy \ {i}
  BY FreeWrites
<1>4. /\ last \in order[i] .. MaxLevel
      /\ last = MaxLevel \/ ~Merges(i, last, lies)
      /\ \E G : FreedInto(H, G, i, last)
  BY <1>2, <1>3, FreeTiles, Zenon
<1>5. PICK G : FreedInto(H, G, i, last) BY <1>4
<1>6. i \in Nat /\ i \in Pages /\ i \in H /\ order[i] \in Nat
  BY <1>2, TilingFacts
<1>7. last \in Nat /\ last \in Levels
  BY <1>4, <1>6, BallocAssumption DEF Levels
<1>8. PICK st \in Nat : /\ st = StartAt(i, last) /\ st <= i /\ i < st + Pow2[last]
                        /\ Multiple(st, Pow2[last])
  BY <1>6, <1>7, StartFacts
<1>9. PICK u : u = order' OBVIOUS
<1>10. /\ Tiling(G, u) /\ InBounds(G, u) /\ G \subseteq H
       /\ st \in G /\ u[st] = last
       /\ \A h \in G : h # st => u[h] = order[h]
       /\ \A h \in busy : h # i => h \in G /\ h # st
  BY <1>3, <1>5, <1>8, <1>9, Zenon DEF FreedInto
<1>11. G = Heads' BY <1>9, <1>10, Walk, HeadsAre
<1>12. \A h \in busy' : h \in G /\ u[h] = order[h] /\ h # i
  BY <1>3, <1>10
<1>13. \A h \in G : h # st => h # i
  <2> SUFFICES ASSUME i \in G, i # st PROVE FALSE OBVIOUS
  <2>1. st < i BY <1>6, <1>8
  <2>2. st + Pow2[u[st]] <= i BY <1>10, <2>1, TilingFacts
  <2> QED BY <1>6, <1>7, <1>8, <1>10, <2>2, Pow2Facts
<1>14. ASSUME NEW g, g = Xor(st, last), g \in Pages, g \notin busy', u[g] = last
       PROVE  FALSE
  <2>1. st \in Pages BY <1>10, TilingFacts
  <2>2. ~(last > MaxOrder) BY <1>7, <1>8, <1>14, <2>1, NoBuddyAbove
  <2>3. ~Merges(i, last, lies) BY <1>4, <2>2, BallocAssumption, PageFacts
  <2>4. g \in busy \/ order[g] # last
    BY <1>8, <1>14, <2>3, PageFacts DEF Merges
  <2>5. g \in G BY <1>10, <1>14, BuddyIsHead
  <2>6. g # st BY <1>7, <1>8, <1>14, XorBack
  <2>7. u[g] = order[g] /\ g # i BY <1>10, <1>13, <2>5, <2>6
  <2> QED BY <1>3, <1>14, <2>4, <2>7
<1>15. Merged(G, busy', u)
  <2> SUFFICES ASSUME NEW h \in G, h \notin busy',
                      NEW g, g = Xor(h, u[h]), g \in Pages, g \notin busy',
                      u[g] = u[h]
               PROVE  FALSE
    BY DEF Merged
  <2>1. g \in G BY <1>10, BuddyIsHead
  <2>2. CASE h = st BY <1>10, <1>14, <2>2
  <2>3. CASE g = st
    <3>1. u[h] = last /\ g = Xor(h, last) BY <1>10, <2>3
    <3>2. h \in Pages /\ h \in Nat /\ Multiple(h, Pow2[u[h]]) BY <1>10, TilingFacts
    <3>3. Multiple(h, Pow2[last]) BY <3>1, <3>2, Zenon
    <3>4. Xor(st, last) = h BY <1>7, <2>3, <3>1, <3>2, <3>3, XorBack
    <3> QED BY <1>14, <3>1, <3>2, <3>4
  <2>4. CASE h # st /\ g # st
    <3>1. u[h] = order[h] /\ u[g] = order[g] /\ h # i /\ g # i
      BY <1>10, <1>13, <2>1, <2>4
    <3>2. h \notin busy /\ g \notin busy BY <1>3, <3>1
    <3>3. h \in H BY <1>10
    <3> QED BY <1>2, <3>1, <3>2, <3>3 DEF Merged
  <2> QED BY <2>2, <2>3, <2>4
<1>16. order' \in [Pages -> Levels] BY <1>2, <1>3, <1>6, <1>7, FreedType
<1>17. busy' \subseteq G /\ \A h \in busy' : u[h] <= MaxOrder
  BY <1>2, <1>3, <1>12
<1>18. BallocInv'
  BY <1>9, <1>10, <1>11, <1>15, <1>16, <1>17
  DEF BallocInv, Tiling, InBounds, Merged
<1> QED BY <1>3, <1>9, <1>12, <1>18

------------------------------------------------------------------------------
(* Safety                                                                    *)

\* The inductive invariant holds always: the walk visits the blocks of a tiling
\* of the segment whatever splits and merges wrote, and no two free buddies are
\* left side by side.
THEOREM BallocInductive == BallocSpec => []BallocInv
<1>1. ASSUME BallocInv, [BallocNext]_bitmap PROVE BallocInv'
  <2>1. CASE UNCHANGED bitmap
    <3>1. order' = order /\ busy' = busy BY <2>1 DEF bitmap
    <3>2. Heads' = Heads BY <3>1, HeadsAre
    <3> QED BY <1>1, <3>1, <3>2 DEF BallocInv, Tiling, InBounds, Merged
  <2>2. ASSUME NEW len \in 1 .. NPages, ba_alloc(len) PROVE BallocInv'
    BY <1>1, <2>2, Allocated
  <2>3. ASSUME NEW i \in busy,
               NEW lies \in (IF Garbage THEN SUBSET NoBuddy(i) ELSE {{}}),
               ba_free(i, lies)
        PROVE  BallocInv'
    <3>1. Garbage \/ lies = {} OBVIOUS
    <3> QED BY <1>1, <2>3, <3>1, Deallocated
  <2> QED BY <1>1, <2>1, <2>2, <2>3 DEF BallocNext
<1> QED BY CreateInv, <1>1, PTL DEF BallocSpec

\* Every allocated entry starts a block, and every block starts at a multiple of
\* its size (Shape): what ba_free finds by XOR is the other half of the pair.
THEOREM ShapeInvariant == BallocSpec => []Shape
<1>1. BallocInv => Shape
  <2> SUFFICES ASSUME BallocInv PROVE Shape OBVIOUS
  <2>1. ASSUME NEW i \in Heads PROVE i % Pow2[order[i]] = 0
    <3>1. PICK p \in Nat \ {0} : p = Pow2[order[i]] /\ Multiple(i, p)
      BY TilingFacts DEF BallocInv
    <3>2. i \in Int BY TilingFacts DEF BallocInv
    <3> QED BY <3>1, <3>2, Remainder
  <2> QED BY <2>1 DEF Shape, BallocInv
<1> QED BY <1>1, BallocInductive, PTL

------------------------------------------------------------------------------
(* The blocks handed out                                                     *)

LEMMA BlockOf ==
  ASSUME NEW H, NEW o, Tiling(H, o), InBounds(H, o), NEW h \in H, o[h] <= MaxOrder
  PROVE  /\ <<h, o[h]>> \in BuddyBlocks
         /\ BuddyPages[<<h, o[h]>>] = h .. h + Pow2[o[h]] - 1
<1>1. PICK k \in Nat : k = o[h] /\ k <= MaxOrder BY TilingFacts
<1>2. PICK p \in Nat \ {0} : p = Pow2[k] BY Pow2Facts
<1>3. h \in Nat /\ h \in Pages /\ Multiple(h, p) BY <1>1, <1>2, TilingFacts
<1>4. h + p <= NPages BY <1>1, <1>2, PageFacts DEF InBounds
<1>5. h % p = 0
  <2>1. h \in Int BY <1>3
  <2> QED BY <1>3, <2>1, Remainder
<1>6. PICK b : b = <<h, k>> /\ b \in Pages \X Orders /\ b[1] = h /\ b[2] = k
  <2>1. k \in Orders BY <1>1, PageFacts DEF Orders
  <2>2. PICK b : b = <<h, k>> OBVIOUS
  <2>3. b \in Pages \X Orders /\ b[1] = h /\ b[2] = k BY <1>3, <2>1, <2>2
  <2> QED BY <2>2, <2>3
<1>7. b \in BuddyBlocks BY <1>2, <1>4, <1>5, <1>6 DEF BuddyBlocks
<1>8. BuddyPages[b] = h .. h + p - 1 BY <1>2, <1>6, <1>7 DEF BuddyPages
<1> QED BY <1>1, <1>2, <1>6, <1>7, <1>8

LEMMA BlocksApart ==
  ASSUME NEW H, NEW o, Tiling(H, o), InBounds(H, o), NEW h \in H, NEW g \in H,
         o[h] <= MaxOrder, o[g] <= MaxOrder, h # g
  PROVE  BuddyPages[<<h, o[h]>>] \cap BuddyPages[<<g, o[g]>>] = {}
<1>1. /\ BuddyPages[<<h, o[h]>>] = h .. h + Pow2[o[h]] - 1
      /\ BuddyPages[<<g, o[g]>>] = g .. g + Pow2[o[g]] - 1
  BY BlockOf
<1>2. PICK p \in Nat : p = Pow2[o[h]] BY TilingFacts
<1>3. PICK q \in Nat : q = Pow2[o[g]] BY TilingFacts
<1>4. h \in Nat /\ g \in Nat /\ (h + p <= g \/ g + q <= h)
  <2>1. h \in Nat /\ g \in Nat BY TilingFacts
  <2>2. (h < g => h + p <= g) /\ (g < h => g + q <= h)
    BY <1>2, <1>3, TilingFacts
  <2> QED BY <2>1, <2>2
<1>5. (h .. h + p - 1) \cap (g .. g + q - 1) = {} BY <1>4
<1> QED BY <1>1, <1>2, <1>3, <1>5

Live == {<<i, order[i]>> : i \in busy}

LEMMA LiveBlocks ==
  ASSUME BallocInv
  PROVE  /\ \A h \in busy : h \in Heads /\ order[h] <= MaxOrder
         /\ \A h, g \in busy : h # g =>
              BuddyPages[<<h, order[h]>>] \cap BuddyPages[<<g, order[g]>>] = {}
<1>1. \A h \in busy : h \in Heads /\ order[h] <= MaxOrder BY DEF BallocInv
<1>2. Tiling(Heads, order) /\ InBounds(Heads, order) BY DEF BallocInv
<1> QED BY <1>1, <1>2, BlocksApart

LEMMA AllocMaps ==
  ASSUME BallocInv, NEW len \in 1 .. NPages, ba_alloc(len)
  PROVE  Allocator!Alloc
<1>1. PICK b \in Heads \ busy :
        /\ order'[b] = ba_order(len) /\ busy' = busy \cup {b}
        /\ \A h \in busy : order'[h] = order[h]
  BY Allocated
<1>2. PICK k \in Orders : k = ba_order(len) BY OrderFacts
<1>3. PICK c : c = <<b, k>> OBVIOUS
<1>4. PICK H : H = Heads' OBVIOUS
<1>5. PICK u : u = order' OBVIOUS
<1>6. BallocInv' BY Allocated
<1>7. Tiling(H, u) /\ InBounds(H, u) /\ busy' \subseteq H
      /\ \A h \in busy' : u[h] <= MaxOrder
  BY <1>4, <1>5, <1>6 DEF BallocInv, Tiling, InBounds
<1>8. u[b] = k /\ b \in H /\ u[b] <= MaxOrder BY <1>1, <1>2, <1>5, <1>7
<1>9. c \in BuddyBlocks BY <1>3, <1>7, <1>8, BlockOf
<1>10. Fits(c, len)
  <2>1. c[2] = k BY <1>3
  <2> QED BY <1>2, <2>1, OrderFacts DEF Fits
<1>11. \A h \in busy : u[h] = order[h] /\ h \in busy' /\ h # b BY <1>1, <1>5
<1>12. \A l \in Live : ~(BuddyPages[c] \cap BuddyPages[l] # {})
  <2> TAKE l \in Live
  <2>1. PICK h \in busy : l = <<h, order[h]>> BY DEF Live
  <2>2. u[h] = order[h] /\ h \in H /\ u[h] <= MaxOrder /\ h # b
    BY <1>7, <1>11
  <2>3. BuddyPages[<<b, u[b]>>] \cap BuddyPages[<<h, u[h]>>] = {}
    BY <1>7, <1>8, <2>2, BlocksApart
  <2> QED BY <1>3, <1>8, <2>1, <2>2, <2>3
<1>13. {<<i, u[i]>> : i \in busy'} = Live \cup {c}
  BY <1>1, <1>3, <1>8, <1>11 DEF Live
<1> DEFINE For == [r \in 1 .. NPages |-> {d \in BuddyBlocks : Fits(d, r)}]
<1>14. c \in For[len] BY <1>9, <1>10
<1>15. c \in Allocator!Candidates(len, Live)
  BY <1>12, <1>14 DEF Allocator!Candidates, Allocator!Overlap
<1>16. {<<i, order'[i]>> : i \in busy'} = Live \cup {c} BY <1>5, <1>13
<1> QED BY <1>15, <1>16 DEF Allocator!Alloc, Live

LEMMA FreeMaps ==
  ASSUME BallocInv, NEW i \in busy, NEW lies, Garbage \/ lies = {}, ba_free(i, lies)
  PROVE  Allocator!Free
<1>1. busy' = busy \ {i} /\ \A h \in busy' : order'[h] = order[h]
  BY Deallocated
<1>2. PICK gone : gone = {<<i, order[i]>>} OBVIOUS
<1>3. gone \in (SUBSET Live) \ {{}} BY <1>2 DEF Live
<1>4. {<<h, order'[h]>> : h \in busy'} = Live \ gone BY <1>1, <1>2 DEF Live
<1> QED BY <1>3, <1>4 DEF Allocator!Free, Live

\* The buddy allocator implements BlockAllocator (AllocatesBlocks): what
\* ba_alloc returns is a block of the order asked for with no page of another
\* owner, and it stays that block until ba_free gets it back.
THEOREM BallocImplements == BallocSpec => AllocatesBlocks
<1>1. ba_create => Allocator!Init BY DEF ba_create, Allocator!Init
<1>2. BallocInv /\ [BallocNext]_bitmap => [Allocator!Next]_Live
  <2> SUFFICES ASSUME BallocInv, [BallocNext]_bitmap PROVE [Allocator!Next]_Live OBVIOUS
  <2>1. CASE UNCHANGED bitmap BY <2>1 DEF bitmap, Live
  <2>2. ASSUME NEW len \in 1 .. NPages, ba_alloc(len) PROVE Allocator!Next
    BY <2>2, AllocMaps DEF Allocator!Next
  <2>3. ASSUME NEW i \in busy,
               NEW lies \in (IF Garbage THEN SUBSET NoBuddy(i) ELSE {{}}),
               ba_free(i, lies)
        PROVE  Allocator!Next
    <3>1. Garbage \/ lies = {} OBVIOUS
    <3> QED BY <2>3, <3>1, FreeMaps DEF Allocator!Next
  <2> QED BY <2>1, <2>2, <2>3 DEF BallocNext
<1> QED BY <1>1, <1>2, BallocInductive, PTL DEF BallocSpec, AllocatesBlocks, Allocator!Spec, Live

------------------------------------------------------------------------------
(* No allocation fails while a block of the order is free                    *)

\* The blocks inside a free region of 2^k pages are free and, if none is as
\* large as the region, the smallest of them has a buddy of its size in it.
LEMMA RegionMerges ==
  ASSUME BallocInv, NEW k \in Nat, FreeHeads(k) = {},
         NEW i \in Pages, Multiple(i, Pow2[k]), i + Pow2[k] <= NPages
  PROVE  \E h \in busy : h < i + Pow2[k] /\ i < h + Pow2[order[h]]
<1>1. PICK H : H = Heads OBVIOUS
<1>2. busy \subseteq H /\ Tiling(H, order) /\ Merged(H, busy, order)
  BY <1>1 DEF BallocInv
<1>3. PICK n \in Nat : n = i + Pow2[k] /\ i < n /\ n <= NPages
  BY Pow2Facts, PageFacts
<1> SUFFICES ASSUME \A h \in busy : ~(h < n /\ i < h + Pow2[order[h]])
             PROVE  FALSE
  BY <1>3
<1>4. \A h \in H : h \in Nat /\ order[h] \in Nat /\ Pow2[order[h]] \in Nat \ {0}
                /\ Multiple(h, Pow2[order[h]])
  BY <1>2, TilingFacts
<1>5. ASSUME NEW h \in H, h < n, i < h + Pow2[order[h]]
      PROVE  h \notin busy /\ order[h] < k
  <2>1. h \notin busy BY <1>5
  <2>2. ~(order[h] >= k) BY <1>1, <2>1 DEF FreeHeads
  <2> QED BY <1>4, <2>1, <2>2
<1>6. i \in Nat BY PageFacts
<1> DEFINE C == {h \in H : i <= h /\ h < n}
           O == {order[h] : h \in C}
<1>7. C # {}
  <2>1. PICK h \in H : h <= i /\ i < h + Pow2[order[h]] BY <1>2, TilingFacts
  <2>2. order[h] < k BY <1>3, <1>4, <1>5, <1>6, <2>1
  <2>3. \/ h + Pow2[order[h]] <= i \/ i + Pow2[k] <= h
        \/ (i <= h /\ h + Pow2[order[h]] <= i + Pow2[k])
    BY <1>4, <1>6, <2>2, Nested
  <2>4. i <= h /\ h < n BY <1>3, <1>4, <1>6, <2>1, <2>3
  <2> QED BY <2>4
<1>8. PICK h \in C : \A g \in C : order[h] <= order[g]
  <2>1. O \subseteq Nat /\ O # {} BY <1>4, <1>7
  <2>2. PICK m \in O : \A j \in O : m <= j
    <3> HIDE DEF O
    <3> QED BY <2>1, LeastNumber
  <2> QED BY <2>2
<1>9. h \in H /\ i <= h /\ h < n /\ h \in Nat BY <1>4
<1>10. PICK m \in Nat : /\ m = order[h] /\ m < k /\ h \notin busy
                        /\ Multiple(h, Pow2[m])
  BY <1>4, <1>5, <1>6, <1>9
<1>11. PICK g \in Nat : g = Xor(h, m) BY <1>9, <1>10, XorBack
<1>12. PICK p \in Nat \ {0} : p = Pow2[m] /\ Pow2[m + 1] = 2 * p BY Pow2Facts
<1>13. PICK a \in Nat : /\ Multiple(a, Pow2[m + 1])
                        /\ \/ (h = a /\ g = a + p)
                           \/ (h = a + p /\ g = a)
  <2>1. PICK a \in Nat : /\ Multiple(a, Pow2[m + 1])
                         /\ \/ (h = a /\ Xor(h, m) = a + Pow2[m])
                            \/ (h = a + Pow2[m] /\ Xor(h, m) = a)
    BY <1>9, <1>10, Buddies
  <2> QED BY <1>11, <1>12, <2>1
<1>14. i <= a /\ a + 2 * p <= n
  <2>1. m + 1 \in Nat /\ m + 1 <= k BY <1>10
  <2>2. \/ a + Pow2[m + 1] <= i \/ i + Pow2[k] <= a
        \/ (i <= a /\ a + Pow2[m + 1] <= i + Pow2[k])
    BY <1>6, <1>13, <2>1, Nested
  <2> QED BY <1>3, <1>6, <1>9, <1>12, <1>13, <2>2
<1>15. i <= g /\ g < n /\ g \in Pages
  BY <1>3, <1>6, <1>12, <1>13, <1>14, PageFacts
<1>16. g \in H BY <1>2, <1>10, <1>11, <1>15, BuddyIsHead
<1>17. g \in C BY <1>15, <1>16
<1>18. g \notin busy BY <1>4, <1>5, <1>6, <1>15, <1>16
<1>19. order[g] # m
  BY <1>2, <1>9, <1>10, <1>11, <1>15, <1>18 DEF Merged
<1>20. m + 1 <= order[g] BY <1>4, <1>8, <1>10, <1>16, <1>17, <1>19
<1>21. g <= a /\ a + 2 * p <= g + Pow2[order[g]]
  <2>1. \/ a + Pow2[m + 1] <= g \/ g + Pow2[order[g]] <= a
        \/ (g <= a /\ a + Pow2[m + 1] <= g + Pow2[order[g]])
    <3>1. m + 1 \in Nat OBVIOUS
    <3> QED BY <1>4, <1>13, <1>16, <1>20, <3>1, Nested
  <2>2. PICK q \in Nat \ {0} : q = Pow2[order[g]] BY <1>4, <1>16
  <2> QED BY <1>12, <1>13, <2>1, <2>2
<1>22. g < h /\ h < g + Pow2[order[g]] BY <1>4, <1>12, <1>13, <1>16, <1>21
<1>23. g + Pow2[order[g]] <= h BY <1>2, <1>9, <1>16, <1>22, TilingFacts
<1> QED BY <1>4, <1>9, <1>16, <1>22, <1>23

\* ba_alloc fails only when no block of the order asked for is free
\* (NoFalseFailure): free buddies never stay apart.
THEOREM NoFalseFailureInvariant == BallocSpec => []NoFalseFailure
<1>1. BallocInv => NoFalseFailure
  <2> SUFFICES ASSUME BallocInv, NEW len \in 1 .. NPages,
                      FreeHeads(ba_order(len)) = {},
                      NEW c \in Allocator!Candidates(len, Live)
               PROVE  FALSE
    BY DEF NoFalseFailure, Live
  <2>1. PICK k \in Nat : k = ba_order(len) /\ k \in Orders
    BY OrderFacts, PageFacts DEF Orders
  <2> DEFINE For == [r \in 1 .. NPages |-> {d \in BuddyBlocks : Fits(d, r)}]
  <2>2. c \in For[len] /\ \A l \in Live : BuddyPages[c] \cap BuddyPages[l] = {}
    BY DEF Allocator!Candidates, Allocator!Overlap
  <2>3. c \in BuddyBlocks /\ Fits(c, len) BY <2>2
  <2>4. PICK i \in Pages, m \in Orders : c = <<i, m>> /\ i % Pow2[m] = 0
                                       /\ i + Pow2[m] <= NPages
    BY <2>3 DEF BuddyBlocks
  <2>5. m \in Nat /\ i \in Nat BY <2>4, PageFacts DEF Orders
  <2>6. m = k BY <2>1, <2>3, <2>4, <2>5, OrderFacts DEF Fits
  <2>7. Multiple(i, Pow2[k])
    <3>1. PICK p \in Nat \ {0} : p = Pow2[k] BY Pow2Facts
    <3>2. i \in Int BY <2>5
    <3> QED BY <2>4, <2>6, <3>1, <3>2, Remainder
  <2>8. PICK h \in busy : h < i + Pow2[k] /\ i < h + Pow2[order[h]]
    BY <2>1, <2>4, <2>6, <2>7, RegionMerges
  <2>9. PICK q \in Nat \ {0} : q = Pow2[order[h]] BY TilingFacts DEF BallocInv
  <2>10. h \in Nat BY TilingFacts DEF BallocInv
  <2>11. BuddyPages[<<h, order[h]>>] = h .. h + q - 1
    BY <2>9, BlockOf DEF BallocInv
  <2>12. PICK p \in Nat \ {0} : p = Pow2[k] BY Pow2Facts
  <2>13. BuddyPages[c] = i .. i + p - 1
    BY <2>3, <2>4, <2>6, <2>12 DEF BuddyPages
  <2>14. <<h, order[h]>> \in Live BY DEF Live
  <2>15. PICK x \in Nat : x \in i .. i + p - 1 /\ x \in h .. h + q - 1
    <3>1. i <= h => h \in i .. i + p - 1 /\ h \in h .. h + q - 1
      BY <2>5, <2>8, <2>9, <2>10, <2>12
    <3>2. h <= i => i \in i .. i + p - 1 /\ i \in h .. h + q - 1
      BY <2>5, <2>8, <2>9, <2>10, <2>12
    <3> QED BY <2>5, <2>10, <3>1, <3>2
  <2> QED BY <2>2, <2>11, <2>13, <2>14, <2>15
<1> QED BY <1>1, BallocInductive, PTL
=============================================================================
