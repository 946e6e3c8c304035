--------------------------- MODULE ServicesProofs ---------------------------
(***************************************************************************)
(* Proofs about Services: its types, where the items of the pool are, and  *)
(* that svc.service implements CommandServer, for every set of calls,      *)
(* whatever they ask for, every size of the FIFO and every memory of the   *)
(* queue.                                                                  *)
(***************************************************************************)
EXTENDS Services, DataProofs, FiniteSetTheorems

Labels ==
  {"off", "init", "notify", "loop", "handle", "enqueue", "put", "reply",
   "exit", "close", "ended", "send", "wait", "leave"}

\* Between VMQueueGetItem and VMQueuePutItem.
Holding == {"handle", "enqueue", "put", "reply"}

\* The queue and the main threads; only an export is answered to.
QueueOK ==
  /\ sub \subseteq Consumers
  /\ queue \in [Consumers -> Seq(Events)]
  /\ taken \in [Consumers -> Events \cup {None}]
  /\ pc \in [Consumers -> Labels]
  /\ \A p \in Consumers :
       /\ (taken[p] # None) = (pc[p] \in Holding)
       /\ taken[p] # None => taken[p] \in Handled(p)
       /\ (p \notin sub) = (pc[p] \in {"off", "ended"})
       /\ p \notin sub => queue[p] = << >>
  /\ pc["config"] = "reply" => taken["config"] \in Exports

\* The service thread; there is none before the start.
ThreadOK ==
  /\ thread \in {"off", "idle", "free", "run", "reply", "end"}
  /\ hand \in Cli \cup {None}
  /\ (hand \in Cli) = (thread \in {"free", "run", "reply"})
  /\ pc["service"] = "off" => thread = "off"

\* The lists and the pointers of utilFifo.c.
ListsOK ==
  /\ emptyRoot \in Seq(Items) /\ queueRoot \in Seq(Items)
  /\ data \in [Items -> Cli \cup {None}]
  /\ enqueued \in Items \cup {NULL} /\ dequeued \in Items \cup {NULL}
  /\ (enqueued \in Items) = (pc["service"] = "enqueue")
  /\ (dequeued \in Items) = (thread = "free")

\* PoolKept, place by place.
Apart ==
  /\ IsInjective(emptyRoot) /\ IsInjective(queueRoot)
  /\ \A i \in Items :
       /\ \/ i \in Range(emptyRoot) \/ i \in Range(queueRoot)
          \/ i = enqueued \/ i = dequeued
       /\ ~(i \in Range(emptyRoot) /\ i \in Range(queueRoot))
       /\ i = enqueued => i \notin Range(emptyRoot) \cup Range(queueRoot) \cup {dequeued}
       /\ i = dequeued => i \notin Range(emptyRoot) \cup Range(queueRoot)
       /\ (data[i] # None) <=> i \in Range(queueRoot)

PoolOK == ThreadOK /\ ListsOK /\ Apart

FlagsOK ==
  /\ threadRun \in BOOLEAN /\ initialized \in BOOLEAN /\ stored \in BOOLEAN
  /\ kind \in Kinds

IInv == QueueOK /\ PoolOK /\ FlagsOK

------------------------------------------------------------------------------
(* The sets the values are from                                              *)

LEMMA ConsumerFacts ==
  /\ "config" \in Consumers /\ "service" \in Consumers
  /\ "config" \notin Cli /\ "service" \notin Cli
  /\ Cli \subseteq Consumers /\ None \notin Cli /\ None \notin Events
  /\ FifoSize \in Nat \ {0} /\ NULL \notin Items
BY ServicesAssumption, EventsAssumption DEF Consumers, Services, Items, NULL

LEMMA EventFacts ==
  /\ Commands \subseteq Events /\ Exports \subseteq Events
  /\ Replies \subseteq Events /\ PowerOffs \subseteq Events
  /\ Runtime \in Events /\ ConfigUpdate \in Events
  /\ \A c \in Cli : /\ Event("REPLY", c) \in Events
                    /\ Event("COMMAND", c) \in Events
                    /\ Event("CONFIG_REQUEST_EXPORT", c) \in Events
                    /\ Event("SYS_POWER_OFF", c) \in Events
  /\ \A e \in Commands \cup Exports : e.of \in Cli
<1>1. /\ Commands \subseteq Events /\ Exports \subseteq Events
      /\ Replies \subseteq Events /\ PowerOffs \subseteq Events
      /\ Runtime \in Events /\ ConfigUpdate \in Events
  BY DEF Events
<1>2. ASSUME NEW c \in Cli
      PROVE  /\ Event("REPLY", c) \in Replies
             /\ Event("COMMAND", c) \in Commands
             /\ Event("CONFIG_REQUEST_EXPORT", c) \in Exports
             /\ Event("SYS_POWER_OFF", c) \in PowerOffs
  BY DEF Commands, Exports, Replies, PowerOffs
<1>3. ASSUME NEW e \in Commands \cup Exports PROVE e.of \in Cli
  BY DEF Commands, Exports, Event
<1> QED BY <1>1, <1>2, <1>3

LEMMA HandledFacts ==
  /\ Handled("service") = Commands
  /\ Handled("config") = Exports \cup {Runtime}
BY EventFacts DEF Handled

\* What cli publishes is an event, whatever it is called with.
LEMMA RequestIsEvent ==
  ASSUME FlagsOK, NEW c \in Cli PROVE Request(c) \in Events
<1>1. kind[c] \in {"cmdnRv", "export", "cmd", "SYS_POWER_OFF"}
  BY ServicesAssumption DEF FlagsOK, Methods, Queries
<1>2. CASE kind[c] \in {"cmd", "cmdnRv"}
  BY <1>2, EventFacts DEF Request, serviceCommand
<1>3. CASE kind[c] = "export"
  BY <1>3, EventFacts DEF Request, ConfigRequestExport
<1>4. CASE kind[c] = "SYS_POWER_OFF"
  BY <1>4, EventFacts DEF Request, SystemPowerOff
<1> QED BY <1>1, <1>2, <1>3, <1>4

LEMMA SeqFacts ==
  ASSUME NEW S, NEW s \in Seq(S)
  PROVE  /\ s # << >> => /\ Head(s) \in S /\ Tail(s) \in Seq(S)
                         /\ Len(Tail(s)) = Len(s) - 1 /\ Len(s) > 0
         /\ \A e \in S : /\ Append(s, e) \in Seq(S)
                         /\ Len(Append(s, e)) = Len(s) + 1
         /\ Len(s) \in Nat /\ << >> \in Seq(S) /\ Len(<< >>) = 0
OBVIOUS

\* What is read at the front was there, and what is added at the end is all
\* that is new.
LEMMA ElementFacts ==
  ASSUME NEW S, NEW s \in Seq(S)
  PROVE  /\ s # << >> => /\ \E i \in DOMAIN s : Head(s) = s[i]
                         /\ \A i \in DOMAIN Tail(s) :
                              \E j \in DOMAIN s : Tail(s)[i] = s[j]
         /\ \A e \in S : \A i \in DOMAIN Append(s, e) :
              \/ Append(s, e)[i] = e
              \/ \E j \in DOMAIN s : Append(s, e)[i] = s[j]
<1>1. ASSUME s # << >>
      PROVE  /\ \E i \in DOMAIN s : Head(s) = s[i]
             /\ \A i \in DOMAIN Tail(s) :
                  \E j \in DOMAIN s : Tail(s)[i] = s[j]
  <2>1. 1 \in DOMAIN s /\ Head(s) = s[1]
    BY <1>1
  <2>2. ASSUME NEW i \in DOMAIN Tail(s)
        PROVE  i + 1 \in DOMAIN s /\ Tail(s)[i] = s[i + 1]
    BY <1>1, <2>2
  <2> QED BY <2>1, <2>2
<1>2. ASSUME NEW e \in S, NEW i \in DOMAIN Append(s, e)
      PROVE  \/ Append(s, e)[i] = e
             \/ \E j \in DOMAIN s : Append(s, e)[i] = s[j]
  OBVIOUS
<1> QED BY <1>1, <1>2

------------------------------------------------------------------------------
(* The queue and the main threads                                            *)

\* What the operations of the queue and a step of p's main thread do to
\* QueueOK.
LEMMA SubscribeQueue ==
  ASSUME QueueOK, NEW p \in Consumers, pc[p] = "off", Q!Subscribe(p),
         NEW l \in Labels \ ({"off", "ended"} \cup Holding),
         Goto(p, l)
  PROVE  QueueOK'
BY ConsumerFacts DEF Holding, QueueOK, Q!Subscribe, Goto, Handled

LEMMA LeaveQueue ==
  ASSUME QueueOK, NEW p \in Consumers,
         pc[p] \notin {"off", "ended"}, Q!Leave(p), Goto(p, "ended")
  PROVE  QueueOK'
BY ConsumerFacts, SeqFacts DEF Holding, QueueOK, Q!Leave, Goto, Handled, Labels

LEMMA PublishQueue ==
  ASSUME QueueOK, NEW e \in Events, Q!Publish(e),
         NEW p \in Consumers,
         pc[p] \notin ({"off", "ended"} \cup Holding),
         NEW l \in Labels \ ({"off", "ended"} \cup Holding),
         Goto(p, l)
  PROVE  QueueOK'
<1>1. queue' \in [Consumers -> Seq(Events)]
  BY SeqFacts DEF QueueOK, Q!Publish
<1> QED BY <1>1, ConsumerFacts DEF Holding, QueueOK, Q!Publish, Goto, Handled

LEMMA ReplyQueue ==
  ASSUME QueueOK, NEW e \in Events, Q!Publish(e), pc' = pc
  PROVE  QueueOK'
<1>1. queue' \in [Consumers -> Seq(Events)]
  BY SeqFacts DEF QueueOK, Q!Publish
<1> QED BY <1>1, ConsumerFacts DEF Holding, QueueOK, Q!Publish, Handled

LEMMA AnswerQueue ==
  ASSUME QueueOK, NEW e \in Events, Answer(e),
         pc["config"] \in {"handle", "reply"}
  PROVE  QueueOK'
<1>1. queue' \in [Consumers -> Seq(Events)]
  BY SeqFacts DEF QueueOK, Answer
<1> QED BY <1>1, ConsumerFacts DEF Holding, QueueOK, Answer, Goto, Handled, Labels

\* p reads an event and gives it back.
LEMMA ReadQueue ==
  ASSUME QueueOK, NEW p \in Consumers, queue[p] # << >>,
         queue' = [queue EXCEPT ![p] = Tail(@)], UNCHANGED <<sub, taken>>,
         pc[p] \notin ({"off", "ended"} \cup Holding),
         NEW l \in Labels \ ({"off", "ended"} \cup Holding),
         Goto(p, l)
  PROVE  QueueOK'
<1>1. queue' \in [Consumers -> Seq(Events)]
  BY SeqFacts DEF QueueOK
<1> QED BY <1>1, ConsumerFacts DEF Holding, QueueOK, Goto, Handled

LEMMA TakeQueue ==
  ASSUME QueueOK, NEW p \in Consumers, GetItem(p) PROVE QueueOK'
<1>1. queue' \in [Consumers -> Seq(Events)] /\ Head(queue[p]) \in Events
  BY SeqFacts DEF QueueOK, GetItem, Q!Take
<1> QED BY <1>1, ConsumerFacts DEF Holding, QueueOK, GetItem, Q!Take, Goto, Handled, Labels

\* A step of p's main thread that leaves the queue alone.
LEMMA StayQueue ==
  ASSUME QueueOK, UNCHANGED qvars, NEW p \in Consumers, NEW l \in Labels,
         Goto(p, l), pc[p] \notin {"off", "ended"}, l \notin {"off", "ended"},
         (l \in Holding)
           = (pc[p] \in Holding),
         p = "config" /\ l = "reply" => taken["config"] \in Exports
  PROVE  QueueOK'
BY ConsumerFacts DEF Holding, QueueOK, qvars, Goto, Handled

LEMMA QueueStep == ASSUME IInv, [Next]_vars PROVE QueueOK'
<1> USE ConsumerFacts, EventFacts
<1>1. CASE Config
  <2>1. CASE ConfigInit
    BY <2>1, StayQueue DEF IInv, ConfigInit, Labels, Holding
  <2>2. CASE UpdateRuntime
    BY <2>2 DEF IInv, UpdateRuntime, QueueOK, qvars, Handled
  <2>3. CASE NotifyConfigUpdate
    BY <2>3, AnswerQueue DEF IInv, NotifyConfigUpdate
  <2>4. CASE ConfigExport
    BY <2>4, StayQueue DEF IInv, ConfigExport, Labels, Holding
  <2>5. CASE NotifyReplyNormal
    <3>1. taken["config"].of \in Cli
      BY <2>5 DEF IInv, QueueOK, NotifyReplyNormal
    <3> QED BY <2>5, <3>1, AnswerQueue DEF IInv, NotifyReplyNormal
  <2>6. CASE EventExit
    BY <2>6, LeaveQueue DEF IInv, EventExit
  <2>7. CASE Loop("config")
    <3>1. CASE GetItem("config") BY <3>1, TakeQueue DEF IInv
    <3>2. CASE ReadItem("config")
      BY <3>2, ReadQueue DEF IInv, ReadItem, Labels, Holding
    <3> QED BY <2>7, <3>1, <3>2 DEF Loop
  <2> QED BY <1>1, <2>1, <2>2, <2>3, <2>4, <2>5, <2>6, <2>7 DEF Config
<1>2. CASE ServiceMain
  <2>1. CASE ServiceNotifyRuntime
    BY <2>1, PublishQueue DEF IInv, ServiceNotifyRuntime, Publish, Labels, Holding
  <2>2. CASE AllocItem
    BY <2>2, StayQueue DEF IInv, AllocItem, Labels, Holding
  <2>3. CASE EnqueueFIFO
    BY <2>3, StayQueue DEF IInv, EnqueueFIFO, Labels, Holding
  <2>4. CASE ServiceExit
    BY <2>4, StayQueue DEF IInv, ServiceExit, Labels, Holding
  <2>5. CASE ServiceEnds
    BY <2>5, LeaveQueue DEF IInv, ServiceEnds
  <2>6. CASE Loop("service")
    <3>1. CASE GetItem("service") BY <3>1, TakeQueue DEF IInv
    <3>2. CASE ReadItem("service")
      BY <3>2, ReadQueue DEF IInv, ReadItem, Labels, Holding
    <3> QED BY <2>6, <3>1, <3>2 DEF Loop
  <2>7. CASE PutItem
    BY <2>7 DEF IInv, QueueOK, PutItem, Q!GiveBack, Goto, Handled, Labels, Holding
  <2> QED BY <1>2, <2>1, <2>2, <2>3, <2>4, <2>5, <2>6, <2>7 DEF ServiceMain
<1>3. CASE ServiceThread
  <2>1. CASE DoReplyStruct
    <3>1. hand \in Cli
      BY <2>1 DEF IInv, PoolOK, ThreadOK, DoReplyStruct
    <3> QED BY <2>1, <3>1, ReplyQueue DEF IInv, DoReplyStruct, Publish
  <2>2. CASE DequeueFIFO \/ FreeQItem \/ CommandEnds \/ ThreadEnds
    <3>1. UNCHANGED <<qvars, pc>>
      BY <2>2 DEF DequeueFIFO, FreeQItem, CommandEnds, ThreadEnds
    <3> QED BY <3>1 DEF IInv, QueueOK, qvars, Handled
  <2> QED BY <1>3, <2>1, <2>2 DEF ServiceThread
<1>4. CASE Sigterm
  BY <1>4, StayQueue DEF IInv, Sigterm, Labels, Holding
<1>5. ASSUME NEW p \in Services, StartService(p) PROVE QueueOK'
  <2>1. p \in Consumers BY DEF Consumers
  <2> QED BY <1>5, <2>1, SubscribeQueue DEF IInv, StartService, Labels, Holding
<1>6. ASSUME NEW c \in Cli, CallCli(c) \/ Call(c) PROVE QueueOK'
  <2>1. CASE CallCli(c)
    BY <2>1, SubscribeQueue DEF IInv, CallCli, Labels, Holding
  <2>2. CASE Send(c)
    BY <2>2, RequestIsEvent, PublishQueue DEF IInv, Send, Publish, Labels, Holding
  <2>3. CASE ReadEvent(c)
    BY <2>3, ReadQueue DEF IInv, ReadEvent, Labels, Holding
  <2>4. CASE Timeout(c)
    BY <2>4, StayQueue DEF IInv, Timeout, Labels, Holding
  <2>5. CASE CliExit(c)
    BY <2>5, LeaveQueue DEF IInv, CliExit
  <2> QED BY <1>6, <2>1, <2>2, <2>3, <2>4, <2>5 DEF Call
<1>7. CASE UNCHANGED vars
  BY <1>7 DEF IInv, QueueOK, vars, qvars, Handled
<1> QED BY <1>1, <1>2, <1>3, <1>4, <1>5, <1>6, <1>7 DEF Next

------------------------------------------------------------------------------
(* The service thread and the pool                                           *)

\* What list_del and list_add_tail do to the items of a list.
LEMMA RangeType ==
  ASSUME NEW S, NEW s \in Seq(S) PROVE Range(s) \subseteq S
BY DEF Range

LEMMA ListDel ==
  ASSUME NEW S, NEW s \in Seq(S), s # << >>, IsInjective(s)
  PROVE  /\ Head(s) \in Range(s) /\ Head(s) \in S /\ Tail(s) \in Seq(S)
         /\ IsInjective(Tail(s))
         /\ Range(Tail(s)) = Range(s) \ {Head(s)}
<1>1. 1 \in DOMAIN s /\ Head(s) = s[1] /\ Tail(s) \in Seq(S) /\ Head(s) \in S
  OBVIOUS
<1>2. \A i \in DOMAIN Tail(s) :
        i + 1 \in DOMAIN s /\ i + 1 # 1 /\ Tail(s)[i] = s[i + 1] /\ i \in Nat
  OBVIOUS
<1>3. \A j \in DOMAIN s :
        j # 1 => j - 1 \in DOMAIN Tail(s) /\ Tail(s)[j - 1] = s[j]
  OBVIOUS
<1>4. IsInjective(Tail(s))
  <2> SUFFICES ASSUME NEW a \in DOMAIN Tail(s), NEW b \in DOMAIN Tail(s),
                      Tail(s)[a] = Tail(s)[b]
               PROVE  a = b
    BY DEF IsInjective
  <2>1. a + 1 = b + 1 BY <1>2 DEF IsInjective
  <2> QED BY <1>2, <2>1
<1>5. ASSUME NEW x PROVE x \in Range(Tail(s)) <=> x \in Range(s) \ {Head(s)}
  <2>1. ASSUME x \in Range(Tail(s)) PROVE x \in Range(s) \ {Head(s)}
    <3>1. PICK i \in DOMAIN Tail(s) : x = Tail(s)[i] BY <2>1 DEF Range
    <3>2. x = s[i + 1] /\ i + 1 \in DOMAIN s /\ i + 1 # 1 BY <1>2, <3>1
    <3>3. x # s[1] BY <1>1, <3>2 DEF IsInjective
    <3> QED BY <1>1, <3>2, <3>3 DEF Range
  <2>2. ASSUME x \in Range(s) \ {Head(s)} PROVE x \in Range(Tail(s))
    <3>1. PICK j \in DOMAIN s : x = s[j] BY <2>2 DEF Range
    <3>2. j # 1 BY <1>1, <2>2, <3>1
    <3> QED BY <1>3, <3>1, <3>2 DEF Range
  <2> QED BY <2>1, <2>2
<1> QED BY <1>1, <1>4, <1>5 DEF Range

LEMMA ListAddTail ==
  ASSUME NEW S, NEW s \in Seq(S), NEW e \in S, IsInjective(s), e \notin Range(s)
  PROVE  /\ Append(s, e) \in Seq(S) /\ IsInjective(Append(s, e))
         /\ Range(Append(s, e)) = Range(s) \cup {e}
<1>1. PICK t : t = Append(s, e) OBVIOUS
<1>2. PICK n \in Nat : n = Len(s) OBVIOUS
<1>3. /\ t \in Seq(S) /\ DOMAIN s = 1..n /\ DOMAIN t = 1..(n + 1)
      /\ t[n + 1] = e /\ \A i \in 1..n : t[i] = s[i]
  BY <1>1, <1>2
<1>4. \A i \in 1..n : s[i] # e
  BY <1>3 DEF Range
<1>5. IsInjective(t)
  <2> SUFFICES ASSUME NEW a \in 1..(n + 1), NEW b \in 1..(n + 1), t[a] = t[b]
               PROVE  a = b
    BY <1>3 DEF IsInjective
  <2>1. CASE a \in 1..n /\ b \in 1..n BY <1>3, <2>1 DEF IsInjective
  <2>2. CASE a = n + 1 /\ b \in 1..n BY <1>3, <1>4, <2>2
  <2>3. CASE b = n + 1 /\ a \in 1..n BY <1>3, <1>4, <2>3
  <2>4. CASE a = n + 1 /\ b = n + 1 BY <2>4
  <2>5. \A i \in 1..(n + 1) : i \in 1..n \/ i = n + 1 OBVIOUS
  <2> QED BY <2>1, <2>2, <2>3, <2>4, <2>5
<1>6. ASSUME NEW x PROVE x \in Range(t) <=> x \in Range(s) \cup {e}
  <2>1. ASSUME x \in Range(t) PROVE x \in Range(s) \cup {e}
    <3>1. PICK i \in 1..(n + 1) : x = t[i] BY <1>3, <2>1 DEF Range
    <3>2. CASE i = n + 1 BY <1>3, <3>1, <3>2
    <3>3. CASE i # n + 1
      <4>1. i \in 1..n BY <3>3
      <4> QED BY <1>3, <3>1, <4>1 DEF Range
    <3> QED BY <3>2, <3>3
  <2>2. ASSUME x \in Range(s) PROVE x \in Range(t)
    <3>1. PICK i \in 1..n : x = s[i] BY <1>3, <2>2 DEF Range
    <3>2. i \in 1..(n + 1) BY <1>2
    <3> QED BY <1>3, <3>1, <3>2 DEF Range
  <2>3. e \in Range(t)
    <3>1. n + 1 \in 1..(n + 1) BY <1>2
    <3> QED BY <1>3, <3>1 DEF Range
  <2> QED BY <2>1, <2>2, <2>3
<1>7. Range(t) = Range(s) \cup {e} BY <1>6
<1> QED BY <1>1, <1>3, <1>5, <1>7

\* The pool as PFU_createFIFO makes it.
LEMMA FreshLists ==
  /\ AllFree \in Seq(Items) /\ IsInjective(AllFree) /\ Range(AllFree) = Items
  /\ << >> \in Seq(Items) /\ IsInjective(<< >>) /\ Range(<< >>) = {}
  /\ NoCopies \in [Items -> Cli \cup {None}] /\ \A i \in Items : NoCopies[i] = None
  /\ NULL \notin Items
<1>1. AllFree \in Seq(Items)
  BY ConsumerFacts DEF AllFree, Items
<1>2. IsInjective(AllFree) /\ Range(AllFree) = Items
  BY DEF AllFree, IsInjective, Range
<1>3. << >> \in Seq(Items) /\ IsInjective(<< >>) /\ Range(<< >>) = {}
  BY DEF IsInjective, Range
<1> QED BY <1>1, <1>2, <1>3, ConsumerFacts DEF NoCopies

\* A step of a main thread that neither starts svc.service nor touches the
\* pool.
LEMMA QuietPool ==
  ASSUME PoolOK, UNCHANGED <<thread, hand, pool>>,
         pc'["service"] = "off" => pc["service"] = "off",
         (pc'["service"] = "enqueue") = (pc["service"] = "enqueue")
  PROVE  PoolOK'
<1>1. UNCHANGED <<emptyRoot, queueRoot, data, enqueued, dequeued>>
  BY DEF pool
<1>2. ThreadOK' BY DEF PoolOK, ThreadOK
<1>3. ListsOK' BY <1>1 DEF PoolOK, ListsOK
<1>4. Apart' BY <1>1 DEF PoolOK, Apart
<1> QED BY <1>2, <1>3, <1>4 DEF PoolOK

LEMMA PoolStep == ASSUME IInv, [Next]_vars PROVE PoolOK'
<1> USE ConsumerFacts
<1>0. /\ QueueOK /\ PoolOK /\ ThreadOK /\ ListsOK /\ Apart
      /\ pc \in [Consumers -> Labels]
  BY DEF IInv, QueueOK, PoolOK
<1>a. /\ Range(emptyRoot) \subseteq Items /\ Range(queueRoot) \subseteq Items
      /\ IsInjective(emptyRoot) /\ IsInjective(queueRoot)
  BY <1>0, RangeType DEF ListsOK, Apart
<1>1. CASE \/ Config \/ Sigterm \/ ServiceNotifyRuntime \/ Loop("service")
           \/ PutItem \/ ServiceExit \/ \E c \in Cli : CallCli(c) \/ Call(c)
  <2>1. CASE Config
    <3>1. UNCHANGED svars /\ pc'["service"] = pc["service"]
      BY <1>0, <2>1 DEF Config, ConfigInit, UpdateRuntime, NotifyConfigUpdate,
         ConfigExport, NotifyReplyNormal, EventExit, Loop, GetItem, ReadItem,
         Answer, Goto
    <3> QED BY <1>0, <3>1, QuietPool DEF svars
  <2>2. CASE \/ Sigterm \/ ServiceNotifyRuntime \/ Loop("service")
             \/ PutItem \/ ServiceExit
    <3>1. /\ UNCHANGED <<thread, hand, pool>>
          /\ {pc["service"], pc'["service"]} \cap {"off", "enqueue"} = {}
      BY <1>0, <2>2 DEF Sigterm, ServiceNotifyRuntime, Loop, GetItem, ReadItem,
         PutItem, ServiceExit, Goto, svars
    <3> QED BY <1>0, <3>1, QuietPool
  <2>3. ASSUME NEW c \in Cli, CallCli(c) \/ Call(c) PROVE PoolOK'
    <3>1. UNCHANGED svars /\ pc'["service"] = pc["service"]
      BY <1>0, <2>3 DEF CallCli, Call, Send, ReadEvent, Timeout, CliExit, Goto
    <3> QED BY <1>0, <3>1, QuietPool DEF svars
  <2> QED BY <1>1, <2>1, <2>2, <2>3
<1>2. CASE AllocItem
  <2>1. PICK i \in Items : i = Head(emptyRoot)
    BY <1>0, <1>2, SeqFacts DEF AllocItem, ListsOK
  <2>2. /\ emptyRoot' = Tail(emptyRoot) /\ enqueued' = i /\ emptyRoot # << >>
        /\ pc["service"] = "handle" /\ pc'["service"] = "enqueue"
        /\ UNCHANGED <<thread, hand, queueRoot, data, dequeued>>
    BY <1>0, <1>2, <2>1 DEF AllocItem, Goto
  <2>3. /\ i \in Range(emptyRoot) /\ emptyRoot' \in Seq(Items)
        /\ IsInjective(emptyRoot') /\ Range(emptyRoot') = Range(emptyRoot) \ {i}
    BY <1>0, <1>a, <2>1, <2>2, ListDel DEF ListsOK
  <2>4. enqueued \notin Items BY <1>0, <2>2 DEF ListsOK
  <2>5. ThreadOK' BY <1>0, <2>2 DEF ThreadOK
  <2>6. ListsOK' BY <1>0, <2>2, <2>3 DEF ListsOK
  <2>7. Apart'
    BY <1>0, <2>2, <2>3, <2>4 DEF Apart
  <2> QED BY <2>5, <2>6, <2>7 DEF PoolOK
<1>3. CASE EnqueueFIFO
  <2>1. taken["service"] \in Commands
    BY <1>0, <1>3, HandledFacts DEF QueueOK, EnqueueFIFO, Holding
  <2>2. PICK c \in Cli : c = taken["service"].of BY <2>1, EventFacts
  <2>3. PICK i \in Items : i = enqueued
    BY <1>0, <1>3 DEF EnqueueFIFO, ListsOK
  <2>4. /\ queueRoot' = Append(queueRoot, i) /\ enqueued' = NULL
        /\ data' = [data EXCEPT ![i] = c]
        /\ pc["service"] = "enqueue" /\ pc'["service"] = "put"
        /\ UNCHANGED <<thread, hand, emptyRoot, dequeued>>
    BY <1>0, <1>3, <2>2, <2>3 DEF EnqueueFIFO, Goto
  <2>5. i \notin Range(emptyRoot) \cup Range(queueRoot) \cup {dequeued}
    BY <1>0, <2>3 DEF Apart
  <2>6. /\ queueRoot' \in Seq(Items) /\ IsInjective(queueRoot')
        /\ Range(queueRoot') = Range(queueRoot) \cup {i}
    BY <1>0, <1>a, <2>4, <2>5, ListAddTail DEF ListsOK
  <2>7. ThreadOK' BY <1>0, <2>4 DEF ThreadOK
  <2>8. ListsOK' BY <1>0, <2>4, <2>6 DEF ListsOK
  <2>9. \A j \in Items : data'[j] = IF j = i THEN c ELSE data[j]
    BY <1>0, <2>4 DEF ListsOK
  <2>10. Apart'
    BY <1>0, <1>a, <2>3, <2>4, <2>5, <2>6, <2>9 DEF Apart
  <2> QED BY <2>7, <2>8, <2>10 DEF PoolOK
<1>4. CASE ServiceEnds
  <2>1. /\ emptyRoot' = AllFree /\ queueRoot' = << >> /\ data' = NoCopies
        /\ enqueued' = NULL /\ dequeued' = NULL
        /\ thread' = "end" /\ hand' = None /\ pc'["service"] = "ended"
    BY <1>0, <1>4 DEF ServiceEnds, Goto
  <2>2. ThreadOK' BY <2>1 DEF ThreadOK
  <2>3. ListsOK' BY <2>1, FreshLists DEF ListsOK
  <2>4. Apart' BY <2>1, FreshLists DEF Apart
  <2> QED BY <2>2, <2>3, <2>4 DEF PoolOK
<1>5. CASE ServiceThread
  <2>1. CASE DequeueFIFO
    <3>1. PICK i \in Items : i = Head(queueRoot)
      BY <1>0, <2>1, SeqFacts DEF DequeueFIFO, ListsOK
    <3>2. /\ queueRoot' = Tail(queueRoot) /\ dequeued' = i /\ queueRoot # << >>
          /\ hand' = data[i] /\ data' = [data EXCEPT ![i] = None]
          /\ thread = "idle" /\ thread' = "free"
          /\ UNCHANGED <<pc, emptyRoot, enqueued>>
      BY <2>1, <3>1 DEF DequeueFIFO
    <3>3. /\ i \in Range(queueRoot) /\ queueRoot' \in Seq(Items)
          /\ IsInjective(queueRoot') /\ Range(queueRoot') = Range(queueRoot) \ {i}
      BY <1>0, <1>a, <3>1, <3>2, ListDel DEF ListsOK
    <3>4. dequeued \notin Items BY <1>0, <3>2 DEF ListsOK
    <3>5. data[i] \in Cli BY <1>0, <3>3 DEF Apart, ListsOK
    <3>6. ThreadOK' BY <1>0, <3>2, <3>5 DEF ThreadOK
    <3>7. ListsOK' BY <1>0, <3>2, <3>3 DEF ListsOK
    <3>8. \A j \in Items : data'[j] = IF j = i THEN None ELSE data[j]
      BY <1>0, <3>2 DEF ListsOK
    <3>9. Apart'
      BY <1>0, <1>a, <3>2, <3>3, <3>4, <3>8 DEF Apart
    <3> QED BY <3>6, <3>7, <3>9 DEF PoolOK
  <2>2. CASE FreeQItem
    <3>1. PICK i \in Items : i = dequeued
      BY <1>0, <2>2 DEF FreeQItem, ListsOK
    <3>2. /\ emptyRoot' = Append(emptyRoot, i) /\ dequeued' = NULL
          /\ data' = [data EXCEPT ![i] = None]
          /\ thread = "free" /\ thread' = "run"
          /\ UNCHANGED <<pc, hand, queueRoot, enqueued>>
      BY <2>2, <3>1 DEF FreeQItem
    <3>3. i \notin Range(emptyRoot) \cup Range(queueRoot) /\ i # enqueued
      BY <1>0, <3>1 DEF Apart
    <3>4. /\ emptyRoot' \in Seq(Items) /\ IsInjective(emptyRoot')
          /\ Range(emptyRoot') = Range(emptyRoot) \cup {i}
      BY <1>0, <1>a, <3>2, <3>3, ListAddTail DEF ListsOK
    <3>5. ThreadOK' BY <1>0, <3>2 DEF ThreadOK
    <3>6. ListsOK' BY <1>0, <3>2, <3>4 DEF ListsOK
    <3>7. \A j \in Items : data'[j] = IF j = i THEN None ELSE data[j]
      BY <1>0, <3>2 DEF ListsOK
    <3>8. Apart'
      BY <1>0, <1>a, <3>1, <3>2, <3>3, <3>4, <3>7 DEF Apart
    <3> QED BY <3>5, <3>6, <3>8 DEF PoolOK
  <2>3. CASE CommandEnds \/ DoReplyStruct \/ ThreadEnds
    <3>1. UNCHANGED <<pc, emptyRoot, queueRoot, data, enqueued, dequeued>>
      BY <2>3 DEF CommandEnds, DoReplyStruct, ThreadEnds, pool
    <3>2. thread # "free" /\ thread' # "free"
      BY <2>3 DEF CommandEnds, DoReplyStruct, ThreadEnds
    <3>3. ThreadOK'
      BY <1>0, <2>3 DEF ThreadOK, CommandEnds, DoReplyStruct, ThreadEnds
    <3>4. ListsOK' BY <1>0, <3>1, <3>2 DEF ListsOK
    <3>5. Apart' BY <1>0, <3>1 DEF Apart
    <3> QED BY <3>3, <3>4, <3>5 DEF PoolOK
  <2> QED BY <1>5, <2>1, <2>2, <2>3 DEF ServiceThread
<1>6. ASSUME NEW p \in Services, StartService(p) PROVE PoolOK'
  <2>1. CASE p = "config"
    BY <1>0, <1>6, <2>1, QuietPool DEF StartService, Goto
  <2>2. CASE p = "service"
    <3>1. /\ pc["service"] = "off" /\ pc'["service"] = "notify"
          /\ thread' = "idle" /\ UNCHANGED hand
          /\ UNCHANGED <<emptyRoot, queueRoot, data, enqueued, dequeued>>
      BY <1>0, <1>6, <2>2 DEF StartService, Goto, pool
    <3>2. ThreadOK' BY <1>0, <3>1 DEF ThreadOK
    <3>3. ListsOK' BY <1>0, <3>1 DEF ListsOK, ThreadOK
    <3>4. Apart' BY <1>0, <3>1 DEF Apart
    <3> QED BY <3>2, <3>3, <3>4 DEF PoolOK
  <2> QED BY <2>1, <2>2 DEF Services
<1>7. CASE UNCHANGED vars
  BY <1>0, <1>7, QuietPool DEF vars, svars
<1> QED
  BY <1>1, <1>2, <1>3, <1>4, <1>5, <1>6, <1>7 DEF Next, ServiceMain

------------------------------------------------------------------------------
LEMMA FlagsStep == ASSUME IInv, [Next]_vars PROVE FlagsOK'
<1>1. CASE UNCHANGED vars BY <1>1 DEF IInv, FlagsOK, vars, svars, cvars
<1>2. CASE Config \/ Sigterm
  BY <1>2 DEF IInv, FlagsOK, Config, ConfigInit, UpdateRuntime,
     NotifyConfigUpdate, ConfigExport, NotifyReplyNormal, EventExit, Loop,
     GetItem, ReadItem, Sigterm, svars, cvars
<1>3. CASE ServiceMain \/ ServiceThread
  BY <1>3 DEF IInv, FlagsOK, ServiceMain, ServiceNotifyRuntime, AllocItem,
     EnqueueFIFO, PutItem, ServiceExit, ServiceEnds, Loop, GetItem, ReadItem,
     ServiceThread, DequeueFIFO, FreeQItem, CommandEnds, DoReplyStruct,
     ThreadEnds, svars, cvars
<1>4. CASE \/ \E p \in Services : StartService(p)
           \/ \E c \in Cli : CallCli(c) \/ Call(c)
  BY <1>4 DEF IInv, FlagsOK, StartService, CallCli, Call, Send, ReadEvent,
     Timeout, CliExit, svars, cvars
<1> QED BY <1>1, <1>2, <1>3, <1>4 DEF Next

LEMMA InitIInv == ASSUME Init PROVE IInv
<1> USE ConsumerFacts
<1>1. QueueOK
  BY SeqFacts DEF Init, QueueOK, Labels, Holding, Handled
<1>2. PoolOK
  <2>1. ThreadOK BY DEF Init, ThreadOK
  <2>2. ListsOK BY FreshLists DEF Init, ListsOK
  <2>3. Apart BY FreshLists DEF Init, Apart
  <2> QED BY <2>1, <2>2, <2>3 DEF PoolOK
<1> QED BY <1>1, <1>2 DEF Init, IInv, FlagsOK

\* The strengthening is inductive: the queue, the pool and the flags.
THEOREM Inductive == Spec => []IInv
<1>1. Init => IInv BY InitIInv
<1>2. IInv /\ [Next]_vars => IInv'
  BY QueueStep, PoolStep, FlagsStep DEF IInv
<1> QED BY <1>1, <1>2, PTL DEF Spec

\* The labels of every program agree with what it holds of the queue, a
\* command is in the hands of the service thread from DequeueFIFO to the
\* reply, and a consumer that is not subscribed has nothing to read.
THEOREM TypeCorrect == Spec => []TypeOK
<1>1. IInv => TypeOK
  BY DEF IInv, QueueOK, Holding, PoolOK, ThreadOK, ListsOK, FlagsOK, TypeOK
<1> QED BY <1>1, Inductive, PTL

\* No item of the pool of utilFifo.c is lost, doubled or in two places while
\* the event thread and the service thread hand the items to each other, for
\* every size of the pool; and no copy of a command is lost or freed that the
\* other thread has.
THEOREM PoolInvariant == Spec => []PoolKept
<1>1. IInv => PoolKept
  <2> SUFFICES ASSUME IInv PROVE PoolKept OBVIOUS
  <2>1. ListsOK /\ Apart BY DEF IInv, PoolOK
  <2>2. PICK P : P = Places OBVIOUS
  <2>3. PICK E, F : E = Range(emptyRoot) /\ F = Range(queueRoot) OBVIOUS
  <2>4. DOMAIN P = {1, 2, 3, 4} BY <2>2 DEF Places
  <2>5. /\ P[1] = E /\ P[2] = F /\ P[3] = {enqueued} \ {NULL}
        /\ P[4] = {dequeued} \ {NULL}
    BY <2>2, <2>3 DEF Places
  <2>6. E \subseteq Items /\ F \subseteq Items
    BY <2>1, <2>3, RangeType DEF ListsOK
  <2>7. P[1] \cup P[2] \cup P[3] \cup P[4] = Items
    BY <2>1, <2>3, <2>5, <2>6, ConsumerFacts DEF ListsOK, Apart
  <2>8. /\ P[1] \cap P[2] = {} /\ P[1] \cap P[3] = {} /\ P[1] \cap P[4] = {}
        /\ P[2] \cap P[3] = {} /\ P[2] \cap P[4] = {} /\ P[3] \cap P[4] = {}
    BY <2>1, <2>3, <2>5, <2>6 DEF ListsOK, Apart
  <2>9. UNION {P[k] : k \in DOMAIN P} = P[1] \cup P[2] \cup P[3] \cup P[4]
    BY <2>4
  <2>10. \A k, l \in DOMAIN P : k # l => P[k] \cap P[l] = {}
    BY <2>4, <2>8
  <2> QED BY <2>1, <2>2, <2>7, <2>9, <2>10 DEF Apart, PoolKept
<1> QED BY <1>1, Inductive, PTL

------------------------------------------------------------------------------
(* What is to be done, from the queue to the end of system()                 *)

LEMMA ConcatFacts ==
  ASSUME NEW S, NEW s \in Seq(S), NEW r \in Seq(S), NEW w \in Seq(S)
  PROVE  /\ s \o r \in Seq(S)
         /\ (s \o r) \o w = s \o (r \o w)
         /\ s \o << >> = s /\ << >> \o s = s
         /\ \A e \in S : /\ <<e>> \in Seq(S)
                         /\ s \o <<e>> = Append(s, e)
                         /\ <<e>> \o s # << >>
                         /\ Head(<<e>> \o s) = e
                         /\ Tail(<<e>> \o s) = s
<1>1. ASSUME NEW e \in S
      PROVE  /\ <<e>> \in Seq(S)
             /\ s \o <<e>> = Append(s, e)
             /\ <<e>> \o s # << >>
             /\ Head(<<e>> \o s) = e
             /\ Tail(<<e>> \o s) = s
  <2>1. <<e>> \in Seq(S) OBVIOUS
  <2>2. s \o <<e>> = Append(s, e) BY AppendIsConcat
  <2>3. <<e>> \o s # << >> /\ Head(<<e>> \o s) = e OBVIOUS
  <2>4. Tail(<<e>> \o s) = s OBVIOUS
  <2> QED BY <2>1, <2>2, <2>3, <2>4
<1>2. s \o r \in Seq(S) OBVIOUS
<1>3. (s \o r) \o w = s \o (r \o w) OBVIOUS
<1>4. s \o << >> = s /\ << >> \o s = s BY ConcatEmptySeq
<1> QED BY <1>1, <1>2, <1>3, <1>4

LEMMA CommandsOfType ==
  ASSUME NEW q \in Seq(Events) PROVE CommandsOf(q) \in Seq(Cli)
<1>1. PICK f \in Seq(Events) : f = Filtered(q, Commands) BY FilteredType
<1>2. \A i \in DOMAIN f : f[i].of \in Cli
  BY <1>1, FilteredElements, EventFacts
<1>3. CommandsOf(q) = [i \in DOMAIN f |-> f[i].of] BY <1>1 DEF CommandsOf
<1>4. [i \in DOMAIN f |-> f[i].of] \in Seq(Cli) BY <1>2
<1> QED BY <1>3, <1>4

LEMMA CommandsOfNone == CommandsOf(<< >>) = << >>
BY FilteredEmpty DEF CommandsOf

LEMMA CommandsOfAppend ==
  ASSUME NEW q \in Seq(Events), NEW e \in Events
  PROVE  CommandsOf(Append(q, e)) =
           IF e \in Commands THEN Append(CommandsOf(q), e.of) ELSE CommandsOf(q)
<1>1. PICK f \in Seq(Events) : f = Filtered(q, Commands) BY FilteredType
<1>2. Filtered(Append(q, e), Commands) = IF e \in Commands THEN Append(f, e) ELSE f
  BY <1>1, FilteredAppend
<1>3. [i \in DOMAIN Append(f, e) |-> Append(f, e)[i].of]
        = Append([i \in DOMAIN f |-> f[i].of], e.of)
  OBVIOUS
<1> QED BY <1>1, <1>2, <1>3 DEF CommandsOf

LEMMA CommandsOfTail ==
  ASSUME NEW q \in Seq(Events), q # << >>
  PROVE  CommandsOf(q) = IF Head(q) \in Commands
                         THEN <<Head(q).of>> \o CommandsOf(Tail(q))
                         ELSE CommandsOf(Tail(q))
<1>1. Tail(q) \in Seq(Events) /\ Head(q) \in Events BY SeqFacts
<1>2. PICK f \in Seq(Events) : f = Filtered(Tail(q), Commands) BY <1>1, FilteredType
<1>3. PICK e \in Events : e = Head(q) BY <1>1
<1>4. Filtered(q, Commands) = IF e \in Commands THEN <<e>> \o f ELSE f
  BY <1>2, <1>3, FilteredTail
<1>5. [i \in DOMAIN (<<e>> \o f) |-> (<<e>> \o f)[i].of]
        = <<e.of>> \o [i \in DOMAIN f |-> f[i].of]
  OBVIOUS
<1> QED BY <1>2, <1>3, <1>4, <1>5 DEF CommandsOf

\* fgRun of service.c is cleared on the way out of main.
RunOK == threadRun = (pc["service"] \notin {"close", "ended"})

LEMMA RunStep == ASSUME IInv, RunOK, [Next]_vars PROVE RunOK'
<1>0. QueueOK /\ pc \in [Consumers -> Labels] BY DEF IInv, QueueOK
<1> USE ConsumerFacts
<1>1. CASE Config
  BY <1>0, <1>1 DEF RunOK, Config, ConfigInit, UpdateRuntime, NotifyConfigUpdate,
     ConfigExport, NotifyReplyNormal, EventExit, Loop, GetItem, ReadItem,
     Answer, Goto, svars
<1>2. CASE ServiceMain
  BY <1>0, <1>2 DEF RunOK, ServiceMain, ServiceNotifyRuntime, AllocItem,
     EnqueueFIFO, PutItem, ServiceExit, ServiceEnds, Loop, GetItem, ReadItem,
     Goto, svars
<1>3. CASE ServiceThread
  BY <1>3 DEF RunOK, ServiceThread, DequeueFIFO, FreeQItem, CommandEnds,
     DoReplyStruct, ThreadEnds
<1>4. CASE Sigterm BY <1>0, <1>4 DEF RunOK, Sigterm, Goto, svars
<1>5. ASSUME NEW p \in Services, StartService(p) PROVE RunOK'
  <2>1. p \in Consumers BY DEF Consumers
  <2> QED BY <1>0, <1>5, <2>1 DEF RunOK, StartService, Goto
<1>6. ASSUME NEW c \in Cli, CallCli(c) \/ Call(c) PROVE RunOK'
  BY <1>0, <1>6 DEF RunOK, CallCli, Call, Send, ReadEvent, Timeout, CliExit, Goto, svars
<1>7. CASE UNCHANGED vars BY <1>7 DEF RunOK, vars, svars
<1> QED BY <1>1, <1>2, <1>3, <1>4, <1>5, <1>6, <1>7 DEF Next

LEMMA KindStays == ASSUME [Next]_vars PROVE kind' = kind
<1>1. CASE UNCHANGED vars BY <1>1 DEF vars
<1>2. CASE Config \/ Sigterm
  BY <1>2 DEF Config, ConfigInit, UpdateRuntime, NotifyConfigUpdate,
     ConfigExport, NotifyReplyNormal, EventExit, Loop, GetItem, ReadItem, Sigterm
<1>3. CASE ServiceMain \/ ServiceThread
  BY <1>3 DEF ServiceMain, ServiceNotifyRuntime, AllocItem, EnqueueFIFO,
     PutItem, ServiceExit, ServiceEnds, Loop, GetItem, ReadItem, ServiceThread,
     DequeueFIFO, FreeQItem, CommandEnds, DoReplyStruct, ThreadEnds
<1>4. CASE \/ \E p \in Services : StartService(p)
           \/ \E c \in Cli : CallCli(c) \/ Call(c)
  BY <1>4 DEF StartService, CallCli, Call, Send, ReadEvent, Timeout, CliExit
<1> QED BY <1>1, <1>2, <1>3, <1>4 DEF Next

\* Events are told apart by what they are.
LEMMA NoCommands ==
  /\ Runtime \notin Commands /\ ConfigUpdate \notin Commands
  /\ \A c \in Cli : Event("REPLY", c) \notin Commands
  /\ \A c \in Cli : Event("CONFIG_REQUEST_EXPORT", c) \notin Commands
  /\ \A c \in Cli : Event("SYS_POWER_OFF", c) \notin Commands
BY DEF Commands, Event, Runtime, ConfigUpdate

\* The commands in the FIFO are the copies its items point at.
LEMMA FifoType ==
  ASSUME PoolOK
  PROVE  Fifo \in Seq(Cli) /\ DOMAIN Fifo = DOMAIN queueRoot
<1>1. PICK q \in Seq(Items) : q = queueRoot BY DEF PoolOK, ListsOK
<1>2. \A i \in DOMAIN q : data[q[i]] \in Cli
  BY <1>1 DEF PoolOK, ListsOK, Apart, Range
<1>3. [i \in DOMAIN q |-> data[q[i]]] \in Seq(Cli) BY <1>2
<1> QED BY <1>1, <1>3 DEF Fifo

\* What is written to an item outside the FIFO does not change it.
LEMMA FifoSame ==
  ASSUME PoolOK, queueRoot' = queueRoot,
         \A i \in Range(queueRoot) : data'[i] = data[i]
  PROVE  Fifo' = Fifo
BY DEF Fifo, Range

LEMMA FifoAdd ==
  ASSUME PoolOK, NEW n \in Items \ Range(queueRoot), NEW c \in Cli,
         queueRoot' = Append(queueRoot, n), data' = [data EXCEPT ![n] = c]
  PROVE  Fifo' = Append(Fifo, c)
<1>1. PICK q \in Seq(Items) : q = queueRoot BY DEF PoolOK, ListsOK
<1>2. PICK m \in Nat : m = Len(q) BY <1>1
<1>3. PICK f \in Seq(Cli) : f = Fifo BY FifoType
<1>4. DOMAIN f = 1..m /\ Len(f) = m BY <1>1, <1>2, <1>3, FifoType
<1>5. \A i \in 1..m : q[i] \in Items /\ q[i] # n /\ f[i] = data[q[i]]
  BY <1>1, <1>2, <1>3 DEF Range, Fifo
<1>6. PICK r : r = Append(q, n) OBVIOUS
<1>7. DOMAIN r = 1..(m + 1) /\ r[m + 1] = n /\ \A i \in 1..m : r[i] = q[i]
  BY <1>2, <1>6
<1>8. PICK d : d = data' OBVIOUS
<1>9. d[n] = c /\ \A i \in Items : i # n => d[i] = data[i]
  BY <1>8 DEF PoolOK, ListsOK
<1>10. Fifo' = [i \in 1..(m + 1) |-> d[r[i]]]
  BY <1>1, <1>6, <1>7, <1>8 DEF Fifo
<1>11. PICK g : g = [i \in 1..(m + 1) |-> d[r[i]]] OBVIOUS
<1>12. g \in Seq(Cli)
  <2>1. \A i \in 1..(m + 1) : i \in 1..m \/ i = m + 1 BY <1>2
  <2>2. \A i \in 1..m : f[i] \in Cli BY <1>3, <1>4
  <2>3. \A i \in 1..(m + 1) : d[r[i]] \in Cli BY <1>5, <1>7, <1>9, <2>1, <2>2
  <2> QED BY <1>2, <1>11, <2>3
<1>13. /\ Append(f, c) \in Seq(Cli) /\ Len(Append(f, c)) = m + 1
       /\ Append(f, c)[m + 1] = c /\ \A i \in 1..m : Append(f, c)[i] = f[i]
  BY <1>4
<1>14. Len(g) = m + 1 /\ g[m + 1] = c /\ \A i \in 1..m : g[i] = f[i]
  <2>1. m + 1 \in 1..(m + 1) /\ 1..m \subseteq 1..(m + 1) BY <1>2
  <2>2. DOMAIN g = 1..(m + 1) BY <1>11
  <2> QED BY <1>2, <1>5, <1>7, <1>9, <1>11, <1>12, <2>1, <2>2
<1>15. PICK a \in Seq(Cli) : a = Append(f, c) BY <1>13
<1>16. \A i \in 1..(m + 1) : a[i] = g[i]
  <2>1. \A i \in 1..(m + 1) : i \in 1..m \/ i = m + 1 BY <1>2
  <2> QED BY <1>13, <1>14, <1>15, <2>1
<1>17. a = g BY <1>12, <1>13, <1>14, <1>15, <1>16, SeqEqual
<1> QED BY <1>3, <1>10, <1>11, <1>15, <1>17

LEMMA FifoDel ==
  ASSUME PoolOK, queueRoot # << >>, queueRoot' = Tail(queueRoot),
         data' = [data EXCEPT ![Head(queueRoot)] = None]
  PROVE  /\ Fifo # << >> /\ data[Head(queueRoot)] = Head(Fifo)
         /\ Fifo' = Tail(Fifo)
<1>1. PICK q \in Seq(Items) : q = queueRoot BY DEF PoolOK, ListsOK
<1>2. PICK f \in Seq(Cli) : f = Fifo BY FifoType
<1>3. DOMAIN f = DOMAIN q /\ Len(f) = Len(q) BY <1>1, <1>2, FifoType
<1>4. \A i \in DOMAIN q : f[i] = data[q[i]] BY <1>1, <1>2 DEF Fifo
<1>5. q # << >> /\ 1 \in DOMAIN q /\ Head(q) = q[1] BY <1>1
<1>6. f # << >> /\ Head(f) = data[Head(q)] BY <1>3, <1>4, <1>5
<1>7. \A i \in DOMAIN Tail(q) :
        i + 1 \in DOMAIN q /\ i + 1 # 1 /\ Tail(q)[i] = q[i + 1]
  BY <1>1, <1>5
<1>8. \A i \in DOMAIN Tail(q) : data'[Tail(q)[i]] = f[i + 1]
  <2>1. IsInjective(q) BY <1>1 DEF PoolOK, Apart
  <2>2. \A i \in DOMAIN Tail(q) : q[i + 1] # Head(q) /\ q[i + 1] \in Items
    BY <1>1, <1>5, <1>7, <2>1 DEF IsInjective
  <2> QED BY <1>1, <1>4, <1>7, <2>2 DEF PoolOK, ListsOK
<1>9. Fifo' = [i \in DOMAIN Tail(q) |-> f[i + 1]] BY <1>1, <1>8 DEF Fifo
<1>10. Tail(f) = [i \in DOMAIN Tail(q) |-> f[i + 1]]
  <2>1. PICK m \in Nat : Len(f) = m + 1 /\ Len(q) = m + 1
    <3>1. Len(f) - 1 \in Nat /\ Len(f) = (Len(f) - 1) + 1
      BY <1>2, <1>6, SeqFacts
    <3> QED BY <1>3, <3>1
  <2>2. PICK t \in Seq(Cli) : t = Tail(f)
    <3>1. Tail(f) \in Seq(Cli) BY <1>2, <1>6, SeqFacts
    <3> QED BY <3>1
  <2>3. Len(t) = m /\ \A i \in 1..m : t[i] = f[i + 1]
    BY <1>2, <1>6, <2>1, <2>2
  <2>4. DOMAIN Tail(q) = 1..m BY <1>1, <1>5, <2>1
  <2>5. PICK g : g = [i \in 1..m |-> f[i + 1]] OBVIOUS
  <2>6. \A i \in 1..m : f[i + 1] \in Cli BY <1>2, <2>1
  <2>7. g \in Seq(Cli) /\ Len(g) = m BY <2>1, <2>5, <2>6
  <2>8. \A i \in 1..Len(t) : t[i] = g[i] BY <2>3, <2>5
  <2>9. t = g BY <2>2, <2>3, <2>7, <2>8, SeqEqual
  <2> QED BY <2>2, <2>4, <2>5, <2>9
<1> QED BY <1>1, <1>2, <1>6, <1>9, <1>10

\* The parts of Todo are sequences of calls.
LEMMA TodoParts ==
  ASSUME IInv
  PROVE  /\ Begun \in Seq(Cli) /\ Fifo \in Seq(Cli)
         /\ Waiting \in Seq(Cli)
         /\ threadRun => Adding \in Seq(Cli)
         /\ Todo \in Seq(Cli)
<1> USE ConsumerFacts
<1>1. /\ Fifo \in Seq(Cli) /\ queue["service"] \in Seq(Events)
      /\ thread \in {"free", "run"} => hand \in Cli
      /\ pc["service"] \in {"handle", "enqueue"} => taken["service"] \in Commands
  BY HandledFacts, FifoType DEF IInv, QueueOK, PoolOK, ThreadOK, Holding
<1>2. \A c \in Cli : <<c>> \in Seq(Cli)
  OBVIOUS
<1>3. << >> \in Seq(Cli) OBVIOUS
<1>4. Begun \in Seq(Cli) BY <1>1, <1>2, <1>3 DEF Begun
<1>5. Waiting \in Seq(Cli) BY <1>1, CommandsOfType DEF Waiting
<1>6. Adding \in Seq(Cli) BY <1>1, <1>2, <1>3, EventFacts DEF Adding
<1>7. Begun \o Fifo \o Adding \o Waiting \in Seq(Cli)
  BY <1>1, <1>4, <1>5, <1>6, ConcatFacts
<1> QED BY <1>1, <1>4, <1>5, <1>6, <1>7 DEF Todo

\* Whoever does not touch the service, or publishes what is no command,
\* leaves it to do what it had to do.
LEMMA OtherPublish ==
  ASSUME QueueOK, NEW e \in Events \ Commands,
         queue' = [p \in Consumers |->
                     IF p \in sub THEN Append(queue[p], e) ELSE queue[p]]
  PROVE  Waiting' = Waiting
<1>1. /\ queue["service"] \in Seq(Events)
      /\ queue'["service"] \in {queue["service"], Append(queue["service"], e)}
  BY ConsumerFacts DEF QueueOK
<1>2. CommandsOf(Append(queue["service"], e)) = CommandsOf(queue["service"])
  BY <1>1, CommandsOfAppend
<1> QED BY <1>1, <1>2 DEF Waiting

LEMMA QuietServer ==
  ASSUME UNCHANGED <<thread, hand, threadRun, queueRoot, data, kind>>,
         Adding' = Adding, Waiting' = Waiting
  PROVE  UNCHANGED Server!vars
BY DEF Server!vars, Todo, Begun, Fifo

\* Only where the event thread begins or ends to add a command does what it
\* adds change.
LEMMA SameAdding ==
  ASSUME taken'["service"] = taken["service"],
         (pc'["service"] \in {"handle", "enqueue"})
           = (pc["service"] \in {"handle", "enqueue"})
  PROVE  Adding' = Adding
BY DEF Adding

\* Two steps that move a command on without changing what is to be done.
LEMMA SameTodo ==
  ASSUME Todo' = Todo, UNCHANGED <<threadRun, kind>>,
         thread # "reply", thread' # "reply"
  PROVE  UNCHANGED Server!vars
BY DEF Server!vars

LEMMA ConfigMaps == ASSUME IInv, Config \/ Sigterm, kind' = kind PROVE UNCHANGED Server!vars
<1> USE ConsumerFacts, EventFacts
<1>0. QueueOK /\ UNCHANGED svars
  BY DEF IInv, Config, ConfigInit, UpdateRuntime, NotifyConfigUpdate,
     ConfigExport, NotifyReplyNormal, EventExit, Loop, GetItem, ReadItem, Sigterm
<1>1. /\ queue \in [Consumers -> Seq(Events)]
      /\ taken \in [Consumers -> Events \cup {None}]
      /\ pc \in [Consumers -> Labels]
  BY <1>0 DEF QueueOK
<1>2. taken'["service"] = taken["service"]
  BY <1>1 DEF Config, ConfigInit, UpdateRuntime, NotifyConfigUpdate,
     ConfigExport, NotifyReplyNormal, EventExit, Loop, GetItem, ReadItem,
     Sigterm, Answer, Q!Take, Q!Leave, qvars
<1>p. (pc'["service"] \in {"handle", "enqueue"})
        = (pc["service"] \in {"handle", "enqueue"})
  BY <1>1 DEF Config, ConfigInit, UpdateRuntime, NotifyConfigUpdate,
     ConfigExport, NotifyReplyNormal, EventExit, Loop, GetItem, ReadItem,
     Sigterm, Answer, Goto
<1>3. ASSUME NEW e \in Events \ Commands, Answer(e) PROVE Waiting' = Waiting
  BY <1>0, <1>3, OtherPublish DEF Answer
<1>4. Waiting' = Waiting
  <2>1. CASE NotifyConfigUpdate BY <2>1, <1>3, NoCommands DEF NotifyConfigUpdate
  <2>2. CASE NotifyReplyNormal
    <3>1. taken["config"].of \in Cli
      BY <1>0, <2>2 DEF QueueOK, NotifyReplyNormal
    <3> QED BY <2>2, <3>1, <1>3, NoCommands DEF NotifyReplyNormal
  <2>3. CASE ConfigInit \/ UpdateRuntime \/ ConfigExport \/ Sigterm
    BY <2>3 DEF ConfigInit, UpdateRuntime, ConfigExport, Sigterm, qvars, Waiting
  <2>4. CASE EventExit \/ Loop("config")
    <3>1. queue'["service"] = queue["service"]
      BY <1>1, <2>4 DEF EventExit, Loop, GetItem, ReadItem, Q!Take, Q!Leave
    <3> QED BY <3>1 DEF Waiting
  <2> QED BY <2>1, <2>2, <2>3, <2>4 DEF Config
<1>5. Adding' = Adding BY <1>2, <1>p, SameAdding
<1> QED BY <1>0, <1>4, <1>5, QuietServer DEF svars, pool

LEMMA StartMaps ==
  ASSUME IInv, NEW p \in Services, StartService(p) PROVE UNCHANGED Server!vars
<1>1. /\ UNCHANGED <<queue, taken, hand, threadRun, queueRoot, data, kind>>
      /\ thread' = thread \/ (p = "service" /\ thread' = "idle")
  BY DEF StartService, Q!Subscribe, pool
<1>p. (pc'["service"] \in {"handle", "enqueue"})
        = (pc["service"] \in {"handle", "enqueue"})
  BY ConsumerFacts DEF StartService, Goto, IInv, QueueOK, Services
<1>2. Waiting' = Waiting /\ Adding' = Adding
  BY <1>1, <1>p, SameAdding DEF Waiting
<1>3. CASE thread' = thread BY <1>1, <1>2, <1>3, QuietServer
<1>4. CASE p = "service" /\ thread' = "idle"
  <2>1. thread = "off" BY <1>4 DEF StartService, IInv, PoolOK, ThreadOK
  <2>2. Begun' = Begun /\ Fifo' = Fifo BY <1>1, <1>4, <2>1 DEF Begun, Fifo
  <2> QED BY <1>1, <1>2, <1>4, <2>1, <2>2 DEF Server!vars, Todo
<1> QED BY <1>1, <1>3, <1>4

\* A call publishes a command, or does nothing that the service sees.
LEMMA CliMaps ==
  ASSUME IInv, NEW c \in Cli, CallCli(c) \/ Call(c)
  PROVE  Server!Ask(c) \/ UNCHANGED Server!vars
<1> USE ConsumerFacts, EventFacts
<1>0. /\ QueueOK /\ FlagsOK /\ UNCHANGED <<svars, kind>> /\ c # "service"
      /\ queue \in [Consumers -> Seq(Events)]
      /\ taken \in [Consumers -> Events \cup {None}]
  BY DEF IInv, QueueOK, CallCli, Call, Send, ReadEvent, Timeout, CliExit
<1>1. taken'["service"] = taken["service"]
  BY <1>0 DEF CallCli, Call, Send, ReadEvent, Timeout, CliExit, Publish,
     Q!Publish, Q!Subscribe, Q!Leave, qvars
<1>p. pc'["service"] = pc["service"]
  BY <1>0 DEF QueueOK, CallCli, Call, Send, ReadEvent, Timeout, CliExit, Goto
<1>2. Adding' = Adding BY <1>1, <1>p, SameAdding
<1>3. CASE Waiting' = Waiting
  BY <1>0, <1>2, <1>3, QuietServer DEF svars, pool
<1>4. CASE ~Send(c)
  <2>1. queue'["service"] = queue["service"]
    BY <1>0, <1>4 DEF CallCli, Call, ReadEvent, Timeout, CliExit,
       Q!Subscribe, Q!Leave, qvars
  <2> QED BY <1>3, <2>1 DEF Waiting
<1>5. CASE Send(c)
  <2>0. Q!Publish(Request(c)) /\ Request(c) \in Events
    BY <1>0, <1>5, RequestIsEvent DEF Send, Publish
  <2>1. CASE Request(c) \notin Commands
    BY <1>0, <1>3, <2>0, <2>1, OtherPublish DEF Q!Publish
  <2>2. CASE "service" \notin sub
    BY <1>0, <1>3, <2>0, <2>2 DEF Q!Publish, Waiting
  <2>3. CASE Request(c) \in Commands /\ "service" \in sub
    <3>1. Request(c) = Event("COMMAND", c)
      <4>1. kind[c] \in {"cmdnRv", "export", "cmd", "SYS_POWER_OFF"}
        BY <1>0, ServicesAssumption DEF FlagsOK, Methods, Queries
      <4>2. CASE kind[c] \in {"cmd", "cmdnRv"}
        BY <4>2 DEF Request, serviceCommand
      <4>3. CASE kind[c] = "export"
        <5>1. Request(c) = Event("CONFIG_REQUEST_EXPORT", c)
          BY <4>3 DEF Request, ConfigRequestExport
        <5> QED BY <2>3, <5>1, NoCommands
      <4>4. CASE kind[c] = "SYS_POWER_OFF"
        <5>1. Request(c) = Event("SYS_POWER_OFF", c)
          BY <4>4 DEF Request, SystemPowerOff
        <5> QED BY <2>3, <5>1, NoCommands
      <4> QED BY <4>1, <4>2, <4>3, <4>4
    <3>2. Request(c).of = c BY <3>1 DEF Event
    <3>3. queue'["service"] = Append(queue["service"], Request(c))
      BY <1>0, <2>0, <2>3 DEF Q!Publish
    <3>4. queue["service"] \in Seq(Events) BY <1>0
    <3>5. Waiting' = Append(Waiting, c)
      BY <2>0, <2>3, <3>2, <3>3, <3>4, CommandsOfAppend DEF Waiting
    <3>6. Begun' = Begun /\ Fifo' = Fifo BY <1>0 DEF svars, pool, Begun, Fifo
    <3>7. CASE ~threadRun
      BY <1>0, <3>6, <3>7 DEF svars, Todo, Server!vars
    <3>8. CASE threadRun
      <4>1. PICK s \in Seq(Cli) : s = Begun \o Fifo \o Adding
        <5>1. Begun \o Fifo \o Adding \in Seq(Cli)
          BY <3>8, TodoParts, ConcatFacts
        <5> QED BY <5>1
      <4>2. Todo = s \o Waiting /\ Todo' = s \o Waiting'
        BY <1>0, <1>2, <3>6, <3>8, <4>1 DEF svars, Todo
      <4>3. s \o Append(Waiting, c) = Append(s \o Waiting, c)
        BY TodoParts, AppendOfConcat
      <4>4. Todo' = Append(Todo, c) BY <3>5, <4>2, <4>3
      <4> QED BY <1>0, <3>8, <4>4 DEF Server!Ask, svars
    <3> QED BY <1>0, <3>7, <3>8 DEF FlagsOK
  <2> QED BY <2>1, <2>2, <2>3
<1> QED BY <1>4, <1>5

\* The event thread moves commands on; at its end what is left is given up.
LEMMA ServiceMaps ==
  ASSUME IInv, RunOK, ServiceMain, kind' = kind
  PROVE  [Server!Next]_(Server!vars)
<1> USE ConsumerFacts, EventFacts
<1>0. /\ QueueOK /\ PoolOK /\ FlagsOK
      /\ queue \in [Consumers -> Seq(Events)]
      /\ taken \in [Consumers -> Events \cup {None}]
      /\ pc \in [Consumers -> Labels]
  BY DEF IInv, QueueOK
<1>a. /\ Begun \in Seq(Cli) /\ Fifo \in Seq(Cli) /\ Waiting \in Seq(Cli)
      /\ threadRun => Adding \in Seq(Cli)
  BY TodoParts
<1>1. CASE ServiceNotifyRuntime
  <2>1. Waiting' = Waiting
    BY <1>0, <1>1, NoCommands, OtherPublish DEF ServiceNotifyRuntime, Publish, Q!Publish
  <2>2. Adding' = Adding
    BY <1>0, <1>1, SameAdding DEF ServiceNotifyRuntime, Publish, Q!Publish, Goto
  <2> QED BY <1>1, <2>1, <2>2, QuietServer DEF ServiceNotifyRuntime, svars, pool
<1>2. CASE AllocItem
  <2>1. Waiting' = Waiting BY <1>2 DEF AllocItem, qvars, Waiting
  <2>2. Adding' = Adding BY <1>0, <1>2, SameAdding DEF AllocItem, qvars, Goto
  <2> QED BY <1>2, <2>1, <2>2, QuietServer DEF AllocItem
<1>3. CASE EnqueueFIFO
  <2>1. PICK e \in Commands : e = taken["service"]
    BY <1>0, <1>3, HandledFacts DEF QueueOK, EnqueueFIFO, Holding
  <2>2. PICK c \in Cli : c = e.of OBVIOUS
  <2>3. PICK n \in Items \ Range(queueRoot) : n = enqueued
    BY <1>0, <1>3 DEF EnqueueFIFO, PoolOK, ListsOK, Apart
  <2>4. Fifo' = Append(Fifo, c)
    BY <1>0, <1>3, <2>1, <2>2, <2>3, FifoAdd DEF EnqueueFIFO
  <2>5. /\ Adding = <<c>> /\ Adding' = << >>
        /\ Waiting' = Waiting /\ Begun' = Begun
        /\ UNCHANGED <<threadRun, thread, hand, kind>>
    BY <1>0, <1>3, <2>1, <2>2 DEF EnqueueFIFO, Goto, Adding, Waiting, Begun, qvars
  <2>6. PICK f \in Seq(Cli) : f = Fifo BY <1>a
  <2>7. PICK b \in Seq(Cli) : b = Begun BY <1>a
  <2>8. PICK g \in Seq(Cli) : g = Append(f, c) BY <2>6, SeqFacts
  <2>9. b \o f \in Seq(Cli) /\ b \o g \in Seq(Cli) /\ <<c>> \in Seq(Cli)
    BY <2>6, <2>7, <2>8, ConcatFacts
  <2>10. (b \o f) \o <<c>> = b \o g
    <3>1. (b \o f) \o <<c>> = b \o (f \o <<c>>)
      BY <2>9, ConcatAssociative
    <3>2. f \o <<c>> = g BY <2>8, ConcatFacts
    <3> QED BY <3>1, <3>2
  <2>11. (b \o g) \o << >> = b \o g BY <2>9, ConcatEmptySeq
  <2>12. Todo' = Todo
    BY <2>4, <2>5, <2>6, <2>7, <2>8, <2>10, <2>11 DEF Todo
  <2> QED BY <2>5, <2>12 DEF Server!vars
<1>7. CASE PutItem
  <2>1. Waiting' = Waiting BY <1>7 DEF PutItem, Q!GiveBack, Waiting
  <2>2. Adding' = Adding BY <1>0, <1>7 DEF PutItem, Goto, Adding
  <2> QED BY <1>7, <2>1, <2>2, QuietServer DEF PutItem, svars, pool
<1>4. CASE ServiceExit
  <2>1. threadRun /\ ~threadRun'
    BY <1>0, <1>4 DEF RunOK, ServiceExit
  <2>2. /\ Begun' = Begun /\ Todo' = Begun
        /\ UNCHANGED <<thread, hand, kind>>
    BY <1>4, <2>1 DEF ServiceExit, Todo, Begun
  <2>3. PICK r \in Seq(Cli) : r = Fifo \o (Adding \o Waiting)
    <3>1. Fifo \o (Adding \o Waiting) \in Seq(Cli)
      BY <1>a, <2>1, ConcatFacts
    <3> QED BY <3>1
  <2>4. Todo = Begun \o r
    <3>1. PICK a \in Seq(Cli) : a = Adding BY <1>a, <2>1
    <3>2. PICK b, f, w \in Seq(Cli) : b = Begun /\ f = Fifo /\ w = Waiting
      BY <1>a
    <3>3. ((b \o f) \o a) \o w = b \o (f \o (a \o w))
      <4> HIDE ConsumerFacts, EventFacts
      <4> QED BY SMTT(60)
    <3> QED BY <2>1, <2>3, <3>1, <3>2, <3>3 DEF Todo
  <2>5. PICK t \in Seq(Cli) : t = Todo BY TodoParts
  <2>6. \E n \in {0, 1} : n <= Len(t) /\ Begun = SubSeq(t, 1, n)
    <3>1. CASE thread \in {"free", "run"}
      <4>1. Begun = <<hand>> /\ hand \in Cli BY <1>0, <3>1 DEF Begun, PoolOK, ThreadOK
      <4>2. t = <<hand>> \o r BY <2>4, <2>5, <4>1
      <4>3. <<hand>> \in Seq(Cli) BY <4>1
      <4>4. Len(t) = 1 + Len(r) /\ t[1] = hand BY <4>1, <4>2, <4>3, ConcatProperties
      <4>5. <<t[1]>> = SubSeq(t, 1, 1) BY <4>4
      <4> QED BY <4>1, <4>4, <4>5
    <3>2. CASE thread \notin {"free", "run"}
      <4>1. Begun = << >> BY <3>2 DEF Begun
      <4>2. 0 <= Len(t) /\ SubSeq(t, 1, 0) = << >> OBVIOUS
      <4> QED BY <4>1, <4>2
    <3> QED BY <3>1, <3>2
  <2>7. Server!Stop
    BY <2>1, <2>2, <2>5, <2>6 DEF Server!Stop
  <2> QED BY <2>7 DEF Server!Next
<1>5. CASE ServiceEnds
  <2>1. ~threadRun /\ ~threadRun'
    BY <1>0, <1>5 DEF RunOK, ServiceEnds, FlagsOK
  <2>2. Todo' = << >> BY <1>5, <2>1 DEF ServiceEnds, Todo, Begun
  <2>3. Server!End
    BY <1>5, <2>1, <2>2 DEF ServiceEnds, Server!End
  <2> QED BY <2>3 DEF Server!Next
<1>6. CASE Loop("service")
  <2>1. PICK q \in Seq(Events) : q = queue["service"] BY <1>0
  <2>2. q # << >> /\ Head(q) \in Events
        /\ queue'["service"] = Tail(q)
        /\ UNCHANGED <<svars, kind>>
    BY <1>0, <1>6, <2>1, SeqFacts DEF Loop, GetItem, ReadItem, Q!Take
  <2>3. Tail(q) \in Seq(Events) BY <2>2, SeqFacts
  <2>4. CASE ReadItem("service")
    <3>1. Head(q) \notin Commands /\ taken' = taken
      BY <2>1, <2>4, HandledFacts DEF ReadItem
    <3>2. Waiting' = Waiting
      BY <2>1, <2>2, <3>1, CommandsOfTail DEF Waiting
    <3>3. Adding' = Adding
      BY <1>0, <2>4, <3>1, SameAdding DEF ReadItem, Goto
    <3> QED BY <2>2, <3>2, <3>3, QuietServer DEF svars, pool
  <2>5. CASE GetItem("service")
    <3>1. PICK e \in Commands : e = Head(q)
      BY <1>0, <2>1, <2>5, HandledFacts DEF GetItem, Q!Take
    <3>2. PICK c \in Cli : c = e.of OBVIOUS
    <3>3. /\ taken'["service"] = e
          /\ pc["service"] = "loop" /\ pc'["service"] = "handle"
      BY <1>0, <2>1, <2>5, <3>1 DEF GetItem, Q!Take, Goto
    <3>4. Adding = << >> /\ Adding' = <<c>> BY <3>2, <3>3 DEF Adding
    <3>5. Waiting = <<c>> \o Waiting'
      BY <2>1, <2>2, <3>1, <3>2, CommandsOfTail DEF Waiting
    <3>6. Waiting' \in Seq(Cli)
      BY <2>2, <2>3, CommandsOfType DEF Waiting
    <3>7. Begun' = Begun /\ Fifo' = Fifo BY <2>2 DEF svars, pool, Begun, Fifo
    <3>8. PICK b \in Seq(Cli) : b = Begun \o Fifo
      <4>1. Begun \o Fifo \in Seq(Cli) BY <1>a, ConcatFacts
      <4> QED BY <4>1
    <3>9. (b \o << >>) \o Waiting = (b \o <<c>>) \o Waiting'
      <4>1. b \o << >> = b /\ <<c>> \in Seq(Cli) BY ConcatFacts
      <4>2. (b \o <<c>>) \o Waiting' = b \o (<<c>> \o Waiting')
        BY <3>6, <4>1, ConcatFacts
      <4> QED BY <3>5, <4>1, <4>2
    <3>10. Todo' = Todo
      BY <2>2, <3>4, <3>7, <3>8, <3>9 DEF Todo, svars
    <3> QED BY <2>2, <3>10 DEF Server!vars, svars
  <2> QED BY <1>6, <2>4, <2>5 DEF Loop
<1> QED BY <1>1, <1>2, <1>3, <1>4, <1>5, <1>6, <1>7 DEF ServiceMain

\* The service thread takes a command, executes it and replies.
LEMMA ThreadMaps ==
  ASSUME IInv, ServiceThread, kind' = kind
  PROVE  [Server!Next]_(Server!vars)
<1> USE ConsumerFacts, EventFacts
<1>0. QueueOK /\ PoolOK /\ FlagsOK
  BY DEF IInv
<1>a. /\ Begun \in Seq(Cli) /\ Fifo \in Seq(Cli) /\ Waiting \in Seq(Cli)
      /\ threadRun => Adding \in Seq(Cli)
  BY TodoParts
<1>1. CASE DequeueFIFO
  <2>0. /\ Fifo # << >> /\ data[Head(queueRoot)] = Head(Fifo)
        /\ Fifo' = Tail(Fifo)
    BY <1>0, <1>1, FifoDel DEF DequeueFIFO
  <2>1. Begun = << >> /\ Begun' = <<Head(Fifo)>> /\ Fifo' = Tail(Fifo)
        /\ threadRun /\ UNCHANGED <<threadRun, kind>>
        /\ Waiting' = Waiting /\ Adding' = Adding
    BY <1>1, <2>0 DEF DequeueFIFO, Begun, Waiting, Adding, qvars
  <2>2. << >> \o Fifo = <<Head(Fifo)>> \o Tail(Fifo)
    <3>1. PICK f \in Seq(Cli) : f = Fifo BY <1>a
    <3>2. f # << >> BY <2>0, <3>1
    <3>3. << >> \o f = <<Head(f)>> \o Tail(f) BY <3>2
    <3> QED BY <3>1, <3>3
  <2>3. Todo' = Todo BY <2>1, <2>2 DEF Todo
  <2> QED BY <1>1, <2>1, <2>3, SameTodo DEF DequeueFIFO
<1>2. CASE FreeQItem
  <2>0. Fifo' = Fifo
    <3>1. dequeued \notin Range(queueRoot) /\ dequeued \in Items
      BY <1>0, <1>2 DEF FreeQItem, PoolOK, ListsOK, Apart
    <3>2. \A i \in Range(queueRoot) : data'[i] = data[i]
      BY <1>0, <1>2, <3>1, RangeType DEF FreeQItem, PoolOK, ListsOK
    <3> QED BY <1>0, <1>2, <3>2, FifoSame DEF FreeQItem
  <2>1. Todo' = Todo
    BY <1>2, <2>0 DEF FreeQItem, Todo, Begun, Waiting, Adding, qvars
  <2> QED BY <1>2, <2>1, SameTodo DEF FreeQItem
<1>3. CASE CommandEnds
  <2>1. PICK c \in Cli : c = hand BY <1>0, <1>3 DEF PoolOK, ThreadOK, CommandEnds
  <2>2. Begun = <<c>> /\ Begun' = << >>
    BY <1>3, <2>1 DEF CommandEnds, Begun
  <2>3. PICK r \in Seq(Cli) :
          Todo = <<c>> \o r /\ Todo' = r
    <3>1. /\ Fifo' = Fifo /\ threadRun' = threadRun
          /\ Waiting' = Waiting /\ Adding' = Adding
      BY <1>3 DEF CommandEnds, qvars, pool, Fifo, Waiting, Adding
    <3>2. CASE threadRun
      <4>1. PICK a, f, w \in Seq(Cli) : a = Adding /\ f = Fifo /\ w = Waiting
        BY <1>a, <3>2
      <4>2. PICK h \in Seq(Cli) : h = f \o a
        <5>1. f \o a \in Seq(Cli) BY <4>1
        <5> QED BY <5>1
      <4>3. PICK r \in Seq(Cli) : r = h \o w
        <5>1. h \o w \in Seq(Cli) BY <4>1, <4>2
        <5> QED BY <5>1
      <4>4. <<c>> \in Seq(Cli) OBVIOUS
      <4>5. (<<c>> \o f) \o a = <<c>> \o h BY <4>2, <4>4
      <4>6. (<<c>> \o h) \o w = <<c>> \o r BY <4>3, <4>4
      <4>7. << >> \o f = f BY ConcatFacts
      <4>8. Todo = <<c>> \o r BY <2>2, <3>2, <4>1, <4>5, <4>6 DEF Todo
      <4>9. Todo' = r BY <2>2, <3>1, <3>2, <4>1, <4>2, <4>3, <4>7 DEF Todo
      <4> QED BY <4>8, <4>9
    <3>3. CASE ~threadRun
      <4>1. << >> \in Seq(Cli) /\ <<c>> \o << >> = <<c>> OBVIOUS
      <4>2. Todo = <<c>> \o << >> BY <2>2, <3>3, <4>1 DEF Todo
      <4>3. Todo' = << >> BY <2>2, <3>1, <3>3 DEF Todo
      <4> QED BY <4>1, <4>2, <4>3
    <3> QED BY <1>0, <3>2, <3>3 DEF FlagsOK
  <2>4. Todo # << >> /\ Head(Todo) = c /\ Todo' = Tail(Todo)
    BY <2>3, ConcatFacts
  <2>5. Server!Execute
    <3>1. CASE kind[hand] = "cmdnRv"
      BY <1>3, <2>1, <2>4, <3>1 DEF CommandEnds, Server!Execute
    <3>2. CASE kind[hand] # "cmdnRv"
      BY <1>3, <2>1, <2>4, <3>2 DEF CommandEnds, Server!Execute
    <3> QED BY <3>1, <3>2
  <2> QED BY <2>5 DEF Server!Next
<1>4. CASE DoReplyStruct
  <2>1. PICK c \in Cli : c = hand BY <1>0, <1>4 DEF PoolOK, ThreadOK, DoReplyStruct
  <2>2. Waiting' = Waiting /\ Adding' = Adding
    <3>1. Waiting' = Waiting
      BY <1>0, <1>4, <2>1, NoCommands, OtherPublish DEF DoReplyStruct, Publish, Q!Publish
    <3> QED BY <1>4, <3>1 DEF DoReplyStruct, Publish, Q!Publish, Adding
  <2>3. Todo' = Todo
    BY <1>4, <2>2 DEF DoReplyStruct, Todo, Begun, Fifo, pool
  <2>4. Server!Reply(c)
    BY <1>4, <2>1, <2>3 DEF DoReplyStruct, Server!Reply
  <2> QED BY <2>4 DEF Server!Next
<1>5. CASE ThreadEnds
  <2>1. Todo' = Todo
    BY <1>5 DEF ThreadEnds, Todo, Begun, Fifo, pool, Waiting, Adding, qvars
  <2> QED BY <1>5, <2>1, SameTodo DEF ThreadEnds
<1> QED BY <1>1, <1>2, <1>3, <1>4, <1>5 DEF ServiceThread

LEMMA ServerInit == ASSUME Init PROVE Server!Init /\ RunOK
<1> USE ConsumerFacts
<1>1. queue["service"] = << >> /\ taken["service"] = None BY DEF Init
<1>2. Waiting = << >> BY <1>1, CommandsOfNone DEF Waiting
<1>3. Begun = << >> /\ Fifo = << >> /\ Adding = << >>
  BY <1>1 DEF Init, Begun, Fifo, Adding
<1>4. Begun \o Fifo \o Adding \o Waiting = << >> BY <1>2, <1>3
<1>5. Todo = << >> BY <1>4, <1>3 DEF Init, Todo
<1>6. RunOK BY DEF Init, RunOK
<1> QED BY <1>5, <1>6 DEF Init, Server!Init

LEMMA ServerStep ==
  ASSUME IInv, RunOK, [Next]_vars PROVE [Server!Next]_(Server!vars)
<1>0. kind' = kind BY KindStays
<1>1. CASE Config \/ Sigterm BY <1>0, <1>1, ConfigMaps
<1>2. CASE ServiceMain BY <1>0, <1>2, ServiceMaps
<1>3. CASE ServiceThread BY <1>0, <1>3, ThreadMaps
<1>4. ASSUME NEW p \in Services, StartService(p)
      PROVE  [Server!Next]_(Server!vars)
  BY <1>4, StartMaps
<1>5. ASSUME NEW c \in Cli, CallCli(c) \/ Call(c)
      PROVE  [Server!Next]_(Server!vars)
  BY <1>5, CliMaps DEF Server!Next
<1>6. CASE UNCHANGED vars
  <2>1. Waiting' = Waiting /\ Adding' = Adding
    BY <1>6 DEF vars, qvars, Waiting, Adding
  <2> QED BY <1>6, <2>1, QuietServer DEF vars, svars, pool
<1> QED BY <1>1, <1>2, <1>3, <1>4, <1>5, <1>6 DEF Next

\* The event thread, the FIFO and the service thread of svc.service implement
\* CommandServer: whatever the others do, the commands published on q.event
\* are executed in their order, each once, and answered once if asked for;
\* on the way out only what has begun is kept.
THEOREM Implements == Spec => ServesInOrder
<1>1. Init => Server!Init /\ RunOK BY ServerInit
<1>2. IInv /\ RunOK /\ [Next]_vars => RunOK' BY RunStep
<1>3. IInv /\ RunOK /\ [Next]_vars => [Server!Next]_(Server!vars)
  BY ServerStep
<1> QED BY <1>1, <1>2, <1>3, Inductive, PTL DEF Spec, ServesInOrder, Server!Spec
=============================================================================
