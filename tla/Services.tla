------------------------------ MODULE Services ------------------------------
(***************************************************************************)
(* The programs of the system around their queue q.event: svc.config,      *)
(* svc.service with its event thread, its FIFO and its service thread, and *)
(* calls of cli, started and stopped by scripts/pf-run.  The queue is      *)
(* MulticastQueue, which Vmq implements, with a memory of Limit buffers,   *)
(* for which a publisher waits.                                            *)
(*                                                                         *)
(* VMQueueGetBuffer and VMQueuePutBuffer are one step: whoever has got a   *)
(* buffer fills it and puts it without waiting for anybody.  A call of cli *)
(* is named once and stands for its key and for the messages about it.     *)
(* The FIFO has its items one by one, each in one of the lists of          *)
(* utilFifo.c or in the hands of a thread.                                 *)
(***************************************************************************)
EXTENDS Subsequence, FiniteSets, Functions

CONSTANTS
  Cli,         \* calls of cli
  Kinds,       \* what they may be, of the Methods
  FifoSize,    \* SERVICE_FIFO_SIZE
  Limit,       \* buffers the memory of q.event has pages for
  Patient,     \* the wait of pf-run for svc.config does not time out
  None

Services == {"config", "service"}
Consumers == Services \cup Cli

(* The methods of cli; those of type PFMT_REPLY wait for a reply. *)
Queries == {"cmdnRv", "export"}
Methods == Queries \cup {"cmd", "SYS_POWER_OFF"}

ASSUME ServicesAssumption ==
  /\ Kinds \subseteq [Cli -> Methods]
  /\ {FifoSize, Limit} \subseteq Nat \ {0}
  /\ Patient \in BOOLEAN
  /\ None \notin Consumers
  /\ Cli \cap Services = {}

VARIABLES
  sub, queue, taken,      \* the queue, as in MulticastQueue
  pc,                     \* of the main threads
  thread, hand,           \* the service thread and the command it has dequeued
  threadRun,              \* fgRun of service.c
  emptyRoot, queueRoot,   \* the items that are free, and those of the FIFO
  data,                   \* the copy of a command an item points at
  enqueued, dequeued,     \* item of PFU_enqueueFIFO and of PFU_dequeueFIFO
  initialized, stored,    \* in the shared memory of svc.config
  kind                    \* of the calls, one of Kinds

qvars == <<sub, queue, taken>>
pool == <<emptyRoot, queueRoot, data, enqueued, dequeued>>
svars == <<thread, hand, threadRun, pool>>
cvars == <<initialized, stored>>
vars == <<qvars, pc, svars, cvars, kind>>

Event(id, c) == [id |-> id, of |-> c]
Commands == {Event("COMMAND", c) : c \in Cli}
Replies == {Event("REPLY", c) : c \in Cli}
Exports == {Event("CONFIG_REQUEST_EXPORT", c) : c \in Cli}
PowerOffs == {Event("SYS_POWER_OFF", c) : c \in Cli}
Runtime == Event("SERVICE_UPDATE_RUNTIME", None)
ConfigUpdate == Event("CONFIG_UPDATE", None)
Events ==
  Commands \cup Exports \cup Replies \cup PowerOffs \cup {Runtime, ConfigUpdate}

ASSUME EventsAssumption == None \notin Events

(* itemPool, and the NULL of its pointers. *)
Items == 1..FifoSize
NULL == 0

Q == INSTANCE MulticastQueue WITH Msg <- Events, Lossy <- FALSE

(* What PFU_createFIFO makes of the pool. *)
AllFree == [i \in Items |-> i]
NoCopies == [i \in Items |-> None]

Init ==
  /\ sub = {}
  /\ queue = [p \in Consumers |-> << >>]
  /\ taken = [p \in Consumers |-> None]
  /\ pc = [p \in Consumers |-> "off"]
  /\ thread = "off" /\ hand = None /\ threadRun = TRUE
  /\ emptyRoot = AllFree /\ queueRoot = << >> /\ data = NoCopies
  /\ enqueued = NULL /\ dequeued = NULL
  /\ initialized = FALSE /\ stored = FALSE
  /\ kind \in Kinds

(* The buffers that p has still to read. *)
Held(p) == {queue[p][i] : i \in DOMAIN queue[p]} \cup ({taken[p]} \ {None})

InUse == UNION {Held(p) : p \in sub}

(* A faulty variant: the last buffer is never given out. *)
Room_offByOne == Cardinality(InUse) < Limit - 1

(* get_buffer_item finds the pages for a buffer, which it takes under the   *)
(* lock.  Its test of maxItemCount, which is made without, does not apply:  *)
(* pi-frame.init creates q.event without a limit on the number of items.    *)
Room == Cardinality(InUse) < Limit

(* doNotifyStruct and its kin; a buffer nobody reads is free at once. *)
Publish(e) == Room /\ Q!Publish(e)

Goto(p, l) == pc' = [pc EXCEPT ![p] = l]

------------------------------------------------------------------------------
(* scripts/pf-run and the loop of every service                               *)

(* `cli config dump init', which reads the settings. *)
fGetConfigInit == initialized

(* A faulty variant: nobody waits for svc.config. *)
StartService_atOnce(p) ==
  /\ pc[p] = "off"
  /\ Goto(p, IF p = "config" THEN "init" ELSE "notify")
  /\ thread' = IF p = "service" THEN "idle" ELSE thread
  /\ Q!Subscribe(p)
  /\ UNCHANGED <<hand, threadRun, pool, cvars, kind>>

(* fStartService: svc.config first, the others when it has loaded the       *)
(* settings, or when 10 s have passed, after which it may not even have     *)
(* opened the queue.  notifyInit, eventInit, and serviceInit up to the      *)
(* thread.                                                                  *)
StartService(p) ==
  /\ pc[p] = "off"
  /\ p # "config" => fGetConfigInit \/ ~Patient
  /\ Goto(p, IF p = "config" THEN "init" ELSE "notify")
  /\ thread' = IF p = "service" THEN "idle" ELSE thread
  /\ Q!Subscribe(p)
  /\ UNCHANGED <<hand, threadRun, pool, cvars, kind>>

(* configInit of svc.config: the settings can be read. *)
ConfigInit ==
  /\ pc["config"] = "init"
  /\ initialized' = TRUE
  /\ Goto("config", "loop")
  /\ UNCHANGED <<qvars, svars, stored, kind>>

ServiceNotifyRuntime ==
  /\ pc["service"] = "notify"
  /\ Publish(Runtime)
  /\ Goto("service", "loop")
  /\ UNCHANGED <<svars, cvars, kind>>

(* The events that take eventHandler longer than reading. *)
Handled(p) ==
  {e \in Events : \/ p = "service" /\ e \in Commands
                  \/ p = "config" /\ e \in Exports \cup {Runtime}}

GetItem(p) ==
  /\ pc[p] = "loop"
  /\ Q!Take(p)
  /\ taken'[p] \in Handled(p)
  /\ Goto(p, "handle")
  /\ UNCHANGED <<svars, cvars, kind>>

(* eventHandler for the others: read and given back.  A power-off ends the  *)
(* loop.                                                                    *)
ReadItem(p) ==
  /\ pc[p] = "loop"
  /\ queue[p] # << >> /\ Head(queue[p]) \notin Handled(p)
  /\ queue' = [queue EXCEPT ![p] = Tail(@)]
  /\ Goto(p, IF Head(queue[p]) \in PowerOffs THEN "exit" ELSE "loop")
  /\ UNCHANGED <<sub, taken, svars, cvars, kind>>

(* signalHandler of svc.service; SIGTERM is lost when it comes during       *)
(* eventHandler, which assigns fgRun anew.                                  *)
Sigterm ==
  /\ pc["service"] = "loop"
  /\ Goto("service", "exit")
  /\ UNCHANGED <<qvars, svars, cvars, kind>>

(* eventExit, notifyExit and the end of the process. *)
EventExit ==
  /\ pc["config"] = "exit"
  /\ Q!Leave("config")
  /\ Goto("config", "ended")
  /\ UNCHANGED <<svars, cvars, kind>>

------------------------------------------------------------------------------
(* svc.service: the event thread fills the FIFO, the service thread empties   *)
(* it (service.c, utilFifo.c)                                                 *)

(* A faulty variant: without list_del. *)
AllocItem_stays ==
  /\ pc["service"] = "handle"
  /\ emptyRoot # << >>
  /\ enqueued' = Head(emptyRoot)
  /\ Goto("service", "enqueue")
  /\ UNCHANGED <<qvars, thread, hand, threadRun, emptyRoot, queueRoot, data, dequeued,
                 cvars, kind>>

(* allocQItem; the event thread holds the event until an item is free.      *)
AllocItem ==
  /\ pc["service"] = "handle"
  /\ emptyRoot # << >>
  /\ enqueued' = Head(emptyRoot)
  /\ emptyRoot' = Tail(emptyRoot)
  /\ Goto("service", "enqueue")
  /\ UNCHANGED <<qvars, thread, hand, threadRun, queueRoot, data, dequeued, cvars, kind>>

(* The copy of the event is queued. *)
EnqueueFIFO ==
  /\ pc["service"] = "enqueue"
  /\ data' = [data EXCEPT ![enqueued] = taken["service"].of]
  /\ queueRoot' = Append(queueRoot, enqueued)
  /\ enqueued' = NULL
  /\ Goto("service", "put")
  /\ UNCHANGED <<qvars, thread, hand, threadRun, emptyRoot, dequeued, cvars, kind>>

(* A faulty variant: the event is not given back. *)
PutItem_forgotten ==
  /\ pc["service"] = "put"
  /\ Goto("service", "loop")
  /\ UNCHANGED <<qvars, svars, cvars, kind>>

(* VMQueuePutItem: the event is given back. *)
PutItem ==
  /\ pc["service"] = "put"
  /\ Q!GiveBack("service")
  /\ Goto("service", "loop")
  /\ UNCHANGED <<svars, cvars, kind>>

ServiceExit ==
  /\ pc["service"] = "exit"
  /\ threadRun' = FALSE
  /\ Goto("service", "close")
  /\ UNCHANGED <<qvars, thread, hand, pool, cvars, kind>>

(* eventExit, notifyExit and the end of the process, which takes the        *)
(* service thread and the commands in the FIFO along.                       *)
ServiceEnds ==
  /\ pc["service"] = "close"
  /\ Q!Leave("service")
  /\ thread' = "end" /\ hand' = None
  /\ emptyRoot' = AllFree /\ queueRoot' = << >> /\ data' = NoCopies
  /\ enqueued' = NULL /\ dequeued' = NULL
  /\ Goto("service", "ended")
  /\ UNCHANGED <<threadRun, cvars, kind>>

(* A faulty variant: without list_del. *)
DequeueFIFO_stays ==
  /\ thread = "idle" /\ threadRun
  /\ queueRoot # << >>
  /\ dequeued' = Head(queueRoot)
  /\ hand' = data[Head(queueRoot)]
  /\ thread' = "free"
  /\ UNCHANGED <<qvars, pc, threadRun, emptyRoot, queueRoot, data, enqueued, cvars, kind>>

(* The service thread looks at fgRun and at the FIFO, at once or after a    *)
(* wait of a second.  It takes the copy from the item, which freeQItem      *)
(* would free else.                                                         *)
DequeueFIFO ==
  /\ thread = "idle" /\ threadRun
  /\ queueRoot # << >>
  /\ dequeued' = Head(queueRoot)
  /\ queueRoot' = Tail(queueRoot)
  /\ hand' = data[Head(queueRoot)]
  /\ data' = [data EXCEPT ![Head(queueRoot)] = None]
  /\ thread' = "free"
  /\ UNCHANGED <<qvars, pc, threadRun, emptyRoot, enqueued, cvars, kind>>

FreeQItem ==
  /\ thread = "free"
  /\ emptyRoot' = Append(emptyRoot, dequeued)
  /\ data' = [data EXCEPT ![dequeued] = None]
  /\ dequeued' = NULL
  /\ thread' = "run"
  /\ UNCHANGED <<qvars, pc, hand, threadRun, queueRoot, enqueued, cvars, kind>>

(* doServiceEvent: system() returns; PFE_SERVICE_REQUEST_COMMAND has a key. *)
CommandEnds ==
  /\ thread = "run"
  /\ IF kind[hand] = "cmdnRv" THEN thread' = "reply" /\ UNCHANGED hand
     ELSE thread' = "idle" /\ hand' = None
  /\ UNCHANGED <<qvars, pc, threadRun, pool, cvars, kind>>

DoReplyStruct ==
  /\ thread = "reply"
  /\ Publish(Event("REPLY", hand))
  /\ thread' = "idle" /\ hand' = None
  /\ UNCHANGED <<pc, threadRun, pool, cvars, kind>>

ThreadEnds ==
  /\ thread = "idle" /\ ~threadRun
  /\ thread' = "end"
  /\ UNCHANGED <<qvars, pc, hand, threadRun, pool, cvars, kind>>

------------------------------------------------------------------------------
(* svc.config and cli                                                         *)

(* eventHandler of svc.config publishes e as the last it does, and gives    *)
(* the event back.                                                          *)
Answer(e) ==
  /\ Room
  /\ queue' = [p \in Consumers |->
                 IF p \in sub THEN Append(queue[p], e) ELSE queue[p]]
  /\ taken' = [taken EXCEPT !["config"] = None]
  /\ Goto("config", "loop")
  /\ UNCHANGED sub

(* updateConfigRuntimeService: what is new is told to the others by         *)
(* notifyConfigUpdate, in the middle of eventHandler.                       *)
UpdateRuntime ==
  /\ pc["config"] = "handle" /\ taken["config"] = Runtime /\ ~stored
  /\ stored' = TRUE
  /\ UNCHANGED <<qvars, pc, svars, initialized, kind>>

NotifyConfigUpdate ==
  /\ pc["config"] = "handle" /\ taken["config"] = Runtime /\ stored
  /\ Answer(ConfigUpdate)
  /\ UNCHANGED <<svars, cvars, kind>>

(* configExport packs the files with tar, while svc.config reads nothing.   *)
(* No database is dirty, so that its dbSync has nothing to do; the result   *)
(* is in the reply.                                                         *)
ConfigExport ==
  /\ pc["config"] = "handle" /\ taken["config"] \in Exports
  /\ Goto("config", "reply")
  /\ UNCHANGED <<qvars, svars, cvars, kind>>

NotifyReplyNormal ==
  /\ pc["config"] = "reply"
  /\ Answer(Event("REPLY", taken["config"].of))
  /\ UNCHANGED <<svars, cvars, kind>>

(* notifyInit and eventInit: every call of cli is a consumer. *)
CallCli(c) ==
  /\ pc[c] = "off"
  /\ Q!Subscribe(c)
  /\ Goto(c, "send")
  /\ UNCHANGED <<svars, cvars, kind>>

serviceCommand(c) == Event("COMMAND", c)

ConfigRequestExport(c) == Event("CONFIG_REQUEST_EXPORT", c)

SystemPowerOff(c) == Event("SYS_POWER_OFF", c)

Request(c) ==
  CASE kind[c] \in {"cmd", "cmdnRv"} -> serviceCommand(c)
    [] kind[c] = "export" -> ConfigRequestExport(c)
    [] kind[c] = "SYS_POWER_OFF" -> SystemPowerOff(c)

Send(c) ==
  /\ pc[c] = "send"
  /\ Publish(Request(c))
  /\ Goto(c, IF kind[c] \in Queries THEN "wait" ELSE "leave")
  /\ UNCHANGED <<svars, cvars, kind>>

(* do_request_thread, which only methods of type PFMT_REPLY have: an event   *)
(* is read and given back; PFQueryReplyProcess finds the reply.              *)
ReadEvent(c) ==
  /\ kind[c] \in Queries
  /\ pc[c] \in {"send", "wait"}
  /\ queue[c] # << >>
  /\ queue' = [queue EXCEPT ![c] = Tail(@)]
  /\ Goto(c, IF Head(queue[c]) = Event("REPLY", c) THEN "leave" ELSE pc[c])
  /\ UNCHANGED <<sub, taken, svars, cvars, kind>>

(* The query times out. *)
Timeout(c) ==
  /\ pc[c] = "wait"
  /\ Goto(c, "leave")
  /\ UNCHANGED <<qvars, svars, cvars, kind>>

CliExit(c) ==
  /\ pc[c] = "leave"
  /\ Q!Leave(c)
  /\ Goto(c, "ended")
  /\ UNCHANGED <<svars, cvars, kind>>

------------------------------------------------------------------------------
Loop(p) == GetItem(p) \/ ReadItem(p)

Config ==
  \/ ConfigInit \/ UpdateRuntime \/ NotifyConfigUpdate
  \/ ConfigExport \/ NotifyReplyNormal \/ EventExit \/ Loop("config")
ServiceMain ==
  \/ ServiceNotifyRuntime \/ AllocItem \/ EnqueueFIFO \/ PutItem
  \/ ServiceExit \/ ServiceEnds \/ Loop("service")
ServiceThread ==
  DequeueFIFO \/ FreeQItem \/ CommandEnds \/ DoReplyStruct \/ ThreadEnds
Call(c) == Send(c) \/ ReadEvent(c) \/ Timeout(c) \/ CliExit(c)

Next ==
  \/ Config \/ ServiceMain \/ ServiceThread \/ Sigterm
  \/ \E p \in Services : StartService(p)
  \/ \E c \in Cli : CallCli(c) \/ Call(c)

Spec == Init /\ [][Next]_vars

(* Threads are scheduled, commands and waits with a time limit end. *)
Fairness ==
  /\ WF_vars(Config) /\ WF_vars(ServiceMain) /\ WF_vars(ServiceThread)
  /\ \A c \in Cli : WF_vars(Call(c))

FairSpec == Spec /\ Fairness
------------------------------------------------------------------------------
(* Properties                                                                 *)

CommandsOf(q) ==
  LET asked == Filtered(q, Commands)
  IN  [i \in DOMAIN asked |-> asked[i].of]

Waiting == CommandsOf(queue["service"])

Fifo == [i \in DOMAIN queueRoot |-> data[queueRoot[i]]]

Adding ==
  IF pc["service"] \in {"handle", "enqueue"}
  THEN <<taken["service"].of>> ELSE << >>

Begun == IF thread \in {"free", "run"} THEN <<hand>> ELSE << >>

(* The commands on their way from the queue to the end of system(). *)
Todo == IF threadRun THEN Begun \o Fifo \o Adding \o Waiting ELSE Begun

Server == INSTANCE CommandServer WITH
  wantsReply <- {c \in Cli : kind[c] = "cmdnRv"},
  up <- threadRun,
  todo <- Todo,
  owed <- IF thread = "reply" THEN {hand} ELSE {}

(* The event thread, the FIFO and the service thread hand the commands on   *)
(* without losing, doubling or reordering one, and reply once to whoever    *)
(* asked for it, while the queue and the pool are at their limits.          *)
ServesInOrder == Server!Spec

TypeOK ==
  /\ sub \subseteq Consumers
  /\ queue \in [Consumers -> Seq(Events)]
  /\ \A p \in Consumers :
       /\ (taken[p] # None) = (pc[p] \in {"handle", "enqueue", "put", "reply"})
       /\ taken[p] # None => taken[p] \in Handled(p)
       /\ (p \notin sub) = (pc[p] \in {"off", "ended"})
       /\ p \notin sub => queue[p] = << >>
  /\ thread \in {"off", "idle", "free", "run", "reply", "end"}
  /\ (hand \in Cli) = (thread \in {"free", "run", "reply"})
  /\ {emptyRoot, queueRoot} \subseteq Seq(Items)
  /\ data \in [Items -> Cli \cup {None}]
  /\ (enqueued \in Items) = (pc["service"] = "enqueue")
  /\ (dequeued \in Items) = (thread = "free")
  /\ {enqueued, dequeued} \subseteq Items \cup {NULL}
  /\ {threadRun, initialized, stored} \subseteq BOOLEAN
  /\ kind \in Kinds

(* Where the items are: in a list, or in the hands of a thread. *)
Places == <<Range(emptyRoot), Range(queueRoot), {enqueued} \ {NULL}, {dequeued} \ {NULL}>>

(* The event thread and the service thread hand the items of the pool to    *)
(* each other through the two lists of utilFifo.c: none is lost, linked     *)
(* twice or in two places, so that the pool neither shrinks nor has an item *)
(* written by one thread while the other has it; and the copies of the      *)
(* commands belong to the items of the FIFO, so that none is lost and none  *)
(* freed that a thread works on.                                            *)
PoolKept ==
  /\ IsInjective(emptyRoot) /\ IsInjective(queueRoot)
  /\ UNION {Places[k] : k \in DOMAIN Places} = Items
  /\ \A k, l \in DOMAIN Places : k # l => Places[k] \cap Places[l] = {}
  /\ \A i \in Items : data[i] # None <=> i \in Range(queueRoot)

(* All buffers are held by threads that wait for something themselves, a    *)
(* buffer or a place in the FIFO, and that read nothing until they get it.  *)
Waits(p) ==
  \/ p \in Cli /\ pc[p] = "send" /\ kind[p] \notin Queries
  \/ p = "config" /\ pc[p] \in {"handle", "reply"}
  \/ p = "service" /\ pc[p] = "notify"
  \/ p = "service" /\ pc[p] = "handle" /\ emptyRoot = << >> /\ thread = "reply"

Starved == Cardinality(UNION {Held(p) : p \in {q \in sub : Waits(q)}}) >= Limit

AtRest ==
  /\ Todo = << >>
  /\ \A c \in Cli : pc[c] \in {"off", "ended"}
  /\ Exports \cap Held("config") = {}
  /\ \A p \in Services : PowerOffs \cap Held(p) = {} /\ pc[p] \notin {"exit", "close"}

(* Every command is executed or the service stops, every export is          *)
(* answered or svc.config stops, every call of cli                          *)
(* returns, and a power-off ends the services: the only way the programs    *)
(* can block each other for ever is that the buffers are all held by        *)
(* threads that wait, as when the service thread needs a buffer for its     *)
(* reply while the event thread waits for a place in the FIFO.              *)
ComesToRest == <>[](AtRest \/ Starved)

(* What svc.service tells of itself reaches the settings, when pf-run has   *)
(* waited for svc.config.                                                   *)
RuntimeStored ==
  <>[](\/ pc["service"] \in {"off", "notify"}
       \/ stored \/ pc["config"] = "ended" \/ Starved)
=============================================================================
