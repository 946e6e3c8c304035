# PiFrame in TLA+

PiFrame is a framework of services for a small Linux device: processes that
share their settings in memory, exchange events over a queue with zero copies,
and are restarted by a watchdog. This directory holds TLA+ models of its parts,
the TLC configurations that check them on small instances, and TLAPS proofs
about the queue, the registry, the queries, the watchdog, the configuration, the
programs around the queue and the lists.

Contents: [the system](#the-system), [the modules](#the-modules),
[the runs](#the-runs), [fairness](#fairness), [the proofs](#the-proofs),
[what the code does otherwise than its comments say](#divergences),
[what is not modelled](#not-modelled), [plan](#plan).

## The system

| Part | State | Operations | Used by |
|---|---|---|---|
| `drivers/vmshm` | `vmshm_list` of named segments, `refcnt` of each | create, remove, select, unselect, close | vmq, svc.config, lib/pfconfig, vmshmctl |
| `drivers/vmq` `main.c` | list of queues; for a queue its consumers, their lists of items, the buffers with a reference count, `bufItemCount`, two wait queues | create, remove, setup, getbuf, putbuf, getitem, putitem, getkey, close | lib/vmq, vmqctl |
| `drivers/vmq` `balloc.c` | a bitmap with order and `allocated` per page | `ba_create`, `ba_alloc`, `ba_free` | main.c, under `ba_mutex` |
| `lib/vmq`, `lib/vmshm` | a descriptor, a mapping, one mutex per file | a wrapper for each ioctl | every service |
| `lib/pfquery` | `waitLRoot`: the queries that wait for a reply | `PFQueryWaitReplyWithPutBuffer`, `PFQueryReplyProcess`, `PFQueryWakeUpAll` | every service, cli |
| `lib/pfwdt` | the registration of the process | register, unregister, start, stop, alive, the same for sub-services | every service |
| `svc.watchdog` | packets taken and not handled, list of services with their sub-services and timers | handle a packet; once a period drop and restart those that are gone or silent | |
| `svc.config`, `lib/pfconfig` | `PFConfig` in shared memory, a semaphore of 64 units, two files per database | read, change, save, export, import | every service |
| `svc.service`, `lib/util` FIFO | a FIFO of five commands, a pool of items and a thread that runs the commands | enqueue, dequeue, run, reply, notify its settings | by events |
| `lib/util` timers, `list.h` | a wheel of five levels, a list of all timers, a thread | add, delete, change the period, turn, call back | svc.action |
| `cli`, `pf-run` | a query per call; the order of the start | command, command with result, export, power off, dump | users, scripts |

How they interact:

* Every service opens `q.event` twice, as a producer and as a consumer. An event
  is written once into a buffer in shared memory; the driver links the buffer to
  the list of every consumer (the sender's too) and frees it when the last
  consumer has given its item back. `q.watchdog` works the same way.
* A request carries a key from the driver. The service that handles it sends a
  reply with the same key; the event thread of the process that asked hands it
  to the thread that waits.
* Services register with `svc.watchdog` by packets; its main thread moves them
  to a list, its second thread handles them and looks at `/proc`.
* A queue lives on a segment of `drivers/vmshm` with the same name and holds a
  reference to it.

What is hard about it: a buffer has readers in several processes and no copy, so
that one reference too few is a use after free in the kernel and one too many
stops the producers for good; the driver sleeps and wakes on conditions that are
changed elsewhere; objects are found by name under a lock and used after it; a
reply races a timeout; a packet may be handled after the process that sent it was
replaced by another. `PROJECT.json` lists the hazards line by line.

What makes each part correct:

* queue: no use after free, no loss, exact counts, no lost wake-up, every
  subscriber gets every message in the same order, unmodified;
* allocator: two owners never share a page, free buddies are merged, it fails
  only for a reason, what it returns fits;
* registry: a reference never outlives its object, counts are exact, names are
  unique, an open queue is not removed;
* queries: every query returns, with the reply to its own request if that was
  consumed;
* watchdog: one entry per program, a dead service is started again, silence is
  noticed, a packet acts only on the process that sent it;
* configuration: readers see whole and stable settings, and a start loads the
  newest complete save, wherever a later one was cut short;
* timers: a timer fires in the tick it was set for, once, and not after it was
  deleted; none is lost when levels cascade or callbacks add others;
* programs around the queue: commands are executed once and in order, every
  asker gets one reply, calls and power-offs come to an end, and threads block
  each other only when all buffers are held by threads that wait;
* settings: what is saved is what was loaded, start after start.

## The modules

```
 Powers --- BuddyGeometry --- Balloc ----implements----> BlockAllocator --- Blocks
   |               |             \                                          |
   |             MCVmq            \                                        Vmq
   |               |               \                                        |
   |               +---- VmqProperties --implements--> MulticastQueue       |
   |                              |  \   \__________________________________|
   |                            VmqProofs (of both, Vmq and Balloc)
   |
   |              TimersProofs
   |               |
 ListHead --- Timers --implements--> Alarms     Config + Settings --- SavedSettings
                |                                                       |       \
             MCTimers                                               MCConfig  ConfigProofs

 Registry --implements--> QueueNames        Watchdog --- WatchdogProofs
   |     \                                     |
 MCRegistry  RegistryProofs                 MCWatchdog

 MulticastQueue + Subsequence --- Services --implements--> CommandServer
                                     |
                             MCServices, ServicesProofs        PfQuery --- PfQueryProofs

 DataProofs: the lemmas about numbers, functions, sequences and lists that the
 other proofs cite
```

Names of actions and operators are those of the functions where there is one.
Operators `Op_word` are faulty variants of the `Op` below them, of the kind a
slip in the code would produce. No action uses them; with one in place of `Op`
the property it belongs to must fail, and `PROJECT.json` says which.

### Vmq, VmqProperties, MulticastQueue (`drivers/vmq/main.c`)

One queue. A *task* is an open file with the one thread that uses it, which is
what the mutex of lib/vmq enforces between `VMQueueGetBuffer` and
`VMQueuePutBuffer`. `pc` says where a task is in its call:

| `pc` | code |
|---|---|
| `limit` | the `wait_event` for `maxItemCount`, `get_buffer_item` 271-277 |
| `alloc`, `memory` | `alloc_shared_memory` and the `wait_event` around it, 279-290 |
| `add` | pages allocated, `mgr->mutex` not yet taken, 292-306 |
| `copyout` | `copy_to_user` of getbuf or getitem |
| `fill`, `ready` | the caller writes through its mapping, then puts |
| `put` | inside the loop of `put_buffer_item`, `owner` holds `mgr->mutex` |
| `get`, `hold` | `get_queue_item`; the caller has an item |
| `wake` | `vmq_release` between `mutex_unlock` and its wake-up |

State against struct: `allocated` is what `balloc` has handed out; `buffers` the
blocks with a `struct VMQBuffer`; `refcnt`, `bufItemCount`, `consumers`, `items`,
`item` the fields of that name; `todo` and `count` the loop of `put_buffer_item`;
`asleep` the two wait queues; `mem` the content of the shared pages, so that
reuse of a page shows as a message that changes.

Granularity. A section of `mgr->mutex` is one step, except for
`put_buffer_item`, whose iterations are steps of their own, since `getitem` takes
only `con->mutex` and runs in between. `vmq_release` of a consumer holds both
mutexes and is one step up to its wake-up. `wait_event` puts the task on the
queue before it tests the condition, so that test and sleep are one step for a
waker. The loop visits consumers in any order (the code: list order). The
allocation of pages (under `ba_mutex`) is the nondeterministic choice of a free
block of the right order, which `Balloc` refines; when a buffer goes its pages
are freed in the same step, as nobody looks at the bitmap in between but to
allocate.

`Env` names what the environment may do: signals, faults of `copy_to_user`,
failures of the two allocations, and closes. `VmqProperties` states the
properties and maps the queue to `MulticastQueue`: a message is published when
`put_buffer_item` gets the mutex, and from then on is in the queue of every
subscriber, those the loop has not reached included.

### Blocks, BlockAllocator, BuddyGeometry, Balloc (`drivers/vmq/balloc.c`)

`Blocks` is the interface: blocks, the pages of each, and the blocks that serve a
request. `Vmq` is proved for every such geometry and `MCVmq` takes the buddy
geometry. `Balloc` is the bitmap itself: `order` of every entry, stale ones
included, the walk of `ba_alloc` (`Heads`), the split and the merge.
It implements `BlockAllocator`. `ba_free` looks at a buddy that may lie past the
bitmap; with `Garbage = TRUE` such an entry looks like anything, a free block of
any order included. `MaxLevel` bounds how far a block can then grow. A size that is a
power of two is safe from such entries, and both queues of `scripts/pi-frame.init`
have one (1024 and 512 pages); `SizeAssumption` therefore ties `Garbage` to these
sizes. With six pages and `Garbage = TRUE`, `AllocatesBlocks` fails; with
`Garbage = FALSE` it holds, as it does for every size. `Powers` has the powers of
two as a recursive function, which a proof can take apart.

### Registry, QueueNames (`drivers/vmshm/main.c`, the create, remove, setup and release of `drivers/vmq/main.c`)

The addresses of the structs are model values that are free, in use and free
again, so that a stale pointer may meet another object. A critical section is a
step; the error paths of `vmq_create` are its labels. The code looks names up in
one section and acts in another. It relies on callers that do not overlap certain
calls; `Conflicts` names the pairs, and `Administered` is the
list under which everything holds. Without any one of its eight pairs a property
fails: `QueuesKept` without {VMQ_REMOVE, VMQ_SETUP}, `PointersAlive` without one
of the others; without one of the three among creations a name leads to two
objects.
`scripts/pi-frame.init` and `pi-frame.deinit` make these calls with `vmqctl` and
`vmshmctl` one after the other, before the services start and after they end.
What then overlaps are setups, closes and calls on other names, and a removal with the
closes of the queue it looks at. The races that `Conflicts` excludes are hazards no
property covers. `err4` of `vmshm_create`, which would leave a freed segment listed,
is left out: it needs a module on its way out, while a file of it is open or vmq
uses it.
`Failures = {"proc"}` adds the failure of `proc_create_data`, for which
`vmq_create` undoes its work twice: `PointersAlive` fails then, and the run
leaves it out.

### PfQuery (`lib/pfquery/pfquery.c`)

Threads of one process and its event thread. `waitCount` is the counter of the
code: each turn of the loop is one wait, ended by a signal, by the quarter of a
second or by nothing. The test of the list that `TakeEvent` makes stands for the
unlocked part of `setReplyQueryItem`. Replies are sent by a service that has seen
the request, up to `MaxReplies` times each, and never assumed.

### Watchdog (`service/watchdog`, `lib/pfwdt`)

Processes start, crash and send; packets go through `queue` (q.watchdog) and
`events` (eventRoot) to the handlers of the watchdog thread. An entry is keyed by
the pid of its process; `nameOf`, `active`, `left`, `subs`, `subLeft` are its
fields. `left` is `expireCount` less the seconds since `ats`, so that a tick of
the clock counts it down and the update of the code only compares. A service
has at most one sub-service, hence a sub-service is known by the pid that
registered it. `SUBREGISTER` finds the entry by name, as in the code. A restart
kills all processes of the name and starts one. A service of mode REBOOT takes
the daemon along (`exit(1)`): the entries before it in the list are restarted,
which ones is left open.

A pid is not reused while a packet or an entry of its owner is around. With
`Documented = FALSE` the packets carry what `lib/pfwdt` puts into `wdid`, and
all are dropped (see [below](#divergences)); the runs use `Documented = TRUE`, the form
`pfwatchdog.h` gives and `svc.watchdog` expects, since otherwise nothing would
ever happen. Debug mode, in which the daemon takes no action, is left out.

### Config (`service/config`, `lib/pfconfig`, `scripts/pf-getConfig`)

`pc` is where svc.config is: `semget` and `setval` in `semaInit`, `load` and
`copy` in `dbInit`, `run` in its loop, `update` between `configGet` and
`configPut`, `save` and `write` in the forced `dbSync` at its end; `dead` after a
crash, `abort` after the assertion on `dbInit`, both until the board is reset.
`sem` is the value of the semaphore and `held` what SEM_UNDO gives back for a
reader. A section of a reader is `ReaderLock` to `ReaderUnlock`; svc.config writes
with the lock held (`Update`), and without it while it starts.

`file[d]` has the two slots that are written in turn and the copy of the default.
A file is absent, empty, torn, or complete, then with the start that wrote it
(`gen`) and its `LastTime`. What svc.config was writing when it died is left as it
is cut (`CutShort`): a slot may lack a part of its last line, with a number that
is smaller than any time and JSON that is whole (`Cut`). A file that was closed
is taken to be on the disk. `saveCount` is the parity of the counter of the code.
The settings that have files never change while svc.config runs (the one caller
of `configPut` marks the runtime class), so that the save of a start is known by
the number of the start and the periodic `dbSync(0)` has nothing to do.

The clock moves by a member of `ClockSteps` from one start to the next: `LastTime` is
the time of day, which goes on or is set back. The runs have `{1, -1}`. `saves[d]` is a
history of the saves of a database that came to their end, with start and time.
`LoadsNewestSave` says that one with the latest time is still whole and is loaded, wherever
the power failed since: the two files hold it up since a save never writes the file that
was loaded. `LoadsLastSave` says more, that the time of day does not matter, as the comment at
`config-util.c:99` has it; `config_clock` refutes it, since after a step back the later
save has the earlier time and is not chosen.

### Settings, SavedSettings, MCConfig (`config-system.c`, `config-network.c`, `config-util.c`)

The classes system and network as records, their JSON form as the sequence of its
members, since cJSON keeps a key that occurs twice and the code finds the first.
Reading and writing are operators, one per function: defaults for what is
missing, tables of names, the time zone that must be installed, addresses that
must be valid. `SavedSettings` joins them to `Config`: the file a start loads was
saved by an earlier start, or is the default, and `SettingsKept` says that the
settings are those the default gave, whichever it was, for every file that
`Shipped` admits. `MCConfig` has such files (the shipped ones of CamPi, edited and
shortened). Left out:
lengths of texts, the case of letters, and `config-media.c`, which is not compiled.

What the module brought to light: the address `dns2` is saved under the key `dns1`
(`config-network.c:169`), and is not read back; the settings survive only since
the shipped file has two `dns1` as well and its second is the built-in default. A
name with characters that JSON escapes grows at every load and save
(`json_getValue`, `config-util.c:22-34`), which `Kept` leaves out. A network file
without `staticIp` ends in an assertion at the save. A system file without `timezone`
leaves the zone empty at the first start and makes it Seoul at the second, which
reads the empty one back and does not find it installed. `Shipped` asks for both
sections.

### ListHead, Timers, Alarms (`include/list.h`, `lib/util/utilTimer.c`)

`ListHead` has the list operations of the program on a heap of `next` and `prev`
pointers. `Timers` uses it for `timerListsRoot`, by which timers are found again;
the slots of the wheel, which are only filled at the tail, emptied and walked, are
sequences. `vec` holds the slots of all five levels, `index` the position of each,
`queued` and `running` the list that takes what is added while callbacks run.
`pc` is where the thread is: `turn` and `slot` with the mutex, the others without.
Times are words of `WORD_BITS` bits, which the five levels span exactly, as the
32 bits of the board do (a 64-bit build has the branch of line 131, never taken).
The three calls of the interface may come from any thread, and from a callback.
A timer's memory is allocated once; `adding` is how far its `PFU_timerAdd` is.

The five levels have `TVR_BITS` and `TVN_BITS` of 1 in the run, instead of 8 and
6: two slots each, a word of 32 ticks, so that a timer of nine ticks starts in the
fourth level and cascades through all below, and the word wraps around.

`Alarms` is what a user expects: a timer rings when the ticks it was set for have
passed. `RingsOnTime` maps the place of a timer to the ticks it has left. A timer
that expired before it was added rings in the next tick (`MaxLate`).
`ListedAlive` says what the list of all timers holds: those that live, and those
that were deleted, fired and freed, which `reuse_timer` leaves listed since it
unlinks only what `PFU_timerDelete` has not marked. Any list operation that follows
reads freed memory; svc.action deletes its one timer as the last thing it does.

### Services, CommandServer (`service/service`, `service/config`, `lib/util/utilFifo.c`, `util/cli`, `scripts/pf-run`)

The programs around `q.event`: svc.config, svc.service with its event thread and its
service thread, and calls of cli. The queue is `MulticastQueue`, which Vmq
implements, with a memory of `Limit` buffers: `Publish` waits for one (`Room`).
`Limit` is what fits into the pages of `q.event`, not `maxItemCount`, which
`pi-frame.init` does not set (`vmqctl` has `-C` for it): pages are looked for and
taken in one section of `ba_mutex`, so that the overrun of `maxItemCount` which Vmq
shows does not occur here. A
step is what a thread does between two points where it may wait. `pc` is where a
main thread is (`send`, `wait`, `loop`, `handle`, ...), `thread` and `hand` are the
service thread and its command. The pool of the FIFO is modelled item by item:
`emptyRoot` and `queueRoot` are the two lists of `struct PFQueue`, `data` is the copy
of a command that an item carries, `enqueued` and `dequeued` are the items that the event
thread and the service thread have unlinked and not linked again. `PoolKept` says that
every item is in exactly one of these four places. The event thread takes an item
(`AllocItem`), queues it with its copy (`EnqueueFIFO`), and then gives the event back
(`PutItem`).
A call of cli is one of: a command, a command whose result it waits for, an export
of the settings, a power-off. `pf-run` starts svc.service when `cli config dump
init` says that svc.config has loaded the settings, or after ten seconds. The runs have
one that does not give up (`Patient`); with one that does, `RuntimeStored` fails, as
svc.service may then tell its settings before svc.config has opened the queue.

`CommandServer` is what svc.service promises: commands one by one in the order of
publication, each once, one reply to whoever asked; `todo` is mapped to the
commands in the queue, in the hands of the event thread, in the FIFO and in the
hands of the service thread. `ComesToRest` says that everything ends, unless
`Starved`: all buffers are held by threads that wait themselves and read nothing
meanwhile. The code can get there: a call of cli without a reply never reads
(`util/cli/main.c:147`), svc.config publishes in the middle of its event handler,
and the service thread waits for a buffer for its reply while the event thread
holds events and waits for a place in the FIFO (`service.c:133`). A buffer is
waited for without a time limit, so that only a signal ends it.

What it leaves out: svc.action and svc.watchdog as consumers of `q.event` (they
read each event and give it back at once, svc.watchdog power-offs too), SIGTERM during
`eventHandler`, which is lost as its return value is assigned to `fgRun`, a
reply that comes after `notifyExit` has freed the queue, and `SYS_SHUTDOWN`, which
is handled as a power-off. The export packs the files with tar and changes nothing;
it takes `X.json`, the copy of the default, and never `X.json.0` or `X.json.1`,
the files that are saved (`config.c:617`).

## The runs

| Run | Instance | What it shows |
|---|---|---|
| `vmq_safety` | 2 producers, 3 consumers, 2 pages, limit 1, everything in `EnvEvents` | memory safety and exact counts (the parts of `IInv`), the bound on the overshoot, refinement of `MulticastQueue`; `IInv`, the invariant of the proof |
| `vmq_liveness` | 2 producers, 2 consumers of which one stays, limit 1 | producers are woken, messages delivered |
| `balloc` | 8 pages, all lengths, foreign entries of any kind | refinement of `BlockAllocator`, no false failure |
| `registry` | 3 tasks, 2 names, 3 segments, 2 managers | refinement of `QueueNames`, references, counts, names |
| `pfquery` | 2 threads, 2 keys, up to 2 replies per request, 3 waits | the outcome of a query, and that it ends |
| `watchdog` | 1 program of mode RESTART with a sub-service, 3 pids, 2 packets, timeout and period 1 | restart, silence, sub-services |
| `watchdog_twice` | 2 programs (RESTART and REBOOT), one started twice, 4 pids | one entry per program, no arming by others |
| `config` | 3 readers, a lock of 2 units, 2 databases, 4 starts, a clock that goes on or back | whole and stable settings for readers; the newest complete save is loaded, and gives what was saved |
| `config_clock` | 1 reader, 1 database, 3 starts, a clock that goes on or back | violation: an older save wins over the last one |
| `config_empty` | 1 reader, 1 database, 2 starts | violation: an empty copy of the default ends every later start |
| `timers` | 2 timers, 5 levels of 2 slots, a word of 32 ticks | refinement of `Alarms`, one place for each timer, the list of timers, that they ring |
| `services` | 3 calls, a FIFO of 1, 2 buffers | refinement of `CommandServer`, the items of the pool, that all comes to rest, that settings are stored |

Why the bounds are enough. Two pages are three blocks (two of one page, one of
two), so that requests fail for want of memory, for fragmentation and for the
limit; with two producers both pass the limit test together and both sleep.
Three consumers let one close while a second holds and the third is still to be
linked. Eight pages give the allocator four orders, merges over three levels
and walks over eight blocks. Three tasks in the registry are a creator or remover,
a user, and one more to reuse what was freed; a third segment lets one be created
while two exist. Two keys are a query and a later one of the same or another
thread; two replies are one in time and one late. Three pids are a process, the
one that replaces it and a free one; two packets are one in each queue, or two in
order in one of them. Timeout and period of one second reach all comparisons of
the code (`< 0`, `>= PERIOD`), as larger ones only add ticks. Four starts fill
both slots, write the first again and choose once more; three readers on two units
make a reader wait too. Two timers are one that cascades from the fourth level and
one that fires around it, in the same slot or during its callback; `ExitAt` has the
first tick and one in the middle. With two buffers and one place in the
FIFO three calls fill both, so that each of the waits of `Starved` occurs; for the pool,
where more items mean more ways to mix them up, `PoolKept` and `ServesInOrder` also hold
with a FIFO of two, and are proved for every size. One
instance has three commands, the other a command, an export and a power-off. Three
starts are a save, one after the clock was set back, and the load that has to choose.

Symmetry is used for producers, consumers and messages in `vmq_safety`, for
tasks, names, segments and managers in `registry` and for pids in
`watchdog_twice`, all runs without liveness. Deadlock is checked in
the runs of the queue, the allocator and the registry. It is not in `pfquery`,
whose keys run out, the watchdog runs, where processes, packets and pids are
bounded, the runs of `Config`, whose starts are, `timers`, whose timers may all be
deleted and its thread ended, and `services`, which comes to rest.

## Fairness

`Vmq!FairSpec`: a task inside a call goes on (weak fairness of its steps). Steps
that take `mgr->mutex` have strong fairness: a kernel mutex queues its waiters.
A user who got a buffer fills and puts it, and a subscribed consumer calls getitem
and putitem again and again: the main loop of every service
(`service/service/main.c:48-80`). Nothing makes the code do so: one consumer that
stops reading stops all producers. New calls, failures, signals and closes have no
fairness. The run leaves out the events in which a producer frees a buffer: then
the code wakes nobody, see the hazards.

`PfQuery!FairSpec`: only the waiting threads go on; a wait is over after a
quarter of a second. Neither the event thread nor the services are assumed to do
anything.

`Watchdog!FairSpec`: both threads of the daemon and the clock go on. `Drained`
needs strong fairness, since packets may arrive between its being enabled and
its being taken. The loop that drains the packets has no bound: the two
liveness properties have the premise `NoFlood`, that it ends again and again.

`Timers!FairSpec`: the thread of the timers is scheduled, its wait of 50 ms times out,
callbacks return, and a `PFU_timerAdd` that has begun ends. `Services!FairSpec`:
threads are scheduled, and what ends by itself does: a command, tar, a wait with a
time limit. There is no fairness for the start of services, calls of cli and
SIGTERM, and a buffer or a place that stays taken keeps its waiter waiting.

## The proofs

Each theorem holds for every value of the constants that the named assumptions
of the modules admit; TLC evaluates these on every run. All invariants are proved
from an inductive one, which is given for each module.

`VmqProofs` proves, for every number of producers, consumers, messages and
blocks, every geometry of `Blocks`, every limit and every subset of `EnvEvents`,
from `BlocksAssumption` and `VmqAssumption` alone (finitely many files; `None` is
none of the values):

| Theorem | Statement |
|---|---|
| `TypeCorrect` | `Spec => [](TypeOK /\ CallState)` |
| `MemorySafe` | `Spec => []IInv` |
| `NoUseAfterFree` | `Spec => [](ReferencesAlive /\ RefCounts /\ WriterIsAlone)` |
| `NoLeak` | `Spec => [](NoBufferLost /\ NoPageLost /\ CountExact)` |
| `LimitOvershoot` | `Spec => []OvershootBound` |

The argument. `ReferencesAlive` is not inductive: that a freed block has no other
holder needs `refcnt` to be exact (`RefCounts`), which in the loop of
`put_buffer_item` needs that `count` consumers hold the buffer and none of those
still to visit does; that a producer drops a buffer no consumer holds needs
`WriterIsAlone`; and that the buffer of a `pc` exists needs `CallState`. `IInv` is
the conjunction of all of them. Its preservation has one lemma per kind of
step: those that leave the memory alone (`QuietMemory`), allocation, adding,
putting, linking, popping, and two on which all freeing rests: `DropMemory` for a
buffer nobody holds and `ReleaseMemory` for the references of one consumer, from
which the lemmas of putitem, of the failed getitem and of close follow. `LimitOvershoot`
rests on `MemorySafe`: passing the test adds a producer to `PastLimit` at a
moment when `bufItemCount < MaxItemCount`, adding the buffer moves it from there
to the count, and at most the other producers were in `PastLimit` already.

`ConfigProofs` proves, for every finite set of readers, number of units,
databases and starts, and for a clock that moves by any `ClockSteps`, from
`ConfigAssumption` alone, but that `SettingsSurvive` assumes that the default files are as `Shipped` says and that no text the code itself names, no zone
and no address has a character that JSON escapes (`SettingsAssumption`):

| Theorem | Statement |
|---|---|
| `TypeCorrect` | `Spec => []TypeOK` |
| `SettingsWhole` | `Spec => []ReadsWhole` |
| `SettingsStable` | `Spec => ReadsStable` |
| `NewestSaveLoaded` | `Spec => LoadsNewestSave` |
| `SettingsSurvive` | `Spec => []SettingsKept` |

The argument. `LockInv`: the units that are counted and those that readers hold
are together at most `Units` (fewer when svc.config died before `SETVAL`), so that
`semaLock`, which takes all, finds no reader; `TypeOK` needs it for the bound of
`sem`. `LoadInv`: the flag is set after the databases are loaded, never while
svc.config starts; a file that cannot be parsed is always the default
(`TornDefault`: a slot that is cut short has no `LastTime` and is not chosen), which
is copied anew, so that no start reads in vain a second time. `FileInv`: as long
as nothing was saved to the end, both slots count for nothing (`LastTime` at most
`Cut`); afterwards one slot is `Newest`: it keeps a complete save of the latest time, no
file that is loaded is later, and it is not the one `saveCount` points at from the load of the
database to the end of its save. A save at an earlier time than that, after the clock was
set back, goes to the other slot and changes none of this. Each of the three has a lemma for its preservation, with one
case for every action that disturbs it.

`SettingsSurvive` is about data. `Normal` names the settings that survive: a
zone that is installed, addresses that are valid, `dns2` the built-in one, names from
the tables, no more servers than there is room for, texts that print as they are, a
`subModel` that is not empty. What configInit makes of a shipped file is `Normal`
(`ShippedIsNormal`), and what it makes of a save of normal settings is those settings
with the name escaped once more (`MemoryBack`, section by section: `TimezoneBack` to
`StaticIpBack`). `Settled` is a recursion over the starts, and the settings of all of
them are in any set that is closed under saving and loading (`SettledIn`): the
settings of the first start alone when the name is plain, and else all settings that
differ from it in the name.

`VmqProofs` also has the refinement of `MulticastQueue`, from the same two assumptions:

| Theorem | Statement |
|---|---|
| `PagesApart` | `Spec => [](Apart /\ AllWritten /\ Subscribed)` |
| `Implements` | `Spec => MulticastSpec` |

The argument. What a user sees is the content of pages that other processes could
write, so the step simulation rests on where writers can write. `Apart`: blocks in
use share no page, which is what `Candidates` asks of an allocation. `AllWritten`:
what is put, queued or held carries one message on all its pages. With
`WriterIsAlone` a `Fill` leaves whatever is queued or held as it is (`FillKept`).
`put_buffer_item` publishes at once, when it gets the mutex (`PublishStep`); each
iteration of its loop then only moves a message from the part of the queue that is
still to be linked to the one that is (`LinkStep`), and one that fails for want
of memory takes the last message of one consumer away (`MissStep`). A consumer
subscribes, takes, gives back and leaves by one step each, and all others stutter.

`RegistryProofs` assumes `Careful`: the calls of `Administered` do not overlap, and
`proc_create_data` does not fail. Without either the theorems are false (see the
module above, and the hazards).

| Theorem | Statement |
|---|---|
| `TypeCorrect` | `Spec => []TypeOK` |
| `NoUseAfterFree` | `Spec => []PointersAlive` |
| `CountsExact` | `Spec => []RefcntExact` |
| `Implements` | `Spec => QueuesKept` |

The argument. `Shape` says, label by label, what a call has in its hands (`Holds`):
a creator a segment that is listed and on which no queue lives yet, a remover
a queue that nobody has open. `Apart` says that calls of one name which must not
overlap do not, so that what one looked up is still there when it acts; `ListAlone`
keeps a queue that is not listed yet apart from one that is not listed any more.
`Objects` gives every queue a segment of its own and every name one segment. The
exact counts are needed beside it, since a remover goes on at a count of one or of
none: only then is what it frees without another user.

`PfQueryProofs` has no assumption but those of the constants of PfQuery:

| Theorem | Statement |
|---|---|
| `TypeCorrect` | `Spec => []TypeOK` |
| `ConsumedReturned` | `Spec => []ConsumedIsReturned` |
| `RepliesMatch` | `Spec => []OwnReply` |
| `NoneMissed` | `Spec => []NoReplyMissed` |

The argument. `KeyInv`: a key is given out once and is in the hands of one thread, so
that a late reply finds no query but its own; a thread is on `waitLRoot` exactly
between `AddItem` and `RemoveItem`. `MessageInv`: nothing under way has a key that
was not given out. `AnswerInv`: a reply that was consumed is with its thread until
that returns it.

`WatchdogProofs` has no assumption but `WatchdogAssumption`, and covers both values
of `Documented`:

| Theorem | Statement |
|---|---|
| `TypeCorrect` | `Spec => []TypeOK` |
| `OneEntry` | `Spec => []NamesListedOnce` |
| `ArmedByOwner` | `Spec => []ArmedByItself` |
| `SubsKept` | `Spec => []SubsOfTheirOwn` |

The argument is one about order. The packets that are not handled, `events` and
`queue`, form one stream (`At`). A process that has sent nothing is known to nobody
(`Fresh`), and a START of a living process tells that it has started (`StartSent`).
A process registers once, before it is listed (`RegOnce`). Of a program that runs
once at a time (`Alone`), whoever is registered has sent its REGISTER after those
of all earlier instances (`MemberLast`), and until it is handled nobody else will be
listed for good (`MemberListed`); the same holds of the sender of a SUBREGISTER at the
place of that packet in the stream (`SubLast`, `SubListed`), also after the process
is dead. Hence the search by name finds the right process.

`ServicesProofs` has no assumption but those of the constants of Services:

| Theorem | Statement |
|---|---|
| `TypeCorrect` | `Spec => []TypeOK` |
| `PoolInvariant` | `Spec => []PoolKept` |
| `Implements` | `Spec => ServesInOrder` |

The argument. The labels of each program fix what it holds of the queue (`QueueOK`)
and what of the pool (`PoolOK`): which thread has an item in its hands (`ThreadOK`,
`ListsOK`), and `PoolKept` place by place (`Apart`). `ListDel` and `ListAddTail` say what unlinking the head
and linking at the tail do to the elements of a list without doubles; each hand-over is one
of them. The refinement follows the commands on
their way (`Todo`): the one that has begun, those in the FIFO, the one the event
thread holds, and those among the events in the queue of svc.service. A published
command is appended to the last part (`CommandsOfAppend`), an event that is no
command changes none (`OtherPublish`), and each hand-over takes the head of one
part and puts it at the end of the next, so that `Todo` stays as it is (`SameTodo`).

`VmqProofs` has, last, the proofs about Balloc, whose `ba_create`, `BallocNext` and
`BallocSpec` have names of their own for that. They are about segments of every size
(`SizeAssumption`):

| Theorem | Statement |
|---|---|
| `BallocInductive` | `BallocSpec => []BallocInv` |
| `ShapeInvariant` | `BallocSpec => []Shape` |
| `BallocImplements` | `BallocSpec => AllocatesBlocks` |
| `NoFalseFailureInvariant` | `BallocSpec => []NoFalseFailure` |

The argument. `BallocInv` says that the entries the walk of `ba_alloc` visits, whatever the
stale ones between them say (`HeadsOf`), tile the segment: each is aligned to its
size and ends where the next one is. No two free buddies of one size are left
(`Merged`). Splits and merges go one order at a time (`SplitOnce`, `FreedOnce`), each of
which keeps a tiling; both loops follow by induction over the order. That `ba_alloc` fails only for
want of room is the converse of merging: in an aligned free region of the size asked
for, a smallest block that does not fill it would have a free buddy of its own size.
TLC confirmed it beforehand on five geometries (8, 7, 6, 2 and 1 pages).

`TimersProofs` proves, for every size of the levels, any finite number of timers and
all periods below half a word, from the assumptions on the constants of Timers:
`WheelAssumption` says that the five levels span the word, as 8 + 4 * 6 bits do 32;
`PeriodsAssumption` that a period, one more at most, is below half a word, which a
fiftieth of a 32-bit `msec` is; `LateAssumption` that no timer is added half a word
late, where the code, too, takes it for one to come:

| Theorem | Statement |
|---|---|
| `Inductive` | `Spec => []IInv` |
| `TypesHold` | `Spec => []TypeOK` |
| `OnePlaceInvariant` | `Spec => []OnePlace` |
| `ListedAliveInvariant` | `Spec => []ListedAlive` |
| `CaughtUpInvariant` | `Spec => []CaughtUp` |
| `Implements` | `Spec => RingsOnTime`: Timers implements `Alarms` |

The argument. `TimeInv` ties the two counters of ticks to the place of the thread; a
turn ends because `jiffies` cannot move while the thread is in it. `PlaceInv`: the slots,
what was added meanwhile, and the timer in the hands of the thread share no timer and
are, together, the timers that were added and live. `WheelInv` is what makes it hold in
the steps that move many timers, and says more than the runs ask for: every timer in the
wheel is in the slot whose ticks its expiry falls into, or is late and in the slot of the
tick to come. `InStep` says which ticks the indexes stand for, by `rest`: how far ahead
the tick is at which level n cascades next; it is 0 just when that and all levels below
cascade now (`TurnedFacts`). `Window` is the place of a timer by it. `LevelFacts` and
`SlotFacts` show that `internal_add_timer` chooses such a place, and one which no
cascade under way has already passed; so a cascade puts no timer back into the slot it
empties (`CascadedFacts`), which the `INIT_LIST_HEAD` at its end would lose, and the
tick moves every window on by one (`AdvanceTick`). All of it is modulo the word.
`ListInv`: the timers between `ListTimer` and `list_del` form one ring with
`timerListsRoot`, not several, so that `list_for_each` comes back to its head and has
passed all of them (`ForEach`); of the timers that are freed it finds only those marked
before, so that `PFU_timerDelete` of one of them changes nothing.
`DueInv` is for `Implements`: an expiry is at most half a word away from `jiffies` when
its timer is added (`Timely`, which the guard of `Tick` keeps up), and the queue never
holds one that is exactly half a word ahead of `timer_jiffies`, past in this tick and to
come in the next.

The refinement takes one lemma per action that is seen. When the thread takes a timer,
`Window` says of the slot at the index of the lowest level that the timer is due or late
(`HeadDue`), so that an alarm elapses; when it leaves the tick, `Window` says of all
other slots that their timers are due later, and not past (`ElsewhereAhead`), so that
each has one tick less (`SlotDoneTicks`, with `DueInv` for what was queued). Adding sets
an alarm, deleting cancels it, and after the callback it is over and set anew for a later
tick or gone. Everything else, the cascades among it, changes no alarm (`StepStutters`),
since the ticks left depend on the expiry and not on the slot.
TLC had confirmed `DueInv` on the instance of the run.

`DataProofs` has what the others need of data. Induction over numbers, from a least
counterexample (the library's own theorems take an operator, which the provers cannot
instantiate); the existence of functions defined by recursion; `Filtered` of a
sequence; powers of two and multiples; and, of the operators of `list.h`, that they
keep a heap `Linked` (`next` and `prev` are inverse to each other) and put the node
where they should: `InitLinks`, `AddLinks`, `DelLinks`.

Only model-checked: liveness, which with `ENABLED` is beyond the prover
(`SleepersWoken`, `Delivered`, `QueryReturns`, `Restarted`, `SilenceNoticed`, `Rings`,
`ComesToRest`, `RuntimeStored`). Every other property of the passing runs is proved.

## Divergences

Two runs end in a violation, one of an assertion and one of a comment of the
repository:

* `config_empty`: `config.c:538` asserts that `dbInit` succeeds. A first start that
  is cut short between the creation of the copy of the default and its writing
  leaves a file of no bytes, which is there but cannot be read, and is neither
  removed nor copied again: this and every later start ends in the assertion.
* `config_clock`: `config-util.c:99` says of the `gettimeofday` for `LastTime` "There is
  no connection with changing system time". It is the system time, by which
  `pf-getConfig` chooses the file: the first start saves at 3, the second one, after the clock
  was set back, at 2, and the third loads what the first one saved.

Three other comments say what the code does not do, and have no run of their own:
`pfwatchdog.h:11-21` puts the type of a packet in the upper 8 bits of `wdid`, where
`svc.watchdog` looks for it, but `lib/pfwdt` sends the bare command, so that every packet
is dropped as unknown (with `Documented = FALSE` the invariant `PacketsKnown` of Watchdog
fails at the first packet);
`vmq-dev.h:16` calls `maxItemCount` the maximum number of items, which is tested
without the lock and may be overrun, by at most one item for every other producer
(`OvershootBound`, proved); `pfquery.c:171-174` says that `PFQueryWakeUpAll` wakes
all waiting queries for an urgent termination, but a woken query finds no reply and
waits again, until its count is used up (`QueryReturns` holds nevertheless).

## Not modelled

* Statistics, `/proc`, `poll` and `mmap` of the drivers: they change no state of
  the model.
* Calls the libraries cannot make, such as `VMQ_PUTBUF` without a buffer, or
  calls before `VMQ_SETUP`: the drivers dereference a null pointer.
* The debug mode, the dump and the shutdown of `svc.watchdog`.
* Wrappers of system calls, `monitoring` of cli, vmqctl, vmshmctl and test
  programs: no state of their own.
* Of svc.config: `configImport` (without a caller), the media class and a second
  svc.config while one runs.
* Of the FIFO: `PFU_destroyFIFO` and waits with a time-out, which have no caller.
* `err4` of `vmshm_create`, and the calls that `Conflicts` keeps apart.
* EINTR in the wrappers of lib/vmq, for which `VMQueueGetBuffer` returns NULL and
  `notify.c` asserts.

## Plan

Done: the queue, the registry, the queries, the watchdog, the configuration and the
programs around the queue, the lists, the allocator, the timers and the settings, with
the proofs of all their safety properties. What would add most now:

1. Safety properties that relate two modules and no run checks yet: what pf-run and
   svc.service leave in the settings (`Services`, `stored`), as an invariant that
   accompanies `RuntimeStored`, and its proof.
2. The hazards of `PROJECT.json` that no property covers.
