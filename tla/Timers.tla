------------------------------- MODULE Timers -------------------------------
(***************************************************************************)
(* The timers of lib/util/utilTimer.c: a wheel of five levels that one     *)
(* thread turns every 50 ms, and a list of all timers, by which they are   *)
(* found again.  Any thread may add a timer, change its period or delete   *)
(* it, also while its callback runs; svc.action (timer.c) is the user.     *)
(*                                                                         *)
(* A step is a section of mutex, or the code between two sections.  Times  *)
(* are ticks, in words of WORD_BITS bits that wrap around: the 32 of the   *)
(* board, which the five levels span exactly.  A key is the timer it       *)
(* names: keys differ until 2^32 timers were added.                        *)
(***************************************************************************)
EXTENDS ListHead, Powers, Sequences, FiniteSets

CONSTANTS
  TVR_BITS, TVN_BITS, WORD_BITS,
  Timer,       \* the memory of a struct TimerList; each is allocated once
  Periods,     \* of each timer: msec / TIMER_TICK_MSEC, for every msec asked for
  MaxLate,     \* a bound: ticks by which a timer may be added too late
  ExitAt,      \* a bound: the times at which PFU_timerExit may come
  Root,        \* timerListsRoot
  None

ASSUME WheelAssumption ==
  /\ {TVR_BITS, TVN_BITS, WORD_BITS} \subseteq Nat \ {0}
  /\ WORD_BITS = TVR_BITS + 4 * TVN_BITS

(* A fiftieth of what 32 bits hold: far from half a round of the words.      *)
ASSUME PeriodsAssumption ==
  /\ Periods \in [Timer -> SUBSET Nat]
  /\ \A t \in Timer : \A p \in Periods[t] : p + 1 < Pow2[WORD_BITS - 1]

ASSUME LateAssumption == MaxLate \in Nat /\ MaxLate < Pow2[WORD_BITS - 1]

ASSUME TimerAssumption ==
  /\ IsFiniteSet(Timer)
  /\ None \notin Timer /\ Root \notin Timer
  /\ None \notin Nat

VARIABLES
  jiffies, timer_jiffies,
  index,       \* of the levels 1 (tv1) to 5 (tv5)
  vec,         \* the timers in each slot of each level, in their order
  running,     \* run_timer_list_running # NULL
  queued,
  pc,          \* of the thread
  cur,         \* the timer the thread handles
  repeat,      \* its callback returned ETFUNC_RV_REPEAT
  fgRun,
  adding,      \* of each timer: how far PFU_timerAdd is
  freed,
  expires, msec, fgRemove,
  list         \* the pointers of all entry and of timerListsRoot

wheel == <<timer_jiffies, index, vec, running, queued>>
timers == <<adding, freed, expires, msec, fgRemove, list>>
vars == <<jiffies, wheel, pc, cur, repeat, fgRun, timers>>

TVR_SIZE == Pow2[TVR_BITS]
TVN_SIZE == Pow2[TVN_BITS]
Word == Pow2[WORD_BITS]
Sign == Pow2[WORD_BITS - 1]

Size(n) == IF n = 1 THEN TVR_SIZE ELSE TVN_SIZE
Slots == {s \in (1..5) \X (0..(TVR_SIZE + TVN_SIZE)) : s[2] < Size(s[1])}

(* The ticks a slot of level n stands for. *)
Weight == [n \in 1..5 |-> IF n = 1 THEN 1 ELSE Pow2[TVR_BITS + (n - 2) * TVN_BITS]]

Minus(a, b) == (a - b) % Word
Negative(a) == a >= Sign

Init ==
  /\ jiffies = 0 /\ timer_jiffies = 0
  /\ index = [n \in 1..5 |-> 0]
  /\ vec = [s \in Slots |-> << >>]
  /\ running = FALSE /\ queued = << >>
  /\ pc = "wait" /\ cur = None /\ repeat = FALSE /\ fgRun = TRUE
  /\ adding = [t \in Timer |-> "none"]
  /\ freed = {}
  /\ expires = [t \in Timer |-> 0]
  /\ msec = [t \in Timer |-> 0]
  /\ fgRemove = [t \in Timer |-> FALSE]
  /\ list = INIT_LIST_HEAD(Timer \cup {Root})

(* The thread does not hold mutex.  At "tick" and "next" it is about to     *)
(* lock it.                                                                *)
Unlocked == pc \notin {"turn", "slot"}

------------------------------------------------------------------------------
(* The wheel                                                                  *)

(* A faulty variant: the levels overlap by one. *)
Level_offByOne(idx) ==
  CHOOSE n \in 1..5 : /\ n < 5 => idx <= Weight[n + 1]
                      /\ \A k \in 1..(n - 1) : idx > Weight[k + 1]

Level(idx) ==
  CHOOSE n \in 1..5 : /\ n < 5 => idx < Weight[n + 1]
                      /\ \A k \in 1..(n - 1) : idx >= Weight[k + 1]

(* Where internal_add_timer puts a timer while no callback runs: one whose *)
(* expiry is past into the slot of the tick to come.                       *)
Slot(t, now, i) ==
  LET idx == Minus(expires[t], now)
      n == Level(idx)
  IN  IF n = 5 /\ Negative(idx) THEN <<1, i[1]>>
      ELSE <<n, (expires[t] \div Weight[n]) % Size(n)>>

(* One timer after the other goes to the end of its slot. *)
Placed(v, s, now, i) ==
  LET upTo[n \in 0 .. Len(s)] ==
        IF n = 0 THEN v
        ELSE [upTo[n - 1] EXCEPT ![Slot(s[n], now, i)] = Append(@, s[n])]
  IN  upTo[Len(s)]

internal_add_timer(t) ==
  IF running
  THEN queued' = Append(queued, t) /\ UNCHANGED vec
  ELSE vec' = Placed(vec, <<t>>, timer_jiffies, index) /\ UNCHANGED queued

(* The highest level that cascades: a level follows when the one below it  *)
(* has come round.                                                         *)
Turned ==
  CHOOSE d \in 1..5 : /\ \A n \in 1..(d - 1) : index[n] = 0
                      /\ d < 5 => index[d] # 0

(* A faulty variant: the head is not emptied (INIT_LIST_HEAD). *)
cascade_timers_kept(v, n) == Placed(v, v[<<n, index[n]>>], timer_jiffies, index)

cascade_timers(v, n) ==
  LET head == <<n, index[n]>>
  IN  [Placed(v, v[head], timer_jiffies, index) EXCEPT ![head] = << >>]

Cascaded ==
  LET upTo[n \in 1..5] == IF n = 1 THEN vec ELSE cascade_timers(upTo[n - 1], n)
  IN  upTo[Turned]

(* A faulty variant: an index runs past its level. *)
Advanced_unmasked(levels) ==
  [n \in 1..5 |-> IF n \in levels THEN index[n] + 1 ELSE index[n]]

Advanced(levels) ==
  [n \in 1..5 |-> IF n \in levels THEN (index[n] + 1) % Size(n) ELSE index[n]]

(* Ticks since the expiry of a timer. *)
Late(t) == LET n == Minus(jiffies, expires[t]) IN IF Negative(n) THEN 0 ELSE n

(* timer_process, after 50 ms of waiting, or after a while more. *)
Tick ==
  /\ pc = "wait"
  /\ \A t \in Timer : adding[t] \in {"alloc", "listed"} => Late(t) < MaxLate
  /\ jiffies' = (jiffies + 1) % Word
  /\ pc' = "tick"
  /\ UNCHANGED <<wheel, cur, repeat, fgRun, timers>>

(* A faulty variant: the thread stops one tick behind. *)
Due_strict == jiffies # timer_jiffies /\ ~Negative(Minus(jiffies, timer_jiffies))

Due == ~Negative(Minus(jiffies, timer_jiffies))

Cascade ==
  /\ pc \in {"tick", "turn"} /\ Due
  /\ vec' = Cascaded
  /\ index' = Advanced(2..Turned)
  /\ running' = TRUE
  /\ queued' = << >>
  /\ pc' = "slot"
  /\ UNCHANGED <<jiffies, timer_jiffies, cur, repeat, fgRun, timers>>

(* The thread takes the first timer of the slot and releases mutex. *)
DetachTimer ==
  LET head == <<1, index[1]>> IN
  /\ pc \in {"slot", "next"}
  /\ vec[head] # << >>
  /\ cur' = Head(vec[head])
  /\ vec' = [vec EXCEPT ![head] = Tail(@)]
  /\ pc' = "call"
  /\ UNCHANGED <<jiffies, timer_jiffies, index, running, queued, repeat, fgRun, timers>>

SlotDone ==
  /\ pc \in {"slot", "next"}
  /\ vec[<<1, index[1]>>] = << >>
  /\ running' = FALSE
  /\ timer_jiffies' = (timer_jiffies + 1) % Word
  /\ index' = Advanced({1})
  /\ vec' = Placed(vec, queued, timer_jiffies', index')
  /\ queued' = << >>
  /\ pc' = "turn"
  /\ UNCHANGED <<jiffies, cur, repeat, fgRun, timers>>

(* All ticks are caught up with; the thread waits again or ends. *)
TurnDone ==
  /\ pc \in {"tick", "turn"} /\ ~Due
  /\ pc' = IF fgRun THEN "wait" ELSE "end"
  /\ UNCHANGED <<jiffies, wheel, cur, repeat, fgRun, timers>>

(* The signal of PFU_timerExit ends the wait before its time. *)
WokenUp ==
  /\ pc = "wait" /\ ~fgRun
  /\ pc' = "end"
  /\ UNCHANGED <<jiffies, wheel, cur, repeat, fgRun, timers>>

------------------------------------------------------------------------------
(* The callback, without mutex                                                *)

Call ==
  /\ pc = "call"
  /\ IF fgRemove[cur] THEN pc' = "reuse" /\ repeat' = FALSE
     ELSE pc' = "callback" /\ UNCHANGED repeat
  /\ UNCHANGED <<jiffies, wheel, cur, fgRun, timers>>

CallbackReturns ==
  /\ pc = "callback"
  /\ repeat' \in BOOLEAN
  /\ pc' = "reuse"
  /\ UNCHANGED <<jiffies, wheel, cur, fgRun, timers>>

calculateExpireTime(n) == (jiffies + (IF n = 0 THEN 1 ELSE n)) % Word

ReuseRepeat ==
  /\ pc = "reuse" /\ repeat
  /\ expires' = [expires EXCEPT ![cur] = calculateExpireTime(msec[cur])]
  /\ pc' = "readd"
  /\ UNCHANGED <<jiffies, wheel, cur, repeat, fgRun, adding, freed, msec, fgRemove, list>>

(* A faulty variant: reuse_timer adds the timer before it unlocks mutex.   *)
Readd_locked ==
  /\ pc = "readd" /\ ~running
  /\ internal_add_timer(cur)
  /\ cur' = None
  /\ repeat' = FALSE
  /\ pc' = "next"
  /\ UNCHANGED <<jiffies, timer_jiffies, index, running, fgRun, timers>>

(* add_timer of the timer that repeats; mutex was free in between. *)
Readd ==
  /\ pc = "readd"
  /\ internal_add_timer(cur)
  /\ cur' = None
  /\ repeat' = FALSE
  /\ pc' = "next"
  /\ UNCHANGED <<jiffies, timer_jiffies, index, running, fgRun, timers>>

(* fgRemove is read again, under mutex: a timer deleted in the meantime    *)
(* stays on timerListsRoot although it is freed.  What the freed memory    *)
(* holds is of no account.                                                 *)
ReuseDone ==
  /\ pc = "reuse" /\ ~repeat
  /\ list' = IF fgRemove[cur] THEN list ELSE list_del(list, cur)
  /\ freed' = freed \cup {cur}
  /\ expires' = [expires EXCEPT ![cur] = 0]
  /\ msec' = [msec EXCEPT ![cur] = 0]
  /\ cur' = None
  /\ pc' = "next"
  /\ UNCHANGED <<jiffies, wheel, repeat, fgRun, adding, fgRemove>>

------------------------------------------------------------------------------
(* The calls of other threads, and of the callbacks                           *)

(* allocTimerItem: the expiry is counted from now on, without mutex. *)
Alloc(t) ==
  /\ adding[t] = "none"
  /\ adding' = [adding EXCEPT ![t] = "alloc"]
  /\ \E n \in Periods[t] :
       /\ msec' = [msec EXCEPT ![t] = n]
       /\ expires' = [expires EXCEPT ![t] = calculateExpireTime(n)]
  /\ UNCHANGED <<jiffies, wheel, pc, cur, repeat, fgRun, freed, fgRemove, list>>

ListTimer(t) ==
  /\ Unlocked
  /\ adding[t] = "alloc"
  /\ adding' = [adding EXCEPT ![t] = "listed"]
  /\ list' = list_add(list, t, Root)
  /\ UNCHANGED <<jiffies, wheel, pc, cur, repeat, fgRun, freed, expires, msec, fgRemove>>

AddTimer(t) ==
  /\ Unlocked
  /\ adding[t] = "listed"
  /\ adding' = [adding EXCEPT ![t] = "added"]
  /\ internal_add_timer(t)
  /\ UNCHANGED <<jiffies, timer_jiffies, index, running, pc, cur, repeat, fgRun,
                 freed, expires, msec, fgRemove, list>>

(* The timers that are found by their key. *)
Listed == list_for_each(list, Root, Cardinality(Timer) + 1)

(* Their keys are known once PFU_timerAdd has returned. *)
Found(t) ==
  /\ Unlocked
  /\ adding[t] = "added"
  /\ t \in Listed

PFU_timerDelete(t) ==
  /\ Found(t)
  /\ fgRemove' = [fgRemove EXCEPT ![t] = TRUE]
  /\ UNCHANGED <<jiffies, wheel, pc, cur, repeat, fgRun, adding, freed, expires, msec, list>>

(* The period that comes next; from the callback, as in timerFuncMinute, or *)
(* from another thread.  A callback that runs before PFU_timerAdd has       *)
(* returned has no key yet.                                                 *)
PFU_timerSetMsec(t) ==
  /\ Found(t)
  /\ \E n \in Periods[t] : msec' = [msec EXCEPT ![t] = n]
  /\ UNCHANGED <<jiffies, wheel, pc, cur, repeat, fgRun, adding, freed, expires, fgRemove, list>>

PFU_timerExit ==
  /\ Unlocked
  /\ jiffies \in ExitAt
  /\ fgRun' = FALSE
  /\ UNCHANGED <<jiffies, wheel, pc, cur, repeat, timers>>

Thread ==
  \/ Cascade \/ DetachTimer \/ SlotDone \/ TurnDone \/ WokenUp
  \/ Call \/ CallbackReturns \/ ReuseRepeat \/ Readd \/ ReuseDone

Caller ==
  \/ \E t \in Timer : \/ Alloc(t) \/ ListTimer(t) \/ AddTimer(t)
                      \/ PFU_timerDelete(t) \/ PFU_timerSetMsec(t)
  \/ PFU_timerExit

Next == Thread \/ Tick \/ Caller

Spec == Init /\ [][Next]_vars

(* The threads are scheduled, and a wait times out; callbacks return. *)
Fairness ==
  /\ WF_vars(Thread) /\ WF_vars(Tick)
  /\ \A t \in Timer : WF_vars(ListTimer(t) \/ AddTimer(t))

FairSpec == Spec /\ Fairness
------------------------------------------------------------------------------
(* Properties                                                                 *)

TypeOK ==
  /\ {jiffies, timer_jiffies} \subseteq 0..(Word - 1)
  /\ index \in [1..5 -> Nat]
  /\ \A n \in 1..5 : index[n] < Size(n)
  /\ vec \in [Slots -> Seq(Timer)]
  /\ queued \in Seq(Timer)
  /\ running <=> pc \in {"slot", "call", "callback", "reuse", "readd", "next"}
  /\ cur \in Timer <=> pc \in {"call", "callback", "reuse", "readd"}
  /\ {running, repeat, fgRun} \subseteq BOOLEAN
  /\ adding \in [Timer -> {"none", "alloc", "listed", "added"}]
  /\ freed \subseteq Timer
  /\ expires \in [Timer -> 0..(Word - 1)]
  /\ msec \in [Timer -> Nat]
  /\ \A t \in Timer : msec[t] \in Periods[t] \cup {0}
  /\ fgRemove \in [Timer -> BOOLEAN]

Queued(t) == \E i \in DOMAIN queued : queued[i] = t

(* All places where the thread will come across a timer. *)
Places(t) ==
  {s \in Slots : \E i \in DOMAIN vec[s] : vec[s][i] = t}
    \cup (IF Queued(t) THEN {<<"queued">>} ELSE {})
    \cup (IF cur = t THEN {<<"cur">>} ELSE {})

(* No timer is lost or doubled when levels cascade, callbacks run and      *)
(* timers are added meanwhile: until it is freed, an added timer is in     *)
(* exactly one place, and a freed one is in none.                          *)
OnePlace ==
  \A t \in Timer :
    IF adding[t] = "added" /\ t \notin freed
    THEN \E p \in Places(t) : Places(t) = {p}
    ELSE Places(t) = {}

(* timerListsRoot and the entries of the timers are linked properly; every *)
(* timer that was listed and lives is found by its key.  Whatever else is  *)
(* found is a deleted timer: reuse_timer frees it and leaves it listed, so *)
(* that no list operation may follow, which holds for the one timer of     *)
(* svc.action, deleted in timerExit.                                       *)
ListedAlive ==
  LET living == {t \in Timer : adding[t] \in {"listed", "added"} /\ t \notin freed}
      stale == {t \in freed : fgRemove[t]}
  IN  /\ Linked(list, Listed \cup {Root})
      /\ Listed = living \cup stale

(* The ticks a timer in the wheel has to wait. *)
Left(t) ==
  LET n == Minus(expires[t], timer_jiffies)
      past == Negative(n)
  IN  IF adding[t] # "added" \/ t \in freed \/ cur = t THEN None
      ELSE IF Queued(t)
      THEN (IF past \/ n = 0 THEN 1 ELSE n)
      ELSE (IF past THEN 0 ELSE n)

Phase ==
  CASE pc = "call" -> "due" [] pc = "callback" -> "rings"
    [] pc \in {"reuse", "readd"} -> "over" [] OTHER -> "idle"

Ringing == INSTANCE Alarms WITH
  MaxLeft <- Sign,
  left <- [t \in Timer |-> Left(t)],
  current <- cur,
  phase <- Phase,
  cancelled <- {t \in Timer : fgRemove[t]}

(* Every timer rings in the tick it is set for: the wheel implements       *)
(* Alarms, whatever is added, deleted or set anew while it turns, and also *)
(* where the words wrap around.                                            *)
RingsOnTime == Ringing!Spec

(* While the thread waits it is neither behind nor ahead of the time, so   *)
(* that the tick a timer rings in is the one its expiry names.             *)
CaughtUp ==
  pc = "wait" => (jiffies + 1) % Word = timer_jiffies \/ (jiffies = 0 /\ timer_jiffies = 0)

(* A timer that was added rings, or is deleted, unless the timers end. *)
Rings ==
  \A t \in Timer :
    (adding[t] = "added" /\ cur # t /\ t \notin freed)
      ~> (cur = t \/ fgRemove[t] \/ ~fgRun)
=============================================================================
