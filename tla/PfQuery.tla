------------------------------ MODULE PfQuery ------------------------------
(***************************************************************************)
(* Requests with a reply over the event queue (lib/pfquery/pfquery.c) in   *)
(* one process: threads put a request and wait for the event thread to     *)
(* hand them the reply that carries their key.  The sections of `lock' are *)
(* one step each; what runs outside it is a step of its own.               *)
(* inbox is q.event as the event thread sees it: a process gets its own    *)
(* requests back, and replies come late, twice or never.                   *)
(***************************************************************************)
EXTENDS Integers, Sequences, FiniteSets

CONSTANTS
  Thread,       \* the threads that call PFQueryWaitReplyWithPutBuffer
  Keys,         \* bound: how many keys VMQ_GETKEY hands out, 1 .. Keys
  WaitSteps,    \* timeout * DEF_TS_STEP_COUNT, timeout = 0 is a day
  MaxReplies,   \* bound: replies a service sends to one request
  None

ASSUME QueryAssumption ==
  /\ IsFiniteSet(Thread)
  /\ Keys \in Nat /\ MaxReplies \in Nat
  /\ WaitSteps \in Nat \ {0} /\ WaitSteps % 4 = 0

Key == 1 .. Keys
Message == [kind : {"request", "reply"}, key : Key]

ASSUME NoneAssumption == None \notin Key \cup {0, -1} \cup Message

VARIABLES
  nextKey,    \* unique_key of the driver
  pc, key, waitCount, pReply,   \* a thread and its item
  waitL,      \* waitLRoot: the threads whose item is listed
  signalled,  \* the threads whose cond has been signalled in their wait
  inbox,      \* the events the event thread has still to take
  replies,    \* how many replies were sent for a key
  event,      \* the event that passed the unlocked test of the list, or None
  answered,   \* keys for which PFQueryReplyProcess returned 1
  passedOn,   \* events it returned 0 for: the service handles them
  outcome     \* what the query with that key returned: 0, -1, or None

tvars == <<pc, key, waitCount, pReply>>
evars == <<event, answered, passedOn>>
vars == <<nextKey, tvars, waitL, signalled, inbox, replies, evars, outcome>>

Init ==
  /\ nextKey = 1
  /\ pc = [t \in Thread |-> "idle"] /\ key = [t \in Thread |-> None]
  /\ waitCount = [t \in Thread |-> 0] /\ pReply = [t \in Thread |-> None]
  /\ waitL = {} /\ signalled = {}
  /\ inbox = << >> /\ replies = [k \in Key |-> 0]
  /\ event = None /\ answered = {} /\ passedOn = {}
  /\ outcome = [k \in Key |-> None]

Goto(t, label) == pc' = [pc EXCEPT ![t] = label]

----------------------------------------------------------------------------
(* PFQueryWaitReplyWithPutBuffer *)

Listed_forgotten(t) == UNCHANGED waitL
Listed(t) == waitL' = waitL \cup {t}

AddItem(t) ==
  /\ pc[t] = "idle" /\ nextKey \in Key
  /\ key' = [key EXCEPT ![t] = nextKey]
  /\ nextKey' = nextKey + 1
  /\ pReply' = [pReply EXCEPT ![t] = None]
  /\ waitCount' = [waitCount EXCEPT ![t] = WaitSteps]
  /\ Listed(t)
  /\ Goto(t, "put")
  /\ UNCHANGED <<signalled, inbox, replies, evars, outcome>>

PutRequest(t) ==
  /\ pc[t] = "put"
  /\ inbox' = Append(inbox, [kind |-> "request", key |-> key[t]])
  /\ Goto(t, "loop")
  /\ UNCHANGED <<nextKey, key, waitCount, pReply, waitL, signalled, replies,
                 evars, outcome>>

(* The head of the loop, up to the wait: --waitCount != 0.  A reply that   *)
(* is already there is not looked at before the wait.                      *)
CountDown_never(t) == UNCHANGED waitCount
CountDown(t) == waitCount' = [waitCount EXCEPT ![t] = @ - 1]

MoreWaits_postfix(t) == waitCount[t] # 0
MoreWaits(t) == waitCount[t] - 1 # 0

WaitOnce(t) ==
  /\ pc[t] = "loop"
  /\ CountDown(t)
  /\ Goto(t, IF MoreWaits(t) THEN "wait" ELSE "unlist")
  /\ UNCHANGED <<nextKey, key, pReply, waitL, signalled, inbox, replies,
                 evars, outcome>>

(* The wait ends by a signal, or after a quarter of a second (or for no    *)
(* reason at all): both look the same to the thread.                       *)
WaitEnds(t) ==
  /\ pc[t] = "wait"
  /\ signalled' = signalled \ {t}
  /\ Goto(t, IF pReply[t] # None THEN "unlist" ELSE "loop")
  /\ UNCHANGED <<nextKey, key, waitCount, pReply, waitL, inbox, replies,
                 evars, outcome>>

RemoveItem(t) ==
  /\ pc[t] = "unlist"
  /\ waitL' = waitL \ {t}
  /\ Goto(t, "return")
  /\ UNCHANGED <<nextKey, key, waitCount, pReply, signalled, inbox, replies,
                 evars, outcome>>

(* The reply is read with no lock, after the item is off the list. *)
Outcome_byCount(t) == IF waitCount[t] # 0 THEN 0 ELSE -1
Outcome(t) == IF pReply[t] # None THEN 0 ELSE -1

Return(t) ==
  /\ pc[t] = "return"
  /\ outcome' = [outcome EXCEPT ![key[t]] = Outcome(t)]
  /\ key' = [key EXCEPT ![t] = None]
  /\ Goto(t, "idle")
  /\ UNCHANGED <<nextKey, waitCount, pReply, waitL, signalled, inbox, replies,
                 evars>>

----------------------------------------------------------------------------
(* PFQueryReplyProcess, in the event thread. *)

MayReply_toAnything(m) == TRUE
MayReply(m) == m.kind = "reply"

TakeEvent ==
  /\ event = None /\ inbox # << >>
  /\ inbox' = Tail(inbox)
  /\ IF MayReply(Head(inbox)) /\ waitL # {}
       THEN event' = Head(inbox) /\ UNCHANGED passedOn
       ELSE passedOn' = passedOn \cup {Head(inbox)} /\ UNCHANGED event
  /\ UNCHANGED <<nextKey, tvars, waitL, signalled, replies, answered, outcome>>

Waiting(k) == {t \in waitL : key[t] = k}

(* setReplyQueryItem under the lock; a signal is lost on a thread that is  *)
(* not in its wait.                                                        *)
SetReply ==
  /\ event # None
  /\ \/ \E t \in Waiting(event.key) :
          /\ pReply' = [pReply EXCEPT ![t] = event]
          /\ signalled' = IF pc[t] = "wait" THEN signalled \cup {t} ELSE signalled
          /\ answered' = answered \cup {event.key}
          /\ UNCHANGED passedOn
     \/ /\ Waiting(event.key) = {}
        /\ passedOn' = passedOn \cup {event}
        /\ UNCHANGED <<pReply, signalled, answered>>
  /\ event' = None
  /\ UNCHANGED <<nextKey, pc, key, waitCount, waitL, inbox, replies, outcome>>

PFQueryWakeUpAll ==
  /\ waitL # {}
  /\ signalled' = signalled \cup {t \in waitL : pc[t] = "wait"}
  /\ UNCHANGED <<nextKey, tvars, waitL, inbox, replies, evars, outcome>>

(* A service answers a request it has seen, some time. *)
ServiceReplies(k) ==
  /\ k < nextKey
  /\ \A t \in Thread : ~(pc[t] = "put" /\ key[t] = k)
  /\ replies[k] < MaxReplies
  /\ replies' = [replies EXCEPT ![k] = @ + 1]
  /\ inbox' = Append(inbox, [kind |-> "reply", key |-> k])
  /\ UNCHANGED <<nextKey, tvars, waitL, signalled, evars, outcome>>

----------------------------------------------------------------------------
ThreadStep(t) ==
  \/ PutRequest(t) \/ WaitOnce(t) \/ WaitEnds(t) \/ RemoveItem(t) \/ Return(t)

Next ==
  \/ \E t \in Thread : AddItem(t) \/ ThreadStep(t)
  \/ TakeEvent \/ SetReply \/ PFQueryWakeUpAll
  \/ \E k \in Key : ServiceReplies(k)

Spec == Init /\ [][Next]_vars

(* A wait is over after a quarter of a second; nothing is assumed of the   *)
(* event thread or of the services.                                        *)
FairSpec == Spec /\ \A t \in Thread : WF_vars(ThreadStep(t))

----------------------------------------------------------------------------
TypeOK ==
  /\ nextKey \in 1 .. Keys + 1
  /\ pc \in [Thread -> {"idle", "put", "loop", "wait", "unlist", "return"}]
  /\ key \in [Thread -> Key \cup {None}]
  /\ waitCount \in [Thread -> 0 .. WaitSteps]
  /\ pReply \in [Thread -> Message \cup {None}]
  /\ waitL \subseteq Thread /\ signalled \subseteq Thread
  /\ inbox \in Seq(Message) /\ event \in Message \cup {None}
  /\ answered \subseteq Key /\ passedOn \subseteq Message
  /\ outcome \in [Key -> {0, -1, None}]

(* A reply PFQueryReplyProcess has consumed reaches the caller, even when  *)
(* it comes after the last wait: nobody else will handle it.               *)
ConsumedIsReturned ==
  \A k \in answered : outcome[k] # -1

(* A query gets a reply to its own request: not the request itself, which  *)
(* comes back through the queue with the same key, and not a late reply    *)
(* to an earlier query of the same thread.                                 *)
OwnReply ==
  \A t \in Thread : key[t] # None /\ pReply[t] # None =>
    pReply[t] = [kind |-> "reply", key |-> key[t]]

(* A reply goes to the service as an ordinary event only when its query is *)
(* over: the test of the list without the lock misses no waiter, because   *)
(* the item is listed before the request is put.                           *)
NoReplyMissed ==
  \A t \in Thread :
    pc[t] \in {"put", "loop", "wait", "unlist"} =>
      [kind |-> "reply", key |-> key[t]] \notin passedOn

(* Every query returns, whatever the services do. *)
QueryReturns == \A t \in Thread : pc[t] # "idle" ~> pc[t] = "idle"
=============================================================================
