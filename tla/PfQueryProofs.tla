--------------------------- MODULE PfQueryProofs ----------------------------
(***************************************************************************)
(* Proofs about PfQuery: a query gets its own reply, none that came in     *)
(* time is missed, and one that was consumed is returned, for every number *)
(* of threads, keys, waits and replies.                                    *)
(***************************************************************************)
EXTENDS PfQuery, SequenceTheorems, TLAPS

Reply(k) == [kind |-> "reply", key |-> k]

\* The keys in use are different ones, given out before, and unanswered to
\* their callers; only a listed thread is between AddItem and RemoveItem.
KeyInv ==
  /\ \A t \in Thread : /\ (key[t] = None) = (pc[t] = "idle")
                       /\ (t \in waitL) = (pc[t] \in {"put", "loop", "wait", "unlist"})
                       /\ pc[t] \in {"put", "loop", "wait"} => waitCount[t] > 0
                       /\ key[t] # None => /\ key[t] < nextKey
                                           /\ outcome[key[t]] = None
  /\ \A t, u \in Thread : t # u /\ key[t] # None => key[t] # key[u]
  /\ \A k \in Key : k >= nextKey => outcome[k] = None /\ k \notin answered

\* What is under way or was passed on has a key that was given out before.
MessageInv ==
  /\ \A i \in DOMAIN inbox : inbox[i].key < nextKey
  /\ event # None => event.kind = "reply" /\ event.key < nextKey
  /\ \A m \in passedOn : m.key < nextKey

\* A consumed reply is with its thread until it is returned.
AnswerInv ==
  \A k \in answered :
    \/ \E t \in Thread : key[t] = k /\ pReply[t] # None
    \/ outcome[k] = 0 /\ \A t \in Thread : key[t] # k

IInv ==
  TypeOK /\ KeyInv /\ MessageInv /\ AnswerInv /\ OwnReply /\ NoReplyMissed

LEMMA NoneFacts ==
  /\ None \notin Key /\ None \notin Message /\ None # 0 /\ None # -1
  /\ Keys \in Nat /\ WaitSteps \in Nat \ {0}
  /\ \A k \in Key : Reply(k) \in Message
                    /\ [kind |-> "request", key |-> k] \in Message
  /\ \A k \in Key : k \in Int
  /\ \A m \in Message : m.key \in Key /\ m.kind \in {"request", "reply"}
                        /\ (m.kind = "reply" => m = Reply(m.key))
BY QueryAssumption, NoneAssumption DEF Key, Message, Reply

LEMMA SeqFacts ==
  ASSUME NEW s \in Seq(Message)
  PROVE  /\ s # << >> => /\ Head(s) \in Message /\ Tail(s) \in Seq(Message)
                         /\ 1 \in DOMAIN s /\ Head(s) = s[1]
                         /\ \A i \in DOMAIN Tail(s) :
                              i + 1 \in DOMAIN s /\ Tail(s)[i] = s[i + 1]
         /\ \A m \in Message : /\ Append(s, m) \in Seq(Message)
                               /\ \A i \in DOMAIN Append(s, m) :
                                    \/ Append(s, m)[i] = m
                                    \/ i \in DOMAIN s /\ Append(s, m)[i] = s[i]
         /\ << >> \in Seq(Message) /\ DOMAIN << >> = {}
OBVIOUS

LEMMA InitIInv == ASSUME Init PROVE IInv
<1>1. TypeOK BY NoneFacts, SeqFacts DEF Init, TypeOK, Key
<1>2. KeyInv BY NoneFacts DEF Init, KeyInv
<1>3. MessageInv /\ AnswerInv BY DEF Init, MessageInv, AnswerInv
<1>4. OwnReply /\ NoReplyMissed BY DEF Init, OwnReply, NoReplyMissed
<1> QED BY <1>1, <1>2, <1>3, <1>4 DEF IInv

------------------------------------------------------------------------------
(* The steps                                                                 *)

LEMMA AddItemKeeps ==
  ASSUME IInv, NEW t \in Thread, AddItem(t) PROVE IInv'
<1> USE NoneFacts
<1> USE DEF IInv, AddItem, Goto, Listed, evars, tvars
<1>1. TypeOK' BY DEF TypeOK, Key
<1>2. KeyInv' BY DEF TypeOK, KeyInv, Key
<1>3. MessageInv'
  <2>1. \A i \in DOMAIN inbox : inbox[i] \in Message BY DEF TypeOK
  <2>2. \A k \in Key : k < nextKey => k < nextKey' BY DEF TypeOK
  <2> QED BY <2>1, <2>2 DEF MessageInv, TypeOK
<1>4. AnswerInv'
  BY DEF TypeOK, KeyInv, AnswerInv, Key
<1>5. OwnReply' BY DEF TypeOK, OwnReply
<1>6. NoReplyMissed'
  <2>1. Reply(nextKey) \notin passedOn
    BY DEF MessageInv, TypeOK, Reply
  <2> QED BY <2>1 DEF NoReplyMissed, TypeOK, Reply
<1> QED BY <1>1, <1>2, <1>3, <1>4, <1>5, <1>6 DEF IInv

LEMMA ReturnKeeps ==
  ASSUME IInv, NEW t \in Thread, Return(t) PROVE IInv'
<1> USE NoneFacts
<1> USE DEF IInv, Return, Goto, Outcome, evars
<1>0. key[t] \in Key /\ key[t] < nextKey BY SMTT(30) DEF TypeOK, KeyInv
<1>1. TypeOK' BY <1>0 DEF TypeOK
<1>2. KeyInv' BY <1>0 DEF TypeOK, KeyInv
<1>3. MessageInv' BY DEF MessageInv
<1>4. AnswerInv'
  <2> SUFFICES ASSUME NEW k \in answered
               PROVE  \/ \E u \in Thread : key'[u] = k /\ pReply'[u] # None
                      \/ outcome'[k] = 0 /\ \A u \in Thread : key'[u] # k
    BY DEF AnswerInv
  <2>0. k \in Key BY DEF TypeOK
  <2>1. CASE key[t] = k
    <3>1. pReply[t] # None BY <2>1 DEF AnswerInv, KeyInv
    <3> QED BY <2>0, <2>1, <3>1 DEF TypeOK, KeyInv
  <2>2. CASE key[t] # k
    BY <2>0, <2>2 DEF AnswerInv, TypeOK
  <2> QED BY <2>1, <2>2
<1>5. OwnReply' BY DEF TypeOK, OwnReply
<1>6. NoReplyMissed' BY DEF TypeOK, NoReplyMissed
<1> QED BY <1>1, <1>2, <1>3, <1>4, <1>5, <1>6 DEF IInv

\* The other steps of a thread.
LEMMA ThreadKeeps ==
  ASSUME IInv, NEW t \in Thread,
         PutRequest(t) \/ WaitOnce(t) \/ WaitEnds(t) \/ RemoveItem(t)
  PROVE  IInv'
<1> USE NoneFacts
<1> USE DEF IInv, Goto, evars
<1>1. TypeOK'
  <2>1. CASE PutRequest(t)
    <3>1. key[t] \in Key BY <2>1, ZenonT(40) DEF PutRequest, TypeOK, KeyInv
    <3>2. inbox' \in Seq(Message)
      BY <2>1, <3>1, SeqFacts DEF PutRequest, TypeOK
    <3> QED BY <2>1, <3>2 DEF PutRequest, TypeOK
  <2>2. CASE WaitOnce(t)
    BY <2>2 DEF WaitOnce, CountDown, TypeOK, KeyInv
  <2>3. CASE WaitEnds(t) BY <2>3 DEF WaitEnds, TypeOK
  <2>4. CASE RemoveItem(t) BY <2>4 DEF RemoveItem, TypeOK
  <2> QED BY <2>1, <2>2, <2>3, <2>4
<1>2. KeyInv'
  <2>1. CASE PutRequest(t) BY <2>1 DEF PutRequest, TypeOK, KeyInv
  <2>2. CASE WaitOnce(t)
    BY <2>2 DEF WaitOnce, CountDown, MoreWaits, TypeOK, KeyInv
  <2>3. CASE WaitEnds(t) BY <2>3 DEF WaitEnds, TypeOK, KeyInv
  <2>4. CASE RemoveItem(t) BY <2>4 DEF RemoveItem, TypeOK, KeyInv
  <2> QED BY <2>1, <2>2, <2>3, <2>4
<1>3. MessageInv'
  <2>1. CASE PutRequest(t)
    <3>1. key[t] \in Key /\ key[t] < nextKey
      BY <2>1, ZenonT(40) DEF PutRequest, TypeOK, KeyInv
    <3>2. \A i \in DOMAIN inbox' : inbox'[i].key < nextKey
      BY <2>1, <3>1, SeqFacts DEF PutRequest, TypeOK, MessageInv
    <3> QED BY <2>1, <3>2 DEF PutRequest, MessageInv
  <2>2. CASE WaitOnce(t) \/ WaitEnds(t) \/ RemoveItem(t)
    BY <2>2 DEF WaitOnce, WaitEnds, RemoveItem, MessageInv
  <2> QED BY <2>1, <2>2
<1>4. UNCHANGED <<key, pReply, answered, outcome, passedOn>>
  BY DEF PutRequest, WaitOnce, WaitEnds, RemoveItem
<1>5. AnswerInv' /\ OwnReply' BY <1>4 DEF AnswerInv, OwnReply
<1>6. \A u \in Thread : pc'[u] \in {"put", "loop", "wait", "unlist"} =>
                          pc[u] \in {"put", "loop", "wait", "unlist"}
  BY DEF PutRequest, WaitOnce, WaitEnds, RemoveItem, TypeOK
<1>7. NoReplyMissed' BY <1>4, <1>6 DEF NoReplyMissed
<1> QED BY <1>1, <1>2, <1>3, <1>5, <1>7 DEF IInv

\* The event thread.
LEMMA TakeEventKeeps == ASSUME IInv, TakeEvent PROVE IInv'
<1> USE NoneFacts
<1> USE DEF IInv, TakeEvent, tvars
<1>0. Head(inbox) \in Message /\ Head(inbox).key < nextKey
  BY SeqFacts DEF TypeOK, MessageInv
<1>1. TypeOK' BY <1>0, SeqFacts DEF TypeOK
<1>2. KeyInv' BY DEF KeyInv
<1>3. MessageInv'
  <2>1. \A i \in DOMAIN inbox' : inbox'[i].key < nextKey
    BY SeqFacts DEF TypeOK, MessageInv
  <2> QED BY <1>0, <2>1 DEF MessageInv, MayReply
<1>4. AnswerInv' /\ OwnReply' BY DEF AnswerInv, OwnReply
<1>5. NoReplyMissed'
  <2> SUFFICES ASSUME NEW t \in Thread, t \in waitL, Reply(key[t]) \in passedOn'
               PROVE  FALSE
    BY DEF NoReplyMissed, KeyInv, Reply
  <2>1. Reply(key[t]) \notin passedOn BY DEF NoReplyMissed, KeyInv, Reply
  <2>2. Reply(key[t]).kind = "reply" BY DEF Reply
  <2> QED BY <2>1, <2>2 DEF MayReply
<1> QED BY <1>1, <1>2, <1>3, <1>4, <1>5 DEF IInv

LEMMA SetReplyKeeps == ASSUME IInv, SetReply PROVE IInv'
<1> USE NoneFacts
<1> USE DEF IInv, SetReply
<1>0. event \in Message /\ event = Reply(event.key) /\ event.key < nextKey
  BY DEF TypeOK, MessageInv
<1>1. TypeOK' BY <1>0 DEF TypeOK, Waiting
<1>2. KeyInv'
  <2>1. \A k \in answered' : k \in answered \/ k = event.key
    OBVIOUS
  <2>2. \A k \in answered' : k >= nextKey => k \in answered
    BY <1>0, <2>1 DEF TypeOK
  <2> QED BY <2>2 DEF KeyInv
<1>3. MessageInv' BY <1>0 DEF MessageInv
<1>4. CASE Waiting(event.key) = {}
  <2>1. UNCHANGED <<pReply, signalled, answered>> /\ passedOn' = passedOn \cup {event}
    BY <1>4
  <2>2. AnswerInv' /\ OwnReply' BY <2>1 DEF AnswerInv, OwnReply
  <2>3. NoReplyMissed'
    <3> SUFFICES ASSUME NEW t \in Thread, t \in waitL,
                        Reply(key[t]) \in passedOn'
                 PROVE  FALSE
      BY DEF NoReplyMissed, KeyInv, Reply
    <3>1. Reply(key[t]) \notin passedOn BY DEF NoReplyMissed, KeyInv, Reply
    <3>2. key[t] # event.key BY <1>4 DEF Waiting
    <3>3. Reply(key[t]).key = key[t] BY DEF Reply
    <3> QED BY <2>1, <3>1, <3>2, <3>3
  <2> QED BY <1>1, <1>2, <1>3, <2>2, <2>3 DEF IInv
<1>5. CASE Waiting(event.key) # {}
  <2>1. PICK t \in Waiting(event.key) :
          /\ pReply' = [pReply EXCEPT ![t] = event]
          /\ answered' = answered \cup {event.key} /\ UNCHANGED passedOn
    BY <1>5
  <2>2. t \in Thread /\ key[t] = event.key BY <2>1 DEF Waiting, TypeOK
  <2>3. OwnReply' BY <1>0, <2>1, <2>2 DEF OwnReply, TypeOK, Reply
  <2>4. pReply'[t] # None /\ \A u \in Thread : pReply[u] # None => pReply'[u] # None
    BY <1>0, <2>1, <2>2 DEF TypeOK
  <2>5. AnswerInv' BY <2>1, <2>2, <2>4 DEF AnswerInv
  <2>6. NoReplyMissed' BY <2>1 DEF NoReplyMissed
  <2> QED BY <1>1, <1>2, <1>3, <2>3, <2>5, <2>6 DEF IInv
<1> QED BY <1>4, <1>5

LEMMA ServiceRepliesKeeps ==
  ASSUME IInv, NEW k \in Key, ServiceReplies(k) PROVE IInv'
<1> USE NoneFacts
<1> USE DEF IInv, ServiceReplies, tvars, evars, Reply
<1>1. TypeOK' BY SeqFacts DEF TypeOK
<1>2. KeyInv' BY DEF KeyInv
<1>3. MessageInv'
  <2>1. \A i \in DOMAIN inbox' : inbox'[i].key < nextKey
    BY SeqFacts DEF TypeOK, MessageInv
  <2> QED BY <2>1 DEF MessageInv
<1>4. AnswerInv' /\ OwnReply' /\ NoReplyMissed'
  BY DEF AnswerInv, OwnReply, NoReplyMissed
<1> QED BY <1>1, <1>2, <1>3, <1>4 DEF IInv

LEMMA QuietKeeps ==
  ASSUME IInv, PFQueryWakeUpAll \/ UNCHANGED vars PROVE IInv'
<1> USE DEF IInv, PFQueryWakeUpAll, vars, tvars, evars
<1>1. TypeOK' BY DEF TypeOK
<1>2. KeyInv' /\ MessageInv' /\ AnswerInv' /\ OwnReply' /\ NoReplyMissed'
  BY DEF KeyInv, MessageInv, AnswerInv, OwnReply, NoReplyMissed
<1> QED BY <1>1, <1>2 DEF IInv

\* The strengthening of the three invariants below is inductive.
THEOREM Inductive == Spec => []IInv
<1>1. Init => IInv BY InitIInv
<1>2. IInv /\ [Next]_vars => IInv'
  BY AddItemKeeps, ReturnKeeps, ThreadKeeps, TakeEventKeeps, SetReplyKeeps,
     ServiceRepliesKeeps, QuietKeeps DEF Next, ThreadStep
<1> QED BY <1>1, <1>2, PTL DEF Spec

\* The types; the count of waits never goes below 0.
THEOREM TypeCorrect == Spec => []TypeOK
<1>1. IInv => TypeOK BY DEF IInv
<1> QED BY <1>1, Inductive, PTL

\* A reply PFQueryReplyProcess has consumed is never lost by a query that
\* returns without it.
THEOREM ConsumedReturned == Spec => []ConsumedIsReturned
<1>1. ASSUME IInv, NEW k \in answered PROVE outcome[k] # -1
  <2>1. CASE \E t \in Thread : key[t] = k /\ pReply[t] # None
    BY <1>1, <2>1, NoneFacts DEF IInv, KeyInv, TypeOK
  <2>2. CASE outcome[k] = 0 BY <2>2
  <2> QED BY <1>1, <2>1, <2>2 DEF IInv, AnswerInv
<1>2. IInv => ConsumedIsReturned BY <1>1 DEF ConsumedIsReturned
<1> QED BY <1>2, Inductive, PTL

\* What a query returns is the reply to its own request.
THEOREM RepliesMatch == Spec => []OwnReply
<1>1. IInv => OwnReply BY DEF IInv
<1> QED BY <1>1, Inductive, PTL

\* A reply that comes while its query waits is not handed to the service.
THEOREM NoneMissed == Spec => []NoReplyMissed
<1>1. IInv => NoReplyMissed BY DEF IInv
<1> QED BY <1>1, Inductive, PTL
=============================================================================
