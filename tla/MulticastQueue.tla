--------------------------- MODULE MulticastQueue ---------------------------
(***************************************************************************)
(* What the VMQ driver promises its users: a queue of messages in which    *)
(* whatever a producer publishes reaches every consumer subscribed at that *)
(* moment, in the same order for all of them, unmodified until the         *)
(* consumer gives it back.  Lossy admits what the code does when the       *)
(* kernel cannot allocate a queue item: a consumer misses a message.       *)
(***************************************************************************)
EXTENDS Integers, Sequences

CONSTANTS Consumers, Msg, None, Lossy

VARIABLES
  sub,      \* the consumers subscribed
  queue,    \* the messages each consumer has still to take
  taken     \* the message a consumer has taken and not given back, or None

vars == <<sub, queue, taken>>

Init ==
  /\ sub \in SUBSET Consumers
  /\ queue = [c \in Consumers |-> << >>]
  /\ taken = [c \in Consumers |-> None]

Subscribe(c) ==
  /\ c \notin sub
  /\ sub' = sub \cup {c}
  /\ UNCHANGED <<queue, taken>>

Publish(m) ==
  /\ queue' = [c \in Consumers |->
                 IF c \in sub THEN Append(queue[c], m) ELSE queue[c]]
  /\ UNCHANGED <<sub, taken>>

Take(c) ==
  /\ taken[c] = None
  /\ queue[c] # << >>
  /\ taken' = [taken EXCEPT ![c] = Head(queue[c])]
  /\ queue' = [queue EXCEPT ![c] = Tail(@)]
  /\ UNCHANGED sub

GiveBack(c) ==
  /\ taken[c] # None
  /\ taken' = [taken EXCEPT ![c] = None]
  /\ UNCHANGED <<sub, queue>>

Leave(c) ==
  /\ c \in sub
  /\ sub' = sub \ {c}
  /\ queue' = [queue EXCEPT ![c] = << >>]
  /\ taken' = [taken EXCEPT ![c] = None]

(* A consumer misses the message published last. *)
Miss(c) ==
  /\ Lossy
  /\ queue[c] # << >>
  /\ queue' = [queue EXCEPT ![c] = SubSeq(@, 1, Len(@) - 1)]
  /\ UNCHANGED <<sub, taken>>

Next ==
  \/ \E m \in Msg : Publish(m)
  \/ \E c \in Consumers :
       Subscribe(c) \/ Take(c) \/ GiveBack(c) \/ Leave(c) \/ Miss(c)

Spec == Init /\ [][Next]_vars
=============================================================================
