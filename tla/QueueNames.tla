----------------------------- MODULE QueueNames -----------------------------
(***************************************************************************)
(* What the VMQ driver promises of its named queues: a queue is opened     *)
(* only while it exists, exists once under its name, and is removed only   *)
(* when nobody has it open.                                                *)
(***************************************************************************)
CONSTANTS Task, Name, None

VARIABLES
  queues,   \* the names of the queues that exist
  open      \* the queue a task has open, or None

vars == <<queues, open>>

Init == queues = {} /\ open = [t \in Task |-> None]

Create(n) == n \notin queues /\ queues' = queues \cup {n} /\ UNCHANGED open

Remove(n) ==
  /\ n \in queues
  /\ \A t \in Task : open[t] # n
  /\ queues' = queues \ {n}
  /\ UNCHANGED open

Open(t, n) ==
  /\ n \in queues /\ open[t] = None
  /\ open' = [open EXCEPT ![t] = n]
  /\ UNCHANGED queues

Close(t) ==
  /\ open[t] # None
  /\ open' = [open EXCEPT ![t] = None]
  /\ UNCHANGED queues

Next ==
  \/ \E n \in Name : Create(n) \/ Remove(n)
  \/ \E t \in Task : Close(t) \/ \E n \in Name : Open(t, n)

Spec == Init /\ [][Next]_vars
=============================================================================
