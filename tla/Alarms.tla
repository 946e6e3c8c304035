------------------------------- MODULE Alarms -------------------------------
(***************************************************************************)
(* What the timers of lib/util promise: a timer rings when exactly as many *)
(* ticks have passed as it was set for, not in an earlier tick and not in  *)
(* a later one, once for every time it was set, and not any more once it   *)
(* has been cancelled.                                                     *)
(***************************************************************************)
EXTENDS Integers

CONSTANTS Timer, None, MaxLeft

VARIABLES
  left,        \* ticks until a timer rings, or None when it is not set
  current,     \* the timer whose turn it is, or None
  phase,       \* "due", "rings" or "over" of that timer, "idle" without one
  cancelled

vars == <<left, current, phase, cancelled>>

Init ==
  /\ left = [t \in Timer |-> None]
  /\ current = None
  /\ phase = "idle"
  /\ cancelled = {}

(* A timer is set, for the tick to come (0) or a later one. *)
Set(t) ==
  /\ left[t] = None
  /\ current # t
  /\ \E n \in 0..MaxLeft : left' = [left EXCEPT ![t] = n]
  /\ UNCHANGED <<current, phase, cancelled>>

Cancel(t) ==
  /\ cancelled' = cancelled \cup {t}
  /\ UNCHANGED <<left, current, phase>>

(* The next tick comes when no timer of this one is left. *)
Tick ==
  /\ phase = "idle"
  /\ \A t \in Timer : left[t] # 0
  /\ left' = [t \in Timer |-> IF left[t] = None THEN None ELSE left[t] - 1]
  /\ UNCHANGED <<current, phase, cancelled>>

Elapse(t) ==
  /\ phase = "idle"
  /\ left[t] = 0
  /\ left' = [left EXCEPT ![t] = None]
  /\ current' = t
  /\ phase' = "due"
  /\ UNCHANGED cancelled

Ring ==
  /\ phase = "due"
  /\ current \notin cancelled
  /\ phase' = "rings"
  /\ UNCHANGED <<left, current, cancelled>>

(* The callback returns, or is left out for a cancelled timer. *)
Over ==
  /\ \/ phase = "rings"
     \/ phase = "due" /\ current \in cancelled
  /\ phase' = "over"
  /\ UNCHANGED <<left, current, cancelled>>

(* A timer whose turn is over is set again, for a later tick, or ends. *)
Finish ==
  /\ phase = "over"
  /\ \E n \in {None} \cup 1..MaxLeft : left' = [left EXCEPT ![current] = n]
  /\ current' = None
  /\ phase' = "idle"
  /\ UNCHANGED cancelled

Next ==
  \/ \E t \in Timer : Set(t) \/ Cancel(t) \/ Elapse(t)
  \/ Tick \/ Ring \/ Over \/ Finish

Spec == Init /\ [][Next]_vars
=============================================================================
