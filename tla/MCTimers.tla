------------------------------ MODULE MCTimers ------------------------------
(* Two timers on the smallest wheel: far needs the fourth level, near fires  *)
(* in the next tick or the one after it.                          *)
EXTENDS Timers, TLC

CONSTANTS far, near

MCTimer == {far, near}

MCPeriods == far :> {9} @@ near :> {1, 2}
=============================================================================
