---------------------------- MODULE MCWatchdog ----------------------------
(* svc registers for a restart, as svc.service does, main for a reboot, as  *)
(* svc.config does.                                                         *)
EXTENDS Watchdog, TLC

CONSTANTS svc, main, p1, p2, p3, p4

Registered == [n \in Name |-> IF n = svc THEN "RESTART" ELSE "REBOOT"]

Interchangeable == Permutations(Pid)
=============================================================================
