------------------------------- MODULE MCVmq -------------------------------
(* Instances of Vmq on a segment of NPages pages with blocks of one page   *)
(* and of two: a large request fails when the free pages are not buddies.  *)
EXTENDS VmqProperties, BuddyGeometry, TLC

CONSTANTS p1, p2, c1, c2, c3, x, y

(* No event of the environment is withheld. *)
AllEvents == EnvEvents

(* No producer frees a buffer: nothing fails, no producer leaves. *)
QuietEvents == {"close_consumer"}

Symmetric ==
  Permutations({p1, p2}) \cup Permutations({c1, c2, c3})
    \cup Permutations({x, y})
=============================================================================
