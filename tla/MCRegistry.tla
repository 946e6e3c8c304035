----------------------------- MODULE MCRegistry -----------------------------
(* Three threads, two names: whatever the callers need not keep apart may  *)
(* overlap.                                                                *)
EXTENDS Registry, TLC

CONSTANTS t1, t2, t3, a, b, s1, s2, s3, m1, m2

Symmetric ==
  Permutations({t1, t2, t3}) \cup Permutations({a, b})
    \cup Permutations({s1, s2, s3}) \cup Permutations({m1, m2})
=============================================================================
