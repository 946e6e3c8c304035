------------------------------- MODULE Powers -------------------------------
(***************************************************************************)
(* 1 << k of the C sources.                                                *)
(***************************************************************************)
EXTENDS Integers

Pow2[k \in Nat] == IF k = 0 THEN 1 ELSE 2 * Pow2[k - 1]
=============================================================================
