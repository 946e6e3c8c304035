--------------------------- MODULE BuddyGeometry ---------------------------
(***************************************************************************)
(* The blocks of a segment of NPages pages: 2^k pages that start at a      *)
(* multiple of 2^k (the buddy index is computed by XOR with the size).     *)
(***************************************************************************)
EXTENDS Powers

CONSTANTS
  NPages,     \* ba->nr_pages
  MaxOrder    \* ba->max_order

ASSUME GeometryAssumption == NPages \in Nat \ {0} /\ MaxOrder \in Nat

Pages == 0 .. NPages - 1
Orders == 0 .. MaxOrder

(* A block is the pair of its first page and its order. *)
BuddyBlocks ==
  {b \in Pages \X Orders :
     b[1] % Pow2[b[2]] = 0 /\ b[1] + Pow2[b[2]] <= NPages}

BuddyPages == [b \in BuddyBlocks |-> b[1] .. b[1] + Pow2[b[2]] - 1]

(* Requests are told apart by their order only. *)
BlocksOfOrder == [k \in Orders |-> {b \in BuddyBlocks : b[2] = k}]
=============================================================================
