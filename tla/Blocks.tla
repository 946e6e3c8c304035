------------------------------- MODULE Blocks -------------------------------
(***************************************************************************)
(* The geometry of the shared memory of a queue: the blocks the buddy      *)
(* allocator of drivers/vmq/balloc.c can hand out, the pages each covers,  *)
(* and the blocks that can serve a request.  MCVmq and Balloc give it   *)
(* the real geometry; Vmq is proved for every geometry.                    *)
(***************************************************************************)
CONSTANTS
  Page,       \* pages of the segment
  Block,      \* blocks of pages the allocator can hand out
  PagesOf,    \* the pages a block covers
  Request,    \* sizes a producer may ask for
  BlocksFor   \* the blocks whose order is ba_order(request)

ASSUME BlocksAssumption ==
  /\ PagesOf \in [Block -> (SUBSET Page) \ {{}}]
  /\ BlocksFor \in [Request -> SUBSET Block]

Overlap(a, b) == PagesOf[a] \cap PagesOf[b] # {}

(* What ba_alloc may return for r while the blocks of `live' are handed    *)
(* out: a block of the right order none of whose pages is in use.  An      *)
(* empty set is the failure that returns -1.                               *)
Candidates(r, live) ==
  {b \in BlocksFor[r] : \A l \in live : ~Overlap(b, l)}
=============================================================================
