--------------------------- MODULE BlockAllocator ---------------------------
(***************************************************************************)
(* What ba_alloc and ba_free promise the queue: an allocation hands out a  *)
(* block none of whose pages is in use, and only a block that is handed    *)
(* out is freed.  Vmq respects it (no double free), Balloc implements it.  *)
(***************************************************************************)
EXTENDS Blocks

VARIABLE live       \* the blocks handed out

Init == live = {}

Alloc == \E r \in Request : \E b \in Candidates(r, live) : live' = live \cup {b}

(* Several blocks go at once when a consumer closes its file. *)
Free == \E gone \in (SUBSET live) \ {{}} : live' = live \ gone

Next == Alloc \/ Free

Spec == Init /\ [][Next]_live
=============================================================================
