------------------------------- MODULE Balloc -------------------------------
(***************************************************************************)
(* The buddy allocator of drivers/vmq/balloc.c (and of its user space twin *)
(* drivers/vmq/algorithm/balloc.c): one bitmap entry per page, meaningful  *)
(* at the first page of a block and stale elsewhere.  Every operation runs *)
(* under mgr->ba_mutex (alloc_shared_memory, free_shared_memory).          *)
(*                                                                         *)
(* ba_free looks at bitmap[buddy] without checking that buddy < nr_pages:  *)
(* the block that has no buddy reads memory of somebody else.  With        *)
(* Garbage = TRUE that memory may look like a free block of any order.     *)
(***************************************************************************)
EXTENDS BuddyGeometry, FiniteSets

CONSTANTS
  Garbage,    \* what lies past the bitmap may look like a free entry
  MaxLevel    \* bound on the order a block without buddy can grow to

ASSUME BallocAssumption ==
  /\ Garbage \in BOOLEAN
  /\ MaxLevel \in Nat /\ MaxLevel > MaxOrder

(* max_order is ba_order(size), and a foreign entry is never looked at in a *)
(* way that matters when the size is a power of two.                       *)
ASSUME SizeAssumption ==
  /\ MaxOrder <= 30 /\ NPages <= Pow2[MaxOrder]
  /\ Garbage => NPages = Pow2[MaxOrder]

VARIABLES
  order,      \* bitmap[i].order
  busy        \* the pages i with bitmap[i].allocated

bitmap == <<order, busy>>

Levels == 0 .. MaxLevel

Largest(S) == CHOOSE x \in S : \A y \in S : y <= x
Least(S) == CHOOSE x \in S : \A y \in S : x <= y

(* i ^ (1 << k): the bit is set when i is the upper block of its pair. *)
Upper(i, k) == (i \div Pow2[k]) % 2 = 1
Xor(i, k) == IF Upper(i, k) THEN i - Pow2[k] ELSE i + Pow2[k]

(* ba_order, of a length in pages. *)
ba_order(len) == Least({k \in 0 .. 30 : len - 1 < Pow2[k]})

(* ba_create: one block for each bit of nr_pages, largest first. *)
ba_create ==
  /\ order = [i \in Pages |->
       LET bits == {k \in Orders : /\ (NPages \div Pow2[k]) % 2 = 1
                                   /\ i = NPages - (NPages % Pow2[k + 1])}
       IN  IF bits = {} THEN 0 ELSE Least(bits)]
  /\ busy = {}

(* The entries a walk by BA_NEXT_INDEX visits: the blocks. *)
Heads ==
  LET visited[i \in Pages] ==
        i = 0 \/ \E j \in 0 .. i - 1 : visited[j] /\ j + Pow2[order[j]] = i
  IN  {i \in Pages : visited[i]}

FreeHeads(k) == {i \in Heads \ busy : order[i] >= k}

(* The first of the smallest blocks that are large enough. *)
Best(k) ==
  CHOOSE i \in FreeHeads(k) : \A j \in FreeHeads(k) :
    order[i] < order[j] \/ (order[i] = order[j] /\ i <= j)

(* Halve the block at `best' down to order k: each upper half that is cut  *)
(* off becomes a free block.  An entry past the bitmap is not ours.        *)
Split_lowerOnly(best, k) == [order EXCEPT ![best] = k]
Split(best, k) ==
  [i \in Pages |->
     IF i = best THEN k
     ELSE LET cut == {j \in k .. order[best] - 1 : i = Xor(best, j)}
          IN  IF cut = {} THEN order[i] ELSE Least(cut)]

ba_alloc(len) ==
  LET k == ba_order(len)
  IN  /\ k <= MaxOrder /\ FreeHeads(k) # {}
      /\ order' = Split(Best(k), k)
      /\ busy' = busy \cup {Best(k)}

(* The block that starts at or below i after merges up to order k. *)
StartAt(i, k) == i - (i % Pow2[k])

(* The orders at which the buddy index is past the bitmap. *)
NoBuddy(i) == {k \in Levels : Xor(StartAt(i, k), k) >= NPages}

(* Merging goes on at order k: the buddy is free and as large.  lies are   *)
(* the orders at which foreign memory looks like that.                     *)
Merges_ignoreOrder(i, k, lies) ==
  LET buddy == Xor(StartAt(i, k), k)
  IN  IF buddy < NPages THEN buddy \notin busy ELSE k \in lies
Merges_never(i, k, lies) == FALSE
Merges(i, k, lies) ==
  LET buddy == Xor(StartAt(i, k), k)
  IN  IF buddy < NPages THEN buddy \notin busy /\ order[buddy] = k
                        ELSE k \in lies

(* The loop of ba_free: at each order it merges, the entries of the block  *)
(* and of its buddy both go one order up.                                  *)
ba_free(i, lies) ==
  LET first == order[i]
      last == Least({k \in first .. MaxLevel :
                       k = MaxLevel \/ ~Merges(i, k, lies)})
      raised(x) == {k \in first .. last - 1 :
                      x \in {StartAt(i, k), Xor(StartAt(i, k), k)}}
  IN  /\ i \in busy
      /\ busy' = busy \ {i}
      /\ order' = [x \in Pages |->
           IF raised(x) = {} THEN order[x] ELSE Largest(raised(x)) + 1]

(* The driver frees only what it got (ReferencesAlive of Vmq). *)
BallocNext ==
  \/ \E len \in 1 .. NPages : ba_alloc(len)
  \/ \E i \in busy :
       \E lies \in (IF Garbage THEN SUBSET NoBuddy(i) ELSE {{}}) : ba_free(i, lies)

BallocSpec == ba_create /\ [][BallocNext]_bitmap

----------------------------------------------------------------------------

(* Types, and the index arithmetic of the buddies: every allocated entry   *)
(* starts a block, and every block starts at a multiple of its size, so    *)
(* that the index computed by XOR is the other half of a pair.             *)
Shape ==
  /\ order \in [Pages -> Levels]
  /\ busy \subseteq Heads
  /\ \A i \in Heads : i % Pow2[order[i]] = 0

(* The block for a length holds it, and half of it would not.              *)
Fits(b, len) == len <= Pow2[b[2]] /\ Pow2[b[2]] < 2 * len

Allocator == INSTANCE BlockAllocator WITH
  Page <- Pages,
  Block <- BuddyBlocks,
  PagesOf <- BuddyPages,
  Request <- 1 .. NPages,
  BlocksFor <- [len \in 1 .. NPages |->
    {b \in BuddyBlocks : Fits(b, len)}],
  live <- {<<i, order[i]>> : i \in busy}

(* Two owners never share a page, and a block stays what it was handed out *)
(* as until it is freed, although splits and merges rewrite the entries of *)
(* other blocks.                                                           *)
AllocatesBlocks == Allocator!Spec

(* ba_alloc returns -1 only if no aligned block of the order asked for is  *)
(* free, buddies that are both free having been merged: a producer that    *)
(* sleeps for memory sleeps for a reason.                                  *)
NoFalseFailure ==
  \A len \in 1 .. NPages :
    FreeHeads(ba_order(len)) = {} =>
      Allocator!Candidates(len, {<<i, order[i]>> : i \in busy}) = {}
=============================================================================
