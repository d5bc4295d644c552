--------------------------- MODULE BuddyAllocator ---------------------------
(***************************************************************************)
(* The buddy allocator of kernel/src/mm/buddy_allocator.rs: init carves    *)
(* the region into the largest naturally aligned blocks, alloc_block_order *)
(* pops a block and splits it, free_block merges it with its free buddies. *)
(* Both users of the allocator (the page allocator and the heap) call it   *)
(* with a mutex held, so one call runs at a time; a call is still several  *)
(* steps here, one per iteration of its loop.                              *)
(***************************************************************************)
EXTENDS Integers, Sequences

CONSTANTS MinBlockSize,  \* min_block_size: 4096 for pages, 32 for the heap
          MaxOrder,      \* MAX_ORDER
          BlockSize,     \* BlockSize[k] = min_block_size << k
          StartAddr,     \* the arguments of init
          EndAddr

Orders == 0 .. MaxOrder

\* init rounds the region inwards to whole minimum blocks.
Base == ((StartAddr + MinBlockSize - 1) \div MinBlockSize) * MinBlockSize
Limit == (EndAddr \div MinBlockSize) * MinBlockSize

\* A block at address 0 would be a null FreeBlock pointer, and a region
\* smaller than its rounding would make end - start wrap around.  The layout of
\* kcore/init.rs never starts at 0; BootMemory models what becomes of a pool
\* whose start lies behind its end.
ASSUME RegionAssumption ==
  /\ MinBlockSize \in Nat \ {0}
  /\ MaxOrder \in Nat
  /\ StartAddr \in Nat \ {0}
  /\ EndAddr \in Nat
  /\ Base <= Limit

ASSUME BlockSizeAssumption ==
  /\ BlockSize \in [0 .. MaxOrder -> Nat \ {0}]
  /\ BlockSize[0] = MinBlockSize
  /\ \A k \in 0 .. MaxOrder - 1 : BlockSize[k + 1] = 2 * BlockSize[k]

VARIABLES free_lists,  \* one LIFO list of block addresses per order
          allocated,   \* the blocks the callers hold
          answer,      \* the last order asked for and how it was answered
          pc,          \* the loop the call in progress is in
          cur_addr,    \* current in init, block in alloc, current_addr in free
          cur_order,   \* split_order in alloc, current_order in free
          want         \* the order alloc_block_order was asked for

vars == <<free_lists, allocated, answer, pc, cur_addr, cur_order, want>>
-----------------------------------------------------------------------------
Addrs == Base .. (Limit - 1)
Block == [addr : Addrs, order : Orders]

EndOf(b) == b.addr + BlockSize[b.order]
Disjoint(b, c) == EndOf(b) <= c.addr \/ EndOf(c) <= b.addr

Aligned(a, k) == a % BlockSize[k] = 0

\* addr ^ block_size, for an address aligned to block_size.
BuddyOf(a, k) == IF (a \div BlockSize[k]) % 2 = 0
                   THEN a + BlockSize[k]
                   ELSE a - BlockSize[k]

InList(a, k) == \E i \in DOMAIN free_lists[k] : free_lists[k][i] = a

Push(s, a) == <<a>> \o s

\* Wrong: the element is found but not taken off the list.
UnlinkNothing(s, a) == s

\* The list without its first element equal to a.
Unlink(s, a) ==
  LET i == CHOOSE j \in DOMAIN s : s[j] = a /\ \A n \in 1 .. j - 1 : s[n] # a
  IN  [j \in 1 .. Len(s) - 1 |-> IF j < i THEN s[j] ELSE s[j + 1]]

add_to_free_list(a, k) == free_lists' = [free_lists EXCEPT ![k] = Push(@, a)]
remove_from_free_list(k) == free_lists' = [free_lists EXCEPT ![k] = Tail(@)]
remove_specific_from_free_list(a, k) ==
  free_lists' = [free_lists EXCEPT ![k] = Unlink(@, a)]
-----------------------------------------------------------------------------
\* What alloc_block_order(k) answered.
Some(k) == [order |-> k, result |-> "Some"]
None(k) == [order |-> k, result |-> "None"]
Unasked == [order |-> 0, result |-> "unset"]
Answer == [order : 0 .. MaxOrder + 1, result : {"unset", "Some", "None"}]

Init == /\ free_lists = [k \in Orders |-> <<>>]
        /\ allocated = {}
        /\ answer = Unasked
        /\ pc = "carve"
        /\ cur_addr = Base
        /\ cur_order = 0
        /\ want = 0

\* init, one round of the while loop: the largest aligned block that fits.
CarveFits(a, k) == Limit - a >= BlockSize[k] /\ Aligned(a, k)

\* Wrong: only minimum blocks are carved.
CarveMinimum(a, k) == k = 0

CarveOrder(a, k) ==
  /\ k = 0 \/ CarveFits(a, k)
  /\ \A j \in k + 1 .. MaxOrder : ~ CarveFits(a, j)

\* Wrong: the last minimum block is left out.
CarveMoreStrict == cur_addr + MinBlockSize < Limit

CarveMore == cur_addr + MinBlockSize <= Limit

Carve == /\ pc = "carve"
         /\ CarveMore
         /\ \E k \in Orders : /\ CarveOrder(cur_addr, k)
                              /\ add_to_free_list(cur_addr, k)
                              /\ cur_addr' = cur_addr + BlockSize[k]
         /\ UNCHANGED <<allocated, answer, pc, cur_order, want>>

\* Wrong: the end of the region is reached and the loop goes on.
CarveForever == /\ pc = "carve"
                /\ ~ CarveMore
                /\ UNCHANGED vars

CarveDone == /\ pc = "carve"
             /\ ~ CarveMore
             /\ pc' = "idle"
             /\ UNCHANGED <<free_lists, allocated, answer, cur_addr, cur_order, want>>

\* alloc_block_order(k): a block of that order is at hand.
AllocExact(k) ==
  /\ pc = "idle"
  /\ k <= MaxOrder
  /\ free_lists[k] # <<>>
  /\ allocated' = allocated \cup {[addr |-> Head(free_lists[k]), order |-> k]}
  /\ answer' = Some(k)
  /\ remove_from_free_list(k)
  /\ UNCHANGED <<pc, cur_addr, cur_order, want>>

\* alloc_block_order(k): take a block of the next higher order that has one.
AllocHigher(k) ==
  /\ pc = "idle"
  /\ k <= MaxOrder
  /\ free_lists[k] = <<>>
  /\ \E h \in k + 1 .. MaxOrder :
       /\ free_lists[h] # <<>>
       /\ \A j \in k + 1 .. h - 1 : free_lists[j] = <<>>
       /\ cur_addr' = Head(free_lists[h])
       /\ cur_order' = h
       /\ remove_from_free_list(h)
  /\ want' = k
  /\ pc' = "split"
  /\ UNCHANGED <<allocated, answer>>

\* The splitting loop: the upper half goes to the list of the order below.
Split == /\ pc = "split"
         /\ cur_order > want
         /\ add_to_free_list(cur_addr + BlockSize[cur_order - 1], cur_order - 1)
         /\ cur_order' = cur_order - 1
         /\ UNCHANGED <<allocated, answer, pc, cur_addr, want>>

AllocReturn == /\ pc = "split"
               /\ cur_order = want
               /\ allocated' = allocated \cup {[addr |-> cur_addr, order |-> cur_order]}
               /\ answer' = Some(want)
               /\ pc' = "idle"
               /\ UNCHANGED <<free_lists, cur_addr, cur_order, want>>

\* Wrong: only the list of the requested order is looked at.
AllocNoneEarly(k) == /\ pc = "idle"
                     /\ k > MaxOrder \/ (k <= MaxOrder /\ free_lists[k] = <<>>)
                     /\ answer' = None(k)
                     /\ UNCHANGED <<free_lists, allocated, pc, cur_addr, cur_order, want>>

\* alloc_block_order(k) returns None: k is too large or every list is empty.
AllocNone(k) == /\ pc = "idle"
                /\ \A j \in k .. MaxOrder : free_lists[j] = <<>>
                /\ answer' = None(k)
                /\ UNCHANGED <<free_lists, allocated, pc, cur_addr, cur_order, want>>

\* free_block(b.addr, b.order), called by the owner of the block.
FreeBegin(b) == /\ pc = "idle"
                /\ b \in allocated
                /\ allocated' = allocated \ {b}
                /\ cur_addr' = b.addr
                /\ cur_order' = b.order
                /\ pc' = "merge"
                /\ UNCHANGED <<free_lists, answer, want>>

CanMerge == /\ cur_order < MaxOrder
            /\ BuddyOf(cur_addr, cur_order) >= Base
            /\ BuddyOf(cur_addr, cur_order) < Limit
            /\ InList(BuddyOf(cur_addr, cur_order), cur_order)

Lower(a, b) == IF a < b THEN a ELSE b

Merge == /\ pc = "merge"
         /\ CanMerge
         /\ remove_specific_from_free_list(BuddyOf(cur_addr, cur_order), cur_order)
         /\ cur_addr' = Lower(cur_addr, BuddyOf(cur_addr, cur_order))
         /\ cur_order' = cur_order + 1
         /\ UNCHANGED <<allocated, answer, pc, want>>

FreeDone == /\ pc = "merge"
            /\ ~ CanMerge
            /\ add_to_free_list(cur_addr, cur_order)
            /\ pc' = "idle"
            /\ UNCHANGED <<allocated, answer, cur_addr, cur_order, want>>

\* The steps of a call that is under way.
Internal == Carve \/ CarveDone \/ Split \/ AllocReturn \/ Merge \/ FreeDone

\* The callers may ask for any order, one above MAX_ORDER included.
Next == \/ Internal
        \/ \E k \in 0 .. MaxOrder + 1 :
             AllocExact(k) \/ AllocHigher(k) \/ AllocNone(k)
        \/ \E b \in allocated : FreeBegin(b)

Spec == Init /\ [][Next]_vars

\* The mutex holder runs on: a call that has begun keeps taking its steps.
FairSpec == Spec /\ WF_vars(Internal)
-----------------------------------------------------------------------------
FreeBlocks == {b \in Block : InList(b.addr, b.order)}
InHand == {b \in Block : pc \in {"split", "merge"} /\ b.addr = cur_addr /\ b.order = cur_order}

\* Every variable holds a value the program could hold.
TypeOK ==
  /\ free_lists \in [Orders -> Seq(Addrs)]
  /\ allocated \subseteq Block
  /\ answer \in Answer
  /\ pc \in {"carve", "idle", "split", "merge"}
  /\ cur_addr \in Base .. Limit
  /\ cur_order \in Orders
  /\ want \in Orders
  /\ pc \in {"split", "merge"} => cur_addr < Limit
  /\ pc = "split" => want <= cur_order

Blocks == FreeBlocks \cup allocated \cup InHand

ListsDistinct == \A k \in Orders : \A i, j \in DOMAIN free_lists[k] :
                   free_lists[k][i] = free_lists[k][j] => i = j
OwnersDistinct == /\ FreeBlocks \cap allocated = {}
                  /\ InHand \cap (FreeBlocks \cup allocated) = {}
BlocksDisjoint == \A b, c \in Blocks : b # c => Disjoint(b, c)

\* No block is on a free list twice, on two lists, on a list and in use, or
\* on a list and in the hands of the call in progress, and no two blocks
\* share an address: neither a split nor a merge, nor any sequence of calls
\* of alloc_block_order and free_block, hands the same memory to two owners.
NoOverlap == ListsDistinct /\ OwnersDistinct /\ BlocksDisjoint

\* Every address init has carved belongs to a block: no call of
\* alloc_block_order or free_block loses memory.
NoLeak ==
  \A x \in Addrs :
    (pc = "carve" => x < cur_addr) => \E b \in Blocks : b.addr <= x /\ x < EndOf(b)

\* Every block is aligned to its own size and lies inside the region init was
\* given: what alloc relies on for the alignment of the pointers it returns.
AlignedInside ==
  \A b \in Blocks : Aligned(b.addr, b.order) /\ EndOf(b) <= Limit

\* Complete coalescing: free_block never leaves a block and its buddy both
\* free, and neither does init.
NoFreeBuddies ==
  \A b \in FreeBlocks :
    b.order < MaxOrder => ~ InList(BuddyOf(b.addr, b.order), b.order)

\* Between calls, an aligned stretch of memory that is entirely free lies
\* inside a single free block, so alloc_block_order finds it: fragmentation
\* inside the lists never makes it return None.
NoInternalFragmentation ==
  pc = "idle" =>
    \A b \in Block :
      (/\ Aligned(b.addr, b.order) /\ EndOf(b) <= Limit
       /\ \A c \in allocated : Disjoint(b, c))
      => \E f \in FreeBlocks : f.addr <= b.addr /\ EndOf(b) <= EndOf(f)

\* Every call returns: the carving, splitting and merging loops end.
CallsReturn == (pc # "idle") ~> (pc = "idle")

\* The buddy allocator keeps the promise of a block allocator.
Abstract == INSTANCE BlockAllocator
ImplementsBlockAllocator == Abstract!Spec
=============================================================================
