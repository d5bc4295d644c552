---------------------------- MODULE PageAllocator ----------------------------
(***************************************************************************)
(* The page allocator of kernel/src/mm/page_allocator.rs and the owning    *)
(* types of kernel/src/mm/page_table.rs (Page, PageBlock, L1Table,         *)
(* L2Table): an object is made from a block of the buddy allocator, whose  *)
(* memory its constructor zeroes, and gives the block back when dropped.   *)
(* The constructor runs inside with_page_allocator, with the mutex held,   *)
(* so alloc is one step.  The unit of addresses is one page.               *)
(***************************************************************************)
EXTENDS Integers, FiniteSets

CONSTANTS MaxOrder, BlockSize, Base, Limit,  \* as in BlockAllocator
          Kinds,      \* the object types in use, a subset of AllKinds
          BlockOrder  \* the ORDER parameter of PageBlock

AllKinds == {"Page", "PageBlock", "L1Table", "L2Table"}

PageConstants ==
  /\ MaxOrder \in Nat /\ Base \in Nat \ {0} /\ Limit \in Nat
  /\ BlockSize \in [0 .. MaxOrder -> Nat \ {0}] /\ BlockSize[0] = 1
  /\ Kinds \subseteq AllKinds /\ BlockOrder \in 0 .. MaxOrder

VARIABLES ready,      \* the OnceCell is set
          allocated,  \* the blocks taken from the buddy allocator
          answer,
          objects,    \* the live objects
          zeroed,     \* the pages whose every byte is zero
          panicked

vars == <<ready, allocated, answer, objects, zeroed, panicked>>

Buddy == INSTANCE BlockAllocator
-----------------------------------------------------------------------------
Pages(b) == b.addr .. (Buddy!EndOf(b) - 1)

\* The order alloc, alloc_block, alloc_l1_table and alloc_l2_table ask for.
AllocOrder(kind) == [Page |-> 0, PageBlock |-> BlockOrder, L1Table |-> 2, L2Table |-> 0][kind]

\* Wrong: an L2 table is dropped as if it were an L1 table.
DropOrderSwapped(kind) == [Page |-> 0, PageBlock |-> BlockOrder, L1Table |-> 0, L2Table |-> 2][kind]

\* The order each Drop passes to free_block.
DropOrder(kind) == [Page |-> 0, PageBlock |-> BlockOrder, L1Table |-> 2, L2Table |-> 0][kind]

\* Wrong: a block is zeroed as if it were a page.
ZeroedOnePage(kind) == 1

\* The pages each constructor writes zeroes to: PAGE_SIZE << ORDER bytes, and
\* PAGE_SIZE << 1 for an L1 table.
ZeroedPages(kind) == [Page |-> 1, PageBlock |-> BlockSize[BlockOrder], L1Table |-> 2, L2Table |-> 1][kind]

Init == /\ ready = FALSE
        /\ allocated = {} /\ answer = Buddy!Unasked
        /\ objects = {} /\ zeroed = {}
        /\ panicked = FALSE

\* PageAllocator::init; a second call panics after it has run buddy.init.
init == /\ ~ panicked
        /\ \/ ~ ready /\ ready' = TRUE /\ UNCHANGED <<zeroed, panicked>>
           \/ ready /\ panicked' = TRUE /\ zeroed' = {} /\ UNCHANGED ready
        /\ UNCHANGED <<allocated, answer, objects>>

\* alloc, alloc_block, alloc_l1_table or alloc_l2_table gives an object of
\* this kind: the buddy allocator has a block and the constructor zeroes it.
alloc(kind) ==
  /\ ~ panicked /\ ready
  /\ \E b \in Buddy!Block :
       /\ b.order = AllocOrder(kind) /\ Buddy!Available(b)
       /\ allocated' = allocated \cup {b}
       /\ objects' = objects \cup {[kind |-> kind, addr |-> b.addr, used |-> FALSE]}
       /\ zeroed' = zeroed \cup b.addr .. (b.addr + ZeroedPages(kind) - 1)
  /\ answer' = Buddy!Some(AllocOrder(kind))
  /\ UNCHANGED <<ready, panicked>>

alloc_none(kind) ==
  /\ ~ panicked /\ ready
  /\ ~ \E b \in Buddy!Block : b.order = AllocOrder(kind) /\ Buddy!Available(b)
  /\ answer' = Buddy!None(AllocOrder(kind))
  /\ UNCHANGED <<ready, allocated, objects, zeroed, panicked>>

\* with_page_allocator before init.
alloc_early == /\ ~ panicked /\ ~ ready
               /\ panicked' = TRUE
               /\ UNCHANGED <<ready, allocated, answer, objects, zeroed>>

Extent(o) == [addr |-> o.addr, order |-> AllocOrder(o.kind)]

\* The owner fills its memory (set_entry, a stack in use).
use(o) == /\ ~ panicked
          /\ objects' = (objects \ {o}) \cup {[o EXCEPT !.used = TRUE]}
          /\ zeroed' = zeroed \ Pages(Extent(o))
          /\ UNCHANGED <<ready, allocated, answer, panicked>>

\* Drop: free_block, which writes free-list links into the memory it gets.
drop(o) == /\ ~ panicked
           /\ objects' = objects \ {o}
           /\ allocated' = allocated \ {[addr |-> o.addr, order |-> DropOrder(o.kind)]}
           /\ zeroed' = zeroed \ Pages(Extent(o))
           /\ UNCHANGED <<ready, answer, panicked>>

Halted == panicked /\ UNCHANGED vars

Next == \/ init \/ alloc_early \/ Halted
        \/ \E kind \in Kinds : alloc(kind) \/ alloc_none(kind)
        \/ \E o \in objects : use(o) \/ drop(o)

Spec == Init /\ [][Next]_vars
-----------------------------------------------------------------------------
\* The live objects own disjoint memory and the buddy allocator has out
\* exactly the blocks they were made from: every type is dropped with the
\* order it was allocated with.
DropReturnsWhatAllocTook ==
  /\ allocated = {Extent(o) : o \in objects}
  /\ \A o, q \in objects : Extent(o) # Extent(q) => Pages(Extent(o)) \cap Pages(Extent(q)) = {}
  /\ Cardinality(allocated) = Cardinality(objects)

\* A new page, page block or L2 table that nobody has written to yet is all
\* zero, whatever its memory was used for before and whoever dropped it.  An L1
\* table is not: its constructor zeroes the first half of the block.
FreshIsZero ==
  ~ panicked => \A o \in objects : ~ o.used /\ o.kind # "L1Table" => Pages(Extent(o)) \subseteq zeroed
=============================================================================
