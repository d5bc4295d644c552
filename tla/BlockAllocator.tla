--------------------------- MODULE BlockAllocator ---------------------------
(***************************************************************************)
(* What the kernel expects of its block allocator                          *)
(* (kernel/src/mm/buddy_allocator.rs), whatever its data structure is: a   *)
(* request for 2^order minimum blocks is answered with a naturally aligned *)
(* block inside the managed region that overlaps no block in use, and it   *)
(* is refused only when there is no such block.                            *)
(***************************************************************************)
EXTENDS Integers

CONSTANTS MaxOrder,   \* MAX_ORDER
          BlockSize,  \* BlockSize[k] = min_block_size << k
          Base,       \* first managed address
          Limit       \* end of the managed region (exclusive)

VARIABLES allocated,  \* the blocks handed out and not yet given back
          answer      \* the last order asked for and how it was answered

vars == <<allocated, answer>>

Orders == 0 .. MaxOrder
Addrs == Base .. (Limit - 1)
Block == [addr : Addrs, order : Orders]

\* Block b covers the addresses from b.addr up to, but not including, EndOf(b).
EndOf(b) == b.addr + BlockSize[b.order]
Disjoint(b, c) == EndOf(b) <= c.addr \/ EndOf(c) <= b.addr
Aligned(b) == b.addr % BlockSize[b.order] = 0
Inside(b) == Base <= b.addr /\ EndOf(b) <= Limit

\* b could be handed out now.
Available(b) == /\ Aligned(b) /\ Inside(b)
                /\ \A c \in allocated : Disjoint(b, c)

\* What a request for 2^k minimum blocks was answered with.
Some(k) == [order |-> k, result |-> "Some"]
None(k) == [order |-> k, result |-> "None"]
Unasked == [order |-> 0, result |-> "unset"]

Init == allocated = {} /\ answer = Unasked

Alloc(k) == \E b \in Block :
              /\ b.order = k
              /\ Available(b)
              /\ allocated' = allocated \cup {b}
              /\ answer' = Some(k)

Refuse(k) == /\ ~ \E b \in Block : b.order = k /\ Available(b)
             /\ answer' = None(k)
             /\ UNCHANGED allocated

Free(b) == /\ b \in allocated
           /\ allocated' = allocated \ {b}
           /\ UNCHANGED answer

Next == \/ \E k \in 0 .. MaxOrder + 1 : Alloc(k) \/ Refuse(k)
        \/ \E b \in allocated : Free(b)

Spec == Init /\ [][Next]_vars
=============================================================================
