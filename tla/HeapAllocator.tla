--------------------------- MODULE HeapAllocator ---------------------------
(***************************************************************************)
(* The kernel heap: the GlobalAlloc implementation of                      *)
(* kernel/src/mm/heap_allocator.rs over alloc and free of                  *)
(* kernel/src/mm/buddy_allocator.rs, which put a BlockHeader with the order *)
(* of the block in front of the memory they return.  The blocks themselves *)
(* are those of a BlockAllocator (BuddyAllocator implements it).  The unit *)
(* of addresses and sizes is the header's size, 8 bytes: header_size is    *)
(* rounded up to the alignment, which is at least that, and so are blocks. *)
(* Each call runs with the heap's mutex held and is one step; realloc      *)
(* takes the mutex twice, with the copy in between, and is two.            *)
(***************************************************************************)
EXTENDS Integers, FiniteSets

CONSTANTS MaxOrder,   \* MAX_ORDER
          BlockSize,  \* sizes of the blocks of each order, in headers
          Base,       \* the heap's region
          Limit,
          Sizes,      \* the layout sizes asked for
          Aligns,     \* the layout alignments asked for, powers of two
          Tasks,      \* the contexts that use the heap
          MaxLive     \* bound on the allocations alive at a time

\* Block sizes and alignments are powers of two: the larger is a multiple.
HeapConstants ==
  /\ MaxOrder \in Nat /\ Base \in Nat \ {0} /\ Limit \in Nat
  /\ BlockSize \in [0 .. MaxOrder -> Nat \ {0}]
  /\ Sizes \subseteq Nat /\ Aligns \subseteq Nat \ {0} /\ MaxLive \in Nat
  /\ \A k \in 0 .. MaxOrder, al \in Aligns : al <= BlockSize[k] => BlockSize[k] % al = 0

VARIABLES allocated,  \* the blocks taken from the block allocator
          answer,
          header,     \* BlockHeader.order, at the addresses where one was written
          live,       \* the allocations the tasks hold
          call,       \* the realloc in progress of each task
          astray,     \* the alignment of a free that did not give back its block, or 0
          panicked    \* alloc_error_handler was called

vars == <<allocated, answer, header, live, call, astray, panicked>>

Buddy == INSTANCE BlockAllocator
-----------------------------------------------------------------------------
NoCall == [old |-> {}, new |-> {}]

\* The align that alloc works with and the room it leaves for the header.
HeaderSize(align) == ((1 + align - 1) \div align) * align

\* The order alloc asks for: the least whose blocks hold header and memory.
OrderFor(size, align) ==
  LET total == size + HeaderSize(align)
  IN  CHOOSE k \in 0 .. MaxOrder + 1 :
        /\ k <= MaxOrder => BlockSize[k] >= total
        /\ \A j \in 0 .. k - 1 : BlockSize[j] < total

Allocation(t, b, size, align) ==
  [ptr |-> b.addr + HeaderSize(align), size |-> size, align |-> align,
   block |-> b, by |-> t]

\* BuddyAllocator::alloc found block b for task t.
TakeBlock(b) == /\ Buddy!Available(b)
                /\ allocated' = allocated \cup {b}
                /\ answer' = Buddy!Some(b.order)
                /\ header' = [a \in DOMAIN header \cup {b.addr} |->
                                IF a = b.addr THEN b.order ELSE header[a]]

Fails(size, align) ==
  \/ size = 0
  \/ ~ \E b \in Buddy!Block : b.order = OrderFor(size, align) /\ Buddy!Available(b)

\* Wrong: the header's own size is forgotten.
HeaderAddrAtPtr(p) == p.ptr

\* BuddyAllocator::free: the header is taken to be right below the pointer.
HeaderAddr(p) == p.ptr - 1

\* A word where no header was written holds whatever was there before.
OrdersRead(a) == IF a \in DOMAIN header THEN {header[a]} ELSE 0 .. MaxOrder + 1

\* Give back what lies below the pointer of p; an order that is too large is
\* turned away.
ReturnBlock(p) ==
  \E k \in OrdersRead(HeaderAddr(p)) :
    LET b == [addr |-> HeaderAddr(p), order |-> k]
    IN  /\ allocated' = IF k > MaxOrder THEN allocated ELSE allocated \ {b}
        /\ astray' = IF b = p.block THEN astray ELSE p.align
-----------------------------------------------------------------------------
Init == /\ allocated = {} /\ answer = Buddy!Unasked
        /\ header = [a \in {} |-> 0]
        /\ live = {}
        /\ call = [t \in Tasks |-> NoCall]
        /\ astray = 0 /\ panicked = FALSE

\* What the program does after a wrong free is not followed.
Sound == ~ panicked /\ astray = 0

Ready(t) == Sound /\ call[t] = NoCall

Room == Cardinality(live) < MaxLive

\* GlobalAlloc::alloc.
alloc(t, size, align) ==
  /\ Ready(t) /\ Room
  /\ ~ Fails(size, align)
  /\ \E b \in Buddy!Block : /\ b.order = OrderFor(size, align)
                            /\ TakeBlock(b)
                            /\ live' = live \cup {Allocation(t, b, size, align)}
  /\ UNCHANGED <<call, astray, panicked>>

\* Out of memory, or an empty layout: alloc_error_handler does not return.
alloc_error(t, size, align) ==
  /\ Ready(t)
  /\ Fails(size, align)
  /\ answer' = IF size = 0 THEN answer ELSE Buddy!None(OrderFor(size, align))
  /\ panicked' = TRUE
  /\ UNCHANGED <<allocated, header, live, call, astray>>

\* GlobalAlloc::dealloc of an allocation the task holds.
dealloc(t, p) ==
  /\ Ready(t)
  /\ p \in live /\ p.by = t
  /\ ReturnBlock(p)
  /\ live' = live \ {p}
  /\ UNCHANGED <<answer, header, call, panicked>>

\* Wrong: the old memory is given back before the new memory is taken.
realloc_free_first(t, p, size) ==
  /\ Ready(t) /\ Room /\ p \in live /\ p.by = t
  /\ ~ Fails(size, p.align)
  /\ \E b \in Buddy!Block :
       /\ b.order = OrderFor(size, p.align) /\ Buddy!Available(b)
       /\ allocated' = (allocated \ {p.block}) \cup {b}
       /\ LET q == Allocation(t, b, size, p.align)
          IN  /\ live' = live \cup {q}
              /\ call' = [call EXCEPT ![t] = [old |-> {p}, new |-> {q}]]
  /\ UNCHANGED <<answer, header, astray, panicked>>

\* GlobalAlloc::realloc, up to the copy: a new allocation of the same alignment.
realloc(t, p, size) ==
  /\ Ready(t) /\ Room /\ p \in live /\ p.by = t
  /\ ~ Fails(size, p.align)
  /\ \E b \in Buddy!Block :
       /\ b.order = OrderFor(size, p.align)
       /\ TakeBlock(b)
       /\ LET q == Allocation(t, b, size, p.align)
          IN  /\ live' = live \cup {q}
              /\ call' = [call EXCEPT ![t] = [old |-> {p}, new |-> {q}]]
  /\ UNCHANGED <<astray, panicked>>

\* The rest of realloc: copy, then give the old memory back.
realloc_finish(t) ==
  /\ Sound /\ call[t] # NoCall
  /\ \E p \in call[t].old : ReturnBlock(p) /\ live' = live \ {p}
  /\ call' = [call EXCEPT ![t] = NoCall]
  /\ UNCHANGED <<answer, header, panicked>>

\* The panic handler loops for ever.
Halted == ~ Sound /\ UNCHANGED vars

Next == \/ \E t \in Tasks, s \in Sizes, al \in Aligns : alloc(t, s, al) \/ alloc_error(t, s, al)
        \/ \E t \in Tasks, p \in live : dealloc(t, p)
        \/ \E t \in Tasks, p \in live, s \in Sizes : realloc(t, p, s)
        \/ \E t \in Tasks : realloc_finish(t)
        \/ Halted

Spec == Init /\ [][Next]_vars
-----------------------------------------------------------------------------
\* What alloc returns is aligned as its layout asks, and leaves the header in
\* front of it and the end of the block behind it untouched: alloc's rounding
\* of the header, and its choice of the order, are right for every layout.
UserMemoryInBlock ==
  \A p \in live : /\ p.ptr % p.align = 0
                  /\ p.block.addr + 1 <= p.ptr
                  /\ p.ptr + p.size <= Buddy!EndOf(p.block)

\* free finds the header alloc wrote and gives back exactly the block of the
\* allocation, so the blocks in use are those of the live allocations.  Only
\* memory aligned to more than the header's size can be given back wrongly.
FreeReturnsBlock == IF astray = 0 THEN allocated = {p.block : p \in live} ELSE astray > 1

\* What the heap hands out, and takes back.
HeapSound == UserMemoryInBlock /\ FreeReturnsBlock

\* While realloc copies, with the heap's mutex released, the old memory is
\* still its own and the new memory is apart from it.
ReallocSourceKept ==
  \A t \in Tasks : \A p \in call[t].old, q \in call[t].new :
    /\ p.block \in allocated /\ q.block \in allocated
    /\ p.ptr + p.size <= q.ptr \/ q.ptr + q.size <= p.ptr
=============================================================================
