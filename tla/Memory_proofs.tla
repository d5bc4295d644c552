--------------------------- MODULE Memory_proofs ---------------------------
(***************************************************************************)
(* Memory in the running kernel, for every region and every number of      *)
(* users.  First the page objects: they own disjoint memory, exactly what  *)
(* the buddy allocator has out, and new ones are zeroed                    *)
(* (kernel/src/mm/page_table.rs).  Then the heap, and the page tables of   *)
(* the two architectures.  Each component has theorems of its own; the     *)
(* last section carries them over to the composition, MemorySpec.          *)
(***************************************************************************)
EXTENDS Memory, FiniteSetTheorems, TLAPS
-----------------------------------------------------------------------------
(*** Page objects **********************************************************)

Object == [kind : Kinds, addr : Base .. (Limit - 1), used : BOOLEAN]

\* Objects have blocks of the allocator, of which no two overlap.
Owned ==
  /\ objects \subseteq Object /\ IsFiniteSet(objects)
  /\ \A o \in objects : AllocOrder(o.kind) \in 0 .. MaxOrder
  /\ allocated = {Extent(o) : o \in objects}
  /\ \A o, q \in objects : o # q => Buddy!Disjoint(Extent(o), Extent(q))

IInv == Owned /\ FreshIsZero
-----------------------------------------------------------------------------
\* The size of a block that an object owns.
LEMMA ExtentFacts ==
  ASSUME PageConstants, NEW o \in Object, AllocOrder(o.kind) \in 0 .. MaxOrder
  PROVE  /\ Extent(o).addr = o.addr /\ o.addr \in Nat
         /\ BlockSize[AllocOrder(o.kind)] \in Nat \ {0}
         /\ Buddy!EndOf(Extent(o)) = o.addr + BlockSize[AllocOrder(o.kind)]
         /\ Pages(Extent(o)) = o.addr .. (o.addr + BlockSize[AllocOrder(o.kind)] - 1)
<1>1. o.addr \in Nat
  BY DEF PageConstants, Object
<1>2. BlockSize[AllocOrder(o.kind)] \in Nat \ {0}
  BY DEF PageConstants
<1>3. Extent(o).addr = o.addr /\ Extent(o).order = AllocOrder(o.kind)
  BY DEF Extent
<1> QED
  BY <1>1, <1>2, <1>3 DEF Buddy!EndOf, Pages

\* Every Drop names the order its constructor asked for.
LEMMA OrdersAgree == ASSUME NEW o PROVE [addr |-> o.addr, order |-> DropOrder(o.kind)] = Extent(o)
  BY DEF Extent, DropOrder, AllocOrder

\* Blocks that are apart in the allocator's terms share no page, and differ.
LEMMA ApartPages ==
  ASSUME PageConstants, NEW o \in Object, NEW q \in Object,
         AllocOrder(o.kind) \in 0 .. MaxOrder, AllocOrder(q.kind) \in 0 .. MaxOrder,
         Buddy!Disjoint(Extent(o), Extent(q))
  PROVE  Pages(Extent(o)) \cap Pages(Extent(q)) = {} /\ Extent(o) # Extent(q)
<1>1. /\ Pages(Extent(o)) = o.addr .. (o.addr + BlockSize[AllocOrder(o.kind)] - 1)
      /\ Buddy!EndOf(Extent(o)) = o.addr + BlockSize[AllocOrder(o.kind)]
      /\ Extent(o).addr = o.addr /\ o.addr \in Nat /\ BlockSize[AllocOrder(o.kind)] \in Nat \ {0}
  BY ExtentFacts
<1>2. /\ Pages(Extent(q)) = q.addr .. (q.addr + BlockSize[AllocOrder(q.kind)] - 1)
      /\ Buddy!EndOf(Extent(q)) = q.addr + BlockSize[AllocOrder(q.kind)]
      /\ Extent(q).addr = q.addr /\ q.addr \in Nat /\ BlockSize[AllocOrder(q.kind)] \in Nat \ {0}
  BY ExtentFacts
<1>3. Buddy!EndOf(Extent(o)) <= q.addr \/ Buddy!EndOf(Extent(q)) <= o.addr
  BY <1>1, <1>2 DEF Buddy!Disjoint
<1>4. Pages(Extent(o)) \cap Pages(Extent(q)) = {}
  BY <1>1, <1>2, <1>3
<1>5. o.addr # q.addr
  BY <1>1, <1>2, <1>3
<1> QED
  BY <1>1, <1>2, <1>4, <1>5

\* Two objects have different blocks.
LEMMA OwnersDiffer ==
  ASSUME PageConstants, Owned
  PROVE  \A o, q \in objects : o # q => /\ Extent(o) # Extent(q)
                                        /\ Pages(Extent(o)) \cap Pages(Extent(q)) = {}
<1> SUFFICES ASSUME NEW o \in objects, NEW q \in objects, o # q
             PROVE  Extent(o) # Extent(q) /\ Pages(Extent(o)) \cap Pages(Extent(q)) = {}
  OBVIOUS
<1>1. o \in Object /\ q \in Object /\ AllocOrder(o.kind) \in 0 .. MaxOrder /\ AllocOrder(q.kind) \in 0 .. MaxOrder
  BY DEF Owned
<1>2. Buddy!Disjoint(Extent(o), Extent(q))
  BY DEF Owned
<1> QED
  BY <1>1, <1>2, ApartPages

\* A constructor zeroes all of its block, except that of an L1 table.
LEMMA ZeroedWhole ==
  ASSUME PageConstants, NEW kind \in Kinds, kind # "L1Table"
  PROVE  ZeroedPages(kind) = BlockSize[AllocOrder(kind)]
<1>1. kind \in {"Page", "PageBlock", "L2Table"}
  BY DEF PageConstants, AllKinds
<1>2. BlockSize[0] = 1
  BY DEF PageConstants
<1> QED
  BY <1>1, <1>2 DEF ZeroedPages, AllocOrder

\* A constructor adds an object whose block is apart from every block in use.
LEMMA AllocKeeps ==
  ASSUME PageConstants, IInv, NEW kind \in Kinds, alloc(kind)
  PROVE  IInv'
<1>1. PICK b \in Buddy!Block :
        /\ b.order = AllocOrder(kind) /\ Buddy!Available(b)
        /\ allocated' = allocated \cup {b}
        /\ objects' = objects \cup {[kind |-> kind, addr |-> b.addr, used |-> FALSE]}
        /\ zeroed' = zeroed \cup b.addr .. (b.addr + ZeroedPages(kind) - 1)
  BY DEF alloc
<1> DEFINE n == [kind |-> kind, addr |-> b.addr, used |-> FALSE]
<1>2. b.addr \in Base .. (Limit - 1) /\ b.order \in 0 .. MaxOrder /\ b = [addr |-> b.addr, order |-> b.order]
  BY DEF Buddy!Block, Buddy!Addrs, Buddy!Orders
<1>3. n \in Object /\ n.kind = kind /\ n.addr = b.addr
  BY <1>2 DEF Object
<1>4. Extent(n) = b
  BY <1>1, <1>2, <1>3 DEF Extent
<1> HIDE DEF n
<1>5. \A q \in objects : Buddy!Disjoint(Extent(n), Extent(q)) /\ Buddy!Disjoint(Extent(q), Extent(n))
  BY <1>1, <1>4 DEF IInv, Owned, Buddy!Available, Buddy!Disjoint
<1>6. objects' = objects \cup {n}
  BY <1>1 DEF n
<1>7. Owned'
  <2>1. objects' \subseteq Object
    BY <1>3, <1>6 DEF IInv, Owned
  <2>2. IsFiniteSet(objects')
    BY <1>6, FS_AddElement DEF IInv, Owned
  <2>3. \A o \in objects' : AllocOrder(o.kind) \in 0 .. MaxOrder
    BY <1>1, <1>2, <1>3, <1>6 DEF IInv, Owned
  <2>4. allocated' = {Extent(o) : o \in objects'}
    BY <1>1, <1>4, <1>6 DEF IInv, Owned
  <2>5. \A o, q \in objects' : o # q => Buddy!Disjoint(Extent(o), Extent(q))
    BY <1>5, <1>6 DEF IInv, Owned
  <2> QED
    BY <2>1, <2>2, <2>3, <2>4, <2>5 DEF Owned
<1>8. FreshIsZero'
  <2> SUFFICES ASSUME ~ panicked', NEW o \in objects', ~ o.used, o.kind # "L1Table"
               PROVE  Pages(Extent(o)) \subseteq zeroed'
    BY DEF FreshIsZero
  <2>1. CASE o \in objects
    <3>1. ~ panicked
      BY DEF alloc
    <3> QED
      BY <1>1, <2>1, <3>1 DEF IInv, FreshIsZero
  <2>2. CASE o = n
    <3>1. ZeroedPages(kind) = BlockSize[AllocOrder(kind)]
      BY <1>3, <2>2, ZeroedWhole
    <3>2. AllocOrder(n.kind) \in 0 .. MaxOrder
      BY <1>1, <1>2, <1>3
    <3>3. Pages(Extent(n)) = n.addr .. (n.addr + BlockSize[AllocOrder(n.kind)] - 1)
      BY <1>3, <3>2, ExtentFacts
    <3> QED
      BY <1>1, <1>3, <2>2, <3>1, <3>3
  <2> QED
    BY <1>6, <2>1, <2>2
<1> QED
  BY <1>7, <1>8 DEF IInv

\* A write reaches the pages of its own object only.
LEMMA UseKeeps ==
  ASSUME PageConstants, IInv, NEW o \in objects, use(o)
  PROVE  IInv'
<1> DEFINE n == [o EXCEPT !.used = TRUE]
<1>1. o \in Object
  BY DEF IInv, Owned
<1>2. n \in Object /\ n.kind = o.kind /\ n.addr = o.addr /\ n.used = TRUE
  BY <1>1 DEF Object
<1>3. Extent(n) = Extent(o)
  BY <1>2 DEF Extent
<1>4. objects' = (objects \ {o}) \cup {n}
  BY DEF use
<1> HIDE DEF n
<1>5. Owned'
  <2>1. objects' \subseteq Object
    BY <1>2, <1>4 DEF IInv, Owned
  <2>2. IsFiniteSet(objects')
    BY <1>4, FS_AddElement, FS_RemoveElement DEF IInv, Owned
  <2>3. \A q \in objects' : AllocOrder(q.kind) \in 0 .. MaxOrder
    BY <1>2, <1>4 DEF IInv, Owned
  <2>4. allocated' = {Extent(q) : q \in objects'}
    BY <1>3, <1>4 DEF IInv, Owned, use
  <2>5. \A q, r \in objects' : q # r => Buddy!Disjoint(Extent(q), Extent(r))
    BY <1>3, <1>4 DEF IInv, Owned
  <2> QED
    BY <2>1, <2>2, <2>3, <2>4, <2>5 DEF Owned
<1>6. FreshIsZero'
  <2> SUFFICES ASSUME ~ panicked', NEW q \in objects', ~ q.used, q.kind # "L1Table"
               PROVE  Pages(Extent(q)) \subseteq zeroed'
    BY DEF FreshIsZero
  <2>1. q \in objects /\ q # o
    BY <1>2, <1>4
  <2>2. Pages(Extent(q)) \subseteq zeroed
    BY <2>1 DEF IInv, FreshIsZero, use
  <2>3. Pages(Extent(q)) \cap Pages(Extent(o)) = {}
    BY <2>1, OwnersDiffer DEF IInv
  <2> QED
    BY <2>2, <2>3 DEF use
<1> QED
  BY <1>5, <1>6 DEF IInv

\* A Drop frees exactly its object's block and leaves the others alone.
LEMMA DropKeeps ==
  ASSUME PageConstants, IInv, NEW o \in objects, drop(o)
  PROVE  IInv'
<1>1. objects' = objects \ {o} /\ allocated' = allocated \ {Extent(o)}
  BY OrdersAgree DEF drop
<1>2. \A q \in objects : q # o => Extent(q) # Extent(o) /\ Pages(Extent(q)) \cap Pages(Extent(o)) = {}
  BY OwnersDiffer DEF IInv
<1>3. Owned'
  <2>1. IsFiniteSet(objects')
    BY <1>1, FS_RemoveElement DEF IInv, Owned
  <2>2. allocated' = {Extent(q) : q \in objects'}
    BY <1>1, <1>2 DEF IInv, Owned
  <2> QED
    BY <1>1, <2>1, <2>2 DEF IInv, Owned
<1>4. FreshIsZero'
  <2> SUFFICES ASSUME ~ panicked', NEW q \in objects', ~ q.used, q.kind # "L1Table"
               PROVE  Pages(Extent(q)) \subseteq zeroed'
    BY DEF FreshIsZero
  <2>1. Pages(Extent(q)) \subseteq zeroed
    BY <1>1 DEF IInv, FreshIsZero, drop
  <2> QED
    BY <1>1, <1>2, <2>1 DEF drop
<1> QED
  BY <1>3, <1>4 DEF IInv
-----------------------------------------------------------------------------
\* Every step of the page allocator and of the objects keeps the invariant; a
\* second init, which clears memory in use, panics.
LEMMA Invariance == PageConstants => (Spec => []IInv)
<1> SUFFICES ASSUME PageConstants PROVE Spec => []IInv
  OBVIOUS
<1>1. Init => IInv
  BY FS_EmptySet DEF Init, IInv, Owned, FreshIsZero
<1>2. IInv /\ [Next]_vars => IInv'
  <2> SUFFICES ASSUME IInv, [Next]_vars PROVE IInv'
    OBVIOUS
  <2>1. CASE init
    BY <2>1 DEF init, IInv, Owned, FreshIsZero
  <2>2. CASE alloc_early \/ Halted \/ UNCHANGED vars
    BY <2>2 DEF alloc_early, Halted, vars, IInv, Owned, FreshIsZero
  <2>3. ASSUME NEW kind \in Kinds, alloc(kind) PROVE IInv'
    BY <2>3, AllocKeeps
  <2>4. ASSUME NEW kind \in Kinds, alloc_none(kind) PROVE IInv'
    BY <2>4 DEF alloc_none, IInv, Owned, FreshIsZero
  <2>5. ASSUME NEW o \in objects, use(o) PROVE IInv'
    BY <2>5, UseKeeps
  <2>6. ASSUME NEW o \in objects, drop(o) PROVE IInv'
    BY <2>6, DropKeeps
  <2> QED
    BY <2>1, <2>2, <2>3, <2>4, <2>5, <2>6 DEF Next
<1> QED
  BY <1>1, <1>2, PTL DEF Spec

\* The buddy allocator has out exactly the blocks of the live objects, one
\* each, and these are disjoint: every type is dropped with the order it was
\* allocated with, for every number of objects and every region.
THEOREM DropsMatch == PageConstants => (Spec => []DropReturnsWhatAllocTook)
<1> SUFFICES ASSUME PageConstants PROVE Spec => []DropReturnsWhatAllocTook
  OBVIOUS
<1>1. IInv => DropReturnsWhatAllocTook
  <2> SUFFICES ASSUME IInv PROVE DropReturnsWhatAllocTook
    OBVIOUS
  <2>1. allocated = {Extent(o) : o \in objects}
    BY DEF IInv, Owned
  <2>2. \A o, q \in objects : o # q => Extent(o) # Extent(q) /\ Pages(Extent(o)) \cap Pages(Extent(q)) = {}
    BY OwnersDiffer DEF IInv
  <2>3. Cardinality(allocated) = Cardinality(objects)
    <3> DEFINE f == [o \in objects |-> Extent(o)]
    <3>1. f \in Bijection(objects, allocated)
      BY <2>1, <2>2 DEF Bijection, Injection, Surjection, IsInjective
    <3> QED
      BY <3>1, FS_Bijection DEF IInv, Owned, ExistsBijection
  <2> QED
    BY <2>1, <2>2, <2>3 DEF DropReturnsWhatAllocTook
<1> QED
  BY <1>1, Invariance, PTL

\* A new page, page block or L2 table holds zeroes only, whatever its memory was
\* used for before: no other object writes to it.
THEOREM NewIsZero == PageConstants => (Spec => []FreshIsZero)
<1>1. IInv => FreshIsZero
  BY DEF IInv
<1> QED
  BY <1>1, Invariance, PTL
-----------------------------------------------------------------------------
(*** The heap **************************************************************)

\* Every nonempty set of naturals has a least element.
LEMMA LeastNatural ==
  ASSUME NEW T \in SUBSET Nat, T # {}
  PROVE  \E n \in T : \A m \in T : n <= m
<1>1. PICK N \in T : TRUE
  OBVIOUS
<1> DEFINE U == {n \in T : n <= N}
           I == {0 .. n : n \in U}
<1>2. I # {} /\ I \subseteq FiniteSubsetsOf(0 .. N)
  <2>1. \A n \in U : IsFiniteSet(0 .. n)
    BY FS_Interval
  <2> QED BY <1>1, <2>1 DEF FiniteSubsetsOf
<1>3. PICK x \in I : \A y \in I : ~ (<<y, x>> \in StrictSubsetOrdering(0 .. N))
  BY <1>2, WFMin, FS_StrictSubsetOrderingWellFounded
<1>4. PICK n \in U : x = 0 .. n
  OBVIOUS
<1>5. ASSUME NEW m \in T, m < n PROVE FALSE
  <2>1. m \in U /\ 0 .. m \in I
    BY <1>5
  <2>2. n \in 0 .. n /\ n \notin 0 .. m
    BY <1>5
  <2>3. 0 .. m \subseteq 0 .. n /\ 0 .. m # 0 .. n
    BY <2>2, <1>5
  <2>4. 0 .. m \subseteq 0 .. N /\ 0 .. n \subseteq 0 .. N
    BY <2>1
  <2>5. <<0 .. m, 0 .. n>> \in StrictSubsetOrdering(0 .. N)
    BY <2>3, <2>4 DEF StrictSubsetOrdering
  <2> QED BY <2>1, <2>5, <1>3, <1>4
<1> QED BY <1>5


HeapAllocation == [ptr : Nat, size : Nat, align : Aligns, block : Heap!Buddy!Block, by : Tasks]

\* An allocation lies in a block in use, whose header is intact.
Placed(p) ==
  /\ p.ptr = p.block.addr + p.align /\ p.ptr % p.align = 0
  /\ p.ptr + p.size <= Heap!Buddy!EndOf(p.block)
  /\ p.block \in heapOut
  /\ p.block.addr \in DOMAIN header /\ header[p.block.addr] = p.block.order

\* The live allocations have a block each, of which no two overlap; these are
\* all the blocks in use, until a free goes astray.
HeapOwned ==
  /\ live \subseteq HeapAllocation
  /\ \A p \in live : Placed(p)
  /\ \A p, q \in live : p # q => Heap!Buddy!Disjoint(p.block, q.block)
  /\ astray \in Nat \ {1}
  /\ astray = 0 => \A b \in heapOut : \E p \in live : b = p.block

\* A realloc under way has two allocations of its caller.
Reallocating ==
  /\ heapCall \in [Tasks -> [old : SUBSET HeapAllocation, new : SUBSET HeapAllocation]]
  /\ \A t \in Tasks :
       \/ heapCall[t] = Heap!NoCall
       \/ \E p, q \in live : /\ p # q /\ p.by = t /\ q.by = t
                             /\ heapCall[t] = [old |-> {p}, new |-> {q}]

HeapInv == HeapOwned /\ Reallocating
-----------------------------------------------------------------------------
\* The header is given as much room as the alignment.
LEMMA HeaderRoom ==
  ASSUME NEW align \in Nat \ {0}
  PROVE  Heap!HeaderSize(align) = align
<1>1. 1 + align - 1 = align /\ align \div align = 1
  OBVIOUS
<1> QED BY <1>1 DEF Heap!HeaderSize

\* The order asked for is that of a block with enough room, or too large.
LEMMA OrderRoom ==
  ASSUME Heap!HeapConstants, NEW size \in Nat, NEW align \in Aligns
  PROVE  /\ Heap!OrderFor(size, align) \in 0 .. MaxOrder + 1
         /\ Heap!OrderFor(size, align) <= MaxOrder => HeapBlockSize[Heap!OrderFor(size, align)] >= size + align
<1> DEFINE total == size + Heap!HeaderSize(align)
           Fits(k) == /\ k <= MaxOrder => HeapBlockSize[k] >= total
                      /\ \A j \in 0 .. k - 1 : HeapBlockSize[j] < total
           T == {k \in 0 .. MaxOrder + 1 : k <= MaxOrder => HeapBlockSize[k] >= total}
<1>1. MaxOrder \in Nat /\ align \in Nat \ {0} /\ Heap!HeaderSize(align) = align
  BY HeaderRoom DEF Heap!HeapConstants
<1>2. T \in SUBSET Nat /\ MaxOrder + 1 \in T
  BY <1>1
<1>3. PICK k \in T : \A m \in T : k <= m
  BY <1>2, LeastNatural
<1>4. \A j \in 0 .. k - 1 : HeapBlockSize[j] < total
  <2> SUFFICES ASSUME NEW j \in 0 .. k - 1 PROVE HeapBlockSize[j] < total
    OBVIOUS
  <2>1. j \in 0 .. MaxOrder /\ j \notin T
    BY <1>1, <1>3
  <2>2. HeapBlockSize[j] \in Nat /\ total \in Nat
    BY <2>1, <1>1 DEF Heap!HeapConstants
  <2> QED BY <2>1, <2>2, <1>1
<1>5. k \in 0 .. MaxOrder + 1 /\ Fits(k)
  BY <1>3, <1>4
<1>6. Heap!OrderFor(size, align) = CHOOSE i \in 0 .. MaxOrder + 1 : Fits(i)
  BY DEF Heap!OrderFor
<1> HIDE DEF Fits
<1>7. Heap!OrderFor(size, align) \in 0 .. MaxOrder + 1 /\ Fits(Heap!OrderFor(size, align))
  BY <1>5, <1>6
<1> QED BY <1>1, <1>7 DEF Fits

\* Quotient and remainder, and that they are the only ones.
LEMMA DivMod ==
  ASSUME NEW d \in Nat \ {0}, NEW i \in Nat
  PROVE  /\ i \div d \in Nat /\ i % d \in 0 .. d - 1
         /\ d * (i \div d) \in Nat /\ i = d * (i \div d) + (i % d)
<1>1. i \div d \in Nat
  OBVIOUS
<1>2. i % d \in 0 .. d - 1
  OBVIOUS
<1>3. i % d = i - d * (i \div d)
  BY d > 0, SMTT(30)
<1>4. \A q \in Nat : d * q \in Nat
  OBVIOUS
<1>5. d * (i \div d) \in Nat /\ i % d \in Nat
  BY <1>1, <1>2, <1>4
<1> DEFINE m == d * (i \div d)
           r == i % d
<1>6. i = m + r
  <2> HIDE DEF m, r
  <2>1. m \in Nat /\ r \in Nat /\ r = i - m
    BY <1>3, <1>5 DEF m, r
  <2> QED BY <2>1
<1> QED BY <1>1, <1>2, <1>5, <1>6

LEMMA DivUnique ==
  ASSUME NEW d \in Nat \ {0}, NEW q \in Nat, NEW r \in 0 .. d - 1
  PROVE  (d * q + r) \div d = q /\ (d * q + r) % d = r
  OBVIOUS

\* Where a multiple of the block's size is rounded up behind the header.
LEMMA AlignedBehind ==
  ASSUME NEW a \in Nat, NEW s \in Nat \ {0}, NEW al \in Nat \ {0}, a % s = 0, s % al = 0
  PROVE  (a + al) % al = 0
<1> DEFINE m == a \div s
           n == s \div al
<1>1. m \in Nat /\ n \in Nat /\ a = s * m /\ s = al * n
  OBVIOUS
<1> HIDE DEF m, n
<1>2. a + al = al * (n * m + 1)
  <2>1. a = al * (n * m)
    BY <1>1
  <2> QED BY <2>1, <1>1
<1>3. n * m + 1 \in Nat
  BY <1>1
<1> DEFINE k == n * m + 1
<1> HIDE DEF k
<1>4. k \in Nat /\ a + al = al * k + 0 /\ 0 \in 0 .. al - 1
  BY <1>2, <1>3 DEF k
<1>5. (al * k + 0) % al = 0
  BY <1>4, DivUnique
<1> QED BY <1>4, <1>5
\* A block of the allocator.
LEMMA BlockFacts ==
  ASSUME Heap!HeapConstants, NEW b \in Heap!Buddy!Block
  PROVE  /\ b = [addr |-> b.addr, order |-> b.order]
         /\ b.addr \in Nat /\ b.order \in 0 .. MaxOrder /\ HeapBlockSize[b.order] \in Nat \ {0}
         /\ Heap!Buddy!EndOf(b) = b.addr + HeapBlockSize[b.order]
<1>1. b.addr \in HeapBase .. (HeapLimit - 1) /\ b.order \in 0 .. MaxOrder /\ b = [addr |-> b.addr, order |-> b.order]
  BY DEF Heap!Buddy!Block, Heap!Buddy!Addrs, Heap!Buddy!Orders
<1>2. HeapBase \in Nat /\ HeapLimit \in Nat /\ HeapBlockSize[b.order] \in Nat \ {0}
  BY <1>1 DEF Heap!HeapConstants
<1> QED BY <1>1, <1>2 DEF Heap!Buddy!EndOf

\* Blocks that are apart start apart.
LEMMA ApartBlocks ==
  ASSUME Heap!HeapConstants, NEW b \in Heap!Buddy!Block, NEW c \in Heap!Buddy!Block,
         Heap!Buddy!Disjoint(b, c)
  PROVE  /\ Heap!Buddy!Disjoint(c, b)
         /\ \A x \in Nat : b.addr <= x /\ x < Heap!Buddy!EndOf(b) => c.addr # x
<1>1. /\ b.addr \in Nat /\ HeapBlockSize[b.order] \in Nat \ {0} /\ Heap!Buddy!EndOf(b) = b.addr + HeapBlockSize[b.order]
      /\ c.addr \in Nat /\ HeapBlockSize[c.order] \in Nat \ {0} /\ Heap!Buddy!EndOf(c) = c.addr + HeapBlockSize[c.order]
  BY BlockFacts
<1>2. Heap!Buddy!EndOf(b) <= c.addr \/ Heap!Buddy!EndOf(c) <= b.addr
  BY DEF Heap!Buddy!Disjoint
<1> QED BY <1>1, <1>2 DEF Heap!Buddy!Disjoint

\* A block taken for a request, and the allocation made from it.
LEMMA HeapTaken ==
  ASSUME Heap!HeapConstants, HeapOwned, astray = 0, astray' = astray,
         NEW t \in Tasks, NEW size \in Nat, NEW align \in Aligns, NEW b \in Heap!Buddy!Block,
         b.order = Heap!OrderFor(size, align), Heap!TakeBlock(b),
         live' = live \cup {Heap!Allocation(t, b, size, align)}
  PROVE  /\ HeapOwned'
         /\ Heap!Allocation(t, b, size, align) \in HeapAllocation
         /\ \A p \in live : p # Heap!Allocation(t, b, size, align)
<1> DEFINE q == Heap!Allocation(t, b, size, align)
           s == HeapBlockSize[b.order]
<1>1. /\ b.addr \in Nat /\ b.order \in 0 .. MaxOrder /\ s \in Nat \ {0}
      /\ Heap!Buddy!EndOf(b) = b.addr + s
  BY BlockFacts
<1>2. align \in Nat \ {0} /\ Heap!HeaderSize(align) = align
  BY HeaderRoom DEF Heap!HeapConstants
<1>3. /\ q.ptr = b.addr + align /\ q.size = size /\ q.align = align /\ q.block = b /\ q.by = t
      /\ q \in HeapAllocation
  <2>1. q = [ptr |-> b.addr + align, size |-> size, align |-> align, block |-> b, by |-> t]
    BY <1>2 DEF Heap!Allocation
  <2>2. b.addr + align \in Nat
    BY <1>1, <1>2
  <2> HIDE DEF q
  <2> QED BY <2>1, <2>2 DEF HeapAllocation
<1> HIDE DEF q
<1>4. /\ heapOut' = heapOut \cup {b} /\ header' = [a \in DOMAIN header \cup {b.addr} |->
                                                         IF a = b.addr THEN b.order ELSE header[a]]
      /\ b.addr % s = 0 /\ \A c \in heapOut : Heap!Buddy!Disjoint(b, c)
  BY DEF Heap!TakeBlock, Heap!Buddy!Available, Heap!Buddy!Aligned
<1>5. s >= size + align
  BY <1>1, OrderRoom
<1>6. q.ptr % q.align = 0
  <2>1. s % align = 0
    BY <1>1, <1>2, <1>5 DEF Heap!HeapConstants
  <2> QED BY <2>1, <1>1, <1>2, <1>3, <1>4, AlignedBehind
<1>7. \A p \in live : p \in HeapAllocation /\ p.block \in Heap!Buddy!Block /\ Placed(p)
  BY DEF HeapOwned, HeapAllocation
<1>8. \A p \in live : /\ Heap!Buddy!Disjoint(b, p.block) /\ Heap!Buddy!Disjoint(p.block, b)
                      /\ p.block.addr # b.addr
  <2> SUFFICES ASSUME NEW p \in live
               PROVE  /\ Heap!Buddy!Disjoint(b, p.block) /\ Heap!Buddy!Disjoint(p.block, b)
                      /\ p.block.addr # b.addr
    OBVIOUS
  <2>1. p.block \in Heap!Buddy!Block /\ Heap!Buddy!Disjoint(b, p.block)
    BY <1>4, <1>7 DEF Placed
  <2>2. b.addr <= b.addr /\ b.addr < Heap!Buddy!EndOf(b)
    BY <1>1
  <2> QED BY <2>1, <2>2, <1>1, ApartBlocks
<1>9. Placed(q)'
  <2>1. q.ptr + q.size <= Heap!Buddy!EndOf(b)
    BY <1>1, <1>2, <1>3, <1>5
  <2>2. b.addr \in DOMAIN header' /\ header'[b.addr] = b.order
    BY <1>4
  <2> QED BY <2>1, <2>2, <1>3, <1>4, <1>6 DEF Placed
<1>10. ASSUME NEW p \in live PROVE Placed(p)'
  <2>1. p.block.addr \in DOMAIN header' /\ header'[p.block.addr] = header[p.block.addr]
    BY <1>4, <1>7, <1>8 DEF Placed
  <2> QED BY <2>1, <1>4, <1>7 DEF Placed
<1>11. \A p \in live : p # q
  <2>1. Heap!Buddy!EndOf(b) > b.addr /\ ~ Heap!Buddy!Disjoint(b, b)
    BY <1>1 DEF Heap!Buddy!Disjoint
  <2> QED BY <2>1, <1>3, <1>8
<1>12. live' = live \cup {q}
  BY DEF q
<1>13. HeapOwned'
  <2>1. live' \subseteq HeapAllocation
    BY <1>3, <1>12 DEF HeapOwned
  <2>2. \A p \in live' : Placed(p)'
    BY <1>9, <1>10, <1>12
  <2>3. \A p, r \in live' : p # r => Heap!Buddy!Disjoint(p.block, r.block)
    BY <1>3, <1>8, <1>12 DEF HeapOwned
  <2>4. \A c \in heapOut' : \E p \in live' : c = p.block
    BY <1>3, <1>4, <1>12 DEF HeapOwned
  <2> QED BY <2>1, <2>2, <2>3, <2>4 DEF HeapOwned
<1> QED BY <1>3, <1>11, <1>13 DEF q

\* free: the header right below the pointer is the block's only if the alignment
\* is that of the header; if not, no block in use starts there.
LEMMA HeapReturned ==
  ASSUME Heap!HeapConstants, HeapOwned, astray = 0, NEW p \in live,
         Heap!ReturnBlock(p), live' = live \ {p}, header' = header
  PROVE  HeapOwned'
<1>1. PICK k \in Heap!OrdersRead(Heap!HeaderAddr(p)) :
        LET b == [addr |-> Heap!HeaderAddr(p), order |-> k]
        IN  /\ heapOut' = IF k > MaxOrder THEN heapOut ELSE heapOut \ {b}
            /\ astray' = IF b = p.block THEN astray ELSE p.align
  BY DEF Heap!ReturnBlock
<1> DEFINE a == Heap!HeaderAddr(p)
           b == [addr |-> a, order |-> k]
<1>2. /\ p \in HeapAllocation /\ Placed(p) /\ p.block \in Heap!Buddy!Block /\ p.align \in Nat \ {0}
      /\ p.size \in Nat
  BY DEF HeapOwned, HeapAllocation, Heap!HeapConstants
<1>3. /\ p.block.addr \in Nat /\ p.block.order \in 0 .. MaxOrder
      /\ p.block = [addr |-> p.block.addr, order |-> p.block.order]
  BY <1>2, BlockFacts
<1>4. a = p.block.addr + p.align - 1 /\ a \in Nat /\ p.block.addr <= a /\ a < Heap!Buddy!EndOf(p.block)
  <2>1. Heap!Buddy!EndOf(p.block) \in Nat
    BY <1>2, BlockFacts
  <2> QED BY <1>2, <1>3, <2>1 DEF Placed, Heap!HeaderAddr
<1>5. \A q \in live : q # p => /\ Heap!Buddy!Disjoint(p.block, q.block) /\ q.block.addr # a
                               /\ q.block # p.block
  <2> SUFFICES ASSUME NEW q \in live, q # p
               PROVE  Heap!Buddy!Disjoint(p.block, q.block) /\ q.block.addr # a /\ q.block # p.block
    OBVIOUS
  <2>1. Heap!Buddy!Disjoint(p.block, q.block) /\ q.block \in Heap!Buddy!Block
    BY DEF HeapOwned, HeapAllocation
  <2>2. q.block.addr # a /\ q.block.addr # p.block.addr
    <3>1. p.block.addr <= p.block.addr /\ p.block.addr < Heap!Buddy!EndOf(p.block)
      BY <1>2, BlockFacts
    <3> QED BY <1>2, <1>3, <1>4, <2>1, <3>1, ApartBlocks
  <2> QED BY <2>1, <2>2
\* The block the allocation was made from, or none that is in use.
<1>6. \/ p.align = 1 /\ b = p.block /\ k <= MaxOrder
      \/ p.align > 1 /\ b # p.block
  <2>1. CASE p.align = 1
    <3>1. a = p.block.addr
      BY <2>1, <1>3, <1>4
    <3>2. k = p.block.order
      BY <3>1, <1>1, <1>2 DEF Placed, Heap!OrdersRead
    <3> QED BY <2>1, <3>1, <3>2, <1>3
  <2>2. CASE p.align > 1
    <3>1. a # p.block.addr
      BY <2>2, <1>2, <1>3, <1>4
    <3>2. b.addr = a
      OBVIOUS
    <3> QED BY <2>2, <3>1, <3>2
  <2> QED BY <2>1, <2>2, <1>2
<1>7. \A q \in live' : q \in live /\ q # p /\ q.block # b /\ q.block # p.block
  <2>1. b.addr = a
    OBVIOUS
  <2> QED BY <2>1, <1>5
<1> HIDE DEF b, a
<1>8. heapOut' = (IF k > MaxOrder THEN heapOut ELSE heapOut \ {b}) /\ astray' = IF b = p.block THEN astray ELSE p.align
  BY <1>1 DEF a, b
<1>9. \A q \in live' : Placed(q)'
  BY <1>7, <1>8 DEF HeapOwned, Placed
<1>10. astray' \in Nat \ {1} /\ (astray' = 0 => b = p.block /\ heapOut' = heapOut \ {p.block})
  <2>1. CASE p.align = 1 /\ b = p.block /\ k <= MaxOrder
    <3>1. k = p.block.order
      BY <2>1 DEF b
    <3>2. ~ (k > MaxOrder)
      BY <3>1, <1>3 DEF Heap!HeapConstants
    <3> QED BY <2>1, <3>2, <1>8
  <2>2. CASE p.align > 1 /\ b # p.block
    BY <2>2, <1>2, <1>8
  <2> QED BY <2>1, <2>2, <1>6
<1>11. astray' = 0 => \A c \in heapOut' : \E q \in live' : c = q.block
  BY <1>10 DEF HeapOwned
<1>12. live' \subseteq HeapAllocation /\ \A q, r \in live' : q # r => Heap!Buddy!Disjoint(q.block, r.block)
  BY <1>7 DEF HeapOwned
<1> QED BY <1>9, <1>10, <1>11, <1>12 DEF HeapOwned
\* The calls of the others are about allocations of their own.
LEMMA CallsKept ==
  ASSUME Reallocating, NEW t \in Tasks, NEW c, c \in [old : SUBSET HeapAllocation, new : SUBSET HeapAllocation],
         heapCall' = [heapCall EXCEPT ![t] = c],
         \A p \in live : p.by # t => p \in live',
         \/ c = Heap!NoCall
         \/ \E p, q \in live' : p # q /\ p.by = t /\ q.by = t /\ c = [old |-> {p}, new |-> {q}]
  PROVE  Reallocating'
<1>1. heapCall' \in [Tasks -> [old : SUBSET HeapAllocation, new : SUBSET HeapAllocation]]
  BY DEF Reallocating
<1>2. ASSUME NEW u \in Tasks
      PROVE  \/ heapCall'[u] = Heap!NoCall
             \/ \E p, q \in live' : /\ p # q /\ p.by = u /\ q.by = u
                                    /\ heapCall'[u] = [old |-> {p}, new |-> {q}]
  <2>1. CASE u = t
    BY <2>1 DEF Reallocating
  <2>2. CASE u # t
    <3>1. heapCall'[u] = heapCall[u]
      BY <2>2 DEF Reallocating
    <3> QED BY <2>2, <3>1 DEF Reallocating
  <2> QED BY <2>1, <2>2
<1> QED BY <1>1, <1>2 DEF Reallocating

LEMMA NoCallType == Heap!NoCall \in [old : SUBSET HeapAllocation, new : SUBSET HeapAllocation]
  BY DEF Heap!NoCall

LEMMA HeapAllocKeeps ==
  ASSUME Heap!HeapConstants, HeapInv, NEW t \in Tasks, NEW s \in Sizes, NEW al \in Aligns, Heap!alloc(t, s, al)
  PROVE  HeapInv'
<1>1. PICK b \in Heap!Buddy!Block : /\ b.order = Heap!OrderFor(s, al)
                                    /\ Heap!TakeBlock(b)
                                    /\ live' = live \cup {Heap!Allocation(t, b, s, al)}
  BY DEF Heap!alloc
<1>2. astray = 0 /\ astray' = astray /\ heapCall' = heapCall /\ s \in Nat
  BY DEF Heap!alloc, Heap!Ready, Heap!Sound, Heap!HeapConstants
<1>3. HeapOwned'
  BY <1>1, <1>2, HeapTaken DEF HeapInv
<1>4. Reallocating'
  BY <1>1, <1>2 DEF HeapInv, Reallocating
<1> QED BY <1>3, <1>4 DEF HeapInv

LEMMA HeapDeallocKeeps ==
  ASSUME Heap!HeapConstants, HeapInv, NEW t \in Tasks, NEW p \in live, Heap!dealloc(t, p)
  PROVE  HeapInv'
<1>1. /\ astray = 0 /\ Heap!ReturnBlock(p) /\ live' = live \ {p} /\ header' = header
      /\ heapCall' = heapCall /\ p.by = t /\ heapCall[t] = Heap!NoCall
  BY DEF Heap!dealloc, Heap!Ready, Heap!Sound
<1>2. HeapOwned'
  BY <1>1, HeapReturned DEF HeapInv
<1>3. Reallocating'
  <2>1. heapCall' = [heapCall EXCEPT ![t] = Heap!NoCall]
    BY <1>1 DEF HeapInv, Reallocating
  <2>2. \A q \in live : q.by # t => q \in live'
    BY <1>1
  <2> QED BY <2>1, <2>2, CallsKept, NoCallType DEF HeapInv
<1> QED BY <1>2, <1>3 DEF HeapInv

LEMMA HeapReallocKeeps ==
  ASSUME Heap!HeapConstants, HeapInv, NEW t \in Tasks, NEW p \in live, NEW s \in Sizes, Heap!realloc(t, p, s)
  PROVE  HeapInv'
<1>1. PICK b \in Heap!Buddy!Block :
        /\ b.order = Heap!OrderFor(s, p.align)
        /\ Heap!TakeBlock(b)
        /\ live' = live \cup {Heap!Allocation(t, b, s, p.align)}
        /\ heapCall' = [heapCall EXCEPT ![t] = [old |-> {p}, new |-> {Heap!Allocation(t, b, s, p.align)}]]
  BY DEF Heap!realloc
<1> DEFINE q == Heap!Allocation(t, b, s, p.align)
<1>2. astray = 0 /\ astray' = astray /\ s \in Nat /\ p.by = t
  BY DEF Heap!realloc, Heap!Ready, Heap!Sound, Heap!HeapConstants
<1>3. p \in HeapAllocation /\ p.align \in Aligns
  BY DEF HeapInv, HeapOwned, HeapAllocation
<1>4. HeapOwned' /\ q \in HeapAllocation /\ p # q
  BY <1>1, <1>2, <1>3, HeapTaken DEF HeapInv
<1>5. q.by = t
  BY DEF Heap!Allocation
<1> HIDE DEF q
<1>6. live' = live \cup {q} /\ heapCall' = [heapCall EXCEPT ![t] = [old |-> {p}, new |-> {q}]]
  BY <1>1 DEF q
<1> DEFINE c == [old |-> {p}, new |-> {q}]
<1>7. c \in [old : SUBSET HeapAllocation, new : SUBSET HeapAllocation]
  BY <1>3, <1>4
<1>8. \E r, u \in live' : r # u /\ r.by = t /\ u.by = t /\ c = [old |-> {r}, new |-> {u}]
  BY <1>2, <1>4, <1>5, <1>6
<1>9. heapCall' = [heapCall EXCEPT ![t] = c] /\ \A r \in live : r \in live'
  BY <1>6
<1> HIDE DEF c
<1> QED BY <1>4, <1>7, <1>8, <1>9, CallsKept DEF HeapInv

LEMMA HeapFinishKeeps ==
  ASSUME Heap!HeapConstants, HeapInv, NEW t \in Tasks, Heap!realloc_finish(t)
  PROVE  HeapInv'
<1>1. PICK p \in heapCall[t].old : Heap!ReturnBlock(p) /\ live' = live \ {p}
  BY DEF Heap!realloc_finish
<1>2. /\ astray = 0 /\ header' = header /\ heapCall' = [heapCall EXCEPT ![t] = Heap!NoCall]
      /\ heapCall[t] # Heap!NoCall
  BY DEF Heap!realloc_finish, Heap!Sound
<1>3. p \in live /\ p.by = t
  BY <1>1, <1>2 DEF HeapInv, Reallocating
<1>4. HeapOwned'
  BY <1>1, <1>2, <1>3, HeapReturned DEF HeapInv
<1>5. \A q \in live : q.by # t => q \in live'
  BY <1>1, <1>3
<1> QED BY <1>2, <1>4, <1>5, CallsKept, NoCallType DEF HeapInv

LEMMA HeapInvariance == Heap!HeapConstants => (Heap!Spec => []HeapInv)
<1> SUFFICES ASSUME Heap!HeapConstants PROVE Heap!Spec => []HeapInv
  OBVIOUS
<1>1. Heap!Init => HeapInv
  <2> SUFFICES ASSUME Heap!Init PROVE HeapInv
    OBVIOUS
  <2>1. HeapOwned
    BY DEF Heap!Init, HeapOwned
  <2>2. Reallocating
    BY NoCallType DEF Heap!Init, Reallocating
  <2> QED BY <2>1, <2>2 DEF HeapInv
<1>2. HeapInv /\ [Heap!Next]_(Heap!vars) => HeapInv'
  <2> SUFFICES ASSUME HeapInv, [Heap!Next]_(Heap!vars) PROVE HeapInv'
    OBVIOUS
  <2>1. ASSUME NEW t \in Tasks, NEW s \in Sizes, NEW al \in Aligns, Heap!alloc(t, s, al) PROVE HeapInv'
    BY <2>1, HeapAllocKeeps
  <2>2. ASSUME NEW t \in Tasks, NEW s \in Sizes, NEW al \in Aligns, Heap!alloc_error(t, s, al) PROVE HeapInv'
    BY <2>2 DEF Heap!alloc_error, HeapInv, HeapOwned, Placed, Reallocating
  <2>3. ASSUME NEW t \in Tasks, NEW p \in live, Heap!dealloc(t, p) PROVE HeapInv'
    BY <2>3, HeapDeallocKeeps
  <2>4. ASSUME NEW t \in Tasks, NEW p \in live, NEW s \in Sizes, Heap!realloc(t, p, s) PROVE HeapInv'
    BY <2>4, HeapReallocKeeps
  <2>5. ASSUME NEW t \in Tasks, Heap!realloc_finish(t) PROVE HeapInv'
    BY <2>5, HeapFinishKeeps
  <2>6. CASE Heap!Halted \/ UNCHANGED Heap!vars
    <3>1. heapOut' = heapOut /\ header' = header /\ live' = live /\ heapCall' = heapCall /\ astray' = astray
      BY <2>6 DEF Heap!Halted, Heap!vars
    <3> QED BY <3>1 DEF HeapInv, HeapOwned, Placed, Reallocating
  <2> QED BY <2>1, <2>2, <2>3, <2>4, <2>5, <2>6 DEF Heap!Next
<1> QED BY <1>1, <1>2, PTL DEF Heap!Spec

\* What alloc and realloc return is aligned and lies in its block behind the
\* header, and free gives back the block alloc took, unless the alignment exceeds
\* the header's size: for every heap, layout and number of tasks.
THEOREM HeapIsSound == Heap!HeapConstants => (Heap!Spec => []HeapSound)
<1> SUFFICES ASSUME Heap!HeapConstants PROVE Heap!Spec => []HeapSound
  OBVIOUS
<1>1. HeapInv => HeapSound
  <2> SUFFICES ASSUME HeapInv PROVE Heap!HeapSound
    BY DEF HeapSound
  <2>1. Heap!UserMemoryInBlock
    <3> SUFFICES ASSUME NEW p \in live
                 PROVE  /\ p.ptr % p.align = 0 /\ p.block.addr + 1 <= p.ptr
                        /\ p.ptr + p.size <= Heap!Buddy!EndOf(p.block)
      BY DEF Heap!UserMemoryInBlock
    <3>1. Placed(p) /\ p.block \in Heap!Buddy!Block /\ p.align \in Nat \ {0}
      BY DEF HeapInv, HeapOwned, HeapAllocation, Heap!HeapConstants
    <3>2. p.block.addr \in Nat
      BY <3>1, BlockFacts
    <3> QED BY <3>1, <3>2 DEF Placed
  <2>2. Heap!FreeReturnsBlock
    <3>1. CASE astray = 0
      <4>1. \A p \in live : p.block \in heapOut
        BY DEF HeapInv, HeapOwned, Placed
      <4>2. \A b \in heapOut : \E p \in live : b = p.block
        BY <3>1 DEF HeapInv, HeapOwned
      <4> QED BY <3>1, <4>1, <4>2 DEF Heap!FreeReturnsBlock
    <3>2. CASE astray # 0
      BY <3>2 DEF Heap!FreeReturnsBlock, HeapInv, HeapOwned
    <3> QED BY <3>1, <3>2
  <2> QED BY <2>1, <2>2 DEF Heap!HeapSound
<1> QED BY <1>1, HeapInvariance, PTL

\* realloc copies, with the mutex released, between two allocations that are
\* both its own and do not overlap, whatever the other tasks do meanwhile.
THEOREM CopySourceKept == Heap!HeapConstants => (Heap!Spec => []ReallocSourceKept)
<1> SUFFICES ASSUME Heap!HeapConstants PROVE Heap!Spec => []ReallocSourceKept
  OBVIOUS
<1>1. HeapInv => ReallocSourceKept
  <2> SUFFICES ASSUME HeapInv, NEW t \in Tasks, NEW p \in heapCall[t].old, NEW q \in heapCall[t].new
               PROVE  /\ p.block \in heapOut /\ q.block \in heapOut
                      /\ p.ptr + p.size <= q.ptr \/ q.ptr + q.size <= p.ptr
    BY DEF ReallocSourceKept, Heap!ReallocSourceKept
  <2>1. p \in live /\ q \in live /\ p # q
    BY DEF HeapInv, Reallocating, Heap!NoCall
  <2>2. /\ Placed(p) /\ Placed(q) /\ Heap!Buddy!Disjoint(p.block, q.block)
        /\ p \in HeapAllocation /\ q \in HeapAllocation
    BY <2>1 DEF HeapInv, HeapOwned
  <2>3. /\ p.block \in Heap!Buddy!Block /\ q.block \in Heap!Buddy!Block
        /\ p.align \in Nat \ {0} /\ q.align \in Nat \ {0} /\ p.size \in Nat /\ q.size \in Nat
    BY <2>2 DEF HeapAllocation, Heap!HeapConstants
  <2>4. /\ p.block.addr \in Nat /\ q.block.addr \in Nat
        /\ Heap!Buddy!EndOf(p.block) \in Nat /\ Heap!Buddy!EndOf(q.block) \in Nat
    <3>1. /\ p.block.addr \in Nat /\ HeapBlockSize[p.block.order] \in Nat
          /\ Heap!Buddy!EndOf(p.block) = p.block.addr + HeapBlockSize[p.block.order]
      BY <2>3, BlockFacts
    <3>2. /\ q.block.addr \in Nat /\ HeapBlockSize[q.block.order] \in Nat
          /\ Heap!Buddy!EndOf(q.block) = q.block.addr + HeapBlockSize[q.block.order]
      BY <2>3, BlockFacts
    <3> QED BY <3>1, <3>2
  <2>5. Heap!Buddy!EndOf(p.block) <= q.block.addr \/ Heap!Buddy!EndOf(q.block) <= p.block.addr
    BY <2>2 DEF Heap!Buddy!Disjoint
  <2> QED BY <2>2, <2>3, <2>4, <2>5 DEF Placed
<1> QED BY <1>1, HeapInvariance, PTL
-----------------------------------------------------------------------------
(*** The ARM page table ****************************************************)

\* The call under way: the sections still to be written, which are asked to be
\* what the loop will write, and those whose translation may be stale.
ArmCall ==
  \/ armCall = Arm!Idle
  \/ /\ armCall \in [op : {"map"}, todo : SUBSET Arm!Sections, done : SUBSET Arm!Sections,
                     shift : Int, flags : {armCall.flags}]
     /\ \A s \in armCall.todo : armAsked[s] = Arm!FlagsEntry(s + armCall.shift, armCall.flags)
  \/ /\ armCall \in [op : {"unmap"}, todo : SUBSET Arm!Sections, done : SUBSET Arm!Sections]
     /\ armCall.done \subseteq armCall.todo
     /\ \A s \in armCall.todo : armAsked[s] = NoEntry
     /\ \A s \in armCall.done : l1[s] = NoEntry

\* The sections that the call under way has not written yet.
ArmPending == IF armCall = Arm!Idle THEN {} ELSE armCall.todo \ armCall.done

\* What the table holds and what the processor has cached of it.
ArmTable ==
  /\ DOMAIN l1 = Arm!Sections /\ l1 = [s \in Arm!Sections |-> l1[s]]
  /\ DOMAIN armAsked = Arm!Sections
  /\ \A s \in Arm!Sections \ ArmPending : armAsked[s] = Arm!Short \/ l1[s] = armAsked[s]
ArmCached ==
  \A s \in DOMAIN armTlb : /\ s \in Arm!Sections
                           /\ armTlb[s] = l1[s] \/ (armCall # Arm!Idle /\ s \in armCall.done)

ArmInv == ArmCall /\ ArmTable /\ ArmCached

\* The sections the loop visits are among those the region covers.
LEMMA VisitedCovered ==
  ASSUME Arm!ArmConstants, NEW virt \in Nat, NEW size \in Nat,
         Arm!Visited(virt, size) \subseteq Arm!Sections
  PROVE  Arm!Visited(virt, size) \subseteq Arm!Covered(virt, size)
<1> DEFINE d == SectionSize
           n == (size + d - 1) \div d
           first == virt \div d
<1>1. d \in Nat \ {0} /\ size + d - 1 \in Nat
  BY DEF Arm!ArmConstants
<1>2. /\ n \in Nat /\ d * n \in Nat /\ d * n <= size + d - 1
  <2>1. /\ n \in Nat /\ (size + d - 1) % d \in 0 .. d - 1
        /\ d * n \in Nat /\ size + d - 1 = d * n + ((size + d - 1) % d)
    BY <1>1, DivMod
  <2> DEFINE r == (size + d - 1) % d
             k == d * n
  <2>2. r \in Nat /\ k \in Nat /\ size + d - 1 = k + r
    BY <1>1, <2>1
  <2> HIDE DEF r, k
  <2>3. k <= size + d - 1
    BY <1>1, <2>2
  <2> QED BY <2>1, <2>3 DEF k
<1>3. /\ first \in Nat /\ virt % d \in 0 .. d - 1
      /\ d * first \in Nat /\ virt = d * first + (virt % d)
  BY <1>1, DivMod
<1> DEFINE r == virt % d
<1>4. r \in Nat /\ r < d
  BY <1>1, <1>3
<1>5. \A i \in 0 .. n - 1 : (first + i) * d < virt + size /\ virt < (first + i + 1) * d
  <2> SUFFICES ASSUME NEW i \in 0 .. n - 1
               PROVE  (first + i) * d < virt + size /\ virt < (first + i + 1) * d
    OBVIOUS
  <2> HIDE DEF d, n, first, r
  <2> DEFINE f == d * first
             k == d * n
             j == d * i
  <2>1. f \in Nat /\ k \in Nat /\ j \in Nat
    BY <1>1, <1>2, <1>3 DEF r
  <2>2. j + d <= k
    BY <1>1, <1>2
  <2>3. (first + i) * d = f + j /\ (first + i + 1) * d = f + j + d
    BY <1>1, <1>3
  <2>4. virt = f + r /\ k <= size + d - 1
    BY <1>2, <1>3 DEF r
  <2> HIDE DEF f, k, j
  <2> QED BY <1>1, <1>4, <2>1, <2>2, <2>3, <2>4
<1>6. Arm!Visited(virt, size) = {first + i : i \in 0 .. n - 1}
  BY DEF Arm!Visited, Arm!l1_index
<1> QED BY <1>5, <1>6 DEF Arm!Covered

\* A call begins: what it visits is pending and asked for.
LEMMA ArmMapKeeps ==
  ASSUME Arm!ArmConstants, ArmInv, NEW m \in ArmMaps, Arm!map_region(m)
  PROVE  ArmInv'
<1> DEFINE shift == Arm!l1_index(m.phys) - Arm!l1_index(m.virt)
           visited == Arm!Visited(m.virt, m.size)
<1>1. /\ m.virt \in Nat /\ m.size \in Nat /\ m.phys \in Nat /\ visited \subseteq Arm!Sections
  BY DEF Arm!ArmConstants, Arm!InSpace
<1>2. visited \subseteq Arm!Covered(m.virt, m.size)
  BY <1>1, VisitedCovered
<1>3. Arm!l1_index(m.phys) \in Int /\ Arm!l1_index(m.virt) \in Int
  BY <1>1 DEF Arm!l1_index, Arm!ArmConstants
<1>4. /\ armCall' = [op |-> "map", todo |-> visited, done |-> {}, shift |-> shift, flags |-> m.flags]
      /\ armAsked' = [s \in Arm!Sections |->
           IF s \notin Arm!Covered(m.virt, m.size) THEN armAsked[s]
           ELSE IF s \in visited
                THEN Arm!FlagsEntry(s + Arm!l1_index(m.phys) - Arm!l1_index(m.virt), m.flags)
                ELSE Arm!Short]
      /\ l1' = l1 /\ armTlb' = armTlb /\ armCall = Arm!Idle
  BY DEF Arm!map_region, Arm!Wanted
<1>5. \A s \in visited : s \in Int /\ s + Arm!l1_index(m.phys) - Arm!l1_index(m.virt) = s + shift
  BY <1>1, <1>3 DEF Arm!Sections, Arm!ArmConstants
<1>6. \A s \in visited : armAsked'[s] = Arm!FlagsEntry(s + shift, m.flags)
  BY <1>1, <1>2, <1>4, <1>5
<1>7. armCall' # Arm!Idle /\ ArmPending' = visited
  <2>1. armCall'.op # Arm!Idle.op
    BY <1>4 DEF Arm!Idle
  <2> QED BY <1>4, <2>1 DEF ArmPending
<1> HIDE DEF shift, visited
<1>8. ArmCall'
  BY <1>1, <1>3, <1>4, <1>6 DEF ArmCall, shift
<1>9. ArmTable'
  BY <1>2, <1>4, <1>7 DEF ArmInv, ArmTable, ArmPending
<1>10. ArmCached'
  BY <1>4 DEF ArmInv, ArmCached
<1> QED BY <1>8, <1>9, <1>10 DEF ArmInv

LEMMA ArmUnmapKeeps ==
  ASSUME Arm!ArmConstants, ArmInv, NEW u \in ArmUnmaps, Arm!unmap_region(u)
  PROVE  ArmInv'
<1> DEFINE visited == Arm!Visited(u.virt, u.size)
<1>1. /\ u.virt \in Nat /\ u.size \in Nat /\ visited \subseteq Arm!Sections
  BY DEF Arm!ArmConstants, Arm!InSpace
<1>2. visited \subseteq Arm!Covered(u.virt, u.size)
  BY <1>1, VisitedCovered
<1>4. /\ armCall' = [op |-> "unmap", todo |-> visited, done |-> {}]
      /\ armAsked' = [s \in Arm!Sections |->
           IF s \notin Arm!Covered(u.virt, u.size) THEN armAsked[s]
           ELSE IF s \in visited THEN NoEntry ELSE Arm!Short]
      /\ l1' = l1 /\ armTlb' = armTlb /\ armCall = Arm!Idle
  BY DEF Arm!unmap_region, Arm!Wanted
<1>6. \A s \in visited : armAsked'[s] = NoEntry
  BY <1>1, <1>2, <1>4
<1>7. armCall' # Arm!Idle /\ ArmPending' = visited
  <2>1. armCall'.op # Arm!Idle.op
    BY <1>4 DEF Arm!Idle
  <2> QED BY <1>4, <2>1 DEF ArmPending
<1> HIDE DEF visited
<1>8. ArmCall'
  BY <1>1, <1>4, <1>6 DEF ArmCall
<1>9. ArmTable'
  BY <1>2, <1>4, <1>7 DEF ArmInv, ArmTable, ArmPending
<1>10. ArmCached'
  BY <1>4 DEF ArmInv, ArmCached
<1> QED BY <1>8, <1>9, <1>10 DEF ArmInv

\* An entry written is what was asked for, and may be cached as it was.
LEMMA ArmWriteKeeps ==
  ASSUME ArmInv, NEW s \in Arm!Sections, Arm!map_section(s) \/ Arm!unmap_section(s)
  PROVE  ArmInv'
<1>1. CASE Arm!map_section(s)
  <2>1. /\ armCall.op = "map" /\ s \in armCall.todo
        /\ l1' = [l1 EXCEPT ![s] = Arm!FlagsEntry(s + armCall.shift, armCall.flags)]
        /\ armCall' = [armCall EXCEPT !.todo = @ \ {s}, !.done = @ \cup {s}]
        /\ armTlb' = armTlb /\ armAsked' = armAsked
    BY <1>1 DEF Arm!map_section, Arm!Visiting
  <2>2. armCall # Arm!Idle /\ armCall.op # "unmap"
    BY <2>1 DEF Arm!Idle
  <2>3. /\ armCall \in [op : {"map"}, todo : SUBSET Arm!Sections, done : SUBSET Arm!Sections,
                        shift : Int, flags : {armCall.flags}]
        /\ \A q \in armCall.todo : armAsked[q] = Arm!FlagsEntry(q + armCall.shift, armCall.flags)
    BY <2>2 DEF ArmInv, ArmCall
  <2>4. /\ armCall' \in [op : {"map"}, todo : SUBSET Arm!Sections, done : SUBSET Arm!Sections,
                         shift : Int, flags : {armCall.flags}]
        /\ armCall'.todo = armCall.todo \ {s} /\ armCall'.done = armCall.done \cup {s}
        /\ armCall'.shift = armCall.shift /\ armCall'.flags = armCall.flags /\ armCall'.op = "map"
    BY <2>1, <2>3
  <2>5. armCall' # Arm!Idle
    BY <2>4 DEF Arm!Idle
  <2>6. ArmCall'
    BY <2>1, <2>3, <2>4 DEF ArmCall
  <2>7. /\ DOMAIN l1' = Arm!Sections /\ l1' = [q \in Arm!Sections |-> l1'[q]]
        /\ l1'[s] = armAsked[s] /\ \A q \in Arm!Sections : q # s => l1'[q] = l1[q]
    BY <2>1, <2>3 DEF ArmInv, ArmTable
  <2>8. ArmTable'
    BY <2>1, <2>2, <2>4, <2>5, <2>7 DEF ArmInv, ArmTable, ArmPending
  <2>9. ArmCached'
    BY <2>1, <2>4, <2>5, <2>7 DEF ArmInv, ArmCached
  <2> QED BY <2>6, <2>8, <2>9 DEF ArmInv
<1>2. CASE Arm!unmap_section(s)
  <2>1. /\ armCall.op = "unmap" /\ s \in armCall.todo /\ armCall.done = {}
        /\ l1' = [l1 EXCEPT ![s] = NoEntry]
        /\ armCall' = [armCall EXCEPT !.done = {s}]
        /\ armTlb' = armTlb /\ armAsked' = armAsked
    BY <1>2 DEF Arm!unmap_section, Arm!Visiting
  <2>2. armCall # Arm!Idle /\ armCall.op # "map"
    BY <2>1 DEF Arm!Idle
  <2>3. /\ armCall \in [op : {"unmap"}, todo : SUBSET Arm!Sections, done : SUBSET Arm!Sections]
        /\ \A q \in armCall.todo : armAsked[q] = NoEntry
    BY <2>2 DEF ArmInv, ArmCall
  <2>4. /\ armCall' \in [op : {"unmap"}, todo : SUBSET Arm!Sections, done : SUBSET Arm!Sections]
        /\ armCall'.todo = armCall.todo /\ armCall'.done = {s} /\ armCall'.op = "unmap"
    BY <2>1, <2>3
  <2>5. armCall' # Arm!Idle
    BY <2>4 DEF Arm!Idle
  <2>7. /\ DOMAIN l1' = Arm!Sections /\ l1' = [q \in Arm!Sections |-> l1'[q]]
        /\ l1'[s] = NoEntry /\ \A q \in Arm!Sections : q # s => l1'[q] = l1[q]
    BY <2>1, <2>3 DEF ArmInv, ArmTable
  <2>6. ArmCall'
    BY <2>1, <2>3, <2>4, <2>7 DEF ArmCall
  <2>8. ArmTable'
    BY <2>1, <2>2, <2>3, <2>4, <2>5, <2>7 DEF ArmInv, ArmTable, ArmPending
  <2>9. ArmCached'
    BY <2>1, <2>2, <2>4, <2>5, <2>7 DEF ArmInv, ArmCached
  <2> QED BY <2>6, <2>8, <2>9 DEF ArmInv
<1> QED BY <1>1, <1>2

\* Invalidating takes the section's translation away.
LEMMA ArmInvalidateKeeps ==
  ASSUME ArmInv, NEW s \in Arm!Sections, Arm!unmap_invalidate(s)
  PROVE  ArmInv'
<1>1. /\ armCall.op = "unmap" /\ armCall.done = {s}
      /\ armTlb' = [q \in DOMAIN armTlb \ {s} |-> armTlb[q]]
      /\ armCall' = [armCall EXCEPT !.todo = @ \ {s}, !.done = {}]
      /\ l1' = l1 /\ armAsked' = armAsked
  BY DEF Arm!unmap_invalidate, Arm!invalidate_tlb_entry
<1>2. armCall # Arm!Idle /\ armCall.op # "map"
  BY <1>1 DEF Arm!Idle
<1>3. /\ armCall \in [op : {"unmap"}, todo : SUBSET Arm!Sections, done : SUBSET Arm!Sections]
      /\ \A q \in armCall.todo : armAsked[q] = NoEntry
      /\ l1[s] = NoEntry
  BY <1>1, <1>2 DEF ArmInv, ArmCall
<1>4. /\ armCall' \in [op : {"unmap"}, todo : SUBSET Arm!Sections, done : SUBSET Arm!Sections]
      /\ armCall'.todo = armCall.todo \ {s} /\ armCall'.done = {} /\ armCall'.op = "unmap"
  BY <1>1, <1>3
<1>5. armCall' # Arm!Idle
  BY <1>4 DEF Arm!Idle
<1>6. ArmCall'
  BY <1>1, <1>3, <1>4 DEF ArmCall
<1>7. ArmPending' = ArmPending
  BY <1>1, <1>2, <1>4, <1>5 DEF ArmPending
<1>8. ArmTable'
  BY <1>1, <1>7 DEF ArmInv, ArmTable
<1>9. ArmCached'
  BY <1>1, <1>2 DEF ArmInv, ArmCached
<1> QED BY <1>6, <1>8, <1>9 DEF ArmInv

\* A call returns: nothing is pending, and nothing stale is cached.
LEMMA ArmReturnKeeps ==
  ASSUME ArmInv, Arm!map_return \/ Arm!unmap_return
  PROVE  ArmInv'
<1>1. /\ armCall.op \in {"map", "unmap"} /\ armCall.todo = {} /\ armCall' = Arm!Idle
      /\ l1' = l1 /\ armAsked' = armAsked
      /\ (armCall.op = "map" /\ armTlb' = << >>) \/ (armCall.op = "unmap" /\ armTlb' = armTlb)
  BY DEF Arm!map_return, Arm!unmap_return
<1>2. armCall # Arm!Idle
  BY <1>1 DEF Arm!Idle
<1>3. ArmPending = {} /\ ArmPending' = {}
  BY <1>1, <1>2 DEF ArmPending
<1>4. ArmCall' /\ ArmTable'
  BY <1>1, <1>3 DEF ArmInv, ArmCall, ArmTable
<1>5. ArmCached'
  <2>1. CASE armTlb' = << >>
    BY <2>1 DEF ArmCached
  <2>2. CASE armCall.op = "unmap" /\ armTlb' = armTlb
    <3>1. armCall.done = {}
      BY <1>1, <1>2, <2>2 DEF ArmInv, ArmCall
    <3> QED BY <1>1, <2>2, <3>1 DEF ArmInv, ArmCached
  <2> QED BY <1>1, <2>1, <2>2
<1> QED BY <1>4, <1>5 DEF ArmInv

LEMMA ArmInitKeeps ==
  ASSUME Arm!init, ArmInv, armCall = Arm!Idle
  PROVE  ArmInv'
<1>1. /\ l1' = Arm!FirstTable /\ armAsked' = Arm!FirstTable /\ armTlb' = << >> /\ armCall' = armCall
  BY DEF Arm!init
<1>2. DOMAIN Arm!FirstTable = Arm!Sections
      /\ Arm!FirstTable = [s \in Arm!Sections |-> Arm!FirstTable[s]]
  BY DEF Arm!FirstTable
<1> HIDE DEF Arm!FirstTable
<1> QED BY <1>1, <1>2 DEF ArmInv, ArmCall, ArmTable, ArmCached, ArmPending

\* Nothing runs before init.
ArmOff == armState = "off" => armCall = Arm!Idle

LEMMA ArmInvariance == Arm!ArmConstants => (Arm!Spec => [](ArmInv /\ ArmOff))
<1> SUFFICES ASSUME Arm!ArmConstants PROVE Arm!Spec => [](ArmInv /\ ArmOff)
  OBVIOUS
<1>1. Arm!Init => ArmInv /\ ArmOff
  BY DEF Arm!Init, ArmInv, ArmCall, ArmTable, ArmCached, ArmPending, ArmOff
<1>2. (ArmInv /\ ArmOff) /\ [Arm!Next]_(Arm!armVars) => (ArmInv /\ ArmOff)'
  <2> SUFFICES ASSUME ArmInv, ArmOff, [Arm!Next]_(Arm!armVars) PROVE ArmInv' /\ ArmOff'
    OBVIOUS
  <2>1. CASE Arm!init
    BY <2>1, ArmInitKeeps DEF Arm!init, ArmOff
  <2>2. ASSUME NEW m \in ArmMaps, Arm!map_region(m) PROVE ArmInv' /\ ArmOff'
    BY <2>2, ArmMapKeeps DEF Arm!map_region, ArmOff
  <2>3. ASSUME NEW u \in ArmUnmaps, Arm!unmap_region(u) PROVE ArmInv' /\ ArmOff'
    BY <2>3, ArmUnmapKeeps DEF Arm!unmap_region, ArmOff
  <2>4. ASSUME NEW s \in Arm!Sections, Arm!map_section(s) PROVE ArmInv' /\ ArmOff'
    BY <2>4, ArmWriteKeeps DEF Arm!map_section, Arm!Visiting, ArmOff
  <2>5. ASSUME NEW s \in Arm!Sections, Arm!unmap_section(s) PROVE ArmInv' /\ ArmOff'
    BY <2>5, ArmWriteKeeps DEF Arm!unmap_section, Arm!Visiting, ArmOff
  <2>6. ASSUME NEW s \in Arm!Sections, Arm!unmap_invalidate(s) PROVE ArmInv' /\ ArmOff'
    BY <2>6, ArmInvalidateKeeps DEF Arm!unmap_invalidate, ArmOff
  <2>7. ASSUME NEW s \in Arm!Sections, Arm!tlb_fill(s) PROVE ArmInv' /\ ArmOff'
    <3>1. /\ armTlb' = [q \in DOMAIN armTlb \cup {s} |-> IF q = s THEN l1[s] ELSE armTlb[q]]
          /\ l1' = l1 /\ armCall' = armCall /\ armAsked' = armAsked /\ armState' = armState
      BY <2>7 DEF Arm!tlb_fill
    <3> QED BY <3>1 DEF ArmInv, ArmCall, ArmTable, ArmCached, ArmPending, ArmOff
  <2>8. CASE Arm!map_return \/ Arm!unmap_return
    BY <2>8, ArmReturnKeeps DEF Arm!map_return, Arm!unmap_return, ArmOff
  <2>9. CASE Arm!fault \/ Arm!Stopped \/ UNCHANGED Arm!armVars
    <3>1. /\ l1' = l1 /\ armTlb' = armTlb /\ armCall' = armCall /\ armAsked' = armAsked
          /\ armState' = armState \/ armState' = "fault"
      BY <2>9 DEF Arm!fault, Arm!Stopped, Arm!armVars
    <3> QED BY <3>1 DEF ArmInv, ArmCall, ArmTable, ArmCached, ArmPending, ArmOff
  <2> QED BY <2>1, <2>2, <2>3, <2>4, <2>5, <2>6, <2>7, <2>8, <2>9 DEF Arm!Next
<1> QED BY <1>1, <1>2, PTL DEF Arm!Spec

\* Between calls the ARM table is what the calls asked for, but for the last
\* section of a region whose size is rounded up from inside its first, and no
\* translation outlives its call: for every table size, region and memory map.
LEMMA ArmRight == Arm!ArmConstants => (Arm!Spec => []Arm!SectionsRight)
<1> SUFFICES ASSUME Arm!ArmConstants PROVE Arm!Spec => []Arm!SectionsRight
  OBVIOUS
<1>1. ArmInv => Arm!SectionsRight
  BY DEF ArmInv, ArmTable, ArmCached, ArmPending, Arm!SectionsRight
<1> QED BY <1>1, ArmInvariance, PTL
-----------------------------------------------------------------------------
(*** The x86 page tables ***************************************************)

X86Bits == {"WRITE", "USER", "DEVICE"}
X86Entry == {NoEntry} \cup [frame : Nat, flags : SUBSET X86Bits]
IsTable(i) == pd[i] # NoEntry /\ ~ pd[i].ps
IsLarge(i) == pd[i] # NoEntry /\ pd[i].ps

\* Tables in use belong to one directory entry each; those not yet taken from
\* the pool are empty.
X86Tables ==
  /\ pd \in [X86!Pdis -> {NoEntry} \cup {X86!PsPde(i) : i \in X86!Pdis}
                         \cup {X86!PtPde(t) : t \in 0 .. PoolCount - 1}]
  /\ next \in 0 .. PoolCount
  /\ pool \in [0 .. PoolCount - 1 -> [X86!Ptis -> X86Entry]]
  /\ \A i \in X86!Pdis : IsTable(i) => pd[i].table < next
  /\ \A i, j \in X86!Pdis : i # j /\ IsTable(i) /\ IsTable(j) => pd[i].table # pd[j].table
  /\ \A t \in next .. PoolCount - 1, k \in X86!Ptis : pool[t][k] = NoEntry

\* The pages of the call under way that its loop has not written yet, and the
\* pages those stand for: all of a large page goes at once.
X86Rest ==
  IF x86Call = X86!Idle THEN {}
  ELSE {p \in X86!Pages : /\ x86Call.page <= p /\ p < x86Call.page + x86Call.left
                          /\ p = x86Call.page => x86Call.flush = {}}
X86Waiting ==
  IF x86Call.op = "unmap" THEN {p \in X86!Pages : X86!SameEntry(p) \cap X86Rest # {}} ELSE X86Rest

\* The call under way asked for what its loop is going to write.
X86Range == /\ x86Call.page + x86Call.left <= PdEntries * PtEntries
            /\ x86Call.flush # {} => x86Call.left > 0
MapCalls == [op : {"map"}, page : Nat, frame : Nat, left : Nat, flags : SUBSET X86Bits,
             flush : SUBSET X86!Pages]
UnmapCalls == [op : {"unmap"}, page : Nat, left : Nat, flush : SUBSET X86!Pages]
X86Calls ==
  \/ x86Call = X86!Idle
  \/ /\ x86Call \in MapCalls /\ X86Range
     /\ \A p \in X86Waiting : asked[p] = X86!Pte(x86Call.frame + p - x86Call.page, x86Call.flags)
  \/ /\ x86Call \in UnmapCalls /\ X86Range
     /\ \A p \in X86Waiting : asked[p] = NoEntry

X86Walks == /\ DOMAIN asked = X86!Pages
            /\ \A p \in X86!Pages : p \notin X86Waiting => X86!Walk(p) = asked[p]

X86Cached ==
  \A p \in DOMAIN tlb : /\ p \in X86!Pages
                        /\ tlb[p] = X86!Walk(p) \/ (x86Call # X86!Idle /\ p \in x86Call.flush)

X86Inv == X86Tables /\ X86Calls /\ X86Walks /\ X86Cached

\* Nothing runs before init.
X86Off == state = "off" => /\ pd = [i \in X86!Pdis |-> NoEntry]
                           /\ tlb = << >> /\ x86Call = X86!Idle

\* A product grows with either factor.
LEMMA ProductGrows ==
  ASSUME NEW d \in Nat, NEW a \in Int, NEW b \in Int, a <= b
  PROVE  d * a <= d * b
<1>1. b - a \in Nat /\ d * (b - a) = d * b - d * a
  OBVIOUS
<1>2. d * (b - a) >= 0
  BY <1>1
<1> QED BY <1>1, <1>2

\* A page is its place in the directory and in the table.
LEMMA PageIndex ==
  ASSUME X86!MmuConstants, NEW p \in X86!Pages
  PROVE  /\ X86!pd_index(p) \in X86!Pdis /\ X86!pt_index(p) \in X86!Ptis
         /\ p = PtEntries * X86!pd_index(p) + X86!pt_index(p)
<1> DEFINE d == PtEntries
           i == p \div d
           k == p % d
<1>1. d \in Nat \ {0} /\ PdEntries \in Nat \ {0} /\ p \in Nat /\ p < PdEntries * d
  BY DEF X86!MmuConstants, X86!Pages
<1>2. i \in Nat /\ k \in 0 .. d - 1 /\ d * i \in Nat /\ p = d * i + k
  BY <1>1, DivMod
<1>3. i < PdEntries
  <2> SUFFICES ASSUME PdEntries <= i PROVE FALSE
    BY <1>1, <1>2
  <2> HIDE DEF d, i, k
  <2>1. d * PdEntries <= d * i
    BY <1>1, <1>2, ProductGrows
  <2>2. PdEntries * d = d * PdEntries
    BY <1>1
  <2> DEFINE x == d * PdEntries
             y == d * i
  <2>3. x \in Nat /\ y \in Nat /\ x <= y /\ p = y + k /\ p < x
    BY <1>1, <1>2, <2>1, <2>2
  <2> HIDE DEF x, y
  <2> QED BY <1>1, <1>2, <2>3
<1> HIDE DEF i
<1>4. i % PdEntries = i
  BY <1>1, <1>2, <1>3
<1> QED BY <1>1, <1>2, <1>3, <1>4 DEF X86!pd_index, X86!pt_index, X86!Pdis, X86!Ptis, i

\* Two pages are one when they agree in both places.
LEMMA PageUnique ==
  ASSUME X86!MmuConstants, NEW p \in X86!Pages, NEW q \in X86!Pages,
         X86!pd_index(p) = X86!pd_index(q), X86!pt_index(p) = X86!pt_index(q)
  PROVE  p = q
<1>1. p = PtEntries * X86!pd_index(p) + X86!pt_index(p)
  BY PageIndex
<1>2. q = PtEntries * X86!pd_index(q) + X86!pt_index(q)
  BY PageIndex
<1> QED BY <1>1, <1>2

\* The pages the loop counts are the pages the region overlaps.
LEMMA LoopCovers ==
  ASSUME X86!MmuConstants, NEW virt \in Nat, NEW size \in Nat,
         virt + size <= PdEntries * PtEntries * PageSize
  PROVE  /\ X86!First(virt) \in Nat /\ X86!PageCount(virt, size) \in Nat
         /\ X86!First(virt) + X86!PageCount(virt, size) <= PdEntries * PtEntries
         /\ \A p \in X86!Pages : p \in X86!Overlapped(virt, size) <=>
              X86!First(virt) <= p /\ p < X86!First(virt) + X86!PageCount(virt, size)
<1> DEFINE d == PageSize
           f == virt \div d
           r == virt % d
           n == (size + r + d - 1) \div d
           s == (size + r + d - 1) % d
           N == PdEntries * PtEntries
<1>1. d \in Nat \ {0} /\ N \in Nat
  BY DEF X86!MmuConstants
<1>2. f \in Nat /\ r \in 0 .. d - 1 /\ d * f \in Nat /\ virt = d * f + r
  BY <1>1, DivMod
<1>3. size + r + d - 1 \in Nat
  BY <1>1, <1>2
<1>4. n \in Nat /\ s \in 0 .. d - 1 /\ d * n \in Nat /\ size + r + d - 1 = d * n + s
  BY <1>1, <1>3, DivMod
<1>5. X86!First(virt) = f /\ X86!PageCount(virt, size) = n
  BY DEF X86!First, X86!PageCount
<1>6. virt + size <= d * N
  BY <1>1
<1> HIDE DEF d, f, r, n, s, N
<1> DEFINE df == d * f
           dn == d * n
           dN == d * N
<1>7. df \in Nat /\ dn \in Nat /\ dN \in Nat /\ virt = df + r /\ size + r + d - 1 = dn + s
  BY <1>1, <1>2, <1>4
<1>8. f + n <= N
  <2> SUFFICES ASSUME N <= f + n - 1 PROVE FALSE
    BY <1>1, <1>2, <1>4
  <2>1. dN <= d * (f + n - 1)
    BY <1>1, <1>2, <1>4, ProductGrows
  <2>2. d * (f + n - 1) = df + dn - d
    BY <1>1, <1>2, <1>4
  <2> HIDE DEF df, dn, dN
  <2>3. virt + size <= dN
    BY <1>6 DEF dN
  <2> QED BY <1>1, <1>2, <1>4, <1>7, <2>1, <2>2, <2>3
<1>9. ASSUME NEW p \in Nat
      PROVE  (p * d < virt + size /\ virt < (p + 1) * d) <=> (f <= p /\ p < f + n)
  <2> DEFINE dp == d * p
  <2>1. dp \in Nat /\ p * d = dp /\ (p + 1) * d = dp + d
    BY <1>1
  <2>2. CASE p < f
    <3>1. d * (p + 1) <= df
      BY <1>1, <1>2, <2>2, ProductGrows
    <3>2. d * (p + 1) = dp + d
      BY <1>1
    <3> HIDE DEF df, dp
    <3> QED BY <1>1, <1>2, <1>7, <2>1, <2>2, <3>1, <3>2
  <2>3. CASE f <= p /\ p < f + n
    <3>1. df <= dp
      BY <1>1, <1>2, <2>3, ProductGrows
    <3>2. d * (p + 1) <= d * (f + n)
      BY <1>1, <1>2, <1>4, <2>3, ProductGrows
    <3>3. d * (p + 1) = dp + d /\ d * (f + n) = df + dn
      BY <1>1, <1>2, <1>4
    <3> HIDE DEF df, dn, dp
    <3> QED BY <1>1, <1>2, <1>4, <1>7, <2>1, <2>3, <3>1, <3>2, <3>3
  <2>4. CASE f + n <= p
    <3>1. d * (f + n) <= dp
      BY <1>1, <1>2, <1>4, <2>4, ProductGrows
    <3>2. d * (f + n) = df + dn
      BY <1>1, <1>2, <1>4
    <3> HIDE DEF df, dn, dp
    <3> QED BY <1>1, <1>2, <1>4, <1>7, <2>1, <2>4, <3>1, <3>2
  <2> HIDE DEF df, dn, dN, dp
  <2> QED BY <1>1, <1>2, <1>4, <2>2, <2>3, <2>4
<1>10. \A p \in X86!Pages : p \in X86!Overlapped(virt, size) <=> f <= p /\ p < f + n
  BY <1>9 DEF X86!Overlapped, X86!Pages, d
<1> HIDE DEF df, dn, dN
<1> QED BY <1>2, <1>4, <1>5, <1>8, <1>10 DEF N

\* What a directory entry may be.
LEMMA EntryKinds ==
  ASSUME X86Tables, NEW i \in X86!Pdis
  PROVE  \/ pd[i] = NoEntry
         \/ IsLarge(i) /\ \E j \in X86!Pdis : pd[i] = X86!PsPde(j)
         \/ /\ IsTable(i) /\ pd[i].table \in 0 .. PoolCount - 1
            /\ pd[i] = X86!PtPde(pd[i].table) /\ pd[i].table < next
<1>1. CASE pd[i] = NoEntry
  BY <1>1
<1>2. ASSUME NEW j \in X86!Pdis, pd[i] = X86!PsPde(j), pd[i] # NoEntry PROVE IsLarge(i)
  BY <1>2 DEF X86!PsPde, IsLarge
<1>3. ASSUME NEW t \in 0 .. PoolCount - 1, pd[i] = X86!PtPde(t), pd[i] # NoEntry
      PROVE  IsTable(i) /\ pd[i].table = t
  BY <1>3 DEF X86!PtPde, IsTable
<1>4. pd[i] \in {NoEntry} \cup {X86!PsPde(j) : j \in X86!Pdis}
                \cup {X86!PtPde(t) : t \in 0 .. PoolCount - 1}
  BY DEF X86Tables
<1>5. IsTable(i) => pd[i].table < next
  BY DEF X86Tables
<1> QED BY <1>1, <1>2, <1>3, <1>4, <1>5

\* The walk, by what the directory entry is.
LEMMA WalkFacts ==
  ASSUME NEW p
  PROVE  /\ pd[X86!pd_index(p)] = NoEntry => X86!Walk(p) = NoEntry
         /\ IsTable(X86!pd_index(p)) =>
              X86!Walk(p) = pool[pd[X86!pd_index(p)].table][X86!pt_index(p)]
         /\ IsLarge(X86!pd_index(p)) =>
              X86!Walk(p) = X86!Pte(pd[X86!pd_index(p)].frame + X86!pt_index(p), pd[X86!pd_index(p)].flags)
  BY DEF X86!Walk, IsTable, IsLarge

\* Every page is among those that share its entry.
LEMMA OwnEntry == ASSUME NEW p \in X86!Pages PROVE p \in X86!SameEntry(p)
  BY DEF X86!SameEntry

\* Writing an entry of a table changes the walk of one page.
LEMMA EntryWritten ==
  ASSUME X86!MmuConstants, X86Tables, NEW q \in X86!Pages, IsTable(X86!pd_index(q)), NEW e \in X86Entry,
         pd' = pd, next' = next,
         pool' = [pool EXCEPT ![pd[X86!pd_index(q)].table][X86!pt_index(q)] = e]
  PROVE  /\ X86Tables' /\ X86!Walk(q)' = e
         /\ \A p \in X86!Pages : p # q => X86!Walk(p)' = X86!Walk(p)
         /\ \A p \in X86!Pages : X86!SameEntry(p)' = X86!SameEntry(p)
<1> DEFINE i == X86!pd_index(q)
           k == X86!pt_index(q)
           t == pd[i].table
<1>1. i \in X86!Pdis /\ k \in X86!Ptis
  BY PageIndex
<1>2. t \in 0 .. PoolCount - 1 /\ t < next
  BY <1>1, EntryKinds DEF IsTable, IsLarge
<1>3. /\ pool' \in [0 .. PoolCount - 1 -> [X86!Ptis -> X86Entry]]
      /\ pool'[t][k] = e
      /\ \A u \in 0 .. PoolCount - 1, j \in X86!Ptis : u # t \/ j # k => pool'[u][j] = pool[u][j]
  <2>1. pool \in [0 .. PoolCount - 1 -> [X86!Ptis -> X86Entry]]
    BY DEF X86Tables
  <2>2. pool' = [pool EXCEPT ![t][k] = e]
    OBVIOUS
  <2>3. t \in 0 .. PoolCount - 1 /\ k \in X86!Ptis
    BY <1>1, <1>2
  <2> DEFINE T == 0 .. PoolCount - 1
             K == X86!Ptis
  <2>4. pool \in [T -> [K -> X86Entry]] /\ t \in T /\ k \in K
    BY <2>1, <2>3
  <2> HIDE DEF i, k, t, T, K
  <2> DEFINE row == [pool[t] EXCEPT ![k] = e]
  <2>5. row \in [K -> X86Entry] /\ row[k] = e /\ \A j \in K : j # k => row[j] = pool[t][j]
    <3>1. pool[t] \in [K -> X86Entry]
      BY <2>4
    <3> QED BY <2>4, <3>1
  <2>6. pool' = [pool EXCEPT ![t] = row]
    BY <2>2, Zenon
  <2> HIDE DEF row
  <2>7. pool' \in [T -> [K -> X86Entry]] /\ pool'[t] = row /\ \A u \in T : u # t => pool'[u] = pool[u]
    BY <2>4, <2>5, <2>6
  <2>8. \A u \in T, j \in K : u # t \/ j # k => pool'[u][j] = pool[u][j]
    BY <2>5, <2>7
  <2> QED BY <2>5, <2>7, <2>8 DEF T, K
<1>4. \A j \in X86!Pdis : (IsTable(j)' <=> IsTable(j)) /\ (IsLarge(j)' <=> IsLarge(j))
  BY DEF IsTable, IsLarge
<1>5. X86Tables'
  <2>1. \A u \in next .. PoolCount - 1, j \in X86!Ptis : u \in 0 .. PoolCount - 1 /\ u # t
    BY <1>2 DEF X86Tables, X86!MmuConstants
  <2>2. \A u \in next' .. PoolCount - 1, j \in X86!Ptis : pool'[u][j] = NoEntry
    BY <1>3, <2>1 DEF X86Tables
  <2> QED BY <1>3, <1>4, <2>2 DEF X86Tables
<1>6. X86!Walk(q)' = e
  <2>1. X86!Walk(q)' = pool'[t][k]
    BY DEF X86!Walk, IsTable
  <2> QED BY <1>3, <2>1
<1>7. ASSUME NEW p \in X86!Pages, p # q PROVE X86!Walk(p)' = X86!Walk(p)
  <2> DEFINE j == X86!pd_index(p)
             l == X86!pt_index(p)
  <2>1. j \in X86!Pdis /\ l \in X86!Ptis
    BY PageIndex
  <2>2. CASE IsTable(j)
    <3>1. pd[j].table \in 0 .. PoolCount - 1
      BY <2>1, <2>2, EntryKinds DEF IsTable, IsLarge
    <3>2. pd[j].table # t \/ l # k
      <4>1. CASE j = i
        <5>1. l # k
          BY <1>7, <4>1, PageUnique
        <5> QED BY <5>1
      <4>2. CASE j # i
        BY <1>1, <2>1, <2>2, <4>2 DEF X86Tables
      <4> QED BY <4>1, <4>2
    <3>3. pool'[pd[j].table][l] = pool[pd[j].table][l]
      BY <1>3, <2>1, <3>1, <3>2
    <3> QED BY <2>2, <3>3 DEF X86!Walk, IsTable
  <2>3. CASE ~ IsTable(j)
    BY <2>3 DEF X86!Walk, IsTable
  <2> QED BY <2>2, <2>3
<1>8. \A p \in X86!Pages : X86!SameEntry(p)' = X86!SameEntry(p)
  BY DEF X86!SameEntry
<1> QED BY <1>5, <1>6, <1>7, <1>8

\* So does a table taken from the pool.
LEMMA TableTaken ==
  ASSUME X86!MmuConstants, X86Tables, NEW q \in X86!Pages, NEW e \in X86Entry,
         pd[X86!pd_index(q)] = NoEntry, next < PoolCount, next' = next + 1,
         pd' = [pd EXCEPT ![X86!pd_index(q)] = X86!PtPde(next)],
         pool' = [pool EXCEPT ![next][X86!pt_index(q)] = e]
  PROVE  /\ X86Tables' /\ X86!Walk(q)' = e
         /\ \A p \in X86!Pages : p # q => X86!Walk(p)' = X86!Walk(p)
         /\ \A p \in X86!Pages : X86!SameEntry(p)' = X86!SameEntry(p)
<1> DEFINE i == X86!pd_index(q)
           k == X86!pt_index(q)
<1>1. i \in X86!Pdis /\ k \in X86!Ptis
  BY PageIndex
<1>2. next \in Nat /\ next \in 0 .. PoolCount - 1 /\ PoolCount \in Nat
  BY DEF X86Tables, X86!MmuConstants
<1>3. /\ pool' \in [0 .. PoolCount - 1 -> [X86!Ptis -> X86Entry]]
      /\ pool'[next][k] = e
      /\ \A u \in 0 .. PoolCount - 1, j \in X86!Ptis : u # next \/ j # k => pool'[u][j] = pool[u][j]
  <2>1. pool \in [0 .. PoolCount - 1 -> [X86!Ptis -> X86Entry]]
    BY DEF X86Tables
  <2>2. pool' = [pool EXCEPT ![next][k] = e]
    OBVIOUS
  <2>3. next \in 0 .. PoolCount - 1 /\ k \in X86!Ptis
    BY <1>1, <1>2
  <2> DEFINE T == 0 .. PoolCount - 1
             K == X86!Ptis
  <2>4. pool \in [T -> [K -> X86Entry]] /\ next \in T /\ k \in K
    BY <2>1, <2>3
  <2> HIDE DEF i, k, T, K
  <2> DEFINE row == [pool[next] EXCEPT ![k] = e]
  <2>5. row \in [K -> X86Entry] /\ row[k] = e /\ \A j \in K : j # k => row[j] = pool[next][j]
    <3>1. pool[next] \in [K -> X86Entry]
      BY <2>4
    <3> QED BY <2>4, <3>1
  <2>6. pool' = [pool EXCEPT ![next] = row]
    BY <2>2, Zenon
  <2> HIDE DEF row
  <2>7. pool' \in [T -> [K -> X86Entry]] /\ pool'[next] = row /\ \A u \in T : u # next => pool'[u] = pool[u]
    BY <2>4, <2>5, <2>6
  <2>8. \A u \in T, j \in K : u # next \/ j # k => pool'[u][j] = pool[u][j]
    BY <2>5, <2>7
  <2> QED BY <2>5, <2>7, <2>8 DEF T, K
<1>4. /\ pd' \in [X86!Pdis -> {NoEntry} \cup {X86!PsPde(j) : j \in X86!Pdis}
                              \cup {X86!PtPde(t) : t \in 0 .. PoolCount - 1}]
      /\ pd'[i] = X86!PtPde(next)
      /\ \A j \in X86!Pdis : j # i => pd'[j] = pd[j]
  BY <1>1, <1>2 DEF X86Tables
<1>5. IsTable(i)' /\ ~ IsLarge(i)' /\ pd'[i].table = next
  <2>1. X86!PtPde(next) # NoEntry
    BY <1>2 DEF X86!MmuConstants
  <2> QED BY <1>4, <2>1 DEF X86!PtPde, IsTable, IsLarge
<1>6. \A j \in X86!Pdis : j # i => (IsTable(j)' <=> IsTable(j)) /\ (IsLarge(j)' <=> IsLarge(j))
  BY <1>4 DEF IsTable, IsLarge
<1>7. \A j \in X86!Pdis : IsTable(j) => pd[j].table \in 0 .. PoolCount - 1 /\ pd[j].table < next
  BY EntryKinds DEF IsTable, IsLarge
<1>8. X86Tables'
  <2>1. \A j \in X86!Pdis : IsTable(j)' => pd'[j].table < next'
    BY <1>2, <1>4, <1>5, <1>6, <1>7
  <2>2. \A j, l \in X86!Pdis : j # l /\ IsTable(j)' /\ IsTable(l)' => pd'[j].table # pd'[l].table
    <3> SUFFICES ASSUME NEW j \in X86!Pdis, NEW l \in X86!Pdis, j # l, IsTable(j)', IsTable(l)'
                 PROVE  pd'[j].table # pd'[l].table
      OBVIOUS
    <3>1. CASE j # i /\ l # i
      BY <1>4, <1>6, <3>1 DEF X86Tables
    <3>2. CASE j = i
      <4>1. pd'[l].table < next
        BY <1>4, <1>6, <1>7, <3>2
      <4>2. pd'[l].table \in Nat
        BY <1>2, <1>4, <1>6, <1>7, <3>2
      <4> QED BY <1>2, <1>5, <3>2, <4>1, <4>2
    <3>3. CASE l = i
      <4>1. pd'[j].table < next
        BY <1>4, <1>6, <1>7, <3>3
      <4>2. pd'[j].table \in Nat
        BY <1>2, <1>4, <1>6, <1>7, <3>3
      <4> QED BY <1>2, <1>5, <3>3, <4>1, <4>2
    <3> QED BY <3>1, <3>2, <3>3
  <2>3. \A u \in next' .. PoolCount - 1, j \in X86!Ptis : pool'[u][j] = NoEntry
    <3>1. \A u \in next' .. PoolCount - 1 : u \in next .. PoolCount - 1 /\ u # next /\ u \in 0 .. PoolCount - 1
      BY <1>2
    <3> QED BY <1>3, <3>1 DEF X86Tables
  <2>4. next' \in 0 .. PoolCount
    BY <1>2
  <2> QED BY <1>3, <1>4, <2>1, <2>2, <2>3, <2>4 DEF X86Tables
<1>9. ASSUME NEW p \in X86!Pages, X86!pd_index(p) = i
      PROVE  X86!Walk(p)' = pool'[next][X86!pt_index(p)]
  BY <1>5, <1>9 DEF X86!Walk, IsTable
<1>10. X86!Walk(q)' = e
  BY <1>3, <1>9
<1>11. ASSUME NEW p \in X86!Pages, p # q PROVE X86!Walk(p)' = X86!Walk(p)
  <2> DEFINE j == X86!pd_index(p)
             l == X86!pt_index(p)
  <2>1. j \in X86!Pdis /\ l \in X86!Ptis
    BY PageIndex
  <2>2. CASE j = i
    <3>1. l # k
      BY <1>11, <2>2, PageUnique
    <3>2. pool'[next][l] = pool[next][l]
      BY <1>2, <1>3, <2>1, <3>1
    <3>3. pool[next][l] = NoEntry
      BY <1>2, <2>1 DEF X86Tables
    <3>4. X86!Walk(p) = NoEntry
      BY <2>2 DEF X86!Walk
    <3>5. X86!Walk(p)' = pool'[next][l]
      BY <1>9, <2>2
    <3> QED BY <3>2, <3>3, <3>4, <3>5
  <2>3. CASE j # i /\ IsTable(j)
    <3>1. pd[j].table \in 0 .. PoolCount - 1 /\ pd[j].table # next
      BY <1>2, <1>7, <2>1, <2>3
    <3>2. pool'[pd[j].table][l] = pool[pd[j].table][l]
      BY <1>3, <2>1, <3>1
    <3>3. pd'[j] = pd[j]
      BY <1>4, <2>1, <2>3
    <3> QED BY <2>3, <3>2, <3>3 DEF X86!Walk, IsTable
  <2>4. CASE j # i /\ ~ IsTable(j)
    <3>1. pd'[j] = pd[j]
      BY <1>4, <2>1, <2>4
    <3> QED BY <2>4, <3>1 DEF X86!Walk, IsTable
  <2> QED BY <2>2, <2>3, <2>4
<1>12. ASSUME NEW p \in X86!Pages PROVE X86!SameEntry(p)' = X86!SameEntry(p)
  <2>1. X86!pd_index(p) \in X86!Pdis
    BY PageIndex
  <2>2. CASE X86!pd_index(p) = i
    BY <1>5, <2>2 DEF X86!SameEntry, IsLarge
  <2>3. CASE X86!pd_index(p) # i
    <3>1. pd'[X86!pd_index(p)] = pd[X86!pd_index(p)]
      BY <1>4, <2>1, <2>3
    <3> QED BY <3>1 DEF X86!SameEntry
  <2> QED BY <2>2, <2>3
<1> QED BY <1>8, <1>10, <1>11, <1>12

\* A large page that goes takes the walks of its pages with it, and no other.
LEMMA LargeDropped ==
  ASSUME X86!MmuConstants, X86Tables, NEW q \in X86!Pages, IsLarge(X86!pd_index(q)),
         pd' = [pd EXCEPT ![X86!pd_index(q)] = NoEntry], pool' = pool, next' = next
  PROVE  /\ X86Tables'
         /\ \A p \in X86!SameEntry(q) : /\ p \in X86!Pages /\ X86!Walk(p)' = NoEntry
                                        /\ X86!SameEntry(p)' = {p} /\ q \in X86!SameEntry(p)
         /\ \A p \in X86!Pages \ X86!SameEntry(q) :
              X86!Walk(p)' = X86!Walk(p) /\ X86!SameEntry(p)' = X86!SameEntry(p)
<1> DEFINE i == X86!pd_index(q)
<1>1. i \in X86!Pdis
  BY PageIndex
<1>2. /\ pd' \in [X86!Pdis -> {NoEntry} \cup {X86!PsPde(j) : j \in X86!Pdis}
                              \cup {X86!PtPde(t) : t \in 0 .. PoolCount - 1}]
      /\ pd'[i] = NoEntry
      /\ \A j \in X86!Pdis : j # i => pd'[j] = pd[j]
  BY <1>1 DEF X86Tables
<1>3. \A j \in X86!Pdis : IsTable(j)' => j # i /\ IsTable(j) /\ pd'[j] = pd[j]
  BY <1>2 DEF IsTable
<1>4. X86Tables'
  BY <1>2, <1>3 DEF X86Tables
<1>5. X86!SameEntry(q) = {p \in X86!Pages : X86!pd_index(p) = i}
  BY DEF X86!SameEntry, IsLarge
<1>6. ASSUME NEW p \in X86!SameEntry(q)
      PROVE  /\ p \in X86!Pages /\ X86!Walk(p)' = NoEntry
             /\ X86!SameEntry(p)' = {p} /\ q \in X86!SameEntry(p)
  <2>1. p \in X86!Pages /\ X86!pd_index(p) = i
    BY <1>5
  <2> QED BY <1>2, <2>1 DEF X86!Walk, X86!SameEntry, IsLarge
<1>7. ASSUME NEW p \in X86!Pages \ X86!SameEntry(q)
      PROVE  X86!Walk(p)' = X86!Walk(p) /\ X86!SameEntry(p)' = X86!SameEntry(p)
  <2>1. X86!pd_index(p) # i
    BY <1>5
  <2>2. X86!pd_index(p) \in X86!Pdis
    BY PageIndex
  <2>3. pd'[X86!pd_index(p)] = pd[X86!pd_index(p)]
    BY <1>2, <2>1, <2>2
  <2> QED BY <2>3 DEF X86!Walk, X86!SameEntry
<1> QED BY <1>4, <1>6, <1>7

\* A call's record says which call it is.
LEMMA CallKinds ==
  /\ x86Call \in MapCalls => x86Call # X86!Idle /\ x86Call.op = "map"
  /\ x86Call \in UnmapCalls => x86Call # X86!Idle /\ x86Call.op = "unmap"
  /\ x86Call = X86!Idle => x86Call.op = "none"
  BY DEF MapCalls, UnmapCalls, X86!Idle

\* The page a loop is at.
LEMMA AtPage ==
  ASSUME X86!MmuConstants, x86Call \in MapCalls \/ x86Call \in UnmapCalls, X86Range, x86Call.left > 0
  PROVE  x86Call.page \in X86!Pages
<1>1. x86Call.page \in Nat /\ x86Call.left \in Nat
  BY DEF MapCalls, UnmapCalls
<1>2. PdEntries * PtEntries \in Nat
  BY DEF X86!MmuConstants
<1> DEFINE N == PdEntries * PtEntries
<1> HIDE DEF N
<1>3. N \in Nat /\ x86Call.page + x86Call.left <= N
  BY <1>2 DEF X86Range, N
<1>4. x86Call.page \in 0 .. N - 1
  BY <1>1, <1>3
<1> QED BY <1>4 DEF X86!Pages, N

\* Writing the entry of the page at which a map is.
LEMMA MapWriteKeeps ==
  ASSUME X86!MmuConstants, X86Inv, x86Call \in MapCalls, x86Call.left > 0, x86Call.flush = {},
         NEW q \in X86!Pages, q = x86Call.page,
         X86Tables', X86!Walk(q)' = X86!Pte(x86Call.frame, x86Call.flags),
         \A p \in X86!Pages : p # q => X86!Walk(p)' = X86!Walk(p),
         x86Call' = [x86Call EXCEPT !.flush = {x86Call.page}], tlb' = tlb, asked' = asked
  PROVE  X86Inv'
<1>1. /\ x86Call # X86!Idle /\ x86Call.op = "map" /\ X86Range
      /\ \A p \in X86Waiting : asked[p] = X86!Pte(x86Call.frame + p - x86Call.page, x86Call.flags)
  BY CallKinds DEF X86Inv, X86Calls
<1>2. x86Call.page \in X86!Pages
  BY <1>1, AtPage
<1>3. /\ x86Call' \in MapCalls /\ x86Call'.op = "map" /\ x86Call'.flush = {x86Call.page}
      /\ x86Call'.page = x86Call.page /\ x86Call'.left = x86Call.left
      /\ x86Call'.frame = x86Call.frame /\ x86Call'.flags = x86Call.flags
  BY <1>2 DEF MapCalls
<1>4. x86Call' # X86!Idle
  BY <1>3 DEF X86!Idle
<1>5. /\ x86Call.page \in Nat /\ x86Call.left \in Nat /\ x86Call.frame \in Nat
  BY DEF MapCalls
<1>6. X86Waiting = {p \in X86!Pages : x86Call.page <= p /\ p < x86Call.page + x86Call.left}
  BY <1>1 DEF X86Waiting, X86Rest
<1>7. X86Waiting' = {p \in X86!Pages : /\ x86Call.page <= p /\ p < x86Call.page + x86Call.left
                                       /\ p # x86Call.page}
  BY <1>3, <1>4 DEF X86Waiting, X86Rest
<1>8. x86Call.page \in X86Waiting /\ X86Waiting' = X86Waiting \ {x86Call.page}
  <2>1. x86Call.page <= x86Call.page /\ x86Call.page < x86Call.page + x86Call.left
    BY <1>5
  <2> QED BY <1>2, <1>6, <1>7, <2>1
<1>9. X86Calls'
  BY <1>1, <1>3, <1>8 DEF X86Calls, X86Range
<1>10. X86Walks'
  <2>1. X86!Pte(x86Call.frame + x86Call.page - x86Call.page, x86Call.flags)
          = X86!Pte(x86Call.frame, x86Call.flags)
    <3>1. x86Call.frame + x86Call.page - x86Call.page = x86Call.frame
      BY <1>5
    <3> QED BY <3>1
  <2>2. asked[q] = X86!Walk(q)'
    BY <1>1, <1>8, <2>1
  <2>3. \A p \in X86!Pages : p \notin X86Waiting' => X86!Walk(p)' = asked'[p]
    BY <1>8, <2>2 DEF X86Inv, X86Walks
  <2> QED BY <2>3 DEF X86Inv, X86Walks
<1>11. X86Cached'
  BY <1>3, <1>4 DEF X86Inv, X86Cached
<1> QED BY <1>9, <1>10, <1>11 DEF X86Inv

\* Taking away the entry of the page at which an unmap is.
LEMMA UnmapWriteKeeps ==
  ASSUME X86!MmuConstants, X86Inv, x86Call \in UnmapCalls, x86Call.left > 0, x86Call.flush = {},
         NEW gone \in SUBSET X86!Pages, x86Call.page \in gone, gone \subseteq X86Waiting,
         X86Tables', \A p \in gone : X86!Walk(p)' = NoEntry /\ X86!SameEntry(p)' = {p},
         \A p \in X86!Pages \ gone : /\ X86!Walk(p)' = X86!Walk(p)
                                     /\ X86!SameEntry(p)' = X86!SameEntry(p)
                                     /\ x86Call.page \notin X86!SameEntry(p),
         x86Call' = [x86Call EXCEPT !.flush = gone], tlb' = tlb, asked' = asked
  PROVE  X86Inv'
<1>1. /\ x86Call # X86!Idle /\ x86Call.op = "unmap" /\ X86Range
      /\ \A p \in X86Waiting : asked[p] = NoEntry
  BY CallKinds DEF X86Inv, X86Calls
<1>3. /\ x86Call' \in UnmapCalls /\ x86Call'.op = "unmap" /\ x86Call'.flush = gone
      /\ x86Call'.page = x86Call.page /\ x86Call'.left = x86Call.left
  BY DEF UnmapCalls
<1>4. x86Call' # X86!Idle
  BY <1>3 DEF X86!Idle
<1>5. X86Rest' = X86Rest \ {x86Call.page}
  <2>1. X86Rest = {p \in X86!Pages : x86Call.page <= p /\ p < x86Call.page + x86Call.left}
    BY <1>1 DEF X86Rest
  <2>2. X86Rest' = {p \in X86!Pages : /\ x86Call.page <= p /\ p < x86Call.page + x86Call.left
                                      /\ p # x86Call.page}
    BY <1>3, <1>4 DEF X86Rest
  <2> QED BY <2>1, <2>2
<1>6. /\ X86Waiting = {p \in X86!Pages : X86!SameEntry(p) \cap X86Rest # {}}
      /\ X86Waiting' = {p \in X86!Pages : X86!SameEntry(p)' \cap X86Rest' # {}}
  BY <1>1, <1>3 DEF X86Waiting
<1>7. \A p \in X86!Pages \ gone : p \in X86Waiting' <=> p \in X86Waiting
  BY <1>5, <1>6
<1>8. X86Waiting' \subseteq X86Waiting
  BY <1>6, <1>7
<1>9. X86Calls'
  BY <1>1, <1>3, <1>8 DEF X86Calls, X86Range
<1>10. X86Walks'
  <2>1. \A p \in gone : X86!Walk(p)' = asked[p]
    BY <1>1
  <2>2. \A p \in X86!Pages : p \notin X86Waiting' => X86!Walk(p)' = asked'[p]
    BY <1>7, <2>1 DEF X86Inv, X86Walks
  <2> QED BY <2>2 DEF X86Inv, X86Walks
<1>11. X86Cached'
  BY <1>3, <1>4 DEF X86Inv, X86Cached
<1> QED BY <1>9, <1>10, <1>11 DEF X86Inv

\* The actions of map_region's loop.
LEMMA MapStepKeeps ==
  ASSUME X86!MmuConstants, X86Inv, X86!map_page \/ X86!map_new_table
  PROVE  X86Inv'
<1>1. /\ x86Call.op = "map" /\ x86Call.left > 0 /\ x86Call.flush = {}
      /\ x86Call' = [x86Call EXCEPT !.flush = {x86Call.page}] /\ tlb' = tlb /\ asked' = asked
  BY DEF X86!map_page, X86!map_new_table, X86!Visiting, X86!Then
<1>2. x86Call \in MapCalls /\ X86Range
  BY <1>1, CallKinds DEF X86Inv, X86Calls
<1>3. x86Call.page \in X86!Pages
  BY <1>1, <1>2, AtPage
<1>q. PICK q \in X86!Pages : q = x86Call.page
  BY <1>3
<1>e. PICK e : e = X86!Pte(x86Call.frame, x86Call.flags)
  OBVIOUS
<1>4. e \in X86Entry
  BY <1>2, <1>e DEF MapCalls, X86Entry, X86!Pte
<1>5. CASE X86!map_page
  <2>1. /\ IsTable(X86!pd_index(q)) /\ pd' = pd /\ next' = next
        /\ pool' = [pool EXCEPT ![pd[X86!pd_index(q)].table][X86!pt_index(q)] = e]
    BY <1>5, <1>q, <1>e DEF X86!map_page, IsTable
  <2>2. q \in X86!Pages /\ X86Tables
    BY DEF X86Inv
  <2>3. /\ X86Tables' /\ X86!Walk(q)' = e
        /\ \A p \in X86!Pages : p # q => X86!Walk(p)' = X86!Walk(p)
    BY <1>4, <2>1, <2>2, EntryWritten
  <2> QED BY <1>1, <1>2, <2>3, <1>q, <1>e, MapWriteKeeps
<1>6. CASE X86!map_new_table
  <2>1. /\ pd[X86!pd_index(q)] = NoEntry /\ next < PoolCount /\ next' = next + 1
        /\ pd' = [pd EXCEPT ![X86!pd_index(q)] = X86!PtPde(next)]
        /\ pool' = [pool EXCEPT ![next][X86!pt_index(q)] = e]
    BY <1>6, <1>q, <1>e DEF X86!map_new_table
  <2>2. q \in X86!Pages /\ X86Tables
    BY DEF X86Inv
  <2>3. /\ X86Tables' /\ X86!Walk(q)' = e
        /\ \A p \in X86!Pages : p # q => X86!Walk(p)' = X86!Walk(p)
    BY <1>4, <2>1, <2>2, TableTaken
  <2> QED BY <1>1, <1>2, <2>3, <1>q, <1>e, MapWriteKeeps
<1> QED BY <1>5, <1>6

\* The actions of unmap_region's loop.
LEMMA UnmapStepKeeps ==
  ASSUME X86!MmuConstants, X86Inv, X86!unmap_page \/ X86!unmap_large
  PROVE  X86Inv'
<1>1. /\ x86Call.op = "unmap" /\ x86Call.left > 0 /\ x86Call.flush = {} /\ tlb' = tlb /\ asked' = asked
  BY DEF X86!unmap_page, X86!unmap_large, X86!Visiting
<1>2. x86Call \in UnmapCalls /\ X86Range
  BY <1>1, CallKinds DEF X86Inv, X86Calls
<1>3. x86Call.page \in X86!Pages
  BY <1>1, <1>2, AtPage
<1>q. PICK q \in X86!Pages : q = x86Call.page
  BY <1>3
<1>4. q \in X86Rest /\ X86Waiting = {p \in X86!Pages : X86!SameEntry(p) \cap X86Rest # {}}
  <2>1. x86Call # X86!Idle
    BY <1>2, CallKinds
  <2>2. q <= q /\ q < q + x86Call.left
    BY <1>1, <1>2, <1>q DEF UnmapCalls
  <2> QED BY <1>1, <1>q, <2>1, <2>2 DEF X86Rest, X86Waiting
<1>5. CASE X86!unmap_page
  <2>1. /\ IsTable(X86!pd_index(q)) /\ pd' = pd /\ next' = next
        /\ pool' = [pool EXCEPT ![pd[X86!pd_index(q)].table][X86!pt_index(q)] = NoEntry]
        /\ x86Call' = [x86Call EXCEPT !.flush = {q}]
    BY <1>5, <1>q DEF X86!unmap_page, IsTable, X86!Then
  <2>a. X86!SameEntry(q) = {q} /\ \A p \in X86!Pages : p # q => q \notin X86!SameEntry(p)
    <3>1. ~ IsLarge(X86!pd_index(q))
      BY <2>1 DEF IsTable, IsLarge
    <3> QED BY <3>1 DEF X86!SameEntry, IsLarge
  <2>2. q \in X86!Pages /\ X86Tables /\ NoEntry \in X86Entry
    BY DEF X86Inv, X86Entry
  <2>3. /\ X86Tables' /\ X86!Walk(q)' = NoEntry
        /\ \A p \in X86!Pages : p # q => X86!Walk(p)' = X86!Walk(p)
        /\ \A p \in X86!Pages : X86!SameEntry(p)' = X86!SameEntry(p)
    BY <2>1, <2>2, EntryWritten
  <2>4. \A p \in {q} : X86!Walk(p)' = NoEntry /\ X86!SameEntry(p)' = {p}
    BY <2>2, <2>3, <2>a
  <2>5. \A p \in X86!Pages \ {q} : /\ X86!Walk(p)' = X86!Walk(p)
                                   /\ X86!SameEntry(p)' = X86!SameEntry(p) /\ q \notin X86!SameEntry(p)
    BY <2>3, <2>a
  <2>6. {q} \in SUBSET X86!Pages /\ q \in {q} /\ {q} \subseteq X86Waiting
    BY <1>4, <2>2, <2>a
  <2> QED BY <1>1, <1>2, <2>1, <2>3, <2>4, <2>5, <2>6, <1>q, UnmapWriteKeeps
<1>6. CASE X86!unmap_large
  <2> DEFINE gone == X86!SameEntry(q)
  <2>1. /\ IsLarge(X86!pd_index(q)) /\ next' = next /\ pool' = pool
        /\ pd' = [pd EXCEPT ![X86!pd_index(q)] = NoEntry]
        /\ x86Call' = [x86Call EXCEPT !.flush = gone]
    BY <1>6, <1>q DEF X86!unmap_large, IsLarge, X86!Then
  <2>a. q \in gone /\ \A p \in X86!Pages \ gone : q \notin X86!SameEntry(p)
    <3>1. gone = {p \in X86!Pages : X86!pd_index(p) = X86!pd_index(q)}
      BY <2>1 DEF X86!SameEntry, IsLarge
    <3>2. q \in gone
      BY <1>3, <3>1
    <3>3. \A p \in X86!Pages : q \in X86!SameEntry(p) => X86!pd_index(p) = X86!pd_index(q)
      BY DEF X86!SameEntry
    <3> QED BY <3>1, <3>2, <3>3
  <2>2. q \in X86!Pages /\ X86Tables
    BY DEF X86Inv
  <2>3. /\ X86Tables'
        /\ \A p \in gone : /\ p \in X86!Pages /\ X86!Walk(p)' = NoEntry
                           /\ X86!SameEntry(p)' = {p} /\ q \in X86!SameEntry(p)
        /\ \A p \in X86!Pages \ gone : X86!Walk(p)' = X86!Walk(p) /\ X86!SameEntry(p)' = X86!SameEntry(p)
    BY <2>1, <2>2, LargeDropped
  <2> HIDE DEF gone
  <2>4. gone \in SUBSET X86!Pages /\ gone \subseteq X86Waiting
    BY <1>4, <2>3
  <2>5. \A p \in X86!Pages \ gone : /\ X86!Walk(p)' = X86!Walk(p)
                                    /\ X86!SameEntry(p)' = X86!SameEntry(p) /\ q \notin X86!SameEntry(p)
    BY <2>3, <2>a
  <2> QED BY <1>1, <1>2, <2>1, <2>3, <2>4, <2>5, <2>a, <1>q, UnmapWriteKeeps
<1> QED BY <1>5, <1>6

\* When the tables stay as they are, so do the walks.
LEMMA SameWalks ==
  ASSUME pd' = pd, pool' = pool
  PROVE  /\ \A p : X86!Walk(p)' = X86!Walk(p)
         /\ \A p : X86!SameEntry(p)' = X86!SameEntry(p)
         /\ next' = next => (X86Tables' <=> X86Tables)
<1>1. ASSUME NEW p PROVE X86!Walk(p)' = X86!Walk(p)
  BY DEF X86!Walk
<1>2. ASSUME NEW p PROVE X86!SameEntry(p)' = X86!SameEntry(p)
  BY DEF X86!SameEntry
<1>3. ASSUME next' = next PROVE X86Tables' <=> X86Tables
  BY <1>3 DEF X86Tables, IsTable
<1> QED BY <1>1, <1>2, <1>3

\* The loop goes on to the next page: after invlpg, or where an unmap finds no
\* table.
LEMMA AdvanceKeeps ==
  ASSUME X86!MmuConstants, X86Inv, X86!invalidate \/ X86!unmap_nothing
  PROVE  X86Inv'
<1>1. /\ pd' = pd /\ pool' = pool /\ next' = next /\ asked' = asked /\ x86Call # X86!Idle
      /\ x86Call.op = "map" => x86Call' = [X86!Advance EXCEPT !.frame = @ + 1]
      /\ x86Call.op # "map" => x86Call' = X86!Advance
      /\ \/ x86Call.flush # {} /\ tlb' = [p \in DOMAIN tlb \ x86Call.flush |-> tlb[p]]
         \/ /\ x86Call.flush = {} /\ tlb' = tlb /\ x86Call.left > 0
            /\ x86Call.op = "unmap" /\ pd[X86!pd_index(x86Call.page)] = NoEntry
  <2>1. CASE X86!invalidate
    BY <2>1 DEF X86!invalidate, X86!invlpg
  <2>2. CASE X86!unmap_nothing
    BY <2>2 DEF X86!unmap_nothing, X86!Visiting, X86!Idle
  <2> QED BY <2>1, <2>2
<1>2. /\ x86Call \in MapCalls \/ x86Call \in UnmapCalls
      /\ X86Range /\ x86Call.left > 0
  BY <1>1 DEF X86Inv, X86Calls, X86Range
<1>3. /\ x86Call.page \in Nat /\ x86Call.left \in Nat /\ x86Call.page \in X86!Pages
  BY <1>2, AtPage DEF MapCalls, UnmapCalls
<1>4. /\ x86Call'.page = x86Call.page + 1 /\ x86Call'.left = x86Call.left - 1
      /\ x86Call'.flush = {} /\ x86Call'.op = x86Call.op
      /\ x86Call \in MapCalls => /\ x86Call' \in MapCalls /\ x86Call'.frame = x86Call.frame + 1
                                 /\ x86Call'.flags = x86Call.flags
      /\ x86Call \in UnmapCalls => x86Call' \in UnmapCalls
  <2>1. CASE x86Call \in MapCalls
    <3>1. x86Call.op = "map"
      BY <2>1 DEF MapCalls
    <3>2. x86Call' = [x86Call EXCEPT !.page = @ + 1, !.left = @ - 1, !.flush = {}, !.frame = @ + 1]
      BY <1>1, <2>1, <3>1 DEF X86!Advance, MapCalls
    <3>3. x86Call \notin UnmapCalls
      BY <3>1 DEF UnmapCalls
    <3>4. x86Call.page + 1 \in Nat /\ x86Call.left - 1 \in Nat /\ x86Call.frame + 1 \in Nat
      BY <1>2, <1>3, <2>1 DEF MapCalls
    <3>5. x86Call' = [op |-> "map", page |-> x86Call.page + 1, frame |-> x86Call.frame + 1,
                      left |-> x86Call.left - 1, flags |-> x86Call.flags, flush |-> {}]
      BY <2>1, <3>1, <3>2 DEF MapCalls
    <3>6. x86Call' \in MapCalls
      BY <2>1, <3>4, <3>5 DEF MapCalls
    <3> QED BY <3>1, <3>3, <3>5, <3>6
  <2>2. CASE x86Call \in UnmapCalls
    <3>1. x86Call.op = "unmap"
      BY <2>2 DEF UnmapCalls
    <3>2. x86Call' = [x86Call EXCEPT !.page = @ + 1, !.left = @ - 1, !.flush = {}]
      BY <1>1, <3>1 DEF X86!Advance
    <3>3. x86Call \notin MapCalls
      BY <3>1 DEF MapCalls
    <3>4. x86Call.page + 1 \in Nat /\ x86Call.left - 1 \in Nat
      BY <1>2, <1>3
    <3>5. x86Call' = [op |-> "unmap", page |-> x86Call.page + 1, left |-> x86Call.left - 1, flush |-> {}]
      BY <2>2, <3>1, <3>2 DEF UnmapCalls
    <3>6. x86Call' \in UnmapCalls
      BY <3>4, <3>5 DEF UnmapCalls
    <3> QED BY <3>1, <3>3, <3>5, <3>6
  <2> QED BY <1>2, <2>1, <2>2
<1>5. x86Call' # X86!Idle
  <2>1. x86Call'.op # "none"
    BY <1>2, <1>4 DEF MapCalls, UnmapCalls
  <2> QED BY <2>1 DEF X86!Idle
<1>6. X86Range'
  <2> DEFINE N == PdEntries * PtEntries
  <2>1. N \in Nat /\ x86Call.page + x86Call.left <= N
    BY <1>2 DEF X86!MmuConstants, X86Range
  <2> HIDE DEF N
  <2>2. x86Call'.page + x86Call'.left <= N
    BY <1>3, <1>4, <2>1
  <2> QED BY <1>4, <2>2 DEF X86Range, N
<1>7. X86Rest' = X86Rest \ {x86Call.page}
  <2>1. X86Rest' = {p \in X86!Pages : x86Call.page + 1 <= p /\ p < x86Call.page + 1 + (x86Call.left - 1)}
    BY <1>4, <1>5 DEF X86Rest
  <2>2. \A p \in X86!Pages : x86Call.page + 1 <= p /\ p < x86Call.page + 1 + (x86Call.left - 1)
          <=> x86Call.page <= p /\ p < x86Call.page + x86Call.left /\ p # x86Call.page
    BY <1>3 DEF X86!Pages, X86!MmuConstants
  <2>3. X86Rest' = {p \in X86!Pages : x86Call.page <= p /\ p < x86Call.page + x86Call.left /\ p # x86Call.page}
    BY <2>1, <2>2
  <2>4. \A p : p \in X86Rest \ {x86Call.page} <=>
          p \in X86!Pages /\ x86Call.page <= p /\ p < x86Call.page + x86Call.left /\ p # x86Call.page
    BY <1>1 DEF X86Rest
  <2> QED BY <2>3, <2>4
<1>8. /\ \A p : X86!Walk(p)' = X86!Walk(p)
      /\ \A p : X86!SameEntry(p)' = X86!SameEntry(p)
      /\ X86Tables'
  BY <1>1, SameWalks DEF X86Inv
<1>9. X86Waiting' = X86Waiting \/ (x86Call \in UnmapCalls /\ X86Waiting' = X86Waiting \ {x86Call.page})
  <2>1. CASE x86Call.flush # {}
    <3>1. X86Rest' = X86Rest
      BY <1>1, <1>7, <2>1 DEF X86Rest
    <3> QED BY <1>4, <1>8, <3>1 DEF X86Waiting
  <2>2. CASE x86Call.flush = {}
    <3>1. /\ x86Call.op = "unmap" /\ pd[X86!pd_index(x86Call.page)] = NoEntry
      BY <1>1, <2>2
    <3>2. x86Call \in UnmapCalls
      BY <1>2, <3>1 DEF MapCalls
    <3>3. /\ X86Waiting = {p \in X86!Pages : X86!SameEntry(p) \cap X86Rest # {}}
          /\ X86Waiting' = {p \in X86!Pages : X86!SameEntry(p) \cap X86Rest' # {}}
      BY <1>4, <1>8, <3>1 DEF X86Waiting
    <3>4. X86!SameEntry(x86Call.page) = {x86Call.page}
          /\ \A p \in X86!Pages : x86Call.page \in X86!SameEntry(p) => p = x86Call.page
      BY <3>1 DEF X86!SameEntry
    <3>5. X86Waiting' = X86Waiting \ {x86Call.page}
      BY <1>7, <3>3, <3>4
    <3> QED BY <3>2, <3>5
  <2> QED BY <2>1, <2>2
<1>10. X86Calls'
  <2>1. CASE x86Call \in MapCalls
    <3>1. x86Call.op = "map" /\ x86Call \notin UnmapCalls /\ X86Waiting' = X86Waiting
      BY <1>9, <2>1 DEF MapCalls, UnmapCalls
    <3>2. \A p \in X86Waiting : asked[p] = X86!Pte(x86Call.frame + p - x86Call.page, x86Call.flags)
      BY <1>1, <2>1, <3>1 DEF X86Inv, X86Calls
    <3>3. \A p \in X86Waiting : x86Call'.frame + p - x86Call'.page = x86Call.frame + p - x86Call.page
      <4>1. \A p \in X86Waiting : p \in Int
        BY <1>1, <3>1 DEF X86Waiting, X86Rest, X86!Pages, X86!MmuConstants
      <4>2. x86Call.frame \in Nat
        BY <2>1 DEF MapCalls
      <4> QED BY <1>3, <1>4, <2>1, <4>1, <4>2
    <3>4. \A p \in X86Waiting' : asked'[p] = X86!Pte(x86Call'.frame + p - x86Call'.page, x86Call'.flags)
      BY <1>1, <1>4, <2>1, <3>1, <3>2, <3>3
    <3> QED BY <1>4, <1>6, <2>1, <3>4 DEF X86Calls
  <2>2. CASE x86Call \in UnmapCalls
    <3>1. x86Call \notin MapCalls
      BY <2>2 DEF MapCalls, UnmapCalls
    <3>2. \A p \in X86Waiting : asked[p] = NoEntry
      BY <1>1, <3>1 DEF X86Inv, X86Calls
    <3>3. \A p \in X86Waiting' : asked'[p] = NoEntry
      BY <1>1, <1>9, <3>2
    <3> QED BY <1>4, <1>6, <2>2, <3>3 DEF X86Calls
  <2> QED BY <1>2, <2>1, <2>2
<1>11. X86Walks'
  <2>1. CASE X86Waiting' = X86Waiting
    BY <1>1, <1>8, <2>1 DEF X86Inv, X86Walks
  <2>2. CASE x86Call \in UnmapCalls /\ X86Waiting' = X86Waiting \ {x86Call.page} /\ x86Call.page \in X86Waiting
            /\ x86Call.flush = {}
    <3>1. asked[x86Call.page] = NoEntry
      <4>1. x86Call \notin MapCalls
        BY <2>2 DEF MapCalls, UnmapCalls
      <4> QED BY <1>1, <2>2, <4>1 DEF X86Inv, X86Calls
    <3>2. X86!Walk(x86Call.page) = NoEntry
      BY <1>1, <2>2 DEF X86!Walk
    <3>3. PICK q \in X86!Pages : q = x86Call.page
      BY <1>3
    <3>4. \A p \in X86!Pages : p \notin X86Waiting' => X86!Walk(p) = asked[p]
      BY <2>2, <3>1, <3>2, <3>3 DEF X86Inv, X86Walks
    <3> QED BY <1>1, <1>8, <3>4 DEF X86Inv, X86Walks
  <2>3. CASE x86Call.flush # {}
    <3>1. X86Rest' = X86Rest
      BY <1>1, <1>7, <2>3 DEF X86Rest
    <3>2. X86Waiting' = X86Waiting
      BY <1>4, <1>8, <3>1 DEF X86Waiting
    <3> QED BY <2>1, <3>2
  <2>4. x86Call.page \notin X86Waiting /\ X86Waiting' = X86Waiting \ {x86Call.page} => X86Waiting' = X86Waiting
    OBVIOUS
  <2> QED BY <1>9, <2>1, <2>2, <2>3, <2>4
<1>12. X86Cached'
  BY <1>1, <1>4, <1>8 DEF X86Inv, X86Cached
<1> QED BY <1>8, <1>10, <1>11, <1>12 DEF X86Inv

\* A call returns when nothing is left.
LEMMA ReturnKeeps ==
  ASSUME X86Inv, X86!return
  PROVE  X86Inv'
<1>1. /\ x86Call # X86!Idle /\ x86Call.left = 0 /\ x86Call' = X86!Idle
      /\ pd' = pd /\ pool' = pool /\ next' = next /\ tlb' = tlb /\ asked' = asked
  BY DEF X86!return
<1>2. X86Rest = {}
  <2>1. x86Call.page \in Nat
    BY <1>1 DEF X86Inv, X86Calls, MapCalls, UnmapCalls
  <2>2. \A p \in X86!Pages : p \in Int
    BY DEF X86!Pages
  <2> QED BY <1>1, <2>1, <2>2 DEF X86Rest
<1>3. X86Waiting = {} /\ X86Waiting' = {}
  <2>1. X86Rest' = {} /\ x86Call'.op # "unmap"
    BY <1>1 DEF X86Rest, X86!Idle
  <2> QED BY <1>2, <2>1 DEF X86Waiting
<1>4. x86Call.flush = {}
  BY <1>1 DEF X86Inv, X86Calls, X86Range
<1>5. /\ \A p : X86!Walk(p)' = X86!Walk(p) /\ X86Tables'
  BY <1>1, SameWalks DEF X86Inv
<1> QED BY <1>1, <1>3, <1>4, <1>5 DEF X86Inv, X86Calls, X86Walks, X86Cached

\* A map begins: the pages the region overlaps are waiting.
LEMMA MapRegionKeeps ==
  ASSUME X86!MmuConstants, X86Inv, NEW m \in X86Maps, X86!map_region(m)
  PROVE  X86Inv'
<1> DEFINE first == X86!First(m.virt)
           n == X86!PageCount(m.virt, m.size)
           flags == X86!map_flags_to_x86(m.flags)
           from == X86!First(m.phys)
<1>1. /\ m.virt \in Nat /\ m.size \in Nat /\ m.phys \in Nat
      /\ m.virt + m.size <= PdEntries * PtEntries * PageSize
  BY DEF X86!MmuConstants, X86!InSpace
<1>2. /\ first \in Nat /\ n \in Nat /\ first + n <= PdEntries * PtEntries
      /\ \A p \in X86!Pages : p \in X86!Overlapped(m.virt, m.size) <=> first <= p /\ p < first + n
  BY <1>1, LoopCovers
<1>3. flags \in SUBSET X86Bits
  BY DEF X86!map_flags_to_x86, X86Bits
<1>4. from \in Nat
  BY <1>1 DEF X86!First, X86!MmuConstants
<1>5. /\ x86Call' = [op |-> "map", page |-> first, frame |-> from, left |-> n, flags |-> flags, flush |-> {}]
      /\ asked' = [p \in X86!Pages |-> IF p \in X86!Overlapped(m.virt, m.size)
                                       THEN X86!Pte(from + p - first, flags) ELSE asked[p]]
      /\ x86Call = X86!Idle /\ pd' = pd /\ pool' = pool /\ next' = next /\ tlb' = tlb
  BY DEF X86!map_region
<1> HIDE DEF first, n, flags, from
<1>6. /\ x86Call' \in MapCalls /\ x86Call'.op = "map" /\ x86Call'.page = first /\ x86Call'.left = n
      /\ x86Call'.frame = from /\ x86Call'.flags = flags /\ x86Call'.flush = {}
  BY <1>2, <1>3, <1>4, <1>5 DEF MapCalls
<1>7. x86Call' # X86!Idle /\ X86Range'
  BY <1>2, <1>6 DEF X86!Idle, X86Range
<1>8. X86Waiting' = {p \in X86!Pages : p \in X86!Overlapped(m.virt, m.size)} /\ X86Waiting = {}
  <2>1. X86Waiting' = {p \in X86!Pages : first <= p /\ p < first + n}
    BY <1>6, <1>7 DEF X86Waiting, X86Rest
  <2>2. X86Waiting = {}
    BY <1>5 DEF X86Waiting, X86Rest, X86!Idle
  <2> QED BY <1>2, <2>1, <2>2
<1>9. /\ \A p : X86!Walk(p)' = X86!Walk(p)
      /\ X86Tables'
  BY <1>5, SameWalks DEF X86Inv
<1>10. X86Calls'
  <2>1. \A p \in X86Waiting' : asked'[p] = X86!Pte(x86Call'.frame + p - x86Call'.page, x86Call'.flags)
    BY <1>5, <1>6, <1>8
  <2> QED BY <1>6, <1>7, <2>1 DEF X86Calls
<1>11. X86Walks'
  BY <1>5, <1>8, <1>9 DEF X86Inv, X86Walks
<1>12. X86Cached'
  BY <1>5, <1>9 DEF X86Inv, X86Cached
<1> QED BY <1>9, <1>10, <1>11, <1>12 DEF X86Inv

\* An unmap begins: with the pages it overlaps wait those of their large pages.
LEMMA UnmapRegionKeeps ==
  ASSUME X86!MmuConstants, X86Inv, NEW u \in X86Unmaps, X86!unmap_region(u)
  PROVE  X86Inv'
<1> DEFINE first == X86!First(u.virt)
           n == X86!PageCount(u.virt, u.size)
           over == X86!Overlapped(u.virt, u.size)
<1>1. /\ u.virt \in Nat /\ u.size \in Nat
      /\ u.virt + u.size <= PdEntries * PtEntries * PageSize
  BY DEF X86!MmuConstants, X86!InSpace
<1>2. /\ first \in Nat /\ n \in Nat /\ first + n <= PdEntries * PtEntries
      /\ \A p \in X86!Pages : p \in over <=> first <= p /\ p < first + n
  BY <1>1, LoopCovers
<1>3. over \subseteq X86!Pages
  BY DEF X86!Overlapped
<1>5. /\ x86Call' = [op |-> "unmap", page |-> first, left |-> n, flush |-> {}]
      /\ asked' = [p \in X86!Pages |-> IF X86!SameEntry(p) \cap over # {} THEN NoEntry ELSE asked[p]]
      /\ x86Call = X86!Idle /\ pd' = pd /\ pool' = pool /\ next' = next /\ tlb' = tlb
  BY DEF X86!unmap_region
<1> HIDE DEF first, n, over
<1>6. /\ x86Call' \in UnmapCalls /\ x86Call'.op = "unmap" /\ x86Call'.page = first
      /\ x86Call'.left = n /\ x86Call'.flush = {}
  BY <1>2, <1>5 DEF UnmapCalls
<1>7. x86Call' # X86!Idle /\ X86Range'
  BY <1>2, <1>6 DEF X86!Idle, X86Range
<1>9. /\ \A p : X86!Walk(p)' = X86!Walk(p)
      /\ \A p : X86!SameEntry(p)' = X86!SameEntry(p)
      /\ X86Tables'
  BY <1>5, SameWalks DEF X86Inv
<1>8. X86Waiting' = {p \in X86!Pages : X86!SameEntry(p) \cap over # {}} /\ X86Waiting = {}
  <2>1. X86Rest' = {p \in X86!Pages : first <= p /\ p < first + n}
    BY <1>6, <1>7 DEF X86Rest
  <2>2. X86Rest' = over
    BY <1>2, <1>3, <2>1
  <2>3. X86Waiting = {}
    BY <1>5 DEF X86Waiting, X86Rest, X86!Idle
  <2> QED BY <1>6, <1>9, <2>2, <2>3 DEF X86Waiting
<1>10. X86Calls'
  <2>1. \A p \in X86Waiting' : asked'[p] = NoEntry
    BY <1>5, <1>8
  <2> QED BY <1>6, <1>7, <2>1 DEF X86Calls
<1>11. X86Walks'
  BY <1>5, <1>8, <1>9 DEF X86Inv, X86Walks
<1>12. X86Cached'
  BY <1>5, <1>9 DEF X86Inv, X86Cached
<1> QED BY <1>9, <1>10, <1>11, <1>12 DEF X86Inv

\* init maps the first two large pages to themselves.
LEMMA InitKeeps ==
  ASSUME X86!MmuConstants, X86Inv, X86Off, X86!init
  PROVE  X86Inv'
<1>1. /\ pd = [i \in X86!Pdis |-> NoEntry] /\ tlb = << >> /\ x86Call = X86!Idle
      /\ pd' = [pd EXCEPT ![0] = X86!PsPde(0), ![1] = X86!PsPde(1)]
      /\ asked' = [p \in X86!Pages |-> IF p < 2 * PtEntries THEN X86!Pte(p, {"WRITE"}) ELSE NoEntry]
      /\ pool' = pool /\ next' = next /\ tlb' = tlb /\ x86Call' = x86Call
  BY DEF X86!init, X86Off
<1>2. 0 \in X86!Pdis /\ 1 \in X86!Pdis
  BY DEF X86!Pdis, X86!MmuConstants
<1>3. /\ pd'[0] = X86!PsPde(0) /\ pd'[1] = X86!PsPde(1)
      /\ \A i \in X86!Pdis : i \notin {0, 1} => pd'[i] = NoEntry
      /\ pd' \in [X86!Pdis -> {NoEntry} \cup {X86!PsPde(j) : j \in X86!Pdis}
                              \cup {X86!PtPde(t) : t \in 0 .. PoolCount - 1}]
  BY <1>1, <1>2
<1>4. IsLarge(0)' /\ IsLarge(1)' /\ \A i \in X86!Pdis : ~ IsTable(i)'
  <2>1. X86!PsPde(0) # NoEntry /\ X86!PsPde(1) # NoEntry
    BY <1>2 DEF X86!MmuConstants
  <2>2. X86!PsPde(0).ps /\ X86!PsPde(1).ps
    BY DEF X86!PsPde
  <2> QED BY <1>3, <2>1, <2>2 DEF IsLarge, IsTable
<1>5. X86Tables'
  BY <1>1, <1>3, <1>4 DEF X86Inv, X86Tables
<1>6. X86Waiting' = {}
  BY <1>1 DEF X86Waiting, X86Rest, X86!Idle
<1>7. ASSUME NEW p \in X86!Pages PROVE X86!Walk(p)' = asked'[p]
  <2> DEFINE i == X86!pd_index(p)
             k == X86!pt_index(p)
  <2>1. i \in X86!Pdis /\ k \in X86!Ptis /\ p = PtEntries * i + k
    BY PageIndex
  <2>2. i \in Nat /\ k \in Nat /\ k < PtEntries /\ PtEntries \in Nat \ {0} /\ p \in Nat
    BY <2>1 DEF X86!Pdis, X86!Ptis, X86!Pages, X86!MmuConstants
  <2>3. CASE i \in {0, 1}
    <3>1. pd'[i] # NoEntry /\ pd'[i].ps /\ pd'[i] = X86!PsPde(i)
      BY <1>3, <1>4, <2>3 DEF IsLarge
    <3>2. X86!Walk(p)' = X86!Pte(pd'[i].frame + k, pd'[i].flags)
      BY <3>1 DEF X86!Walk
    <3>3. pd'[i].frame = i * PtEntries /\ pd'[i].flags = {"WRITE"}
      BY <3>1 DEF X86!PsPde
    <3> HIDE DEF i, k
    <3>4. i * PtEntries + k = p /\ p < 2 * PtEntries
      BY <2>1, <2>2, <2>3
    <3> QED BY <1>1, <3>2, <3>3, <3>4
  <2>4. CASE i \notin {0, 1}
    <3>1. X86!Walk(p)' = NoEntry
      BY <1>3, <2>1, <2>4 DEF X86!Walk
    <3> HIDE DEF i, k
    <3>2. PtEntries * 2 <= PtEntries * i
      BY <2>2, <2>4, ProductGrows
    <3> DEFINE x == PtEntries * i
    <3>3. x \in Nat
      BY <2>2
    <3> HIDE DEF x
    <3>4. ~ (p < 2 * PtEntries)
      BY <2>1, <2>2, <3>2, <3>3 DEF x
    <3> QED BY <1>1, <3>1, <3>4
  <2> QED BY <2>3, <2>4
<1>8. X86Walks'
  BY <1>1, <1>7 DEF X86Walks
<1>9. X86Calls' /\ X86Cached'
  BY <1>1 DEF X86Calls, X86Cached
<1> QED BY <1>5, <1>8, <1>9 DEF X86Inv

\* Filling and invalidating translations, and stopping, leave the tables alone.
LEMMA ProcessorKeeps ==
  ASSUME X86!MmuConstants, X86Inv, pd' = pd, pool' = pool, next' = next, x86Call' = x86Call, asked' = asked,
         \A p \in DOMAIN tlb' : /\ p \in X86!Pages
                                /\ tlb'[p] = X86!Walk(p) \/ (p \in DOMAIN tlb /\ tlb'[p] = tlb[p])
  PROVE  X86Inv'
<1>1. /\ \A p : X86!Walk(p)' = X86!Walk(p)
      /\ \A p : X86!SameEntry(p)' = X86!SameEntry(p)
      /\ X86Tables'
  BY SameWalks DEF X86Inv
<1>2. X86Waiting' = X86Waiting
  BY <1>1 DEF X86Waiting, X86Rest
<1>3. X86Calls' /\ X86Walks'
  BY <1>1, <1>2 DEF X86Inv, X86Calls, X86Walks, X86Range
<1>4. X86Cached'
  BY <1>1 DEF X86Inv, X86Cached
<1> QED BY <1>1, <1>3, <1>4 DEF X86Inv

LEMMA X86InitOK == ASSUME X86!MmuConstants, X86!Init PROVE X86Inv /\ X86Off
<1>1. /\ pd = [i \in X86!Pdis |-> NoEntry] /\ tlb = << >> /\ x86Call = X86!Idle /\ next = 0
      /\ pool = [t \in 0 .. PoolCount - 1 |-> [i \in X86!Ptis |-> NoEntry]]
      /\ asked = [p \in X86!Pages |-> NoEntry]
  BY DEF X86!Init
<1>2. \A i \in X86!Pdis : ~ IsTable(i)
  BY <1>1 DEF IsTable
<1>3. X86Tables
  BY <1>1, <1>2 DEF X86Tables, X86Entry, X86!MmuConstants
<1>4. \A p \in X86!Pages : X86!Walk(p) = NoEntry
  BY <1>1, PageIndex DEF X86!Walk
<1>5. X86Calls /\ X86Walks /\ X86Cached /\ X86Off
  BY <1>1, <1>4 DEF X86Calls, X86Walks, X86Cached, X86Off
<1> QED BY <1>3, <1>5 DEF X86Inv

LEMMA X86Invariance == X86!MmuConstants => (X86!Spec => [](X86Inv /\ X86Off))
<1> SUFFICES ASSUME X86!MmuConstants PROVE X86!Spec => [](X86Inv /\ X86Off)
  OBVIOUS
<1>1. X86!Init => X86Inv /\ X86Off
  BY X86InitOK
<1>2. (X86Inv /\ X86Off) /\ [X86!Next]_(X86!vars) => (X86Inv /\ X86Off)'
  <2> SUFFICES ASSUME X86Inv, X86Off, [X86!Next]_(X86!vars) PROVE X86Inv' /\ X86Off'
    OBVIOUS
  <2>1. CASE X86!init
    BY <2>1, InitKeeps DEF X86!init, X86Off
  <2>2. ASSUME NEW m \in X86Maps, X86!map_region(m) PROVE X86Inv' /\ X86Off'
    BY <2>2, MapRegionKeeps DEF X86!map_region, X86Off
  <2>3. ASSUME NEW u \in X86Unmaps, X86!unmap_region(u) PROVE X86Inv' /\ X86Off'
    BY <2>3, UnmapRegionKeeps DEF X86!unmap_region, X86Off
  <2>4. CASE X86!map_page \/ X86!map_new_table
    BY <2>4, MapStepKeeps DEF X86!map_page, X86!map_new_table, X86!Visiting, X86Off
  <2>5. CASE X86!unmap_page \/ X86!unmap_large
    BY <2>5, UnmapStepKeeps DEF X86!unmap_page, X86!unmap_large, X86!Visiting, X86Off
  <2>6. CASE X86!unmap_nothing \/ X86!invalidate
    BY <2>6, AdvanceKeeps DEF X86!unmap_nothing, X86!invalidate, X86!Visiting, X86Off
  <2>7. CASE X86!return
    BY <2>7, ReturnKeeps DEF X86!return, X86Off
  <2>8. ASSUME NEW p \in X86!Pages, X86!tlb_fill(p) PROVE X86Inv' /\ X86Off'
    <3>1. /\ tlb' = [q \in DOMAIN tlb \cup {p} |-> IF q = p THEN X86!Walk(p) ELSE tlb[q]]
          /\ pd' = pd /\ pool' = pool /\ next' = next /\ x86Call' = x86Call /\ asked' = asked
          /\ state = "running" /\ state' = state
      BY <2>8 DEF X86!tlb_fill
    <3>2. \A q \in DOMAIN tlb' : /\ q \in X86!Pages
                                 /\ tlb'[q] = X86!Walk(q) \/ (q \in DOMAIN tlb /\ tlb'[q] = tlb[q])
      BY <3>1 DEF X86Inv, X86Cached
    <3> QED BY <3>1, <3>2, ProcessorKeeps DEF X86Off
  <2>9. ASSUME NEW p \in X86!Pages, X86!invalidate_tlb_entry(p) PROVE X86Inv' /\ X86Off'
    <3>1. /\ tlb' = [q \in DOMAIN tlb \ X86!SameEntry(p) |-> tlb[q]]
          /\ pd' = pd /\ pool' = pool /\ next' = next /\ x86Call' = x86Call /\ asked' = asked
          /\ state = "running" /\ state' = state
      BY <2>9 DEF X86!invalidate_tlb_entry, X86!invlpg
    <3>2. \A q \in DOMAIN tlb' : /\ q \in X86!Pages
                                 /\ tlb'[q] = X86!Walk(q) \/ (q \in DOMAIN tlb /\ tlb'[q] = tlb[q])
      BY <3>1 DEF X86Inv, X86Cached
    <3> QED BY <3>1, <3>2, ProcessorKeeps DEF X86Off
  <2>10. CASE X86!invalidate_tlb_all
    <3>1. /\ tlb' = << >>
          /\ pd' = pd /\ pool' = pool /\ next' = next /\ x86Call' = x86Call /\ asked' = asked
          /\ state = "running" /\ state' = state
      BY <2>10 DEF X86!invalidate_tlb_all
    <3> QED BY <3>1, ProcessorKeeps DEF X86Off
  <2>11. CASE X86!pool_exhausted \/ X86!map_into_large \/ X86!fault \/ X86!Stopped \/ UNCHANGED X86!vars
    <3>1. /\ tlb' = tlb /\ pd' = pd /\ pool' = pool /\ next' = next /\ x86Call' = x86Call /\ asked' = asked
          /\ state' = state \/ state' # "off"
      BY <2>11 DEF X86!pool_exhausted, X86!map_into_large, X86!fault, X86!Stopped, X86!vars
    <3>2. \A q \in DOMAIN tlb' : /\ q \in X86!Pages
                                 /\ tlb'[q] = X86!Walk(q) \/ (q \in DOMAIN tlb /\ tlb'[q] = tlb[q])
      BY <3>1 DEF X86Inv, X86Cached
    <3> QED BY <3>1, <3>2, ProcessorKeeps DEF X86Off
  <2> QED BY <2>1, <2>2, <2>3, <2>4, <2>5, <2>6, <2>7, <2>8, <2>9, <2>10, <2>11 DEF X86!Next
<1> QED BY <1>1, <1>2, PTL DEF X86!Spec

\* No translation outlives the invlpg of its entry, whenever the processor
\* cached it: for every size of the tables and every region.
THEOREM NothingStale == X86!MmuConstants => (X86!Spec => []TlbCoherent)
<1> SUFFICES ASSUME X86!MmuConstants PROVE X86!Spec => []TlbCoherent
  OBVIOUS
<1>1. X86Inv => TlbCoherent
  BY DEF X86Inv, X86Cached, TlbCoherent, X86!TlbCoherent
<1> QED BY <1>1, X86Invariance, PTL

\* Between calls both units map what the calls so far asked for and nothing
\* else, whatever offsets and sizes the regions have.
THEOREM TablesFollowCalls ==
  X86!MmuConstants /\ Arm!ArmConstants => (X86!Spec /\ Arm!Spec => []TablesRight)
<1> SUFFICES ASSUME X86!MmuConstants, Arm!ArmConstants PROVE X86!Spec /\ Arm!Spec => []TablesRight
  OBVIOUS
<1>1. X86Inv /\ Arm!SectionsRight => TablesRight
  <2> SUFFICES ASSUME X86Inv, Arm!SectionsRight PROVE X86!MapsWhatWasAsked
    BY DEF TablesRight
  <2>1. x86Call = X86!Idle => X86Waiting = {}
    BY DEF X86Waiting, X86Rest, X86!Idle
  <2> QED BY <2>1 DEF X86Inv, X86Walks, X86!MapsWhatWasAsked
<1> QED BY <1>1, X86Invariance, ArmRight, PTL
-----------------------------------------------------------------------------
(*** The composition *******************************************************)

\* A behaviour of the composition is one of each component.
LEMMA MemoryParts == MemorySpec => Heap!Spec /\ Spec /\ X86!Spec /\ Arm!Spec
<1> DEFINE MemoryNext == HeapStep \/ PageStep \/ X86Step \/ ArmStep
<1>1. MemoryInit => Heap!Init /\ Init /\ X86!Init /\ Arm!Init
  BY DEF MemoryInit
<1>2. [MemoryNext]_all => [Heap!Next]_(Heap!vars)
  BY DEF HeapStep, PageStep, X86Step, ArmStep, all, heapVars, Heap!vars
<1>3. [MemoryNext]_all => [Next]_vars
  BY DEF HeapStep, PageStep, X86Step, ArmStep, all, vars
<1>4. [MemoryNext]_all => [X86!Next]_(X86!vars)
  BY DEF HeapStep, PageStep, X86Step, ArmStep, all, x86Vars, X86!vars
<1>5. [MemoryNext]_all => [Arm!Next]_(Arm!armVars)
  BY DEF HeapStep, PageStep, X86Step, ArmStep, all, armVars, Arm!armVars
<1> QED BY <1>1, <1>2, <1>3, <1>4, <1>5, PTL DEF MemorySpec, Heap!Spec, Spec, X86!Spec, Arm!Spec

\* Heap, pages and page tables are sound in the composition that the run checks.
THEOREM MemorySafe ==
  MemorySpec => []( /\ HeapSound /\ ReallocSourceKept
                    /\ DropReturnsWhatAllocTook /\ FreshIsZero
                    /\ TlbCoherent /\ TablesRight )
<1>1. PageConstants /\ Heap!HeapConstants /\ X86!MmuConstants /\ Arm!ArmConstants
  BY MemoryAssumption
<1>2. Heap!Spec => []HeapSound /\ []ReallocSourceKept
  BY <1>1, HeapIsSound, CopySourceKept
<1>3. Spec => []DropReturnsWhatAllocTook /\ []FreshIsZero
  BY <1>1, DropsMatch, NewIsZero
<1>4. X86!Spec => []TlbCoherent
  BY <1>1, NothingStale
<1>5. X86!Spec /\ Arm!Spec => []TablesRight
  BY <1>1, TablesFollowCalls
<1> QED BY <1>2, <1>3, <1>4, <1>5, MemoryParts, PTL
=============================================================================
