----------------------------- MODULE Boot_proofs -----------------------------
(***************************************************************************)
(* For every memory map, page size and kernel size: a boot that gets       *)
(* through setup_memory_management has laid out its memory safely. The     *)
(* invariant remembers that the layout of a finished boot was computed     *)
(* from the regions that are still in the table, and passed the            *)
(* assertions.  For any devices that discovery finds: the default lookups  *)
(* find a device of each kind that there is.                               *)
(***************************************************************************)
EXTENDS Boot, SequenceTheorems, FiniteSetTheorems, WellFoundedInduction, TLAPS

LayoutFromMap ==
  Done => mm \in memory_map /\ Survives(mm) /\ layout = Layout(mm)

IInv == TypeOK /\ LayoutFromMap
-----------------------------------------------------------------------------
\* Integer division leaves a remainder below the divisor.
LEMMA Division ==
  ASSUME NEW y \in Int, NEW a \in Nat \ {0}
  PROVE  /\ y \div a \in Int /\ y % a \in Int
         /\ y = a * (y \div a) + (y % a)
         /\ 0 <= y % a /\ y % a < a
  OBVIOUS

\* AlignUp rounds to the next multiple of a.
LEMMA AlignUpRounds ==
  ASSUME NEW x \in Nat, NEW a \in Nat \ {0}
  PROVE  /\ AlignUp(x, a) \in Nat
         /\ x <= AlignUp(x, a)
         /\ AlignUp(x, a) % a = 0
<1> DEFINE y == x + a - 1
           q == y \div a
<1>1. /\ q \in Int /\ y % a \in Int
      /\ y = a * q + (y % a) /\ 0 <= y % a /\ y % a < a
  BY Division
<1>2. a * q = q * a /\ q * a \in Int
  BY <1>1
<1>3. (q * a) % a = 0
  BY <1>1
<1> HIDE DEF q
<1>4. y - q * a < a /\ y - q * a >= 0
  BY <1>1, <1>2
<1> QED
  BY <1>1, <1>2, <1>3, <1>4 DEF AlignUp, q

\* AlignUp leaves a multiple of a alone.
LEMMA AlignUpMultiple ==
  ASSUME NEW j \in Nat, NEW a \in Nat \ {0}
  PROVE  AlignUp(j * a, a) = j * a
<1> DEFINE y == j * a + a - 1
           q == y \div a
           r == y % a
<1>1. j * a \in Int /\ y \in Int
  OBVIOUS
<1>2. q \in Int /\ r \in Int /\ y = a * q + r /\ 0 <= r /\ r < a
  BY <1>1, Division
<1>3. y = j * a + a - 1
  OBVIOUS
<1> HIDE DEF q, r, y
<1>4. a * (q - j) = a - 1 - r
  <2>1. a * (q - j) = a * q - a * j /\ a * j = j * a /\ a * q \in Int
    BY <1>2
  <2> QED
    BY <1>1, <1>2, <1>3, <2>1
<1> DEFINE d == q - j
<1>5. d \in Int /\ a * d \in Int /\ a * d >= 0 /\ a * d < a
  BY <1>2, <1>4
<1> HIDE DEF d
<1>6. d >= 1 => a * d >= a
  BY <1>5
<1>7. d <= -1 => a * d <= -a
  BY <1>5
<1>8. d = 0
  BY <1>5, <1>6, <1>7
<1>9. q = j
  BY <1>8, <1>2 DEF d
<1> QED
  BY <1>9 DEF AlignUp, q, y

\* AlignDown does not exceed its argument.
LEMMA AlignDownRounds ==
  ASSUME NEW x \in Nat, NEW a \in Nat \ {0}
  PROVE  AlignDown(x, a) \in Int /\ AlignDown(x, a) <= x
<1> DEFINE q == x \div a
<1>1. /\ q \in Int /\ x % a \in Int
      /\ x = a * q + (x % a) /\ 0 <= x % a
  BY Division
<1>2. a * q = q * a /\ q * a \in Int
  BY <1>1
<1> HIDE DEF q
<1> QED
  BY <1>1, <1>2 DEF AlignDown, q

\* The sizes are positive.
LEMMA Sizes == /\ PageSize \in Nat \ {0}
               /\ HeapCap \in Nat
               /\ AddressSpace \in Nat \ {0}
BY SizesAssumption

\* The first table is a whole number of pages.
LEMMA TableSizes ==
  ASSUME build \in Builds
  PROVE  /\ TableSize \in Nat \ {0}
         /\ \E n \in 1 .. TableSize : TableSize = n * PageSize
<1>1. \E n \in 1 .. TableSize : TableSize = n * PageSize
  BY BuildAssumption DEF TableSize
<1>2. PICK n \in 1 .. TableSize : TableSize = n * PageSize
  BY <1>1
<1>3. n \in Int
  BY <1>2
<1>4. TableSize \in Int
  BY <1>2, <1>3, Sizes
<1> QED
  BY <1>1, <1>2, <1>4
-----------------------------------------------------------------------------
\* The table of regions never outgrows its array.
LEMMA WithRegionsFits ==
  ASSUME NEW rs \in Seq(Region), NEW s \in Seq(Region)
  PROVE  /\ WithRegions(rs, s) \in Seq(Region)
         /\ Len(WithRegions(rs, s)) <= MAX_MEMORY_REGIONS
<1> DEFINE t == rs \o s
           n == IF Len(t) < MAX_MEMORY_REGIONS THEN Len(t) ELSE MAX_MEMORY_REGIONS
<1>1. t \in Seq(Region) /\ Len(t) \in Nat
  BY ConcatProperties
<1>2. n \in Nat /\ n <= Len(t) /\ n <= MAX_MEMORY_REGIONS
  BY <1>1, SizesAssumption
<1> HIDE DEF t, n
<1>3. n >= 1 => SubSeq(t, 1, n) \in Seq(Region) /\ Len(SubSeq(t, 1, n)) = n
  <2>1. ASSUME n >= 1 PROVE 1 \in 1 .. Len(t) + 1 /\ n \in 1 - 1 .. Len(t)
    BY <1>1, <1>2, <2>1
  <2> QED
    BY <2>1, <1>1, <1>2, SubSeqProperties
<1>4. n = 0 => SubSeq(t, 1, n) = << >>
  BY <1>1, SubSeqEmpty
<1>5. SubSeq(t, 1, n) \in Seq(Region) /\ Len(SubSeq(t, 1, n)) <= MAX_MEMORY_REGIONS
  BY <1>2, <1>3, <1>4
<1> QED
  BY <1>5 DEF WithRegions, t, n

\* What discovery adds are regions.
LEMMA AddedRegions ==
  /\ StandardPcRegions \in Seq(Region)
  /\ \A b \in Boards : <<b.ram, b.mmio>> \in Seq(Region)
  /\ \A m \in FirmwareMaps :
       [i \in DOMAIN m |-> ParsedEntry(m[i])] \o StandardPcRegions \in Seq(Region)
  /\ \A t \in Trees : TreeRegions(t) \in Seq(Region)
<1>1. FallbackRam \in Region /\ IsaHole \in Region
  BY InputsAssumption
<1>2. StandardPcRegions \in Seq(Region)
  BY <1>1 DEF StandardPcRegions
<1>3. \A b \in Boards : <<b.ram, b.mmio>> \in Seq(Region)
  BY InputsAssumption
<1>4. ASSUME NEW e \in Entry PROVE ParsedEntry(e) \in Region
  <2>1. e.base % AddressSpace \in Nat /\ e.length % AddressSpace \in Nat
    BY Sizes DEF Entry
  <2> QED
    BY <2>1 DEF ParsedEntry, MemType, Region
<1>5. ASSUME NEW m \in FirmwareMaps
      PROVE  [i \in DOMAIN m |-> ParsedEntry(m[i])] \o StandardPcRegions \in Seq(Region)
  <2>1. m \in Seq(Entry)
    BY InputsAssumption
  <2>2. \A i \in DOMAIN m : ParsedEntry(m[i]) \in Region
    BY <2>1, <1>4
  <2>3. DOMAIN m = 1 .. Len(m) /\ Len(m) \in Nat
    BY <2>1
  <2>4. [i \in DOMAIN m |-> ParsedEntry(m[i])] \in Seq(Region)
    BY <2>2, <2>3
  <2> QED
    BY <2>4, <1>2, ConcatProperties
<1>6. ASSUME NEW t \in Trees PROVE TreeRegions(t) \in Seq(Region)
  <2>1. t \in Seq([base : Nat, size : Nat])
    BY InputsAssumption
  <2>2. DOMAIN t = 1 .. Len(t) /\ Len(t) \in Nat
    BY <2>1
  <2>3. ASSUME NEW i \in DOMAIN t
        PROVE  [base |-> t[i].base, size |-> t[i].size, mem_type |-> "Available"] \in Region
    <3>1. t[i] \in [base : Nat, size : Nat]
      BY <2>1, <2>2, ElementOfSeq
    <3>2. t[i].base \in Nat /\ t[i].size \in Nat
      BY <3>1
    <3> QED
      BY <3>2 DEF Region
  <2> QED
    BY <2>2, <2>3 DEF TreeRegions
<1> QED
  BY <1>2, <1>3, <1>5, <1>6

\* Numbers of the layout that do not depend on the memory map.
LEMMA TableFacts ==
  ASSUME build \in Builds, kernel_end \in Nat
  PROVE  /\ FreeMemStart \in Nat /\ kernel_end <= FreeMemStart
         /\ TableStart \in Nat /\ FreeMemStart <= TableStart
         /\ TableStart % TableSize = 0
         /\ TableEnd \in Nat /\ TableEnd = TableStart + TableSize
         /\ PostTableStart \in Nat /\ TableEnd <= PostTableStart
<1>1. FreeMemStart \in Nat /\ kernel_end <= FreeMemStart
  BY AlignUpRounds, TableSizes, Sizes DEF FreeMemStart
<1>2. /\ TableStart \in Nat /\ FreeMemStart <= TableStart
      /\ TableStart % TableSize = 0
  BY <1>1, AlignUpRounds, TableSizes, Sizes DEF TableStart
<1>3. TableEnd \in Nat /\ TableEnd = TableStart + TableSize
  BY <1>2, TableSizes, Sizes DEF TableEnd
<1>4. PostTableStart \in Nat /\ TableEnd <= PostTableStart
  BY <1>3, AlignUpRounds, TableSizes, Sizes DEF PostTableStart
<1> QED
  BY <1>1, <1>2, <1>3, <1>4

\* The table ends on a page, so nothing lies between it and the heap.
LEMMA HeapFollowsTable ==
  ASSUME build \in Builds, kernel_end \in Nat
  PROVE  PostTableStart = TableEnd
<1>1. PICK n \in 1 .. TableSize : TableSize = n * PageSize
  BY TableSizes
<1> DEFINE x == FreeMemStart
           k == (x + TableSize - 1) \div TableSize
<1>2. x \in Nat
  BY TableFacts
<1>3. k \in Int
  BY <1>2, TableSizes, Sizes, Division
<1>4. TableStart = k * TableSize /\ TableStart \in Nat
  BY TableFacts DEF TableStart, AlignUp
<1> HIDE DEF k, x
<1>5. k >= 0
  <2>1. k <= -1 => k * TableSize <= -TableSize
    BY <1>3, TableSizes, Sizes
  <2> QED
    BY <1>3, <1>4, <2>1, TableSizes, Sizes
<1> DEFINE j == (k + 1) * n
<1>6. n \in Nat
  BY <1>1
<1>7. j \in Nat
  BY <1>3, <1>5, <1>6
<1>8. TableEnd = j * PageSize
  <2>1. TableEnd = (k + 1) * TableSize
    BY <1>3, <1>4, TableSizes, Sizes DEF TableEnd
  <2>2. (k + 1) * (n * PageSize) = ((k + 1) * n) * PageSize
    BY <1>3, <1>6, TableSizes, Sizes
  <2> QED
    BY <2>1, <2>2, <1>1
<1> HIDE DEF j
<1> QED
  BY <1>7, <1>8, AlignUpMultiple, TableSizes, Sizes DEF PostTableStart

\* Numbers that do.
LEMMA PoolFacts ==
  ASSUME build \in Builds, kernel_end \in Nat, NEW m \in MemoryMap
  PROVE  /\ UsableRamEnd(m) \in Nat /\ UsableRamEnd(m) <= m.ram_end
         /\ HeapSize(m) \in Nat
         /\ HeapEnd(m) \in Nat /\ PostTableStart <= HeapEnd(m)
         /\ PostTableStart <= UsableRamEnd(m) => HeapEnd(m) <= UsableRamEnd(m)
         /\ UsableRamEnd(m) < PostTableStart => HeapEnd(m) = PostTableStart
         /\ PageAllocStart(m) \in Nat /\ HeapEnd(m) <= PageAllocStart(m)
         /\ PageAllocStart(m) % PageSize = 0
<1>0. /\ m.ram_start \in Nat /\ m.ram_end \in Nat
      /\ m.peripheral_base \in Nat /\ m.peripheral_end \in Nat
  BY DEF MemoryMap
<1>1. UsableRamEnd(m) \in Nat /\ UsableRamEnd(m) <= m.ram_end
  BY <1>0 DEF UsableRamEnd
<1>2. PostTableStart \in Nat
  BY TableFacts
<1>3. /\ HeapSize(m) \in Nat
      /\ UsableRamEnd(m) <= PostTableStart => HeapSize(m) = 0
      /\ PostTableStart < UsableRamEnd(m) =>
           HeapSize(m) <= UsableRamEnd(m) - PostTableStart
  BY <1>1, <1>2, Sizes DEF HeapSize, Min2
<1>4. /\ HeapEnd(m) \in Nat /\ PostTableStart <= HeapEnd(m)
      /\ PostTableStart <= UsableRamEnd(m) => HeapEnd(m) <= UsableRamEnd(m)
      /\ UsableRamEnd(m) < PostTableStart => HeapEnd(m) = PostTableStart
  BY <1>1, <1>2, <1>3 DEF HeapEnd
<1>5. /\ PageAllocStart(m) \in Nat /\ HeapEnd(m) <= PageAllocStart(m)
      /\ PageAllocStart(m) % PageSize = 0
  BY <1>4, AlignUpRounds, Sizes DEF PageAllocStart
<1> QED
  BY <1>1, <1>3, <1>4, <1>5

\* The map is read off the table of regions.
LEMMA MapFacts ==
  ASSUME TypeOK, NEW m \in memory_map
  PROVE  /\ m \in MemoryMap
         /\ \A i \in Of("Mmio") : /\ m.peripheral_base <= regions[i].base
                                  /\ EndOf(regions[i]) <= m.peripheral_end
<1>1. \A i \in DOMAIN regions : regions[i].base \in Nat /\ regions[i].size \in Nat
  <2>1. regions \in Seq(Region)
    BY DEF TypeOK
  <2>2. \A i \in DOMAIN regions : regions[i] \in Region
    BY <2>1
  <2> QED
    BY <2>2 DEF Region
<1>2. \A i \in DOMAIN regions : EndOf(regions[i]) \in Nat
  BY <1>1, Sizes DEF EndOf
<1>3. PICK i \in LargestRam, w \in Windows :
        m = [ram_start |-> regions[i].base, ram_end |-> EndOf(regions[i]),
             peripheral_base |-> w.base, peripheral_end |-> w.end]
  BY DEF memory_map
<1>4. i \in DOMAIN regions
  BY DEF LargestRam, Of
<1>5. /\ w.base \in Nat /\ w.end \in Nat
      /\ \A j \in Of("Mmio") : w.base <= regions[j].base /\ EndOf(regions[j]) <= w.end
  <2>1. CASE Of("Mmio") = {}
    BY <2>1 DEF Windows
  <2>2. CASE Of("Mmio") # {}
    <3>1. PICK l \in LowestMmio, h \in HighestMmio :
            w = [base |-> regions[l].base, end |-> EndOf(regions[h])]
      BY <2>2 DEF Windows
    <3>2. l \in DOMAIN regions /\ h \in DOMAIN regions
      BY DEF LowestMmio, HighestMmio, Of
    <3> QED
      BY <3>1, <3>2, <1>1, <1>2 DEF LowestMmio, HighestMmio
  <2> QED
    BY <2>1, <2>2
<1> QED
  BY <1>1, <1>2, <1>3, <1>4, <1>5 DEF MemoryMap
-----------------------------------------------------------------------------
\* The inductive invariant holds initially and is preserved by every step.
THEOREM Invariance == MemorySpec => []IInv
<1>1. MemoryInit => IInv
  <2> SUFFICES ASSUME MemoryInit PROVE IInv
    OBVIOUS
  <2>1. regions \in Seq(Region) /\ Len(regions) = 0
    BY DEF MemoryInit
  <2>2. mm \in MemoryMap /\ layout \in MemoryLayout
    BY DEF MemoryInit, NoMap, NoLayout, MemoryMap, MemoryLayout
  <2> QED
    BY <2>1, <2>2, SizesAssumption DEF MemoryInit, IInv, TypeOK, LayoutFromMap, Done
<1>2. IInv /\ [MemoryNext]_memoryVars => IInv'
  <2> SUFFICES ASSUME IInv, [MemoryNext]_memoryVars PROVE IInv'
    OBVIOUS
  <2>0. TypeOK /\ build \in Builds /\ kernel_end \in Nat /\ regions \in Seq(Region)
    BY BuildAssumption DEF IInv, TypeOK
  <2>1. ASSUME NEW m \in FirmwareMaps, discover(m) PROVE IInv'
    <3>1. regions' \in Seq(Region) /\ Len(regions') <= MAX_MEMORY_REGIONS
      BY <2>1, <2>0, AddedRegions, WithRegionsFits DEF discover
    <3> QED
      BY <2>1, <2>0, <3>1 DEF discover, IInv, TypeOK, LayoutFromMap, Done
  <2>2. CASE probe_x86
    <3>1. regions' \in Seq(Region) /\ Len(regions') <= MAX_MEMORY_REGIONS
      BY <2>2, <2>0, AddedRegions, WithRegionsFits DEF probe_x86
    <3> QED
      BY <2>2, <2>0, <3>1 DEF probe_x86, IInv, TypeOK, LayoutFromMap, Done
  <2>3. ASSUME NEW t \in Trees, discover_tree(t) PROVE IInv'
    <3>1. regions' \in Seq(Region) /\ Len(regions') <= MAX_MEMORY_REGIONS
      BY <2>3, <2>0, AddedRegions, WithRegionsFits DEF discover_tree
    <3> QED
      BY <2>3, <2>0, <3>1 DEF discover_tree, IInv, TypeOK, LayoutFromMap, Done
  <2>4. ASSUME NEW midr \in Midrs, probe_arm(midr) PROVE IInv'
    <3>1. regions' \in Seq(Region) /\ Len(regions') <= MAX_MEMORY_REGIONS
      <4>1. CASE regions' = regions
        BY <4>1, <2>0 DEF TypeOK
      <4>2. ASSUME NEW b \in Boards, regions' = WithRegions(regions, <<b.ram, b.mmio>>)
            PROVE  regions' \in Seq(Region) /\ Len(regions') <= MAX_MEMORY_REGIONS
        BY <4>2, <2>0, AddedRegions, WithRegionsFits
      <4> QED
        BY <2>4, <4>1, <4>2 DEF probe_arm
    <3>2. phase' \in {"panic", "discovered"} /\ UNCHANGED <<build, kernel_end, mm, layout>>
      BY <2>4 DEF probe_arm
    <3> QED
      BY <2>0, <3>1, <3>2 DEF IInv, TypeOK, LayoutFromMap, Done
  <2>5. ASSUME NEW m \in memory_map, setup_memory_management(m) PROVE IInv'
    <3>1. m \in MemoryMap
      BY <2>0, MapFacts
    <3>2. Layout(m) \in MemoryLayout
      BY <2>0, <3>1, TableFacts, PoolFacts DEF Layout, MemoryLayout
    <3>3. TypeOK'
      BY <2>5, <2>0, <3>1, <3>2 DEF setup_memory_management, TypeOK
    <3>4. UNCHANGED <<build, regions, kernel_end>> /\ mm' = m
      BY <2>5 DEF setup_memory_management
    <3>5. /\ memory_map' = memory_map
          /\ Survives(mm)' = Survives(m) /\ Layout(mm)' = Layout(m)
      BY <3>4 DEF memory_map, LargestRam, Windows, LowestMmio, HighestMmio, Of, Survives,
           Asserts, Overflows, OutsideWindow, Layout, FreeMemStart, TableSize, TableStart, TableEnd,
           PostTableStart, UsableRamEnd, HeapSize, HeapEnd, PageAllocStart
    <3>6. CASE Survives(m)
      <4>1. layout' = Layout(m)
        BY <2>5, <3>6 DEF setup_memory_management
      <4> QED
        BY <3>3, <4>1, <3>4, <3>5, <3>6 DEF IInv, LayoutFromMap
    <3>7. CASE ~Survives(m)
      BY <2>5, <3>3, <3>7 DEF setup_memory_management, IInv, LayoutFromMap, Done
    <3> QED
      BY <3>6, <3>7
  <2>6. CASE no_available_ram
    BY <2>6, <2>0 DEF no_available_ram, IInv, TypeOK, LayoutFromMap, Done
  <2>7. CASE UNCHANGED memoryVars
    <3>1. TypeOK' /\ Done' = Done
      BY <2>7, <2>0 DEF memoryVars, TypeOK, Done
    <3>2. /\ memory_map' = memory_map /\ mm' = mm /\ layout' = layout
          /\ Survives(mm)' = Survives(mm) /\ Layout(mm)' = Layout(mm)
      BY <2>7 DEF memoryVars, memory_map, LargestRam, Windows, LowestMmio, HighestMmio, Of, Survives,
           Asserts, Overflows, OutsideWindow, Layout, FreeMemStart, TableSize, TableStart, TableEnd,
           PostTableStart, UsableRamEnd, HeapSize, HeapEnd, PageAllocStart
    <3> QED
      BY <3>1, <3>2 DEF IInv, LayoutFromMap
  <2> QED
    BY <2>1, <2>2, <2>3, <2>4, <2>5, <2>6, <2>7 DEF MemoryNext
<1> QED
  BY <1>1, <1>2, PTL DEF MemorySpec

\* Every state is well typed; the table of regions stays within its array.
THEOREM TypeCorrect == MemorySpec => []TypeOK
<1>1. IInv => TypeOK
  BY DEF IInv
<1> QED
  BY <1>1, Invariance, PTL

\* For every machine: kernel, table, heap and pool do not overlap.
THEOREM Ordered == MemorySpec => []LayoutOrdered
<1>1. IInv => LayoutOrdered
  <2> SUFFICES ASSUME IInv, Done PROVE LayoutOrdered
    BY DEF LayoutOrdered
  <2>1. build \in Builds /\ kernel_end \in Nat
    BY BuildAssumption DEF IInv, TypeOK
  <2>2. mm \in MemoryMap /\ layout = Layout(mm)
    BY DEF IInv, TypeOK, LayoutFromMap
  <2> QED
    BY <2>1, <2>2, TableFacts, PoolFacts, Sizes DEF LayoutOrdered, Layout
<1> QED
  BY <1>1, Invariance, PTL

\* For every machine: the layout avoids all memory-mapped I/O.
THEOREM AvoidsMmio == MemorySpec => []NoMmio
<1>1. IInv => NoMmio
  <2> SUFFICES ASSUME IInv, Done, NEW i \in Of("Mmio"),
                      regions[i].size > 0, ~Wraps(regions[i])
               PROVE  /\ Clear(layout.table_start, layout.table_end, regions[i])
                      /\ Clear(layout.heap_start, layout.heap_end, regions[i])
                      /\ Clear(layout.page_alloc_start, PoolEnd, regions[i])
    BY DEF NoMmio
  <2>1. build \in Builds /\ kernel_end \in Nat /\ regions \in Seq(Region) /\ TypeOK
    BY BuildAssumption DEF IInv, TypeOK
  <2>2. /\ mm \in memory_map /\ layout = Layout(mm)
        /\ Asserts(mm)
    BY DEF IInv, LayoutFromMap, Survives
  <2>3. regions[i] \in Region
    BY <2>1 DEF Of
  <2>4. regions[i].base \in Nat /\ regions[i].size \in Nat
    BY <2>3 DEF Region
  <2>5. EndOf(regions[i]) = regions[i].base + regions[i].size
    BY <2>4, Sizes DEF EndOf, Wraps
  <2>6. /\ mm \in MemoryMap
        /\ mm.peripheral_base <= regions[i].base
        /\ regions[i].base + regions[i].size <= mm.peripheral_end
    BY <2>1, <2>2, <2>5, MapFacts
  <2>7. /\ mm.peripheral_base \in Nat /\ mm.peripheral_end \in Nat
        /\ mm.ram_end \in Nat /\ HasWindow(mm)
    BY <2>4, <2>6 DEF MemoryMap, HasWindow
  <2>8. PoolEnd \in Int /\ PoolEnd <= UsableRamEnd(mm)
    BY <2>1, <2>2, <2>6, PoolFacts, AlignDownRounds, Sizes DEF PoolEnd, Layout
  <2>9. Clear(TableStart, TableEnd, regions[i])
    BY <2>1, <2>2, <2>4, <2>6, <2>7, TableFacts DEF Asserts, OutsideWindow, Clear
  <2>10. Clear(PageAllocStart(mm), PoolEnd, regions[i])
    BY <2>1, <2>2, <2>4, <2>6, <2>7, <2>8, PoolFacts DEF Asserts, OutsideWindow, Clear
  <2>11. Clear(PostTableStart, HeapEnd(mm), regions[i])
    <3>1. PostTableStart \in Nat /\ TableStart \in Nat /\ TableEnd \in Nat
      BY <2>1, TableFacts
    <3>2. TableStart <= TableEnd /\ PostTableStart = TableEnd
      BY <2>1, TableFacts, HeapFollowsTable, TableSizes
    <3>3. TableEnd <= mm.peripheral_base \/ TableStart >= mm.peripheral_end
      BY <2>2, <2>7 DEF Asserts, OutsideWindow
    <3>4. /\ UsableRamEnd(mm) \in Nat /\ HeapEnd(mm) \in Nat
          /\ PostTableStart <= UsableRamEnd(mm) => HeapEnd(mm) <= UsableRamEnd(mm)
          /\ UsableRamEnd(mm) < PostTableStart => HeapEnd(mm) = PostTableStart
      BY <2>1, <2>6, PoolFacts
    <3>5. PostTableStart <= mm.peripheral_base => UsableRamEnd(mm) <= mm.peripheral_base
      BY <2>7, <3>1 DEF UsableRamEnd
    <3> QED
      BY <2>4, <2>6, <2>7, <3>1, <3>2, <3>3, <3>4, <3>5 DEF Clear
  <2> QED
    BY <2>2, <2>9, <2>10, <2>11 DEF Layout
<1> QED
  BY <1>1, Invariance, PTL

\* For every machine: a boot that leaves the page allocator any memory has
\* everything it laid out in RAM.
THEOREM InRam == MemorySpec => []LayoutInRam
<1>1. IInv => LayoutInRam
  <2> SUFFICES ASSUME IInv, Done, PoolNotEmpty
               PROVE  /\ mm.ram_start <= layout.table_start
                      /\ layout.heap_end <= mm.ram_end
                      /\ PoolEnd <= mm.ram_end
    BY DEF LayoutInRam
  <2>1. build \in Builds /\ kernel_end \in Nat /\ mm \in MemoryMap
    BY BuildAssumption DEF IInv, TypeOK
  <2>2. layout = Layout(mm) /\ Asserts(mm)
    BY DEF IInv, LayoutFromMap, Survives
  <2>3. mm.ram_start \in Nat /\ mm.ram_end \in Nat
    BY <2>1 DEF MemoryMap
  <2>4. PoolEnd \in Int /\ PoolEnd <= UsableRamEnd(mm)
    BY <2>1, <2>2, PoolFacts, AlignDownRounds, Sizes DEF PoolEnd, Layout
  <2>5. PageAllocStart(mm) < PoolEnd
    BY <2>2 DEF PoolNotEmpty, Layout
  <2>6. mm.ram_start <= FreeMemStart
    BY <2>2, <2>3, <2>1, TableFacts DEF Asserts
  <2>7. /\ layout.table_start = TableStart
        /\ layout.heap_end = HeapEnd(mm)
    BY <2>2 DEF Layout
  <2> QED
    BY <2>1, <2>3, <2>4, <2>5, <2>6, <2>7, TableFacts, PoolFacts
<1> QED
  BY <1>1, Invariance, PTL

\* The three together: setup_memory_management lays memory out safely, for
\* every memory map, tree and board and every page and heap size.
THEOREM SafeLayout == MemorySpec => []LayoutSafe
<1>1. LayoutOrdered /\ NoMmio /\ LayoutInRam => LayoutSafe
  BY DEF LayoutSafe
<1> QED
  BY <1>1, Ordered, AvoidsMmio, InRam, PTL-----------------------------------------------------------------------------
(***************************************************************************)
(* The devices.  Of the entries that init_devices has passed, those with a *)
(* driver are what the manager holds, by name, but for a framebuffer that  *)
(* was enabled later; and one of them is a timer exactly if the channel is *)
(* set.                                                                    *)
(***************************************************************************)

DeviceEntry == [name : DOMAIN Rank, compatible : Compatibles, base : Nat]
KindAt(i) == Dm!Kind(devices[i].compatible)
DeviceAt(i) == [kind |-> KindAt(i), base |-> devices[i].base]
Before == {i \in Dm!WithDriver : i < next}

TimersBefore ==
  /\ sys_channel # None <=> \E i \in Before : KindAt(i) = "Timer"
  /\ \A i, j \in Before : KindAt(i) = "Timer" /\ KindAt(j) = "Timer" => i = j
ManagerHolds ==
  Dm!NamesDiffer =>
    /\ \A i \in Before : devices[i].name \in DOMAIN manager /\ manager[devices[i].name] = DeviceAt(i)
    /\ \A n \in DOMAIN manager : manager[n].kind = "FrameBuffer" \/ \E i \in Before : n = devices[i].name
Registered == DOMAIN manager \subseteq DOMAIN Rank /\ TimersBefore /\ ManagerHolds

DmInv ==
  /\ devices \in Seq(DeviceEntry) /\ next \in Nat \ {0}
  /\ state \in {"boot", "found", "registering", "ready", "panic"}
  /\ state = "boot" => devices = << >> /\ fb_tag = None
  /\ state \in {"boot", "found"} => next = 1 /\ sys_channel = None
  /\ state \in {"registering", "ready"} => Registered
  /\ state = "ready" => next > Len(devices)
  /\ fb_tag # None => \A i \in Dm!WithDriver : devices[i].name # "framebuffer"

\* Every nonempty set of naturals has a least element.
LEMMA LeastNatural ==
  ASSUME NEW T \in SUBSET Nat, T # {}
  PROVE  \E n \in T : \A m \in T : n <= m
<1>1. PICK N \in T : TRUE
  OBVIOUS
<1> DEFINE U == {n \in T : n <= N}
           I == {0 .. n : n \in U}
<1>2. I # {} /\ I \subseteq FiniteSubsetsOf(0 .. N)
  <2>1. \A n \in U : IsFiniteSet(0 .. n)
    BY FS_Interval
  <2> QED BY <1>1, <2>1 DEF FiniteSubsetsOf
<1>3. PICK x \in I : \A y \in I : ~ (<<y, x>> \in StrictSubsetOrdering(0 .. N))
  BY <1>2, WFMin, FS_StrictSubsetOrderingWellFounded
<1>4. PICK n \in U : x = 0 .. n
  OBVIOUS
<1>5. ASSUME NEW m \in T, m < n PROVE FALSE
  <2>1. m \in U /\ 0 .. m \in I
    BY <1>5
  <2>2. n \in 0 .. n /\ n \notin 0 .. m
    BY <1>5
  <2>3. 0 .. m \subseteq 0 .. n /\ 0 .. m # 0 .. n
    BY <2>2, <1>5
  <2>4. 0 .. m \subseteq 0 .. N /\ 0 .. n \subseteq 0 .. N
    BY <2>1
  <2>5. <<0 .. m, 0 .. n>> \in StrictSubsetOrdering(0 .. N)
    BY <2>3, <2>4 DEF StrictSubsetOrdering
  <2> QED BY <2>1, <2>5, <1>3, <1>4
<1> QED BY <1>5

\* The table holds a prefix of what was found.
LEMMA WithDevicesFits ==
  ASSUME NEW more \in Seq(DeviceEntry)
  PROVE  /\ Dm!WithDevices(<< >>, more) \in Seq(DeviceEntry)
         /\ \A i \in DOMAIN Dm!WithDevices(<< >>, more) :
              \E j \in DOMAIN more : Dm!WithDevices(<< >>, more)[i] = more[j]
<1> DEFINE n == IF Len(more) < MAX_DEVICES THEN Len(more) ELSE MAX_DEVICES
           ds == SubSeq(more, 1, n)
<1>1. << >> \o more = more /\ Len(more) \in Nat /\ DOMAIN more = 1 .. Len(more)
  OBVIOUS
<1>2. Dm!WithDevices(<< >>, more) = ds
  BY <1>1 DEF Dm!WithDevices
<1>3. n \in Nat /\ n <= Len(more)
  BY <1>1, BootAssumption DEF Dm!ManagerConstants
<1> HIDE DEF n
<1>4. CASE n = 0
  <2>1. ds = << >>
    BY <1>4, SubSeqEmpty
  <2>2. << >> \in Seq(DeviceEntry) /\ DOMAIN << >> = {}
    OBVIOUS
  <2> HIDE DEF ds
  <2> QED BY <1>2, <2>1, <2>2
<1>5. CASE n >= 1
  <2>1. 1 \in 1 .. Len(more) + 1 /\ n \in 1 - 1 .. Len(more)
    BY <1>1, <1>3, <1>5
  <2>2. ds \in Seq(DeviceEntry) /\ Len(ds) = n /\ \A i \in 1 .. n : ds[i] = more[i]
    BY <1>1, <1>3, <1>5, <2>1, SubSeqProperties
  <2>3. DOMAIN ds = 1 .. n
    BY <2>2
  <2>4. \A i \in 1 .. n : i \in 1 .. Len(more)
    BY <1>1, <1>3
  <2> HIDE DEF ds
  <2> QED BY <1>1, <1>2, <2>2, <2>3, <2>4
<1> QED BY <1>3, <1>4, <1>5

LEMMA KindValues ==
  ASSUME NEW c
  PROVE  Dm!Kind(c) \in {"Serial", "Timer", "InterruptController", "Block", None}
  BY DEF Dm!Kind

\* What discovery adds are devices; only a PC has framebuffer tags, and none of
\* the devices of a PC that have a driver has that name.
LEMMA PcDevices ==
  /\ Dm!StandardPcDevices \in Seq(DeviceEntry)
  /\ \A i \in DOMAIN Dm!StandardPcDevices : Dm!StandardPcDevices[i].name # "framebuffer"
<1>1. /\ {"serial0", "timer", "pic", "vga"} \subseteq DOMAIN Rank
      /\ {"16550a-uart", "i8254-pit", "i8259-pic", "vga-text"} \subseteq Compatibles
  BY BootAssumption DEF Dm!ManagerConstants
<1>2. /\ Dm!Entry("serial0", "16550a-uart", 1016) \in DeviceEntry
      /\ Dm!Entry("timer", "i8254-pit", 64) \in DeviceEntry
      /\ Dm!Entry("pic", "i8259-pic", 32) \in DeviceEntry
      /\ Dm!Entry("vga", "vga-text", 184) \in DeviceEntry
  BY <1>1 DEF Dm!Entry, DeviceEntry
<1>3. Dm!StandardPcDevices \in Seq(DeviceEntry)
  BY <1>2 DEF Dm!StandardPcDevices
<1>4. DOMAIN Dm!StandardPcDevices = 1 .. 4
  BY DEF Dm!StandardPcDevices
<1>5. /\ Dm!StandardPcDevices[1].name = "serial0" /\ Dm!StandardPcDevices[2].name = "timer"
      /\ Dm!StandardPcDevices[3].name = "pic" /\ Dm!StandardPcDevices[4].name = "vga"
  BY DEF Dm!StandardPcDevices, Dm!Entry
<1>6. \A i \in 1 .. 4 : i = 1 \/ i = 2 \/ i = 3 \/ i = 4
  OBVIOUS
<1> QED BY <1>3, <1>4, <1>5, <1>6

LEMMA FoundKeeps ==
  ASSUME DmInv, NEW more \in Seq(DeviceEntry), Dm!Found(more)
  PROVE  /\ devices' \in Seq(DeviceEntry)
         /\ \A i \in DOMAIN devices' : \E j \in DOMAIN more : devices'[i] = more[j]
         /\ fb_tag = None
         /\ (fb_tag' = None \/ \A i \in Dm!WithDriver' : devices'[i].name # "framebuffer") => DmInv'
<1>1. /\ state = "boot" /\ devices = << >> /\ fb_tag = None /\ next = 1 /\ sys_channel = None
      /\ devices' = Dm!WithDevices(<< >>, more) /\ state' = "found" /\ next' = next /\ sys_channel' = sys_channel
  BY DEF DmInv, Dm!Found
<1>2. /\ devices' \in Seq(DeviceEntry)
      /\ \A i \in DOMAIN devices' : \E j \in DOMAIN more : devices'[i] = more[j]
  BY <1>1, WithDevicesFits
<1>3. (fb_tag' = None \/ \A i \in Dm!WithDriver' : devices'[i].name # "framebuffer") => DmInv'
  BY <1>1, <1>2 DEF DmInv
<1> QED BY <1>1, <1>2, <1>3

LEMMA DiscoveryKeeps ==
  ASSUME DmInv, Discovery
  PROVE  DmInv'
<1>1. ASSUME NEW tags \in FirmwareTags, Dm!multiboot2(tags) PROVE DmInv'
  <2> DEFINE fbs == [i \in DOMAIN tags |-> Dm!Entry("framebuffer", "multiboot2-fb", tags[i].addr)]
             more == fbs \o Dm!StandardPcDevices
  <2>1. tags \in Seq(FbTag) /\ DOMAIN tags = 1 .. Len(tags) /\ Len(tags) \in Nat
    BY BootAssumption
  <2>2. \A i \in DOMAIN tags : Dm!Entry("framebuffer", "multiboot2-fb", tags[i].addr) \in DeviceEntry
    <3> TAKE i \in DOMAIN tags
    <3>1. tags[i] \in FbTag
      BY <2>1
    <3>2. tags[i].addr \in Nat /\ "framebuffer" \in DOMAIN Rank /\ "multiboot2-fb" \in Compatibles
      BY <3>1, BootAssumption DEF FbTag, Dm!ManagerConstants
    <3> QED BY <3>2 DEF Dm!Entry, DeviceEntry
  <2>3. /\ fbs \in Seq(DeviceEntry) /\ Len(fbs) = Len(tags)
        /\ \A i \in 1 .. Len(tags) : fbs[i].compatible = "multiboot2-fb"
    BY <2>1, <2>2 DEF Dm!Entry
  <2>4. Dm!Found(more)
    BY <1>1 DEF Dm!multiboot2
  <2> HIDE DEF fbs
  <2>5. Dm!StandardPcDevices \in Seq(DeviceEntry)
    BY PcDevices
  <2>6. more \in Seq(DeviceEntry)
    BY <2>3, <2>5
  <2>7. ASSUME NEW j \in DOMAIN more PROVE more[j].name # "framebuffer" \/ Dm!Kind(more[j].compatible) = None
    <3> DEFINE std == Dm!StandardPcDevices
    <3>1. /\ Len(std) \in Nat /\ DOMAIN std = 1 .. Len(std) /\ DOMAIN more = 1 .. Len(tags) + Len(std)
          /\ \A i \in 1 .. Len(std) : std[i].name # "framebuffer"
      BY <2>1, <2>3, <2>5, PcDevices
    <3> HIDE DEF std
    <3>2. more = fbs \o std /\ std \in Seq(DeviceEntry)
      BY <2>5 DEF std
    <3>3. CASE j <= Len(tags)
      <4>1. more[j] = fbs[j] /\ j \in 1 .. Len(tags)
        BY <2>1, <2>3, <3>1, <3>2, <3>3
      <4>2. more[j].compatible = "multiboot2-fb"
        BY <2>3, <4>1
      <4> QED BY <4>2 DEF Dm!Kind
    <3>4. CASE j > Len(tags)
      <4>1. more[j] = std[j - Len(tags)] /\ j - Len(tags) \in 1 .. Len(std)
        BY <2>1, <2>3, <3>1, <3>2, <3>4
      <4> QED BY <3>1, <4>1
    <3> QED BY <2>1, <3>1, <3>3, <3>4
  <2> HIDE DEF more
  <2>8. /\ devices' \in Seq(DeviceEntry)
        /\ \A i \in DOMAIN devices' : \E j \in DOMAIN more : devices'[i] = more[j]
        /\ (fb_tag' = None \/ \A i \in Dm!WithDriver' : devices'[i].name # "framebuffer") => DmInv'
    BY <2>4, <2>6, FoundKeeps
  <2>9. \A i \in Dm!WithDriver' : devices'[i].name # "framebuffer"
    BY <2>7, <2>8 DEF Dm!WithDriver
  <2> QED BY <2>8, <2>9
<1>2. ASSUME Dm!probe_x86 PROVE DmInv'
  BY <1>2, PcDevices, FoundKeeps DEF Dm!probe_x86
<1>3. ASSUME NEW nodes \in Seq(DeviceEntry), Dm!arm_devices(nodes) PROVE DmInv'
  BY <1>3, FoundKeeps DEF Dm!arm_devices
<1>4. ASSUME NEW t \in DeviceTrees, Dm!arm_devices(t.nodes) PROVE DmInv'
  BY <1>3, <1>4, BootAssumption DEF Nodes, DeviceEntry
<1>5. ASSUME NEW b \in Boards, Dm!arm_devices(b.devices) PROVE DmInv'
  BY <1>3, <1>5, BootAssumption DEF Nodes, DeviceEntry
<1>6. ASSUME UNCHANGED dmVars PROVE DmInv'
  BY <1>6 DEF dmVars, DmInv, Registered, TimersBefore, ManagerHolds, Before, KindAt, DeviceAt, Dm!WithDriver, Dm!NamesDiffer
<1> QED BY <1>1, <1>2, <1>4, <1>5, <1>6 DEF Discovery

\* The entries with a driver are indices of the table.
LEMMA WithDriverFacts ==
  ASSUME DmInv
  PROVE  /\ DOMAIN devices = 1 .. Len(devices) /\ Len(devices) \in Nat
         /\ \A i \in Dm!WithDriver : i \in Nat /\ i \in 1 .. Len(devices) /\ devices[i].name \in DOMAIN Rank
<1>1. DOMAIN devices = 1 .. Len(devices) /\ Len(devices) \in Nat /\ \A i \in 1 .. Len(devices) : devices[i] \in DeviceEntry
  BY DEF DmInv
<1> QED BY <1>1 DEF Dm!WithDriver, DeviceEntry

LEMMA InitDevicesKeeps ==
  ASSUME DmInv, Dm!init_devices
  PROVE  DmInv'
<1>1. /\ state = "found" /\ manager' = [n \in {} |-> None] /\ state' = "registering" /\ next = 1 /\ sys_channel = None
      /\ UNCHANGED <<devices, fb_tag, sys_channel, next>>
  BY DEF Dm!init_devices, DmInv
<1>2. DOMAIN manager' = {}
  BY <1>1
<1>3. \A i \in Dm!WithDriver : ~ (i < next)
  BY <1>1, WithDriverFacts
<1>4. Before' = {}
  BY <1>1, <1>3 DEF Before, Dm!WithDriver
<1>5. Registered'
  BY <1>1, <1>2, <1>4 DEF Registered, TimersBefore, ManagerHolds
<1> QED BY <1>1, <1>5 DEF DmInv, Dm!WithDriver

LEMMA InitDeviceKeeps ==
  ASSUME DmInv, Dm!init_device
  PROVE  DmInv'
<1> DEFINE d == devices[next]
           kind == Dm!Kind(d.compatible)
<1>1. /\ state = "registering" /\ next <= Len(devices) /\ devices' = devices /\ fb_tag' = fb_tag /\ Registered
      /\ next \in Nat \ {0}
  BY DEF Dm!init_device, Dm!Panic, DmInv
<1>2. next \in DOMAIN devices
  BY <1>1, WithDriverFacts
<1>3. Dm!WithDriver' = Dm!WithDriver /\ (Dm!NamesDiffer' <=> Dm!NamesDiffer)
  BY <1>1 DEF Dm!WithDriver, Dm!NamesDiffer
<1>4. \A i : KindAt(i)' = KindAt(i) /\ DeviceAt(i)' = DeviceAt(i)
  BY <1>1 DEF KindAt, DeviceAt
<1>5. next \in Dm!WithDriver <=> kind # None
  BY <1>2 DEF Dm!WithDriver
<1>6. CASE kind = None
  <2>1. next' = next + 1 /\ manager' = manager /\ sys_channel' = sys_channel /\ state' = state
    BY <1>6 DEF Dm!init_device
  <2>2. \A i \in Dm!WithDriver : i < next + 1 <=> i < next
    BY <1>1, <1>5, <1>6, WithDriverFacts
  <2>3. Before' = Before
    BY <1>3, <2>1, <2>2 DEF Before
  <2>4. Registered'
    BY <1>1, <1>3, <1>4, <2>1, <2>3 DEF Registered, TimersBefore, ManagerHolds
  <2> QED BY <1>1, <1>3, <2>1, <2>4 DEF DmInv
<1>7. CASE kind # None /\ (~ Dm!Constructed(d) \/ (kind = "Timer" /\ sys_channel # None))
  <2>1. state' = "panic" /\ next' = next
    BY <1>7 DEF Dm!init_device, Dm!Panic
  <2> QED BY <1>1, <1>3, <2>1 DEF DmInv
<1>8. CASE kind # None /\ ~ (~ Dm!Constructed(d) \/ (kind = "Timer" /\ sys_channel # None))
  <2> DEFINE dev == [kind |-> kind, base |-> d.base]
  <2>1. /\ manager' = [n \in DOMAIN manager \cup {d.name} |-> IF n = d.name THEN dev ELSE manager[n]]
        /\ sys_channel' = IF kind = "Timer" THEN 1 ELSE sys_channel
        /\ next' = next + 1 /\ state' = state
    BY <1>8 DEF Dm!init_device, Dm!register
  <2>2. next \in Dm!WithDriver /\ d.name \in DOMAIN Rank
    BY <1>5, <1>8, WithDriverFacts
  <2>3. Before' = Before \cup {next} /\ next \notin Before
    <3>1. \A i \in Dm!WithDriver : i < next + 1 <=> i < next \/ i = next
      BY <1>1, WithDriverFacts
    <3>2. Before' = {i \in Dm!WithDriver : i < next + 1}
      BY <1>3, <2>1 DEF Before
    <3>3. {i \in Dm!WithDriver : i < next + 1} = {i \in Dm!WithDriver : i < next} \cup {next}
      BY <2>2, <3>1
    <3>4. ~ (next < next)
      BY <1>1
    <3> QED BY <3>2, <3>3, <3>4 DEF Before
  <2>4. KindAt(next) = kind /\ DeviceAt(next) = dev
    BY DEF KindAt, DeviceAt
  <2> HIDE DEF kind, dev
  <2>5. TimersBefore'
    <3>1. None # 1
      BY BootAssumption DEF Dm!ManagerConstants
    <3>2. CASE kind = "Timer"
      <4>1. \A i \in Before : KindAt(i) # "Timer"
        BY <1>1, <1>8, <3>2 DEF Registered, TimersBefore
      <4>2. sys_channel' # None
        BY <2>1, <3>1, <3>2
      <4> QED BY <1>4, <2>3, <2>4, <3>2, <4>1, <4>2 DEF TimersBefore
    <3>3. CASE kind # "Timer"
      <4>1. sys_channel' = sys_channel
        BY <2>1, <3>3
      <4> QED BY <1>1, <1>4, <2>3, <2>4, <3>3, <4>1 DEF Registered, TimersBefore
    <3> QED BY <3>2, <3>3
  <2>6. DOMAIN manager' = DOMAIN manager \cup {d.name} /\ manager'[d.name] = dev
        /\ \A n \in DOMAIN manager : n # d.name => manager'[n] = manager[n]
    BY <2>1
  <2>7. ManagerHolds'
    <3> SUFFICES ASSUME Dm!NamesDiffer
                 PROVE  /\ \A i \in Before \cup {next} : devices[i].name \in DOMAIN manager' /\ manager'[devices[i].name] = DeviceAt(i)
                        /\ \A n \in DOMAIN manager' :
                             manager'[n].kind = "FrameBuffer" \/ \E i \in Before \cup {next} : n = devices[i].name
      BY <1>1, <1>3, <1>4, <2>3 DEF ManagerHolds
    <3>1. /\ \A i \in Before : devices[i].name \in DOMAIN manager /\ manager[devices[i].name] = DeviceAt(i)
          /\ \A n \in DOMAIN manager : manager[n].kind = "FrameBuffer" \/ \E i \in Before : n = devices[i].name
      BY <1>1 DEF Registered, ManagerHolds
    <3>2. \A i \in Before : devices[i].name # d.name
      BY <2>2, <2>3 DEF Before, Dm!NamesDiffer
    <3> QED BY <2>4, <2>6, <3>1, <3>2
  <2>8. Registered'
    BY <1>1, <2>2, <2>5, <2>6, <2>7 DEF Registered
  <2> QED BY <1>1, <1>3, <2>1, <2>8 DEF DmInv
<1> QED BY <1>6, <1>7, <1>8

LEMMA DoneKeeps ==
  ASSUME DmInv, Dm!init_devices_done
  PROVE  DmInv'
<1>1. /\ state = "registering" /\ next > Len(devices) /\ state' = "ready"
      /\ UNCHANGED <<devices, fb_tag, manager, sys_channel, next>>
  BY DEF Dm!init_devices_done
<1>2. Registered'
  BY <1>1 DEF DmInv, Registered, TimersBefore, ManagerHolds, Before, KindAt, DeviceAt, Dm!WithDriver, Dm!NamesDiffer
<1> QED BY <1>1, <1>2 DEF DmInv, Dm!WithDriver

LEMMA EnableKeeps ==
  ASSUME DmInv, Dm!enable_graphical_framebuffer
  PROVE  DmInv'
<1> DEFINE fb == [kind |-> "FrameBuffer", base |-> fb_tag.addr]
<1>1. /\ state = "ready" /\ fb_tag # None /\ UNCHANGED <<devices, fb_tag, sys_channel, next, state>>
      /\ manager' = [n \in DOMAIN manager \cup {"framebuffer"} |-> IF n = "framebuffer" THEN fb ELSE manager[n]]
  BY DEF Dm!enable_graphical_framebuffer, Dm!register
<1>2. fb.kind = "FrameBuffer"
  OBVIOUS
<1> HIDE DEF fb
<1>3. /\ DOMAIN manager' = DOMAIN manager \cup {"framebuffer"} /\ manager'["framebuffer"] = fb
      /\ \A n \in DOMAIN manager : n # "framebuffer" => manager'[n] = manager[n]
  BY <1>1
<1>4. \A i \in Before : devices[i].name # "framebuffer"
  BY <1>1 DEF DmInv, Before
<1>5. Before' = Before /\ (Dm!NamesDiffer' <=> Dm!NamesDiffer) /\ \A i : KindAt(i)' = KindAt(i) /\ DeviceAt(i)' = DeviceAt(i)
  BY <1>1 DEF Before, Dm!WithDriver, Dm!NamesDiffer, KindAt, DeviceAt
<1>6. Registered
  BY <1>1 DEF DmInv
<1>7. ManagerHolds'
  BY <1>1, <1>2, <1>3, <1>4, <1>5, <1>6 DEF Registered, ManagerHolds
<1>8. TimersBefore'
  BY <1>1, <1>5, <1>6 DEF Registered, TimersBefore
<1>9. DOMAIN manager' \subseteq DOMAIN Rank
  BY <1>3, <1>6, BootAssumption DEF Registered, Dm!ManagerConstants
<1> QED BY <1>1, <1>7, <1>8, <1>9 DEF DmInv, Registered, Dm!WithDriver

LEMMA DmInit == Dm!Init => DmInv
<1> SUFFICES ASSUME Dm!Init PROVE DmInv
  OBVIOUS
<1>1. << >> \in Seq(DeviceEntry) /\ 1 \in Nat \ {0}
  OBVIOUS
<1> QED BY <1>1 DEF Dm!Init, DmInv

LEMMA DmNext == DmInv /\ [Discovery \/ MemorySetup \/ DeviceSetup]_<<memoryVars, dmVars>> => DmInv'
<1> SUFFICES ASSUME DmInv, [Discovery \/ MemorySetup \/ DeviceSetup]_<<memoryVars, dmVars>> PROVE DmInv'
  OBVIOUS
<1>1. ASSUME UNCHANGED dmVars PROVE DmInv'
  BY <1>1 DEF dmVars, DmInv, Registered, TimersBefore, ManagerHolds, Before, KindAt, DeviceAt, Dm!WithDriver, Dm!NamesDiffer
<1>2. ASSUME DeviceSetup PROVE DmInv'
  BY <1>2, InitDevicesKeeps, InitDeviceKeeps, DoneKeeps, EnableKeeps DEF DeviceSetup, Dm!Registration
<1> QED BY <1>1, <1>2, DiscoveryKeeps DEF MemorySetup

(*** Lookup ****************************************************************)

\* A lookup answers with a device of the kind, if there is one.
LEMMA OneNamed ==
  ASSUME NEW name, NEW kind, Dm!Named(name, kind) # {}
  PROVE  name \in Dm!Names(kind) /\ Dm!Named(name, kind) = {manager[name]}
  BY DEF Dm!Named, Dm!Names

LEMMA FirstFound ==
  ASSUME DOMAIN manager \subseteq DOMAIN Rank, NEW kind, Dm!Names(kind) # {}
  PROVE  \E n \in Dm!Names(kind) : Dm!First(kind) = {manager[n]}
<1> DEFINE N == Dm!Names(kind)
           T == {Rank[n] : n \in N}
<1>1. N \subseteq DOMAIN Rank
  BY DEF Dm!Names
<1>2. \A n \in N : Rank[n] \in Nat
  BY <1>1, BootAssumption DEF Dm!ManagerConstants
<1>3. \A m, n \in N : Rank[m] = Rank[n] => m = n
  BY <1>1, BootAssumption DEF Dm!ManagerConstants
<1> HIDE DEF N
<1>4. T \in SUBSET Nat /\ T # {}
  BY <1>2 DEF N
<1>5. PICK r \in T : \A q \in T : r <= q
  BY <1>4, LeastNatural
<1>6. PICK n \in N : Rank[n] = r
  OBVIOUS
<1>7. \A o \in N : Rank[n] <= Rank[o]
  BY <1>5, <1>6
<1>8. ASSUME NEW m \in N, \A o \in N : Rank[m] <= Rank[o] PROVE m = n
  <2>1. Rank[m] <= Rank[n] /\ Rank[n] <= Rank[m] /\ Rank[m] \in Nat /\ Rank[n] \in Nat
    BY <1>2, <1>6, <1>7, <1>8
  <2> QED BY <1>3, <1>6, <2>1
<1>9. {m \in N : \A o \in N : Rank[m] <= Rank[o]} = {n}
  BY <1>6, <1>7, <1>8
<1>10. Dm!First(kind) = {manager[m] : m \in {n}}
  BY <1>9 DEF Dm!First, N
<1> QED BY <1>6, <1>10 DEF N

LEMMA UsualNameFound ==
  ASSUME NEW S, NEW names \in Seq(S), NEW kind, Dm!ByUsualName(names, kind) # {}
  PROVE  \E n \in Dm!Names(kind) : Dm!ByUsualName(names, kind) = {manager[n]}
<1> DEFINE there == {i \in DOMAIN names : Dm!Named(names[i], kind) # {}}
           first == {j \in there : \A k \in there : j <= k}
<1>1. there \in SUBSET Nat
  OBVIOUS
<1>2. Dm!ByUsualName(names, kind) = UNION {Dm!Named(names[i], kind) : i \in first}
  BY DEF Dm!ByUsualName
<1>3. PICK i \in first : TRUE
  BY <1>2
<1>4. i \in there /\ \A k \in there : i <= k
  BY <1>3
<1>a. Dm!Named(names[i], kind) # {}
  BY <1>4
<1>5. first = {i}
  BY <1>1, <1>4
<1> HIDE DEF first, there
<1>6. Dm!ByUsualName(names, kind) = Dm!Named(names[i], kind)
  BY <1>2, <1>5
<1> QED BY <1>6, <1>a, OneNamed

LEMMA ByNameFound ==
  ASSUME DOMAIN manager \subseteq DOMAIN Rank, NEW S, NEW names \in Seq(S), NEW kind
  PROVE  /\ Dm!Names(kind) # {} => \E n \in Dm!Names(kind) : Dm!ByName(names, kind) = {manager[n]}
         /\ Dm!Names(kind) = {} => Dm!ByName(names, kind) = {}
<1>1. CASE Dm!ByUsualName(names, kind) # {}
  <2>1. Dm!ByName(names, kind) = Dm!ByUsualName(names, kind)
    BY <1>1 DEF Dm!ByName
  <2> QED BY <1>1, <2>1, UsualNameFound
<1>2. CASE Dm!ByUsualName(names, kind) = {}
  <2>1. Dm!ByName(names, kind) = Dm!First(kind)
    BY <1>2 DEF Dm!ByName
  <2>2. Dm!Names(kind) = {} => Dm!First(kind) = {}
    BY DEF Dm!First
  <2> QED BY <2>1, <2>2, FirstFound
<1> QED BY <1>1, <1>2

\* Once all are registered, the names of a kind are those discovery found.
LEMMA KindsFound ==
  ASSUME DmInv, state = "ready", Dm!NamesDiffer, NEW kind \in {"Serial", "Timer", "InterruptController"}
  PROVE  /\ \A n \in Dm!Names(kind) : manager[n] \in Dm!Discovered(kind)
         /\ Dm!Names(kind) = {} <=> Dm!Discovered(kind) = {}
         /\ Dm!Names(kind) = {devices[i].name : i \in {j \in Dm!WithDriver : KindAt(j) = kind}}
<1>1. Registered /\ next > Len(devices) /\ next \in Nat
  BY DEF DmInv
<1>2. Before = Dm!WithDriver
  BY <1>1, WithDriverFacts DEF Before
<1>3. /\ \A i \in Dm!WithDriver : devices[i].name \in DOMAIN manager /\ manager[devices[i].name] = DeviceAt(i)
      /\ \A n \in DOMAIN manager : manager[n].kind = "FrameBuffer" \/ \E i \in Dm!WithDriver : n = devices[i].name
  BY <1>1, <1>2 DEF Registered, ManagerHolds
<1>4. ASSUME NEW n \in Dm!Names(kind)
      PROVE  \E i \in Dm!WithDriver : n = devices[i].name /\ KindAt(i) = kind /\ manager[n] = DeviceAt(i)
  <2>1. n \in DOMAIN manager /\ manager[n].kind = kind /\ kind # "FrameBuffer"
    BY <1>4 DEF Dm!Names
  <2>2. PICK i \in Dm!WithDriver : n = devices[i].name
    BY <1>3, <2>1
  <2>3. manager[n] = DeviceAt(i)
    BY <1>3, <2>2
  <2>4. KindAt(i) = kind
    BY <2>1, <2>3 DEF DeviceAt
  <2> QED BY <2>2, <2>3, <2>4
<1>5. ASSUME NEW i \in Dm!WithDriver, KindAt(i) = kind
      PROVE  devices[i].name \in Dm!Names(kind) /\ DeviceAt(i) \in Dm!Discovered(kind)
  <2>1. manager[devices[i].name].kind = kind
    <3>1. DeviceAt(i).kind = kind
      BY <1>5 DEF DeviceAt
    <3> QED BY <1>3, <3>1
  <2>2. DeviceAt(i) = [kind |-> kind, base |-> devices[i].base] /\ Dm!Kind(devices[i].compatible) = kind
    BY <1>5 DEF DeviceAt, KindAt
  <2> QED BY <1>3, <2>1, <2>2 DEF Dm!Names, Dm!Discovered
<1>6. \A n \in Dm!Names(kind) : manager[n] \in Dm!Discovered(kind)
  BY <1>4, <1>5
<1>7. Dm!Discovered(kind) # {} => \E i \in Dm!WithDriver : KindAt(i) = kind
  BY DEF Dm!Discovered, KindAt
<1>8. Dm!Names(kind) = {devices[i].name : i \in {j \in Dm!WithDriver : KindAt(j) = kind}}
  BY <1>4, <1>5
<1> QED BY <1>5, <1>6, <1>7, <1>8

\* The size of an answer.
LEMMA Sizes01 ==
  Dm!Cardinality({}) = 0 /\ \A x : Dm!Cardinality({x}) = 1
<1>1. ASSUME NEW S PROVE Dm!Cardinality(S) = Cardinality(S)
  BY DEF Dm!Cardinality, Cardinality
<1> QED BY <1>1, FS_EmptySet, FS_Singleton

LEMMA DefaultsAtReady == DmInv => DefaultsFound
<1> SUFFICES ASSUME DmInv, state = "ready", Dm!NamesDiffer
             PROVE  /\ \A kind \in {"Serial", "Timer", "InterruptController"} :
                         LET answer == CASE kind = "Serial" -> Dm!serial_console
                                         [] kind = "Timer" -> Dm!system_timer
                                         [] OTHER -> Dm!irq_controller
                         IN  /\ Dm!Cardinality(answer) <= 1 /\ answer \subseteq Dm!Discovered(kind)
                             /\ answer = {} <=> Dm!Discovered(kind) = {}
                    /\ sys_channel # None <=> Dm!Cardinality(Dm!Names("Timer")) = 1
  BY DEF DefaultsFound, Dm!DefaultsFound
<1>1. Registered /\ next > Len(devices) /\ next \in Nat
  BY DEF DmInv
<1>2. DOMAIN manager \subseteq DOMAIN Rank
  BY <1>1 DEF Registered
<1>3. ASSUME NEW S, NEW names \in Seq(S), NEW kind \in {"Serial", "Timer", "InterruptController"}
      PROVE  /\ Dm!Cardinality(Dm!ByName(names, kind)) <= 1 /\ Dm!ByName(names, kind) \subseteq Dm!Discovered(kind)
             /\ Dm!ByName(names, kind) = {} <=> Dm!Discovered(kind) = {}
  <2>1. /\ \A n \in Dm!Names(kind) : manager[n] \in Dm!Discovered(kind)
        /\ Dm!Names(kind) = {} <=> Dm!Discovered(kind) = {}
    BY KindsFound
  <2>2. CASE Dm!Names(kind) = {}
    <3>1. Dm!ByName(names, kind) = {}
      BY <1>2, <2>2, ByNameFound
    <3>2. Dm!Cardinality({}) = 0
      BY Sizes01
    <3> QED BY <2>1, <2>2, <3>1, <3>2
  <2>3. CASE Dm!Names(kind) # {}
    <3>1. PICK n \in Dm!Names(kind) : Dm!ByName(names, kind) = {manager[n]}
      BY <1>2, <2>3, ByNameFound
    <3>2. Dm!Cardinality({manager[n]}) = 1
      BY Sizes01
    <3> QED BY <2>1, <2>3, <3>1, <3>2
  <2> QED BY <2>2, <2>3
<1>4. sys_channel # None <=> Dm!Cardinality(Dm!Names("Timer")) = 1
  <2>1. Before = Dm!WithDriver
    BY <1>1, WithDriverFacts DEF Before
  <2> DEFINE T == {j \in Dm!WithDriver : KindAt(j) = "Timer"}
  <2>2. /\ Dm!Names("Timer") = {devices[i].name : i \in T}
        /\ sys_channel # None <=> T # {}
        /\ \A i, j \in T : i = j
    BY <1>1, <2>1, KindsFound DEF Registered, TimersBefore
  <2> HIDE DEF T
  <2>3. CASE T = {}
    <3>1. Dm!Names("Timer") = {}
      BY <2>2, <2>3
    <3>2. Dm!Cardinality({}) = 0
      BY Sizes01
    <3> QED BY <2>2, <2>3, <3>1, <3>2
  <2>4. CASE T # {}
    <3>1. PICK i \in T : T = {i}
      BY <2>2, <2>4
    <3>2. Dm!Names("Timer") = {devices[i].name}
      BY <2>2, <3>1
    <3>3. Dm!Cardinality({devices[i].name}) = 1
      BY Sizes01
    <3> QED BY <2>2, <2>4, <3>2, <3>3
  <2> QED BY <2>3, <2>4
<1>5. /\ <<"console", "serial0">> \in Seq({"console", "serial0"})
      /\ <<"system_timer", "timer">> \in Seq({"system_timer", "timer"})
      /\ <<"intc", "pic", "gic">> \in Seq({"intc", "pic", "gic"})
  OBVIOUS
<1>6. /\ Dm!Cardinality(Dm!serial_console) <= 1 /\ Dm!serial_console \subseteq Dm!Discovered("Serial")
      /\ Dm!serial_console = {} <=> Dm!Discovered("Serial") = {}
  BY <1>3, <1>5 DEF Dm!serial_console
<1>7. /\ Dm!Cardinality(Dm!system_timer) <= 1 /\ Dm!system_timer \subseteq Dm!Discovered("Timer")
      /\ Dm!system_timer = {} <=> Dm!Discovered("Timer") = {}
  BY <1>3, <1>5 DEF Dm!system_timer
<1>8. /\ Dm!Cardinality(Dm!irq_controller) <= 1 /\ Dm!irq_controller \subseteq Dm!Discovered("InterruptController")
      /\ Dm!irq_controller = {} <=> Dm!Discovered("InterruptController") = {}
  BY <1>3, <1>5 DEF Dm!irq_controller
<1> QED BY <1>4, <1>6, <1>7, <1>8

\* Whatever devices discovery finds, in whichever order and under whichever
\* names: the console, the system timer and the interrupt controller are found
\* exactly if there is one (device_manager.rs, Platform::init_devices).
THEOREM Defaults == BootSpec => []DefaultsFound
<1>1. BootInit => DmInv
  BY DmInit DEF BootInit
<1>2. DmInv /\ [Discovery \/ MemorySetup \/ DeviceSetup]_<<memoryVars, dmVars>> => DmInv'
  BY DmNext
<1>3. DmInv => DefaultsFound
  BY DefaultsAtReady
<1> QED BY <1>1, <1>2, <1>3, PTL DEF BootSpec

\* A boot of memory and devices is a boot of memory.
LEMMA BootsMemory == BootSpec => MemorySpec
<1>1. BootInit => MemoryInit
  BY DEF BootInit
<1>2. [Discovery \/ MemorySetup \/ DeviceSetup]_<<memoryVars, dmVars>> => [MemoryNext]_memoryVars
  BY BootAssumption DEF Discovery, MemorySetup, DeviceSetup, MemoryNext
<1> QED BY <1>1, <1>2, PTL DEF BootSpec, MemorySpec

\* A boot that gets through has its memory laid out safely and its devices at
\* hand.
THEOREM BootSafe == BootSpec => [](LayoutSafe /\ DefaultsFound)
  BY BootsMemory, SafeLayout, Defaults, PTL
=============================================================================
