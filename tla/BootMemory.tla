----------------------------- MODULE BootMemory -----------------------------
(***************************************************************************)
(* How the kernel learns where memory is and divides it up: the boot layer *)
(* (kernel/src/boot) writes what the firmware reports, or what it assumes, *)
(* into the platform's table of memory regions (drivers/src/platform), and *)
(* setup_memory_management (kernel/src/kcore/init.rs) reduces the table to *)
(* one RAM region and one peripheral window and lays out the page table,   *)
(* the heap and the page allocator's pool behind the kernel image.         *)
(*                                                                         *)
(* Boot is sequential; what varies is what the machine reports. Addresses  *)
(* are bytes, an interval is [start, end).                                 *)
(***************************************************************************)
EXTENDS Integers, Sequences, FiniteSets

CONSTANTS Builds,              \* the kernels that can be built
          PageSize,            \* 4096
          HeapCap,             \* 16 MB
          AddressSpace,        \* 2^32: what fits a usize
          MAX_MEMORY_REGIONS,  \* 64
          FirmwareMaps,        \* memory maps that PC firmware may report
          Trees,               \* the memory nodes of device trees
          Midrs,               \* main ID registers of ARM processors
          Boards,              \* the boards of probe::arm, by what it matches
          FallbackRam,         \* the region register_standard_pc_devices adds
          IsaHole              \* and the MMIO region it adds

\* A build has a target_arch and perhaps the device-tree feature; a wrapped subtraction is a panic or not (dev and
\* release profile); the first table has a size, which is its alignment (16 KB
\* on ARM, 4 KB on x86) and a whole number of pages; and the image ends
\* somewhere.
ASSUME BuildAssumption ==
  \A b \in Builds :
    /\ b.arch \in {"x86", "arm"}
    /\ b.overflow_checks \in BOOLEAN /\ b.device_tree \in BOOLEAN
    /\ \E n \in 1 .. b.table_size : b.table_size = n * PageSize
    /\ b.kernel_ends \subseteq Nat \ {0}

ASSUME SizesAssumption ==
  /\ PageSize \in Nat \ {0}
  /\ HeapCap \in Nat
  /\ AddressSpace \in Nat \ {0}
  /\ MAX_MEMORY_REGIONS \in Nat

Region == [base : Nat, size : Nat, mem_type : {"Available", "Mmio", "Reserved"}]

\* An entry of a firmware map is 64 bits wide and carries a numeric type.
Entry == [base : Nat, length : Nat, entry_type : Nat]

ASSUME InputsAssumption ==
  /\ \A m \in FirmwareMaps : m \in Seq(Entry)
  /\ \A t \in Trees : t \in Seq([base : Nat, size : Nat])
  /\ Midrs \subseteq Nat
  /\ \A b \in Boards : b.cpu_id \in Nat /\ b.ram \in Region /\ b.mmio \in Region
  /\ FallbackRam \in Region /\ IsaHole \in Region

VARIABLES phase,       \* how far the boot is
          build,       \* the kernel that runs
          regions,     \* MEMORY_REGIONS[..MEMORY_REGION_COUNT]
          kernel_end,  \* get_kernel_end_address
          mm,          \* the memory map setup_memory_management worked from
          layout       \* what setup_memory_management returned

memoryVars == <<phase, build, regions, kernel_end, mm, layout>>

MemoryMap == [ram_start : Nat, ram_end : Nat,
              peripheral_base : Nat, peripheral_end : Nat]
MemoryLayout == [table_start : Nat, table_end : Nat, heap_start : Nat,
                 heap_end : Nat, page_alloc_start : Nat, page_alloc_end : Nat]

NoMap == [ram_start |-> 0, ram_end |-> 0,
          peripheral_base |-> 0, peripheral_end |-> 0]
NoLayout == [table_start |-> 0, table_end |-> 0, heap_start |-> 0,
             heap_end |-> 0, page_alloc_start |-> 0, page_alloc_end |-> 0]
-----------------------------------------------------------------------------
\* Discovery.

MemoryInit == /\ phase = "discover"
              /\ build \in Builds
              /\ regions = <<>>
              /\ kernel_end \in build.kernel_ends
              /\ mm = NoMap
              /\ layout = NoLayout

\* add_memory_region drops what does not fit the table, silently.
WithRegions(rs, s) == SubSeq(rs \o s, 1,
                        IF Len(rs \o s) < MAX_MEMORY_REGIONS
                          THEN Len(rs \o s) ELSE MAX_MEMORY_REGIONS)

MemType(n) == IF n = 1 THEN "Available" ELSE IF n = 3 THEN "Mmio" ELSE "Reserved"

\* A base or a length beyond the address space loses its upper half.
ParsedEntry(e) == [base |-> e.base % AddressSpace,
                   size |-> e.length % AddressSpace,
                   mem_type |-> MemType(e.entry_type)]

\* What every PC is taken to have, whatever the firmware says.
StandardPcRegions == <<FallbackRam, IsaHole>>

\* multiboot2::discover adds the entries of the memory map tag in their order
\* and then the standard regions.
discover(m) ==
  /\ build.arch = "x86" /\ phase = "discover"
  /\ regions' = WithRegions(regions,
                   [i \in DOMAIN m |-> ParsedEntry(m[i])] \o StandardPcRegions)
  /\ phase' = "discovered"
  /\ UNCHANGED <<build, kernel_end, mm, layout>>

\* No Multiboot2, or a memory map of an unknown version: probe::x86.
probe_x86 ==
  /\ build.arch = "x86" /\ phase = "discover"
  /\ regions' = WithRegions(regions, StandardPcRegions)
  /\ phase' = "discovered"
  /\ UNCHANGED <<build, kernel_end, mm, layout>>

\* The regions of the memory nodes: a device tree reports RAM only.
TreeRegions(t) ==
  [i \in DOMAIN t |-> [base |-> t[i].base, size |-> t[i].size, mem_type |-> "Available"]]

\* device_tree::discover, in a build with the feature.
discover_tree(t) ==
  /\ build.arch = "arm" /\ build.device_tree /\ phase = "discover"
  /\ regions' = WithRegions(regions, TreeRegions(t))
  /\ phase' = "discovered"
  /\ UNCHANGED <<build, kernel_end, mm, layout>>

\* Bits 4 to 15 of the register.
read_arm_cpu_id(midr) == (midr \div 16) % 4096

\* No tree, one that cannot be read, or a build without the feature: probe::arm
\* looks the CPU up; a board adds its RAM and its MMIO window, a CPU without a
\* board ends the boot.
probe_arm(midr) ==
  LET found == {b \in Boards : b.cpu_id = read_arm_cpu_id(midr)}
  IN  /\ build.arch = "arm" /\ phase = "discover"
      /\ IF found = {}
           THEN phase' = "panic" /\ UNCHANGED regions
           ELSE /\ phase' = "discovered"
                /\ \E b \in found : regions' = WithRegions(regions, <<b.ram, b.mmio>>)
      /\ UNCHANGED <<build, kernel_end, mm, layout>>
-----------------------------------------------------------------------------
\* Platform::memory_map.

Of(t) == {i \in DOMAIN regions : regions[i].mem_type = t}

\* The end of a region, as a usize: one that ends at or above the top of the
\* address space wraps around (or, with overflow checks, panics).
EndOf(r) == (r.base + r.size) % AddressSpace
Wraps(r) == r.base + r.size >= AddressSpace

\* max_by_key returns the last of several largest regions.
LargestRam == {i \in Of("Available") :
                 \A j \in Of("Available") :
                   \/ regions[j].size < regions[i].size
                   \/ regions[j].size = regions[i].size /\ j <= i}

LowestMmio == {i \in Of("Mmio") :
                 \A j \in Of("Mmio") : regions[i].base <= regions[j].base}

\* Wrong: the window ends with the first MMIO region of the table.
FirstMmio == {i \in Of("Mmio") : \A j \in Of("Mmio") : i <= j}

HighestMmio == {i \in Of("Mmio") :
                  \A j \in Of("Mmio") : EndOf(regions[j]) <= EndOf(regions[i])}

\* The peripheral window spans all MMIO regions; the end saturates at the base.
Windows == IF Of("Mmio") = {}
             THEN {[base |-> 0, end |-> 0]}
             ELSE {[base |-> regions[l].base, end |-> EndOf(regions[h])] :
                     l \in LowestMmio, h \in HighestMmio}

\* The map, as a set: empty if there is no RAM region, which is a panic.
memory_map == {[ram_start |-> regions[i].base, ram_end |-> EndOf(regions[i]),
                peripheral_base |-> w.base, peripheral_end |-> w.end] :
                  i \in LargestRam, w \in Windows}

HasWindow(m) == m.peripheral_end > m.peripheral_base
OutsideWindow(m, s, e) ==
  HasWindow(m) => e <= m.peripheral_base \/ s >= m.peripheral_end
-----------------------------------------------------------------------------
\* setup_memory_management.

AlignUp(x, a) == ((x + a - 1) \div a) * a
AlignDown(x, a) == (x \div a) * a

Min2(x, y) == IF x <= y THEN x ELSE y

FreeMemStart == AlignUp(kernel_end, PageSize)

TableSize == build.table_size

TableStart == AlignUp(FreeMemStart, TableSize)
TableEnd == TableStart + TableSize
PostTableStart == AlignUp(TableEnd, PageSize)

UsableRamEnd(m) ==
  IF HasWindow(m) /\ PostTableStart <= m.peripheral_base /\ m.peripheral_base < m.ram_end
    THEN m.peripheral_base
    ELSE m.ram_end

\* A tenth of what is left, saturating at nothing.
HeapSize(m) == IF UsableRamEnd(m) <= PostTableStart
                 THEN 0
                 ELSE Min2(HeapCap, (UsableRamEnd(m) - PostTableStart) \div 10)

HeapEnd(m) == PostTableStart + HeapSize(m)

PageAllocStart(m) == AlignUp(HeapEnd(m), PageSize)

Layout(m) ==
  [table_start |-> TableStart, table_end |-> TableEnd,
   heap_start |-> PostTableStart, heap_end |-> HeapEnd(m),
   page_alloc_start |-> PageAllocStart(m), page_alloc_end |-> UsableRamEnd(m)]

\* The assertions, in the order of the code: the kernel's end is inside RAM
\* and outside the window, the table and the pool are outside it.
Asserts(m) ==
  /\ FreeMemStart >= m.ram_start /\ FreeMemStart < m.ram_end
  /\ HasWindow(m) => \/ FreeMemStart < m.peripheral_base
                     \/ FreeMemStart >= m.peripheral_end
  /\ OutsideWindow(m, TableStart, TableEnd)
  /\ OutsideWindow(m, PageAllocStart(m), UsableRamEnd(m))

\* The sums and differences that may wrap: the ends of the regions, and
\* end - start in BuddyAllocator::init, of the pool rounded inwards.
Overflows(m) ==
  \/ \E i \in LargestRam \cup Of("Mmio") : Wraps(regions[i])
  \/ AlignDown(UsableRamEnd(m), PageSize) < PageAllocStart(m)

Survives(m) == Asserts(m) /\ ~(build.overflow_checks /\ Overflows(m))

setup_memory_management(m) ==
  /\ phase = "discovered"
  /\ mm' = m
  /\ IF Survives(m)
       THEN phase' = "done" /\ layout' = Layout(m)
       ELSE phase' = "panic" /\ layout' = layout
  /\ UNCHANGED <<build, regions, kernel_end>>

no_available_ram ==
  /\ phase = "discovered" /\ Of("Available") = {}
  /\ phase' = "panic"
  /\ UNCHANGED <<build, regions, kernel_end, mm, layout>>

MemoryNext == \/ \E m \in FirmwareMaps : discover(m)
              \/ probe_x86
              \/ \E t \in Trees : discover_tree(t)
              \/ \E midr \in Midrs : probe_arm(midr)
              \/ \E m \in memory_map : setup_memory_management(m)
              \/ no_available_ram

MemorySpec == MemoryInit /\ [][MemoryNext]_memoryVars
-----------------------------------------------------------------------------
\* Properties.

\* Every variable has its type; a finished boot has a layout.
TypeOK == /\ phase \in {"discover", "discovered", "done", "panic"}
          /\ build \in Builds
          /\ regions \in Seq(Region)
          /\ Len(regions) <= MAX_MEMORY_REGIONS
          /\ kernel_end \in build.kernel_ends
          /\ mm \in MemoryMap
          /\ layout \in MemoryLayout

Done == phase = "done"

\* The pages the buddy allocator of the page allocator can hand out.
PoolEnd == AlignDown(layout.page_alloc_end, PageSize)
PoolNotEmpty == layout.page_alloc_start < PoolEnd

\* Whatever regions the machine reports, the kernel image, the first table,
\* the heap and the pool follow one another without overlap, the table is
\* aligned to its size and the pool to pages: four roundings and a tenth of a
\* difference in setup_memory_management have to agree on it.
LayoutOrdered ==
  Done => /\ kernel_end <= layout.table_start
          /\ layout.table_start % TableSize = 0
          /\ layout.table_start + TableSize <= layout.heap_start
          /\ layout.heap_start <= layout.heap_end
          /\ layout.heap_end <= layout.page_alloc_start
          /\ layout.page_alloc_start % PageSize = 0

\* Nothing the kernel lays out touches a region the table calls MMIO, although
\* the code only looks at the one window spanned by all of them. (A region
\* that runs past the address space has no end to compare with.)
Clear(s, e, r) == e <= s \/ e <= r.base \/ r.base + r.size <= s
NoMmio ==
  Done => \A i \in Of("Mmio") :
            regions[i].size > 0 /\ ~Wraps(regions[i]) =>
              /\ Clear(layout.table_start, layout.table_end, regions[i])
              /\ Clear(layout.heap_start, layout.heap_end, regions[i])
              /\ Clear(layout.page_alloc_start, PoolEnd, regions[i])

\* When the page allocator gets any memory at all, the table, the heap and the
\* pool all lie in the RAM region that was chosen: the assertions only look at
\* where free memory starts.
LayoutInRam ==
  Done /\ PoolNotEmpty => /\ mm.ram_start <= layout.table_start
                          /\ layout.heap_end <= mm.ram_end
                          /\ PoolEnd <= mm.ram_end

\* Whatever the table of regions says, what the kernel lays out for itself is
\* apart, inside the RAM region that memory_map chose if the pool has memory,
\* and clear of the MMIO regions in the table.  That the chosen region is RAM
\* the machine has, and that no MMIO region was dropped from a full table, is
\* not said (FirmwareOverrides).
LayoutSafe == LayoutOrdered /\ NoMmio /\ LayoutInRam

\* probe.rs calls the region that every PC is taken to have a "conservative
\* fallback memory map (Multiboot2 overrides this with precise values when
\* available)": when the firmware has reported RAM, what the kernel lays out is
\* in it.
Reported == {i \in Of("Available") : regions[i] # FallbackRam}
FirmwareOverrides ==
  Done /\ build.arch = "x86" /\ Reported # {} =>
    \E i \in Reported : /\ regions[i].base <= layout.table_start
                        /\ PoolEnd <= regions[i].base + regions[i].size

\* probe::arm names the CPU of each board it knows ("ARM1176JZF-S", "Cortex-A7",
\* "Cortex-A53"): on these, the boot gets through discovery and the setup of
\* memory.  (For Midrs that are those of the three.)
KnownBoardsBoot == build.arch = "arm" => phase # "panic"
=============================================================================
