------------------------------- MODULE Memory -------------------------------
(***************************************************************************)
(* Memory in the running kernel: the heap, the pages and the page tables.  *)
(* They share nothing (the heap and the page allocator have a region, a    *)
(* mutex and a BuddyAllocator each), so a behaviour is about one: part     *)
(* says which, and which of the two memory management units is built in.   *)
(***************************************************************************)
EXTENDS PageAllocator

CONSTANTS \* the heap (HeapAllocator)
          HeapBase, HeapLimit, HeapBlockSize, Sizes, Aligns, Tasks, MaxLive,
          \* the x86 page tables (X86Mmu)
          NoEntry, PageSize, PdEntries, PtEntries, PoolCount, TablePages, X86Maps, X86Unmaps,
          \* the ARM page table (ArmMmu)
          SectionSize, L1Entries, Ram, Peripherals, Vectors, TableSection, ArmMaps, ArmUnmaps

VARIABLES part,
          heapOut, heapAnswer, header, live, heapCall, astray, heapPanicked,
          pd, pool, next, tlb, x86Call, asked, state,
          l1, armTlb, armCall, armAsked, armState

Heap == INSTANCE HeapAllocator
          WITH Base <- HeapBase, Limit <- HeapLimit, BlockSize <- HeapBlockSize,
               allocated <- heapOut, answer <- heapAnswer, call <- heapCall,
               panicked <- heapPanicked
heapVars == <<heapOut, heapAnswer, header, live, heapCall, astray, heapPanicked>>

X86 == INSTANCE X86Mmu
         WITH None <- NoEntry, Maps <- X86Maps, Unmaps <- X86Unmaps, call <- x86Call
x86Vars == <<pd, pool, next, tlb, x86Call, asked, state>>

Arm == INSTANCE ArmMmu
         WITH None <- NoEntry, Maps <- ArmMaps, Unmaps <- ArmUnmaps,
              tlb <- armTlb, call <- armCall, asked <- armAsked, state <- armState
armVars == <<l1, armTlb, armCall, armAsked, armState>>

ASSUME MemoryAssumption ==
  PageConstants /\ Heap!HeapConstants /\ X86!MmuConstants /\ Arm!ArmConstants

all == <<part, vars, heapVars, x86Vars, armVars>>

MemoryInit == /\ part \in {"heap", "pages", "x86", "arm"}
              /\ Init /\ Heap!Init /\ X86!Init /\ Arm!Init
HeapStep == part = "heap" /\ Heap!Next /\ UNCHANGED <<part, vars, x86Vars, armVars>>
PageStep == part = "pages" /\ Next /\ UNCHANGED <<part, heapVars, x86Vars, armVars>>
X86Step == part = "x86" /\ X86!Next /\ UNCHANGED <<part, vars, heapVars, armVars>>
ArmStep == part = "arm" /\ Arm!Next /\ UNCHANGED <<part, vars, heapVars, x86Vars>>
MemorySpec == MemoryInit /\ [][HeapStep \/ PageStep \/ X86Step \/ ArmStep]_all
-----------------------------------------------------------------------------
\* Memory handed out lies in its block, behind the header, and free gives the
\* block back (buddy_allocator.rs).
HeapSound == Heap!HeapSound

\* realloc copies from memory that is still its own (heap_allocator.rs).
ReallocSourceKept == Heap!ReallocSourceKept

\* No translation outlives the invlpg of its entry (arch/x86/mmu.rs).
TlbCoherent == X86!TlbCoherent

\* Both units, after any calls of map_region and unmap_region, map what the
\* calls asked for and nothing else.
TablesRight == X86!MapsWhatWasAsked /\ Arm!SectionsRight
=============================================================================
