------------------------------- MODULE X86Mmu -------------------------------
(***************************************************************************)
(* The x86 page tables (kernel/src/arch/x86/mmu.rs): a page directory      *)
(* whose entries map a large page each or point to a page table from a     *)
(* static pool, changed one page at a time by map_region and unmap_region  *)
(* while the processor fills its TLB from them whenever it likes.          *)
(*                                                                         *)
(* Addresses are counted in units of which a page has PageSize; the code   *)
(* has 1024 entries per table and directory and 64 tables in the pool.     *)
(* The code reaches its tables through the identity map of the first large *)
(* pages, as every pointer in it is a physical address.                    *)
(***************************************************************************)
EXTENDS Integers, FiniteSets, Sequences, FiniteSetsExt

CONSTANTS None,                   \* an entry without the present bit
          PageSize,               \* PAGE_SIZE
          PdEntries, PtEntries,   \* PD_ENTRIES, PT_ENTRIES
          PoolCount,              \* PT_POOL_COUNT
          TablePages,             \* pages that hold the directory and the pool
          Maps,                   \* calls of map_region: [virt, phys, size, flags]
          Unmaps                  \* calls of unmap_region: [virt, size]

Pages == 0 .. PdEntries * PtEntries - 1
Pdis == 0 .. PdEntries - 1
Ptis == 0 .. PtEntries - 1

VARIABLES pd,       \* the page directory: None, a large page or a page table
          pool,     \* PT_POOL: the tables, each [index -> None or mapping]
          next,     \* PT_POOL_NEXT
          tlb,      \* [pages the processor has cached -> mapping]
          call,     \* the call under way
          asked,    \* history: the mapping the calls so far asked for, per page
          state     \* "off", "running", "panic", "fault" or "clobbered"

vars == <<pd, pool, next, tlb, call, asked, state>>

Idle == [op |-> "none"]

(*** Entries ***************************************************************)

pd_index(page) == (page \div PtEntries) % PdEntries
pt_index(page) == page % PtEntries

\* A large page that maps its own address, as init writes two of them.
PsPde(i) == [ps |-> TRUE, frame |-> i * PtEntries, flags |-> {"WRITE"}]
PtPde(t) == [ps |-> FALSE, table |-> t]
Pte(frame, flags) == [frame |-> frame, flags |-> flags]

\* map_flags_to_x86: READ, EXEC and CACHED have no bit.
map_flags_to_x86(flags) == flags \cap {"WRITE", "USER", "DEVICE"}

\* The processor's walk of the tables.
Walk(page) ==
  LET pde == pd[pd_index(page)]
  IN IF pde = None THEN None
     ELSE IF pde.ps THEN Pte(pde.frame + pt_index(page), pde.flags)
     ELSE pool[pde.table][pt_index(page)]

\* Pages that share a translation in the TLB with page.
SameEntry(page) == IF pd[pd_index(page)] # None /\ pd[pd_index(page)].ps
                   THEN {p \in Pages : pd_index(p) = pd_index(page)} ELSE {page}

\* invlpg drops the entry of a page, and of the large page it was part of
\* (InvlpgNone leaves them).
InvlpgNone(pages) == UNCHANGED tlb
invlpg(pages) == tlb' = [p \in DOMAIN tlb \ pages |-> tlb[p]]

\* The tables can be read and written: they are mapped where they are.
Reachable == \A p \in TablePages : Walk(p) # None /\ Walk(p).frame = p

(*** Regions ***************************************************************)

\* The pages the code visits for [virt, virt + size): the first, and how many
\* (PageCountAligned forgets that virt may lie inside a page).
First(virt) == virt \div PageSize
PageCountAligned(virt, size) == (size + PageSize - 1) \div PageSize
PageCount(virt, size) == (size + (virt % PageSize) + PageSize - 1) \div PageSize

\* The pages that a region really overlaps.
Overlapped(virt, size) ==
  {p \in Pages : p * PageSize < virt + size /\ virt < (p + 1) * PageSize}

\* A region in the address space.
InSpace(r) == /\ r.virt \in Nat /\ r.size \in Nat
              /\ r.virt + r.size <= PdEntries * PtEntries * PageSize

MmuConstants ==
  /\ PageSize \in Nat \ {0} /\ PtEntries \in Nat \ {0}
  /\ PdEntries \in Nat /\ PdEntries >= 2 /\ PoolCount \in Nat
  /\ TablePages \subseteq 0 .. 2 * PtEntries - 1
  /\ \A m \in Maps : InSpace(m) /\ m.phys \in Nat
  /\ \A u \in Unmaps : InSpace(u)
  /\ \A i \in Pdis : None # PsPde(i)
  /\ \A t \in 0 .. PoolCount - 1 : None # PtPde(t)

(*** Actions ***************************************************************)

Init == /\ pd = [i \in Pdis |-> None]
        /\ pool = [t \in 0 .. PoolCount - 1 |-> [i \in Ptis |-> None]]
        /\ next = 0
        /\ tlb = << >>
        /\ call = Idle
        /\ asked = [p \in Pages |-> None]
        /\ state = "off"

\* init: two large pages, CR3 and paging on.
init == /\ state = "off"
        /\ pd' = [pd EXCEPT ![0] = PsPde(0), ![1] = PsPde(1)]
        /\ asked' = [p \in Pages |-> IF p < 2 * PtEntries THEN Pte(p, {"WRITE"}) ELSE None]
        /\ state' = "running"
        /\ UNCHANGED <<pool, next, tlb, call>>

\* map_region and unmap_region begin: the loop starts at the first page.
map_region(m) ==
  /\ state = "running" /\ call = Idle
  /\ call' = [op |-> "map", page |-> First(m.virt), frame |-> First(m.phys),
              left |-> PageCount(m.virt, m.size), flags |-> map_flags_to_x86(m.flags),
              flush |-> {}]
  /\ asked' = [p \in Pages |->
                 IF p \in Overlapped(m.virt, m.size)
                 THEN Pte(First(m.phys) + p - First(m.virt), map_flags_to_x86(m.flags))
                 ELSE asked[p]]
  /\ UNCHANGED <<pd, pool, next, tlb, state>>

\* A large page goes as a whole when any part of it is unmapped.
unmap_region(u) ==
  /\ state = "running" /\ call = Idle
  /\ call' = [op |-> "unmap", page |-> First(u.virt),
              left |-> PageCount(u.virt, u.size), flush |-> {}]
  /\ asked' = [p \in Pages |->
                 IF SameEntry(p) \cap Overlapped(u.virt, u.size) # {} THEN None ELSE asked[p]]
  /\ UNCHANGED <<pd, pool, next, tlb, state>>

\* The loop body works on call.page and ends with invlpg of it.
Visiting(op) == /\ state = "running" /\ call.op = op /\ call.left > 0 /\ call.flush = {}
Then(flush) == call' = [call EXCEPT !.flush = flush]

fault == /\ state = "running" /\ call # Idle /\ call.left > 0 /\ call.flush = {}
         /\ ~ Reachable
         /\ state' = "fault"
         /\ UNCHANGED <<pd, pool, next, tlb, call, asked>>

\* The table exists: write the entry.
map_page ==
  LET pde == pd[pd_index(call.page)]
  IN /\ Visiting("map") /\ Reachable
     /\ pde # None /\ ~ pde.ps
     /\ pool' = [pool EXCEPT ![pde.table][pt_index(call.page)] = Pte(call.frame, call.flags)]
     /\ Then({call.page})
     /\ UNCHANGED <<pd, next, tlb, asked, state>>

\* No table yet: take one from the pool, or panic.
map_new_table ==
  /\ Visiting("map") /\ Reachable
  /\ pd[pd_index(call.page)] = None
  /\ next < PoolCount
  /\ next' = next + 1
  /\ pd' = [pd EXCEPT ![pd_index(call.page)] = PtPde(next)]
  /\ pool' = [pool EXCEPT ![next][pt_index(call.page)] = Pte(call.frame, call.flags)]
  /\ Then({call.page})
  /\ UNCHANGED <<tlb, asked, state>>

pool_exhausted ==
  /\ Visiting("map") /\ Reachable
  /\ pd[pd_index(call.page)] = None
  /\ next = PoolCount
  /\ state' = "panic"
  /\ UNCHANGED <<pd, pool, next, tlb, call, asked>>

\* The entry is a large page, which the code takes for a table: the write goes
\* to the memory it maps.  Nothing is known about the kernel after that.
map_into_large ==
  /\ Visiting("map") /\ Reachable
  /\ pd[pd_index(call.page)] # None /\ pd[pd_index(call.page)].ps
  /\ state' = "clobbered"
  /\ UNCHANGED <<pd, pool, next, tlb, call, asked>>

unmap_page ==
  LET pde == pd[pd_index(call.page)]
  IN /\ Visiting("unmap") /\ Reachable
     /\ pde # None /\ ~ pde.ps
     /\ pool' = [pool EXCEPT ![pde.table][pt_index(call.page)] = None]
     /\ Then({call.page})
     /\ UNCHANGED <<pd, next, tlb, asked, state>>

unmap_large ==
  /\ Visiting("unmap") /\ Reachable
  /\ pd[pd_index(call.page)] # None /\ pd[pd_index(call.page)].ps
  /\ pd' = [pd EXCEPT ![pd_index(call.page)] = None]
  /\ Then(SameEntry(call.page))
  /\ UNCHANGED <<pool, next, tlb, asked, state>>

Advance == [call EXCEPT !.page = @ + 1, !.left = @ - 1, !.flush = {}]

unmap_nothing ==
  /\ Visiting("unmap") /\ Reachable
  /\ pd[pd_index(call.page)] = None
  /\ call' = Advance
  /\ UNCHANGED <<pd, pool, next, tlb, asked, state>>

\* The end of the loop body.
invalidate ==
  /\ state = "running" /\ call # Idle /\ call.flush # {}
  /\ invlpg(call.flush)
  /\ call' = IF call.op = "map" THEN [Advance EXCEPT !.frame = @ + 1] ELSE Advance
  /\ UNCHANGED <<pd, pool, next, asked, state>>

return == /\ state = "running" /\ call # Idle /\ call.left = 0
          /\ call' = Idle
          /\ UNCHANGED <<pd, pool, next, tlb, asked, state>>

\* The processor caches the translation of any page, at any time.
tlb_fill(p) ==
  /\ state = "running" /\ p \notin DOMAIN tlb /\ Walk(p) # None
  /\ tlb' = [q \in DOMAIN tlb \cup {p} |-> IF q = p THEN Walk(p) ELSE tlb[q]]
  /\ UNCHANGED <<pd, pool, next, call, asked, state>>

invalidate_tlb_entry(p) ==
  /\ state = "running" /\ call = Idle
  /\ invlpg(SameEntry(p))
  /\ UNCHANGED <<pd, pool, next, call, asked, state>>
invalidate_tlb_all ==
  /\ state = "running" /\ call = Idle
  /\ tlb' = << >>
  /\ UNCHANGED <<pd, pool, next, call, asked, state>>

Stopped == state \in {"panic", "fault", "clobbered"} /\ UNCHANGED vars

Next == \/ init
        \/ \E m \in Maps : map_region(m)
        \/ \E u \in Unmaps : unmap_region(u)
        \/ map_page \/ map_new_table \/ pool_exhausted \/ map_into_large
        \/ unmap_page \/ unmap_large \/ unmap_nothing
        \/ fault \/ invalidate \/ return
        \/ \E p \in Pages : tlb_fill(p) \/ invalidate_tlb_entry(p)
        \/ invalidate_tlb_all
        \/ Stopped

Spec == Init /\ [][Next]_vars

(*** Properties ************************************************************)

\* A translation the processor may use is the one in the tables, except for
\* the pages whose entry was written a moment ago and whose invlpg comes next:
\* no sequence of calls leaves a stale entry behind, whenever it was cached.
TlbCoherent ==
  state = "running" =>
    \A p \in DOMAIN tlb : tlb[p] = Walk(p) \/ (call # Idle /\ p \in call.flush)

\* Between calls the tables map every page as the last call that covers it
\* asked, whatever offsets and sizes the regions have and however the pages
\* of one table are shared by regions.
MapsWhatWasAsked ==
  state = "running" /\ call = Idle => \A p \in Pages : Walk(p) = asked[p]
=============================================================================
