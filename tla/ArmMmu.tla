------------------------------- MODULE ArmMmu -------------------------------
(***************************************************************************)
(* The ARM page table (kernel/src/arch/arm/mmu.rs): one level of sections, *)
(* changed by map_region and unmap_region while the processor fills its    *)
(* TLB from it.  A section belongs to a domain, and DACR opens domain 0     *)
(* only.  Addresses are counted in units of which a section has            *)
(* SectionSize; the code has 4096 sections of 1 MB.  KERNEL_L1_TABLE_PHYS  *)
(* is the table that init was given; it is reached where it physically is. *)
(***************************************************************************)
EXTENDS Integers, FiniteSets

CONSTANTS None,                 \* an entry of zero
          SectionSize,          \* SECTION_SIZE
          L1Entries,            \* NUM_L1_ENTRIES
          Ram, Peripherals,     \* [start, size] of the platform's memory map
          Vectors,              \* the address of _vectors
          TableSection,         \* the section that holds the table
          Maps, Unmaps          \* calls: [virt, phys, size, flags], [virt, size]

VARIABLES l1,      \* the table
          tlb,     \* [sections the processor has cached -> entry]
          call,    \* the call under way
          asked,   \* history: the entry the calls so far asked for, per section
          state    \* "off", "running" or "fault"

armVars == <<l1, tlb, call, asked, state>>

Idle == [op |-> "none"]
Sections == 0 .. L1Entries - 1
l1_index(va) == va \div SectionSize

(*** Entries ***************************************************************)

section_entry(sec, mem, ap, domain, exec) ==
  [frame |-> sec, mem |-> mem, ap |-> ap, domain |-> domain, exec |-> exec]

DOMAIN_KERNEL == 0
DOMAIN_USER == 1
DOMAIN_HW == 2

\* What map_region makes of the flags.
FlagsEntry(sec, flags) ==
  section_entry(sec,
    IF "DEVICE" \in flags THEN "device" ELSE IF "CACHED" \in flags THEN "writeback" ELSE "uncached",
    [kernel |-> IF "USER" \in flags \/ "WRITE" \in flags THEN "rw" ELSE "ro",
     user |-> IF "USER" \notin flags THEN "no" ELSE IF "WRITE" \in flags THEN "rw" ELSE "ro"],
    IF "USER" \in flags THEN DOMAIN_USER ELSE DOMAIN_KERNEL,
    "EXEC" \in flags)

PrivRw == [kernel |-> "rw", user |-> "no"]

\* The sections from the one an address lies in, for a size rounded up.
Visited(virt, size) ==
  {l1_index(virt) + i : i \in 0 .. ((size + SectionSize - 1) \div SectionSize) - 1}

\* A region in the address space: va >> 20 of its addresses is below 4096.
InSpace(r) == r.virt \in Nat /\ r.size \in Nat /\ Visited(r.virt, r.size) \subseteq Sections

ArmConstants ==
  /\ SectionSize \in Nat \ {0} /\ L1Entries \in Nat
  /\ TableSection \in 0 .. L1Entries - 1
  /\ \A m \in Maps : InSpace(m) /\ m.phys \in Nat
  /\ \A u \in Unmaps : InSpace(u)

\* The sections of init: those a region overlaps.
Touched(r) == l1_index(r.start) .. ((r.start + r.size + SectionSize - 1) \div SectionSize) - 1

\* What a region covers.  The size is rounded up without regard to where in
\* its section a region starts, so a region may cover one section more than
\* are visited; what was asked for there is marked.
Covered(virt, size) == {s \in Sections : s * SectionSize < virt + size /\ virt < (s + 1) * SectionSize}
Short == [short |-> TRUE]
Wanted(virt, size, Entry(_)) ==
  [s \in Sections |-> IF s \notin Covered(virt, size) THEN asked[s]
                      ELSE IF s \in Visited(virt, size) THEN Entry(s) ELSE Short]

(*** The processor *********************************************************)

\* An access needs an entry in an open domain: DACR is 1.
Open(e) == e # None /\ e.domain = DOMAIN_KERNEL
Translation(s) == IF s \in DOMAIN tlb THEN tlb[s] ELSE l1[s]
Reachable == Open(Translation(TableSection)) /\ Translation(TableSection).frame = TableSection

tlb_fill(s) ==
  /\ state = "running" /\ s \notin DOMAIN tlb /\ l1[s] # None
  /\ tlb' = [q \in DOMAIN tlb \cup {s} |-> IF q = s THEN l1[s] ELSE tlb[q]]
  /\ UNCHANGED <<l1, call, asked, state>>

(*** Calls *****************************************************************)

Init == /\ l1 = [s \in Sections |-> None]
        /\ tlb = << >> /\ call = Idle
        /\ asked = [s \in Sections |-> None]
        /\ state = "off"

\* init: RAM, then the vectors, then the peripherals, over what is there; then
\* enable_mmu, with an empty TLB.
FirstTable == [s \in Sections |->
  IF s \in Touched(Peripherals) THEN section_entry(s, "device", PrivRw, DOMAIN_HW, FALSE)
  ELSE IF s \in Touched(Ram) \cup {l1_index(Vectors)} THEN section_entry(s, "writeback", PrivRw, DOMAIN_KERNEL, TRUE)
  ELSE l1[s]]
init == /\ state = "off"
        /\ l1' = FirstTable /\ asked' = FirstTable
        /\ tlb' = << >>
        /\ state' = "running"
        /\ UNCHANGED call

\* map_region and unmap_region go through their sections from the first on.  What
\* a call asks for is what its region covers.
map_region(m) ==
  /\ state = "running" /\ call = Idle
  /\ call' = [op |-> "map", todo |-> Visited(m.virt, m.size), done |-> {},
              shift |-> l1_index(m.phys) - l1_index(m.virt), flags |-> m.flags]
  /\ asked' = Wanted(m.virt, m.size,
                    LAMBDA s : FlagsEntry(s + l1_index(m.phys) - l1_index(m.virt), m.flags))
  /\ UNCHANGED <<l1, tlb, state>>
unmap_region(u) ==
  /\ state = "running" /\ call = Idle
  /\ call' = [op |-> "unmap", todo |-> Visited(u.virt, u.size), done |-> {}]
  /\ asked' = Wanted(u.virt, u.size, LAMBDA s : None)
  /\ UNCHANGED <<l1, tlb, state>>

Visiting(op, s) == /\ state = "running" /\ call.op = op /\ Reachable
                   /\ s \in call.todo /\ \A q \in call.todo : s <= q

map_section(s) ==
  /\ Visiting("map", s)
  /\ l1' = [l1 EXCEPT ![s] = FlagsEntry(s + call.shift, call.flags)]
  /\ call' = [call EXCEPT !.todo = @ \ {s}, !.done = @ \cup {s}]
  /\ UNCHANGED <<tlb, asked, state>>

\* The end of map_region: invalidate_tlb_all.
map_return ==
  /\ state = "running" /\ call.op = "map" /\ call.todo = {}
  /\ tlb' = << >>
  /\ call' = Idle
  /\ UNCHANGED <<l1, asked, state>>

\* unmap_region invalidates each section right after its entry is gone.
unmap_section(s) ==
  /\ Visiting("unmap", s) /\ call.done = {}
  /\ l1' = [l1 EXCEPT ![s] = None]
  /\ call' = [call EXCEPT !.done = {s}]
  /\ UNCHANGED <<tlb, asked, state>>
invalidate_tlb_entry(s) == tlb' = [q \in DOMAIN tlb \ {s} |-> tlb[q]]
unmap_invalidate(s) ==
  /\ state = "running" /\ call.op = "unmap" /\ call.done = {s}
  /\ invalidate_tlb_entry(s)
  /\ call' = [call EXCEPT !.todo = @ \ {s}, !.done = {}]
  /\ UNCHANGED <<l1, asked, state>>
unmap_return ==
  /\ state = "running" /\ call.op = "unmap" /\ call.todo = {}
  /\ call' = Idle
  /\ UNCHANGED <<l1, tlb, asked, state>>

\* A table that cannot be reached any more: data abort.
fault == /\ state = "running" /\ call # Idle /\ call.todo # {}
         /\ call.op = "unmap" => call.done = {}
         /\ ~ Reachable
         /\ state' = "fault"
         /\ UNCHANGED <<l1, tlb, call, asked>>
Stopped == state = "fault" /\ UNCHANGED armVars

Next == \/ init
        \/ \E m \in Maps : map_region(m)
        \/ \E u \in Unmaps : unmap_region(u)
        \/ \E s \in Sections : map_section(s) \/ unmap_section(s) \/ unmap_invalidate(s) \/ tlb_fill(s)
        \/ map_return \/ unmap_return \/ fault \/ Stopped

Spec == Init /\ [][Next]_armVars

(*** Properties ************************************************************)

\* The processor uses no stale entry but for sections a call has written and
\* not yet invalidated, at the end of map_region or one by one in unmap_region,
\* and between calls the table is what was asked for, but for the sections at
\* the end of a region that the rounding of its size leaves out.
SectionsRight ==
  state = "running" =>
    /\ \A s \in DOMAIN tlb : tlb[s] = l1[s] \/ (call # Idle /\ s \in call.done)
    /\ call = Idle => \A s \in Sections : asked[s] = Short \/ l1[s] = asked[s]
=============================================================================
