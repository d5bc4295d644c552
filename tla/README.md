# A verification of pi-os

pi-os is a small kernel in Rust for the Raspberry Pi (ARM) and the 32-bit PC.
This directory models its core in TLA+, checks the models on small instances with
TLC, and proves the central safety properties for every instance with TLAPS.
Paths below are relative to `src/`.

Run a model with `tlc -config X.cfg MCX`, a proof with `tlapm X_proofs.tla`.

## 1. Inventory

| Part | Code | State | Operations | Used by | What makes it correct |
|---|---|---|---|---|---|
| Buddy allocator | `kernel/src/mm/buddy_allocator.rs` | a free list per order | init, alloc_block_order, free_block | heap, pages | no memory handed out twice, none lost, merging is complete |
| Kernel heap | `kernel/src/mm/heap_allocator.rs`, alloc and free above | headers in front of allocations | alloc, dealloc, realloc | all of `alloc` | memory inside its block, free finds the header |
| Page allocator, page objects | `mm/page_allocator.rs`, `mm/page_table.rs`, `process/stack.rs` | a OnceCell, live objects | init, four allocations, drop | stacks, page tables | dropped with the order it was taken, zeroed when new |
| IRQ-safe mutex | `common/src/sync/irq_mutex.rs`, `arch/*/interrupt/mod.rs` | lock word, saved flag | lock, try_lock, drop | scheduler | exclusion, the holder is not interrupted, flag given back |
| Interrupts, logger, subsystems, boot code | `irq/`, `logger.rs`, `subsystems/`, `kcore/init.rs`, `main.rs` | spin locks, logger mode, line masks, timer | dispatch, handlers, log, kernel_init, kernel_main | everything | nobody waits for a lock its own CPU holds, time goes on, boot ends |
| Scheduler | `process/sched/scheduler.rs` | four queues, a counter | schedule | nothing yet | no process lost, shares of 3:2:1 |
| FAT32 | `fs/fat/fat32.rs` | FAT copies, cluster chains, sizes of handles, directories | mount, open, stat, ls, read, write | VFS | chains sound and disjoint, data kept across failures, names found |
| File descriptors, VFS, device files | `fs/fd.rs`, `fs/vfs.rs`, `fs/dev/` | table with holes, mount list, device map | open, close, dup, dup2, read, write, seek, mount, umount | system calls (planned) | a partial map; longest prefix; framebuffer bounds |
| Memory discovery and layout, device tree | `boot/`, `drivers/src/platform/`, `kcore/init.rs` | table of memory regions | discover, probe, memory_map, setup_memory_management | boot | areas disjoint, in RAM the firmware reported, clear of MMIO |
| x86 MMU | `arch/x86/mmu.rs` | page directory, pool of tables, TLB | init, map_region, unmap_region, invalidation | nothing (init is commented out) | TLB not stale, maps what was asked |
| ARM MMU | `arch/arm/mmu.rs` | section table, domains, TLB | init, map_region, unmap_region, invalidation | nothing | as x86 |
| SD card driver | `drivers/src/peripheral/bcm2835/emmc.rs`, `hal/block_device.rs` | CSD, controller registers | init, read_blocks, write_blocks | FAT32 | the right blocks, or an error; always returns |
| Device manager | `drivers/src/device_manager.rs`, `platform/` | table of discovered devices, map of devices by name | add_device, init_devices, register, default lookups | subsystems, dispatch, handlers | the default console, timer and controller are found if discovery found one |
| Timers | `peripheral/bcm2835/timer.rs`, `peripheral/x86/i8254_pit.rs`, `hal/timer.rs` | counter, compare register, pending match | read_counter, now_us, delay, start, clear | timer handler | readings lie between start and end, alarms are not lost |
| Interrupt controller | `peripheral/bcm2835/intc.rs` | line masks | enable, disable | dispatch | with dispatch |
| Serial ports | `peripheral/arm/pl011.rs`, `peripheral/x86/uart16550.rs`, `hal/serial.rs` | FIFOs, line status, divisor | configure, read, write, flush, non-blocking forms | logger, console, device files | bytes in order and once, errors reported, calls return |
| Mailbox | `peripheral/bcm2835/mailbox.rs` | two FIFOs, shared buffers | call, queries, framebuffer request | framebuffer, board information | an answer belongs to its call |
| Framebuffers | `peripheral/x86/mb2fb.rs`, `peripheral/bcm2835/framebuffer.rs`, `hal/fb.rs` | pixels in a frame with padding | constructor, drawing calls, copy_region | kernel_main, device files | the shape is painted and no other byte |
| VGA text | `peripheral/x86/vga_text.rs`, `hal/console.rs`, boot sinks | cells, cursor, CRT cursor | write, clear, set_cursor, set_color | boot log | a terminal that scrolls |
| GPIO | `peripheral/bcm2835/gpio.rs` | | | not in the build | not modelled, section 8 |
| Exceptions, context switch, PCB, system calls, user program | `arch/*/exception`, `arch/arm/context`, `process/pcb.rs`, `syscall/` | none or stubs | | | section 8 |

How they interact: calls throughout, with shared state behind `spin::Mutex` (heap,
page allocator, device manager, every device, logger mode, mounts, DevFs, FAT) and
`IrqMutex` (scheduler). There is one CPU; concurrency comes from interrupt handlers, which `dispatch`
runs with interrupts enabled, and, for the file system and the heap, from the
threads the locks are there for. At this commit interrupts are enabled nowhere
outside `dispatch`, and neither the MMU nor the scheduler has a caller: the models
show what these parts do when they are used as they are written to be used.

What is hard: loops that split and merge blocks; locks taken twice on one call path
or shared with handlers; a guard that unlocks twice; a device that fails, is late, or is replaced; an
answer to somebody else's question; a register that is two halves, or that reading
changes; a machine that stops between two sector writes; a TLB filled at any moment;
roundings at region boundaries and clipping at the edges of a screen. Each place is listed under `hazards` in PROJECT.json with its line.

## 2. Modules

| Module | Models | State and steps |
|---|---|---|
| `BlockAllocator` | abstract: what a block allocator promises | the blocks in use and the last answer with the order it was for; a request for an order is refused only if no aligned block of that order is free |
| `BuddyAllocator` | buddy_allocator.rs, block level | the free lists as sequences; one step per iteration of the carve, split and merge loops |
| `HeapAllocator` | heap_allocator.rs and alloc, free of buddy_allocator.rs | over `BlockAllocator`; a step is what happens with the mutex held, so realloc is two |
| `PageAllocator` | page_allocator.rs, page_table.rs | over `BlockAllocator`; objects and the set of zeroed pages |
| `IrqMutex` | irq_mutex.rs with the flag operations of arch | a program counter per interrupt level and CPU; the two unlocks of a guard are separate steps |
| `KernelLocks` | dispatch, handlers, logger, subsystems, kernel_init, kernel_main | a stack of contexts, each a sequence of lock, unlock and device steps the functions compile to |
| `Scheduler` | scheduler.rs | four queues and the counter; re-queueing is external |
| `Fat32` | read and write of fat32.rs | one step per device access; threads, device errors, restarts |
| `FatDirectory` | open, stat, ls of fat32.rs | directories as sectors of raw entries; a call and its answer |
| `BootMemory` | boot/, platform, setup_memory_management | regions in, layout or panic out; overflow checks on or off |
| `FileDescriptors` | abstract: numbers to descriptors, prefixes to file systems | partial functions; lowest free number; longest prefix |
| `Files` | fd.rs, vfs.rs, fs/dev | vector with holes, mount list, device map; one step per call |
| `X86Mmu` | arch/x86/mmu.rs | directory, pool, TLB; the write of an entry and its invlpg are separate steps |
| `ArmMmu` | arch/arm/mmu.rs | section table and TLB; one step per section written, invalidation a step of its own |
| `DeviceManager` | device_manager.rs, Platform::init_devices, discovery of devices | table of entries found, map by name, one step per device initialised |
| `Timers` | bcm2835/timer.rs, i8254_pit.rs, hal/timer.rs | a counter that ticks between any two register accesses; one step per access |
| `Serial` | pl011.rs, uart16550.rs, hal/serial.rs | FIFOs, shift register, line status; one step per poll; both chips |
| `Mailbox` | mailbox.rs, framebuffer request | two FIFOs, a buffer per request, an external GPU |
| `Canvas` | abstract: what drawing promises | pixels and what is around them; which points a shape must and may paint |
| `FrameBuffers` | mb2fb.rs, bcm2835/framebuffer.rs, hal/fb.rs | memory as bytes with padding and guard; a call and its effect, copy_region row by row |
| `Terminal` | abstract: a console | a paper that grows, the last rows of which are seen |
| `VgaText` | vga_text.rs and the x86 boot sink | cells, cursor, CRT cursor; one step per byte or call |
| `Emmc` | emmc.rs with an external controller and card | the driver is a program worked off step by step; each wait may end or be given up |
| `Memory` | the heap, the pages and both MMUs | `HeapAllocator`, `PageAllocator`, `X86Mmu`, `ArmMmu` side by side |
| `Kernel` | the kernel around its drivers: boot, locks, mutex, scheduler | `Boot`, `KernelLocks`, `IrqMutex`, `Scheduler` side by side |
| `Devices` | drivers with a device of their own | `Emmc`, `Timers`, `Serial` side by side |
| `Display` | what ends on a screen | `Mailbox`, `FrameBuffers`, `VgaText` side by side |
| `FileSystem` | files by number and by name | `Files`, `FatDirectory` side by side |
| `Boot` | a boot of kernel_init | `BootMemory` and `DeviceManager` in step |

`MC*` modules give the constants of the runs. `*_proofs` modules hold the theorems.
A module that puts components side by side which share no state (`Memory`, `Kernel`,
`Devices`, `Display`, `FileSystem`) has a variable `part`,
chosen once, that
says which of them the behaviour is about: the state graph is the union of theirs, and
not their product. Components that do interact are composed in step: `Boot` takes each
discovery step in both tables (regions and devices) at once, and initialises devices
only after memory was laid out.

Composition: `HeapAllocator` and `PageAllocator` INSTANCE `BlockAllocator`, and
`BuddyAllocator` is shown to implement it (`ImplementsBlockAllocator`; the variables
have the same names, a split or a merge is a stutter). `Files` is shown to implement
`FileDescriptors` (`ImplementsDescriptorMap`: the table without its holes, the mount
list as a function), `FrameBuffers` to implement `Canvas` (`ImplementsCanvas`: the
memory read pixel by pixel through its packing, and the bytes that are no pixel), and
`VgaText` to implement `Terminal` (`ImplementsTerminal`: rows that left the screen, kept
in a history variable, followed by the cells; the cursor is that of the CRT controller).

## 3. Runs

| Run | Properties | Instance and why it is enough |
|---|---|---|
| `buddy` | NoOverlap, NoLeak, NoInternalFragmentation, CallsReturn, ImplementsBlockAllocator | orders 0 to 2, a region from 5 to 23 with blocks of 2: both ends off a boundary, blocks of each order, one without a buddy. All but CallsReturn are also proved for all instances (section 5) |
| `memory` | HeapSound, ReallocSourceKept, DropReturnsWhatAllocTook, FreshIsZero, TlbCoherent, TablesRight | heap: the unit is the 8-byte header, layouts of size 0 and up to a top block, alignments up to a whole minimum block, two tasks, three allocations. Pages: six pages, all four kinds of object, blocks of every order reused. x86: two units a page, two entries a table, a pool of two that runs out, regions that cross tables, the identity map. ARM: RAM that ends inside a section, peripherals, regions inside, across and over RAM |
| `kernel` | LayoutSafe, DefaultsFound; NoSelfDeadlock, NoReentry, TimerRearmed, BootCompletes; MutualExclusion, FlagRestored, OwnerNotInterrupted, LockReturns; EveryProcessOnce | boot: PC maps and boards in units of 1 KB, device trees; the table of regions is 4 long instead of 64 and that of devices 5, so that both overflow. Locks: the timer's line and a UART's, three sets of devices for ARM boards and three for PCs; from kernel_init and from the idle loop with interrupts on. BootCompletes is about builds with a boot sink. Mutex: two CPUs of which one or both are online, nesting 2, so that a handler runs between the unlocks and another inside that one's. MutualExclusion and LockReturns are about one CPU online. Scheduler: five processes; the counter wraps at 16, which is 4 modulo 6, as 2^32 is |
| `print_devices` | NoSelfDeadlock (violated) | kernel_main of a PC calls print_devices; section 7 |
| `fair_share` | FairShare (violated) | the scheduler of `kernel`; section 7 |
| `pc_fallback` | FirmwareOverrides (violated) | the PCs of `kernel`, the smallest of which has 64 MB; section 7 |
| `known_boards` | KnownBoardsBoot (violated) | the identification registers of the three CPUs probe::arm names; section 7 |
| `shared_file` | BytesKept (violated) | two handles of one file, no failures; section 7 |
| `fat32` | ChainsSound, NoClusterLost, BytesKept, ReadsSeeWrites, IoReturns | two files, a handle each, six clusters, two FAT copies, three calls, one failure or restart: the volume fills up, a chain grows twice, a read waits for a write |
| `files` | FramebufferInBounds, NamesFound, ImplementsDescriptorMap | 5 numbers, 3 open, one descriptor moved and one flagged at a time, `/device` beside a mount at `/dev`. Names: a root directory of two sectors of two entries and a directory below it, with every mix of files, deleted entries, labels and an end |
| `devices` | RightBlocks, TimersRight, SerialSound, DriverReturns, SerialReturns | SD card: blocks of 2 bytes, three of them, two retries, three cards (block, byte, and an unknown CSD) swapped at any step. Timers: the low half of the counter runs over every 4 ticks, up to 2 ticks between two accesses. Serial: FIFOs of 2 (of 1 before configure), three bytes out and three in, of which any may be damaged, reads of one and of two bytes; three rates, of which one overflows `16 * baud` to zero, one to a small rate, and one has a divisor. Three bytes in are what it takes for one to be lost, one damaged and one to follow |
| `display` | AnswersMatchCalls, MailboxReturns, ImplementsCanvas, ImplementsTerminal | mailbox: FIFOs of 3, an old answer or none, a message of another channel. Framebuffers: 16 and 32 bits with and without padding, one refused; every call with coordinates inside, at and beyond the edges. Text: two by two cells that scroll once |

The passing runs fire every action of every next-state relation. Deadlock checking
is off only where the system may stop or the instance bounds its calls: `fat32` and `display` (the number of calls is bounded), `devices` (time and the
number of bytes are bounded), `files` (a lookup is one call). In `kernel` a boot that
ended, with its devices or in a panic, may stay so (`BootEnded`).
`Sizes`, `MaxLive`, `MaxNest`, `MaxCalls`, `MaxFailures`, `MaxRetries`, `MaxFds`,
`MaxOpen`, `MaxMoved`, `MaxFlagged`, `MaxOffset`, `MaxHandles`, `MaxLag`, `MaxTime`,
`MaxIn`, `MaxOut`, `MaxNoise`, `MaxScrolls` are the bounds; each is a guard or a range of
the module that names it.

### What the less obvious properties say

* NoInternalFragmentation: memory that is free as a whole lies in one free block, so
  a request is never refused because of the history of the lists.
* HeapSound: what alloc returns lies in its block behind the header, and free gives back the block alloc took, unless the alignment
  exceeds the header's size; what then goes wrong is in section 7.
* MutualExclusion of IrqMutex: a guard unlocks twice; with the second unlock a
  handler's guard could be opened. It is not, as handlers finish before the
  interrupted context goes on. This is a property of one CPU.
* NoSelfDeadlock: no context waits for a lock that its own CPU holds, except a
  handler that interrupted another handler: that one does wait, for ever (section 7).
* BootCompletes: kernel_init ends where the boot sink is implemented. On ARM it is not, and
  the model panics with the first message, as the code does (section 7).
* LayoutSafe: relative to what the boot recorded. The areas lie in the RAM region the
  kernel chose and are clear of the MMIO regions that found a place in the table;
  that the chosen region is RAM at all is FirmwareOverrides, and it fails (section 7).
* BytesKept: whatever fails, every byte is one that a write put there and that no
  later completed write replaced.
* RightBlocks: a successful transfer moved the blocks asked for, of one card, even
  though the addressing mode is remembered from an earlier init; it excludes calls
  after a command was sent to a busy line, for which it fails (section 7). One call runs at a time: `Emmc` has no lock of its own (`emmc.rs:833`
  asks its users for one), and the model's callers take turns.
* ReadsSeeWrites: a read returns every byte the handle's size covers, each as some
  write that was not replaced before the read left it.
* TablesRight: `asked` is a history variable with what the calls asked per page (x86)
  or section (ARM); on x86 it is computed from the bytes of the region rather than by
  the code's page arithmetic. ARM's arithmetic ignores where in a section a region
  starts (section 7); the sections it leaves out for that reason are marked, and
  excluded.
* AnswersMatchCalls: what a call that succeeds hands out is what the GPU answers to
  that request, although the FIFO may hold an old answer, and, if it did not, nothing is left to the
  GPU after the call that sent it (the buffers of some callers are on their stacks). A call may return
  true before the GPU has seen its request (section 7).
* TimersRight: a reading of the counter is a time at which the reading was in
  progress; an alarm is pending from its time on, unless it was missed while armed.
* SerialSound: the line carries what was written, in order; callers that get Ok get what
  arrived, in order and each byte once, and the missing ones are known: they found no
  room, were cleared by configure, or were read by a call that then failed. A 16550
  hands a damaged byte over only after a reader got its error, or in one of two cases
  in which nobody does: a writer's poll of the line status has cleared the error bits,
  or, without FIFOs, the byte replaced another between the status and the data.
  Both happen (section 7). A divisor is the right one.
* DefaultsFound: the default devices are found exactly if discovery found one of the
  kind, whatever the names, the order and the lookups' fallbacks.
* ImplementsCanvas: for calls with proper arguments (`Proper` in `Canvas`; the others
  are in section 7) the points a shape must have are painted, no others are, no
  byte beside the pixels changes, and a copied region arrives as it was.

## 4. Fairness

* `buddy`: weak fairness of the steps inside a call. The caller holds the mutex and
  runs on.
* `kernel`: for the mutex, weak fairness of each CPU's own progress: the running context
  goes on and handlers return; that interrupts arrive is not assumed. For the locks,
  weak fairness of the running context's step. TimerRearmed is stated for behaviours in
  which other lines stay quiet, as a line without a handler would interrupt for ever.
  Nothing calls schedule at this commit, so no fairness is assumed of the scheduler, and
  none of the boot.
* `fat32`: each thread's steps. Device errors and restarts are not fair.
* `devices`: the SD driver's steps only. Nothing is assumed of controller and card: each
  wait of the code has a limit (100 000 polls, 1000 retries), which is why a step that
  gives up is always enabled. The serial ports' waits have none: there the caller's
  steps are fair and so is the transmitter of a port that is on (the line runs at its
  rate). That input arrives is not assumed, and calls that wait for it need not return.
* `display`: the driver polls on, and the GPU takes and answers what it is sent; the
  code waits for it without a limit. Messages of other channels are bounded, not fair.

`memory` and `files` check safety only.

## 5. Proofs

**`BuddyAllocator_proofs`**, for every region, block size and MAX_ORDER with
`RegionAssumption` and `BlockSizeAssumption`: TypeCorrect, MemorySafety (NoOverlap),
NoMemoryLost (NoLeak), BlocksAligned, Coalescing. No one of them is inductive. A
merge is safe only because blocks are aligned (so the buddy's address is the other
half), a split only because the block in hand is on no list, and complete merging
rests on both. `IInv` is their conjunction with `CarveInv`, which says where the
carving loop stands and that what it leaves behind has no free buddies. The argument
is about sets: `SplitSet` and `MergeSet` show that replacing a block by its halves, or
back, keeps a set of blocks separate and what it covers; `PushFacts`, `TailFacts` and
`UnlinkFacts` translate list operations to sets; then there is one lemma per action.
From `IInv` follow NeverFragmented (NoInternalFragmentation: by induction on the order,
as the two halves of an unused block lie in free blocks, which would be free buddies if
they were two) and Refinement (ImplementsBlockAllocator: an answer None is right
because of NeverFragmented; splitting and merging are stutters).

**`Kernel_proofs`**, for any nesting and, where stated, any number of CPUs:
TypeCorrect, NotInterrupted (OwnerNotInterrupted), FlagGivenBack (FlagRestored),
Exclusion (MutualExclusion, which is about one CPU online). The strengthening `IInv` says what contexts
below the running one can be doing (`SuspendedContexts`): a context is interrupted
only outside the masked places, so only one that is out of the mutex or between the two unlocks
waits below a handler. Without it a handler's guard and the second unlock of the
interrupted context could meet. For any finite set of processes, their classes and the
width of the counter (`SchedConstants`): ProcessesKept (EveryProcessOnce). `SchedInv`
relates the queues to the processes that are out: a queue holds exactly the processes of
its class that are not out, in any order, each once. KernelSafe is the four together, of
`KernelSpec`, which the run checks.

**`Boot_proofs`**, for every memory map, kernel size, page size, table size and
heap cap: TypeCorrect, Ordered (LayoutOrdered), AvoidsMmio (NoMmio), InRam
(LayoutInRam, the region that was chosen), and their conjunction SafeLayout
(LayoutSafe). The invariant is TypeOK with `LayoutFromMap`: a finished layout is the
one computed from the map that was chosen from the regions, and the assertions held.
The rest is arithmetic of the roundings, in lemmas of its own. For every set of device
trees, boards and framebuffer tags, table size and order of names with `BootAssumption`:
Defaults (DefaultsFound). It speaks of the end of registration; `DmInv` says what holds on
the way: everything with a driver among the entries passed so far is in the map under
its name, the map holds nothing else but a framebuffer enabled on its own, and the timer
channel is set exactly if one of these entries is a timer (`Registered`). BootSafe is
both, of `BootSpec`.

**`Memory_proofs`**, for every pool, number of pages per order and set of objects
with `PageConstants`, over any allocator that keeps the promise of `BlockAllocator`:
DropsMatch (DropReturnsWhatAllocTook) and NewIsZero (FreshIsZero). The invariant says
that the objects' extents are exactly the blocks in use, one each, and that they are
disjoint (`Owned`). FreshIsZero alone is not inductive: only disjointness keeps a
write through one object off the pages of a new one. `OrdersAgree` is where the
constants of each type's constructor and Drop meet.

The heap, for every region, sizes, alignments and tasks with `HeapConstants`, over the
same promise: HeapIsSound (HeapSound) and CopySourceKept (ReallocSourceKept). `HeapInv`
says that live allocations lie behind an intact header in blocks in use, no two in
blocks that overlap, that these are all the blocks in use until a free goes astray, and
that a realloc under way has two different allocations of its caller. Without the
disjointness a new header could be written over an old one, and free would return the
wrong order.

The page tables, for every size of the tables, page, pool and region with `MmuConstants`
and `ArmConstants`: NothingStale (TlbCoherent) and TablesFollowCalls (TablesRight).
`X86Inv` needs that no two directory entries share a table and that tables not yet
taken from the pool are empty (`X86Tables`; otherwise writing an entry would change
another page's translation, without its invlpg), that the call under way asked for what
its loop will write (`X86Calls`), that every other page walks to what was asked for it
(`X86Walks`), and that a cached translation is the walk's unless it waits for its invlpg
(`X86Cached`). `ArmInv` is the same for a table of one level, in which `VisitedCovered`
compares the code's arithmetic of sections with the bytes of the region. MemorySafe is
all six properties, of `MemorySpec`.

**`FileSystem_proofs`**, for every volume, number of FAT copies, set of handles and threads,
and bound on calls and failures with `FatAssumption` (which includes that files start
in different clusters and have a size within their first one). Chains (ChainsSound)
holds for any number of handles to a file. Its invariant `GInv` names the chains: in
the first copy of the FAT the function `Chain` of every file is a path that ends in the
end mark (`Linked`), a call that extends a file holds a cluster that is in no chain
(`Extending`), fat_lock is held in the places the code says (`Locked`), and the other
copies lag behind by exactly the entries a call has still to write (`Synced`). That a
chain ends is what makes it a finite sequence; the walk of `Nth` along it is an
induction by the least number at which it would go wrong (`WFMin`).
ClustersKept (NoClusterLost), DataKept (BytesKept) and ReadsRight (ReadsSeeWrites) are
proved under the hypothesis `OneHandlePerFile`: with two handles BytesKept is false
(run `shared_file`). `HInv` adds that io_lock excludes (`Exclusive`), what each
call in progress has done (`Calls`), that a size is backed by clusters (`Backed`),
that the disk holds one of the values each byte may have (`Filed`), and that clusters
outside of chains are blank.
For the descriptors of `Files`, with `FilesAssumption` (run `files`): FramebufferSafe
(FramebufferInBounds). `FdsInv` says that a descriptor's file is a device file or a handle
that an open has made, that offsets are numbers whatever seeks and transfers came
before, and that DevFs holds device files only, so that a transfer reaches the
framebuffer through the clamping of its own read and write.

**`KernelLocks_proofs`**, for any lines, handlers, devices and depth of nesting with
`LineAssumption`. HandlersNotReentered (NoReentry): an interrupted handler still has its
line masked (`NInv`: Nesting says at which steps of a program a context can be
interrupted). NoContextWaits (NoSelfDeadlock) has the hypothesis that the kernel does
not start in kernel_main, whose print_devices does wait for itself (run
`print_devices`). `LInv` says that the steps each context has still to do are tidy: what
is locked is unlocked, nothing takes a lock the context holds, and the logger's mode at
each step is the one the step's logging was laid out for, across attach_runtime;
and that every lock held is owed by some context. A handler on top of the main
context finds all locks free, since the main context is interrupted only when it has
nothing left to do but its idle loop (`Nesting`).

**`Devices_proofs`**, for any cards, block size, number of blocks and retries with
`EmmcAssumption`: BlocksMoved (RightBlocks). A card acts on an address when it is in
its transfer state, so the invariant `EInv` relates the card's state to the driver's
step. `Addressing`: a card that is in that state, or has been told to go there, is the
one whose CSD the driver read. It is not inductive, as init reads the CSD before it
selects the card, and the card may be changed in between; `Initialising` says what
init knows at each step, down to which command an answer can belong to. `Transfer`
follows one card through a call: only init brings another to its transfer state.
All of it excepts behaviours in which the driver wrote to a busy line (`overrun`).

The timers, for every width of the counter, frequency of the PIT and reload value that
fits its register (not the 65536 the firmware leaves behind, which reads as 0),
and any time between two accesses (`TimerConstants`): ClocksRight (TimersRight). `TimerInv`
records what each register read so far says of the time (`ReadSoFar`): the second
reading of the high half bounds the low half's time from both sides, so that an
unchanged high half shows that both belong together, and a changed one that the low
half is read again after the carry. `DelayRecords` does the same for a delay, and `AlarmSet`
says that the compare register holds the low half of the time the alarm is due.
The serial ports, for any depth of the FIFOs, clocks, texts and configurations
(`SerialConstants`): PortsSound (SerialSound). `SerialInv`: line, shift register and FIFO
together are what was given (`SerialInOrder`); the bytes that arrived and were not lost
are in what calls returned, in the buffer of the call under way and in the receive FIFO,
in this order (`SerialReceived`; SerialSound only compares numbers, the invariant says
where each byte is); and of the damaged bytes in a 16550 only the head may have lost its
error bit, and `told` says whose poll saw it (`SerialErrors`). While a read is between
status and data its head is flagged only on a port without FIFOs, where it may have been
replaced: the exceptions of SerialSound are in the invariant as the code has them.
DevicesSafe is the three together, of `DevicesSpec`.

**`Display_proofs`**, for any queries, FIFO depth, messages of other channels and
leftovers with `LeftoversAssumption`: AnswersRight (AnswersMatchCalls). `InFlight` says
that the request of the call under way is in exactly one of three places, and all
else in the FIFOs is of other channels; `BuffersRight` that a buffer with the code for
success holds its own answer, which is enough for the first half even when the FIFO
held an old answer. DisplayAnswers is the same, of `DisplaySpec`.
The text console, for every size of the screen, characters and colours with
`DisplayAssumption`: ConsoleIsTerminal (ImplementsTerminal). Under `TextInv` (the fields
are on the screen, and the CRT controller's cursor is where they say) every byte or call
is one step of `Terminal`: `PutRow` for a character, `Scrolls` for a line feed on the
last row, which moves the first row to the history and shifts the cells, and `Wiped` for
clear. The invariant is needed because the driver writes the CRT registers last, and
the terminal's cursor is read off them.

Assumptions are those named in the modules; TLC evaluates each in a run.

## 6. Only model-checked

Liveness (CallsReturn, LockReturns, TimerRearmed, BootCompletes,
IoReturns, DriverReturns, SerialReturns, MailboxReturns) is beyond the prover. So are
properties that say what a scan or a fold computes for an input of any length, as they
need induction over data: NamesFound (the search through the sectors of a directory),
ImplementsCanvas (shapes painted by a fold over their points) and
ImplementsDescriptorMap (a mount list, searched from its front, against the longest
prefix). All other properties of the passing runs are proved. What section 7 shows
to go wrong is excluded by a hypothesis of the property that is proved
(NoSelfDeadlock, BytesKept, RightBlocks, HeapSound, FreshIsZero, SerialSound,
AnswersMatchCalls, LayoutSafe) or not claimed.

## 7. Divergences between the code and what is said or expected of it

Checked by a run of its own:

* `print_devices` (`kernel/src/subsystems/mod.rs:63`) logs while it holds the device
  manager's lock; the serial sink takes the same lock. kernel_main calls it
  (`main.rs:40`) after the runtime logger was attached, and never returns from it.
  `log_available_devices` copies the names first and is right.
* `probe::arm` (`kernel/src/boot/probe.rs:79`) compares the part number with values of
  16 bits, while `read_arm_cpu_id` (`:92`) keeps 12: no board matches, and every ARM boot
  without a device tree ends in "unknown ARM CPU" (run `known_boards`).
* `io_lock` belongs to a handle (`fat32.rs:99`) though it is said to protect "concurrent
  I/O operations on this file": of two handles of one file, one writes an old sector
  back over a byte the other's completed write put there (run `shared_file`). The run
  `fat32` gives each file one handle.
* "Fair-share queues: Use 3:2:1 ratio" (`scheduler.rs:17`): the second test of `schedule`
  (`:39`) repeats what the first one excludes, so the mid queue is never chosen and the
  shares are 3:0:3 (run `fair_share`).
* The PC fallback region is called conservative and "Multiboot2 overrides this"
  (`boot/probe.rs:58`), but it is one more region (`:60`) and the largest is chosen: with
  less RAM than it states, memory that does not exist is laid out (run `pc_fallback`).

Met while modelling; the models behave as the code does and the properties exclude the
case explicitly (those of the first seven: BootCompletes, NoSelfDeadlock, HeapSound,
FreshIsZero, RightBlocks, SerialReturns, SerialSound; AnswersMatchCalls for the eighth),
or the model shows it without a run:

* The ARM boot sink is `todo!()` (`subsystems/boot_sinks/arm.rs:8`), though the logger's
  first phase is "Boot logging via BootSink (UART/VGA)" (`logger.rs:3`): the first message
  (`kcore/init.rs:55`) panics, before the runtime logger is attached.
* `dispatch` enables interrupts "to allow nested interrupts" (`irq/dispatch.rs:28`), while
  handlers share plain spin locks: a second line that fires while the timer's handler
  holds the device manager waits for it on the same CPU.
* Memory aligned to more than 8 bytes is freed through a header looked for at
  `ptr - 8`, though alloc wrote it at the start of the block (`buddy_allocator.rs:149`,
  `:114`). `HeapAllocator` reads any order there and stops (`astray`).
* `L1Table::new` zeroes half of its 16 KB block (`page_table.rs:124`, "Zero table"; the doc
  comment at `:114` counts 8 KiB for order 2): entries nobody wrote are in the rest. FreshIsZero is about the other types.
* The SD driver goes on after the wait for an inhibit bit was given up
  (`emmc.rs:265`, `:487`, `:536`); the line is busy, the command is ignored, and the late
  end of the one before is taken for its own: Ok, with another block.
* The PL011's configure switches the port off and then waits "for any transmission to
  complete" (`pl011.rs:182`): with bytes queued it never returns.
* The 16550's receive errors are answered from the line status, and every read of it
  clears them: after a writer's poll, or on a port without FIFOs when a byte replaces
  another between status and data (`uart16550.rs:204`, `:214`), a damaged byte is Ok.
* A mailbox call returns "`true` if the GPU responded successfully" (`mailbox.rs:216`), but
  takes any message with its buffer's address for its answer (`:246`): after an old
  answer each call is one answer behind, and since the code word of a static buffer is
  not reset to 0, one may be told of success before the GPU has seen its request.
* The second unlock of an `IrqMutexGuard` (`irq_mutex.rs:93`) breaks exclusion with two
  CPUs.
* The search for a free cluster stops two clusters early (`fat32.rs:401`).
* An extension changes the size in the handle only (`fat32.rs:214`): the next open does
  not see what was appended, and ReadsSeeWrites is relative to the handle's size.
* An ACPI region beside the ISA hole makes a window that covers RAM, and the boot
  panics (`kcore/init.rs:134`).
* x86 `map_region` into a 4 MB page takes the page for a table and writes into it
  (`arch/x86/mmu.rs:243`); `map_into_large` leads to the state clobbered.
* x86 tables are reached through the identity map; removing it, as the doc comment of
  init suggests (`:178`), makes the next call fault.
* ARM: DACR opens domain 0 only while peripherals are mapped in domain 2
  (`arch/arm/mmu.rs:132`, `:248`); map_region and unmap_region round the size up and
  ignore that `virt` may start inside a section (`:175`), so a region's last section can
  be left out. `ArmMmu` says what the code does.
* `dispatch` of the VFS compares prefixes as strings (`vfs.rs:78`): `/device` falls
  under a mount at `/dev`. `FileDescriptors` states the rule as the code has it.
* Devices: a device tree with bus addresses, or with a second system timer, panics the
  boot, as `Bcm2835Timer::new` and `Emmc::new` accept one base and the channel is set
  once (`timer.rs:166`); the interrupt controller ignores its base. A device whose name
  is taken replaces the other silently (`device_manager.rs:96`); entries beyond the
  table are dropped (`builder.rs:51`, as its comment says), so LayoutSafe and DefaultsFound are
  relative to the tables. The SD card is registered without init and
  cannot be initialised behind its Arc.
* A `UartFile` reads with the device manager and the port locked until a byte arrives
  (`uart_file.rs:38`): no port overrides `as_nonblocking`. Nothing reads one yet.
* Timers: `start_timer` may write a compare value that has passed, and the alarm comes a
  whole round later (`timer.rs:142`); `stop` clears a match but does not disarm. On a
  PIT the clock jumps back at each reload, and a delay that meets one ends early, as
  the subtraction wraps (`i8254_pit.rs:155`).
* Serial: a rate the PL011 refuses leaves the port off, and it ignores receive errors.
  The 16550 leaves a damaged byte in the buffer after reporting it, an error in the
  middle of `read` loses what was read before it, and `16 * baud` overflows
  (`uart16550.rs:145`).
* Drawing: `Mb2Fb::draw_hline` with `x1 > x2`, `draw_rect` beyond the right edge and
  `fill_circle` over the left one wrap; `Bcm2835Framebuffer::draw_rect` of width 0 or off
  screen paints the last column. `copy_region` of Mb2Fb has no bounds check, that of
  the trait is not safe for overlaps. `Proper` in `Canvas` excludes these calls.
* The x86 boot sink makes a new console for every string, so each string clears the
  screen (`boot_sinks/x86.rs:15`).
* FAT32: writing to an empty file (first cluster 0) always fails; reserved bits of a FAT
  entry are cleared against the comment beside it; `a/.` and `a/..` are never found
  (`fat32.rs:686`).

## 8. Not modelled

`gpio.rs` is not part of the build (`bcm2835/mod.rs` does not declare it). The fields of
the CID and CSD (`hal/block_device.rs`), the numbers of the FAT32 boot sector, the tags
of Multiboot2 other than memory and framebuffer, and log formatting are parsing and
output without a state a property could relate. Programming the PIT's periodic mode has
no effect the kernel uses: nothing handles its interrupt. System calls, pic8259 and
the user program are stubs or empty, and create, delete, mkdir and rmdir of FAT32 are
`todo!()`. `Bcm2835Framebuffer` is modelled at 32 bits per pixel, though `hal/fb.rs:219`
also names 16 and 24, and no run has 24. Saving and switching of registers is assembly. A PCB has no operation yet.

## 9. Plan

1. Done: the allocators and their users; both MMUs; locks and interrupts; scheduler;
   FAT32 reads, writes and lookups; boot memory and devices; files; SD driver, timers,
   serial ports, mailbox, framebuffers, text console; proofs of every safety
   property of the runs but those of section 6, and of the refinements of
   `BlockAllocator` and `Terminal`.
2. When the kernel gets there: a composition of the scheduler with the context switch,
   of device files with the locks of `KernelLocks` (a `UartFile` that waits), and of
   `Fat32` with `Emmc` once a card can be initialised.
3. Next theorems, with a prover that has induction over data: NamesFound,
   ImplementsDescriptorMap, ImplementsCanvas.
