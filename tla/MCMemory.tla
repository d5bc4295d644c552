------------------------------ MODULE MCMemory ------------------------------
(***************************************************************************)
(* Memory for TLC.  The heap has five minimum blocks of four headers each; *)
(* the page allocator has six pages.  x86: two units to a page, two pages  *)
(* to a table; pages 0 to 3 are mapped by init, regions start and end      *)
(* inside pages and cross from one table to the next.  ARM: two units to a *)
(* section, RAM that ends inside a section, peripherals above it, regions  *)
(* inside, across and over RAM.                                            *)
(***************************************************************************)
EXTENDS Memory, TLC

MCPageBlockSize == [k \in 0 .. MaxOrder |-> 2 ^ k]
MCHeapBlockSize == [k \in 0 .. MaxOrder |-> 4 * 2 ^ k]
TaskSymmetry == Permutations(Tasks)

MCX86Maps == {[virt |-> 9, phys |-> 21, size |-> 2, flags |-> {"READ", "WRITE"}],
              [virt |-> 11, phys |-> 20, size |-> 3, flags |-> {"READ", "USER"}],
              [virt |-> 2, phys |-> 24, size |-> 1, flags |-> {"READ"}]}
MCX86Unmaps == {[virt |-> 10, size |-> 1], [virt |-> 13, size |-> 3], [virt |-> 3, size |-> 1],
                [virt |-> 4, size |-> 2]}
MCArmMaps == {[virt |-> 6, phys |-> 20, size |-> 3, flags |-> {"READ", "WRITE", "CACHED"}],
              [virt |-> 9, phys |-> 1, size |-> 1, flags |-> {"READ", "USER", "EXEC"}],
              [virt |-> 2, phys |-> 2, size |-> 2, flags |-> {"READ", "WRITE", "DEVICE"}],
              [virt |-> 5, phys |-> 3, size |-> 2, flags |-> {"READ"}]}
MCArmUnmaps == {[virt |-> 7, size |-> 1], [virt |-> 8, size |-> 4], [virt |-> 0, size |-> 1]}
MCRam == [start |-> 0, size |-> 3]
MCPeripherals == [start |-> 8, size |-> 1]
=============================================================================
