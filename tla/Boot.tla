-------------------------------- MODULE Boot --------------------------------
(***************************************************************************)
(* A boot: discovery fills the tables of memory regions and of devices     *)
(* together, the memory is laid out, and then the devices are initialised  *)
(* (kernel_init).                                                          *)
(***************************************************************************)
EXTENDS BootMemory

CONSTANTS None, MAX_DEVICES, TIMER_BASE, EMMC_BASE, Rank,  \* as in DeviceManager
          FirmwareTags,   \* the framebuffer tags PC firmware may report
          DeviceTrees,    \* device trees: [memory, nodes]
          Compatibles     \* compatible strings, with a driver or without

VARIABLES devices, fb_tag, manager, sys_channel, next, state

Dm == INSTANCE DeviceManager
dmVars == <<devices, fb_tag, manager, sys_channel, next, state>>

\* What discovery may find: tags, and devices whose names have a place in the
\* alphabetical order.
FbTag == [addr : Nat, fb_type : Nat, bpp : Nat]
Nodes(ds) == ds \in Seq([name : DOMAIN Rank, compatible : Compatibles, base : Nat])
ASSUME BootAssumption ==
  /\ Dm!ManagerConstants
  /\ {"16550a-uart", "i8254-pit", "i8259-pic", "vga-text", "multiboot2-fb"} \subseteq Compatibles
  /\ None \notin FbTag /\ \A tags \in FirmwareTags : tags \in Seq(FbTag)
  /\ \A t \in DeviceTrees : t.memory \in Trees /\ Nodes(t.nodes)
  /\ \A b \in Boards : Nodes(b.devices)

BootInit == MemoryInit /\ Dm!Init

Discovery ==
  \/ \E m \in FirmwareMaps, tags \in FirmwareTags : discover(m) /\ Dm!multiboot2(tags)
  \/ probe_x86 /\ Dm!probe_x86
  \/ \E t \in DeviceTrees : discover_tree(t.memory) /\ Dm!arm_devices(t.nodes)
  \/ \E midr \in Midrs :
       /\ probe_arm(midr)
       /\ IF phase' = "panic" THEN UNCHANGED dmVars
          ELSE \E b \in Boards : b.cpu_id = read_arm_cpu_id(midr) /\ Dm!arm_devices(b.devices)
MemorySetup == \/ (\E m \in memory_map : setup_memory_management(m)) /\ UNCHANGED dmVars
               \/ no_available_ram /\ UNCHANGED dmVars
DeviceSetup == phase = "done" /\ Dm!Registration /\ UNCHANGED memoryVars

BootSpec == BootInit /\ [][Discovery \/ MemorySetup \/ DeviceSetup]_<<memoryVars, dmVars>>
-----------------------------------------------------------------------------
\* Lookups of the default devices find one if discovery did (device_manager.rs).
DefaultsFound == Dm!DefaultsFound
=============================================================================
