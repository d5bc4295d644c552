------------------------------ MODULE MCKernel ------------------------------
(***************************************************************************)
(* Kernel for TLC.  Boot: the memory maps of real machines, in units of    *)
(* 1 KB; the boards of probe::arm, PCs, and device trees.  The locks: the  *)
(* lines of the system timer (1) and of a UART (57) of the BCM2835.  The   *)
(* mutex: one CPU, as on every board the kernel boots, and two for the     *)
(* paths of lock and try_lock that wait for another CPU.  The scheduler:   *)
(* five processes; the counter wraps after 16, which is 4 modulo the       *)
(* period as 2^32 is.                                                      *)
(***************************************************************************)
EXTENDS Kernel, TLC

TimerAndUart == {1, 57}
TimerHandler == 1 :> "timer"

\* The devices of an ARM board, whose boot sink is todo!().
ArmChoices == {{"serial", "timer", "intc", "fb"}, {"serial", "timer", "intc"}, {"timer", "intc"}}

\* A PC registers no interrupt controller; its boot sink is the VGA text screen.
PcChoices == {{"boot_sink", "serial", "timer", "fb"}, {"boot_sink", "serial", "timer"}, {"boot_sink", "timer"}}

DeviceChoices == ArmChoices \cup PcChoices

TwoCPUs == {1, 2}
MCPids == {"r", "h1", "h2", "m", "l"}
MCClass == "r" :> "realtime" @@ "h1" :> "high" @@ "h2" :> "high" @@ "m" :> "mid" @@ "l" :> "low"
-----------------------------------------------------------------------------
\* Bases of devices in units of 4 KB.
TimerBase == 131075
EmmcBase == 131840
Node(n, c, b) == [name |-> n, compatible |-> c, base |-> b]
SerialNode == Node("serial@20201000", "arm,pl011", 131585)
MiniUart == Node("serial@20215040", "ns16550a", 131605)
TimerNode == Node("timer@20003000", "brcm,bcm2835-system-timer", TimerBase)
IntcNode == Node("interrupt-controller@2000b200", "brcm,bcm2835-armctrl-ic", 131083)
MmcNode == Node("mmc@20300000", "brcm,bcm2835-sdhost", EmmcBase)

SomeCompatibles ==
  {"16550a-uart", "i8254-pit", "i8259-pic", "vga-text", "multiboot2-fb", "arm,pl011", "ns16550a",
   "brcm,bcm2835-system-timer", "brcm,bcm2835-armctrl-ic", "brcm,bcm2835-sdhost",
   "arm,armv7-timer", "arm,armv8-timer"}

AlphabeticalRank ==
  [n \in {"framebuffer", "intc", IntcNode.name, MmcNode.name, "pic", "serial0",
          SerialNode.name, MiniUart.name, "timer", "timer@1", TimerNode.name, "uart0", "vga"} |->
     CASE n = "framebuffer" -> 1 [] n = "intc" -> 2 [] n = IntcNode.name -> 3
       [] n = MmcNode.name -> 4 [] n = "pic" -> 5 [] n = "serial0" -> 6
       [] n = SerialNode.name -> 7 [] n = MiniUart.name -> 8 [] n = "timer" -> 9
       [] n = "timer@1" -> 10 [] n = TimerNode.name -> 11 [] n = "uart0" -> 12 [] OTHER -> 13]

Ram(b, s) == [base |-> b, size |-> s, mem_type |-> "Available"]
Mmio(b, s) == [base |-> b, size |-> s, mem_type |-> "Mmio"]
Span(b, l, t) == [base |-> b, length |-> l, entry_type |-> t]

\* The three boards, with what probe::arm matches: 0xB760, 0xC070, 0xD030.
Board(id, ram, mmio, clock) ==
  [cpu_id |-> id, ram |-> ram, mmio |-> mmio,
   devices |-> <<Node("uart0", "arm,pl011", mmio.base \div 4 + 513), clock,
                 Node("intc", "brcm,bcm2835-armctrl-ic", mmio.base \div 4 + 11)>>]
PiBoards ==
  {Board(46944, Ram(0, 524288), Mmio(524288, 16384), Node("timer", "brcm,bcm2835-system-timer", TimerBase)),
   Board(49264, Ram(0, 1048576), Mmio(1032192, 16384), Node("timer", "arm,armv7-timer", 0)),
   Board(53296, Ram(0, 1048576), Mmio(1032192, 16384), Node("timer", "arm,armv8-timer", 0))}

\* The main ID registers of an ARM1176JZF-S, a Cortex-A7 and a Cortex-A53, and
\* of a Cortex-A15.
PiMidrs == {1091549031, 1091551349, 1091555380}
SomeMidrs == PiMidrs \cup {1093648625}

\* Device trees: one with everything, one with bus addresses, one with two
\* timers, and one with more nodes than the table holds.
MCTrees ==
  {[memory |-> <<[base |-> 0, size |-> 458752]>>, nodes |-> n] :
     n \in {<<TimerNode, MmcNode, MiniUart, IntcNode, SerialNode>>,
            <<SerialNode, IntcNode, [TimerNode EXCEPT !.base = 516099]>>,
            <<TimerNode, [TimerNode EXCEPT !.name = "timer@1"], SerialNode>>,
            <<SerialNode, MmcNode, IntcNode, MiniUart, MiniUart, TimerNode>>}}
  \cup {[memory |-> <<[base |-> 0, size |-> 480], [base |-> 500, size |-> 300]>>, nodes |-> <<SerialNode, IntcNode>>]}
TreeMemory == {t.memory : t \in MCTrees}

PcRam == Ram(1024, 130048)
PcIsaHole == Mmio(640, 384)
Tag(t, b) == [addr |-> 1036288, fb_type |-> t, bpp |-> b]
MCTags == {<<>>, <<Tag(1, 32)>>, <<Tag(0, 8)>>, <<Tag(1, 16), Tag(1, 32)>>}

\* Firmware maps: low memory, RAM of 64 MB or of 3 GB with more of it above
\* 4 GB, ACPI tables (type 3) below the kernel or above it, and a BIOS ROM;
\* and a map whose reserved entries alone fill the table.
Some(S) == {<<>>} \cup {<<x>> : x \in S}
PcPlainMaps ==
  {low \o acpi1 \o ram \o acpi2 \o rom \o high :
     low \in Some({Span(0, 600, 1)}),
     acpi1 \in Some({Span(600, 40, 3)}),
     ram \in {<<Span(1024, 64512, 1)>>, <<Span(1024, 3144704, 1)>>},
     acpi2 \in Some({Span(65536, 64, 3), Span(3145728, 64, 3)}),
     rom \in Some({Span(4194048, 256, 2)}),
     high \in Some({Span(4194304, 2097152, 1)})}
PcFullMap == [i \in 1 .. 4 |-> Span(600 + 10 * i, 10, 2)]
PcMaps == PcPlainMaps \cup {PcFullMap}
Build(a, table, ends, checks, tree) ==
  [arch |-> a, table_size |-> table, kernel_ends |-> ends, overflow_checks |-> checks, device_tree |-> tree]
PiBuilds == {Build("arm", 16, {300}, c, FALSE) : c \in BOOLEAN}
MCBuilds == {Build("x86", 4, {2048, 3073, 65000, 65530}, c, FALSE) : c \in BOOLEAN}
            \cup {Build("arm", 16, 300 .. 330, c, TRUE) : c \in BOOLEAN}
            \cup PiBuilds
=============================================================================
