--------------------------- MODULE DeviceManager ---------------------------
(***************************************************************************)
(* How devices get from discovery to their users: the boot layer           *)
(* (kernel/src/boot) writes what it finds into the platform's table, in    *)
(* the order in which it finds it; Platform::init_devices makes a driver   *)
(* for each entry it has one for and registers it with the DeviceManager   *)
(* (drivers/src/device_manager.rs); the kernel looks devices up by name,   *)
(* or asks for the console, the system timer and the interrupt controller. *)
(*                                                                         *)
(* An entry of the table is a record of name, compatible and base, a       *)
(* registered device one of kind and base.                                 *)
(***************************************************************************)
EXTENDS Naturals, Sequences, FiniteSets

CONSTANTS None,
          MAX_DEVICES,   \* 32
          TIMER_BASE,    \* where the drivers expect their registers
          EMMC_BASE,
          Rank           \* the place of each name in alphabetical order

ManagerConstants ==
  /\ MAX_DEVICES \in Nat
  /\ None \notin {"Serial", "Timer", "InterruptController", "Block", 1}
  /\ {"serial0", "timer", "pic", "vga", "framebuffer"} \subseteq DOMAIN Rank
  /\ Rank \in [DOMAIN Rank -> Nat]
  /\ \A m, n \in DOMAIN Rank : Rank[m] = Rank[n] => m = n

VARIABLES devices,       \* DEVICES[..DEVICE_COUNT]
          fb_tag,        \* MB2_FB_TAG, or None
          manager,       \* DEVICE_MANAGER: devices by name; None before init_devices
          sys_channel,   \* SYS_TIMER_CHANNEL, or None
          next,          \* the entry init_devices looks at next
          state          \* "boot", "found", "registering", "ready" or "panic"

vars == <<devices, fb_tag, manager, sys_channel, next, state>>

Init == /\ devices = << >> /\ fb_tag = None
        /\ manager = None /\ sys_channel = None
        /\ next = 1 /\ state = "boot"

(*** Discovery *************************************************************)

Entry(n, c, b) == [name |-> n, compatible |-> c, base |-> b]

\* Addresses in units of 4 KB, ports by number.
StandardPcDevices == << Entry("serial0", "16550a-uart", 1016), Entry("timer", "i8254-pit", 64),
                        Entry("pic", "i8259-pic", 32), Entry("vga", "vga-text", 184) >>

\* add_device drops what does not fit the table, silently.
WithDevices(ds, more) ==
  SubSeq(ds \o more, 1, IF Len(ds \o more) < MAX_DEVICES THEN Len(ds \o more) ELSE MAX_DEVICES)

Found(more) == /\ state = "boot"
               /\ devices' = WithDevices(devices, more)
               /\ state' = "found"
               /\ UNCHANGED <<manager, sys_channel, next>>

\* The framebuffer tags of the Multiboot2 information each add a device; the
\* first one is kept.  The standard devices come last.
multiboot2(tags) ==
  /\ Found([i \in DOMAIN tags |-> Entry("framebuffer", "multiboot2-fb", tags[i].addr)]
           \o StandardPcDevices)
  /\ fb_tag' = IF tags = << >> THEN fb_tag ELSE Head(tags)

probe_x86 == Found(StandardPcDevices) /\ UNCHANGED fb_tag

\* The devices of a board of probe::arm, or the nodes of a device tree that
\* have a compatible string and an address.
arm_devices(nodes) == Found(nodes) /\ UNCHANGED fb_tag

(*** Registration **********************************************************)

Kind(compatible) ==
  CASE compatible \in {"arm,pl011", "arm,primecell", "16550a-uart", "ns16550a"} -> "Serial"
    [] compatible = "brcm,bcm2835-system-timer" -> "Timer"
    [] compatible \in {"brcm,bcm2835-armctrl-ic", "brcm,bcm2836-armctrl-ic"} -> "InterruptController"
    [] compatible \in {"brcm,bcm2835-sdhost", "brcm,bcm2711-emmc2"} -> "Block"
    [] OTHER -> None      \* known without a driver, or unknown: a warning at most

\* The constructors that can fail do so for a base other than the one they use.
Constructed(d) == /\ Kind(d.compatible) = "Timer" => d.base = TIMER_BASE
                  /\ Kind(d.compatible) = "Block" => d.base = EMMC_BASE

\* Insert into the map: a device with the same name is replaced.
register(name, dev) ==
  manager' = [n \in DOMAIN manager \cup {name} |-> IF n = name THEN dev ELSE manager[n]]

Panic == state' = "panic" /\ UNCHANGED <<devices, fb_tag, manager, sys_channel, next>>

init_devices == /\ state = "found"
                /\ manager' = [n \in {} |-> None]
                /\ state' = "registering"
                /\ UNCHANGED <<devices, fb_tag, sys_channel, next>>

\* One entry.  The channel of the system timer can be set once; an error leaves
\* what was registered before and ends the boot.
init_device ==
  LET d == devices[next]
      kind == Kind(d.compatible)
  IN  /\ state = "registering" /\ next <= Len(devices)
      /\ IF kind = None
           THEN next' = next + 1 /\ UNCHANGED <<devices, fb_tag, manager, sys_channel, state>>
         ELSE IF ~ Constructed(d) \/ (kind = "Timer" /\ sys_channel # None)
           THEN Panic
         ELSE /\ register(d.name, [kind |-> kind, base |-> d.base])
              /\ sys_channel' = IF kind = "Timer" THEN 1 ELSE sys_channel
              /\ next' = next + 1
              /\ UNCHANGED <<devices, fb_tag, state>>

init_devices_done == /\ state = "registering" /\ next > Len(devices)
                     /\ state' = "ready"
                     /\ UNCHANGED <<devices, fb_tag, manager, sys_channel, next>>

\* A tag whose pixels Mb2Fb can write; no tag, or another one, is an error.
enable_graphical_framebuffer ==
  /\ state = "ready" /\ fb_tag # None
  /\ fb_tag.fb_type = 1 /\ fb_tag.bpp \in {15, 16, 24, 32}
  /\ register("framebuffer", [kind |-> "FrameBuffer", base |-> fb_tag.addr])
  /\ UNCHANGED <<devices, fb_tag, sys_channel, next, state>>

Registration == init_devices \/ init_device \/ init_devices_done \/ enable_graphical_framebuffer

(*** Lookup ****************************************************************)

\* serial, timer and interrupt_controller: by name, if the kind is right.
Named(name, kind) == {manager[n] : n \in {m \in DOMAIN manager \cap {name} : manager[m].kind = kind}}

\* The first device of a kind, in alphabetical order.
Names(kind) == {n \in DOMAIN manager : manager[n].kind = kind}
First(kind) == {manager[n] : n \in {m \in Names(kind) : \A o \in Names(kind) : Rank[m] <= Rank[o]}}

\* The usual names in their order, then the first device of the kind.  The
\* result is a set of at most one device.
ByUsualName(names, kind) ==
  LET there == {i \in DOMAIN names : Named(names[i], kind) # {}}
  IN  UNION {Named(names[i], kind) : i \in {j \in there : \A k \in there : j <= k}}
ByName(names, kind) == IF ByUsualName(names, kind) # {} THEN ByUsualName(names, kind) ELSE First(kind)

serial_console == ByName(<<"console", "serial0">>, "Serial")
system_timer == ByName(<<"system_timer", "timer">>, "Timer")
irq_controller == ByName(<<"intc", "pic", "gic">>, "InterruptController")

(*** Properties ************************************************************)

WithDriver == {i \in DOMAIN devices : Kind(devices[i].compatible) # None}
Discovered(kind) == {[kind |-> kind, base |-> devices[i].base] :
                       i \in {j \in WithDriver : Kind(devices[j].compatible) = kind}}
NamesDiffer == \A i, j \in WithDriver : devices[i].name = devices[j].name => i = j

\* Once the devices are initialised, whatever they are called and in whichever
\* order they were found: a console, a system timer and an interrupt controller
\* are found exactly if discovery found one (and the table had room for it),
\* and there is one system timer exactly if its channel is set; dispatch and
\* the timer's handler expect all of it.  (Of two entries with one name, which
\* a device tree may have in different places, the later one replaces the
\* other.)
DefaultsFound ==
  state = "ready" /\ NamesDiffer =>
    /\ \A kind \in {"Serial", "Timer", "InterruptController"} :
         LET answer == CASE kind = "Serial" -> serial_console
                         [] kind = "Timer" -> system_timer
                         [] OTHER -> irq_controller
         IN  /\ Cardinality(answer) <= 1 /\ answer \subseteq Discovered(kind)
             /\ answer = {} <=> Discovered(kind) = {}
    /\ sys_channel # None <=> Cardinality(Names("Timer")) = 1
=============================================================================
