----------------------------- MODULE KernelLocks -----------------------------
(***************************************************************************)
(* The spin locks that kernel code and interrupt handlers share: the       *)
(* device manager (subsystems/mod.rs), the logger's mode (logger.rs), the  *)
(* serial port, the timer, the interrupt controller and the framebuffer.   *)
(* One CPU runs the boot code and, on top of it, interrupt dispatch        *)
(* (irq/dispatch.rs) with its handlers (irq/handlers.rs).  A context is    *)
(* the list of what it has still to do; the functions of the kernel are    *)
(* such lists (Body), in terms of locks, devices and the interrupt flag.   *)
(*                                                                         *)
(* Nothing at this commit enables interrupts outside dispatch, so the boot *)
(* code runs masked.  The start main_loop is the idle loop with interrupts *)
(* on: the state dispatch is written for.                                  *)
(***************************************************************************)
EXTENDS Integers, SequencesExt, FiniteSetsExt

CONSTANTS Lines,       \* interrupt lines, numbered as in the controller
          TimerLine,   \* the line of the system timer
          Registered,  \* IRQ_HANDLERS: a handler's name for some of the lines
          DeviceSets,  \* the values of present: builds and platforms
          Starts       \* where the main context starts

ASSUME LineAssumption == /\ Lines \subseteq Nat /\ TimerLine \in Lines
                         /\ DOMAIN Registered \subseteq Lines
                         /\ Starts \subseteq {"kernel_init", "kernel_main", "main_loop"}

VARIABLES stack,     \* what each context has still to do, the running one last
          line,      \* the interrupt line each handler context serves, NoLine for main
          held,      \* the locks that are taken
          enabled,   \* the CPU's interrupt flag
          masked,    \* lines disabled at the controller
          pending,   \* lines whose device asks for attention
          armed,     \* the timer's compare register is ahead of the counter
          mode,      \* LoggerMode
          present,   \* what DeviceManager holds, and boot_sink where BootSink is implemented
          panicked

vars == <<stack, line, held, enabled, masked, pending, armed, mode, present, panicked>>
-----------------------------------------------------------------------------
(***************************************************************************)
(* The kernel's functions.                                                 *)
(***************************************************************************)
NoLine == -1

Locks == {"device_manager", "mode", "serial", "timer", "intc", "fb"}

\* let guard = l.lock(); body; the guard is dropped.
Locked(l, body) == <<<<"lock", l>>>> \o body \o <<<<"unlock", l>>>>

Call(f) == <<<<"call", f>>>>

\* serial_console, system_timer and irq_controller: an Arc from the manager.
Lookup == Locked("device_manager", <<>>)

SerialLogSink_write_str ==
  Lookup \o IF "serial" \in present THEN Locked("serial", <<>>) ELSE <<>>

\* KernelLogger::log: the sinks write while the mode is locked.
log == Locked("mode", Call("sinks"))

\* What log writes to: the runtime sinks, or before attach_runtime the boot
\* console, which takes no lock where it is implemented and is todo!() on ARM.
sinks == IF mode = "Runtime" THEN SerialLogSink_write_str ELSE <<<<"need", "boot_sink">>>>

\* init_devices warns about unknown devices while it holds the manager.
init_devices == Locked("device_manager", Call("log"))

\* Wrong: the change is logged before the mode is unlocked.
attach_runtime_logged == Locked("mode", <<<<"attach", "Runtime">>>> \o Call("log"))

attach_runtime == Locked("mode", <<<<"attach", "Runtime">>>>)

\* Wrong: the names are logged with the manager locked.
log_available_devices_held == Locked("device_manager", Call("log"))

\* The names are copied, and the manager unlocked, before they are logged.
log_available_devices == Lookup \o Call("log")

kernel_init == Call("init_devices") \o Call("log") \o Call("attach_runtime")
               \o Call("log") \o Call("log_available_devices")

print_devices == Locked("device_manager", Call("log"))

draw == Locked("device_manager", IF "fb" \in present THEN Locked("fb", <<>>) ELSE <<>>)

kernel_main == Call("log") \o Call("print_devices") \o Call("draw")

\* handlers::timer; every expect is a need.
timer == <<<<"need", "timer">>>> \o Lookup
         \o Locked("timer", <<<<"stop", "timer">>>>)
         \o Lookup \o <<<<"need", "serial">>>> \o Locked("serial", <<>>)
         \o Locked("timer", <<<<"start", "timer">>>>)

\* Wrong: the line is not masked while its handler runs.
dispatch_unmasked ==
  Lookup \o <<<<"need", "intc">>>>
  \o <<<<"enable", "cpu">>>> \o Call("handler") \o <<<<"disable", "cpu">>>>
  \o Locked("intc", <<<<"unmask", "line">>>>)

\* dispatch, around the handler of its line.
dispatch == Lookup \o <<<<"need", "intc">>>>
            \o Locked("intc", <<<<"mask", "line">>>>)
            \o <<<<"enable", "cpu">>>> \o Call("handler") \o <<<<"disable", "cpu">>>>
            \o Locked("intc", <<<<"unmask", "line">>>>)

\* get_handler, and what dispatch does with the answer.
handler == LET l == line[Len(line)]
           IN  IF l \notin DOMAIN Registered THEN Call("log")
               ELSE IF Registered[l] = "timer" THEN timer ELSE <<>>

Body == [log |-> log, sinks |-> sinks, init_devices |-> init_devices,
         attach_runtime |-> attach_runtime, log_available_devices |-> log_available_devices,
         print_devices |-> print_devices, draw |-> draw, handler |-> handler]
-----------------------------------------------------------------------------
Running == stack[Len(stack)]

\* The running context is about to do op.
At(op) == ~ panicked /\ Running # <<>> /\ Running[1][1] = op

Arg == Running[1][2]

\* It has done so, and goes on with more before what it had left.
Continue(more) == stack' = [stack EXCEPT ![Len(stack)] = more \o Tail(@)]

Init == \E s \in Starts :
          /\ stack = <<CASE s = "kernel_init" -> kernel_init
                         [] s = "kernel_main" -> kernel_main
                         [] s = "main_loop" -> <<>>>>
          /\ enabled = (s = "main_loop")
          /\ mode = IF s = "kernel_init" THEN "Boot" ELSE "Runtime"
          /\ line = <<NoLine>>
          /\ held = {} /\ masked = {} /\ pending = {}
          /\ armed = (s = "main_loop") /\ panicked = FALSE
          /\ present \in DeviceSets

call == /\ At("call")
        /\ Continue(Body[Arg])
        /\ UNCHANGED <<line, held, enabled, masked, pending, armed, mode, present, panicked>>

lock == /\ At("lock") /\ Arg \notin held
        /\ held' = held \cup {Arg}
        /\ Continue(<<>>)
        /\ UNCHANGED <<line, enabled, masked, pending, armed, mode, present, panicked>>

\* spin::Mutex waits for whoever holds the lock.
spin == At("lock") /\ Arg \in held /\ UNCHANGED vars

unlock == /\ At("unlock")
          /\ held' = held \ {Arg}
          /\ Continue(<<>>)
          /\ UNCHANGED <<line, enabled, masked, pending, armed, mode, present, panicked>>

\* An expect on what the device manager answered, or a todo!().
need == /\ At("need")
        /\ IF Arg \in present THEN Continue(<<>>) /\ UNCHANGED panicked
                              ELSE panicked' = TRUE /\ UNCHANGED stack
        /\ UNCHANGED <<line, held, enabled, masked, pending, armed, mode, present>>

attach == /\ At("attach")
          /\ mode' = Arg
          /\ Continue(<<>>)
          /\ UNCHANGED <<line, held, enabled, masked, pending, armed, present, panicked>>

\* Irq::enable and Irq::disable.
interrupt_flag == /\ At("enable") \/ At("disable")
                  /\ enabled' = At("enable")
                  /\ Continue(<<>>)
                  /\ UNCHANGED <<line, held, masked, pending, armed, mode, present, panicked>>

\* disable and enable of the interrupt controller.
interrupt_line ==
  LET l == line[Len(line)]
  IN  /\ At("mask") \/ At("unmask")
      /\ masked' = IF At("mask") THEN masked \cup {l} ELSE masked \ {l}
      /\ Continue(<<>>)
      /\ UNCHANGED <<line, held, enabled, pending, armed, mode, present, panicked>>

\* Wrong: the compare register is not programmed.
timer_device_idle ==
  /\ At("stop") \/ At("start")
  /\ pending' = pending \ {TimerLine}
  /\ Continue(<<>>)
  /\ UNCHANGED <<line, held, enabled, masked, armed, mode, present, panicked>>

\* stop and clear_interrupt of the timer, which clear its match; and start,
\* which clears it too and programs the next one.
timer_device == /\ At("stop") \/ At("start")
                /\ pending' = pending \ {TimerLine}
                /\ armed' = (armed \/ At("start"))
                /\ Continue(<<>>)
                /\ UNCHANGED <<line, held, enabled, masked, mode, present, panicked>>

\* The timer matches.
timer_fires == /\ armed /\ ~ panicked
               /\ armed' = FALSE
               /\ pending' = pending \cup {TimerLine}
               /\ UNCHANGED <<stack, line, held, enabled, masked, mode, present, panicked>>

\* Another device raises its line; no handler of the kernel makes it stop.
device_fires(l) == /\ l # TimerLine /\ l \notin pending /\ ~ panicked
                   /\ pending' = pending \cup {l}
                   /\ UNCHANGED <<stack, line, held, enabled, masked, armed, mode, present, panicked>>

\* irq_entry_rust: the lowest line that asks and is not masked is dispatched.
irq_entry ==
  LET asking == pending \ masked
  IN  /\ enabled /\ ~ panicked /\ asking # {}
      /\ enabled' = FALSE
      /\ stack' = Append(stack, dispatch)
      /\ line' = Append(line, Min(asking))
      /\ UNCHANGED <<held, masked, pending, armed, mode, present, panicked>>

\* The handler returns to what it interrupted.
irq_return == /\ Len(stack) > 1 /\ Running = <<>> /\ ~ panicked
              /\ stack' = SubSeq(stack, 1, Len(stack) - 1)
              /\ line' = SubSeq(line, 1, Len(line) - 1)
              /\ enabled' = TRUE
              /\ UNCHANGED <<held, masked, pending, armed, mode, present, panicked>>

\* kernel_main_loop, and the panic handler's loop.
loop == /\ panicked \/ stack = <<<<>>>>
        /\ UNCHANGED vars

Step == \/ call \/ lock \/ unlock \/ need \/ attach
        \/ interrupt_flag \/ interrupt_line \/ timer_device \/ irq_entry \/ irq_return

Next == \/ Step \/ spin \/ loop \/ timer_fires
        \/ \E l \in Lines : device_fires(l)

\* The CPU goes on executing, and takes an interrupt that asks for it.
Spec == Init /\ [][Next]_vars /\ WF_vars(Step)
-----------------------------------------------------------------------------
\* The running context waits for a lock.  There is one CPU, so whoever holds
\* it is the context itself or one it interrupted, and it waits for ever.
Stuck == At("lock") /\ Arg \in held

\* A handler that interrupted another handler, which dispatch runs with
\* interrupts enabled.
Nested == Len(stack) > 2

\* Neither the main context nor a handler on top of it waits for a lock: only
\* one that interrupted another handler does.
NoSelfDeadlock == Stuck => Nested

\* dispatch masks its line before it enables interrupts, and unmasks it after
\* it has disabled them: the handler of a line is never entered again while it
\* runs, however handlers nest.
NoReentry == \A i, j \in 1 .. Len(line) : line[i] = line[j] => i = j

\* While no other line asks for attention, the timer's interrupt leads to the
\* next one: its handler stops the timer, writes to the console and starts the
\* timer again, and dispatch unmasks the line, unless a device is missing.
TimerRearmed ==
  [](pending \subseteq {TimerLine}) => (TimerLine \in pending ~> armed \/ panicked)

\* In a build with a boot sink (x86), kernel_init returns: it holds no lock
\* that what it calls takes again, over the change of the logger's sinks.
BootCompletes == "boot_sink" \in present => <>(stack[1] = <<>>)
=============================================================================
