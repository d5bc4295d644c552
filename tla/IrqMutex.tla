------------------------------ MODULE IrqMutex ------------------------------
(***************************************************************************)
(* IrqMutex (common/src/sync/irq_mutex.rs), the lock of the scheduler: a   *)
(* spin lock whose holder runs with interrupts masked.  A CPU runs one     *)
(* context at a time: the kernel (level 0) or the innermost of the nested  *)
(* interrupt handlers (levels 1, 2, ...); a context that was interrupted   *)
(* goes on when the handlers above it have returned.                       *)
(*                                                                         *)
(* Dropping an IrqMutexGuard unlocks twice: its drop method drops the      *)
(* inner guard in place and restores the interrupt flag, and when it       *)
(* returns the compiler drops the field guard once more.                   *)
(***************************************************************************)
EXTENDS Integers

CONSTANTS CPUs,    \* the processors
          MaxNest  \* bound on the nesting of interrupts

\* What the proofs need of them.
IrqConstants == MaxNest \in Nat

VARIABLES online,   \* the CPUs that run the kernel; the others stay parked
          locked,   \* the word of the inner spin::Mutex
          enabled,  \* the interrupt flag of each CPU (IF, or not CPSR.I)
          depth,    \* the level of the context that runs on each CPU
          pc,       \* where each context is in lock, try_lock or drop
          saved     \* IrqMutexGuard.irq_state of each context

vars == <<online, locked, enabled, depth, pc, saved>>

Levels == 0 .. MaxNest

(***************************************************************************)
(* out: not using the mutex.  spin: lock has masked interrupts and waits.  *)
(* held: owns a guard.  restore: drop has unlocked, the flag comes next.   *)
(* again: drop has returned, the second unlock comes next.  refused:       *)
(* try_lock found the mutex taken, the flag comes next.                    *)
(***************************************************************************)
Places == {"out", "spin", "held", "restore", "again", "refused"}

Masked == {"spin", "held", "restore", "refused"}

At(c) == pc[c][depth[c]]

Goto(c, place) == pc' = [pc EXCEPT ![c][depth[c]] = place]
-----------------------------------------------------------------------------
Init == /\ online \in (SUBSET CPUs) \ {{}}
        /\ locked = FALSE
        /\ enabled \in [CPUs -> BOOLEAN]
        /\ depth = [c \in CPUs |-> 0]
        /\ pc = [c \in CPUs |-> [l \in Levels |-> "out"]]
        /\ saved = [c \in CPUs |-> [l \in Levels |-> FALSE]]

\* Wrong: interrupts are masked only once the lock is owned.
save_only(c) == /\ saved' = [saved EXCEPT ![c][depth[c]] = enabled[c]]
                /\ UNCHANGED enabled

\* IrqControl::save_and_disable.  The flag is read and cleared in two
\* instructions, but an interrupt between them returns with the flag set.
save_and_disable(c) == /\ saved' = [saved EXCEPT ![c][depth[c]] = enabled[c]]
                       /\ enabled' = [enabled EXCEPT ![c] = FALSE]

\* Wrong: interrupts are switched on whatever the state was.
restore_always(c) == enabled' = [enabled EXCEPT ![c] = TRUE]

\* IrqControl::restore: nothing happens when interrupts were off before.
restore(c) == enabled' = [enabled EXCEPT ![c] = saved[c][depth[c]] \/ @]

\* IrqMutex::lock, up to the spin loop.
lock(c) == /\ At(c) = "out"
           /\ save_and_disable(c)
           /\ Goto(c, "spin")
           /\ UNCHANGED <<locked, depth>>

\* The compare-and-swap of the spin loop succeeds and lock returns the guard.
acquire(c) == /\ At(c) = "spin"
              /\ ~ locked
              /\ locked' = TRUE
              /\ Goto(c, "held")
              /\ UNCHANGED <<enabled, depth, saved>>

\* The compare-and-swap fails: the spin loop goes round.
spin(c) == At(c) = "spin" /\ locked /\ UNCHANGED vars

\* IrqMutex::try_lock with the mutex free; and with the mutex taken.
try_lock(c) == /\ At(c) = "out"
               /\ save_and_disable(c)
               /\ IF locked THEN Goto(c, "refused") /\ UNCHANGED locked
                            ELSE Goto(c, "held") /\ locked' = TRUE
               /\ UNCHANGED depth

try_lock_fail(c) == /\ At(c) = "refused"
                    /\ restore(c)
                    /\ Goto(c, "out")
                    /\ UNCHANGED <<locked, depth, saved>>

\* Wrong: drop leaves the word alone.
drop_kept(c) == /\ At(c) = "held"
                /\ Goto(c, "restore")
                /\ UNCHANGED <<locked, enabled, depth, saved>>

\* Wrong: the flag is restored before the word is cleared.
drop_flag_first(c) == /\ At(c) = "held"
                      /\ restore(c)
                      /\ Goto(c, "restore")
                      /\ UNCHANGED <<locked, depth, saved>>

\* IrqMutexGuard::drop: drop_in_place of the inner guard.
drop(c) == /\ At(c) = "held"
           /\ locked' = FALSE
           /\ Goto(c, "restore")
           /\ UNCHANGED <<enabled, depth, saved>>

\* The rest of drop: the interrupt flag.
drop_restore(c) == /\ At(c) = "restore"
                   /\ restore(c)
                   /\ Goto(c, "again")
                   /\ UNCHANGED <<locked, depth, saved>>

\* The drop glue of the field guard.
drop_field(c) == /\ At(c) = "again"
                 /\ locked' = FALSE
                 /\ Goto(c, "out")
                 /\ UNCHANGED <<enabled, depth, saved>>

\* The processor takes an interrupt and masks further ones.
interrupt(c) == /\ enabled[c] /\ depth[c] < MaxNest
                /\ depth' = [depth EXCEPT ![c] = @ + 1]
                /\ enabled' = [enabled EXCEPT ![c] = FALSE]
                /\ UNCHANGED <<locked, pc, saved>>

\* Irq::enable and Irq::disable, in dispatch around the handler.
enable(c) == /\ At(c) = "out" /\ ~ enabled[c]
             /\ enabled' = [enabled EXCEPT ![c] = TRUE]
             /\ UNCHANGED <<locked, depth, pc, saved>>

disable(c) == /\ At(c) = "out" /\ enabled[c]
              /\ enabled' = [enabled EXCEPT ![c] = FALSE]
              /\ UNCHANGED <<locked, depth, pc, saved>>

\* The handler returns and the processor restores the flag it interrupted.
interrupt_return(c) == /\ depth[c] > 0 /\ At(c) = "out"
                       /\ depth' = [depth EXCEPT ![c] = @ - 1]
                       /\ enabled' = [enabled EXCEPT ![c] = TRUE]
                       /\ UNCHANGED <<locked, pc, saved>>

Use(c) == \/ lock(c) \/ spin(c) \/ acquire(c) \/ try_lock(c) \/ try_lock_fail(c)
          \/ drop(c) \/ drop_restore(c) \/ drop_field(c)

Next == /\ \E c \in online : \/ Use(c)
                             \/ interrupt(c) \/ interrupt_return(c)
                             \/ enable(c) \/ disable(c)
        /\ UNCHANGED online

\* A CPU executes the instructions of its running context, and a guard is
\* dropped in the end.
Progress(c) == /\ c \in online
               /\ acquire(c) \/ try_lock_fail(c) \/ drop(c) \/ drop_restore(c) \/ drop_field(c)
               /\ UNCHANGED online

Spec == Init /\ [][Next]_vars /\ \A c \in CPUs : WF_vars(Progress(c))
-----------------------------------------------------------------------------
\* Every variable holds a value the program could hold.
TypeOK == /\ online \subseteq CPUs
          /\ locked \in BOOLEAN
          /\ enabled \in [CPUs -> BOOLEAN]
          /\ depth \in [CPUs -> Levels]
          /\ pc \in [CPUs -> [Levels -> Places]]
          /\ saved \in [CPUs -> [Levels -> BOOLEAN]]

Owners == {x \in online \X Levels : pc[x[1]][x[2]] = "held"}
OneOnline == \A c, d \in online : c = d

\* On one CPU the second unlock of a guard never opens the mutex under the
\* guard of another context, and none leaves it shut: at most one guard exists,
\* and the word says whether one does.
MutualExclusion == OneOnline => /\ \A x, y \in Owners : x = y
                                /\ locked = (Owners # {})

\* lock masks interrupts before it takes the word and drop restores them
\* after it has cleared it, so a context that waits for the mutex or owns it
\* is never interrupted: no handler can spin on a mutex its own CPU holds.
OwnerNotInterrupted ==
  \A c \in CPUs, l \in Levels :
    pc[c][l] \in Masked => l = depth[c] /\ ~ enabled[c]

\* After drop has run, and whatever handlers ran since, the flag is what it
\* was when the guard was taken.
FlagRestored == \A c \in CPUs : At(c) = "again" => enabled[c] = saved[c][depth[c]]

\* On one CPU lock never waits for ever.
LockReturns == OneOnline => \A c \in CPUs : At(c) = "spin" ~> At(c) = "held"
=============================================================================
