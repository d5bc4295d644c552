------------------------------- MODULE Kernel -------------------------------
(***************************************************************************)
(* The kernel itself: how it boots (Boot, extended), the spin locks that   *)
(* boot code and interrupt handlers share (KernelLocks, extended), the     *)
(* interrupt-safe mutex, and the scheduler.  They share nothing that the   *)
(* properties are about, so a behaviour is about one of them, and part     *)
(* says which.                                                             *)
(***************************************************************************)
EXTENDS KernelLocks, Boot

CONSTANTS CPUs, MaxNest,           \* as in IrqMutex
          Pids, Class, CycleMod    \* as in Scheduler

VARIABLES part,
          online, locked, flags, depth, pc, saved,
          queue, schedule_cycle, out, answer, turns

Mutex == INSTANCE IrqMutex WITH enabled <- flags
mutexVars == <<online, locked, flags, depth, pc, saved>>

Sched == INSTANCE Scheduler
schedVars == <<queue, schedule_cycle, out, answer, turns>>
bootVars == <<memoryVars, dmVars>>
all == <<part, bootVars, vars, mutexVars, schedVars>>

ASSUME KernelAssumption == Mutex!IrqConstants /\ Sched!SchedConstants

\* The parts that a behaviour is not about stay as one of their starts.
KernelInit ==
  /\ part \in {"boot", "locks", "mutex", "sched"}
  /\ BootInit /\ (part = "boot" \/ (/\ build = CHOOSE b \in Builds : TRUE
                                    /\ kernel_end = CHOOSE e \in build.kernel_ends : TRUE))
  /\ Init /\ (part = "locks" \/ (stack = <<<<>>>> /\ present = CHOOSE d \in DeviceSets : TRUE))
  /\ Mutex!Init /\ (part = "mutex" \/ (online = CPUs /\ flags = [c \in CPUs |-> TRUE]))
  /\ Sched!Init
BootPart(A) == part = "boot" /\ A /\ UNCHANGED <<part, vars, mutexVars, schedVars>>
LocksPart(A) == part = "locks" /\ A /\ UNCHANGED <<part, bootVars, mutexVars, schedVars>>
MutexPart(A) == part = "mutex" /\ A /\ UNCHANGED <<part, bootVars, vars, schedVars>>
SchedPart(A) == part = "sched" /\ A /\ UNCHANGED <<part, bootVars, vars, mutexVars>>

BootStep == BootPart(Discovery \/ MemorySetup \/ DeviceSetup)
LocksStep == LocksPart(Next)
MutexStep == MutexPart(Mutex!Next)
SchedStep == SchedPart(Sched!Next)

\* A boot ends with its devices or in a panic; what else the kernel does goes on.
BootEnded == BootPart((phase = "panic" \/ state \in {"ready", "panic"}) /\ UNCHANGED bootVars)

KernelNext == BootStep \/ BootEnded \/ LocksStep \/ MutexStep \/ SchedStep

KernelSpec == /\ KernelInit /\ [][KernelNext]_all
              /\ WF_all(LocksPart(Step))
              /\ \A c \in CPUs : WF_all(MutexPart(Mutex!Progress(c)))
-----------------------------------------------------------------------------
\* One guard of an IrqMutex at a time, on one CPU (irq_mutex.rs).
MutualExclusion == Mutex!MutualExclusion

\* Who waits for the mutex or owns it is not interrupted.
OwnerNotInterrupted == Mutex!OwnerNotInterrupted

\* Dropping a guard gives back the interrupt flag that lock found.
FlagRestored == Mutex!FlagRestored

\* lock returns, on one CPU.
LockReturns == Mutex!LockReturns

\* schedule loses no process and hands out none twice (scheduler.rs).
EveryProcessOnce == Sched!EveryProcessOnce

\* The three shared queues get their turns in the ratio 3:2:1 (scheduler.rs:17).
FairShare == Sched!FairShare
=============================================================================
