---------------------------- MODULE Kernel_proofs ---------------------------
(***************************************************************************)
(* Proofs about IrqMutex, for any number of CPUs and any nesting of        *)
(* interrupts (mutual exclusion needs that one CPU is online), and about   *)
(* Scheduler, for any number of processes.  The two have variables of      *)
(* their own; the last theorem carries both over to Kernel.                *)
(***************************************************************************)
EXTENDS Kernel, Sequences, FiniteSetTheorems, TLAPS
-----------------------------------------------------------------------------
(*** The mutex *************************************************************)

\* Where the contexts that do not run are: those above the running one are not
\* using the mutex, and those interrupted between the two unlocks of drop had
\* switched interrupts on themselves.
SuspendedContexts ==
  \A c \in CPUs, l \in Mutex!Levels :
    /\ l > depth[c] => pc[c][l] = "out"
    /\ l < depth[c] /\ pc[c][l] = "again" => saved[c][l]

IInv == Mutex!TypeOK /\ Mutex!OwnerNotInterrupted /\ SuspendedContexts /\ Mutex!FlagRestored

\* A step of a running context concerns its CPU, and among its contexts the
\* innermost one.
LEMMA StepFacts ==
  ASSUME Mutex!TypeOK, NEW c \in CPUs, NEW place \in Mutex!Places, Mutex!Goto(c, place)
  PROVE  /\ pc' \in [CPUs -> [Mutex!Levels -> Mutex!Places]]
         /\ pc'[c][depth[c]] = place
         /\ \A d \in CPUs, l \in Mutex!Levels :
              d # c \/ l # depth[c] => pc'[d][l] = pc[d][l]
BY DEF Mutex!TypeOK, Mutex!Goto

\* What save_and_disable leaves in the guard and in the flag.
LEMMA SaveFacts ==
  ASSUME Mutex!TypeOK, NEW c \in CPUs, Mutex!save_and_disable(c)
  PROVE  /\ saved' \in [CPUs -> [Mutex!Levels -> BOOLEAN]]
         /\ flags' \in [CPUs -> BOOLEAN]
         /\ ~ flags'[c]
         /\ \A d \in CPUs : d # c => flags'[d] = flags[d]
         /\ \A d \in CPUs, l \in Mutex!Levels :
              d # c \/ l # depth[c] => saved'[d][l] = saved[d][l]
BY Zenon DEF Mutex!TypeOK, Mutex!save_and_disable

\* What restore leaves in the flag when interrupts were masked.
LEMMA RestoreFacts ==
  ASSUME Mutex!TypeOK, NEW c \in CPUs, Mutex!restore(c), ~ flags[c]
  PROVE  /\ flags' \in [CPUs -> BOOLEAN]
         /\ flags'[c] = saved[c][depth[c]]
         /\ \A d \in CPUs : d # c => flags'[d] = flags[d]
BY DEF Mutex!TypeOK, Mutex!restore

\* A step of the running context of c to a place of lock, try_lock or drop
\* keeps the invariant, if it masks interrupts where the place asks for it and
\* has given the flag back where drop has.
LEMMA UseFacts ==
  ASSUME IInv, NEW c \in CPUs, NEW place \in Mutex!Places, Mutex!Goto(c, place),
         depth' = depth, online' = online, locked' \in BOOLEAN,
         flags' \in [CPUs -> BOOLEAN], saved' \in [CPUs -> [Mutex!Levels -> BOOLEAN]],
         \A d \in CPUs : d # c => flags'[d] = flags[d],
         \A d \in CPUs, l \in Mutex!Levels : d # c \/ l # depth[c] => saved'[d][l] = saved[d][l],
         place \in Mutex!Masked => ~ flags'[c],
         place = "again" => flags'[c] = saved'[c][depth[c]]
  PROVE  IInv'
<1> USE DEF IInv
<1>0. depth \in [CPUs -> Mutex!Levels] /\ Mutex!TypeOK
  BY DEF Mutex!TypeOK
<1>1. Mutex!TypeOK'
  BY StepFacts DEF Mutex!TypeOK
<1>2. Mutex!OwnerNotInterrupted'
  <2> SUFFICES ASSUME NEW d \in CPUs, NEW l \in Mutex!Levels, pc'[d][l] \in Mutex!Masked
               PROVE  l = depth[d] /\ ~ flags'[d]
    BY DEF Mutex!OwnerNotInterrupted
  <2>1. CASE d = c /\ l = depth[c]
    BY <2>1, StepFacts
  <2>2. CASE ~ (d = c /\ l = depth[c])
    <3>1. pc[d][l] \in Mutex!Masked
      BY <2>2, StepFacts
    <3>2. l = depth[d] /\ ~ flags[d]
      BY <3>1 DEF Mutex!OwnerNotInterrupted
    <3> QED BY <2>2, <3>2
  <2> QED BY <2>1, <2>2
<1>3. SuspendedContexts'
  <2> SUFFICES ASSUME NEW d \in CPUs, NEW l \in Mutex!Levels
               PROVE  /\ l > depth[d] => pc'[d][l] = "out"
                      /\ l < depth[d] /\ pc'[d][l] = "again" => saved'[d][l]
    BY DEF SuspendedContexts
  <2>1. CASE d = c /\ l = depth[c]
    BY <2>1, <1>0, KernelAssumption DEF Mutex!IrqConstants, Mutex!Levels
  <2>2. CASE ~ (d = c /\ l = depth[c])
    <3>1. pc'[d][l] = pc[d][l] /\ saved'[d][l] = saved[d][l]
      BY <2>2, StepFacts
    <3>2. /\ l > depth[d] => pc[d][l] = "out"
          /\ l < depth[d] /\ pc[d][l] = "again" => saved[d][l]
      BY DEF SuspendedContexts
    <3> QED BY <3>1, <3>2
  <2> QED BY <2>1, <2>2
<1>4. Mutex!FlagRestored'
  <2> SUFFICES ASSUME NEW d \in CPUs, pc'[d][depth[d]] = "again"
               PROVE  flags'[d] = saved'[d][depth[d]]
    BY DEF Mutex!FlagRestored, Mutex!At
  <2>1. CASE d = c
    BY <2>1, StepFacts
  <2>2. CASE d # c
    <3>1. pc[d][depth[d]] = "again" /\ depth[d] \in Mutex!Levels
      BY <2>2, <1>0, StepFacts
    <3>2. flags[d] = saved[d][depth[d]]
      BY <3>1 DEF Mutex!FlagRestored, Mutex!At
    <3>3. saved'[d][depth[d]] = saved[d][depth[d]] /\ flags'[d] = flags[d]
      BY <2>2, <3>1
    <3> QED BY <3>2, <3>3
  <2> QED BY <2>1, <2>2
<1> QED BY <1>1, <1>2, <1>3, <1>4

\* Every step keeps the invariant.
LEMMA Preserved ==
  ASSUME IInv, [Mutex!Next]_(Mutex!vars)
  PROVE  IInv'
<1>0. Mutex!TypeOK /\ depth \in [CPUs -> Mutex!Levels] /\ flags \in [CPUs -> BOOLEAN] /\ locked \in BOOLEAN
      /\ saved \in [CPUs -> [Mutex!Levels -> BOOLEAN]]
  BY DEF IInv, Mutex!TypeOK
<1>1. ASSUME UNCHANGED Mutex!vars
      PROVE  IInv'
  BY <1>1 DEF Mutex!vars, IInv, Mutex!TypeOK, Mutex!OwnerNotInterrupted, SuspendedContexts, Mutex!FlagRestored, Mutex!At
<1>2. ASSUME NEW c \in CPUs, Mutex!lock(c), online' = online
      PROVE  IInv'
  <2>1. Mutex!Goto(c, "spin") /\ Mutex!save_and_disable(c) /\ UNCHANGED <<locked, depth>>
    BY <1>2 DEF Mutex!lock
  <2>2. "spin" \in Mutex!Places /\ "spin" # "again"
    BY DEF Mutex!Places
  <2> QED BY <1>2, <2>1, <2>2, <1>0, SaveFacts, UseFacts
<1>3. ASSUME NEW c \in CPUs, Mutex!try_lock(c), online' = online
      PROVE  IInv'
  <2>1. PICK place \in {"refused", "held"} : Mutex!Goto(c, place) /\ locked' \in BOOLEAN
    BY <1>3, <1>0 DEF Mutex!try_lock
  <2>2. Mutex!save_and_disable(c) /\ depth' = depth
    BY <1>3 DEF Mutex!try_lock
  <2>3. place \in Mutex!Places /\ place # "again"
    BY DEF Mutex!Places
  <2> QED BY <1>3, <2>1, <2>2, <2>3, <1>0, SaveFacts, UseFacts
<1>4. ASSUME NEW c \in CPUs, Mutex!acquire(c), online' = online
      PROVE  IInv'
  <2>1. Mutex!Goto(c, "held") /\ UNCHANGED <<flags, depth, saved>> /\ locked' \in BOOLEAN /\ Mutex!At(c) = "spin"
    BY <1>4 DEF Mutex!acquire
  <2>2. ~ flags[c]
    BY <2>1, <1>0 DEF IInv, Mutex!OwnerNotInterrupted, Mutex!Masked, Mutex!At
  <2>3. "held" \in Mutex!Places /\ "held" # "again"
    BY DEF Mutex!Places
  <2> QED BY <1>4, <2>1, <2>2, <2>3, <1>0, UseFacts
<1>5. ASSUME NEW c \in CPUs, Mutex!try_lock_fail(c), online' = online
      PROVE  IInv'
  <2>1. Mutex!Goto(c, "out") /\ Mutex!restore(c) /\ UNCHANGED <<locked, depth, saved>> /\ Mutex!At(c) = "refused"
    BY <1>5 DEF Mutex!try_lock_fail
  <2>2. ~ flags[c]
    BY <2>1, <1>0 DEF IInv, Mutex!OwnerNotInterrupted, Mutex!Masked, Mutex!At
  <2>3. "out" \in Mutex!Places /\ "out" \notin Mutex!Masked
    BY DEF Mutex!Places, Mutex!Masked
  <2> QED BY <1>5, <2>1, <2>2, <2>3, <1>0, RestoreFacts, UseFacts
<1>6. ASSUME NEW c \in CPUs, Mutex!drop(c), online' = online
      PROVE  IInv'
  <2>1. Mutex!Goto(c, "restore") /\ UNCHANGED <<flags, depth, saved>> /\ locked' \in BOOLEAN /\ Mutex!At(c) = "held"
    BY <1>6 DEF Mutex!drop
  <2>2. ~ flags[c]
    BY <2>1, <1>0 DEF IInv, Mutex!OwnerNotInterrupted, Mutex!Masked, Mutex!At
  <2>3. "restore" \in Mutex!Places /\ "restore" # "again"
    BY DEF Mutex!Places
  <2> QED BY <1>6, <2>1, <2>2, <2>3, <1>0, UseFacts
<1>7. ASSUME NEW c \in CPUs, Mutex!drop_restore(c), online' = online
      PROVE  IInv'
  <2>1. Mutex!Goto(c, "again") /\ Mutex!restore(c) /\ UNCHANGED <<locked, depth, saved>> /\ Mutex!At(c) = "restore"
    BY <1>7 DEF Mutex!drop_restore
  <2>2. ~ flags[c]
    BY <2>1, <1>0 DEF IInv, Mutex!OwnerNotInterrupted, Mutex!Masked, Mutex!At
  <2>3. "again" \in Mutex!Places /\ "again" \notin Mutex!Masked
    BY DEF Mutex!Places, Mutex!Masked
  <2> QED BY <1>7, <2>1, <2>2, <2>3, <1>0, RestoreFacts, UseFacts
<1>8. ASSUME NEW c \in CPUs, Mutex!drop_field(c), online' = online
      PROVE  IInv'
  <2>1. Mutex!Goto(c, "out") /\ UNCHANGED <<flags, depth, saved>> /\ locked' \in BOOLEAN /\ Mutex!At(c) = "again"
    BY <1>8 DEF Mutex!drop_field
  <2>2. "out" \in Mutex!Places /\ "out" \notin Mutex!Masked
    BY DEF Mutex!Places, Mutex!Masked
  <2> QED BY <1>8, <2>1, <2>2, <1>0, UseFacts
<1>9. ASSUME NEW c \in CPUs, Mutex!interrupt(c), online' = online
      PROVE  IInv'
  <2> USE <1>9, <1>0, KernelAssumption DEF Mutex!IrqConstants, Mutex!interrupt, IInv, Mutex!Levels
  <2>0. /\ flags[c] /\ ~ flags'[c] /\ depth' \in [CPUs -> Mutex!Levels] /\ flags' \in [CPUs -> BOOLEAN]
        /\ depth'[c] = depth[c] + 1 /\ UNCHANGED <<pc, saved, locked>>
        /\ \A d \in CPUs : d # c => depth'[d] = depth[d] /\ flags'[d] = flags[d]
    OBVIOUS
  <2>1. Mutex!TypeOK'
    BY <2>0 DEF Mutex!TypeOK
  <2>2. Mutex!OwnerNotInterrupted'
    BY <2>0 DEF Mutex!OwnerNotInterrupted
  <2>3. SuspendedContexts'
    BY <2>0 DEF SuspendedContexts, Mutex!FlagRestored, Mutex!At
  <2>4. Mutex!FlagRestored'
    <3> SUFFICES ASSUME NEW d \in CPUs, pc'[d][depth'[d]] = "again"
                 PROVE  flags'[d] = saved'[d][depth'[d]]
      BY DEF Mutex!FlagRestored, Mutex!At
    <3>1. CASE d = c
      BY <2>0, <3>1 DEF SuspendedContexts
    <3>2. CASE d # c
      <4>1. pc[d][depth[d]] = "again"
        BY <2>0, <3>2
      <4>2. flags[d] = saved[d][depth[d]]
        BY <4>1 DEF Mutex!FlagRestored, Mutex!At
      <4> QED BY <2>0, <3>2, <4>2
    <3> QED BY <3>1, <3>2
  <2> QED BY <2>1, <2>2, <2>3, <2>4
<1>10. ASSUME NEW c \in CPUs, Mutex!interrupt_return(c), online' = online
       PROVE  IInv'
  <2> USE <1>10, <1>0, KernelAssumption DEF Mutex!IrqConstants, Mutex!interrupt_return, IInv, Mutex!Levels
  <2>0. /\ Mutex!At(c) = "out" /\ flags'[c] /\ depth' \in [CPUs -> Mutex!Levels] /\ flags' \in [CPUs -> BOOLEAN]
        /\ depth'[c] = depth[c] - 1 /\ UNCHANGED <<pc, saved, locked>>
        /\ \A d \in CPUs : d # c => depth'[d] = depth[d] /\ flags'[d] = flags[d]
    OBVIOUS
  <2>1. Mutex!TypeOK'
    BY <2>0 DEF Mutex!TypeOK
  <2>2. Mutex!OwnerNotInterrupted'
    BY <2>0 DEF Mutex!OwnerNotInterrupted, Mutex!At, Mutex!Masked
  <2>3. SuspendedContexts'
    BY <2>0 DEF SuspendedContexts, Mutex!At
  <2>4. Mutex!FlagRestored'
    <3> SUFFICES ASSUME NEW d \in CPUs, pc'[d][depth'[d]] = "again"
                 PROVE  flags'[d] = saved'[d][depth'[d]]
      BY DEF Mutex!FlagRestored, Mutex!At
    <3>1. CASE d = c
      <4>1. depth'[c] \in Mutex!Levels /\ depth'[c] < depth[c] /\ pc[c][depth'[c]] = "again"
        BY <2>0, <3>1
      <4>2. saved[c][depth'[c]] = TRUE
        BY <4>1 DEF SuspendedContexts, Mutex!TypeOK
      <4> QED BY <2>0, <3>1, <4>2
    <3>2. CASE d # c
      <4>1. pc[d][depth[d]] = "again"
        BY <2>0, <3>2
      <4>2. flags[d] = saved[d][depth[d]]
        BY <4>1 DEF Mutex!FlagRestored, Mutex!At
      <4> QED BY <2>0, <3>2, <4>2
    <3> QED BY <3>1, <3>2
  <2> QED BY <2>1, <2>2, <2>3, <2>4
<1>11. ASSUME NEW c \in CPUs, Mutex!enable(c) \/ Mutex!disable(c), online' = online
       PROVE  IInv'
  <2> USE <1>11, <1>0, KernelAssumption DEF Mutex!IrqConstants, Mutex!enable, Mutex!disable, IInv, Mutex!Levels
  <2>0. /\ Mutex!At(c) = "out" /\ flags' \in [CPUs -> BOOLEAN] /\ UNCHANGED <<pc, saved, locked, depth>>
        /\ \A d \in CPUs : d # c => flags'[d] = flags[d]
    OBVIOUS
  <2>1. Mutex!TypeOK'
    BY <2>0 DEF Mutex!TypeOK
  <2>2. Mutex!OwnerNotInterrupted'
    BY <2>0 DEF Mutex!OwnerNotInterrupted, Mutex!At, Mutex!Masked
  <2>3. SuspendedContexts'
    BY <2>0 DEF SuspendedContexts
  <2>4. Mutex!FlagRestored'
    BY <2>0 DEF Mutex!FlagRestored, Mutex!At
  <2> QED BY <2>1, <2>2, <2>3, <2>4
<1> QED BY <1>1, <1>2, <1>3, <1>4, <1>5, <1>6, <1>7, <1>8, <1>9, <1>10, <1>11, <1>0 DEF Mutex!Next, Mutex!Use, Mutex!spin, Mutex!TypeOK

\* The invariant of the mutex needs no fairness.
LEMMA LockSafety == Mutex!Init /\ [][Mutex!Next]_(Mutex!vars) => []IInv
<1>1. Mutex!Init => IInv
  <2> SUFFICES ASSUME Mutex!Init PROVE IInv
    OBVIOUS
  <2> USE KernelAssumption DEF Mutex!IrqConstants, Mutex!Init, Mutex!Levels
  <2>1. Mutex!TypeOK
    <3>1. 0 \in Mutex!Levels /\ "out" \in Mutex!Places
      BY DEF Mutex!Places
    <3>2. depth \in [CPUs -> Mutex!Levels] /\ pc \in [CPUs -> [Mutex!Levels -> Mutex!Places]]
      BY <3>1
    <3>3. locked \in BOOLEAN /\ saved \in [CPUs -> [Mutex!Levels -> BOOLEAN]]
      BY Zenon
    <3> QED BY <3>2, <3>3 DEF Mutex!TypeOK
  <2>2. \A c \in CPUs, l \in Mutex!Levels : pc[c][l] = "out"
    OBVIOUS
  <2>3. Mutex!OwnerNotInterrupted
    BY <2>2 DEF Mutex!OwnerNotInterrupted, Mutex!Masked
  <2>4. SuspendedContexts
    BY <2>2 DEF SuspendedContexts
  <2>5. Mutex!FlagRestored
    BY <2>1, <2>2 DEF Mutex!FlagRestored, Mutex!At, Mutex!TypeOK
  <2> QED BY <2>1, <2>3, <2>4, <2>5 DEF IInv
<1> QED BY <1>1, Preserved, PTL

\* The inductive invariant holds of every reachable state.
THEOREM Invariance == Mutex!Spec => []IInv
BY LockSafety, PTL DEF Mutex!Spec

\* A context that waits for the mutex or owns it is never interrupted, on any
\* number of CPUs: IrqMutex cannot deadlock against the handlers of its CPU.
THEOREM NotInterrupted == Mutex!Spec => []OwnerNotInterrupted
BY Invariance, PTL DEF IInv, OwnerNotInterrupted

\* Dropping a guard gives back the interrupt flag of before, on any number of
\* CPUs, whatever handlers run between its two unlocks.
THEOREM FlagGivenBack == Mutex!Spec => []FlagRestored
BY Invariance, PTL DEF IInv, FlagRestored

\* Every variable holds a value the program could hold.
THEOREM TypeCorrect == Mutex!Spec => []Mutex!TypeOK
BY Invariance, PTL DEF IInv

LEMMA OneGuard == Mutex!Init /\ [][Mutex!Next]_(Mutex!vars) => []Mutex!MutualExclusion
<1>1. Mutex!Init => Mutex!MutualExclusion
  <2> SUFFICES ASSUME Mutex!Init PROVE Mutex!MutualExclusion
    OBVIOUS
  <2>1. Mutex!Owners = {}
    BY DEF Mutex!Init, Mutex!Owners
  <2> QED BY <2>1 DEF Mutex!Init, Mutex!MutualExclusion
<1>2. ASSUME IInv, Mutex!MutualExclusion, [Mutex!Next]_(Mutex!vars)
      PROVE  Mutex!MutualExclusion'
  <2> USE <1>2 DEF IInv
  <2>0. online \subseteq CPUs /\ UNCHANGED online
    BY DEF Mutex!TypeOK, Mutex!Next, Mutex!vars
  <2> SUFFICES ASSUME Mutex!OneOnline
               PROVE  (\A x, y \in Mutex!Owners' : x = y) /\ locked' = (Mutex!Owners' # {})
    BY <2>0 DEF Mutex!MutualExclusion, Mutex!OneOnline
  <2>1. ASSUME UNCHANGED <<pc, locked>>
        PROVE  (\A x, y \in Mutex!Owners' : x = y) /\ locked' = (Mutex!Owners' # {})
    BY <2>0, <2>1 DEF Mutex!MutualExclusion, Mutex!Owners
  <2>2. ASSUME NEW c \in CPUs, NEW l \in Mutex!Levels, pc[c][l] = "held"
        PROVE  l = depth[c]
    BY <2>2 DEF Mutex!OwnerNotInterrupted, Mutex!Masked
  <2>3. \A x \in Mutex!Owners : \E c \in online : x = <<c, depth[c]>> /\ Mutex!At(c) = "held"
    BY <2>0, <2>2 DEF Mutex!Owners, Mutex!At
  <2>4. ASSUME NEW c \in online, NEW place \in Mutex!Places, Mutex!Goto(c, place), UNCHANGED depth,
               IF place = "held" THEN locked' = TRUE
               ELSE IF Mutex!At(c) \in {"held", "again"} THEN locked' = FALSE
               ELSE UNCHANGED locked
        PROVE  (\A x, y \in Mutex!Owners' : x = y) /\ locked' = (Mutex!Owners' # {})
    <3>1. depth[c] \in Mutex!Levels /\ c \in CPUs
      BY <2>0 DEF Mutex!TypeOK
    <3>2. ASSUME NEW d \in online, NEW l \in Mutex!Levels, pc'[d][l] = "held"
          PROVE  d = c /\ l = depth[c] /\ place = "held"
      BY <3>1, <3>2, <2>2, <2>4, StepFacts DEF Mutex!OneOnline
    <3>3. CASE place = "held"
      <4>1. Mutex!Owners' = {<<c, depth[c]>>}
        BY <2>0, <3>1, <3>2, <3>3, <2>4, StepFacts DEF Mutex!Owners
      <4> QED BY <4>1, <3>3, <2>4 DEF Mutex!MutualExclusion
    <3>4. CASE place # "held"
      <4>1. Mutex!Owners' = {}
        BY <2>0, <3>2, <3>4 DEF Mutex!Owners
      <4>2. CASE Mutex!At(c) \in {"held", "again"}
        BY <4>1, <4>2, <3>4, <2>4 DEF Mutex!MutualExclusion
      <4>3. CASE Mutex!At(c) \notin {"held", "again"}
        <5>1. Mutex!Owners = {}
          BY <2>3, <4>3 DEF Mutex!OneOnline
        <5> QED BY <4>1, <4>3, <5>1, <3>4, <2>4 DEF Mutex!MutualExclusion
      <4> QED BY <4>2, <4>3
    <3> QED BY <3>3, <3>4
  <2>5. ASSUME NEW c \in online, Mutex!Use(c)
        PROVE  (\A x, y \in Mutex!Owners' : x = y) /\ locked' = (Mutex!Owners' # {})
    BY <2>5, <2>1, <2>4 DEF Mutex!Use, Mutex!spin, Mutex!vars, Mutex!lock, Mutex!acquire, Mutex!try_lock, Mutex!try_lock_fail, Mutex!drop, Mutex!drop_restore, Mutex!drop_field, Mutex!Places
  <2>6. ASSUME NEW c \in online, Mutex!interrupt(c) \/ Mutex!interrupt_return(c) \/ Mutex!enable(c) \/ Mutex!disable(c)
        PROVE  (\A x, y \in Mutex!Owners' : x = y) /\ locked' = (Mutex!Owners' # {})
    BY <2>6, <2>1 DEF Mutex!interrupt, Mutex!interrupt_return, Mutex!enable, Mutex!disable
  <2> QED BY <2>1, <2>5, <2>6 DEF Mutex!Next, Mutex!vars
<1> QED BY <1>1, <1>2, LockSafety, PTL

\* On one CPU the second unlock of a guard is harmless: at most one guard
\* exists at a time and the word of the inner mutex says whether one does.
THEOREM Exclusion == Mutex!Spec => []MutualExclusion
BY OneGuard, PTL DEF Mutex!Spec, MutualExclusion
-----------------------------------------------------------------------------
(*** The scheduler *********************************************************)

\* The queues hold the processes of their classes that are not out, each once.
SchedInv ==
  /\ queue \in [Sched!Classes -> Seq(Pids)] /\ out \in SUBSET Pids
  /\ \A k \in Sched!Classes :
       /\ \A i, j \in 1 .. Len(queue[k]) : queue[k][i] = queue[k][j] => i = j
       /\ \A i \in 1 .. Len(queue[k]) : Class[queue[k][i]] = k /\ queue[k][i] \notin out
  /\ \A p \in Pids : p \notin out => \E i \in 1 .. Len(queue[Class[p]]) : queue[Class[p]][i] = p
-----------------------------------------------------------------------------
\* What a set is laid out as: each member once.
LEMMA LaidOut ==
  ASSUME NEW S, IsFiniteSet(S)
  PROVE  LET s == Sched!SetToSeq(S)
         IN  /\ s \in Seq(S)
             /\ \A i, j \in 1 .. Len(s) : s[i] = s[j] => i = j
             /\ \A x \in S : \E i \in 1 .. Len(s) : s[i] = x
<1> DEFINE s == Sched!SetToSeq(S)
           n == Cardinality(S)
<1>1. n \in Nat /\ \E f \in [1 .. n -> S] : IsInjective(f)
  BY FS_CardinalityType DEF ExistsBijection, Bijection, Injection
<1>2. Sched!Cardinality(S) = n
  BY DEF Sched!Cardinality, Cardinality
<1>3. s = CHOOSE g \in [1 .. n -> S] : IsInjective(g)
  BY <1>2 DEF Sched!SetToSeq, Sched!IsInjective, IsInjective
<1> HIDE DEF s, n
<1>4. s \in [1 .. n -> S] /\ IsInjective(s)
  BY <1>1, <1>3
<1>5. s \in Surjection(1 .. n, S)
  <2>1. s \in Injection(1 .. n, S)
    BY <1>4 DEF Injection
  <2>2. Cardinality(1 .. n) = n
    BY <1>1, FS_Interval
  <2> QED BY <2>1, <2>2, FS_Injection DEF n
<1>6. s \in Seq(S) /\ Len(s) = n
  BY <1>1, <1>4
<1>7. \A i, j \in 1 .. n : s[i] = s[j] => i = j
  BY <1>4 DEF IsInjective
<1>8. \A x \in S : \E i \in 1 .. n : s[i] = x
  BY <1>5 DEF Surjection
<1> QED BY <1>6, <1>7, <1>8 DEF s

LEMMA SchedInit ==
  ASSUME Sched!SchedConstants, Sched!Init
  PROVE  SchedInv
<1> DEFINE OfClass(k) == {p \in Pids : Class[p] = k}
<1>1. ASSUME NEW k \in Sched!Classes
      PROVE  /\ queue[k] \in Seq(OfClass(k))
             /\ \A i, j \in 1 .. Len(queue[k]) : queue[k][i] = queue[k][j] => i = j
             /\ \A x \in OfClass(k) : \E i \in 1 .. Len(queue[k]) : queue[k][i] = x
  <2>1. IsFiniteSet(Pids)
    <3>1. Sched!IsFiniteSet(Pids)
      BY DEF Sched!SchedConstants
    <3> QED BY <3>1 DEF Sched!IsFiniteSet, IsFiniteSet
  <2>2. IsFiniteSet(OfClass(k))
    BY <2>1, FS_Subset
  <2>3. queue[k] = Sched!SetToSeq(OfClass(k))
    BY DEF Sched!Init
  <2> DEFINE s == Sched!SetToSeq(OfClass(k))
  <2> HIDE DEF OfClass
  <2>4. /\ s \in Seq(OfClass(k))
        /\ \A i, j \in 1 .. Len(s) : s[i] = s[j] => i = j
        /\ \A x \in OfClass(k) : \E i \in 1 .. Len(s) : s[i] = x
    BY <2>2, LaidOut
  <2> QED BY <2>3, <2>4
<1>2. ASSUME NEW k \in Sched!Classes
      PROVE  queue[k] \in Seq(Pids) /\ \A i \in 1 .. Len(queue[k]) : Class[queue[k][i]] = k
  <2>1. \A i \in 1 .. Len(queue[k]) : queue[k][i] \in OfClass(k)
    <3>1. queue[k] \in Seq(OfClass(k))
      BY <1>1
    <3> HIDE DEF OfClass
    <3> QED BY <3>1
  <2>2. queue[k] \in Seq(Pids)
    <3>1. queue[k] \in Seq(OfClass(k)) /\ OfClass(k) \subseteq Pids
      BY <1>1
    <3> HIDE DEF OfClass
    <3> QED BY <3>1
  <2> QED BY <2>1, <2>2
<1>3. queue \in [Sched!Classes -> Seq(Pids)] /\ out = {}
  BY <1>2 DEF Sched!Init
<1>4. \A p \in Pids : \E i \in 1 .. Len(queue[Class[p]]) : queue[Class[p]][i] = p
  BY <1>1 DEF Sched!SchedConstants
<1> QED BY <1>1, <1>2, <1>3, <1>4 DEF SchedInv

\* The front of a queue goes out.
LEMMA FrontOut ==
  ASSUME Sched!SchedConstants, SchedInv, NEW k \in Sched!Classes, queue[k] # <<>>,
         queue' = [queue EXCEPT ![k] = Tail(@)], out' = out \cup {Head(queue[k])}
  PROVE  SchedInv'
<1> DEFINE s == queue[k]
           h == Head(s)
           n == Len(s)
<1>1. /\ s \in Seq(Pids) /\ s # <<>> /\ queue'[k] = Tail(s)
      /\ \A l \in Sched!Classes : l # k => queue'[l] = queue[l]
      /\ \A i, j \in 1 .. n : s[i] = s[j] => i = j
      /\ \A i \in 1 .. n : Class[s[i]] = k /\ s[i] \notin out
  BY DEF SchedInv
<1>2. /\ n \in Nat /\ n >= 1 /\ h = s[1] /\ h \in Pids
      /\ Tail(s) \in Seq(Pids) /\ Len(Tail(s)) = n - 1 /\ \A i \in 1 .. n - 1 : Tail(s)[i] = s[i + 1]
  BY <1>1
<1>3. queue' \in [Sched!Classes -> Seq(Pids)] /\ out' \in SUBSET Pids
  BY <1>1, <1>2 DEF SchedInv
<1> DEFINE r == Tail(s)
<1> HIDE DEF n, h, s
<1>4. out' = out \cup {h} /\ queue'[k] = r
  BY <1>1 DEF h, s
<1> HIDE DEF r
<1>5. \A i, j \in 1 .. n - 1 : r[i] = r[j] => i = j
  <2> SUFFICES ASSUME NEW i \in 1 .. n - 1, NEW j \in 1 .. n - 1, r[i] = r[j] PROVE i = j
    OBVIOUS
  <2>1. i + 1 \in 1 .. n /\ j + 1 \in 1 .. n /\ s[i + 1] = s[j + 1]
    BY <1>2 DEF r
  <2>2. i + 1 = j + 1
    BY <2>1, <1>1
  <2> QED BY <2>2
<1>6. \A i \in 1 .. n - 1 : Class[r[i]] = k /\ r[i] \notin out'
  <2> SUFFICES ASSUME NEW i \in 1 .. n - 1 PROVE Class[r[i]] = k /\ r[i] \notin out'
    OBVIOUS
  <2>1. i + 1 \in 1 .. n /\ 1 \in 1 .. n /\ i + 1 # 1 /\ r[i] = s[i + 1]
    BY <1>2 DEF r
  <2> QED BY <2>1, <1>1, <1>2, <1>4
<1>7. Len(r) = n - 1 /\ Class[h] = k
  <2>1. 1 \in 1 .. n
    BY <1>2
  <2> QED BY <2>1, <1>1, <1>2 DEF r
<1>8. ASSUME NEW l \in Sched!Classes
      PROVE  /\ \A i, j \in 1 .. Len(queue'[l]) : queue'[l][i] = queue'[l][j] => i = j
             /\ \A i \in 1 .. Len(queue'[l]) : Class[queue'[l][i]] = l /\ queue'[l][i] \notin out'
  <2>1. CASE l = k
    BY <2>1, <1>4, <1>5, <1>6, <1>7
  <2>2. CASE l # k
    BY <2>2, <1>1, <1>4, <1>7 DEF SchedInv
  <2> QED BY <2>1, <2>2
<1>9. ASSUME NEW p \in Pids, p \notin out'
      PROVE  \E i \in 1 .. Len(queue'[Class[p]]) : queue'[Class[p]][i] = p
  <2>1. p \notin out /\ p # h /\ Class[p] \in Sched!Classes
    BY <1>4, <1>9 DEF Sched!SchedConstants
  <2>2. PICK i \in 1 .. Len(queue[Class[p]]) : queue[Class[p]][i] = p
    BY <2>1 DEF SchedInv
  <2>3. CASE Class[p] = k
    <3>1. i \in 1 .. n /\ s[i] = p
      BY <2>2, <2>3 DEF n, s
    <3>2. i - 1 \in 1 .. n - 1 /\ (i - 1) + 1 = i
      BY <3>1, <2>1, <1>2
    <3>3. r[i - 1] = p
      BY <3>1, <3>2, <1>2 DEF r
    <3> QED BY <2>3, <3>2, <3>3, <1>4, <1>7
  <2>4. CASE Class[p] # k
    BY <2>1, <2>2, <2>4, <1>1
  <2> QED BY <2>3, <2>4
<1> QED BY <1>3, <1>8, <1>9 DEF SchedInv

\* A process goes back to the end of its queue.
LEMMA BackIn ==
  ASSUME Sched!SchedConstants, SchedInv, NEW p \in Pids, Sched!yield(p)
  PROVE  SchedInv'
<1> DEFINE k == Class[p]
           s == queue[k]
           n == Len(s)
           r == Append(s, p)
<1>1. /\ k \in Sched!Classes /\ s \in Seq(Pids) /\ p \in out
      /\ out' = out \ {p} /\ queue' = [queue EXCEPT ![k] = r]
  BY DEF SchedInv, Sched!SchedConstants, Sched!yield
<1>2. /\ n \in Nat /\ r \in Seq(Pids) /\ Len(r) = n + 1 /\ r[n + 1] = p
      /\ \A i \in 1 .. n : r[i] = s[i]
  BY <1>1
<1>3. /\ queue' \in [Sched!Classes -> Seq(Pids)] /\ out' \in SUBSET Pids /\ queue'[k] = r
      /\ \A l \in Sched!Classes : l # k => queue'[l] = queue[l]
  BY <1>1, <1>2 DEF SchedInv
<1>4. /\ \A i, j \in 1 .. n : s[i] = s[j] => i = j
      /\ \A i \in 1 .. n : Class[s[i]] = k /\ s[i] \notin out /\ s[i] # p
  BY <1>1 DEF SchedInv
<1> HIDE DEF r, n, s, k
<1>5. \A i \in 1 .. n + 1 : i = n + 1 \/ i \in 1 .. n
  BY <1>2
<1>6. \A i, j \in 1 .. n + 1 : r[i] = r[j] => i = j
  BY <1>2, <1>4, <1>5
<1>7. \A i \in 1 .. n + 1 : Class[r[i]] = k /\ r[i] \notin out'
  BY <1>1, <1>2, <1>4, <1>5 DEF k
<1>8. ASSUME NEW l \in Sched!Classes
      PROVE  /\ \A i, j \in 1 .. Len(queue'[l]) : queue'[l][i] = queue'[l][j] => i = j
             /\ \A i \in 1 .. Len(queue'[l]) : Class[queue'[l][i]] = l /\ queue'[l][i] \notin out'
  <2>1. CASE l = k
    BY <2>1, <1>2, <1>3, <1>6, <1>7
  <2>2. CASE l # k
    <3>1. queue'[l] = queue[l] /\ \A x : x \notin out => x \notin out'
      BY <2>2, <1>1, <1>3
    <3>2. /\ \A i, j \in 1 .. Len(queue[l]) : queue[l][i] = queue[l][j] => i = j
          /\ \A i \in 1 .. Len(queue[l]) : Class[queue[l][i]] = l /\ queue[l][i] \notin out
      BY DEF SchedInv
    <3> HIDE DEF SchedInv
    <3> QED BY <3>1, <3>2
  <2> QED BY <2>1, <2>2
<1>9. ASSUME NEW q \in Pids, q \notin out'
      PROVE  \E i \in 1 .. Len(queue'[Class[q]]) : queue'[Class[q]][i] = q
  <2>1. CASE q = p
    <3>1. n + 1 \in 1 .. Len(queue'[k]) /\ queue'[k][n + 1] = p
      BY <1>2, <1>3
    <3> QED BY <2>1, <3>1 DEF k
  <2>2. CASE q # p
    <3>1. q \notin out /\ Class[q] \in Sched!Classes
      BY <1>1, <1>9, <2>2 DEF Sched!SchedConstants
    <3>2. PICK i \in 1 .. Len(queue[Class[q]]) : queue[Class[q]][i] = q
      BY <3>1 DEF SchedInv
    <3>3. CASE Class[q] = k
      <4>1. i \in 1 .. n /\ s[i] = q
        BY <3>2, <3>3 DEF n, s
      <4>2. i \in 1 .. n + 1 /\ r[i] = q
        BY <4>1, <1>2
      <4> QED BY <3>3, <4>2, <1>2, <1>3
    <3>4. CASE Class[q] # k
      BY <3>1, <3>2, <3>4, <1>3
    <3> QED BY <3>3, <3>4
  <2> QED BY <2>1, <2>2
<1> QED BY <1>3, <1>8, <1>9 DEF SchedInv

\* schedule takes from one of the queues, or from none.
LEMMA ScheduleKeeps ==
  ASSUME Sched!SchedConstants, SchedInv, Sched!schedule
  PROVE  SchedInv'
<1>1. ASSUME NEW k \in Sched!Classes, Sched!PopFront(k) PROVE SchedInv'
  <2>1. CASE queue[k] = <<>>
    <3>1. queue' = queue /\ out' = out
      BY <1>1, <2>1 DEF Sched!PopFront
    <3> QED BY <3>1 DEF SchedInv
  <2>2. CASE queue[k] # <<>>
    BY <1>1, <2>2, FrontOut DEF Sched!PopFront
  <2> QED BY <2>1, <2>2
<1>2. "realtime" \in Sched!Classes /\ \A n : Sched!Picked(n) \in Sched!Classes
  BY DEF Sched!Classes, Sched!Picked
<1> QED BY <1>1, <1>2 DEF Sched!schedule, Sched!schedule_realtime, Sched!schedule_share

LEMMA SchedInvariance ==
  Sched!SchedConstants => (Sched!Init /\ [][Sched!Next]_(Sched!vars) => []SchedInv)
<1> SUFFICES ASSUME Sched!SchedConstants PROVE Sched!Init /\ [][Sched!Next]_(Sched!vars) => []SchedInv
  OBVIOUS
<1>1. Sched!Init => SchedInv
  BY SchedInit
<1>2. SchedInv /\ [Sched!Next]_(Sched!vars) => SchedInv'
  <2> SUFFICES ASSUME SchedInv, [Sched!Next]_(Sched!vars) PROVE SchedInv'
    OBVIOUS
  <2>1. CASE Sched!schedule
    BY <2>1, ScheduleKeeps
  <2>2. ASSUME NEW p \in Pids, Sched!yield(p) PROVE SchedInv'
    BY <2>2, BackIn
  <2>3. CASE UNCHANGED Sched!vars
    <3>1. queue' = queue /\ out' = out
      BY <2>3 DEF Sched!vars
    <3> QED BY <3>1 DEF SchedInv
  <2> QED BY <2>1, <2>2, <2>3 DEF Sched!Next
<1> QED BY <1>1, <1>2, PTL

\* Where the invariant holds, every process is where it belongs, once.
LEMMA OnceEach == ASSUME Sched!SchedConstants, SchedInv PROVE EveryProcessOnce
<1> SUFFICES ASSUME NEW p \in Pids
             PROVE  /\ {k \in Sched!Classes : p \in Sched!Range(queue[k])}
                         = (IF p \in out THEN {} ELSE {Class[p]})
                    /\ Sched!IsInjective(queue[Class[p]])
  BY DEF EveryProcessOnce, Sched!EveryProcessOnce
<1>1. ASSUME NEW k \in Sched!Classes
      PROVE  p \in Sched!Range(queue[k]) <=> \E i \in 1 .. Len(queue[k]) : queue[k][i] = p
  <2>1. DOMAIN queue[k] = 1 .. Len(queue[k])
    BY DEF SchedInv
  <2> QED BY <2>1 DEF Sched!Range
<1>2. Class[p] \in Sched!Classes
  BY DEF Sched!SchedConstants
<1>3. Sched!IsInjective(queue[Class[p]])
  <2>1. DOMAIN queue[Class[p]] = 1 .. Len(queue[Class[p]])
    BY <1>2 DEF SchedInv
  <2> QED BY <2>1, <1>2 DEF SchedInv, Sched!IsInjective
<1>4. CASE p \in out
  <2>1. \A k \in Sched!Classes : p \notin Sched!Range(queue[k])
    BY <1>1, <1>4 DEF SchedInv
  <2> QED BY <1>3, <1>4, <2>1
<1>5. CASE p \notin out
  <2>1. p \in Sched!Range(queue[Class[p]])
    BY <1>1, <1>2, <1>5 DEF SchedInv
  <2>2. \A k \in Sched!Classes : p \in Sched!Range(queue[k]) => k = Class[p]
    BY <1>1 DEF SchedInv
  <2> QED BY <1>2, <1>3, <1>5, <2>1, <2>2
<1> QED BY <1>4, <1>5

\* schedule hands a process out once, loses none and keeps each in the queue of
\* its class, for any number of processes and whatever the counter wraps at.
THEOREM ProcessesKept == Sched!SchedConstants => (Sched!Spec => []EveryProcessOnce)
<1> SUFFICES ASSUME Sched!SchedConstants PROVE Sched!Spec => []EveryProcessOnce
  OBVIOUS
<1>1. SchedInv => EveryProcessOnce
  BY OnceEach
<1> QED BY <1>1, SchedInvariance, PTL DEF Sched!Spec
-----------------------------------------------------------------------------
(*** The composition *******************************************************)

\* The mutex and the scheduler are sound in the composition that the run checks.
THEOREM KernelSafe ==
  KernelSpec => [](MutualExclusion /\ FlagRestored /\ OwnerNotInterrupted /\ EveryProcessOnce)
<1>1. KernelInit => Mutex!Init /\ Sched!Init
  BY DEF KernelInit
<1>2. [KernelNext]_all => [Mutex!Next]_(Mutex!vars)
  BY DEF KernelNext, BootStep, BootEnded, LocksStep, MutexStep, SchedStep, BootPart, LocksPart, MutexPart, SchedPart, all, mutexVars, Mutex!vars
<1>3. [KernelNext]_all => [Sched!Next]_(Sched!vars)
  BY DEF KernelNext, BootStep, BootEnded, LocksStep, MutexStep, SchedStep, BootPart, LocksPart, MutexPart, SchedPart, all, schedVars, Sched!vars
<1>4. IInv => FlagRestored /\ OwnerNotInterrupted
  BY DEF IInv, FlagRestored, OwnerNotInterrupted
<1>5. SchedInv => EveryProcessOnce
  BY OnceEach, KernelAssumption
<1>6. Sched!Init /\ [][Sched!Next]_(Sched!vars) => []SchedInv
  BY SchedInvariance, KernelAssumption
<1>7. Mutex!MutualExclusion => MutualExclusion
  BY DEF MutualExclusion
<1> QED BY <1>1, <1>2, <1>3, <1>4, <1>5, <1>6, <1>7, LockSafety, OneGuard, PTL DEF KernelSpec
=============================================================================
