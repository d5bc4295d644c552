------------------------------ MODULE Scheduler ------------------------------
(***************************************************************************)
(* SchedulerInner::schedule (kernel/src/process/sched/scheduler.rs): four  *)
(* ready queues, one of them always first, the others taken in turns given *)
(* by a counter.  The kernel has no code yet that fills the queues; here a *)
(* process goes back to the queue of its class when its turn is over, or   *)
(* ends, as its users must do.                                             *)
(***************************************************************************)
EXTENDS Integers, SequencesExt

CONSTANTS Pids,
          Class,    \* the queue each process belongs to
          CycleMod  \* number of values of schedule_cycle (2^32 on both targets)

Classes == {"realtime", "high", "mid", "low"}

SchedConstants == /\ Class \in [Pids -> Classes] /\ IsFiniteSet(Pids) /\ "none" \notin Pids
                  /\ CycleMod \in Nat \ {0}

VARIABLES queue,           \* realtime_queue, high_queue, mid_queue, low_queue
          schedule_cycle,
          out,             \* the processes schedule has handed out
          answer,          \* what the last call returned
          turns            \* history: how many turns of a period each queue was given

vars == <<queue, schedule_cycle, out, answer, turns>>

HIGH_QUANTA == 3
MID_QUANTA == 2
LOW_QUANTA == 1
Period == HIGH_QUANTA + MID_QUANTA + LOW_QUANTA
Shared == {"high", "mid", "low"}
NoTurns == [k \in Shared |-> 0]

\* No process, as answer.
NoProcess == "none"

\* Every process is ready, in some order.
Init == /\ queue = [k \in Classes |-> SetToSeq({p \in Pids : Class[p] = k})]
        /\ schedule_cycle = 0
        /\ out = {} /\ answer = NoProcess /\ turns = NoTurns

\* The queue whose turn it is; MID_QUANTA is compared with step itself, so the
\* turn of the mid queue never comes.
Picked(step) == IF step < HIGH_QUANTA THEN "high"
                ELSE IF step < MID_QUANTA THEN "mid"
                ELSE "low"

\* Wrong: the front is read and left in the queue.
PeekFront(k) == IF queue[k] = <<>>
                  THEN answer' = NoProcess /\ UNCHANGED <<queue, out>>
                  ELSE /\ answer' = Head(queue[k])
                       /\ out' = out \cup {Head(queue[k])}
                       /\ UNCHANGED queue

PopFront(k) == IF queue[k] = <<>>
                 THEN answer' = NoProcess /\ UNCHANGED <<queue, out>>
                 ELSE /\ answer' = Head(queue[k])
                      /\ out' = out \cup {Head(queue[k])}
                      /\ queue' = [queue EXCEPT ![k] = Tail(@)]

schedule_realtime == /\ queue["realtime"] # <<>>
                     /\ PopFront("realtime")
                     /\ UNCHANGED <<schedule_cycle, turns>>

\* fallback answers None: an empty queue wastes its turn.
schedule_share ==
  LET k == Picked(schedule_cycle % Period)
      begun == IF schedule_cycle % Period = 0 THEN NoTurns ELSE turns
  IN  /\ queue["realtime"] = <<>>
      /\ PopFront(k)
      /\ schedule_cycle' = (schedule_cycle + 1) % CycleMod
      /\ turns' = [begun EXCEPT ![k] = @ + 1]

schedule == schedule_realtime \/ schedule_share

\* The turn of a process is over (external).
yield(p) == /\ p \in out
            /\ out' = out \ {p}
            /\ queue' = [queue EXCEPT ![Class[p]] = Append(@, p)]
            /\ UNCHANGED <<schedule_cycle, answer, turns>>

Next == schedule \/ \E p \in Pids : yield(p)

\* Nothing calls schedule at this commit: no fairness.
Spec == Init /\ [][Next]_vars
-----------------------------------------------------------------------------
\* A process is handed out once, and is then in no queue, until it comes back;
\* it is never lost, and never leaves the queue of its class.
EveryProcessOnce ==
  \A p \in Pids :
    LET inQueues == {k \in Classes : p \in Range(queue[k])}
    IN  /\ inQueues = IF p \in out THEN {} ELSE {Class[p]}
        /\ IsInjective(queue[Class[p]])

\* "Fair-share queues: Use 3:2:1 ratio" (scheduler.rs:17): of the turns of a
\* whole period the high queue is given three, mid two and low one.
FairShare ==
  schedule_cycle % Period = 0 /\ schedule_cycle # 0 =>
    turns = [k \in Shared |-> CASE k = "high" -> HIGH_QUANTA [] k = "mid" -> MID_QUANTA [] k = "low" -> LOW_QUANTA]
=============================================================================
