------------------------------- MODULE Timers -------------------------------
(***************************************************************************)
(* The clocks and alarms: the system timer of the BCM2835                  *)
(* (drivers/src/peripheral/bcm2835/timer.rs), a 64-bit counter read in two *)
(* halves and compare registers that match its low half; the i8254 PIT     *)
(* (drivers/src/peripheral/x86/i8254_pit.rs), a count that runs down and   *)
(* is reloaded; and delay_us of drivers/src/hal/timer.rs over either.      *)
(* Time passes between any two accesses of a register, MaxLag ticks at     *)
(* most.  Delays and alarms share nothing but the time: a behaviour is     *)
(* about one device, the counter, the PIT or a compare register.           *)
(***************************************************************************)
EXTENDS Integers

CONSTANTS Word,       \* 2^32: what the low half of the counter holds
          Reload,     \* the PIT's count runs from here to 1
          PitMax,     \* 65535
          Million, PIT_FREQUENCY_HZ,  \* PIT ticks in so many microseconds
          Delays,     \* arguments of delay_us
          Intervals,  \* arguments of start_timer
          MaxLag,     \* ticks between two accesses of one reader
          MaxTime     \* bound on the time

TimerConstants ==
  /\ Word \in Nat \ {0} /\ Reload \in Nat \ {0} /\ PitMax \in Nat /\ Reload <= PitMax
  /\ Million \in Nat \ {0} /\ PIT_FREQUENCY_HZ \in Nat \ {0}
  /\ Delays \subseteq Nat /\ Intervals \subseteq Nat /\ MaxLag \in Nat /\ MaxTime \in Nat

VARIABLES device,   \* "counter", "pit" or "compare"
          time,     \* the true time in ticks: microseconds, the BCM2835's
                    \* 64-bit counter, or a little less each on a PIT
          lag,      \* ticks since the reader's last access
          read,     \* now_us under way: the registers read so far
          delay,    \* delay_us under way
          compare,  \* the channel's compare register
          pending,  \* its bit in CS
          arm,      \* start_timer under way
          alarm     \* history: the match the last start_timer waits for

timerVars == <<device, time, lag, read, delay, compare, pending, arm, alarm>>

Lo(t) == t % Word
Hi(t) == t \div Word
Count(t) == Reload - (t % Reload)

NoRead == [at |-> "none"]
NoDelay == [at |-> "none"]
NoArm == [at |-> "none"]
NoAlarm == [due |-> -1, missed |-> FALSE]

Init == /\ device \in {"counter", "pit", "compare"}
        /\ time = 0 /\ lag = 0
        /\ read = NoRead /\ delay = NoDelay
        /\ compare = Word - 1 /\ pending = FALSE
        /\ arm = NoArm /\ alarm = NoAlarm

\* A tick; the compare register matches the low half of the counter.
tick == /\ time < MaxTime /\ lag < MaxLag
        /\ time' = time + 1
        /\ lag' = IF delay = NoDelay THEN 0 ELSE lag + 1
        /\ pending' = (pending \/ Lo(time + 1) = compare)
        /\ UNCHANGED <<device, read, delay, compare, arm, alarm>>

(*** now_us and delay_us ***************************************************)

delay_us(us) == /\ device # "compare" /\ delay = NoDelay
                /\ delay' = [at |-> "start", us |-> us, began |-> time, start |-> 0]
                /\ read' = [at |-> "first", began |-> time]
                /\ lag' = 0
                /\ UNCHANGED <<device, time, compare, pending, arm, alarm>>

Step(r) == /\ read' = r /\ lag' = 0
           /\ UNCHANGED <<device, time, delay, compare, pending, arm, alarm>>
Value(r, v) == [at |-> "value", began |-> r.began, v |-> v]

\* read_counter: high, low, high; and low again when the high half changed
\* (ReadOnce takes the halves as they were read first).
read_hi1 == device = "counter" /\ read.at = "first" /\ Step([at |-> "lo", began |-> read.began, hi |-> Hi(time)])
read_lo == read.at = "lo" /\ Step([at |-> "hi2", began |-> read.began, hi |-> read.hi, lo |-> Lo(time)])
ReadOnce(r) == Step(Value(r, r.hi * Word + r.lo))
Compared(r) == IF Hi(time) = r.hi THEN Step(Value(r, r.hi * Word + r.lo))
               ELSE Step([at |-> "lo2", began |-> r.began, hi |-> Hi(time)])
read_hi2 == read.at = "hi2" /\ Compared(read)
read_lo2 == read.at = "lo2" /\ Step(Value(read, read.hi * Word + Lo(time)))

\* I8254PIT::now_us: a latched count, converted; elapsed_us is always 0.
Microseconds(ticks) == (ticks * Million) \div PIT_FREQUENCY_HZ
read_count == /\ device = "pit" /\ read.at = "first"
              /\ Step(Value(read, Microseconds(PitMax - Count(time))))

\* The first value starts the delay, each later one is compared with it, as an
\* unsigned difference; a smaller one makes it huge.
ReadAgain == read' = [at |-> "first", began |-> time]
delay_start == /\ read.at = "value" /\ delay.at = "start"
               /\ delay' = [delay EXCEPT !.at = "wait", !.start = read.v]
               /\ ReadAgain /\ lag' = 0
               /\ UNCHANGED <<device, time, compare, pending, arm, alarm>>
Over(d, v) == v < d.start \/ v - d.start >= d.us
delay_wait == /\ read.at = "value" /\ delay.at = "wait"
              /\ IF Over(delay, read.v)
                 THEN delay' = [delay EXCEPT !.at = "done"] /\ read' = NoRead
                 ELSE ReadAgain /\ UNCHANGED delay
              /\ lag' = 0
              /\ UNCHANGED <<device, time, compare, pending, arm, alarm>>
delay_return == /\ delay.at = "done"
                /\ delay' = NoDelay /\ lag' = 0
                /\ UNCHANGED <<device, time, read, compare, pending, arm, alarm>>

(*** Alarms ****************************************************************)

\* start_timer: read CLO, clear the match, write the compare register.
start_timer(us) == /\ device = "compare" /\ arm = NoArm
                   /\ arm' = [at |-> "clear", us |-> us, clo |-> time]
                   /\ UNCHANGED <<device, time, lag, read, delay, compare, pending, alarm>>
start_clear == /\ arm.at = "clear"
               /\ pending' = FALSE
               /\ arm' = [arm EXCEPT !.at = "compare"]
               /\ alarm' = NoAlarm
               /\ UNCHANGED <<device, time, lag, read, delay, compare>>
CompareValue(a) == (Lo(a.clo) + a.us) % Word
start_compare == /\ arm.at = "compare"
                 /\ compare' = CompareValue(arm)
                 /\ alarm' = [due |-> arm.clo + arm.us, missed |-> time >= arm.clo + arm.us]
                 /\ arm' = NoArm
                 /\ UNCHANGED <<device, time, lag, read, delay, pending>>

\* clear_interrupt, and stop, which does no more.
clear_interrupt == /\ arm = NoArm /\ pending
                   /\ pending' = FALSE
                   /\ alarm' = IF time >= alarm.due THEN NoAlarm ELSE alarm
                   /\ UNCHANGED <<device, time, lag, read, delay, compare, arm>>

Reader == \/ read_hi1 \/ read_lo \/ read_hi2 \/ read_lo2 \/ read_count
          \/ delay_start \/ delay_wait \/ delay_return

Next == \/ tick
        \/ \E us \in Delays : delay_us(us)
        \/ Reader
        \/ \E us \in Intervals : start_timer(us)
        \/ start_clear \/ start_compare \/ clear_interrupt

Spec == Init /\ [][Next]_timerVars

(*** Properties ************************************************************)

\* A reading of the 64-bit counter is a time between the start of the reading
\* and its end, although the halves are read apart and the low half may run
\* over in between; and a delay lasts as long as asked for, on a PIT less the
\* fraction of a microsecond that the conversion cuts off, and except on a PIT
\* whose count was reloaded meanwhile.
ClockRight ==
  /\ device = "counter" /\ read.at = "value" => read.v \in read.began .. time
  /\ delay.at = "done" =>
       \/ device = "counter" /\ time - delay.began >= delay.us
       \/ device = "pit" /\ (time - delay.began) * Million > (delay.us - 1) * PIT_FREQUENCY_HZ
       \/ device = "pit" /\ time \div Reload > delay.began \div Reload

\* An alarm is pending from the moment it is due, even if the low half of the
\* counter runs over before; unless that moment had passed when the compare
\* register was written.
AlarmOnTime == arm = NoArm /\ alarm # NoAlarm /\ time >= alarm.due => pending \/ alarm.missed

\* What a clock and an alarm promise.
TimersRight == ClockRight /\ AlarmOnTime
=============================================================================
