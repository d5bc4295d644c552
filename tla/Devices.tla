------------------------------ MODULE Devices ------------------------------
(***************************************************************************)
(* The drivers with a device of their own: the SD card, the timers and the *)
(* serial ports.  They share nothing, so a behaviour is about one of them, *)
(* and part says which.                                                    *)
(***************************************************************************)
EXTENDS Emmc

CONSTANTS \* the clocks and alarms (Timers)
          Word, Reload, PitMax, Million, PIT_FREQUENCY_HZ, Delays, Intervals, MaxLag, MaxTime,
          \* the serial ports (Serial)
          Texts, Configs, FifoDepth, PL011_CLOCK_HZ, UART_CLOCK_HZ, DivMax, U32, MaxOut, MaxIn

VARIABLES part,
          device, time, lag, read, delay, compare, pending, arm, alarm,
          chip, on, fifos, divisor, tx, shift, rx, lsrOverrun, comCall, told,
          given, wire, arrived, returned, lost

Timer == INSTANCE Timers
timerVars == <<device, time, lag, read, delay, compare, pending, arm, alarm>>

Com == INSTANCE Serial WITH overrun <- lsrOverrun
comVars == <<chip, on, fifos, divisor, tx, shift, rx, lsrOverrun, comCall, told,
             given, wire, arrived, returned, lost>>
all == <<part, vars, timerVars, comVars>>

ASSUME DevicesAssumption == Timer!TimerConstants /\ Com!SerialConstants

DevicesInit == /\ part \in {"emmc", "timer", "serial"}
               /\ Init /\ (part = "emmc" \/ slot = None)
               /\ Timer!Init /\ (part = "timer" \/ device = "pit")
               /\ Com!Init /\ (part = "serial" \/ (chip = "16550" /\ fifos))
EmmcPart(A) == part = "emmc" /\ A /\ UNCHANGED <<part, timerVars, comVars>>
TimerPart(A) == part = "timer" /\ A /\ UNCHANGED <<part, vars, comVars>>
SerialPart(A) == part = "serial" /\ A /\ UNCHANGED <<part, vars, timerVars>>

EmmcStep == EmmcPart(Next)
TimerStep == TimerPart(Timer!Next)
SerialStep == SerialPart(Com!Next)

DevicesSpec ==
  /\ DevicesInit /\ [][EmmcStep \/ TimerStep \/ SerialStep]_all
  /\ WF_all(EmmcPart(DriverStep))
  /\ WF_all(SerialPart(Com!Driver)) /\ WF_all(SerialPart(Com!send)) /\ WF_all(SerialPart(Com!sent))
-----------------------------------------------------------------------------
\* Readings of the clock, delays and alarms are right (timer.rs, i8254_pit.rs).
TimersRight == Timer!TimersRight

\* Bytes keep their order, damage is reported, rates are right (pl011.rs, uart16550.rs).
SerialSound == Com!SerialSound

\* Calls of a serial port that do not wait for input return.
SerialReturns == Com!SerialReturns
=============================================================================
