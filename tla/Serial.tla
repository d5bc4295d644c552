------------------------------- MODULE Serial -------------------------------
(***************************************************************************)
(* The serial ports: the PL011 (drivers/src/peripheral/arm/pl011.rs) and   *)
(* the 16550 (drivers/src/peripheral/x86/uart16550.rs) behind the traits   *)
(* of drivers/src/hal/serial.rs.  A driver polls the port's status and     *)
(* moves a byte at a time; the port sends what its FIFO holds and queues   *)
(* what arrives meanwhile.  The port belongs to one caller at a time.      *)
(*                                                                         *)
(* A loop that polls is one step, taken when the poll succeeds: only the   *)
(* driver fills the transmit FIFO and only it empties the other one.  But  *)
(* every read of the 16550's line status clears the error bits in it.      *)
(***************************************************************************)
EXTENDS Integers, Sequences, SequencesExt

CONSTANTS Texts,          \* what is written: sequences of bytes
          Configs,        \* arguments of configure: [eight_n1, baud_rate]
          FifoDepth,      \* bytes a FIFO holds; one when it is switched off
          PL011_CLOCK_HZ, \* both clocks are small here, as are the rates
          UART_CLOCK_HZ,
          DivMax,         \* the largest divisor the registers hold
          U32,            \* what 16 * baud is computed modulo
          MaxOut, MaxIn   \* bounds on the bytes sent and received

SerialConstants ==
  /\ FifoDepth \in Nat \ {0} /\ MaxOut \in Nat /\ MaxIn \in Nat
  /\ PL011_CLOCK_HZ \in Nat /\ UART_CLOCK_HZ \in Nat /\ DivMax \in Nat /\ U32 \in Nat \ {0}
  /\ \A c \in Configs : c.baud_rate \in Nat

VARIABLES chip,      \* "pl011" or "16550"
          on,        \* CR_UARTEN; a 16550 is always on
          fifos,     \* LCRH_FEN, FCR_ENABLE
          divisor,   \* as programmed: [rate, div], or none
          tx, shift, \* the transmit FIFO and the byte on its way out
          rx,        \* the receive FIFO: [byte, damaged, flagged]
          overrun,   \* LSR_OE
          comCall,   \* the call under way
          told,      \* history: who saw the error bits of the byte next in line: a
                     \* reader, who got an error, a writer's poll, or nobody
          given, wire,   \* history: the bytes written by the driver, and sent
          arrived,       \* history: how many bytes came in: they are numbered
          returned,      \* history: those that calls gave out: [byte, damage]
          lost           \* history: those that nobody will get

port == <<on, fifos, divisor>>
sending == <<tx, shift, given, wire>>
receiving == <<rx, overrun, told, arrived, returned, lost>>
comVars == <<chip, port, sending, receiving, comCall>>

Idle == [op |-> "none"]
NoDivisor == [rate |-> 0, div |-> 0]
Depth == IF fifos THEN FifoDepth ELSE 1

\* A PL011 is as the firmware left it: no caller configures a port at boot.
Init == /\ chip \in {"pl011", "16550"}
        /\ on \in IF chip = "pl011" THEN BOOLEAN ELSE {TRUE}
        /\ fifos \in BOOLEAN /\ divisor = NoDivisor
        /\ tx = << >> /\ shift = << >> /\ given = << >> /\ wire = << >>
        /\ rx = << >> /\ overrun = FALSE /\ told = "nobody"
        /\ arrived = 0 /\ returned = << >> /\ lost = {}
        /\ comCall = Idle

(*** Status ****************************************************************)

\* FR_TXFF is clear, LSR_THRE is set; FR_BUSY is clear, LSR_TEMT is set.
TxRoom == IF chip = "pl011" THEN Len(tx) < Depth ELSE tx = << >>
TxIdle == tx = << >> /\ shift = << >>

\* What a writer's poll does to the receiver.
LsrRead == IF chip = "pl011" THEN UNCHANGED receiving
           ELSE /\ overrun' = FALSE
                /\ rx' = [i \in DOMAIN rx |-> IF i = 1 THEN [rx[i] EXCEPT !.flagged = FALSE] ELSE rx[i]]
                /\ told' = IF rx # << >> /\ Head(rx).flagged THEN "writer" ELSE told
                /\ UNCHANGED <<arrived, returned, lost>>

Numbers(bytes) == {bytes[i].byte : i \in DOMAIN bytes}

\* The receive FIFO is emptied.
RxCleared == /\ rx' = << >> /\ told' = "nobody"
             /\ lost' = lost \cup Numbers(rx)
             /\ UNCHANGED <<arrived, returned>>

Return == comCall' = Idle

(*** configure *************************************************************)

\* calculate_divisors in 64ths, computed with 64 bits.
Pl011Divisor(rate) ==
  LET d == IF rate = 0 THEN 0 ELSE (PL011_CLOCK_HZ * 64) \div (16 * rate)
  IN  IF d \div 64 = 0 \/ d \div 64 > DivMax THEN NoDivisor ELSE [rate |-> rate, div |-> d]

\* set_baud, with 32 bits: 16 * baud may run over, to zero or to a small rate.
UartDivisor(rate) ==
  LET d == IF rate = 0 THEN 0 ELSE UART_CLOCK_HZ \div ((16 * rate) % U32)
  IN  IF d = 0 \/ d > DivMax THEN NoDivisor ELSE [rate |-> rate, div |-> d]
Panics(rate) == rate # 0 /\ (16 * rate) % U32 = 0

\* The PL011 is disabled before it is waited for, and stays disabled if the
\* rate turns out to be unsupported.
configure_pl011(c) ==
  /\ chip = "pl011" /\ comCall = Idle /\ c.eight_n1
  /\ comCall' = [op |-> "configure", rate |-> c.baud_rate]
  /\ on' = FALSE
  /\ UNCHANGED <<chip, fifos, divisor, sending, receiving>>
NotEnabled(d) == /\ divisor' = d /\ fifos' = TRUE /\ on' = FALSE
Enabled(d) == /\ divisor' = d /\ fifos' = TRUE /\ on' = TRUE
configure_idle ==
  LET d == Pl011Divisor(comCall.rate)
  IN  /\ comCall.op = "configure" /\ TxIdle
      /\ IF d = NoDivisor THEN fifos' = FALSE /\ UNCHANGED <<on, divisor>> ELSE Enabled(d)
      /\ RxCleared /\ Return
      /\ UNCHANGED <<chip, sending, overrun>>

\* FCR clears both FIFOs; the byte on its way out still goes.
configure_16550(c) ==
  LET d == UartDivisor(c.baud_rate)
  IN  /\ chip = "16550" /\ comCall = Idle /\ c.eight_n1
      /\ IF Panics(c.baud_rate)
         THEN comCall' = [op |-> "panic"] /\ UNCHANGED <<port, sending, receiving>>
         ELSE IF d = NoDivisor THEN UNCHANGED <<port, sending, receiving, comCall>>
         ELSE /\ Enabled(d)
              /\ tx' = << >> /\ given' = wire \o shift
              /\ RxCleared
              /\ UNCHANGED <<shift, wire, overrun, comCall>>
      /\ UNCHANGED chip

(*** Writing ***************************************************************)

\* write and try_write take the bytes as they are, write_str puts a carriage
\* return before every line feed.
Converted(text) == FlattenSeq([i \in DOMAIN text |-> IF text[i] = "\n" THEN << "\r", "\n" >> ELSE << text[i] >>])
write(op, text) ==
  /\ comCall = Idle /\ op \in {"write", "try_write", "write_str"}
  /\ Len(given) + 2 * Len(text) <= MaxOut
  /\ comCall' = [op |-> op, rest |-> IF op = "write_str" THEN Converted(text) ELSE text]
  /\ UNCHANGED <<chip, port, sending, receiving>>

Writing == comCall.op \in {"write", "try_write", "write_str"}
\* A full port drops what is written to it.
write_byte == /\ Writing /\ comCall.rest # << >> /\ TxRoom
              /\ given' = Append(given, Head(comCall.rest))
              /\ tx' = IF Len(tx) < Depth THEN Append(tx, Head(comCall.rest)) ELSE tx
              /\ comCall' = [comCall EXCEPT !.rest = Tail(@)]
              /\ LsrRead
              /\ UNCHANGED <<chip, port, shift, wire>>
write_done == /\ Writing /\ comCall.rest = << >>
              /\ Return
              /\ UNCHANGED <<chip, port, sending, receiving>>
\* The poll that fails; try_write then gives up, whatever it has sent.
poll_tx == /\ \/ Writing /\ comCall.rest # << >> /\ ~ TxRoom
              \/ comCall.op \in {"configure", "flush"} /\ ~ TxIdle
           /\ comCall' = IF comCall.op = "try_write" THEN Idle ELSE comCall
           /\ LsrRead
           /\ UNCHANGED <<chip, port, sending>>

flush == /\ comCall = Idle
         /\ comCall' = [op |-> "flush"]
         /\ UNCHANGED <<chip, port, sending, receiving>>
flush_done == /\ comCall.op = "flush" /\ TxIdle
              /\ Return /\ LsrRead
              /\ UNCHANGED <<chip, port, sending>>

(*** Reading ***************************************************************)

\* buf is filled a byte at a time; the caller may use it when the call is Ok.
read(op, n) == /\ comCall = Idle /\ op \in {"read", "try_read"}
               /\ comCall' = [op |-> op, left |-> n, at |-> "poll", buf |-> << >>]
               /\ UNCHANGED <<chip, port, sending, receiving>>
Reading == comCall.op \in {"read", "try_read"}
Polling == Reading /\ comCall.left > 0 /\ comCall.at = "poll"
Buf == IF Reading THEN comCall.buf ELSE << >>

\* What was known of the damage to byte h when it was taken: whether its error
\* bits were still set, and if not who saw them.
Damage(h) == IF ~ h.damaged THEN "none" ELSE IF h.flagged THEN "unseen" ELSE told
Taken == /\ rx' = Tail(rx) /\ told' = "nobody"
         /\ comCall' = [comCall EXCEPT !.left = @ - 1, !.at = "poll",
                           !.buf = Append(@, [byte |-> Head(rx).byte, damage |-> Damage(Head(rx))])]
         /\ UNCHANGED <<chip, port, sending, overrun, arrived, returned, lost>>
\* The PL011 driver looks at no error bits.
read_pl011 == chip = "pl011" /\ Polling /\ rx # << >> /\ Taken

\* Wrong: only overruns are errors.
check_overrun(h) == overrun

\* The 16550's errors are answered, the byte stays where it is.  What the call
\* had read before goes with it.
check_errors(h) == overrun \/ h.flagged
ReadFails == comCall' = Idle /\ lost' = lost \cup Numbers(Buf)
poll_16550 ==
  LET h == Head(rx)
  IN  /\ chip = "16550" /\ Polling /\ rx # << >>
      /\ overrun' = FALSE
      /\ rx' = << [h EXCEPT !.flagged = FALSE] >> \o Tail(rx)
      /\ IF check_errors(h)
         THEN ReadFails /\ told' = IF h.flagged THEN "reader" ELSE told
         ELSE comCall' = [comCall EXCEPT !.at = "rbr"] /\ UNCHANGED <<told, lost>>
      /\ UNCHANGED <<chip, port, sending, arrived, returned>>
AtRbr == Reading /\ comCall.at = "rbr"
read_rbr == AtRbr /\ Taken

\* The poll that finds nothing; try_read then gives up.
poll_rx == /\ Polling /\ rx = << >>
           /\ overrun' = (overrun /\ chip = "pl011")
           /\ IF comCall.op = "try_read" THEN ReadFails ELSE UNCHANGED <<comCall, lost>>
           /\ UNCHANGED <<chip, port, sending, rx, told, arrived, returned>>
read_done == /\ Reading /\ comCall.left = 0
             /\ returned' = returned \o Buf
             /\ Return
             /\ UNCHANGED <<chip, port, sending, rx, overrun, told, arrived, lost>>

(*** The port **************************************************************)

\* A disabled port finishes the byte it has begun and begins no other.
send == /\ on /\ tx # << >> /\ shift = << >>
        /\ shift' = << Head(tx) >> /\ tx' = Tail(tx)
        /\ UNCHANGED <<chip, port, receiving, comCall, given, wire>>
sent == /\ shift # << >>
        /\ wire' = wire \o shift /\ shift' = << >>
        /\ UNCHANGED <<chip, port, receiving, comCall, given, tx>>

\* A byte that finds no room is lost; on a 16550 without FIFOs it takes the
\* place of the byte that waits, also of one whose status was just read.
arrive(damaged) ==
  LET new == [byte |-> arrived + 1, damaged |-> damaged, flagged |-> damaged]
  IN  /\ on /\ arrived < MaxIn
      /\ arrived' = arrived + 1
      /\ IF Len(rx) < Depth
         THEN rx' = Append(rx, new) /\ UNCHANGED <<overrun, told, lost>>
         ELSE /\ overrun' = TRUE
              /\ IF chip = "16550" /\ ~ fifos
                 THEN rx' = << new >> /\ told' = "nobody" /\ lost' = lost \cup Numbers(rx)
                 ELSE lost' = lost \cup {new.byte} /\ UNCHANGED <<rx, told>>
      /\ UNCHANGED <<chip, port, sending, comCall, returned>>

Driver == \/ configure_idle \/ write_byte \/ write_done \/ flush_done
          \/ read_pl011 \/ poll_16550 \/ read_rbr \/ read_done
          \/ poll_tx \/ poll_rx

Next == \/ \E c \in Configs : configure_pl011(c) \/ configure_16550(c)
        \/ \E t \in Texts, op \in {"write", "try_write", "write_str"} : write(op, t)
        \/ flush \/ \E n \in 1 .. 2, op \in {"read", "try_read"} : read(op, n)
        \/ Driver
        \/ send \/ sent \/ \E d \in BOOLEAN : arrive(d)

\* The caller is not stopped for ever, and a port that is on keeps sending.
Fairness == WF_comVars(Driver) /\ WF_comVars(send) /\ WF_comVars(sent)
Spec == Init /\ [][Next]_comVars /\ Fairness

(*** Properties ************************************************************)

\* The line carries the bytes that were written, in order and none twice or
\* dropped, whichever calls wrote them and however full the port was, save what
\* configure of a 16550 throws away.  The bytes that came in are given out in
\* order and each once, by calls that end well; missing are those that found no
\* room, that configure threw away, or that a call had read before it failed.
BytesInOrder ==
  LET received == returned \o Buf \o rx
  IN  /\ wire \o shift \o tx = given
      /\ \A i, j \in DOMAIN received : i < j => received[i].byte < received[j].byte
      /\ Numbers(received) = (1 .. arrived) \ lost

\* A 16550 gives out a damaged byte only after a reader got an error while the
\* byte was next in line, although the byte stays and its error bits do not.
\* There are two exceptions, in which nobody gets an error: a write or a flush
\* read the line status first, which clears the bits; and, without FIFOs, the
\* byte took the place of one whose status was read but not its data.
DamageReported ==
  chip = "16550" => /\ \A i \in DOMAIN returned : returned[i].damage # "nobody"
                    /\ AtRbr /\ Head(rx).flagged => ~ fifos

\* A divisor that was programmed is the one nearest from below to the rate asked
\* for, except where 16 * baud ran over in the 16550 driver.
SpeedRight ==
  divisor # NoDivisor =>
    LET clock == IF chip = "pl011" THEN 64 * PL011_CLOCK_HZ ELSE UART_CLOCK_HZ
        step == 16 * divisor.rate
    IN  \/ divisor.div * step <= clock /\ clock < (divisor.div + 1) * step
        \/ chip = "16550" /\ step >= U32

\* What a serial port promises to those who read and write it.
SerialSound == BytesInOrder /\ DamageReported /\ SpeedRight

\* Every call that does not wait for input returns: a write and a flush of a
\* port that is on, and a configure that finds the transmit FIFO empty (bytes
\* in it keep a PL011 busy for ever once it is off), which turns the port on if
\* it can have the rate.
SerialReturns ==
  /\ \/ comCall.op \in {"write", "write_str", "flush"} /\ on
     \/ comCall.op \in {"try_write", "try_read"}
     \/ comCall.op = "configure" /\ tx = << >>
     ~> comCall = Idle
  /\ comCall.op = "configure" /\ tx = << >> /\ Pl011Divisor(comCall.rate) # NoDivisor
     ~> comCall = Idle /\ on
=============================================================================
