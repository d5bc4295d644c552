-------------------------------- MODULE Emmc --------------------------------
(***************************************************************************)
(* The SD card driver (drivers/src/peripheral/bcm2835/emmc.rs) with its    *)
(* controller and a slot whose card may be pulled and replaced at any      *)
(* time.  init finds out what the card is and brings it to its transfer    *)
(* state; read_blocks and write_blocks move one block after the other.     *)
(*                                                                         *)
(* The driver is a program of steps that is worked off from its head; the  *)
(* code's waits all have a limit, so a wait may be given up at any time    *)
(* (the model does not count the polls).  The controller and the card are  *)
(* external; each command may be answered, fail or never be answered.      *)
(***************************************************************************)
EXTENDS Integers, FiniteSets, Sequences

CONSTANTS None,
          Cards,         \* cards: records of id, family and addressing
          BLOCK_SIZE,    \* bytes of a block
          BlockCount,    \* blocks of every card
          MaxRetries     \* retries of the init loops (1000 in the code)

\* The block of a card that a transfer moves, and how far it is.
Places == [card : {c.id : c \in Cards}, block : 0 .. BlockCount - 1]
Transfers == [place : Places, drained : BOOLEAN, ready : {"READ_READY", "WRITE_READY"}]

ASSUME EmmcAssumption ==
  /\ BLOCK_SIZE \in Nat \ {0} /\ BlockCount \in Nat /\ MaxRetries \in Nat \ {0}
  /\ \A c \in Cards : c.family \in {"SDv2", "SDv1", "MMC"} /\ c.addressing \in {"byte", "block", "unknown"}
  /\ None \notin Cards /\ None \notin Transfers

VARIABLES slot,      \* the card in the slot, or None
          mode,      \* its state: "idle", "ready", "ident", "stby" or "tran"
          cmd,       \* the command on the CMD line, or None (CMD_INHIBIT)
          dat,       \* the transfer on the DAT line, or None (DAT_INHIBIT)
          ints,      \* REG_INTERRUPT
          resp,      \* REG_RESP0: what the last answer says, where it matters
          csd,       \* Emmc::csd: the addressing of an initialised card, or None
          call,      \* the driver's call under way
          prog,      \* the steps it has still to do
          overrun    \* history: a command was sent to a line that was not free

hw == <<slot, mode, cmd, dat, ints, resp>>
vars == <<slot, mode, cmd, dat, ints, resp, csd, call, prog, overrun>>

Idle == [op |-> "none"]

(*** The driver's programs *************************************************)

Cmd(idx) == [do |-> "send", idx |-> idx]
Step(name) == [do |-> name]

\* init_sd_v2 and init_sd_v1 (which differ in an argument), and init_mmc: one
\* round of the loop; a card that is not ready makes it go round again.
InitSd == << Cmd("CMD55"), Cmd("ACMD41") >>
InitMmc == << Cmd("CMD1") >>
\* The rest of init, for every family.
Identify == << Cmd("CMD2"), Cmd("CMD3"), Cmd("CMD9"), Cmd("CMD7"), Cmd("CMD16"), Step("clock") >>
Start == << Step("reset"), Step("clock"), Cmd("CMD0"), Cmd("CMD8") >>

\* read_block_internal and write_block_internal.
ReadBlock == << Step("dat"), Cmd("CMD17"), Step("read_ready"), Step("data_done") >>
WriteBlock == << Step("dat"), Cmd("CMD24"), Step("write_ready"), Step("data_done") >>

At(do) == call # Idle /\ prog # << >> /\ Head(prog).do = do
Waiting(idx) == At("wait") /\ Head(prog).idx = idx

\* The byte address for a V1 card, the block number for the others.
AddressBytes(lba) == lba * BLOCK_SIZE
Address(lba) == IF csd = "byte" THEN lba * BLOCK_SIZE ELSE lba

(*** Calls *****************************************************************)

Init == /\ slot \in Cards \cup {None}
        /\ mode = "idle"
        /\ cmd = None /\ dat = None /\ ints = {} /\ resp = None
        /\ csd = None
        /\ call = Idle /\ prog = << >>
        /\ overrun = FALSE

init == /\ call = Idle /\ slot # None
        /\ call' = [op |-> "init", retries |-> MaxRetries, fallback |-> None]
        /\ prog' = Start
        /\ UNCHANGED <<hw, csd, overrun>>

\* A block range is checked against the CSD (of zero blocks before init), and
\* the card must be there; the call then goes through its blocks in order.
BlocksIn(lba, n) == csd # None /\ lba + n <= BlockCount
read_blocks(lba, n) ==
  /\ call = Idle /\ BlocksIn(lba, n) /\ slot # None
  /\ call' = [op |-> "read", lba |-> lba, left |-> n, moved |-> << >>]
  /\ prog' = ReadBlock
  /\ UNCHANGED <<hw, csd, overrun>>
write_blocks(lba, n) ==
  /\ call = Idle /\ BlocksIn(lba, n) /\ slot # None
  /\ call' = [op |-> "write", lba |-> lba, left |-> n, moved |-> << >>]
  /\ prog' = WriteBlock
  /\ UNCHANGED <<hw, csd, overrun>>

\* An error ends the call, except that init_sd_v1 after a CMD8 without answer
\* is followed by init_mmc.
Failed(c) == IF c.op = "init" /\ c.fallback # None
             THEN /\ call' = [c EXCEPT !.fallback = None, !.retries = MaxRetries]
                  /\ prog' = c.fallback
             ELSE call' = Idle /\ prog' = << >>

(*** The driver's steps ****************************************************)

\* reset sets SRST_HC and waits until the controller clears it.
reset == /\ At("reset")
         /\ cmd' = None /\ dat' = None /\ ints' = {} /\ overrun' = FALSE
         /\ prog' = Tail(prog)
         /\ UNCHANGED <<slot, mode, resp, csd, call>>
set_clock == /\ At("clock")
             /\ prog' = Tail(prog)
             /\ UNCHANGED <<hw, csd, call, overrun>>
\* reset and set_clock report that the controller did not follow.
no_clock == /\ At("reset") \/ At("clock")
            /\ Failed(call)
            /\ UNCHANGED <<hw, csd, overrun>>

\* The wait for DAT_INHIBIT ends when the line is free, or is given up without
\* an error; then BLKSIZECNT is written and the interrupts are cleared.
wait_dat == /\ At("dat")
            /\ ints' = {}
            /\ overrun' = (overrun \/ dat # None)
            /\ prog' = Tail(prog)
            /\ UNCHANGED <<slot, mode, cmd, dat, resp, csd, call>>

\* send_cmd: the same wait for CMD_INHIBIT, clear the interrupts, send.  A busy
\* controller takes no notice of the command.
send_cmd ==
  /\ At("send")
  /\ ints' = {}
  /\ overrun' = (overrun \/ cmd # None)
  /\ cmd' = IF cmd # None THEN cmd
            ELSE [idx |-> Head(prog).idx,
                  arg |-> IF call.op = "init" THEN 0 ELSE Address(call.lba)]
  /\ prog' = << [do |-> "wait", idx |-> Head(prog).idx] >> \o Tail(prog)
  /\ UNCHANGED <<slot, mode, dat, resp, csd, call>>

\* wait_cmd_done with INT_CMD_DONE: what the caller then does with the answer.
Done == "ERROR" \notin ints /\ "CMD_DONE" \in ints /\ ints' = ints \ {"CMD_DONE"}

cmd8_done ==
  /\ Waiting("CMD8") /\ Done
  /\ prog' = InitSd \o Identify
  /\ UNCHANGED <<slot, mode, cmd, dat, resp, csd, call, overrun>>

\* ACMD41 and CMD1: go on when the card is ready, else try again.
RetriedForEver(c) == c
Retried(c) == [c EXCEPT !.retries = @ - 1]
ready_done ==
  /\ Waiting("ACMD41") \/ Waiting("CMD1")
  /\ Done
  /\ IF resp = "ready"
     THEN prog' = Tail(prog) /\ call' = [call EXCEPT !.fallback = None]
     ELSE IF Retried(call).retries = 0 THEN Failed(call)
     ELSE /\ prog' = (IF Waiting("CMD1") THEN InitMmc ELSE InitSd) \o Tail(prog)
          /\ call' = Retried(call)
  /\ UNCHANGED <<slot, mode, cmd, dat, resp, csd, overrun>>

\* Csd::parse rejects a version it does not know.
csd_done ==
  /\ Waiting("CMD9") /\ Done
  /\ IF resp = "unknown" THEN Failed(call) /\ UNCHANGED csd
     ELSE csd' = resp /\ prog' = Tail(prog) /\ UNCHANGED call
  /\ UNCHANGED <<slot, mode, cmd, dat, resp, overrun>>

cmd_done ==
  /\ At("wait") /\ Head(prog).idx \notin {"CMD8", "ACMD41", "CMD1", "CMD9"} /\ Done
  /\ prog' = Tail(prog)
  /\ UNCHANGED <<slot, mode, cmd, dat, resp, csd, call, overrun>>

\* An error or no answer.  A CMD8 that fails means an older card.
cmd_failed ==
  /\ At("wait")
  /\ "ERROR" \in ints \/ "CMD_DONE" \notin ints
  /\ ints' = ints \ {"ERROR"}
  /\ IF Head(prog).idx = "CMD8"
     THEN /\ prog' = InitSd \o Identify
          /\ call' = [call EXCEPT !.fallback = InitMmc \o Identify]
     ELSE Failed(call)
  /\ UNCHANGED <<slot, mode, cmd, dat, resp, csd, overrun>>

\* wait_data_ready and the loop that reads REG_DATA, wait_write_ready and the
\* loop that writes it: the block now on the line goes to, or comes from, the
\* caller's buffer.
data_moved ==
  /\ \/ At("read_ready") /\ "READ_READY" \in ints
     \/ At("write_ready") /\ "WRITE_READY" \in ints
  /\ "ERROR" \notin ints
  /\ ints' = ints \ {"READ_READY", "WRITE_READY"}
  /\ call' = [call EXCEPT !.moved = Append(@, IF dat = None THEN None ELSE dat.place)]
  /\ dat' = IF dat = None THEN None ELSE [dat EXCEPT !.drained = TRUE]
  /\ prog' = Tail(prog)
  /\ UNCHANGED <<slot, mode, cmd, resp, csd, overrun>>

\* wait_data_done: the next block, or the end of the call.
NextLba(c) == [c EXCEPT !.lba = @ + 1, !.left = @ - 1]
data_done ==
  /\ At("data_done") /\ "DATA_DONE" \in ints /\ "ERROR" \notin ints
  /\ ints' = ints \ {"DATA_DONE"}
  /\ call' = NextLba(call)
  /\ prog' = IF call.left = 1 THEN << Step("ok") >>
             ELSE IF call.op = "read" THEN ReadBlock ELSE WriteBlock
  /\ UNCHANGED <<slot, mode, cmd, dat, resp, csd, overrun>>

data_failed ==
  /\ At("read_ready") \/ At("write_ready") \/ At("data_done")
  /\ \/ "ERROR" \in ints
     \/ At("read_ready") /\ "READ_READY" \notin ints
     \/ At("write_ready") /\ "WRITE_READY" \notin ints
     \/ At("data_done") /\ "DATA_DONE" \notin ints
  /\ ints' = ints \ {"ERROR"}
  /\ Failed(call)
  /\ UNCHANGED <<slot, mode, cmd, dat, resp, csd, overrun>>

\* Ok(()) of read_blocks and write_blocks, and of init.
return_ok == /\ At("ok") \/ (call # Idle /\ prog = << >>)
             /\ call' = Idle /\ prog' = << >>
             /\ UNCHANGED <<hw, csd, overrun>>

DriverStep == \/ reset \/ set_clock \/ no_clock \/ wait_dat \/ send_cmd
              \/ cmd8_done \/ ready_done \/ csd_done \/ cmd_done \/ cmd_failed
              \/ data_moved \/ data_done \/ data_failed \/ return_ok

(*** The controller and the card *******************************************)

\* The block an address means to the card in the slot, if it is one.
Place(arg) == [card |-> slot.id, block |-> IF slot.addressing = "byte" THEN arg \div BLOCK_SIZE ELSE arg]
Addressable(arg) == /\ slot.addressing = "byte" => arg % BLOCK_SIZE = 0
                    /\ Place(arg).block < BlockCount

Answer(m, r, d) == /\ mode' = m /\ resp' = r /\ dat' = d
                   /\ cmd' = None /\ ints' = ints \cup {"CMD_DONE"}
                   /\ UNCHANGED <<slot, csd, call, prog, overrun>>
Asked(idx) == slot # None /\ cmd # None /\ cmd.idx = idx

card_reset == Asked("CMD0") /\ Answer("idle", None, dat)
card_echoes == Asked("CMD8") /\ mode = "idle" /\ slot.family = "SDv2" /\ Answer("idle", None, dat)
card_takes_acmd == Asked("CMD55") /\ mode = "idle" /\ slot.family # "MMC" /\ Answer("idle", None, dat)
card_busy == /\ \/ Asked("ACMD41") /\ slot.family # "MMC"
                \/ Asked("CMD1") /\ slot.family = "MMC"
             /\ mode = "idle"
             /\ Answer("idle", "busy", dat) \/ Answer("ready", "ready", dat)
card_identifies == \/ Asked("CMD2") /\ mode = "ready" /\ Answer("ident", None, dat)
                   \/ Asked("CMD3") /\ mode = "ident" /\ Answer("stby", None, dat)
                   \/ Asked("CMD9") /\ mode = "stby" /\ Answer("stby", slot.addressing, dat)
                   \/ Asked("CMD7") /\ mode = "stby" /\ Answer("tran", None, dat)
                   \/ Asked("CMD16") /\ mode = "tran" /\ Answer("tran", None, dat)
card_transfers ==
  /\ Asked("CMD17") \/ Asked("CMD24")
  /\ mode = "tran" /\ dat = None /\ Addressable(cmd.arg)
  /\ Answer("tran", None, [place |-> Place(cmd.arg), drained |-> FALSE,
                           ready |-> IF cmd.idx = "CMD17" THEN "READ_READY" ELSE "WRITE_READY"])

\* Illegal commands, noise on the line, an empty slot.
command_error == /\ cmd # None
                 /\ cmd' = None /\ ints' = ints \cup {"ERROR"}
                 /\ UNCHANGED <<slot, mode, dat, resp, csd, call, prog, overrun>>

Transferring == dat # None /\ mode = "tran" /\ slot.id = dat.place.card
data_ready == /\ Transferring /\ ~ dat.drained /\ dat.ready \notin ints
              /\ ints' = ints \cup {dat.ready}
              /\ UNCHANGED <<slot, mode, cmd, dat, resp, csd, call, prog, overrun>>
data_over == /\ Transferring /\ dat.drained
             /\ dat' = None /\ ints' = ints \cup {"DATA_DONE"}
             /\ UNCHANGED <<slot, mode, cmd, resp, csd, call, prog, overrun>>
data_error == /\ dat # None
              /\ dat' = None /\ ints' = ints \cup {"ERROR"}
              /\ UNCHANGED <<slot, mode, cmd, resp, csd, call, prog, overrun>>

\* The card is pulled or another one put in; no card answers an old command.
change_card == /\ slot' \in (Cards \cup {None}) \ {slot}
               /\ mode' = "idle"
               /\ cmd' = IF cmd = None THEN None ELSE [cmd EXCEPT !.idx = "lost"]
               /\ UNCHANGED <<dat, ints, resp, csd, call, prog, overrun>>

Hardware == \/ card_reset \/ card_echoes \/ card_takes_acmd \/ card_busy
            \/ card_identifies \/ card_transfers \/ command_error
            \/ data_ready \/ data_over \/ data_error \/ change_card

Blocks == 0 .. BlockCount - 1
Next == \/ init
        \/ \E lba \in Blocks, n \in 1 .. BlockCount : read_blocks(lba, n) \/ write_blocks(lba, n)
        \/ DriverStep
        \/ Hardware

\* The driver runs until it returns; nothing is assumed of the hardware.
Spec == Init /\ [][Next]_vars /\ WF_vars(DriverStep)

(*** Properties ************************************************************)

\* The blocks that the call moved are those it was asked for, in order, and all
\* of one card.
MovedAsAsked ==
  \E c \in Cards : \A i \in DOMAIN call.moved :
    call.moved[i] = [card |-> c.id, block |-> call.lba - Len(call.moved) + i - 1]

\* A call that succeeds has moved the blocks it was asked for, whatever cards
\* were initialised before, failed to be or were swapped meanwhile; unless a
\* command was sent, since the last reset, to a line the driver had given up
\* waiting for.
RightBlocks == At("ok") /\ ~ overrun => MovedAsAsked

\* Every call returns, even from a card that is never ready and a controller
\* that never answers.
DriverReturns == call # Idle ~> call = Idle
=============================================================================
