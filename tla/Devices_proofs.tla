--------------------------- MODULE Devices_proofs ---------------------------
(***************************************************************************)
(* Proofs about Devices: the SD card driver, for any cards, block sizes    *)
(* and counts, any number of retries, and a card that may be pulled or     *)
(* replaced at any time; the clocks and alarms, for counters and counts of *)
(* any width, any delays and any time between two accesses; and the serial *)
(* ports, for FIFOs of any depth, any texts, clocks and rates.             *)
(***************************************************************************)
EXTENDS Devices, TLAPS

(***************************************************************************)
(* The driver's programs: which step comes after which.                    *)
(***************************************************************************)
Wait(idx) == [do |-> "wait", idx |-> idx]

InitCmds == {"CMD0", "CMD8", "CMD55", "ACMD41", "CMD1", "CMD2", "CMD3", "CMD9", "CMD7", "CMD16"}
InitSteps == {Cmd(i) : i \in InitCmds} \cup {Wait(i) : i \in InitCmds} \cup {Step("reset"), Step("clock")}
DataCmds == {"CMD17", "CMD24"}
DataSteps == {Cmd(i) : i \in DataCmds} \cup {Wait(i) : i \in DataCmds}
             \cup {Step("dat"), Step("read_ready"), Step("write_ready"), Step("data_done"), Step("ok")}

Name(x) == IF x.do \in {"send", "wait"} THEN x.idx ELSE x.do

Follows == {<<"reset", "clock">>, <<"clock", "CMD0">>, <<"CMD0", "CMD8">>, <<"CMD55", "ACMD41">>,
            <<"ACMD41", "CMD2">>, <<"CMD1", "CMD2">>, <<"CMD2", "CMD3">>, <<"CMD3", "CMD9">>,
            <<"CMD9", "CMD7">>, <<"CMD7", "CMD16">>, <<"CMD16", "clock">>,
            <<"dat", "CMD17">>, <<"dat", "CMD24">>, <<"CMD17", "read_ready">>, <<"CMD24", "write_ready">>,
            <<"read_ready", "data_done">>, <<"write_ready", "data_done">>}

\* A program of steps of S, each after one it may follow; only the first may be
\* a wait.
Program(p, S) == /\ p \in Seq(S)
                 /\ \A i \in 1 .. Len(p) - 1 : /\ <<Name(p[i]), Name(p[i + 1])>> \in Follows
                                               /\ p[i + 1].do # "wait"

\* The programs that init goes on with when the card does not know CMD8.
SdProgram == InitSd \o Identify
MmcProgram == InitMmc \o Identify

-----------------------------------------------------------------------------
(***************************************************************************)
(* The invariant.                                                          *)
(***************************************************************************)
InitCalls == [op : {"init"}, retries : Int, fallback : {None, MmcProgram}]
DataCalls == [op : {"read", "write"}, lba : Nat, left : Int, moved : Seq(Places \cup {None})]

TypeOK == /\ slot \in Cards \cup {None} /\ mode \in {"idle", "ready", "ident", "stby", "tran"}
          /\ cmd \in [idx : InitCmds \cup DataCmds \cup {"lost"}, arg : Nat] \cup {None}
          /\ dat \in Transfers \cup {None}
          /\ overrun \in BOOLEAN
          /\ \/ call = Idle
             \/ call \in InitCalls /\ Program(prog, InitSteps)
             \/ call \in DataCalls /\ Program(prog, DataSteps)

\* The command idx is on its way to the card.
Sent(idx) == cmd # None /\ cmd.idx = idx

\* The controller has an answer only for the last command, and a card that
\* transfers, or is about to be told to, is addressed the way the driver thinks.
Addressing == /\ "CMD_DONE" \in ints => cmd = None
              /\ (mode = "tran" \/ (mode = "stby" /\ Sent("CMD7"))) => csd = slot.addressing

\* init is between its CMD0 and the end of its CMD9.
Before == {"CMD8", "CMD55", "ACMD41", "CMD1", "CMD2", "CMD3", "CMD9"}

\* What init knows of the card, by the step it is at.
Initialising ==
  call.op = "init" =>
    /\ prog # << >> =>
         /\ call.fallback # None => Name(prog[1]) \in {"CMD55", "ACMD41"}
         /\ (prog[1].do = "clock" \/ (prog[1].do = "send" /\ prog[1].idx \notin {"CMD55", "CMD1"})) => cmd = None
         /\ Name(prog[1]) \in Before => mode # "tran" /\ ~ Sent("CMD7")
         /\ prog[1] = Wait("CMD0") => /\ cmd # None => cmd.idx \in {"CMD0", "lost"}
                                      /\ "CMD_DONE" \in ints => mode = "idle"
         /\ prog[1] = Wait("CMD9") => /\ cmd # None => cmd.idx \in {"CMD9", "lost"}
                                      /\ "CMD_DONE" \in ints /\ mode = "stby" => resp = slot.addressing
         /\ prog[1] = Cmd("CMD7") => (mode = "stby" => csd = slot.addressing)

\* The transfer on the line is the next block of card c, not yet moved.
Fresh(c) == /\ dat # None /\ ~ dat.drained
            /\ dat.place.card = c.id /\ dat.place.block = call.lba

\* The block after the last one moved.
Upto == IF prog[1].do = "data_done" THEN call.lba + 1 ELSE call.lba

\* A call that moves blocks is about one card c: no other gets to its transfer
\* state before the next init.
Moving(c) ==
  /\ (mode = "tran" \/ Sent("CMD7")) => slot = c
  /\ prog # << >> =>
       /\ \A i \in 1 .. Len(call.moved) :
            call.moved[i] = [card |-> c.id, block |-> Upto - Len(call.moved) + i - 1]
       /\ prog[1].do = "wait" =>
            /\ cmd # None => cmd.idx \in DataCmds \cup {"lost"} /\ cmd.arg = Address(call.lba)
            /\ "CMD_DONE" \in ints /\ "ERROR" \notin ints => Fresh(c)
       /\ prog[1].do \in {"read_ready", "write_ready"} /\ "ERROR" \notin ints => Fresh(c)

Transfer == call.op \in {"read", "write"} /\ ~ overrun => \E c \in Cards : Moving(c)

EInv == TypeOK /\ Addressing /\ Initialising /\ Transfer

-----------------------------------------------------------------------------
(***************************************************************************)
(* The controller and the card.                                            *)
(***************************************************************************)

\* A card's answer to a command of init.
LEMMA AnswerStep ==
  ASSUME EInv, NEW m \in {"idle", "ready", "ident", "stby", "tran"}, NEW r, Answer(m, r, dat),
         slot # None, cmd # None, cmd.idx \in InitCmds,
         m = "tran" => /\ csd = slot.addressing
                       /\ mode = "tran" \/ cmd.idx = "CMD7",
         cmd.idx = "CMD0" => m = "idle",
         cmd.idx = "CMD9" => (m = "stby" => r = slot.addressing)
  PROVE  EInv'
<1>1. /\ mode' = m /\ resp' = r /\ dat' = dat /\ cmd' = None /\ ints' = ints \cup {"CMD_DONE"}
      /\ slot' = slot /\ csd' = csd /\ call' = call /\ prog' = prog /\ overrun' = overrun
  BY DEF Answer
<1>2. TypeOK'
  BY <1>1 DEF EInv, TypeOK
<1>3. Addressing'
  BY <1>1 DEF Addressing, Sent
<1>4. Initialising'
  <2>1. CASE call.op = "init" /\ prog # << >>
    <3>1. Name(prog[1]) \in Before => m # "tran"
      BY <2>1 DEF EInv, Initialising, Sent
    <3>2. prog[1] = Wait("CMD0") => m = "idle"
      BY <2>1 DEF EInv, Initialising, InitCmds
    <3>3. prog[1] = Wait("CMD9") => (m = "stby" => r = slot.addressing)
      BY <2>1 DEF EInv, Initialising, InitCmds
    <3>4. prog[1] # Cmd("CMD7")
      <4>1. prog[1] = Cmd("CMD7") => prog[1].do = "send" /\ prog[1].idx = "CMD7"
        BY DEF Cmd
      <4> QED BY <2>1, <4>1 DEF EInv, Initialising
    <3>5. call.fallback # None => Name(prog[1]) \in {"CMD55", "ACMD41"}
      BY <2>1 DEF EInv, Initialising
    <3> QED BY <2>1, <3>1, <3>2, <3>3, <3>4, <3>5, <1>1 DEF Initialising, Sent
  <2>2. CASE ~ (call.op = "init" /\ prog # << >>)
    BY <2>2, <1>1 DEF EInv, Initialising
  <2> QED BY <2>1, <2>2
<1>5. Transfer'
  <2> SUFFICES ASSUME call.op \in {"read", "write"}, ~ overrun PROVE \E c \in Cards : Moving(c)'
    BY <1>1 DEF Transfer
  <2>1. PICK c \in Cards : Moving(c)
    BY DEF EInv, Transfer
  <2>2. prog # << >> => prog[1].do # "wait"
    BY <2>1 DEF Moving, InitCmds, DataCmds
  <2>3. Moving(c)'
    BY <1>1, <2>1, <2>2 DEF Moving, Sent, Upto, Fresh, Address
  <2> QED BY <2>3
<1> QED BY <1>2, <1>3, <1>4, <1>5 DEF EInv

LEMMA CardSteps ==
  ASSUME EInv, card_reset \/ card_echoes \/ card_takes_acmd \/ card_busy \/ card_identifies
  PROVE  EInv'
<1>1. Asked("CMD0") /\ Answer("idle", None, dat) => EInv'
  BY AnswerStep DEF Asked, InitCmds
<1>2. \A i \in {"CMD8", "CMD55", "ACMD41", "CMD1"} : Asked(i) /\ (\E r : Answer("idle", r, dat)) => EInv'
  BY AnswerStep DEF Asked, InitCmds
<1>3. \A i \in {"ACMD41", "CMD1"} : Asked(i) /\ (\E r : Answer("ready", r, dat)) => EInv'
  BY AnswerStep DEF Asked, InitCmds
<1>4. Asked("CMD2") /\ Answer("ident", None, dat) => EInv'
  BY AnswerStep DEF Asked, InitCmds
<1>5. Asked("CMD3") /\ Answer("stby", None, dat) => EInv'
  BY AnswerStep DEF Asked, InitCmds
<1>6. Asked("CMD9") /\ Answer("stby", slot.addressing, dat) => EInv'
  BY AnswerStep DEF Asked, InitCmds
<1>7. Asked("CMD7") /\ mode = "stby" /\ Answer("tran", None, dat) => EInv'
  <2> SUFFICES ASSUME Asked("CMD7"), mode = "stby", Answer("tran", None, dat) PROVE EInv'
    OBVIOUS
  <2>1. csd = slot.addressing
    BY DEF EInv, Addressing, Asked, Sent
  <2> QED BY <2>1, AnswerStep DEF Asked, InitCmds
<1>8. Asked("CMD16") /\ mode = "tran" /\ Answer("tran", None, dat) => EInv'
  <2> SUFFICES ASSUME Asked("CMD16"), mode = "tran", Answer("tran", None, dat) PROVE EInv'
    OBVIOUS
  <2>1. csd = slot.addressing
    BY DEF EInv, Addressing
  <2> QED BY <2>1, AnswerStep DEF Asked, InitCmds
<1> QED BY <1>1, <1>2, <1>3, <1>4, <1>5, <1>6, <1>7, <1>8
        DEF card_reset, card_echoes, card_takes_acmd, card_busy, card_identifies

\* The block that an address means, to the driver and to the card.
LEMMA Quotient ==
  ASSUME NEW a \in Nat, NEW b \in Nat \ {0}
  PROVE  a \div b \in Nat /\ a * b \in Nat /\ (a * b) \div b = a
OBVIOUS

LEMMA TransferStep ==
  ASSUME EInv, card_transfers
  PROVE  EInv'
<1> DEFINE d == [place |-> Place(cmd.arg), drained |-> FALSE,
                 ready |-> IF cmd.idx = "CMD17" THEN "READ_READY" ELSE "WRITE_READY"]
<1>1. /\ mode' = mode /\ mode = "tran" /\ dat = None /\ dat' = d /\ cmd' = None /\ ints' = ints \cup {"CMD_DONE"}
      /\ slot' = slot /\ csd' = csd /\ call' = call /\ prog' = prog /\ overrun' = overrun
  BY DEF card_transfers, Answer
<1>2. /\ slot # None /\ cmd # None /\ cmd.idx \in DataCmds /\ Place(cmd.arg).block < BlockCount
  BY DEF card_transfers, Addressable, Asked, DataCmds
<1>3. slot \in Cards /\ cmd.arg \in Nat /\ BLOCK_SIZE \in Nat \ {0}
  BY <1>2, EmmcAssumption DEF EInv, TypeOK
<1>4. d \in Transfers /\ d # None
  <2>1. Place(cmd.arg).block \in 0 .. BlockCount - 1
    <3>1. cmd.arg \div BLOCK_SIZE \in Nat
      BY <1>3, Quotient
    <3>2. Place(cmd.arg).block \in Nat
      BY <3>1, <1>3 DEF Place
    <3> QED BY <3>2, <1>2, EmmcAssumption
  <2>2. Place(cmd.arg) \in Places
    BY <2>1, <1>3 DEF Place, Places
  <2> HIDE DEF d
  <2>3. d \in Transfers
    BY <2>2 DEF Transfers, d
  <2> QED BY <2>3, EmmcAssumption
<1>5. TypeOK'
  BY <1>1, <1>4 DEF EInv, TypeOK
<1>6. Addressing'
  BY <1>1 DEF EInv, Addressing, Sent
<1>7. Initialising'
  BY <1>1, <1>2 DEF EInv, Initialising, Sent, DataCmds
<1>8. Transfer'
  <2> SUFFICES ASSUME call.op \in {"read", "write"}, ~ overrun PROVE \E c \in Cards : Moving(c)'
    BY <1>1 DEF Transfer
  <2>1. PICK c \in Cards : Moving(c)
    BY DEF EInv, Transfer
  <2>2. slot = c /\ csd = slot.addressing
    BY <2>1, <1>1 DEF Moving, EInv, Addressing
  <2>3. call.lba \in Nat
    BY DEF EInv, TypeOK, Idle, InitCalls, DataCalls
  <2>4. ASSUME prog # << >>, prog[1].do = "wait" PROVE Fresh(c)'
    <3>1. cmd.arg = Address(call.lba)
      BY <2>1, <2>4, <1>2 DEF Moving
    <3>2. Place(cmd.arg) = [card |-> c.id, block |-> call.lba]
      <4>1. (call.lba * BLOCK_SIZE) \div BLOCK_SIZE = call.lba
        BY <2>3, <1>3, Quotient
      <4> QED BY <3>1, <4>1, <2>2 DEF Address, Place
    <3> QED BY <3>2, <1>1, <1>4 DEF Fresh
  <2>5. ASSUME prog # << >>, prog[1].do \in {"read_ready", "write_ready"}, "ERROR" \notin ints PROVE FALSE
    BY <2>1, <2>5, <1>1 DEF Moving, Fresh
  <2>6. Moving(c)'
    BY <1>1, <2>1, <2>2, <2>4, <2>5 DEF Moving, Sent, Upto, Address
  <2> QED BY <2>6
<1> QED BY <1>5, <1>6, <1>7, <1>8 DEF EInv

\* The interrupts the controller raises, and a card that is changed.
LEMMA ControllerSteps ==
  ASSUME EInv, command_error \/ data_ready \/ data_over \/ data_error \/ change_card
  PROVE  EInv'
<1>0. UNCHANGED <<csd, call, prog, overrun, resp>>
  BY DEF command_error, data_ready, data_over, data_error, change_card
<1>1. CASE command_error
  <2>1. cmd' = None /\ ints' = ints \cup {"ERROR"} /\ UNCHANGED <<slot, mode, dat>>
    BY <1>1 DEF command_error
  <2>2. TypeOK' /\ Addressing' /\ Initialising'
    BY <1>0, <2>1 DEF EInv, TypeOK, Addressing, Initialising, Sent
  <2>3. \A c \in Cards : Moving(c) => Moving(c)'
    BY <1>0, <2>1 DEF Moving, Sent, Upto, Fresh, Address
  <2> QED BY <2>2, <2>3, <1>0 DEF EInv, Transfer
<1>2. CASE data_ready
  <2>1. ints' = ints \cup {dat.ready} /\ dat # None /\ UNCHANGED <<slot, mode, cmd, dat>>
    BY <1>2 DEF data_ready, Transferring
  <2>2. dat.ready # "CMD_DONE" /\ dat.ready # "ERROR"
    BY <2>1 DEF EInv, TypeOK, Transfers
  <2>3. TypeOK' /\ Addressing' /\ Initialising'
    BY <1>0, <2>1, <2>2 DEF EInv, TypeOK, Addressing, Initialising, Sent
  <2>4. \A c \in Cards : Moving(c) => Moving(c)'
    BY <1>0, <2>1, <2>2 DEF Moving, Sent, Upto, Fresh, Address
  <2> QED BY <2>3, <2>4, <1>0 DEF EInv, Transfer
<1>3. CASE data_over
  <2>1. ints' = ints \cup {"DATA_DONE"} /\ dat # None /\ dat.drained /\ dat' = None /\ UNCHANGED <<slot, mode, cmd>>
    BY <1>3 DEF data_over, Transferring
  <2>2. TypeOK' /\ Addressing' /\ Initialising'
    BY <1>0, <2>1 DEF EInv, TypeOK, Addressing, Initialising, Sent
  <2>3. \A c \in Cards : Moving(c) => Moving(c)'
    BY <1>0, <2>1 DEF Moving, Sent, Upto, Fresh, Address
  <2> QED BY <2>2, <2>3, <1>0 DEF EInv, Transfer
<1>4. CASE data_error
  <2>1. ints' = ints \cup {"ERROR"} /\ dat' = None /\ UNCHANGED <<slot, mode, cmd>>
    BY <1>4 DEF data_error
  <2>2. TypeOK' /\ Addressing' /\ Initialising'
    BY <1>0, <2>1 DEF EInv, TypeOK, Addressing, Initialising, Sent
  <2>3. \A c \in Cards : Moving(c) => Moving(c)'
    BY <1>0, <2>1 DEF Moving, Sent, Upto, Fresh, Address
  <2> QED BY <2>2, <2>3, <1>0 DEF EInv, Transfer
<1>5. CASE change_card
  <2>1. /\ slot' \in Cards \cup {None} /\ mode' = "idle" /\ UNCHANGED <<dat, ints>>
        /\ cmd' = IF cmd = None THEN None ELSE [cmd EXCEPT !.idx = "lost"]
    BY <1>5 DEF change_card
  <2>2. /\ (cmd = None /\ cmd' = None) \/ (cmd # None /\ cmd'.idx = "lost" /\ cmd'.arg = cmd.arg)
        /\ cmd' \in [idx : InitCmds \cup DataCmds \cup {"lost"}, arg : Nat] \cup {None}
    BY <2>1 DEF EInv, TypeOK
  <2>3. TypeOK' /\ Addressing' /\ Initialising'
    BY <1>0, <2>1, <2>2 DEF EInv, TypeOK, Addressing, Initialising, Sent
  <2>4. \A c \in Cards : Moving(c) => Moving(c)'
    BY <1>0, <2>1, <2>2 DEF Moving, Sent, Upto, Fresh, Address
  <2> QED BY <2>3, <2>4, <1>0 DEF EInv, Transfer
<1> QED BY <1>1, <1>2, <1>3, <1>4, <1>5

-----------------------------------------------------------------------------
(***************************************************************************)
(* The driver.                                                             *)
(***************************************************************************)

\* What the steps of a program are called.
LEMMA StepNames ==
  /\ \A i : Cmd(i).do = "send" /\ Cmd(i).idx = i /\ Name(Cmd(i)) = i
  /\ \A i : Wait(i).do = "wait" /\ Wait(i).idx = i /\ Name(Wait(i)) = i
  /\ \A n \in {"reset", "clock", "dat", "read_ready", "write_ready", "data_done", "ok"} :
       Step(n).do = n /\ Name(Step(n)) = n
BY DEF Cmd, Wait, Step, Name

\* The driver's programs.
LEMMA Programs ==
  /\ Program(Start, InitSteps) /\ Len(Start) = 4 /\ Start[1] = Step("reset")
  /\ Program(SdProgram, InitSteps) /\ Len(SdProgram) = 8 /\ SdProgram[1] = Cmd("CMD55")
  /\ Program(MmcProgram, InitSteps) /\ Len(MmcProgram) = 7 /\ MmcProgram[1] = Cmd("CMD1")
  /\ Program(ReadBlock, DataSteps) /\ Len(ReadBlock) = 4 /\ ReadBlock[1] = Step("dat")
  /\ Program(WriteBlock, DataSteps) /\ Len(WriteBlock) = 4 /\ WriteBlock[1] = Step("dat")
  /\ Program(<< Step("ok") >>, DataSteps)
<1>1. \A i \in InitCmds : Cmd(i) \in InitSteps
  BY DEF InitSteps
<1>2. Step("reset") \in InitSteps /\ Step("clock") \in InitSteps
  BY DEF InitSteps
<1>3. \A i \in DataCmds : Cmd(i) \in DataSteps
  BY DEF DataSteps
<1>4. /\ Step("dat") \in DataSteps /\ Step("read_ready") \in DataSteps /\ Step("write_ready") \in DataSteps
      /\ Step("data_done") \in DataSteps /\ Step("ok") \in DataSteps
  BY DEF DataSteps
<1>5. Program(Start, InitSteps) /\ Len(Start) = 4 /\ Start[1] = Step("reset")
  <2> DEFINE p == Start
  <2>1. p \in Seq(InitSteps) /\ Len(p) = 4
    BY <1>1, <1>2 DEF Start, InitCmds
  <2>2. p[1] = Step("reset") /\ p[2] = Step("clock") /\ p[3] = Cmd("CMD0") /\ p[4] = Cmd("CMD8")
    BY DEF Start
  <2> HIDE DEF p
  <2>3. ASSUME NEW i \in 1 .. 3 PROVE <<Name(p[i]), Name(p[i + 1])>> \in Follows /\ p[i + 1].do # "wait"
    <3>1. i = 1 \/ i = 2 \/ i = 3
      OBVIOUS
    <3> QED BY <3>1, <2>2, StepNames DEF Follows
  <2> QED BY <2>1, <2>2, <2>3 DEF Program, p
<1>6. Program(SdProgram, InitSteps) /\ Len(SdProgram) = 8 /\ SdProgram[1] = Cmd("CMD55")
  <2> DEFINE p == SdProgram
  <2>1. p \in Seq(InitSteps) /\ Len(p) = 8
    BY <1>1, <1>2 DEF SdProgram, InitSd, Identify, InitCmds
  <2>2. /\ p[1] = Cmd("CMD55") /\ p[2] = Cmd("ACMD41") /\ p[3] = Cmd("CMD2") /\ p[4] = Cmd("CMD3")
        /\ p[5] = Cmd("CMD9") /\ p[6] = Cmd("CMD7") /\ p[7] = Cmd("CMD16") /\ p[8] = Step("clock")
    BY DEF SdProgram, InitSd, Identify
  <2> HIDE DEF p
  <2>3. ASSUME NEW i \in 1 .. 7 PROVE <<Name(p[i]), Name(p[i + 1])>> \in Follows /\ p[i + 1].do # "wait"
    <3>1. i = 1 \/ i = 2 \/ i = 3 \/ i = 4 \/ i = 5 \/ i = 6 \/ i = 7
      OBVIOUS
    <3> QED BY <3>1, <2>2, StepNames DEF Follows
  <2> QED BY <2>1, <2>2, <2>3 DEF Program, p
<1>7. Program(MmcProgram, InitSteps) /\ Len(MmcProgram) = 7 /\ MmcProgram[1] = Cmd("CMD1")
  <2> DEFINE p == MmcProgram
  <2>1. p \in Seq(InitSteps) /\ Len(p) = 7
    BY <1>1, <1>2 DEF MmcProgram, InitMmc, Identify, InitCmds
  <2>2. /\ p[1] = Cmd("CMD1") /\ p[2] = Cmd("CMD2") /\ p[3] = Cmd("CMD3")
        /\ p[4] = Cmd("CMD9") /\ p[5] = Cmd("CMD7") /\ p[6] = Cmd("CMD16") /\ p[7] = Step("clock")
    BY DEF MmcProgram, InitMmc, Identify
  <2> HIDE DEF p
  <2>3. ASSUME NEW i \in 1 .. 6 PROVE <<Name(p[i]), Name(p[i + 1])>> \in Follows /\ p[i + 1].do # "wait"
    <3>1. i = 1 \/ i = 2 \/ i = 3 \/ i = 4 \/ i = 5 \/ i = 6
      OBVIOUS
    <3> QED BY <3>1, <2>2, StepNames DEF Follows
  <2> QED BY <2>1, <2>2, <2>3 DEF Program, p
<1>8. ASSUME NEW p, p = ReadBlock \/ p = WriteBlock
      PROVE  Program(p, DataSteps) /\ Len(p) = 4 /\ p[1] = Step("dat")
  <2>1. p \in Seq(DataSteps) /\ Len(p) = 4
    <3>1. CASE p = ReadBlock
      BY <3>1, <1>3, <1>4 DEF ReadBlock, DataCmds
    <3>2. CASE p = WriteBlock
      BY <3>2, <1>3, <1>4 DEF WriteBlock, DataCmds
    <3> QED BY <3>1, <3>2, <1>8
  <2>2. /\ p[1] = Step("dat") /\ p[4] = Step("data_done")
        /\ \/ p[2] = Cmd("CMD17") /\ p[3] = Step("read_ready")
           \/ p[2] = Cmd("CMD24") /\ p[3] = Step("write_ready")
    BY <1>8 DEF ReadBlock, WriteBlock
  <2>3. ASSUME NEW i \in 1 .. 3 PROVE <<Name(p[i]), Name(p[i + 1])>> \in Follows /\ p[i + 1].do # "wait"
    <3>1. i = 1 \/ i = 2 \/ i = 3
      OBVIOUS
    <3> QED BY <3>1, <2>2, StepNames DEF Follows
  <2> QED BY <2>1, <2>2, <2>3 DEF Program
<1>9. Program(<< Step("ok") >>, DataSteps)
  <2> DEFINE p == << Step("ok") >>
  <2>1. p \in Seq(DataSteps) /\ Len(p) = 1
    BY <1>4
  <2> HIDE DEF p
  <2>2. \A i \in 1 .. Len(p) - 1 : FALSE
    BY <2>1
  <2> QED BY <2>1, <2>2 DEF Program, p
<1> QED BY <1>5, <1>6, <1>7, <1>8, <1>9

\* The head of a program and what is left of it.
LEMMA HeadTail ==
  ASSUME NEW S, NEW p, Program(p, S), p # << >>
  PROVE  /\ Head(p) = p[1] /\ p[1] \in S
         /\ Program(Tail(p), S)
         /\ Tail(p) # << >> => <<Name(p[1]), Name(Tail(p)[1])>> \in Follows /\ Tail(p)[1].do # "wait"
<1> DEFINE n == Len(p)
           t == Tail(p)
<1>1. p \in Seq(S) /\ n \in Nat /\ n >= 1 /\ Head(p) = p[1] /\ p[1] \in S
  BY DEF Program
<1>2. t \in Seq(S) /\ Len(t) = n - 1 /\ \A i \in 1 .. n - 1 : t[i] = p[i + 1]
  BY <1>1
<1>3. \A i \in 1 .. n - 1 : <<Name(p[i]), Name(p[i + 1])>> \in Follows /\ p[i + 1].do # "wait"
  BY DEF Program
<1> HIDE DEF n, t
<1>4. ASSUME NEW i \in 1 .. Len(t) - 1 PROVE <<Name(t[i]), Name(t[i + 1])>> \in Follows /\ t[i + 1].do # "wait"
  <2>1. i \in 1 .. n - 1 /\ i + 1 \in 1 .. n - 1
    BY <1>1, <1>2
  <2>2. t[i] = p[i + 1] /\ t[i + 1] = p[(i + 1) + 1]
    BY <2>1, <1>2
  <2> QED BY <2>1, <2>2, <1>3
<1>5. Program(t, S)
  BY <1>2, <1>4 DEF Program
<1>6. ASSUME t # << >> PROVE <<Name(p[1]), Name(t[1])>> \in Follows /\ t[1].do # "wait"
  <2>1. Len(t) # 0
    BY <1>2, <1>6
  <2>2. 1 \in 1 .. n - 1 /\ 1 + 1 = 2
    BY <2>1, <1>1, <1>2
  <2>3. t[1] = p[2]
    BY <2>2, <1>2
  <2> QED BY <2>2, <2>3, <1>3
<1> QED BY <1>1, <1>5, <1>6 DEF t

\* Two programs in a row.
LEMMA InARow ==
  ASSUME NEW S, NEW u, NEW t, Program(u, S), Program(t, S), u # << >>,
         t # << >> => <<Name(u[Len(u)]), Name(t[1])>> \in Follows /\ t[1].do # "wait"
  PROVE  Program(u \o t, S) /\ u \o t # << >> /\ (u \o t)[1] = u[1]
<1> DEFINE n == Len(u)
           k == Len(t)
           r == u \o t
<1>1. u \in Seq(S) /\ t \in Seq(S) /\ n \in Nat /\ n >= 1 /\ k \in Nat
  BY DEF Program
<1>2. /\ r \in Seq(S) /\ Len(r) = n + k /\ (\A i \in 1 .. n : r[i] = u[i])
      /\ \A i \in n + 1 .. n + k : r[i] = t[i - n]
  BY <1>1
<1>3. \A i \in 1 .. n - 1 : <<Name(u[i]), Name(u[i + 1])>> \in Follows /\ u[i + 1].do # "wait"
  BY DEF Program
<1>4. \A i \in 1 .. k - 1 : <<Name(t[i]), Name(t[i + 1])>> \in Follows /\ t[i + 1].do # "wait"
  BY DEF Program
<1>5. k # 0 => <<Name(u[n]), Name(t[1])>> \in Follows /\ t[1].do # "wait"
  BY <1>1
<1> HIDE DEF n, k, r
<1>6. ASSUME NEW i \in 1 .. Len(r) - 1 PROVE <<Name(r[i]), Name(r[i + 1])>> \in Follows /\ r[i + 1].do # "wait"
  <2>1. CASE i < n
    <3>1. i \in 1 .. n /\ i + 1 \in 1 .. n /\ i \in 1 .. n - 1
      BY <2>1, <1>1
    <3> QED BY <3>1, <1>2, <1>3
  <2>2. CASE i = n
    <3>1. i \in 1 .. n /\ i + 1 \in n + 1 .. n + k /\ (i + 1) - n = 1 /\ k # 0
      BY <2>2, <1>1, <1>2
    <3>2. r[i] = u[n] /\ r[i + 1] = t[1]
      BY <2>2, <3>1, <1>2
    <3> QED BY <3>1, <3>2, <1>5
  <2>3. CASE i > n
    <3> DEFINE j == i - n
    <3>1. i \in n + 1 .. n + k /\ i + 1 \in n + 1 .. n + k /\ (i + 1) - n = j + 1 /\ j \in 1 .. k - 1
      BY <2>3, <1>1, <1>2
    <3>2. r[i] = t[j] /\ r[i + 1] = t[j + 1]
      BY <3>1, <1>2
    <3> HIDE DEF j
    <3> QED BY <3>1, <3>2, <1>4
  <2> QED BY <2>1, <2>2, <2>3, <1>1
<1>7. r # << >> /\ r[1] = u[1]
  <2>1. Len(r) # 0 /\ 1 \in 1 .. n
    BY <1>1, <1>2
  <2> QED BY <2>1, <1>2
<1> QED BY <1>2, <1>6, <1>7 DEF Program, r

\* The kinds of steps, by what a driver's call is.
LEMMA CallKinds ==
  ASSUME TypeOK, call # Idle
  PROVE  /\ call.op = "init" <=> call \in InitCalls
         /\ call.op \in {"read", "write"} <=> call \in DataCalls
         /\ call.op = "init" => Program(prog, InitSteps)
         /\ call.op \in {"read", "write"} => Program(prog, DataSteps)
         /\ call.op \in {"init", "read", "write"}
BY DEF TypeOK, InitCalls, DataCalls

LEMMA InitHead ==
  ASSUME NEW h \in InitSteps
  PROVE  /\ h.do \in {"send", "wait", "reset", "clock"}
         /\ h.do = "send" => h.idx \in InitCmds /\ h = Cmd(h.idx) /\ Name(h) = h.idx
         /\ h.do = "wait" => h.idx \in InitCmds /\ h = Wait(h.idx) /\ Name(h) = h.idx
         /\ h.do \in {"reset", "clock"} => Name(h) = h.do
         /\ Name(h) \in InitCmds \cup {"reset", "clock"}
         /\ Name(h) \in InitCmds => h.do \in {"send", "wait"} /\ h.idx = Name(h)
         /\ Name(h) \in {"reset", "clock"} => h.do = Name(h)
BY DEF InitSteps, InitCmds, Cmd, Wait, Step, Name

LEMMA DataHead ==
  ASSUME NEW h \in DataSteps
  PROVE  /\ h.do \in {"send", "wait", "dat", "read_ready", "write_ready", "data_done", "ok"}
         /\ h.do = "send" => h.idx \in DataCmds /\ h = Cmd(h.idx) /\ Name(h) = h.idx
         /\ h.do = "wait" => h.idx \in DataCmds /\ h = Wait(h.idx) /\ Name(h) = h.idx
         /\ h.do \notin {"send", "wait"} => Name(h) = h.do
         /\ Name(h) \in DataCmds => h.do \in {"send", "wait"} /\ h.idx = Name(h)
         /\ Name(h) \notin DataCmds => h.do = Name(h)
BY DEF DataSteps, DataCmds, Cmd, Wait, Step, Name

\* What the driver is at.
LEMMA AtFacts ==
  ASSUME TypeOK, NEW d, At(d)
  PROVE  /\ call # Idle /\ prog # << >> /\ prog[1].do = d /\ Head(prog) = prog[1]
         /\ d \in {"reset", "clock"} => call.op = "init"
         /\ d \in {"dat", "read_ready", "write_ready", "data_done", "ok"} => call.op \in {"read", "write"}
         /\ call.op = "init" => prog[1] \in InitSteps /\ Program(Tail(prog), InitSteps)
         /\ call.op \in {"read", "write"} => prog[1] \in DataSteps /\ Program(Tail(prog), DataSteps)
         /\ Tail(prog) # << >> => <<Name(prog[1]), Name(Tail(prog)[1])>> \in Follows /\ Tail(prog)[1].do # "wait"
<1>1. call # Idle /\ prog # << >>
  BY DEF At
<1>2. /\ call.op = "init" => Program(prog, InitSteps)
      /\ call.op \in {"read", "write"} => Program(prog, DataSteps)
      /\ call.op \in {"init", "read", "write"}
  BY <1>1, CallKinds
<1>3. CASE call.op = "init"
  <2>1. Head(prog) = prog[1] /\ prog[1] \in InitSteps /\ Program(Tail(prog), InitSteps)
    BY <1>1, <1>2, <1>3, HeadTail
  <2>2. Tail(prog) # << >> => <<Name(prog[1]), Name(Tail(prog)[1])>> \in Follows /\ Tail(prog)[1].do # "wait"
    BY <1>1, <1>2, <1>3, HeadTail
  <2>3. prog[1].do = d
    BY <2>1 DEF At
  <2>4. d \in {"send", "wait", "reset", "clock"}
    BY <2>1, <2>3, InitHead
  <2> QED BY <1>1, <1>3, <2>1, <2>2, <2>3, <2>4
<1>4. CASE call.op \in {"read", "write"}
  <2>1. Head(prog) = prog[1] /\ prog[1] \in DataSteps /\ Program(Tail(prog), DataSteps)
    BY <1>1, <1>2, <1>4, HeadTail
  <2>2. Tail(prog) # << >> => <<Name(prog[1]), Name(Tail(prog)[1])>> \in Follows /\ Tail(prog)[1].do # "wait"
    BY <1>1, <1>2, <1>4, HeadTail
  <2>3. prog[1].do = d
    BY <2>1 DEF At
  <2>4. d \in {"send", "wait", "dat", "read_ready", "write_ready", "data_done", "ok"}
    BY <2>1, <2>3, DataHead
  <2> QED BY <1>1, <1>4, <2>1, <2>2, <2>3, <2>4
<1> QED BY <1>2, <1>3, <1>4

\* A call ends.
LEMMA EndStep ==
  ASSUME EInv, call' = Idle, UNCHANGED <<slot, mode, cmd, dat, csd, overrun>>,
         "CMD_DONE" \in ints' => "CMD_DONE" \in ints
  PROVE  EInv'
<1>1. Idle.op = "none"
  BY DEF Idle
<1>2. TypeOK'
  BY DEF EInv, TypeOK
<1>3. Addressing'
  BY DEF EInv, Addressing, Sent
<1> QED BY <1>1, <1>2, <1>3 DEF EInv, Initialising, Transfer

\* init goes on with a program that is not at a wait.
LEMMA InitNext ==
  ASSUME EInv, UNCHANGED <<slot, mode>>, cmd' \in {cmd, None}, dat' \in {dat, None}, overrun' \in BOOLEAN,
         call' \in InitCalls, Program(prog', InitSteps), Addressing',
         prog' # << >> =>
           /\ prog'[1].do # "wait"
           /\ call'.fallback # None => Name(prog'[1]) \in {"CMD55", "ACMD41"}
           /\ Name(prog'[1]) \notin {"CMD55", "CMD1", "reset"} => cmd' = None
           /\ Name(prog'[1]) \in Before => mode # "tran" /\ ~ Sent("CMD7")'
           /\ Name(prog'[1]) = "CMD7" => (mode = "stby" => csd' = slot.addressing)
  PROVE  EInv'
<1>1. TypeOK'
  BY DEF EInv, TypeOK
<1>2. call'.op = "init"
  BY DEF InitCalls
<1>3. Initialising'
  <2>1. CASE prog' = << >>
    BY <2>1 DEF Initialising
  <2>2. CASE prog' # << >>
    <3> DEFINE h == prog'[1]
    <3>1. h \in InitSteps
      BY <2>2, HeadTail
    <3>2. h # Wait("CMD0") /\ h # Wait("CMD9")
      BY <2>2, StepNames
    <3>3. h = Cmd("CMD7") => Name(h) = "CMD7"
      BY StepNames
    <3>4. (h.do = "clock" \/ (h.do = "send" /\ h.idx \notin {"CMD55", "CMD1"})) => cmd' = None
      <4>1. h.do = "clock" => Name(h) = "clock"
        BY <3>1, InitHead
      <4>2. h.do = "send" => Name(h) = h.idx /\ h.idx \in InitCmds
        BY <3>1, InitHead
      <4> QED BY <2>2, <4>1, <4>2 DEF InitCmds
    <3> HIDE DEF h
    <3> QED BY <2>2, <3>2, <3>3, <3>4 DEF Initialising, h
  <2> QED BY <2>1, <2>2
<1>4. Transfer'
  BY <1>2 DEF Transfer
<1> QED BY <1>1, <1>3, <1>4 DEF EInv

\* A call fails: it ends, or init_mmc follows init_sd_v1.
LEMMA FailStep ==
  ASSUME EInv, call # Idle, prog # << >>, Failed(call), UNCHANGED <<slot, mode, cmd, dat, csd, overrun>>,
         "CMD_DONE" \in ints' => "CMD_DONE" \in ints
  PROVE  EInv'
<1>1. CASE call.op = "init" /\ call.fallback # None
  <2>1. call \in InitCalls /\ call.fallback = MmcProgram
    BY <1>1, CallKinds DEF EInv, InitCalls
  <2>2. call' = [call EXCEPT !.fallback = None, !.retries = MaxRetries] /\ prog' = MmcProgram
    BY <1>1, <2>1 DEF Failed
  <2>3. call' \in InitCalls /\ call'.fallback = None
    <3>1. MaxRetries \in Int
      BY EmmcAssumption
    <3>2. call'.fallback = None
      BY <2>1, <2>2 DEF InitCalls
    <3>3. call' = [op |-> "init", retries |-> MaxRetries, fallback |-> None]
      BY <2>1, <2>2 DEF InitCalls
    <3> QED BY <3>1, <3>2, <3>3 DEF InitCalls
  <2>4. Program(prog', InitSteps) /\ prog'[1] = Cmd("CMD1")
    BY <2>2, Programs
  <2>5. Addressing'
    BY DEF EInv, Addressing, Sent
  <2>6. Name(prog[1]) \in Before
    BY <1>1 DEF EInv, Initialising, Before
  <2>7. mode # "tran" /\ ~ Sent("CMD7")'
    BY <1>1, <2>6 DEF EInv, Initialising, Sent
  <2>8. prog'[1].do = "send" /\ Name(prog'[1]) = "CMD1"
    BY <2>4, StepNames
  <2>9. overrun' \in BOOLEAN
    BY DEF EInv, TypeOK
  <2> QED BY <2>3, <2>4, <2>5, <2>7, <2>8, <2>9, InitNext
<1>2. CASE ~ (call.op = "init" /\ call.fallback # None)
  <2>1. call' = Idle
    BY <1>2 DEF Failed
  <2> QED BY <2>1, EndStep
<1> QED BY <1>1, <1>2
\* The calls start.
LEMMA StartSteps ==
  ASSUME EInv, NEW lba \in Nat, NEW n \in Int, init \/ read_blocks(lba, n) \/ write_blocks(lba, n)
  PROVE  EInv'
<1>0. UNCHANGED <<slot, mode, cmd, dat, ints, resp, csd, overrun>>
  BY DEF init, read_blocks, write_blocks, hw
<1>1. Addressing' /\ overrun \in BOOLEAN
  BY <1>0 DEF EInv, TypeOK, Addressing, Sent
<1>2. CASE init
  <2>1. call' = [op |-> "init", retries |-> MaxRetries, fallback |-> None] /\ prog' = Start
    BY <1>2 DEF init
  <2>2. call' \in InitCalls /\ call'.fallback = None
    BY <2>1, EmmcAssumption DEF InitCalls
  <2>3. Program(prog', InitSteps) /\ prog'[1] = Step("reset")
    BY <2>1, Programs
  <2>4. prog'[1].do = "reset" /\ Name(prog'[1]) = "reset"
    BY <2>3, StepNames
  <2>5. "reset" \notin Before
    BY DEF Before
  <2> QED BY <1>0, <1>1, <2>2, <2>3, <2>4, <2>5, InitNext
<1>3. CASE read_blocks(lba, n) \/ write_blocks(lba, n)
  <2>1. \E o \in {"read", "write"} : call' = [op |-> o, lba |-> lba, left |-> n, moved |-> << >>]
    BY <1>3 DEF read_blocks, write_blocks
  <2>2. prog' = ReadBlock \/ prog' = WriteBlock
    BY <1>3 DEF read_blocks, write_blocks
  <2>3. /\ call' \in DataCalls /\ call'.op \in {"read", "write"} /\ call'.moved = << >>
    BY <2>1 DEF DataCalls
  <2>4. Program(prog', DataSteps) /\ prog'[1] = Step("dat")
    BY <2>2, Programs
  <2>5. prog'[1].do = "dat"
    BY <2>4, StepNames
  <2>6. TypeOK'
    BY <1>0, <2>3, <2>4 DEF EInv, TypeOK
  <2>7. Initialising'
    BY <2>3 DEF Initialising
  <2>8. slot \in Cards
    BY <1>3 DEF read_blocks, write_blocks, EInv, TypeOK
  <2>9. Moving(slot)'
    <3>1. Len(call'.moved) = 0
      BY <2>3
    <3>2. \A i \in 1 .. Len(call'.moved) : FALSE
      BY <3>1
    <3> QED BY <1>0, <3>2, <2>5 DEF Moving
  <2>10. Transfer'
    BY <1>0, <2>8, <2>9 DEF Transfer
  <2> QED BY <1>1, <2>6, <2>7, <2>10 DEF EInv
<1> QED BY <1>2, <1>3

LEMMA ResetStep ==
  ASSUME EInv, reset
  PROVE  EInv'
<1>1. /\ cmd' = None /\ dat' = None /\ ints' = {} /\ overrun' = FALSE /\ prog' = Tail(prog)
      /\ UNCHANGED <<slot, mode, resp, csd, call>>
  BY DEF reset
<1>2. /\ call # Idle /\ prog # << >> /\ prog[1].do = "reset" /\ call.op = "init"
      /\ prog[1] \in InitSteps /\ Program(Tail(prog), InitSteps)
  BY AtFacts DEF EInv, reset
<1>3. prog' # << >> => <<Name(prog[1]), Name(prog'[1])>> \in Follows /\ prog'[1].do # "wait"
  BY <1>1, AtFacts DEF EInv, reset
<1>4. Name(prog[1]) = "reset"
  BY <1>2, InitHead
<1>5. prog' # << >> => Name(prog'[1]) = "clock"
  BY <1>3, <1>4 DEF Follows
<1>6. call' \in InitCalls
  BY <1>1, <1>2, CallKinds DEF EInv
<1>7. call'.fallback = None
  BY <1>1, <1>2, <1>4 DEF EInv, Initialising
<1>8. Addressing'
  BY <1>1 DEF EInv, Addressing, Sent
<1>9. "clock" \notin Before
  BY DEF Before
<1>10. Program(prog', InitSteps)
  BY <1>1, <1>2
<1> QED BY <1>1, <1>3, <1>5, <1>6, <1>7, <1>8, <1>9, <1>10, InitNext

LEMMA ClockSteps ==
  ASSUME EInv, set_clock \/ no_clock
  PROVE  EInv'
<1>1. CASE set_clock
  <2>1. prog' = Tail(prog) /\ UNCHANGED <<slot, mode, cmd, dat, ints, resp, csd, call, overrun>>
    BY <1>1 DEF set_clock, hw
  <2>2. /\ call # Idle /\ prog # << >> /\ prog[1].do = "clock" /\ call.op = "init"
        /\ prog[1] \in InitSteps /\ Program(Tail(prog), InitSteps)
    BY <1>1, AtFacts DEF EInv, set_clock
  <2>3. prog' # << >> => <<Name(prog[1]), Name(prog'[1])>> \in Follows /\ prog'[1].do # "wait"
    BY <1>1, <2>1, AtFacts DEF EInv, set_clock
  <2>4. Name(prog[1]) = "clock"
    BY <2>2, InitHead
  <2>5. prog' # << >> => Name(prog'[1]) = "CMD0"
    BY <2>3, <2>4 DEF Follows
  <2>6. call' \in InitCalls
    BY <2>1, <2>2, CallKinds DEF EInv
  <2>7. call'.fallback = None /\ cmd' = None
    BY <2>1, <2>2, <2>4 DEF EInv, Initialising
  <2>8. Addressing' /\ overrun' \in BOOLEAN
    BY <2>1 DEF EInv, TypeOK, Addressing, Sent
  <2>9. "CMD0" \notin Before
    BY DEF Before
  <2>10. Program(prog', InitSteps)
    BY <2>1, <2>2
  <2> QED BY <2>1, <2>3, <2>5, <2>6, <2>7, <2>8, <2>9, <2>10, InitNext
<1>2. CASE no_clock
  <2>1. call # Idle /\ prog # << >> /\ Failed(call) /\ UNCHANGED <<slot, mode, cmd, dat, ints, csd, overrun>>
    BY <1>2 DEF no_clock, At, hw
  <2> QED BY <2>1, FailStep
<1> QED BY <1>1, <1>2

\* A step of a call that moves blocks keeps what is known of the card and of
\* the blocks moved, when it leaves these alone.
LEMMA DataNext ==
  ASSUME EInv, UNCHANGED <<slot, mode, cmd, dat, csd, call>>, overrun' \in BOOLEAN, overrun' = FALSE => overrun = FALSE,
         call \in DataCalls, prog # << >>, Program(prog', DataSteps),
         "CMD_DONE" \in ints' => "CMD_DONE" \in ints,
         prog[1].do # "data_done",
         prog' # << >> => prog'[1].do \notin {"wait", "data_done"},
         ASSUME NEW c \in Cards, Moving(c)
         PROVE  prog' # << >> => (prog'[1].do \in {"read_ready", "write_ready"} /\ "ERROR" \notin ints' => Fresh(c))
  PROVE  EInv'
<1>1. TypeOK'
  BY DEF EInv, TypeOK
<1>2. Addressing'
  BY DEF EInv, Addressing, Sent
<1>3. call.op \in {"read", "write"}
  BY DEF DataCalls
<1>4. Initialising'
  BY <1>3 DEF Initialising
<1>5. Transfer'
  <2> SUFFICES ASSUME ~ overrun' PROVE \E c \in Cards : Moving(c)'
    BY DEF Transfer
  <2>1. PICK c \in Cards : Moving(c)
    BY <1>3 DEF EInv, Transfer
  <2>2. prog' # << >> => (prog'[1].do \in {"read_ready", "write_ready"} /\ "ERROR" \notin ints' => Fresh(c))
    BY <2>1
  <2>3. Fresh(c) => Fresh(c)'
    BY DEF Fresh
  <2>4. prog' # << >> => Upto' = Upto
    BY DEF Upto
  <2>5. Moving(c)'
    BY <2>1, <2>2, <2>3, <2>4 DEF Moving, Sent
  <2> QED BY <2>5
<1> QED BY <1>1, <1>2, <1>4, <1>5 DEF EInv

LEMMA WaitDatStep ==
  ASSUME EInv, wait_dat
  PROVE  EInv'
<1>1. /\ ints' = {} /\ overrun' = (overrun \/ dat # None) /\ prog' = Tail(prog)
      /\ UNCHANGED <<slot, mode, cmd, dat, resp, csd, call>>
  BY DEF wait_dat
<1>2. /\ call # Idle /\ prog # << >> /\ prog[1].do = "dat" /\ call.op \in {"read", "write"}
      /\ prog[1] \in DataSteps /\ Program(Tail(prog), DataSteps)
  BY AtFacts DEF EInv, wait_dat
<1>3. prog' # << >> => <<Name(prog[1]), Name(prog'[1])>> \in Follows /\ prog'[1].do # "wait"
  BY <1>1, AtFacts DEF EInv, wait_dat
<1>4. Name(prog[1]) = "dat"
  BY <1>2, DataHead
<1>5. prog' # << >> => Name(prog'[1]) \in {"CMD17", "CMD24"}
  BY <1>3, <1>4 DEF Follows
<1>6. prog' # << >> => prog'[1] \in DataSteps
  BY <1>1, <1>2, HeadTail
<1>7. prog' # << >> => prog'[1].do = "send"
  BY <1>3, <1>5, <1>6, DataHead DEF DataCmds
<1>8. call \in DataCalls
  BY <1>2, CallKinds DEF EInv
<1>9. overrun' \in BOOLEAN /\ (overrun' = FALSE => overrun = FALSE)
  BY <1>1 DEF EInv, TypeOK
<1>10. Program(prog', DataSteps)
  BY <1>1, <1>2
<1> QED BY <1>1, <1>2, <1>7, <1>8, <1>9, <1>10, DataNext
LEMMA SendStep ==
  ASSUME EInv, send_cmd
  PROVE  EInv'
<1> DEFINE i == prog[1].idx
           t == Tail(prog)
<1>1. /\ call # Idle /\ prog # << >> /\ prog[1].do = "send" /\ Head(prog) = prog[1]
      /\ call.op = "init" => prog[1] \in InitSteps /\ Program(t, InitSteps)
      /\ call.op \in {"read", "write"} => prog[1] \in DataSteps /\ Program(t, DataSteps)
      /\ t # << >> => <<Name(prog[1]), Name(t[1])>> \in Follows /\ t[1].do # "wait"
  BY AtFacts DEF EInv, send_cmd
<1>2. /\ ints' = {} /\ overrun' = (overrun \/ cmd # None) /\ prog' = << Wait(i) >> \o t
      /\ cmd' = IF cmd # None THEN cmd
                ELSE [idx |-> i, arg |-> IF call.op = "init" THEN 0 ELSE Address(call.lba)]
      /\ UNCHANGED <<slot, mode, dat, resp, csd, call>>
  BY <1>1 DEF send_cmd, Wait
<1>3. /\ call.op = "init" => call \in InitCalls
      /\ call.op \in {"read", "write"} => call \in DataCalls
      /\ call.op \in {"init", "read", "write"}
  BY <1>1, CallKinds DEF EInv
<1>4. Name(prog[1]) = i /\ Name(Wait(i)) = i /\ Wait(i).do = "wait" /\ Wait(i).idx = i /\ prog[1] = Cmd(i)
  BY <1>1, <1>3, StepNames, InitHead, DataHead
<1>5. /\ call.op = "init" => i \in InitCmds
      /\ call.op \in {"read", "write"} => i \in DataCmds
  BY <1>1, InitHead, DataHead
<1>6. /\ call.op = "init" => Wait(i) \in InitSteps
      /\ call.op \in {"read", "write"} => Wait(i) \in DataSteps
  BY <1>5 DEF InitSteps, DataSteps
<1> HIDE DEF i, t
<1>7. ASSUME NEW S, Wait(i) \in S, Program(t, S) PROVE Program(prog', S) /\ prog' # << >> /\ prog'[1] = Wait(i)
  <2> DEFINE u == << Wait(i) >>
  <2>1. u \in Seq(S) /\ Len(u) = 1 /\ u # << >> /\ u[1] = Wait(i)
    BY <1>7
  <2> HIDE DEF u
  <2>2. \A k \in 1 .. Len(u) - 1 : FALSE
    BY <2>1
  <2>3. Program(u, S)
    BY <2>1, <2>2 DEF Program
  <2>4. t # << >> => <<Name(u[Len(u)]), Name(t[1])>> \in Follows /\ t[1].do # "wait"
    BY <2>1, <1>1, <1>4
  <2>5. prog' = u \o t
    BY <1>2 DEF u
  <2>6. Program(u \o t, S) /\ u \o t # << >> /\ (u \o t)[1] = u[1]
    BY <2>1, <2>3, <2>4, <1>7, InARow
  <2> QED BY <2>1, <2>5, <2>6
<1>8. prog' # << >> /\ prog'[1] = Wait(i)
  BY <1>1, <1>3, <1>6, <1>7
<1>9. CASE call.op = "init"
  <2>1. cmd' \in [idx : InitCmds \cup DataCmds \cup {"lost"}, arg : Nat] \cup {None}
    BY <1>2, <1>5, <1>9 DEF EInv, TypeOK
  <2>2. TypeOK'
    BY <1>1, <1>2, <1>3, <1>6, <1>7, <1>9, <2>1 DEF EInv, TypeOK
  <2>3. (cmd = None /\ cmd' # None => cmd'.idx = i) /\ (cmd # None => cmd' = cmd)
    BY <1>2
  <2>4. cmd # None => i \in {"CMD55", "CMD1"}
    BY <1>1, <1>4, <1>9 DEF EInv, Initialising, i
  <2>5. Addressing'
    <3>1. ASSUME mode = "stby", Sent("CMD7")' PROVE csd = slot.addressing
      <4>1. CASE cmd = None
        <5>1. prog[1] = Cmd("CMD7")
          BY <3>1, <4>1, <2>3, <1>4 DEF Sent
        <5> QED BY <1>1, <1>9, <3>1, <5>1 DEF EInv, Initialising
      <4>2. CASE cmd # None
        BY <3>1, <4>2, <2>3 DEF EInv, Addressing, Sent
      <4> QED BY <4>1, <4>2
    <3> QED BY <1>2, <3>1 DEF EInv, Addressing
  <2>6. call.fallback # None => i \in {"CMD55", "ACMD41"}
    BY <1>1, <1>4, <1>9 DEF EInv, Initialising
  <2>7. i \in Before => mode # "tran" /\ ~ Sent("CMD7")'
    <3>1. ASSUME i \in Before PROVE mode # "tran" /\ ~ Sent("CMD7")
      BY <3>1, <1>1, <1>4, <1>9 DEF EInv, Initialising
    <3>2. "CMD7" \notin Before
      BY DEF Before
    <3> QED BY <3>1, <3>2, <2>3 DEF Sent
  <2>8. i \in {"CMD0", "CMD9"} => (cmd' # None => cmd'.idx = i)
    BY <2>3, <2>4
  <2>9. Wait(i) # Cmd("CMD7") /\ (Wait(i) = Wait("CMD0") => i = "CMD0") /\ (Wait(i) = Wait("CMD9") => i = "CMD9")
    BY DEF Wait, Cmd
  <2>10. Initialising'
    BY <1>2, <1>4, <1>8, <2>6, <2>7, <2>8, <2>9 DEF Initialising
  <2>11. Transfer'
    BY <1>2, <1>9 DEF Transfer
  <2> QED BY <2>2, <2>5, <2>10, <2>11 DEF EInv
<1>10. CASE call.op \in {"read", "write"}
  <2>1. call.lba \in Nat /\ BLOCK_SIZE \in Nat \ {0}
    BY <1>3, <1>10, EmmcAssumption DEF DataCalls
  <2>2. Address(call.lba) \in Nat
    BY <2>1, Quotient DEF Address
  <2>3. cmd' \in [idx : InitCmds \cup DataCmds \cup {"lost"}, arg : Nat] \cup {None}
    BY <1>2, <1>5, <1>10, <2>2 DEF EInv, TypeOK
  <2>4. TypeOK'
    BY <1>1, <1>2, <1>3, <1>6, <1>7, <1>10, <2>3 DEF EInv, TypeOK
  <2>5. cmd = None /\ cmd' # None => cmd'.idx \in DataCmds /\ cmd'.arg = Address(call.lba)
    BY <1>2, <1>5, <1>10
  <2>6. cmd # None => cmd' = cmd
    BY <1>2
  <2>7. Sent("CMD7")' => Sent("CMD7")
    BY <2>5, <2>6 DEF Sent, DataCmds
  <2>8. Addressing'
    BY <1>2, <2>7 DEF EInv, Addressing
  <2>9. Initialising'
    BY <1>2, <1>10 DEF Initialising
  <2>10. Transfer'
    <3> SUFFICES ASSUME ~ overrun' PROVE \E c \in Cards : Moving(c)'
      BY DEF Transfer
    <3>1. ~ overrun /\ cmd = None
      BY <1>2
    <3>2. PICK c \in Cards : Moving(c)
      BY <1>10, <3>1 DEF EInv, Transfer
    <3>3. Upto' = Upto
      BY <1>1, <1>2, <1>4, <1>8 DEF Upto
    <3>4. Address(call.lba)' = Address(call.lba)
      BY <1>2 DEF Address
    <3>5. Moving(c)'
      BY <1>1, <1>2, <1>4, <1>8, <2>5, <2>7, <3>1, <3>2, <3>3, <3>4 DEF Moving
    <3> QED BY <3>5
  <2> QED BY <2>4, <2>8, <2>9, <2>10 DEF EInv
<1> QED BY <1>3, <1>9, <1>10

\* The driver waits for the answer to idx.
LEMMA WaitFacts ==
  ASSUME EInv, NEW idx, Waiting(idx)
  PROVE  /\ call # Idle /\ prog # << >> /\ prog[1] = Wait(idx) /\ prog[1].do = "wait" /\ Head(prog) = prog[1]
         /\ Name(prog[1]) = idx
         /\ idx \in InitCmds \cup DataCmds
         /\ idx \in InitCmds => call.op = "init" /\ call \in InitCalls /\ Program(Tail(prog), InitSteps)
         /\ idx \in DataCmds => call.op \in {"read", "write"} /\ call \in DataCalls /\ Program(Tail(prog), DataSteps)
         /\ Tail(prog) # << >> => <<idx, Name(Tail(prog)[1])>> \in Follows /\ Tail(prog)[1].do # "wait"
<1>1. /\ call # Idle /\ prog # << >> /\ prog[1].do = "wait" /\ Head(prog) = prog[1]
      /\ call.op = "init" => prog[1] \in InitSteps /\ Program(Tail(prog), InitSteps)
      /\ call.op \in {"read", "write"} => prog[1] \in DataSteps /\ Program(Tail(prog), DataSteps)
      /\ Tail(prog) # << >> => <<Name(prog[1]), Name(Tail(prog)[1])>> \in Follows /\ Tail(prog)[1].do # "wait"
  BY AtFacts DEF EInv, Waiting
<1>2. prog[1].idx = idx
  BY <1>1 DEF Waiting
<1>3. /\ call.op = "init" => call \in InitCalls
      /\ call.op \in {"read", "write"} => call \in DataCalls
      /\ call.op \in {"init", "read", "write"}
  BY <1>1, CallKinds DEF EInv
<1>4. call.op = "init" => idx \in InitCmds /\ prog[1] = Wait(idx) /\ Name(prog[1]) = idx
  BY <1>1, <1>2, InitHead
<1>5. call.op \in {"read", "write"} => idx \in DataCmds /\ prog[1] = Wait(idx) /\ Name(prog[1]) = idx
  BY <1>1, <1>2, DataHead
<1>6. InitCmds \cap DataCmds = {}
  BY DEF InitCmds, DataCmds
<1>7. idx \in InitCmds => call.op = "init"
  BY <1>3, <1>5, <1>6
<1>8. idx \in DataCmds => call.op \in {"read", "write"}
  BY <1>3, <1>4, <1>6
<1> QED BY <1>1, <1>3, <1>4, <1>5, <1>7, <1>8
\* The last answer is in: no command is on its way.
LEMMA DoneFacts ==
  ASSUME EInv, Done
  PROVE  /\ cmd = None /\ "CMD_DONE" \in ints /\ "ERROR" \notin ints /\ "CMD_DONE" \notin ints'
         /\ ~ Sent("CMD7") /\ ("ERROR" \notin ints')
BY DEF EInv, Addressing, Done, Sent

LEMMA Cmd8Step ==
  ASSUME EInv, cmd8_done
  PROVE  EInv'
<1>1. prog' = SdProgram /\ UNCHANGED <<slot, mode, cmd, dat, resp, csd, call, overrun>>
  BY DEF cmd8_done, SdProgram
<1>2. "CMD8" \in InitCmds /\ "CMD8" \in Before
  BY DEF InitCmds, Before
<1>3. prog # << >> /\ prog[1] = Wait("CMD8") /\ Name(prog[1]) = "CMD8" /\ call.op = "init" /\ call \in InitCalls
  BY <1>2, WaitFacts DEF cmd8_done
<1>4. mode # "tran" /\ ~ Sent("CMD7")' /\ call'.fallback = None
  BY <1>1, <1>2, <1>3 DEF EInv, Initialising, Sent
<1>5. Program(prog', InitSteps) /\ prog'[1] = Cmd("CMD55")
  BY <1>1, Programs
<1>6. prog'[1].do = "send" /\ Name(prog'[1]) = "CMD55"
  BY <1>5, StepNames
<1>7. "CMD_DONE" \notin ints'
  BY DoneFacts DEF cmd8_done
<1>8. Addressing' /\ overrun' \in BOOLEAN
  BY <1>1, <1>7 DEF EInv, TypeOK, Addressing, Sent
<1> QED BY <1>1, <1>3, <1>4, <1>5, <1>6, <1>8, InitNext

LEMMA ReadyStep ==
  ASSUME EInv, ready_done
  PROVE  EInv'
<1>0. PICK idx \in {"ACMD41", "CMD1"} : Waiting(idx)
  BY DEF ready_done
<1>1. /\ Done /\ UNCHANGED <<slot, mode, cmd, dat, resp, csd, overrun>>
  BY DEF ready_done
<1>2. idx \in InitCmds /\ idx \in Before
  BY DEF InitCmds, Before
<1>3. /\ call # Idle /\ prog # << >> /\ prog[1] = Wait(idx) /\ Name(prog[1]) = idx /\ call.op = "init" /\ call \in InitCalls
      /\ prog[1].idx = idx /\ Head(prog) = prog[1]
  <2>1. /\ call # Idle /\ prog # << >> /\ prog[1] = Wait(idx) /\ Name(prog[1]) = idx /\ call.op = "init" /\ call \in InitCalls
        /\ Head(prog) = prog[1]
    BY <1>0, <1>2, WaitFacts
  <2> QED BY <2>1 DEF Wait
<1>4. /\ Program(Tail(prog), InitSteps)
      /\ Tail(prog) # << >> => <<idx, Name(Tail(prog)[1])>> \in Follows /\ Tail(prog)[1].do # "wait"
  BY <1>0, <1>2, WaitFacts
<1>5. Tail(prog) # << >> => Name(Tail(prog)[1]) = "CMD2"
  BY <1>4 DEF Follows
<1>6. cmd' = None /\ "CMD_DONE" \notin ints'
  BY <1>1, DoneFacts
<1>7. mode # "tran" /\ ~ Sent("CMD7")' /\ (call.fallback # None => idx = "ACMD41")
  BY <1>2, <1>3, <1>6 DEF EInv, Initialising, Sent
<1>8. Addressing' /\ overrun' \in BOOLEAN
  BY <1>1, <1>6 DEF EInv, TypeOK, Addressing, Sent
<1>9. CASE resp = "ready"
  <2>1. prog' = Tail(prog) /\ call' = [call EXCEPT !.fallback = None]
    BY <1>9 DEF ready_done
  <2>2. call'.fallback = None
    BY <1>3, <2>1 DEF InitCalls
  <2>3. call' = [op |-> "init", retries |-> call.retries, fallback |-> None] /\ call.retries \in Int
    BY <1>3, <2>1 DEF InitCalls
  <2>4. call' \in InitCalls
    BY <2>3 DEF InitCalls
  <2>5. Program(prog', InitSteps)
    BY <2>1, <1>4
  <2>6. prog' # << >> => prog'[1].do # "wait" /\ Name(prog'[1]) = "CMD2"
    BY <2>1, <1>4, <1>5
  <2> QED BY <1>1, <1>6, <1>7, <1>8, <2>2, <2>4, <2>5, <2>6, InitNext
<1>10. CASE resp # "ready" /\ Retried(call).retries = 0
  <2>1. Failed(call)
    BY <1>10 DEF ready_done
  <2> QED BY <1>1, <1>3, <1>6, <2>1, FailStep
<1>11. CASE resp # "ready" /\ Retried(call).retries # 0
  <2> DEFINE u == IF idx = "CMD1" THEN InitMmc ELSE InitSd
             t == Tail(prog)
  <2>1. call' = Retried(call)
    BY <1>11 DEF ready_done
  <2>2. prog' = u \o t
    <3>1. Waiting("CMD1") <=> idx = "CMD1"
      BY <1>0, <1>3 DEF Waiting
    <3>2. prog' = (IF Waiting("CMD1") THEN InitMmc ELSE InitSd) \o Tail(prog)
      BY <1>11 DEF ready_done
    <3> QED BY <3>1, <3>2
  <2>3. call'.fallback = call.fallback /\ call' \in InitCalls
    <3>1. call' = [op |-> "init", retries |-> call.retries - 1, fallback |-> call.fallback]
      BY <2>1, <1>3 DEF Retried, InitCalls
    <3>2. call.retries - 1 \in Int /\ call.fallback \in {None, MmcProgram}
      BY <1>3 DEF InitCalls
    <3> QED BY <3>1, <3>2 DEF InitCalls
  <2>4. /\ Program(u, InitSteps) /\ u # << >> /\ Name(u[Len(u)]) = idx
        /\ u[1] = Cmd(IF idx = "CMD1" THEN "CMD1" ELSE "CMD55")
    <3>1. \A i \in InitCmds : Cmd(i) \in InitSteps
      BY DEF InitSteps
    <3>2. CASE idx = "CMD1"
      <4>1. u \in Seq(InitSteps) /\ Len(u) = 1 /\ u # << >> /\ u[1] = Cmd("CMD1")
        BY <3>1, <3>2 DEF InitMmc, InitCmds
      <4> HIDE DEF u
      <4>2. \A k \in 1 .. Len(u) - 1 : FALSE
        BY <4>1
      <4> QED BY <3>2, <4>1, <4>2, StepNames DEF Program
    <3>3. CASE idx = "ACMD41"
      <4>1. u \in Seq(InitSteps) /\ Len(u) = 2 /\ u # << >> /\ u[1] = Cmd("CMD55") /\ u[2] = Cmd("ACMD41")
        BY <3>1, <3>3 DEF InitSd, InitCmds
      <4> HIDE DEF u
      <4>2. \A k \in 1 .. Len(u) - 1 : k = 1
        BY <4>1
      <4>3. <<Name(u[1]), Name(u[1 + 1])>> \in Follows /\ u[1 + 1].do # "wait"
        BY <4>1, StepNames DEF Follows
      <4>4. Program(u, InitSteps)
        BY <4>1, <4>2, <4>3 DEF Program
      <4> QED BY <3>3, <4>1, <4>4, StepNames
    <3> QED BY <3>2, <3>3
  <2> HIDE DEF u, t
  <2>5. t # << >> => <<Name(u[Len(u)]), Name(t[1])>> \in Follows /\ t[1].do # "wait"
    BY <1>4, <2>4 DEF t
  <2>6. Program(t, InitSteps)
    BY <1>4 DEF t
  <2>7. Program(prog', InitSteps) /\ prog'[1] = u[1]
    BY <2>2, <2>4, <2>5, <2>6, InARow
  <2>8. prog'[1].do = "send" /\ Name(prog'[1]) = IF idx = "CMD1" THEN "CMD1" ELSE "CMD55"
    BY <2>4, <2>7, StepNames
  <2>9. call'.fallback # None => Name(prog'[1]) = "CMD55"
    BY <1>7, <2>3, <2>8
  <2> QED BY <1>1, <1>6, <1>7, <1>8, <2>3, <2>7, <2>8, <2>9, InitNext
<1> QED BY <1>9, <1>10, <1>11

LEMMA CsdStep ==
  ASSUME EInv, csd_done
  PROVE  EInv'
<1>1. /\ Done /\ UNCHANGED <<slot, mode, cmd, dat, resp, overrun>>
  BY DEF csd_done
<1>2. "CMD9" \in InitCmds /\ "CMD9" \in Before
  BY DEF InitCmds, Before
<1>3. /\ call # Idle /\ prog # << >> /\ prog[1] = Wait("CMD9") /\ Name(prog[1]) = "CMD9" /\ call.op = "init"
      /\ call \in InitCalls /\ Program(Tail(prog), InitSteps)
      /\ Tail(prog) # << >> => <<"CMD9", Name(Tail(prog)[1])>> \in Follows /\ Tail(prog)[1].do # "wait"
  BY <1>2, WaitFacts DEF csd_done
<1>4. cmd' = None /\ "CMD_DONE" \in ints /\ "CMD_DONE" \notin ints' /\ ~ Sent("CMD7")'
  BY <1>1, DoneFacts DEF Sent
<1>5. mode # "tran" /\ call.fallback = None /\ (mode = "stby" => resp = slot.addressing)
  BY <1>2, <1>3, <1>4 DEF EInv, Initialising
<1>6. CASE resp = "unknown"
  <2>1. Failed(call) /\ csd' = csd
    BY <1>6 DEF csd_done
  <2> QED BY <1>1, <1>3, <1>4, <2>1, FailStep
<1>7. CASE resp # "unknown"
  <2>1. csd' = resp /\ prog' = Tail(prog) /\ call' = call
    BY <1>7 DEF csd_done
  <2>2. Addressing' /\ overrun' \in BOOLEAN
    BY <1>1, <1>4, <1>5, <2>1 DEF EInv, TypeOK, Addressing
  <2>3. prog' # << >> => prog'[1].do # "wait" /\ Name(prog'[1]) = "CMD7"
    BY <1>3, <2>1 DEF Follows
  <2>4. mode = "stby" => csd' = slot.addressing
    BY <1>5, <2>1
  <2>5. Program(prog', InitSteps) /\ call' \in InitCalls /\ call'.fallback = None
    BY <1>3, <1>5, <2>1
  <2>6. "CMD7" \notin Before
    BY DEF Before
  <2> QED BY <1>1, <1>4, <2>2, <2>3, <2>4, <2>5, <2>6, InitNext
<1> QED BY <1>6, <1>7
LEMMA CmdDoneStep ==
  ASSUME EInv, cmd_done
  PROVE  EInv'
<1>1. /\ Done /\ prog' = Tail(prog) /\ UNCHANGED <<slot, mode, cmd, dat, resp, csd, call, overrun>>
  BY DEF cmd_done
<1> DEFINE idx == Head(prog).idx
<1>2. Waiting(idx) /\ idx \notin {"CMD8", "ACMD41", "CMD1", "CMD9"}
  BY DEF cmd_done, Waiting
<1> HIDE DEF idx
<1>3. /\ call # Idle /\ prog # << >> /\ prog[1] = Wait(idx) /\ prog[1].do = "wait" /\ Name(prog[1]) = idx
      /\ idx \in InitCmds \cup DataCmds
  BY <1>2, WaitFacts
<1>4. /\ idx \in InitCmds => call.op = "init" /\ call \in InitCalls /\ Program(Tail(prog), InitSteps)
      /\ idx \in DataCmds => call.op \in {"read", "write"} /\ call \in DataCalls /\ Program(Tail(prog), DataSteps)
      /\ Tail(prog) # << >> => <<idx, Name(Tail(prog)[1])>> \in Follows /\ Tail(prog)[1].do # "wait"
  BY <1>2, WaitFacts
<1>5. cmd = None /\ "CMD_DONE" \in ints /\ "ERROR" \notin ints /\ "CMD_DONE" \notin ints' /\ ~ Sent("CMD7")
  BY <1>1, DoneFacts
<1>6. Addressing' /\ overrun' \in BOOLEAN
  BY <1>1, <1>5 DEF EInv, TypeOK, Addressing, Sent
<1>7. CASE idx \in InitCmds
  <2>1. idx \in {"CMD0", "CMD55", "CMD2", "CMD3", "CMD7", "CMD16"}
    BY <1>2, <1>7 DEF InitCmds
  <2>2. prog' # << >> => <<idx, Name(prog'[1])>> \in Follows /\ prog'[1].do # "wait"
    BY <1>1, <1>4
  <2>3. prog' # << >> => <<idx, Name(prog'[1])>> \in {<<"CMD0", "CMD8">>, <<"CMD55", "ACMD41">>, <<"CMD2", "CMD3">>,
                                                     <<"CMD3", "CMD9">>, <<"CMD7", "CMD16">>, <<"CMD16", "clock">>}
    BY <2>1, <2>2 DEF Follows
  <2>4. call.fallback # None => idx = "CMD55"
    BY <1>3, <1>4, <1>7, <2>1 DEF EInv, Initialising
  <2>5. idx \in {"CMD0", "CMD55", "CMD2", "CMD3"} => mode # "tran"
    <3>1. idx \in Before => mode # "tran"
      BY <1>3, <1>4, <1>7 DEF EInv, Initialising
    <3>2. idx = "CMD0" => mode = "idle"
      BY <1>3, <1>4, <1>5, <1>7 DEF EInv, Initialising
    <3> QED BY <3>1, <3>2 DEF Before
  <2>6. prog' # << >> => (Name(prog'[1]) \in Before => mode # "tran")
    BY <2>3, <2>5 DEF Before
  <2>7. prog' # << >> => Name(prog'[1]) # "CMD7"
    BY <2>3
  <2>8. prog' # << >> => (call'.fallback # None => Name(prog'[1]) \in {"CMD55", "ACMD41"})
    BY <1>1, <2>3, <2>4
  <2>9. cmd' = None /\ ~ Sent("CMD7")'
    BY <1>1, <1>5 DEF Sent
  <2>10. call' \in InitCalls /\ Program(prog', InitSteps)
    BY <1>1, <1>4, <1>7
  <2> QED BY <1>1, <1>6, <2>2, <2>6, <2>7, <2>8, <2>9, <2>10, InitNext
<1>8. CASE idx \in DataCmds
  <2>1. prog' # << >> => <<idx, Name(prog'[1])>> \in Follows /\ prog'[1].do # "wait"
    BY <1>1, <1>4
  <2>2. prog' # << >> => Name(prog'[1]) \in {"read_ready", "write_ready"}
    BY <1>8, <2>1 DEF Follows, DataCmds
  <2>3. call \in DataCalls /\ Program(prog', DataSteps)
    BY <1>1, <1>4, <1>8
  <2>4. prog' # << >> => prog'[1] \in DataSteps
    BY <2>3, HeadTail
  <2>5. prog' # << >> => prog'[1].do \in {"read_ready", "write_ready"}
    BY <2>2, <2>4, DataHead DEF DataCmds
  <2>6. ASSUME NEW c \in Cards, Moving(c) PROVE Fresh(c)
    BY <2>6, <1>3, <1>5 DEF Moving
  <2> QED BY <1>1, <1>3, <1>5, <1>6, <2>3, <2>5, <2>6, DataNext
<1> QED BY <1>3, <1>7, <1>8

LEMMA CmdFailedStep ==
  ASSUME EInv, cmd_failed
  PROVE  EInv'
<1>1. /\ ints' = ints \ {"ERROR"} /\ UNCHANGED <<slot, mode, cmd, dat, resp, csd, overrun>>
  BY DEF cmd_failed
<1>2. call # Idle /\ prog # << >>
  BY DEF cmd_failed, At
<1>3. CASE Head(prog).idx = "CMD8"
  <2>1. prog' = SdProgram /\ call' = [call EXCEPT !.fallback = MmcProgram]
    BY <1>3 DEF cmd_failed, SdProgram, MmcProgram
  <2>2. "CMD8" \in InitCmds /\ "CMD8" \in Before
    BY DEF InitCmds, Before
  <2>3. Waiting("CMD8")
    BY <1>3 DEF cmd_failed, Waiting
  <2>4. Name(prog[1]) = "CMD8" /\ call.op = "init" /\ call \in InitCalls
    BY <2>2, <2>3, WaitFacts
  <2>5. mode # "tran" /\ ~ Sent("CMD7")'
    BY <1>1, <1>2, <2>2, <2>4 DEF EInv, Initialising, Sent
  <2>6. call' = [op |-> "init", retries |-> call.retries, fallback |-> MmcProgram] /\ call.retries \in Int
    BY <2>1, <2>4 DEF InitCalls
  <2>7. call' \in InitCalls
    BY <2>6 DEF InitCalls
  <2>8. Program(prog', InitSteps) /\ prog'[1] = Cmd("CMD55")
    BY <2>1, Programs
  <2>9. prog'[1].do = "send" /\ Name(prog'[1]) = "CMD55"
    BY <2>8, StepNames
  <2>10. Addressing' /\ overrun' \in BOOLEAN
    BY <1>1 DEF EInv, TypeOK, Addressing, Sent
  <2> QED BY <1>1, <2>5, <2>7, <2>8, <2>9, <2>10, InitNext
<1>4. CASE Head(prog).idx # "CMD8"
  <2>1. Failed(call)
    BY <1>4 DEF cmd_failed
  <2> QED BY <1>1, <1>2, <2>1, FailStep
<1> QED BY <1>3, <1>4

LEMMA DataMovedStep ==
  ASSUME EInv, data_moved
  PROVE  EInv'
<1>1. PICK d \in {"read_ready", "write_ready"} : At(d)
  BY DEF data_moved
<1> DEFINE p == IF dat = None THEN None ELSE dat.place
           s == call.moved
           n == Len(s)
<1>2. /\ "ERROR" \notin ints /\ ints' = ints \ {"READ_READY", "WRITE_READY"} /\ prog' = Tail(prog)
      /\ call' = [call EXCEPT !.moved = Append(@, p)]
      /\ dat' = IF dat = None THEN None ELSE [dat EXCEPT !.drained = TRUE]
      /\ UNCHANGED <<slot, mode, cmd, resp, csd, overrun>>
  BY DEF data_moved
<1>3. /\ call # Idle /\ prog # << >> /\ prog[1].do = d /\ call.op \in {"read", "write"}
      /\ prog[1] \in DataSteps /\ Program(Tail(prog), DataSteps)
  BY <1>1, AtFacts DEF EInv
<1>4. prog' # << >> => <<Name(prog[1]), Name(prog'[1])>> \in Follows /\ prog'[1].do # "wait"
  BY <1>1, <1>2, AtFacts DEF EInv
<1>5. Name(prog[1]) = d
  BY <1>3, DataHead
<1>6. prog' # << >> => Name(prog'[1]) = "data_done"
  BY <1>4, <1>5 DEF Follows
<1>7. Program(prog', DataSteps)
  BY <1>2, <1>3
<1>8. prog' # << >> => prog'[1].do = "data_done"
  <2>1. prog' # << >> => prog'[1] \in DataSteps
    BY <1>7, HeadTail
  <2> QED BY <2>1, <1>6, DataHead DEF DataCmds
<1>9. call \in DataCalls
  BY <1>3, CallKinds DEF EInv
<1>10. s \in Seq(Places \cup {None}) /\ n \in Nat /\ call.lba \in Nat
  BY <1>9 DEF DataCalls
<1>11. dat \in Transfers \cup {None} /\ (dat # None => dat.place \in Places)
  BY DEF EInv, TypeOK, Transfers
<1>12. p \in Places \cup {None}
  BY <1>11
<1>13. /\ Append(s, p) \in Seq(Places \cup {None}) /\ Len(Append(s, p)) = n + 1
       /\ \A i \in 1 .. n : Append(s, p)[i] = s[i]
       /\ Append(s, p)[n + 1] = p
  <2> HIDE DEF s, p
  <2> QED BY <1>10, <1>12
<1>14. call' = [op |-> call.op, lba |-> call.lba, left |-> call.left, moved |-> Append(s, p)]
  BY <1>2, <1>9 DEF DataCalls
<1> HIDE DEF p, n, s
<1>15. /\ call' \in DataCalls /\ call'.op \in {"read", "write"} /\ call'.moved = Append(s, p) /\ call'.lba = call.lba
  BY <1>9, <1>13, <1>14 DEF DataCalls
<1>16. dat' \in Transfers \cup {None}
  BY <1>2, <1>11 DEF Transfers
<1>17. TypeOK'
  BY <1>2, <1>7, <1>15, <1>16 DEF EInv, TypeOK
<1>18. Addressing'
  BY <1>2 DEF EInv, Addressing, Sent
<1>19. Initialising'
  BY <1>15 DEF Initialising
<1>20. Transfer'
  <2> SUFFICES ASSUME ~ overrun PROVE \E c \in Cards : Moving(c)'
    BY <1>2 DEF Transfer
  <2>1. PICK c \in Cards : Moving(c)
    BY <1>3 DEF EInv, Transfer
  <2>2. Fresh(c)
    BY <2>1, <1>2, <1>3 DEF Moving
  <2>3. p = [card |-> c.id, block |-> call.lba]
    <3>1. dat # None /\ dat.place \in Places /\ p = dat.place
      BY <2>2, <1>11 DEF Fresh, p
    <3> QED BY <3>1, <2>2 DEF Fresh, Places
  <2>4. Upto = call.lba
    BY <1>3 DEF Upto
  <2>5. \A i \in 1 .. n : s[i] = [card |-> c.id, block |-> call.lba - n + i - 1]
    BY <2>1, <2>4, <1>3 DEF Moving, s, n
  <2>6. ASSUME NEW i \in 1 .. n + 1
        PROVE  Append(s, p)[i] = [card |-> c.id, block |-> (call.lba + 1) - (n + 1) + i - 1]
    <3>1. CASE i \in 1 .. n
      <4>1. (call.lba + 1) - (n + 1) + i - 1 = call.lba - n + i - 1
        BY <1>10
      <4> QED BY <3>1, <4>1, <2>5, <1>13
    <3>2. CASE i = n + 1
      <4>1. (call.lba + 1) - (n + 1) + i - 1 = call.lba
        BY <3>2, <1>10
      <4> QED BY <3>2, <4>1, <2>3, <1>13
    <3>3. n \in Nat
      BY <1>10
    <3>4. i \in 1 .. n \/ i = n + 1
      BY <3>3
    <3> QED BY <3>1, <3>2, <3>4
  <2>7. prog' # << >> => Upto' = call.lba + 1
    BY <1>8, <1>15 DEF Upto
  <2>8. prog' # << >> => \A i \in 1 .. Len(call'.moved) :
                           call'.moved[i] = [card |-> c.id, block |-> Upto' - Len(call'.moved) + i - 1]
    BY <1>13, <1>15, <2>6, <2>7
  <2>9. (mode' = "tran" \/ Sent("CMD7")') => slot' = c
    BY <2>1, <1>2 DEF Moving, Sent
  <2>10. Moving(c)'
    BY <1>8, <2>8, <2>9 DEF Moving
  <2> QED BY <2>10
<1> QED BY <1>17, <1>18, <1>19, <1>20 DEF EInv

LEMMA DataDoneStep ==
  ASSUME EInv, data_done
  PROVE  EInv'
<1>1. /\ ints' = ints \ {"DATA_DONE"} /\ call' = NextLba(call)
      /\ prog' = IF call.left = 1 THEN << Step("ok") >> ELSE IF call.op = "read" THEN ReadBlock ELSE WriteBlock
      /\ UNCHANGED <<slot, mode, cmd, dat, resp, csd, overrun>>
  BY DEF data_done
<1>2. call # Idle /\ prog # << >> /\ prog[1].do = "data_done" /\ call.op \in {"read", "write"}
  BY AtFacts DEF EInv, data_done
<1>3. call \in DataCalls
  BY <1>2, CallKinds DEF EInv
<1>4. call' = [op |-> call.op, lba |-> call.lba + 1, left |-> call.left - 1, moved |-> call.moved]
  BY <1>1, <1>3 DEF NextLba, DataCalls
<1>5. /\ call.lba \in Nat /\ call.lba + 1 \in Nat /\ call.left - 1 \in Int /\ call.moved \in Seq(Places \cup {None})
  BY <1>3 DEF DataCalls
<1>6. /\ call' \in DataCalls /\ call'.op \in {"read", "write"} /\ call'.moved = call.moved /\ call'.lba = call.lba + 1
  BY <1>2, <1>4, <1>5 DEF DataCalls
<1>7. Program(prog', DataSteps) /\ prog'[1] \in {Step("ok"), Step("dat")}
  <2>1. << Step("ok") >>[1] = Step("ok")
    OBVIOUS
  <2>2. CASE call.left = 1
    BY <1>1, <2>1, <2>2, Programs
  <2>3. CASE call.left # 1
    <3>1. prog' = ReadBlock \/ prog' = WriteBlock
      BY <1>1, <2>3
    <3> QED BY <3>1, Programs
  <2> QED BY <2>2, <2>3
<1>8. prog'[1].do \in {"ok", "dat"}
  BY <1>7, StepNames
<1>9. TypeOK'
  BY <1>1, <1>6, <1>7 DEF EInv, TypeOK
<1>10. Addressing'
  BY <1>1 DEF EInv, Addressing, Sent
<1>11. Initialising'
  BY <1>6 DEF Initialising
<1>12. Transfer'
  <2> SUFFICES ASSUME ~ overrun PROVE \E c \in Cards : Moving(c)'
    BY <1>1 DEF Transfer
  <2>1. PICK c \in Cards : Moving(c)
    BY <1>2 DEF EInv, Transfer
  <2>2. Upto = call.lba + 1 /\ Upto' = call.lba + 1
    BY <1>2, <1>6, <1>8 DEF Upto
  <2>3. (mode' = "tran" \/ Sent("CMD7")') => slot' = c
    BY <2>1, <1>1 DEF Moving, Sent
  <2>4. \A i \in 1 .. Len(call'.moved) :
          call'.moved[i] = [card |-> c.id, block |-> Upto' - Len(call'.moved) + i - 1]
    BY <2>1, <2>2, <1>2, <1>6 DEF Moving
  <2>5. Moving(c)'
    BY <1>8, <2>3, <2>4 DEF Moving
  <2> QED BY <2>5
<1> QED BY <1>9, <1>10, <1>11, <1>12 DEF EInv

LEMMA EndSteps ==
  ASSUME EInv, data_failed \/ return_ok
  PROVE  EInv'
<1>1. CASE data_failed
  <2>1. /\ ints' = ints \ {"ERROR"} /\ Failed(call) /\ UNCHANGED <<slot, mode, cmd, dat, resp, csd, overrun>>
        /\ call # Idle /\ prog # << >>
    BY <1>1 DEF data_failed, At
  <2> QED BY <2>1, FailStep
<1>2. CASE return_ok
  <2>1. call' = Idle /\ UNCHANGED <<slot, mode, cmd, dat, ints, csd, overrun>>
    BY <1>2 DEF return_ok, hw
  <2> QED BY <2>1, EndStep
<1> QED BY <1>1, <1>2

-----------------------------------------------------------------------------
(***************************************************************************)
(* The theorem.                                                            *)
(***************************************************************************)
LEMMA InvInit == Init => EInv
<1> SUFFICES ASSUME Init PROVE EInv
  OBVIOUS
<1>1. Idle.op = "none"
  BY DEF Idle
<1>2. TypeOK
  BY DEF Init, TypeOK
<1>3. Addressing
  BY DEF Init, Addressing, Sent
<1> QED BY <1>1, <1>2, <1>3 DEF Init, EInv, Initialising, Transfer

LEMMA InvNext == EInv /\ [Next]_vars => EInv'
<1> SUFFICES ASSUME EInv, [Next]_vars PROVE EInv'
  OBVIOUS
<1>1. CASE init
  <2>1. 0 \in Nat /\ 0 \in Int
    OBVIOUS
  <2> QED BY <1>1, <2>1, StartSteps
<1>2. ASSUME NEW lba \in Blocks, NEW n \in 1 .. BlockCount, read_blocks(lba, n) \/ write_blocks(lba, n)
      PROVE  EInv'
  <2>1. lba \in Nat /\ n \in Int
    BY EmmcAssumption DEF Blocks
  <2> QED BY <1>2, <2>1, StartSteps
<1>3. CASE DriverStep
  BY <1>3, ResetStep, ClockSteps, WaitDatStep, SendStep, Cmd8Step, ReadyStep, CsdStep, CmdDoneStep, CmdFailedStep,
     DataMovedStep, DataDoneStep, EndSteps DEF DriverStep
<1>4. CASE Hardware
  BY <1>4, CardSteps, TransferStep, ControllerSteps DEF Hardware
<1>5. CASE UNCHANGED vars
  <2>1. UNCHANGED <<slot, mode, cmd, dat, ints, resp, csd, call, prog, overrun>>
    BY <1>5 DEF vars
  <2>2. TypeOK' /\ Addressing' /\ Initialising'
    BY <2>1 DEF EInv, TypeOK, Addressing, Initialising, Sent
  <2>3. \A c \in Cards : Moving(c) => Moving(c)'
    BY <2>1 DEF Moving, Sent, Upto, Fresh, Address
  <2> QED BY <2>1, <2>2, <2>3 DEF EInv, Transfer
<1> QED BY <1>1, <1>2, <1>3, <1>4, <1>5 DEF Next

\* The invariant: what the driver believes of the card in the slot is so
\* whenever the card can act on it.
THEOREM Invariance == Spec => []EInv
<1> QED BY InvInit, InvNext, PTL DEF Spec

LEMMA BlocksAtOk == EInv => RightBlocks
<1> SUFFICES ASSUME EInv, At("ok"), ~ overrun
             PROVE  \E c \in Cards : \A i \in DOMAIN call.moved :
                      call.moved[i] = [card |-> c.id, block |-> call.lba - Len(call.moved) + i - 1]
  BY DEF RightBlocks, MovedAsAsked
<1>1. call # Idle /\ prog # << >> /\ prog[1].do = "ok" /\ call.op \in {"read", "write"}
  BY AtFacts DEF EInv
<1>2. PICK c \in Cards : Moving(c)
  BY <1>1 DEF EInv, Transfer
<1>3. Upto = call.lba
  BY <1>1 DEF Upto
<1>4. DOMAIN call.moved = 1 .. Len(call.moved)
  <2>1. call \in DataCalls
    BY <1>1, CallKinds DEF EInv
  <2> QED BY <2>1 DEF DataCalls
<1> QED BY <1>1, <1>2, <1>3, <1>4 DEF Moving

\* read_blocks and write_blocks (emmc.rs) return Ok only when they moved the
\* blocks asked for, in order and all of one card, for any cards, failures,
\* lost answers and changes of the card, unless a command was sent to a line
\* the driver had given up waiting for.
THEOREM BlocksMoved == Spec => []RightBlocks
<1> QED BY Invariance, BlocksAtOk, PTL
-----------------------------------------------------------------------------
(***************************************************************************)
(* The clocks and alarms, for every width of the counter, every frequency  *)
(* and reload value of the PIT, and any time between two accesses.         *)
(***************************************************************************)

\* What the PIT's driver makes of the count at a time.
PitValue(t) == Timer!Microseconds(PitMax - Timer!Count(t))

\* The reading under way.  The halves of the counter were read in this order,
\* and the second reading of the high half bounds the time from both sides.
ReadRecords ==
  \/ read = Timer!NoRead
  \/ read \in [at : {"first"}, began : Nat]
  \/ read \in [at : {"lo", "lo2"}, began : Nat, hi : Nat] /\ device = "counter"
  \/ read \in [at : {"hi2"}, began : Nat, hi : Nat, lo : Nat] /\ device = "counter"
  \/ read \in [at : {"value"}, began : Nat, v : Nat]
ReadSoFar ==
  /\ read # Timer!NoRead => read.began <= time
  /\ read.at \in {"lo", "hi2"} => read.began < (read.hi + 1) * Word
  /\ read.at = "lo" => read.hi * Word <= time
  /\ read.at = "hi2" => \E t \in read.began .. time : read.lo = t % Word /\ read.hi * Word <= t
  /\ read.at = "lo2" => read.began <= read.hi * Word /\ read.hi * Word <= time
  /\ read.at = "value" /\ device = "counter" => read.v \in read.began .. time
  /\ read.at = "value" /\ device = "pit" => \E t \in read.began .. time : read.v = PitValue(t)

\* The delay under way, and that a reading belongs to one.
DelayOver(t) ==
  \/ device = "counter" /\ t - delay.began >= delay.us
  \/ device = "pit" /\ (t - delay.began) * Million > (delay.us - 1) * PIT_FREQUENCY_HZ
  \/ device = "pit" /\ t \div Reload > delay.began \div Reload
DelayRecords ==
  /\ \/ delay = Timer!NoDelay
     \/ /\ delay \in [at : {"start", "wait", "done"}, us : Nat, began : Nat, start : Nat]
        /\ device \in {"counter", "pit"}
  /\ delay.at \in {"start", "wait"} <=> read # Timer!NoRead
  /\ delay.at = "start" => delay.began <= read.began
  /\ delay.at = "wait" /\ device = "counter" => delay.began <= delay.start /\ delay.start <= read.began
  /\ delay.at = "wait" /\ device = "pit" =>
       \E t \in delay.began .. read.began : delay.start = PitValue(t)
  /\ delay.at = "done" => delay.began <= time /\ DelayOver(time)

\* The alarm that was set: the register holds the low half of when it is due.
AlarmSet ==
  /\ alarm = Timer!NoAlarm \/ alarm \in [due : Nat, missed : BOOLEAN]
  /\ arm = Timer!NoArm \/ arm \in [at : {"clear", "compare"}, us : Nat, clo : Nat]
  /\ arm.at = "compare" => alarm = Timer!NoAlarm
  /\ alarm # Timer!NoAlarm => /\ compare = alarm.due % Word
                              /\ time >= alarm.due => pending \/ alarm.missed

TimerInv == time \in Nat /\ device \in {"counter", "pit", "compare"} /\ ReadRecords /\ ReadSoFar /\ DelayRecords /\ AlarmSet

\* Quotient and remainder.
LEMMA DivMod ==
  ASSUME NEW d \in Nat \ {0}, NEW i \in Nat
  PROVE  /\ i \div d \in Nat /\ i % d \in Nat /\ i % d < d
         /\ (i \div d) * d \in Nat /\ i = (i \div d) * d + (i % d)
         /\ (i \div d) * d <= i /\ i < (i \div d + 1) * d
<1>1. i \div d \in Nat
  OBVIOUS
<1>2. i % d \in Nat /\ i % d < d
  OBVIOUS
<1>3. i % d = i - d * (i \div d)
  BY d > 0, SMTT(30)
<1> DEFINE q == i \div d
           r == i % d
           m == q * d
<1>4. m \in Nat /\ d * q = m /\ (q + 1) * d = m + d
  BY <1>1
<1>5. i = m + r
  <2> HIDE DEF m, q, r
  <2>1. r = i - m
    BY <1>3, <1>4 DEF q, r
  <2> QED BY <1>2, <1>4, <2>1 DEF r
<1>6. m <= i /\ i < m + d
  <2> HIDE DEF m, q, r
  <2> QED BY <1>2, <1>4, <1>5 DEF r
<1> QED BY <1>1, <1>2, <1>4, <1>5, <1>6

\* A product of naturals grows with a factor.
LEMMA ProductGrows ==
  ASSUME NEW d \in Nat, NEW a \in Int, NEW b \in Int, a <= b
  PROVE  a * d <= b * d
<1>1. b - a \in Nat /\ (b - a) * d = b * d - a * d
  OBVIOUS
<1>2. (b - a) * d >= 0
  BY <1>1
<1>3. a * d \in Int /\ b * d \in Int
  OBVIOUS
<1> QED BY <1>1, <1>2, <1>3

\* Where a number lies between multiples, there is its quotient.
LEMMA QuotientBounds ==
  ASSUME NEW d \in Nat \ {0}, NEW i \in Nat, NEW q \in Nat
  PROVE  /\ q * d <= i => q <= i \div d
         /\ i < (q + 1) * d => i \div d <= q
<1> DEFINE k == i \div d
<1>1. k \in Nat /\ k * d \in Nat /\ k * d <= i /\ i < (k + 1) * d
  BY DivMod
<1> HIDE DEF k
<1>2. ASSUME q * d <= i, k < q PROVE FALSE
  <2>1. (k + 1) * d <= q * d
    BY <1>1, <1>2, ProductGrows
  <2>2. (k + 1) * d \in Nat /\ q * d \in Nat
    BY <1>1
  <2> DEFINE x == (k + 1) * d
             y == q * d
  <2>3. x \in Nat /\ y \in Nat /\ x <= y /\ y <= i /\ i < x
    BY <1>1, <1>2, <2>1, <2>2
  <2> HIDE DEF x, y
  <2> QED BY <2>3
<1>3. ASSUME i < (q + 1) * d, q < k PROVE FALSE
  <2>1. (q + 1) * d <= k * d
    BY <1>1, <1>3, ProductGrows
  <2> DEFINE x == (q + 1) * d
             y == k * d
  <2>3. x \in Nat /\ y \in Nat /\ x <= y /\ y <= i /\ i < x
    BY <1>1, <1>3, <2>1
  <2> HIDE DEF x, y
  <2> QED BY <2>3
<1> QED BY <1>1, <1>2, <1>3 DEF k

\* The quotient grows with the number.
LEMMA QuotientGrows ==
  ASSUME NEW d \in Nat \ {0}, NEW i \in Nat, NEW j \in Nat, i <= j
  PROVE  i \div d <= j \div d
<1> DEFINE k == i \div d
<1>1. k \in Nat /\ k * d \in Nat /\ k * d <= i
  BY DivMod
<1> HIDE DEF k
<1> DEFINE x == k * d
<1>2. x \in Nat /\ x <= j
  <2> HIDE DEF x
  <2>1. x \in Nat /\ x <= i
    BY <1>1 DEF x
  <2> QED BY <2>1
<1>3. k * d <= j
  BY <1>2
<1> QED BY <1>1, <1>3, QuotientBounds DEF k

\* A number in the same period has the same quotient, so it is the sum of the
\* period's start and its own remainder.
LEMMA SameHalf ==
  ASSUME NEW d \in Nat \ {0}, NEW t \in Nat, NEW u \in Nat, t <= u, (u \div d) * d <= t
  PROVE  t = (u \div d) * d + (t % d)
<1>1. u \div d \in Nat
  BY DivMod
<1>2. (u \div d) <= (t \div d)
  BY <1>1, QuotientBounds
<1>3. t \div d <= u \div d
  BY QuotientGrows
<1>4. t \div d = u \div d
  <2>1. t \div d \in Nat
    BY DivMod
  <2> QED BY <1>1, <1>2, <1>3, <2>1
<1>5. t = (t \div d) * d + (t % d)
  BY DivMod
<1> QED BY <1>4, <1>5
\* A reading in progress is none of those that are not.
LEMMA ReadNames ==
  ASSUME ReadRecords
  PROVE  /\ read # Timer!NoRead => read.began \in Nat
         /\ read = Timer!NoRead <=> read.at = "none"
         /\ read.at \in {"lo", "lo2", "hi2"} => read.hi \in Nat /\ device = "counter"
         /\ read.at = "hi2" => read.lo \in Nat
         /\ read.at = "value" => read.v \in Nat
<1>1. CASE read = Timer!NoRead
  BY <1>1 DEF Timer!NoRead
<1>2. CASE read \in [at : {"first"}, began : Nat]
  BY <1>2 DEF Timer!NoRead
<1>3. CASE read \in [at : {"lo", "lo2"}, began : Nat, hi : Nat] /\ device = "counter"
  BY <1>3 DEF Timer!NoRead
<1>4. CASE read \in [at : {"hi2"}, began : Nat, hi : Nat, lo : Nat] /\ device = "counter"
  BY <1>4 DEF Timer!NoRead
<1>5. CASE read \in [at : {"value"}, began : Nat, v : Nat]
  BY <1>5 DEF Timer!NoRead
<1> QED BY <1>1, <1>2, <1>3, <1>4, <1>5 DEF ReadRecords

LEMMA DelayNames ==
  ASSUME DelayRecords
  PROVE  /\ delay = Timer!NoDelay <=> delay.at = "none"
         /\ delay # Timer!NoDelay => /\ delay \in [at : {"start", "wait", "done"}, us : Nat, began : Nat, start : Nat]
                                     /\ device \in {"counter", "pit"}
  BY DEF DelayRecords, Timer!NoDelay

\* A delay that was long enough stays so.
LEMMA StaysOver ==
  ASSUME Timer!TimerConstants, NEW t \in Nat, DelayOver(t),
         delay.us \in Nat, delay.began \in Nat
  PROVE  DelayOver(t + 1)
<1>1. CASE device = "counter" /\ t - delay.began >= delay.us
  BY <1>1 DEF DelayOver
<1>2. CASE device = "pit" /\ (t - delay.began) * Million > (delay.us - 1) * PIT_FREQUENCY_HZ
  <2> DEFINE x == (t - delay.began) * Million
             y == (t + 1 - delay.began) * Million
             z == (delay.us - 1) * PIT_FREQUENCY_HZ
  <2>1. Million \in Nat /\ PIT_FREQUENCY_HZ \in Nat
    BY DEF Timer!TimerConstants
  <2>2. x <= y
    BY <2>1, ProductGrows
  <2>3. x \in Int /\ y \in Int /\ z \in Int
    BY <2>1
  <2>4. x > z
    BY <1>2
  <2> HIDE DEF x, y, z
  <2>5. y > z
    BY <2>2, <2>3, <2>4
  <2> QED BY <1>2, <2>5 DEF DelayOver, y, z
<1>3. CASE device = "pit" /\ t \div Reload > delay.began \div Reload
  <2>1. Reload \in Nat \ {0}
    BY DEF Timer!TimerConstants
  <2>2. t \div Reload <= (t + 1) \div Reload
    BY <2>1, QuotientGrows
  <2>3. t \div Reload \in Nat /\ (t + 1) \div Reload \in Nat /\ delay.began \div Reload \in Nat
    BY <2>1
  <2> QED BY <1>3, <2>2, <2>3 DEF DelayOver
<1> QED BY <1>1, <1>2, <1>3 DEF DelayOver

LEMMA TickKeeps ==
  ASSUME Timer!TimerConstants, TimerInv, Timer!tick
  PROVE  TimerInv'
<1>1. /\ time' = time + 1 /\ time' \in Nat /\ time \in Nat /\ pending' = (pending \/ (time + 1) % Word = compare)
      /\ device' = device /\ read' = read /\ delay' = delay /\ compare' = compare /\ arm' = arm /\ alarm' = alarm
  BY DEF TimerInv, Timer!tick, Timer!Lo
<1>2. ReadRecords'
  BY <1>1 DEF TimerInv, ReadRecords
<1>3. /\ read # Timer!NoRead => read.began \in Nat
      /\ read.at \in {"lo", "lo2", "hi2"} => read.hi \in Nat
      /\ read.at \in {"lo", "lo2", "hi2", "value"} => read # Timer!NoRead
  BY ReadNames DEF TimerInv
<1>4. ReadSoFar'
  <2>1. read # Timer!NoRead => /\ read.began <= time + 1
                               /\ \A t \in read.began .. time : t \in read.began .. time + 1
    BY <1>1, <1>3 DEF TimerInv, ReadSoFar
  <2>2. read.at \in {"lo", "lo2"} => read.hi * Word <= time + 1
    <3> SUFFICES ASSUME read.at \in {"lo", "lo2"} PROVE read.hi * Word <= time + 1
      OBVIOUS
    <3> DEFINE x == read.hi * Word
    <3>1. x \in Nat /\ x <= time
      BY <1>3 DEF TimerInv, ReadSoFar, Timer!TimerConstants
    <3> HIDE DEF x
    <3>2. x <= time + 1
      BY <1>1, <3>1
    <3> QED BY <3>2 DEF x
  <2>3. read.at \in {"lo", "hi2"} => read.began < (read.hi + 1) * Word
    BY DEF TimerInv, ReadSoFar
  <2>4. read.at = "hi2" => \E t \in read.began .. time + 1 : read.lo = t % Word /\ read.hi * Word <= t
    BY <1>3, <2>1 DEF TimerInv, ReadSoFar
  <2>5. read.at = "lo2" => read.began <= read.hi * Word
    BY DEF TimerInv, ReadSoFar
  <2>6. read.at = "value" /\ device = "counter" => read.v \in read.began .. time + 1
    BY <1>3, <2>1 DEF TimerInv, ReadSoFar
  <2>7. read.at = "value" /\ device = "pit" => \E t \in read.began .. time + 1 : read.v = PitValue(t)
    BY <1>3, <2>1 DEF TimerInv, ReadSoFar
  <2> QED BY <1>1, <2>1, <2>2, <2>3, <2>4, <2>5, <2>6, <2>7 DEF ReadSoFar, PitValue
<1>5. DelayRecords'
  <2>1. delay.at = "done" => delay.began <= time + 1 /\ DelayOver(time + 1)
    <3> SUFFICES ASSUME delay.at = "done" PROVE delay.began <= time + 1 /\ DelayOver(time + 1)
      OBVIOUS
    <3>1. delay.us \in Nat /\ delay.began \in Nat
      BY DelayNames DEF TimerInv, Timer!NoDelay
    <3>2. delay.began <= time /\ DelayOver(time)
      BY DEF TimerInv, DelayRecords
    <3> QED BY <1>1, <3>1, <3>2, StaysOver
  <2>2. DelayOver(time + 1) => DelayOver(time)'
    BY <1>1 DEF DelayOver
  <2> QED BY <1>1, <2>1, <2>2 DEF TimerInv, DelayRecords, PitValue
<1>6. AlarmSet'
  <2>1. ASSUME alarm # Timer!NoAlarm, time + 1 >= alarm.due PROVE pending' \/ alarm.missed
    <3>1. alarm.due \in Nat /\ compare = alarm.due % Word /\ (time >= alarm.due => pending \/ alarm.missed)
      BY <2>1 DEF TimerInv, AlarmSet
    <3>2. CASE time >= alarm.due
      BY <1>1, <3>1, <3>2
    <3>3. CASE time + 1 = alarm.due
      BY <1>1, <3>1, <3>3
    <3> QED BY <1>1, <2>1, <3>1, <3>2, <3>3
  <2> QED BY <1>1, <2>1 DEF TimerInv, AlarmSet
<1> QED BY <1>1, <1>2, <1>4, <1>5, <1>6 DEF TimerInv

\* A step of a reading leaves the rest alone.
LEMMA StepKeeps ==
  ASSUME TimerInv, NEW r, Timer!Step(r), read # Timer!NoRead, r # Timer!NoRead, r.began = read.began,
         ReadRecords', ReadSoFar'
  PROVE  TimerInv'
<1>1. /\ read' = r /\ device' = device /\ time' = time /\ delay' = delay /\ compare' = compare
      /\ pending' = pending /\ arm' = arm /\ alarm' = alarm
  BY DEF Timer!Step
<1>2. DelayRecords'
  BY <1>1 DEF TimerInv, DelayRecords, DelayOver, PitValue
<1>3. AlarmSet'
  BY <1>1 DEF TimerInv, AlarmSet
<1> QED BY <1>1, <1>2, <1>3 DEF TimerInv

LEMMA ReadHi1Keeps ==
  ASSUME Timer!TimerConstants, TimerInv, Timer!read_hi1
  PROVE  TimerInv'
<1> DEFINE hi == time \div Word
           r == [at |-> "lo", began |-> read.began, hi |-> hi]
<1>1. device = "counter" /\ read.at = "first" /\ Timer!Step(r) /\ time \in Nat /\ Word \in Nat \ {0}
  BY DEF Timer!read_hi1, Timer!Hi, TimerInv, Timer!TimerConstants
<1>2. read' = r /\ device' = device /\ time' = time
  BY <1>1 DEF Timer!Step
<1>3. read # Timer!NoRead /\ read.began \in Nat /\ read.began <= time
  BY <1>1, ReadNames DEF TimerInv, ReadSoFar
<1>4. hi \in Nat /\ hi * Word \in Nat /\ hi * Word <= time /\ time < (hi + 1) * Word
  BY <1>1, DivMod
<1> HIDE DEF hi
<1>5. r \in [at : {"lo", "lo2"}, began : Nat, hi : Nat] /\ r.at = "lo" /\ r.hi = hi /\ r.began = read.began
  BY <1>3, <1>4
<1>6. r # Timer!NoRead
  BY <1>5 DEF Timer!NoRead
<1> HIDE DEF r
<1>7. ReadRecords'
  BY <1>1, <1>2, <1>5 DEF ReadRecords
<1>8. read.began < (hi + 1) * Word
  <2> DEFINE x == (hi + 1) * Word
  <2>1. x \in Nat /\ time < x
    BY <1>1, <1>4
  <2> HIDE DEF x
  <2>2. read.began < x
    BY <1>1, <1>3, <2>1
  <2> QED BY <2>2 DEF x
<1>9. ReadSoFar'
  BY <1>2, <1>3, <1>4, <1>5, <1>8 DEF ReadSoFar
<1> QED BY <1>1, <1>3, <1>5, <1>6, <1>7, <1>9, StepKeeps

LEMMA ReadLoKeeps ==
  ASSUME Timer!TimerConstants, TimerInv, Timer!read_lo
  PROVE  TimerInv'
<1> DEFINE r == [at |-> "hi2", began |-> read.began, hi |-> read.hi, lo |-> time % Word]
<1>1. read.at = "lo" /\ Timer!Step(r) /\ time \in Nat /\ Word \in Nat \ {0}
  BY DEF Timer!read_lo, Timer!Lo, TimerInv, Timer!TimerConstants
<1>2. read' = r /\ device' = device /\ time' = time
  BY <1>1 DEF Timer!Step
<1>3. /\ read # Timer!NoRead /\ read.began \in Nat /\ read.began <= time /\ read.hi \in Nat
      /\ device = "counter" /\ read.began < (read.hi + 1) * Word /\ read.hi * Word <= time
  BY <1>1, ReadNames DEF TimerInv, ReadSoFar
<1>4. time % Word \in Nat
  BY <1>1, DivMod
<1>5. /\ r \in [at : {"hi2"}, began : Nat, hi : Nat, lo : Nat]
      /\ r.at = "hi2" /\ r.hi = read.hi /\ r.began = read.began /\ r.lo = time % Word
  BY <1>3, <1>4
<1>6. r # Timer!NoRead
  BY <1>5 DEF Timer!NoRead
<1> HIDE DEF r
<1>7. ReadRecords'
  BY <1>2, <1>3, <1>5 DEF ReadRecords
<1>8. time \in read.began .. time
  BY <1>1, <1>3
<1>9. ReadSoFar'
  BY <1>2, <1>3, <1>5, <1>8 DEF ReadSoFar
<1> QED BY <1>1, <1>3, <1>5, <1>6, <1>7, <1>9, StepKeeps

\* A value of the counter between the beginning of its reading and now.
LEMMA ValueRead ==
  ASSUME TimerInv, NEW v \in Nat, read # Timer!NoRead, device = "counter", read.began <= v, v <= time,
         Timer!Step(Timer!Value(read, v))
  PROVE  TimerInv'
<1> DEFINE r == Timer!Value(read, v)
<1>1. time \in Nat /\ read.began \in Nat /\ read.began <= time
  BY ReadNames DEF TimerInv, ReadSoFar
<1>2. read' = r /\ device' = device /\ time' = time
  BY DEF Timer!Step
<1>3. r \in [at : {"value"}, began : Nat, v : Nat] /\ r.at = "value" /\ r.began = read.began /\ r.v = v
  BY <1>1 DEF Timer!Value
<1>4. r # Timer!NoRead
  BY <1>3 DEF Timer!NoRead
<1>5. v \in read.began .. time
  BY <1>1
<1> HIDE DEF r
<1>6. ReadRecords'
  BY <1>2, <1>3 DEF ReadRecords
<1>7. ReadSoFar'
  BY <1>1, <1>2, <1>3, <1>5 DEF ReadSoFar
<1>8. Timer!Step(r)
  BY DEF r
<1> QED BY <1>3, <1>4, <1>6, <1>7, <1>8, StepKeeps

LEMMA ReadHi2Keeps ==
  ASSUME Timer!TimerConstants, TimerInv, Timer!read_hi2
  PROVE  TimerInv'
<1> DEFINE hi == time \div Word
<1>1. read.at = "hi2" /\ Timer!Compared(read) /\ time \in Nat /\ Word \in Nat \ {0}
  BY DEF Timer!read_hi2, TimerInv, Timer!TimerConstants
<1>2. /\ read # Timer!NoRead /\ read.began \in Nat /\ read.began <= time /\ read.hi \in Nat /\ read.lo \in Nat
      /\ device = "counter" /\ read.began < (read.hi + 1) * Word
      /\ \E t \in read.began .. time : read.lo = t % Word /\ read.hi * Word <= t
  BY <1>1, ReadNames DEF TimerInv, ReadSoFar
<1>3. PICK t \in read.began .. time : read.lo = t % Word /\ read.hi * Word <= t
  BY <1>2
<1>4. t \in Nat /\ read.began <= t /\ t <= time
  BY <1>1, <1>2, <1>3
<1>5. CASE hi = read.hi
  <2>1. t = (time \div Word) * Word + (t % Word)
    BY <1>1, <1>3, <1>4, <1>5, SameHalf
  <2>2. t = read.hi * Word + read.lo
    BY <1>3, <1>5, <2>1
  <2>3. Timer!Step(Timer!Value(read, t))
    BY <1>1, <1>5, <2>2 DEF Timer!Compared, Timer!Hi
  <2> QED BY <1>2, <1>4, <2>3, ValueRead
<1>6. CASE hi # read.hi
  <2> DEFINE r == [at |-> "lo2", began |-> read.began, hi |-> hi]
  <2>1. Timer!Step(r)
    BY <1>1, <1>6 DEF Timer!Compared, Timer!Hi
  <2>2. hi \in Nat /\ hi * Word \in Nat /\ hi * Word <= time
    BY <1>1, DivMod
  <2>3. read.hi <= hi
    <3> DEFINE x == read.hi * Word
    <3>1. x \in Nat /\ x <= t
      BY <1>1, <1>2, <1>3
    <3>2. x <= time
      <4> HIDE DEF x
      <4> QED BY <1>1, <1>4, <3>1
    <3>3. read.hi * Word <= time
      BY <3>2
    <3> QED BY <1>1, <1>2, <3>3, QuotientBounds
  <2> HIDE DEF hi
  <2>4. read.hi + 1 <= hi
    BY <1>2, <1>6, <2>2, <2>3
  <2>5. (read.hi + 1) * Word <= hi * Word
    BY <1>1, <1>2, <2>2, <2>4, ProductGrows
  <2>6. read.began <= hi * Word
    <3> DEFINE x == (read.hi + 1) * Word
               y == hi * Word
    <3>1. x \in Nat /\ y \in Nat /\ x <= y /\ read.began < x
      BY <1>1, <1>2, <2>2, <2>5
    <3> HIDE DEF x, y
    <3>2. read.began <= y
      BY <1>2, <3>1
    <3> QED BY <3>2 DEF y
  <2>7. read' = r /\ device' = device /\ time' = time
    BY <2>1 DEF Timer!Step
  <2>8. r \in [at : {"lo", "lo2"}, began : Nat, hi : Nat] /\ r.at = "lo2" /\ r.hi = hi /\ r.began = read.began
    BY <1>2, <2>2
  <2>9. r # Timer!NoRead
    BY <2>8 DEF Timer!NoRead
  <2> HIDE DEF r
  <2>10. ReadRecords'
    BY <1>2, <2>7, <2>8 DEF ReadRecords
  <2>11. ReadSoFar'
    BY <1>2, <2>2, <2>6, <2>7, <2>8 DEF ReadSoFar
  <2> QED BY <1>2, <2>1, <2>8, <2>9, <2>10, <2>11, StepKeeps
<1> QED BY <1>5, <1>6

LEMMA ReadLo2Keeps ==
  ASSUME Timer!TimerConstants, TimerInv, Timer!read_lo2
  PROVE  TimerInv'
<1> DEFINE lo == time % Word
           hi == time \div Word
           v == read.hi * Word + lo
<1>1. /\ read.at = "lo2" /\ Timer!Step(Timer!Value(read, v)) /\ time \in Nat /\ Word \in Nat \ {0}
  BY DEF Timer!read_lo2, Timer!Lo, TimerInv, Timer!TimerConstants
<1>2. /\ read # Timer!NoRead /\ read.began \in Nat /\ read.hi \in Nat
      /\ device = "counter" /\ read.began <= read.hi * Word /\ read.hi * Word <= time
  BY <1>1, ReadNames DEF TimerInv, ReadSoFar
<1>3. lo \in Nat /\ hi \in Nat /\ hi * Word \in Nat /\ time = hi * Word + lo
  BY <1>1, DivMod
<1>4. read.hi <= hi
  BY <1>1, <1>2, QuotientBounds
<1> HIDE DEF lo, hi
<1> DEFINE x == read.hi * Word
           y == hi * Word
<1>5. x \in Nat /\ x <= y
  BY <1>1, <1>2, <1>3, <1>4, ProductGrows
<1>6. v \in Nat /\ read.began <= v /\ v <= time
  <2>1. v = x + lo /\ read.began <= x /\ time = y + lo /\ y \in Nat
    BY <1>2, <1>3
  <2> HIDE DEF x, y, v
  <2> QED BY <1>2, <1>3, <1>5, <2>1
<1> QED BY <1>1, <1>2, <1>6, ValueRead
\* The conversion of the PIT is a natural number, and cuts off less than one.
LEMMA PitFacts ==
  ASSUME Timer!TimerConstants, NEW t \in Nat
  PROVE  LET x == PitMax - Reload + (t % Reload)
         IN  /\ x \in Nat /\ PitValue(t) \in Nat
             /\ PitValue(t) * PIT_FREQUENCY_HZ <= x * Million
             /\ x * Million < (PitValue(t) + 1) * PIT_FREQUENCY_HZ
<1> DEFINE m == t % Reload
           x == PitMax - Reload + m
           y == x * Million
<1>1. /\ Reload \in Nat \ {0} /\ PitMax \in Nat /\ Reload <= PitMax
      /\ Million \in Nat /\ PIT_FREQUENCY_HZ \in Nat \ {0}
  BY DEF Timer!TimerConstants
<1>2. m \in Nat
  BY <1>1, DivMod
<1>3. x \in Nat /\ PitMax - (Reload - m) = x
  <2> HIDE DEF m
  <2> QED BY <1>1, <1>2
<1>4. PitValue(t) = y \div PIT_FREQUENCY_HZ
  <2>1. PitMax - Timer!Count(t) = x
    BY <1>3 DEF Timer!Count
  <2> QED BY <2>1 DEF PitValue, Timer!Microseconds
<1> HIDE DEF x
<1>5. y \in Nat
  BY <1>1, <1>3
<1> HIDE DEF y
<1>6. /\ y \div PIT_FREQUENCY_HZ \in Nat
      /\ (y \div PIT_FREQUENCY_HZ) * PIT_FREQUENCY_HZ <= y
      /\ y < (y \div PIT_FREQUENCY_HZ + 1) * PIT_FREQUENCY_HZ
  BY <1>1, <1>5, DivMod
<1>7. /\ PitValue(t) \in Nat /\ PitValue(t) * PIT_FREQUENCY_HZ <= y
      /\ y < (PitValue(t) + 1) * PIT_FREQUENCY_HZ
  BY <1>4, <1>6
<1> QED BY <1>3, <1>7 DEF x, y

LEMMA ReadCountKeeps ==
  ASSUME Timer!TimerConstants, TimerInv, Timer!read_count
  PROVE  TimerInv'
<1> DEFINE v == PitValue(time)
           r == Timer!Value(read, v)
<1>1. device = "pit" /\ read.at = "first" /\ Timer!Step(r) /\ time \in Nat
  BY DEF Timer!read_count, TimerInv, PitValue
<1>2. read' = r /\ device' = device /\ time' = time
  BY <1>1 DEF Timer!Step
<1>3. read # Timer!NoRead /\ read.began \in Nat /\ read.began <= time
  BY <1>1, ReadNames DEF TimerInv, ReadSoFar
<1>4. v \in Nat
  BY <1>1, PitFacts
<1>5. r \in [at : {"value"}, began : Nat, v : Nat] /\ r.at = "value" /\ r.began = read.began /\ r.v = v
  BY <1>3, <1>4 DEF Timer!Value
<1>6. r # Timer!NoRead
  BY <1>5 DEF Timer!NoRead
<1>7. \E t \in read.began .. time : v = PitValue(t)
  <2>1. time \in read.began .. time
    BY <1>1, <1>3
  <2> QED BY <2>1
<1> HIDE DEF r, v
<1>8. ReadRecords'
  BY <1>2, <1>5 DEF ReadRecords
<1>9. ReadSoFar'
  BY <1>1, <1>2, <1>3, <1>5, <1>7 DEF ReadSoFar, PitValue
<1> QED BY <1>1, <1>3, <1>5, <1>6, <1>8, <1>9, StepKeeps

\* A reading begins now.
LEMMA ReadBegins ==
  ASSUME TimerInv, read' = [at |-> "first", began |-> time], time' = time, device' = device,
         compare' = compare, pending' = pending, arm' = arm, alarm' = alarm
  PROVE  /\ time' \in Nat /\ ReadRecords' /\ ReadSoFar' /\ AlarmSet'
         /\ read'.began = time /\ read'.at = "first" /\ read' # Timer!NoRead
<1>1. time \in Nat /\ time <= time
  BY DEF TimerInv
<1>2. read' \in [at : {"first"}, began : Nat] /\ read'.began = time /\ read'.at = "first"
  BY <1>1
<1>3. read' # Timer!NoRead
  BY <1>2 DEF Timer!NoRead
<1>4. ReadRecords'
  BY <1>2 DEF ReadRecords
<1>5. ReadSoFar'
  BY <1>1, <1>2 DEF ReadSoFar
<1>6. AlarmSet'
  BY DEF TimerInv, AlarmSet
<1> QED BY <1>1, <1>2, <1>3, <1>4, <1>5, <1>6

LEMMA DelayKeeps ==
  ASSUME Timer!TimerConstants, TimerInv, NEW us \in Delays, Timer!delay_us(us)
  PROVE  TimerInv'
<1>1. /\ device # "compare" /\ delay = Timer!NoDelay
      /\ delay' = [at |-> "start", us |-> us, began |-> time, start |-> 0]
      /\ read' = [at |-> "first", began |-> time] /\ time' = time /\ device' = device
      /\ compare' = compare /\ pending' = pending /\ arm' = arm /\ alarm' = alarm
  BY DEF Timer!delay_us
<1>2. /\ time' \in Nat /\ ReadRecords' /\ ReadSoFar' /\ AlarmSet'
      /\ read'.began = time /\ read'.at = "first" /\ read' # Timer!NoRead
  BY <1>1, ReadBegins
<1>3. us \in Nat /\ time \in Nat
  BY DEF Timer!TimerConstants, TimerInv
<1>4. /\ delay' \in [at : {"start", "wait", "done"}, us : Nat, began : Nat, start : Nat]
      /\ delay'.at = "start" /\ delay'.began = time
  BY <1>1, <1>3
<1>5. device \in {"counter", "pit"} => DelayRecords'
  BY <1>1, <1>2, <1>3, <1>4 DEF DelayRecords
<1> QED BY <1>1, <1>2, <1>5 DEF TimerInv

\* Two values of one period of the PIT differ by the time between them, less
\* what the conversion cuts off.
LEMMA PitOver ==
  ASSUME Timer!TimerConstants, device = "pit", NEW began \in Nat, NEW t0 \in Nat, NEW t1 \in Nat, NEW now \in Nat,
         NEW us \in Nat, began <= t0, t0 <= t1, t1 <= now,
         PitValue(t1) < PitValue(t0) \/ PitValue(t1) - PitValue(t0) >= us
  PROVE  \/ (now - began) * Million > (us - 1) * PIT_FREQUENCY_HZ
         \/ now \div Reload > began \div Reload
<1>1. Reload \in Nat \ {0} /\ PitMax \in Nat /\ Reload <= PitMax /\ Million \in Nat /\ PIT_FREQUENCY_HZ \in Nat \ {0}
  BY DEF Timer!TimerConstants
<1> SUFFICES ASSUME ~ (now \div Reload > began \div Reload)
             PROVE  (now - began) * Million > (us - 1) * PIT_FREQUENCY_HZ
  OBVIOUS
<1> DEFINE q == began \div Reload
           F == PIT_FREQUENCY_HZ
           v0 == PitValue(t0)
           v1 == PitValue(t1)
           x0 == PitMax - Reload + (t0 % Reload)
           x1 == PitMax - Reload + (t1 % Reload)
<1>2. t0 \div Reload = q /\ t1 \div Reload = q
  <2>1. /\ began \div Reload <= t0 \div Reload /\ t0 \div Reload <= t1 \div Reload
        /\ t1 \div Reload <= now \div Reload
    BY <1>1, QuotientGrows
  <2>2. /\ began \div Reload \in Nat /\ t0 \div Reload \in Nat /\ t1 \div Reload \in Nat /\ now \div Reload \in Nat
    BY <1>1
  <2> QED BY <2>1, <2>2
<1>3. x0 \in Nat /\ x1 \in Nat /\ x1 - x0 = t1 - t0
  <2> DEFINE m0 == t0 % Reload
             m1 == t1 % Reload
             z == q * Reload
  <2>1. m0 \in Nat /\ m1 \in Nat /\ z \in Nat /\ t0 = z + m0 /\ t1 = z + m1
    <3>1. m0 \in Nat /\ (t0 \div Reload) * Reload \in Nat /\ t0 = (t0 \div Reload) * Reload + m0
      BY <1>1, DivMod
    <3>2. m1 \in Nat /\ t1 = (t1 \div Reload) * Reload + m1
      BY <1>1, DivMod
    <3> QED BY <1>2, <3>1, <3>2
  <2> HIDE DEF m0, m1, z
  <2>2. x0 = PitMax - Reload + m0 /\ x1 = PitMax - Reload + m1
    BY DEF m0, m1
  <2> HIDE DEF x0, x1
  <2> QED BY <1>1, <2>1, <2>2
<1>4. v0 \in Nat /\ v0 * F <= x0 * Million /\ x0 * Million < (v0 + 1) * F
  BY PitFacts
<1>5. v1 \in Nat /\ v1 * F <= x1 * Million /\ x1 * Million < (v1 + 1) * F
  BY PitFacts
<1> HIDE DEF q, v0, v1, x0, x1, F
<1>a. F \in Nat \ {0}
  BY <1>1 DEF F
<1> DEFINE a0 == x0 * Million
           a1 == x1 * Million
           b0 == v0 * F
           b1 == v1 * F
<1>6. a0 \in Nat /\ a1 \in Nat /\ b0 \in Nat /\ b1 \in Nat
  BY <1>1, <1>a, <1>3, <1>4, <1>5
<1>7. a0 <= a1
  <2>1. x0 <= x1
    BY <1>3
  <2> QED BY <1>1, <1>3, <2>1, ProductGrows
<1>8. b0 <= a0 /\ a0 < b0 + F /\ b1 <= a1 /\ a1 < b1 + F
  <2>1. (v0 + 1) * F = b0 + F /\ (v1 + 1) * F = b1 + F
    BY <1>a, <1>4, <1>5
  <2> QED BY <1>4, <1>5, <2>1
<1>9. v0 <= v1
  <2> SUFFICES ASSUME v1 + 1 <= v0 PROVE FALSE
    BY <1>4, <1>5
  <2>1. (v1 + 1) * F <= b0
    BY <1>a, <1>4, <1>5, ProductGrows
  <2>2. (v1 + 1) * F = b1 + F
    BY <1>a, <1>5
  <2> HIDE DEF a0, a1, b0, b1
  <2> QED BY <1>a, <1>6, <1>7, <1>8, <2>1, <2>2
<1>10. us <= v1 - v0
  BY <1>4, <1>5, <1>9 DEF v0, v1
<1> DEFINE c == (us - 1) * F
           e == (now - began) * Million
<1>11. c <= b1 - b0 - F
  <2>1. (us - 1) * F <= (v1 - v0 - 1) * F
    BY <1>a, <1>4, <1>5, <1>10, ProductGrows
  <2>2. (v1 - v0 - 1) * F = b1 - b0 - F
    BY <1>a, <1>4, <1>5
  <2> QED BY <2>1, <2>2
<1>12. a1 - a0 <= e
  <2>1. (x1 - x0) * Million <= (now - began) * Million
    BY <1>1, <1>3, ProductGrows
  <2>2. (x1 - x0) * Million = a1 - a0
    BY <1>1, <1>3
  <2> QED BY <2>1, <2>2
<1>13. c \in Int /\ e \in Int
  BY <1>1, <1>a
<1>14. e > c
  <2> HIDE DEF a0, a1, b0, b1, c, e
  <2> QED BY <1>a, <1>6, <1>8, <1>11, <1>12, <1>13
<1> QED BY <1>14 DEF F
LEMMA DelayStartKeeps ==
  ASSUME Timer!TimerConstants, TimerInv, Timer!delay_start
  PROVE  TimerInv'
<1>1. /\ read.at = "value" /\ delay.at = "start"
      /\ delay' = [delay EXCEPT !.at = "wait", !.start = read.v]
      /\ read' = [at |-> "first", began |-> time] /\ time' = time /\ device' = device
      /\ compare' = compare /\ pending' = pending /\ arm' = arm /\ alarm' = alarm
  BY DEF Timer!delay_start, Timer!ReadAgain
<1>2. /\ time' \in Nat /\ ReadRecords' /\ ReadSoFar' /\ AlarmSet'
      /\ read'.began = time /\ read'.at = "first" /\ read' # Timer!NoRead
  BY <1>1, ReadBegins
<1>3. /\ delay \in [at : {"start", "wait", "done"}, us : Nat, began : Nat, start : Nat]
      /\ device \in {"counter", "pit"}
  BY <1>1, DelayNames DEF TimerInv, Timer!NoDelay
<1>4. read # Timer!NoRead /\ read.began \in Nat /\ read.v \in Nat /\ time \in Nat
  BY <1>1, ReadNames DEF TimerInv
<1>5. /\ delay' \in [at : {"start", "wait", "done"}, us : Nat, began : Nat, start : Nat]
      /\ delay'.at = "wait" /\ delay'.began = delay.began /\ delay'.start = read.v
  BY <1>1, <1>3, <1>4
<1>6. delay.began <= read.began /\ read.began <= time /\ delay.began \in Nat
  BY <1>1, <1>3, <1>4 DEF TimerInv, DelayRecords, ReadSoFar
<1>7. device = "counter" => delay'.began <= delay'.start /\ delay'.start <= read'.began
  <2> SUFFICES ASSUME device = "counter" PROVE delay.began <= read.v /\ read.v <= time
    BY <1>2, <1>5
  <2>1. read.v \in read.began .. time
    BY <1>1 DEF TimerInv, ReadSoFar
  <2> QED BY <1>4, <1>6, <2>1
<1>8. device = "pit" => \E t \in delay.began .. time : read.v = PitValue(t)
  <2> SUFFICES ASSUME device = "pit" PROVE \E t \in delay.began .. time : read.v = PitValue(t)
    OBVIOUS
  <2>1. PICK t \in read.began .. time : read.v = PitValue(t)
    BY <1>1 DEF TimerInv, ReadSoFar
  <2>2. t \in delay.began .. time
    BY <1>4, <1>6
  <2> QED BY <2>1, <2>2
<1>9. DelayRecords'
  BY <1>1, <1>2, <1>3, <1>5, <1>7, <1>8 DEF DelayRecords, PitValue
<1> QED BY <1>1, <1>2, <1>3, <1>9 DEF TimerInv

LEMMA DelayWaitKeeps ==
  ASSUME Timer!TimerConstants, TimerInv, Timer!delay_wait
  PROVE  TimerInv'
<1>1. /\ read.at = "value" /\ delay.at = "wait"
      /\ time' = time /\ device' = device
      /\ compare' = compare /\ pending' = pending /\ arm' = arm /\ alarm' = alarm
  BY DEF Timer!delay_wait
<1>2. /\ delay \in [at : {"start", "wait", "done"}, us : Nat, began : Nat, start : Nat]
      /\ device \in {"counter", "pit"}
  BY <1>1, DelayNames DEF TimerInv, Timer!NoDelay
<1>3. read # Timer!NoRead /\ read.began \in Nat /\ read.v \in Nat /\ time \in Nat /\ read.began <= time
  BY <1>1, ReadNames DEF TimerInv, ReadSoFar
<1>4. CASE Timer!Over(delay, read.v)
  <2>1. delay' = [delay EXCEPT !.at = "done"] /\ read' = Timer!NoRead
    BY <1>4 DEF Timer!delay_wait
  <2>2. /\ delay' \in [at : {"start", "wait", "done"}, us : Nat, began : Nat, start : Nat]
        /\ delay'.at = "done" /\ delay'.began = delay.began /\ delay'.us = delay.us
    BY <1>2, <2>1
  <2>3. read.v < delay.start \/ read.v - delay.start >= delay.us
    BY <1>4 DEF Timer!Over
  <2>4. delay.began <= time /\ DelayOver(time)
    <3>1. CASE device = "counter"
      <4>1. delay.began <= delay.start /\ delay.start <= read.began /\ read.v \in read.began .. time
        BY <1>1, <3>1 DEF TimerInv, DelayRecords, ReadSoFar
      <4>2. delay.began <= time /\ time - delay.began >= delay.us
        BY <1>2, <1>3, <2>3, <4>1
      <4> QED BY <3>1, <4>2 DEF DelayOver
    <3>2. CASE device = "pit"
      <4>1. PICK t0 \in delay.began .. read.began : delay.start = PitValue(t0)
        BY <1>1, <3>2 DEF TimerInv, DelayRecords
      <4>2. PICK t1 \in read.began .. time : read.v = PitValue(t1)
        BY <1>1, <3>2 DEF TimerInv, ReadSoFar
      <4>3. /\ t0 \in Nat /\ t1 \in Nat /\ delay.began \in Nat /\ delay.us \in Nat
            /\ delay.began <= t0 /\ t0 <= t1 /\ t1 <= time
        BY <1>2, <1>3
      <4>4. PitValue(t1) < PitValue(t0) \/ PitValue(t1) - PitValue(t0) >= delay.us
        BY <2>3, <4>1, <4>2
      <4>5. \/ (time - delay.began) * Million > (delay.us - 1) * PIT_FREQUENCY_HZ
            \/ time \div Reload > delay.began \div Reload
        BY <1>3, <3>2, <4>3, <4>4, PitOver
      <4>6. delay.began <= time
        BY <1>3, <4>3
      <4> QED BY <3>2, <4>5, <4>6 DEF DelayOver
    <3> QED BY <1>2, <3>1, <3>2
  <2>5. DelayOver(time)'
    BY <1>1, <2>2, <2>4 DEF DelayOver
  <2>6. ReadRecords' /\ ReadSoFar'
    BY <2>1 DEF ReadRecords, ReadSoFar, Timer!NoRead
  <2>7. DelayRecords'
    BY <1>1, <1>2, <2>1, <2>2, <2>4, <2>5 DEF DelayRecords
  <2>8. AlarmSet'
    BY <1>1 DEF TimerInv, AlarmSet
  <2> QED BY <1>1, <2>6, <2>7, <2>8 DEF TimerInv
<1>5. CASE ~ Timer!Over(delay, read.v)
  <2>1. delay' = delay /\ read' = [at |-> "first", began |-> time]
    BY <1>5 DEF Timer!delay_wait, Timer!ReadAgain
  <2>2. /\ time' \in Nat /\ ReadRecords' /\ ReadSoFar' /\ AlarmSet'
        /\ read'.began = time /\ read'.at = "first" /\ read' # Timer!NoRead
    BY <1>1, <2>1, ReadBegins
  <2>3. device = "counter" => delay.began <= delay.start /\ delay.start <= time
    BY <1>1, <1>2, <1>3 DEF TimerInv, DelayRecords
  <2>4. device = "pit" => \E t \in delay.began .. time : delay.start = PitValue(t)
    <3> SUFFICES ASSUME device = "pit" PROVE \E t \in delay.began .. time : delay.start = PitValue(t)
      OBVIOUS
    <3>1. PICK t \in delay.began .. read.began : delay.start = PitValue(t)
      BY <1>1 DEF TimerInv, DelayRecords
    <3>2. t \in delay.began .. time
      BY <1>2, <1>3
    <3> QED BY <3>1, <3>2
  <2>5. DelayRecords'
    BY <1>1, <1>2, <2>1, <2>2, <2>3, <2>4 DEF DelayRecords, PitValue
  <2> QED BY <1>1, <1>2, <2>2, <2>5 DEF TimerInv
<1> QED BY <1>4, <1>5

LEMMA DelayReturnKeeps ==
  ASSUME TimerInv, Timer!delay_return
  PROVE  TimerInv'
<1>1. /\ delay.at = "done" /\ delay' = Timer!NoDelay /\ read' = read /\ time' = time /\ device' = device
      /\ compare' = compare /\ pending' = pending /\ arm' = arm /\ alarm' = alarm
  BY DEF Timer!delay_return
<1>2. read = Timer!NoRead
  BY <1>1 DEF TimerInv, DelayRecords
<1>3. ReadRecords' /\ ReadSoFar' /\ DelayRecords'
  BY <1>1, <1>2 DEF ReadRecords, ReadSoFar, DelayRecords, Timer!NoRead, Timer!NoDelay
<1>4. AlarmSet'
  BY <1>1 DEF TimerInv, AlarmSet
<1> QED BY <1>1, <1>3, <1>4 DEF TimerInv

\* What alarms do does not disturb a reading.
LEMMA AlarmStepKeeps ==
  ASSUME TimerInv, time' = time, device' = device, read' = read, delay' = delay, AlarmSet'
  PROVE  TimerInv'
  BY DEF TimerInv, ReadRecords, ReadSoFar, DelayRecords, DelayOver, PitValue

\* The sum's low half is the sum of a low half and the rest.
LEMMA LowHalfAdds ==
  ASSUME NEW d \in Nat \ {0}, NEW i \in Nat, NEW k \in Nat
  PROVE  ((i % d) + k) % d = (i + k) % d
<1> DEFINE r == i % d
           q == i \div d
           s == (r + k) \div d
           w == (r + k) % d
<1>1. q \in Nat /\ r \in Nat /\ i = q * d + r
  BY DivMod
<1>2. r + k \in Nat
  BY <1>1
<1>3. s \in Nat /\ w \in Nat /\ w < d /\ r + k = s * d + w
  BY <1>2, DivMod
<1> HIDE DEF q, r, s, w
<1>4. (q + s) * d = q * d + s * d /\ (q + s + 1) * d = q * d + s * d + d
  BY <1>1, <1>3
<1> DEFINE x == q * d
           y == s * d
<1>5. x \in Nat /\ y \in Nat
  BY <1>1, <1>3
<1> HIDE DEF x, y
<1>6. i + k = x + y + w /\ x + y <= i + k /\ i + k < x + y + d
  BY <1>1, <1>3, <1>5 DEF x, y
<1>7. (i + k) \div d = q + s
  <2>1. i + k \in Nat /\ q + s \in Nat /\ (i + k) \div d \in Nat
    BY <1>1, <1>3, DivMod
  <2>2. (q + s) * d <= i + k /\ i + k < (q + s + 1) * d
    BY <1>4, <1>6 DEF x, y
  <2>3. q + s <= (i + k) \div d /\ (i + k) \div d <= q + s
    BY <2>1, <2>2, QuotientBounds
  <2> QED BY <2>1, <2>3
<1>8. i + k = ((i + k) \div d) * d + ((i + k) % d) /\ (i + k) % d \in Nat
  BY DivMod
<1> DEFINE z == (i + k) % d
<1>9. z \in Nat /\ i + k = x + y + z
  BY <1>4, <1>7, <1>8 DEF x, y
<1> HIDE DEF z
<1>10. z = w
  BY <1>3, <1>5, <1>6, <1>9
<1> QED BY <1>10 DEF z, w, r

LEMMA AlarmSteps ==
  ASSUME Timer!TimerConstants, TimerInv
  PROVE  /\ \A us \in Intervals : Timer!start_timer(us) => TimerInv'
         /\ Timer!start_clear => TimerInv'
         /\ Timer!start_compare => TimerInv'
         /\ Timer!clear_interrupt => TimerInv'
<1>1. /\ time \in Nat /\ Word \in Nat \ {0}
      /\ AlarmSet
  BY DEF TimerInv, Timer!TimerConstants
<1>2. ASSUME NEW us \in Intervals, Timer!start_timer(us) PROVE TimerInv'
  <2>1. us \in Nat
    BY DEF Timer!TimerConstants
  <2>2. AlarmSet'
    BY <1>1, <1>2, <2>1 DEF AlarmSet, Timer!start_timer
  <2> QED BY <1>2, <2>2, AlarmStepKeeps DEF Timer!start_timer
<1>3. ASSUME Timer!start_clear PROVE TimerInv'
  <2>1. arm \in [at : {"clear", "compare"}, us : Nat, clo : Nat]
    BY <1>1, <1>3 DEF AlarmSet, Timer!start_clear, Timer!NoArm
  <2>2. arm' \in [at : {"clear", "compare"}, us : Nat, clo : Nat]
    BY <1>3, <2>1 DEF Timer!start_clear
  <2>3. AlarmSet'
    BY <1>3, <2>2 DEF AlarmSet, Timer!start_clear
  <2> QED BY <1>3, <2>3, AlarmStepKeeps DEF Timer!start_clear
<1>4. ASSUME Timer!start_compare PROVE TimerInv'
  <2>1. arm \in [at : {"clear", "compare"}, us : Nat, clo : Nat]
    BY <1>1, <1>4 DEF AlarmSet, Timer!start_compare, Timer!NoArm
  <2>2. compare' = ((arm.clo % Word) + arm.us) % Word
    BY <1>4 DEF Timer!start_compare, Timer!CompareValue, Timer!Lo
  <2> DEFINE due == arm.clo + arm.us
  <2>3. due \in Nat /\ compare' = due % Word
    BY <1>1, <2>1, <2>2, LowHalfAdds
  <2> HIDE DEF due
  <2>4. alarm' = [due |-> due, missed |-> time >= due] /\ time' = time /\ arm' = Timer!NoArm
    BY <1>4 DEF Timer!start_compare, due
  <2>5. (time >= due) \in BOOLEAN
    BY <1>1, <2>3
  <2>6. AlarmSet'
    BY <2>3, <2>4, <2>5 DEF AlarmSet, Timer!NoArm
  <2> QED BY <1>4, <2>6, AlarmStepKeeps DEF Timer!start_compare
<1>5. ASSUME Timer!clear_interrupt PROVE TimerInv'
  <2>1. AlarmSet'
    BY <1>1, <1>5 DEF AlarmSet, Timer!clear_interrupt, Timer!NoArm
  <2> QED BY <1>5, <2>1, AlarmStepKeeps DEF Timer!clear_interrupt
<1> QED BY <1>2, <1>3, <1>4, <1>5

LEMMA TimerInit == Timer!TimerConstants /\ Timer!Init => TimerInv
  BY DEF Timer!Init, TimerInv, ReadRecords, ReadSoFar, DelayRecords, AlarmSet, Timer!NoRead, Timer!NoDelay,
         Timer!NoArm, Timer!NoAlarm

LEMMA TimerNext == Timer!TimerConstants /\ TimerInv /\ [Timer!Next]_timerVars => TimerInv'
<1> SUFFICES ASSUME Timer!TimerConstants, TimerInv, [Timer!Next]_timerVars PROVE TimerInv'
  OBVIOUS
<1>1. ASSUME UNCHANGED timerVars PROVE TimerInv'
  BY <1>1 DEF timerVars, TimerInv, ReadRecords, ReadSoFar, DelayRecords, DelayOver, AlarmSet, PitValue
<1>2. ASSUME Timer!Reader PROVE TimerInv'
  BY <1>2, ReadHi1Keeps, ReadLoKeeps, ReadHi2Keeps, ReadLo2Keeps, ReadCountKeeps, DelayStartKeeps,
     DelayWaitKeeps, DelayReturnKeeps DEF Timer!Reader
<1> QED BY <1>1, <1>2, TickKeeps, DelayKeeps, AlarmSteps DEF Timer!Next

LEMMA TimersAtOk == TimerInv => TimersRight
<1> SUFFICES ASSUME TimerInv PROVE Timer!ClockRight /\ Timer!AlarmOnTime
  BY DEF TimersRight, Timer!TimersRight
<1>1. Timer!ClockRight
  BY DEF TimerInv, ReadSoFar, DelayRecords, DelayOver, Timer!ClockRight
<1>2. Timer!AlarmOnTime
  BY DEF TimerInv, AlarmSet, Timer!AlarmOnTime
<1> QED BY <1>1, <1>2

\* A reading of the 64-bit counter is a time while it was read, however its
\* halves were apart; a delay lasts as long as asked for, unless the PIT's count
\* was reloaded; an alarm is pending when it is due, unless that was over when
\* the compare register was written (timer.rs, i8254_pit.rs, hal/timer.rs).
THEOREM ClocksRight == DevicesSpec => []TimersRight
<1>1. DevicesInit => TimerInv
  BY TimerInit, DevicesAssumption DEF DevicesInit
<1>2. TimerInv /\ [EmmcStep \/ TimerStep \/ SerialStep]_all => TimerInv'
  BY TimerNext, DevicesAssumption DEF EmmcStep, TimerStep, SerialStep, EmmcPart, TimerPart, SerialPart, all
<1>3. TimerInv => TimersRight
  BY TimersAtOk
<1> QED BY <1>1, <1>2, <1>3, PTL DEF DevicesSpec

(***************************************************************************)
(* The serial ports.  What was written is on the line, on its way, or in   *)
(* the transmit FIFO, in this order; a byte that came in is lost or was    *)
(* given out, is in the buffer of the call under way, or in the receive    *)
(* FIFO.  A damaged byte of a 16550 has its error bit until a poll has     *)
(* seen it, and told says whose: only the bit of the head may be gone.     *)
(***************************************************************************)

SerialInOrder ==
  \E S : /\ given \in Seq(S) /\ wire \in Seq(S) /\ shift \in Seq(S) /\ tx \in Seq(S)
         /\ wire \o shift \o tx = given

RxByte == [byte : Nat, damaged : BOOLEAN, flagged : BOOLEAN]
RxRecord == [byte : Nat, damage : {"none", "unseen", "nobody", "reader", "writer"}]

Ordered(s) == \A i, j \in 1 .. Len(s) : i < j => s[i].byte < s[j].byte
AllBefore(s, t) == \A x \in Com!Numbers(s), y \in Com!Numbers(t) : x < y

\* Of n bytes those that are not gone are in r, b and q, in this order.
Accounted(r, b, q, n, gone) ==
  /\ r \in Seq(RxRecord) /\ b \in Seq(RxRecord) /\ q \in Seq(RxByte) /\ n \in Nat
  /\ Ordered(r) /\ Ordered(b) /\ Ordered(q)
  /\ AllBefore(r, b) /\ AllBefore(b, q) /\ AllBefore(r, q)
  /\ gone \subseteq 1 .. n
  /\ Com!Numbers(r) \cup Com!Numbers(b) \cup Com!Numbers(q) = (1 .. n) \ gone

SerialReceived == /\ Accounted(returned, Com!Buf, rx, arrived, lost)
                  /\ Len(rx) <= Com!Depth

SerialErrors ==
  /\ told \in {"nobody", "reader", "writer"}
  /\ Com!AtRbr => chip = "16550" /\ rx # << >> /\ (rx[1].flagged => ~ fifos)
  /\ chip = "16550" =>
       /\ \A i \in 1 .. Len(returned) : returned[i].damage # "nobody"
       /\ \A i \in 1 .. Len(Com!Buf) : Com!Buf[i].damage # "nobody"
       /\ \A i \in 2 .. Len(rx) : rx[i].damaged => rx[i].flagged
       /\ rx # << >> /\ rx[1].damaged => rx[1].flagged \/ told # "nobody"

ReadCalls == [op : {"read", "try_read"}, left : Int, at : {"poll", "rbr"}, buf : Seq(RxRecord)]
SerialCall ==
  \/ comCall \in {Com!Idle, [op |-> "panic"], [op |-> "flush"]}
  \/ comCall \in [op : {"configure"}, rate : Nat] /\ chip = "pl011"
  \/ comCall \in [op : {"write", "try_write", "write_str"}, rest : {comCall.rest}]
  \/ comCall \in ReadCalls

SerialInv == /\ chip \in {"pl011", "16550"} /\ fifos \in BOOLEAN
             /\ SerialInOrder /\ SerialReceived /\ SerialErrors /\ SerialCall
             /\ Com!SpeedRight

LEMMA DepthPositive ==
  ASSUME Com!SerialConstants
  PROVE  Com!Depth \in Nat /\ Com!Depth >= 1
  BY DEF Com!Depth, Com!SerialConstants

-----------------------------------------------------------------------------
\* The numbers and the order of sequences that are put together or taken apart.
LEMMA EmptyOrdered == Com!Numbers(<< >>) = {} /\ Ordered(<< >>)
  BY DEF Com!Numbers, Ordered

LEMMA SameOrdered ==
  ASSUME NEW S, NEW T, NEW s \in Seq(S), NEW t \in Seq(T), Len(t) = Len(s),
         \A i \in 1 .. Len(s) : t[i].byte = s[i].byte
  PROVE  Com!Numbers(t) = Com!Numbers(s) /\ (Ordered(s) => Ordered(t))
<1>1. DOMAIN s = 1 .. Len(s) /\ DOMAIN t = 1 .. Len(s)
  OBVIOUS
<1>2. Com!Numbers(t) = Com!Numbers(s)
  BY <1>1 DEF Com!Numbers
<1>3. Ordered(s) => Ordered(t)
  BY DEF Ordered
<1> QED BY <1>2, <1>3

LEMMA AppendOrdered ==
  ASSUME NEW S, NEW s \in Seq(S), NEW x \in S, Ordered(s), \A y \in Com!Numbers(s) : y < x.byte
  PROVE  Com!Numbers(Append(s, x)) = Com!Numbers(s) \cup {x.byte} /\ Ordered(Append(s, x))
<1> DEFINE t == Append(s, x)
           n == Len(s)
<1>1. /\ n \in Nat /\ t \in Seq(S) /\ Len(t) = n + 1 /\ t[n + 1] = x
      /\ \A i \in 1 .. n : t[i] = s[i]
      /\ DOMAIN s = 1 .. n /\ DOMAIN t = 1 .. n + 1
  OBVIOUS
<1> HIDE DEF t
<1>2. \A i \in 1 .. n + 1 : i \in 1 .. n \/ i = n + 1
  BY <1>1
<1>3. \A i \in 1 .. n : s[i].byte < x.byte
  BY <1>1 DEF Com!Numbers
<1>4. 1 .. n \subseteq 1 .. n + 1 /\ n + 1 \in 1 .. n + 1
  BY <1>1
<1>5. Com!Numbers(t) = Com!Numbers(s) \cup {x.byte}
  <2>1. \A y \in Com!Numbers(t) : y \in Com!Numbers(s) \cup {x.byte}
    BY <1>1, <1>2 DEF Com!Numbers
  <2>2. \A y \in Com!Numbers(s) \cup {x.byte} : y \in Com!Numbers(t)
    BY <1>1, <1>4 DEF Com!Numbers
  <2> QED BY <2>1, <2>2
<1>6. Ordered(t)
  <2> SUFFICES ASSUME NEW i \in 1 .. n + 1, NEW j \in 1 .. n + 1, i < j PROVE t[i].byte < t[j].byte
    BY <1>1 DEF Ordered
  <2>1. i \in 1 .. n
    BY <1>1
  <2>2. CASE j \in 1 .. n
    BY <1>1, <2>1, <2>2 DEF Ordered
  <2>3. CASE j = n + 1
    BY <1>1, <1>3, <2>1, <2>3
  <2> QED BY <1>2, <2>2, <2>3
<1> QED BY <1>5, <1>6 DEF t

LEMMA TailOrdered ==
  ASSUME NEW S, NEW s \in Seq(S), s # << >>, Ordered(s)
  PROVE  /\ Com!Numbers(s) = {s[1].byte} \cup Com!Numbers(Tail(s)) /\ Ordered(Tail(s))
         /\ \A y \in Com!Numbers(Tail(s)) : s[1].byte < y
<1> DEFINE t == Tail(s)
           n == Len(s)
<1>1. /\ n \in Nat /\ n >= 1 /\ t \in Seq(S) /\ Len(t) = n - 1
      /\ \A i \in 1 .. n - 1 : t[i] = s[i + 1]
      /\ DOMAIN s = 1 .. n /\ DOMAIN t = 1 .. n - 1
  OBVIOUS
<1> HIDE DEF t, n
<1>2. n = Len(s)
  BY DEF n
<1>3. \A i \in 1 .. n - 1 : i + 1 \in 1 .. n /\ 1 < i + 1
  BY <1>1
<1>4. \A i \in 1 .. n : i = 1 \/ (i - 1 \in 1 .. n - 1 /\ (i - 1) + 1 = i)
  BY <1>1
<1>5. \A i \in 1 .. n : i = 1 \/ (i - 1 \in 1 .. n - 1 /\ t[i - 1] = s[i])
  BY <1>1, <1>4
<1>6. 1 \in 1 .. n
  BY <1>1
<1>7. Com!Numbers(s) = {s[1].byte} \cup Com!Numbers(t)
  <2>1. \A y \in Com!Numbers(s) : y = s[1].byte \/ y \in Com!Numbers(t)
    <3> TAKE y \in Com!Numbers(s)
    <3>1. PICK i \in 1 .. n : y = s[i].byte
      BY <1>1 DEF Com!Numbers
    <3>2. CASE i = 1
      BY <3>1, <3>2
    <3>3. CASE i - 1 \in 1 .. n - 1 /\ t[i - 1] = s[i]
      <4>1. y = t[i - 1].byte /\ i - 1 \in DOMAIN t
        BY <1>1, <3>1, <3>3
      <4> QED BY <4>1 DEF Com!Numbers
    <3> QED BY <1>5, <3>2, <3>3
  <2>2. s[1].byte \in Com!Numbers(s)
    BY <1>1, <1>6 DEF Com!Numbers
  <2>3. \A y \in Com!Numbers(t) : y \in Com!Numbers(s)
    BY <1>1, <1>3 DEF Com!Numbers
  <2> QED BY <2>1, <2>2, <2>3
<1>8. \A y \in Com!Numbers(t) : s[1].byte < y
  BY <1>1, <1>2, <1>3, <1>6 DEF Com!Numbers, Ordered
<1>9. Ordered(t)
  <2> SUFFICES ASSUME NEW i \in 1 .. n - 1, NEW j \in 1 .. n - 1, i < j PROVE t[i].byte < t[j].byte
    BY <1>1 DEF Ordered
  <2>1. i + 1 \in 1 .. n /\ j + 1 \in 1 .. n /\ i + 1 < j + 1
    BY <1>3
  <2>2. s[i + 1].byte < s[j + 1].byte
    BY <1>2, <2>1 DEF Ordered
  <2> QED BY <1>1, <2>2
<1> QED BY <1>7, <1>8, <1>9 DEF t

LEMMA JoinOrdered ==
  ASSUME NEW S, NEW T, NEW s \in Seq(S), NEW t \in Seq(T), Ordered(s), Ordered(t), AllBefore(s, t)
  PROVE  Com!Numbers(s \o t) = Com!Numbers(s) \cup Com!Numbers(t) /\ Ordered(s \o t)
<1> DEFINE u == s \o t
           m == Len(s)
           n == Len(t)
<1>1. /\ m \in Nat /\ n \in Nat /\ Len(u) = m + n
      /\ \A i \in 1 .. m : u[i] = s[i]
      /\ \A i \in 1 .. m + n : i > m => u[i] = t[i - m]
      /\ DOMAIN s = 1 .. m /\ DOMAIN t = 1 .. n /\ DOMAIN u = 1 .. m + n
  <2>1. s \in Seq(S \cup T) /\ t \in Seq(S \cup T)
    OBVIOUS
  <2> QED BY <2>1
<1> HIDE DEF u, m, n
<1>2. m = Len(s) /\ n = Len(t)
  BY DEF m, n
<1>3. \A i \in 1 .. m + n : i \in 1 .. m \/ (i - m \in 1 .. n /\ i > m)
  BY <1>1
<1>4. \A i \in 1 .. m : i \in 1 .. m + n
  BY <1>1
<1>5. \A i \in 1 .. n : m + i \in 1 .. m + n /\ m + i > m /\ (m + i) - m = i
  BY <1>1
<1>6. \A i \in 1 .. n : m + i \in 1 .. m + n /\ u[m + i] = t[i]
  BY <1>1, <1>5
<1>7. Com!Numbers(u) = Com!Numbers(s) \cup Com!Numbers(t)
  <2>1. \A y \in Com!Numbers(u) : y \in Com!Numbers(s) \cup Com!Numbers(t)
    <3> TAKE y \in Com!Numbers(u)
    <3>1. PICK i \in 1 .. m + n : y = u[i].byte
      BY <1>1 DEF Com!Numbers
    <3>2. CASE i \in 1 .. m
      BY <1>1, <3>1, <3>2 DEF Com!Numbers
    <3>3. CASE i - m \in 1 .. n /\ i > m
      <4>1. y = t[i - m].byte /\ i - m \in DOMAIN t
        BY <1>1, <3>1, <3>3
      <4> QED BY <4>1 DEF Com!Numbers
    <3> QED BY <1>3, <3>2, <3>3
  <2>2. \A y \in Com!Numbers(s) : y \in Com!Numbers(u)
    BY <1>1, <1>4 DEF Com!Numbers
  <2>3. \A y \in Com!Numbers(t) : y \in Com!Numbers(u)
    BY <1>1, <1>6 DEF Com!Numbers
  <2> QED BY <2>1, <2>2, <2>3
<1>8. Ordered(u)
  <2> SUFFICES ASSUME NEW i \in 1 .. m + n, NEW j \in 1 .. m + n, i < j PROVE u[i].byte < u[j].byte
    BY <1>1 DEF Ordered
  <2>1. CASE i \in 1 .. m /\ j \in 1 .. m
    BY <1>1, <1>2, <2>1 DEF Ordered
  <2>2. CASE i \in 1 .. m /\ j - m \in 1 .. n /\ j > m
    <3>1. u[i].byte = s[i].byte /\ u[j].byte = t[j - m].byte
      BY <1>1, <2>2
    <3>2. s[i].byte \in Com!Numbers(s) /\ t[j - m].byte \in Com!Numbers(t)
      BY <1>1, <2>2 DEF Com!Numbers
    <3> QED BY <3>1, <3>2 DEF AllBefore
  <2>3. CASE i - m \in 1 .. n /\ i > m /\ j - m \in 1 .. n /\ j > m
    <3>1. i - m < j - m
      BY <1>1
    <3>2. u[i].byte = t[i - m].byte /\ u[j].byte = t[j - m].byte
      BY <1>1, <2>3
    <3> QED BY <1>2, <2>3, <3>1, <3>2 DEF Ordered
  <2> QED BY <1>1, <1>3, <2>1, <2>2, <2>3
<1> QED BY <1>7, <1>8 DEF u

\* What the steps do to the bytes: their error bits change, the FIFO or the
\* buffer is thrown away, a byte moves to the buffer, the buffer is handed out,
\* a byte comes in, and a byte finds no room.
LEMMA BitsAccounted ==
  ASSUME NEW r, NEW b, NEW q, NEW n, NEW gone, Accounted(r, b, q, n, gone),
         NEW p \in Seq(RxByte), Len(p) = Len(q), \A i \in 1 .. Len(q) : p[i].byte = q[i].byte
  PROVE  Accounted(r, b, p, n, gone)
<1>1. Com!Numbers(p) = Com!Numbers(q) /\ Ordered(p)
  BY SameOrdered DEF Accounted
<1> QED BY <1>1 DEF Accounted, AllBefore

LEMMA NoFifoAccounted ==
  ASSUME NEW r, NEW b, NEW q, NEW n, NEW gone, Accounted(r, b, q, n, gone)
  PROVE  Accounted(r, b, << >>, n, gone \cup Com!Numbers(q))
<1>1. /\ Com!Numbers(r) \subseteq Nat /\ Com!Numbers(b) \subseteq Nat /\ Com!Numbers(q) \subseteq 1 .. n
  BY DEF Accounted
<1>2. \A x \in Com!Numbers(q) : x \notin Com!Numbers(r) /\ x \notin Com!Numbers(b)
  BY <1>1 DEF Accounted, AllBefore
<1>3. Com!Numbers(r) \cup Com!Numbers(b) = (1 .. n) \ (gone \cup Com!Numbers(q))
  BY <1>2 DEF Accounted
<1>4. << >> \in Seq(RxByte)
  OBVIOUS
<1> QED BY <1>1, <1>3, <1>4, EmptyOrdered DEF Accounted, AllBefore

LEMMA NoBufferAccounted ==
  ASSUME NEW r, NEW b, NEW q, NEW n, NEW gone, Accounted(r, b, q, n, gone)
  PROVE  Accounted(r, << >>, q, n, gone \cup Com!Numbers(b))
<1>1. /\ Com!Numbers(r) \subseteq Nat /\ Com!Numbers(q) \subseteq Nat /\ Com!Numbers(b) \subseteq 1 .. n
  BY DEF Accounted
<1>2. \A x \in Com!Numbers(b) : x \notin Com!Numbers(r) /\ x \notin Com!Numbers(q)
  BY <1>1 DEF Accounted, AllBefore
<1>3. Com!Numbers(r) \cup Com!Numbers(q) = (1 .. n) \ (gone \cup Com!Numbers(b))
  BY <1>2 DEF Accounted
<1>4. << >> \in Seq(RxRecord)
  OBVIOUS
<1> QED BY <1>1, <1>3, <1>4, EmptyOrdered DEF Accounted, AllBefore

LEMMA TakenAccounted ==
  ASSUME NEW r, NEW b, NEW q, NEW n, NEW gone, Accounted(r, b, q, n, gone), q # << >>,
         NEW x \in RxRecord, x.byte = q[1].byte
  PROVE  Accounted(r, Append(b, x), Tail(q), n, gone)
<1>1. /\ Com!Numbers(q) = {q[1].byte} \cup Com!Numbers(Tail(q)) /\ Ordered(Tail(q))
      /\ \A y \in Com!Numbers(Tail(q)) : q[1].byte < y
  BY TailOrdered DEF Accounted
<1>2. \A y \in Com!Numbers(b) : y < x.byte
  BY <1>1 DEF Accounted, AllBefore
<1>3. Com!Numbers(Append(b, x)) = Com!Numbers(b) \cup {x.byte} /\ Ordered(Append(b, x))
  BY <1>2, AppendOrdered DEF Accounted
<1>4. Append(b, x) \in Seq(RxRecord) /\ Tail(q) \in Seq(RxByte)
  BY DEF Accounted
<1>5. AllBefore(r, Append(b, x)) /\ AllBefore(Append(b, x), Tail(q)) /\ AllBefore(r, Tail(q))
  BY <1>1, <1>3 DEF Accounted, AllBefore
<1>6. Com!Numbers(r) \cup Com!Numbers(Append(b, x)) \cup Com!Numbers(Tail(q)) = (1 .. n) \ gone
  BY <1>1, <1>3 DEF Accounted
<1> QED BY <1>1, <1>3, <1>4, <1>5, <1>6 DEF Accounted

LEMMA GivenAccounted ==
  ASSUME NEW r, NEW b, NEW q, NEW n, NEW gone, Accounted(r, b, q, n, gone)
  PROVE  Accounted(r \o b, << >>, q, n, gone)
<1>1. Com!Numbers(r \o b) = Com!Numbers(r) \cup Com!Numbers(b) /\ Ordered(r \o b)
  BY JoinOrdered DEF Accounted
<1>2. r \o b \in Seq(RxRecord) /\ << >> \in Seq(RxRecord)
  BY DEF Accounted
<1>3. AllBefore(r \o b, << >>) /\ AllBefore(<< >>, q) /\ AllBefore(r \o b, q)
  BY <1>1, EmptyOrdered DEF Accounted, AllBefore
<1>4. Com!Numbers(r \o b) \cup Com!Numbers(<< >>) \cup Com!Numbers(q) = (1 .. n) \ gone
  BY <1>1, EmptyOrdered DEF Accounted
<1> QED BY <1>1, <1>2, <1>3, <1>4, EmptyOrdered DEF Accounted

LEMMA ArrivedAccounted ==
  ASSUME NEW r, NEW b, NEW q, NEW n, NEW gone, Accounted(r, b, q, n, gone),
         NEW x \in RxByte, x.byte = n + 1
  PROVE  /\ Accounted(r, b, Append(q, x), n + 1, gone)
         /\ Accounted(r, b, q, n + 1, gone \cup {n + 1})
<1>1. /\ n \in Nat /\ gone \subseteq 1 .. n
      /\ Com!Numbers(r) \subseteq 1 .. n /\ Com!Numbers(b) \subseteq 1 .. n /\ Com!Numbers(q) \subseteq 1 .. n
  BY DEF Accounted
<1>2. (1 .. n + 1) = (1 .. n) \cup {n + 1} /\ n + 1 \notin 1 .. n /\ \A y \in 1 .. n : y < n + 1
  BY <1>1
<1>3. Com!Numbers(Append(q, x)) = Com!Numbers(q) \cup {n + 1} /\ Ordered(Append(q, x))
  BY <1>1, <1>2, AppendOrdered DEF Accounted
<1>4. Append(q, x) \in Seq(RxByte) /\ n + 1 \in Nat
  BY <1>1 DEF Accounted
<1>5. AllBefore(b, Append(q, x)) /\ AllBefore(r, Append(q, x))
  BY <1>1, <1>2, <1>3 DEF Accounted, AllBefore
<1>6. Com!Numbers(r) \cup Com!Numbers(b) \cup Com!Numbers(Append(q, x)) = (1 .. n + 1) \ gone
  BY <1>1, <1>2, <1>3 DEF Accounted
<1>7. Com!Numbers(r) \cup Com!Numbers(b) \cup Com!Numbers(q) = (1 .. n + 1) \ (gone \cup {n + 1})
  BY <1>1, <1>2 DEF Accounted
<1>8. gone \subseteq 1 .. n + 1 /\ gone \cup {n + 1} \subseteq 1 .. n + 1
  BY <1>1, <1>2
<1> QED BY <1>3, <1>4, <1>5, <1>6, <1>7, <1>8 DEF Accounted

\* What leaves a part of the state alone keeps what is known of it.
LEMMA SendingKept ==
  ASSUME SerialInOrder, UNCHANGED Com!sending
  PROVE  SerialInOrder'
  BY DEF SerialInOrder, Com!sending

LEMMA ReceivingKept ==
  ASSUME SerialReceived, SerialErrors, UNCHANGED <<rx, told, arrived, returned, lost>>,
         UNCHANGED <<fifos, chip>>, ~ Com!AtRbr', Com!Buf' = Com!Buf
  PROVE  SerialReceived' /\ SerialErrors'
<1>1. Com!Depth' = Com!Depth
  BY DEF Com!Depth
<1>2. SerialReceived'
  BY <1>1 DEF SerialReceived
<1>3. SerialErrors'
  BY DEF SerialErrors
<1> QED BY <1>2, <1>3

LEMMA SpeedKept ==
  ASSUME Com!SpeedRight, UNCHANGED <<chip, divisor>>
  PROVE  Com!SpeedRight'
  BY DEF Com!SpeedRight, Com!NoDivisor

\* The poll of a writer: it clears the head's bit, and told says so.
LEMMA LsrKeeps ==
  ASSUME SerialInv, Com!LsrRead, UNCHANGED <<chip, fifos>>, ~ Com!AtRbr', Com!Buf' = Com!Buf
  PROVE  SerialReceived' /\ SerialErrors'
<1>1. CASE chip = "pl011"
  <2>1. UNCHANGED <<rx, told, arrived, returned, lost>>
    BY <1>1 DEF Com!LsrRead, Com!receiving
  <2> QED BY <2>1, ReceivingKept DEF SerialInv
<1>2. CASE chip = "16550"
  <2>1. /\ rx' = [i \in DOMAIN rx |-> IF i = 1 THEN [rx[i] EXCEPT !.flagged = FALSE] ELSE rx[i]]
        /\ told' = IF rx # << >> /\ Head(rx).flagged THEN "writer" ELSE told
        /\ arrived' = arrived /\ returned' = returned /\ lost' = lost
    BY <1>2 DEF Com!LsrRead
  <2>2. rx \in Seq(RxByte) /\ DOMAIN rx = 1 .. Len(rx)
    BY DEF SerialInv, SerialReceived, Accounted
  <2>3. \A i \in 1 .. Len(rx) : rx[i] \in RxByte
    BY <2>2
  <2>4. \A i \in 1 .. Len(rx) : [rx[i] EXCEPT !.flagged = FALSE] \in RxByte
    BY <2>3 DEF RxByte
  <2>5. rx' \in Seq(RxByte) /\ Len(rx') = Len(rx)
    BY <2>1, <2>2, <2>3, <2>4
  <2>6. \A i \in 2 .. Len(rx) : rx'[i] = rx[i]
    BY <2>1, <2>2
  <2>7. rx # << >> => /\ rx'[1] = [rx[1] EXCEPT !.flagged = FALSE] /\ 1 \in 1 .. Len(rx)
                      /\ rx'[1].byte = rx[1].byte /\ rx'[1].damaged = rx[1].damaged /\ Head(rx) = rx[1]
    <3> SUFFICES ASSUME rx # << >>
                 PROVE  /\ rx'[1] = [rx[1] EXCEPT !.flagged = FALSE] /\ 1 \in 1 .. Len(rx)
                        /\ rx'[1].byte = rx[1].byte /\ rx'[1].damaged = rx[1].damaged /\ Head(rx) = rx[1]
      OBVIOUS
    <3>1. 1 \in 1 .. Len(rx) /\ Head(rx) = rx[1]
      BY <2>2
    <3>2. rx'[1] = [rx[1] EXCEPT !.flagged = FALSE]
      BY <2>1, <2>2, <3>1
    <3>3. rx[1] \in RxByte
      BY <2>3, <3>1
    <3> QED BY <3>1, <3>2, <3>3 DEF RxByte
  <2>8. rx' = << >> <=> rx = << >>
    BY <2>2, <2>5
  <2>9. \A i \in 1 .. Len(rx) : rx'[i].byte = rx[i].byte
    <3> TAKE i \in 1 .. Len(rx)
    <3>1. CASE i = 1
      BY <2>2, <2>7, <3>1
    <3>2. CASE i # 1
      BY <2>6, <3>2
    <3> QED BY <3>1, <3>2
  <2>10. SerialReceived'
    <3>1. Com!Depth' = Com!Depth
      BY DEF Com!Depth
    <3>2. Accounted(returned, Com!Buf, rx', arrived, lost)
      BY <2>5, <2>9, BitsAccounted DEF SerialInv, SerialReceived
    <3> QED BY <2>1, <2>5, <3>1, <3>2 DEF SerialInv, SerialReceived
  <2>11. rx # << >> /\ rx[1].damaged => told' # "nobody"
    BY <1>2, <2>1, <2>7 DEF SerialInv, SerialErrors
  <2>12. told' \in {"nobody", "reader", "writer"}
    BY <2>1 DEF SerialInv, SerialErrors
  <2>13. SerialErrors'
    BY <1>2, <2>1, <2>5, <2>6, <2>7, <2>8, <2>11, <2>12 DEF SerialInv, SerialErrors
  <2> QED BY <2>10, <2>13
<1> QED BY <1>1, <1>2 DEF SerialInv

\* Only a reader is between its poll and the data register.
LEMMA CallNames ==
  ASSUME SerialCall
  PROVE  /\ comCall.op \in {"write", "try_write", "write_str"} =>
              comCall \in [op : {"write", "try_write", "write_str"}, rest : {comCall.rest}]
         /\ comCall.op \in {"read", "try_read"} => comCall \in ReadCalls
         /\ comCall.op = "configure" => chip = "pl011" /\ comCall.rate \in Nat
<1>1. CASE comCall \in {Com!Idle, [op |-> "panic"], [op |-> "flush"]}
  BY <1>1 DEF Com!Idle
<1>2. CASE comCall \in [op : {"configure"}, rate : Nat] /\ chip = "pl011"
  BY <1>2
<1>3. CASE comCall \in [op : {"write", "try_write", "write_str"}, rest : {comCall.rest}]
  BY <1>3
<1>4. CASE comCall \in ReadCalls
  BY <1>4 DEF ReadCalls
<1> QED BY <1>1, <1>2, <1>3, <1>4 DEF SerialCall

\* A call that is not a read is not at the data register and has no buffer.
LEMMA NoRead ==
  ASSUME comCall \in {Com!Idle, [op |-> "panic"], [op |-> "flush"]}
         \/ comCall.op \in {"configure", "flush", "write", "try_write", "write_str"}
  PROVE  ~ Com!AtRbr /\ Com!Buf = << >>
  BY DEF Com!AtRbr, Com!Idle, Com!Reading, Com!Buf

LEMMA NoReadNext ==
  ASSUME comCall' \in {Com!Idle, [op |-> "panic"], [op |-> "flush"]}
         \/ comCall'.op \in {"configure", "flush", "write", "try_write", "write_str"}
  PROVE  ~ Com!AtRbr' /\ Com!Buf' = << >>
  BY DEF Com!AtRbr, Com!Idle, Com!Reading, Com!Buf

\* Calls begin and return.
LEMMA CallsKeep ==
  ASSUME SerialInv, UNCHANGED <<chip, fifos, divisor>>, UNCHANGED Com!sending, UNCHANGED Com!receiving,
         SerialCall', ~ Com!AtRbr', Com!Buf' = Com!Buf
  PROVE  SerialInv'
<1>1. SerialInOrder'
  BY SendingKept DEF SerialInv
<1>2. SerialReceived' /\ SerialErrors'
  BY ReceivingKept DEF SerialInv, Com!receiving
<1>3. Com!SpeedRight'
  BY SpeedKept DEF SerialInv
<1> QED BY <1>1, <1>2, <1>3 DEF SerialInv

LEMMA CallSteps ==
  ASSUME Com!SerialConstants, SerialInv
  PROVE  /\ \A c \in Configs : Com!configure_pl011(c) => SerialInv'
         /\ \A t \in Texts, op \in {"write", "try_write", "write_str"} : Com!write(op, t) => SerialInv'
         /\ Com!flush => SerialInv'
         /\ \A n \in 1 .. 2, op \in {"read", "try_read"} : Com!read(op, n) => SerialInv'
         /\ Com!write_done => SerialInv'
<1>1. ASSUME NEW c \in Configs, Com!configure_pl011(c) PROVE SerialInv'
  <2>1. /\ UNCHANGED <<chip, fifos, divisor>> /\ UNCHANGED Com!sending /\ UNCHANGED Com!receiving
        /\ chip = "pl011" /\ comCall = Com!Idle /\ comCall' = [op |-> "configure", rate |-> c.baud_rate]
    BY <1>1 DEF Com!configure_pl011
  <2>2. comCall' \in [op : {"configure"}, rate : Nat]
    BY <2>1 DEF Com!SerialConstants
  <2>3. SerialCall' /\ ~ Com!AtRbr' /\ Com!Buf' = Com!Buf
    BY <2>1, <2>2, NoRead, NoReadNext DEF SerialCall
  <2> QED BY <2>1, <2>3, CallsKeep
<1>2. ASSUME NEW t \in Texts, NEW op \in {"write", "try_write", "write_str"}, Com!write(op, t) PROVE SerialInv'
  <2>1. /\ UNCHANGED <<chip, fifos, divisor>> /\ UNCHANGED Com!sending /\ UNCHANGED Com!receiving
        /\ comCall = Com!Idle
        /\ comCall' = [op |-> op, rest |-> IF op = "write_str" THEN Com!Converted(t) ELSE t]
    BY <1>2 DEF Com!write, Com!port
  <2>2. PICK rest : comCall' = [op |-> op, rest |-> rest]
    BY <2>1
  <2>3. SerialCall' /\ ~ Com!AtRbr' /\ Com!Buf' = Com!Buf
    BY <2>1, <2>2, NoRead, NoReadNext DEF SerialCall
  <2> QED BY <2>1, <2>3, CallsKeep
<1>3. ASSUME Com!flush PROVE SerialInv'
  <2>1. /\ UNCHANGED <<chip, fifos, divisor>> /\ UNCHANGED Com!sending /\ UNCHANGED Com!receiving
        /\ comCall = Com!Idle /\ comCall' = [op |-> "flush"]
    BY <1>3 DEF Com!flush, Com!port
  <2>2. SerialCall' /\ ~ Com!AtRbr' /\ Com!Buf' = Com!Buf
    BY <2>1, NoRead, NoReadNext DEF SerialCall
  <2> QED BY <2>1, <2>2, CallsKeep
<1>4. ASSUME NEW n \in 1 .. 2, NEW op \in {"read", "try_read"}, Com!read(op, n) PROVE SerialInv'
  <2>1. /\ UNCHANGED <<chip, fifos, divisor>> /\ UNCHANGED Com!sending /\ UNCHANGED Com!receiving
        /\ comCall = Com!Idle /\ comCall' = [op |-> op, left |-> n, at |-> "poll", buf |-> << >>]
    BY <1>4 DEF Com!read, Com!port
  <2>2. comCall' \in ReadCalls /\ comCall'.at = "poll" /\ comCall'.buf = << >>
    BY <2>1 DEF ReadCalls
  <2>3. SerialCall' /\ ~ Com!AtRbr' /\ Com!Buf' = Com!Buf
    BY <2>1, <2>2, NoRead DEF SerialCall, Com!AtRbr, Com!Buf
  <2> QED BY <2>1, <2>3, CallsKeep
<1>5. ASSUME Com!write_done PROVE SerialInv'
  <2>1. /\ UNCHANGED <<chip, fifos, divisor>> /\ UNCHANGED Com!sending /\ UNCHANGED Com!receiving
        /\ comCall.op \in {"write", "try_write", "write_str"} /\ comCall' = Com!Idle
    BY <1>5 DEF Com!write_done, Com!Writing, Com!port, Com!Return
  <2>2. SerialCall' /\ ~ Com!AtRbr' /\ Com!Buf' = Com!Buf
    BY <2>1, NoRead, NoReadNext DEF SerialCall
  <2> QED BY <2>1, <2>2, CallsKeep
<1> QED BY <1>1, <1>2, <1>3, <1>4, <1>5

\* Polls that move no byte.
LEMMA PollSteps ==
  ASSUME SerialInv
  PROVE  /\ Com!poll_tx => SerialInv'
         /\ Com!flush_done => SerialInv'
         /\ Com!poll_rx => SerialInv'
<1>1. ASSUME Com!poll_tx \/ Com!flush_done PROVE SerialInv'
  <2>1. /\ UNCHANGED <<chip, fifos, divisor>> /\ UNCHANGED Com!sending /\ Com!LsrRead
        /\ comCall.op \in {"write", "try_write", "write_str", "configure", "flush"}
        /\ comCall' = Com!Idle \/ comCall' = comCall
    BY <1>1 DEF Com!poll_tx, Com!flush_done, Com!Return, Com!Writing, Com!port
  <2>2. SerialCall'
    BY <2>1 DEF SerialInv, SerialCall
  <2>3. ~ Com!AtRbr' /\ Com!Buf' = Com!Buf
    BY <2>1, NoRead, NoReadNext
  <2>4. SerialReceived' /\ SerialErrors'
    BY <2>1, <2>3, LsrKeeps
  <2>5. SerialInOrder' /\ Com!SpeedRight'
    BY <2>1, SendingKept, SpeedKept DEF SerialInv
  <2> QED BY <2>1, <2>2, <2>4, <2>5 DEF SerialInv
<1>2. ASSUME Com!poll_rx PROVE SerialInv'
  <2>1. /\ UNCHANGED <<chip, fifos, divisor>> /\ UNCHANGED Com!sending
        /\ UNCHANGED <<rx, told, arrived, returned>> /\ comCall.at = "poll"
        /\ \/ comCall' = Com!Idle /\ lost' = lost \cup Com!Numbers(Com!Buf)
           \/ comCall' = comCall /\ lost' = lost
    BY <1>2 DEF Com!poll_rx, Com!Polling, Com!ReadFails, Com!port
  <2>2. SerialCall'
    BY <2>1 DEF SerialInv, SerialCall
  <2>3. SerialInOrder' /\ Com!SpeedRight'
    BY <2>1, SendingKept, SpeedKept DEF SerialInv
  <2>4. CASE comCall' = Com!Idle /\ lost' = lost \cup Com!Numbers(Com!Buf)
    <3>1. ~ Com!AtRbr' /\ Com!Buf' = << >> /\ Com!Depth' = Com!Depth
      BY <2>1, <2>4, NoReadNext DEF Com!Depth
    <3>2. SerialReceived'
      BY <2>1, <2>4, <3>1, NoBufferAccounted DEF SerialInv, SerialReceived
    <3>3. \A i \in 1 .. Len(<< >>) : FALSE
      OBVIOUS
    <3>4. SerialErrors'
      BY <2>1, <3>1, <3>3 DEF SerialInv, SerialErrors
    <3> QED BY <2>1, <2>2, <2>3, <3>2, <3>4 DEF SerialInv
  <2>5. CASE comCall' = comCall /\ lost' = lost
    <3>1. ~ Com!AtRbr' /\ Com!Buf' = Com!Buf
      BY <2>1, <2>5 DEF Com!AtRbr, Com!Buf, Com!Reading
    <3>2. SerialReceived' /\ SerialErrors'
      BY <2>1, <2>5, <3>1, ReceivingKept DEF SerialInv
    <3> QED BY <2>1, <2>2, <2>3, <3>2 DEF SerialInv
  <2> QED BY <2>1, <2>4, <2>5
<1> QED BY <1>1, <1>2

\* The receive FIFO is emptied while nobody reads.
LEMMA Emptied ==
  ASSUME Com!SerialConstants, SerialInv, Com!RxCleared, chip' = chip, fifos' \in BOOLEAN,
         ~ Com!AtRbr', Com!Buf' = Com!Buf
  PROVE  SerialReceived' /\ SerialErrors'
<1>1. /\ rx' = << >> /\ told' = "nobody" /\ lost' = lost \cup Com!Numbers(rx)
      /\ arrived' = arrived /\ returned' = returned
  BY DEF Com!RxCleared
<1>2. Com!Depth' \in Nat
  BY DEF Com!Depth, Com!SerialConstants
<1>3. Len(rx') = 0 /\ \A i \in 2 .. Len(rx') : rx'[i].damaged => rx'[i].flagged
  BY <1>1
<1>4. SerialReceived'
  BY <1>1, <1>2, <1>3, NoFifoAccounted DEF SerialInv, SerialReceived
<1>5. SerialErrors'
  BY <1>1, <1>3 DEF SerialInv, SerialErrors
<1> QED BY <1>4, <1>5

\* The divisors are right.
LEMMA Pl011Right ==
  ASSUME Com!SerialConstants, NEW rate \in Nat, Com!Pl011Divisor(rate) # Com!NoDivisor,
         divisor' = Com!Pl011Divisor(rate), chip' = "pl011"
  PROVE  Com!SpeedRight'
<1> DEFINE P == 64 * PL011_CLOCK_HZ
           step == 16 * rate
           d == P \div step
<1>1. rate # 0 /\ Com!Pl011Divisor(rate) = [rate |-> rate, div |-> (PL011_CLOCK_HZ * 64) \div (16 * rate)]
  BY DEF Com!Pl011Divisor, Com!NoDivisor
<1>2. P \in Nat /\ step \in Nat \ {0} /\ PL011_CLOCK_HZ * 64 = P
  BY <1>1 DEF Com!SerialConstants
<1>3. d * step <= P /\ P < (d + 1) * step
  BY <1>2, DivMod
<1>4. divisor'.rate = rate /\ divisor'.div = d
  BY <1>1, <1>2
<1> HIDE DEF d, P
<1>5. divisor'.div * (16 * divisor'.rate) <= P /\ P < (divisor'.div + 1) * (16 * divisor'.rate)
  BY <1>3, <1>4
<1> QED BY <1>5 DEF Com!SpeedRight, P

LEMMA UartRight ==
  ASSUME Com!SerialConstants, NEW rate \in Nat, Com!UartDivisor(rate) # Com!NoDivisor, ~ Com!Panics(rate),
         divisor' = Com!UartDivisor(rate), chip' = "16550"
  PROVE  Com!SpeedRight'
<1> DEFINE step == 16 * rate
           d == UART_CLOCK_HZ \div (step % U32)
<1>1. rate # 0 /\ Com!UartDivisor(rate) = [rate |-> rate, div |-> d]
  BY DEF Com!UartDivisor, Com!NoDivisor
<1>2. UART_CLOCK_HZ \in Nat /\ step \in Nat \ {0} /\ U32 \in Nat \ {0}
  BY <1>1 DEF Com!SerialConstants
<1>3. divisor'.rate = rate /\ divisor'.div = d
  BY <1>1
<1>4. CASE step >= U32
  BY <1>3, <1>4 DEF Com!SpeedRight
<1>5. CASE step < U32
  <2>1. step % U32 = step
    BY <1>2, <1>5
  <2>2. d * step <= UART_CLOCK_HZ /\ UART_CLOCK_HZ < (d + 1) * step
    BY <1>2, <2>1, DivMod
  <2> HIDE DEF d
  <2>3. /\ divisor'.div * (16 * divisor'.rate) <= UART_CLOCK_HZ
        /\ UART_CLOCK_HZ < (divisor'.div + 1) * (16 * divisor'.rate)
    BY <1>3, <2>2
  <2> QED BY <2>3 DEF Com!SpeedRight
<1> QED BY <1>2, <1>4, <1>5

LEMMA ConfigureSteps ==
  ASSUME Com!SerialConstants, SerialInv
  PROVE  /\ Com!configure_idle => SerialInv'
         /\ \A c \in Configs : Com!configure_16550(c) => SerialInv'
<1>1. ASSUME Com!configure_idle PROVE SerialInv'
  <2>1. /\ comCall.op = "configure" /\ chip' = chip /\ UNCHANGED Com!sending /\ comCall' = Com!Idle
        /\ Com!RxCleared /\ fifos' \in BOOLEAN
        /\ \/ divisor' = divisor
           \/ /\ divisor' = Com!Pl011Divisor(comCall.rate)
              /\ Com!Pl011Divisor(comCall.rate) # Com!NoDivisor
    BY <1>1 DEF Com!configure_idle, Com!Return, Com!Enabled
  <2>2. chip = "pl011" /\ comCall.rate \in Nat
    BY <2>1, CallNames DEF SerialInv
  <2>3. SerialCall' /\ ~ Com!AtRbr' /\ Com!Buf' = Com!Buf
    BY <2>1, NoRead, NoReadNext DEF SerialCall
  <2>4. SerialReceived' /\ SerialErrors'
    BY <2>1, <2>3, Emptied
  <2>5. Com!SpeedRight'
    BY <2>1, <2>2, SpeedKept, Pl011Right DEF SerialInv
  <2>6. SerialInOrder'
    BY <2>1, SendingKept DEF SerialInv
  <2> QED BY <2>1, <2>3, <2>4, <2>5, <2>6 DEF SerialInv
<1>2. ASSUME NEW c \in Configs, Com!configure_16550(c) PROVE SerialInv'
  <2> DEFINE d == Com!UartDivisor(c.baud_rate)
  <2>1. chip = "16550" /\ chip' = chip /\ comCall = Com!Idle /\ c.baud_rate \in Nat
    BY <1>2 DEF Com!configure_16550, Com!SerialConstants
  <2>2. CASE Com!Panics(c.baud_rate)
    <3>1. /\ UNCHANGED <<chip, fifos, divisor>> /\ UNCHANGED Com!sending /\ UNCHANGED Com!receiving
          /\ comCall' = [op |-> "panic"]
      BY <1>2, <2>2 DEF Com!configure_16550, Com!port
    <3>2. SerialCall' /\ ~ Com!AtRbr' /\ Com!Buf' = Com!Buf
      BY <2>1, <3>1, NoRead, NoReadNext DEF SerialCall
    <3> QED BY <3>1, <3>2, CallsKeep
  <2>3. CASE ~ Com!Panics(c.baud_rate) /\ d = Com!NoDivisor
    <3>1. /\ UNCHANGED <<chip, fifos, divisor>> /\ UNCHANGED Com!sending /\ UNCHANGED Com!receiving
          /\ comCall' = Com!Idle
      BY <1>2, <2>1, <2>3 DEF Com!configure_16550, Com!port
    <3>2. SerialCall' /\ ~ Com!AtRbr' /\ Com!Buf' = Com!Buf
      BY <2>1, <3>1, NoRead, NoReadNext DEF SerialCall
    <3> QED BY <3>1, <3>2, CallsKeep
  <2>4. CASE ~ Com!Panics(c.baud_rate) /\ d # Com!NoDivisor
    <3>1. /\ divisor' = d /\ fifos' = TRUE /\ tx' = << >> /\ given' = wire \o shift
          /\ Com!RxCleared
          /\ shift' = shift /\ wire' = wire /\ comCall' = Com!Idle
      BY <1>2, <2>1, <2>4 DEF Com!configure_16550, Com!Enabled
    <3>2. SerialCall' /\ ~ Com!AtRbr' /\ Com!Buf' = Com!Buf
      BY <2>1, <3>1, NoRead, NoReadNext DEF SerialCall
    <3>3. SerialReceived' /\ SerialErrors'
      BY <2>1, <3>1, <3>2, Emptied
    <3>4. Com!SpeedRight'
      BY <2>1, <2>4, <3>1, UartRight
    <3>5. SerialInOrder'
      <4>1. PICK S : given \in Seq(S) /\ wire \in Seq(S) /\ shift \in Seq(S) /\ tx \in Seq(S)
        BY DEF SerialInv, SerialInOrder
      <4>2. wire \o shift \in Seq(S) /\ (wire \o shift) \o << >> = wire \o shift /\ << >> \in Seq(S)
        BY <4>1
      <4>3. /\ given' \in Seq(S) /\ wire' \in Seq(S) /\ shift' \in Seq(S) /\ tx' \in Seq(S)
            /\ wire' \o shift' \o tx' = given'
        BY <3>1, <4>1, <4>2
      <4> QED BY <4>3 DEF SerialInOrder
    <3> QED BY <2>1, <3>1, <3>2, <3>3, <3>4, <3>5 DEF SerialInv
  <2> QED BY <2>2, <2>3, <2>4
<1> QED BY <1>1, <1>2

\* Appending, beginning and ending a byte keep the order.
LEMMA JoinAppend ==
  ASSUME NEW S, NEW a \in Seq(S), NEW b \in Seq(S), NEW c \in Seq(S), NEW x
  PROVE  (a \o b) \o Append(c, x) = Append((a \o b) \o c, x)
<1> DEFINE T == S \cup {x}
           ab == a \o b
<1>1. ab \in Seq(T) /\ c \in Seq(T) /\ x \in T
  OBVIOUS
<1> HIDE DEF T, ab
<1>2. ab \o Append(c, x) = Append(ab \o c, x)
  BY <1>1
<1> QED BY <1>2 DEF ab

LEMMA JoinHead ==
  ASSUME NEW S, NEW a \in Seq(S), NEW c \in Seq(S), c # << >>
  PROVE  /\ (a \o << Head(c) >>) \o Tail(c) = (a \o << >>) \o c
         /\ << Head(c) >> \in Seq(S) /\ Tail(c) \in Seq(S)
<1>1. Head(c) \in S /\ Tail(c) \in Seq(S) /\ << Head(c) >> \in Seq(S) /\ a \o << >> = a
  OBVIOUS
<1>2. << Head(c) >> \o Tail(c) = c
  OBVIOUS
<1>3. (a \o << Head(c) >>) \o Tail(c) = a \o (<< Head(c) >> \o Tail(c))
  BY <1>1
<1> QED BY <1>1, <1>2, <1>3

LEMMA SendSteps ==
  ASSUME Com!SerialConstants, SerialInv
  PROVE  /\ Com!write_byte => SerialInv'
         /\ Com!send => SerialInv'
         /\ Com!sent => SerialInv'
<1>1. PICK S : /\ given \in Seq(S) /\ wire \in Seq(S) /\ shift \in Seq(S) /\ tx \in Seq(S)
               /\ (wire \o shift) \o tx = given
  BY DEF SerialInv, SerialInOrder
<1>2. ASSUME Com!write_byte PROVE SerialInv'
  <2>1. /\ comCall.op \in {"write", "try_write", "write_str"} /\ Com!TxRoom
        /\ given' = Append(given, Head(comCall.rest)) /\ shift' = shift /\ wire' = wire
        /\ tx' = IF Len(tx) < Com!Depth THEN Append(tx, Head(comCall.rest)) ELSE tx
        /\ comCall' = [comCall EXCEPT !.rest = Tail(@)]
        /\ Com!LsrRead /\ UNCHANGED <<chip, fifos, divisor>>
    BY <1>2 DEF Com!write_byte, Com!Writing, Com!port
  <2>2. Len(tx) < Com!Depth
    <3>1. Len(<< >>) = 0
      OBVIOUS
    <3> QED BY <1>1, <2>1, <3>1, DepthPositive DEF Com!TxRoom
  <2>3. PICK x : x = Head(comCall.rest)
    OBVIOUS
  <2>4. tx' = Append(tx, x) /\ given' = Append(given, x)
    BY <2>1, <2>2, <2>3
  <2>5. SerialInOrder'
    <3>1. given' \in Seq(S \cup {x}) /\ tx' \in Seq(S \cup {x}) /\ wire \in Seq(S \cup {x}) /\ shift \in Seq(S \cup {x})
      BY <1>1, <2>4
    <3>2. (wire \o shift) \o tx' = given'
      BY <1>1, <2>4, JoinAppend
    <3> QED BY <2>1, <3>1, <3>2 DEF SerialInOrder
  <2>6. /\ comCall' \in [op : {"write", "try_write", "write_str"}, rest : {comCall'.rest}]
        /\ comCall'.op \in {"write", "try_write", "write_str"}
    <3>1. comCall \in [op : {"write", "try_write", "write_str"}, rest : {comCall.rest}]
      BY <2>1, CallNames DEF SerialInv
    <3>2. PICK y : y = Tail(comCall.rest)
      OBVIOUS
    <3>3. comCall' = [comCall EXCEPT !.rest = y]
      BY <2>1, <3>2
    <3>4. comCall' = [op |-> comCall.op, rest |-> y]
      BY <3>1, <3>3
    <3> QED BY <2>1, <3>4
  <2>7. SerialCall' /\ ~ Com!AtRbr' /\ Com!Buf' = Com!Buf
    BY <2>1, <2>6, NoRead, NoReadNext DEF SerialCall
  <2>8. SerialReceived' /\ SerialErrors'
    BY <2>1, <2>7, LsrKeeps
  <2>9. Com!SpeedRight'
    BY <2>1, SpeedKept DEF SerialInv
  <2> QED BY <2>1, <2>5, <2>7, <2>8, <2>9 DEF SerialInv
<1>3. ASSUME Com!send \/ Com!sent PROVE SerialInv'
  <2>1. /\ UNCHANGED <<chip, fifos, divisor>> /\ UNCHANGED Com!receiving /\ comCall' = comCall /\ given' = given
        /\ \/ /\ tx # << >> /\ shift = << >> /\ shift' = << Head(tx) >> /\ tx' = Tail(tx) /\ wire' = wire
           \/ /\ wire' = wire \o shift /\ shift' = << >> /\ tx' = tx
    BY <1>3 DEF Com!send, Com!sent, Com!port
  <2>2. SerialInOrder'
    <3>1. CASE tx # << >> /\ shift = << >> /\ shift' = << Head(tx) >> /\ tx' = Tail(tx) /\ wire' = wire
      <4>1. (wire \o shift') \o tx' = given /\ shift' \in Seq(S) /\ tx' \in Seq(S)
        BY <1>1, <3>1, JoinHead
      <4> QED BY <1>1, <2>1, <3>1, <4>1 DEF SerialInOrder
    <3>2. CASE wire' = wire \o shift /\ shift' = << >> /\ tx' = tx
      <4>1. wire' \in Seq(S) /\ shift' \in Seq(S) /\ wire' \o shift' = wire \o shift
        BY <1>1, <3>2
      <4> QED BY <1>1, <2>1, <3>2, <4>1 DEF SerialInOrder
    <3> QED BY <2>1, <3>1, <3>2
  <2>3. SerialReceived' /\ SerialErrors' /\ SerialCall'
    <3>1. Com!Depth' = Com!Depth /\ (Com!AtRbr' <=> Com!AtRbr) /\ Com!Buf' = Com!Buf
      BY <2>1 DEF Com!Depth, Com!AtRbr, Com!Buf, Com!Reading
    <3> QED BY <2>1, <3>1 DEF SerialInv, SerialReceived, SerialErrors, SerialCall, Com!receiving
  <2>4. Com!SpeedRight'
    BY <2>1, SpeedKept DEF SerialInv
  <2> QED BY <2>1, <2>2, <2>3, <2>4 DEF SerialInv
<1> QED BY <1>2, <1>3

\* The head of the FIFO.
LEMMA RxHead ==
  ASSUME SerialInv, rx # << >>
  PROVE  /\ Head(rx) = rx[1] /\ rx[1] \in RxByte /\ Len(rx) \in Nat /\ Len(rx) >= 1
         /\ Tail(rx) \in Seq(RxByte) /\ Len(Tail(rx)) = Len(rx) - 1
         /\ \A i \in 1 .. Len(rx) - 1 : Tail(rx)[i] = rx[i + 1]
  BY DEF SerialInv, SerialReceived, Accounted

\* A reader is between its poll and the data register only on a 16550, where
\* the poll saw the bits; a PL011 may give out what nobody looked at.
LEMMA TakenKeeps ==
  ASSUME Com!SerialConstants, SerialInv, Com!Taken, rx # << >>, Com!Reading
  PROVE  SerialInv'
<1> DEFINE rec == [byte |-> rx[1].byte, damage |-> Com!Damage(rx[1])]
           n == Len(Com!Buf)
<1>1. /\ Head(rx) = rx[1] /\ rx[1] \in RxByte /\ Len(rx) \in Nat /\ Len(rx) >= 1
      /\ Tail(rx) \in Seq(RxByte) /\ Len(Tail(rx)) = Len(rx) - 1
      /\ \A i \in 1 .. Len(rx) - 1 : Tail(rx)[i] = rx[i + 1]
  BY RxHead
<1>2. /\ rx' = Tail(rx) /\ told' = "nobody"
      /\ comCall' = [comCall EXCEPT !.left = @ - 1, !.at = "poll", !.buf = Append(@, rec)]
      /\ UNCHANGED <<chip, fifos, divisor>> /\ UNCHANGED Com!sending
      /\ arrived' = arrived /\ returned' = returned /\ lost' = lost
  BY <1>1 DEF Com!Taken, Com!port
<1>3. Com!Damage(rx[1]) \in {"none", "unseen", "nobody", "reader", "writer"}
  BY DEF SerialInv, SerialErrors, Com!Damage
<1>4. rec \in RxRecord /\ rec.byte = rx[1].byte /\ rec.damage = Com!Damage(rx[1])
  BY <1>1, <1>3 DEF RxRecord, RxByte
<1> HIDE DEF rec
<1>5. comCall \in ReadCalls /\ comCall.buf = Com!Buf
  BY CallNames DEF SerialInv, Com!Reading, Com!Buf
<1>6. PICK k \in Int : k = comCall.left - 1
  BY <1>5 DEF ReadCalls
<1>7. PICK b \in Seq(RxRecord) : b = Append(Com!Buf, rec)
  <2>1. Com!Buf \in Seq(RxRecord)
    BY DEF SerialInv, SerialReceived, Accounted
  <2>2. Append(Com!Buf, rec) \in Seq(RxRecord)
    BY <1>4, <2>1
  <2> QED BY <2>2
<1>8. comCall' = [op |-> comCall.op, left |-> k, at |-> "poll", buf |-> b]
  BY <1>2, <1>5, <1>6, <1>7 DEF ReadCalls
<1>9. comCall' \in ReadCalls /\ comCall'.at = "poll" /\ comCall'.op \in {"read", "try_read"} /\ comCall'.buf = b
  BY <1>5, <1>8 DEF ReadCalls
<1>10. SerialCall' /\ ~ Com!AtRbr' /\ Com!Buf' = Append(Com!Buf, rec)
  BY <1>7, <1>9 DEF SerialCall, Com!AtRbr, Com!Reading, Com!Buf
<1>11. SerialReceived'
  <2>1. Com!Depth' = Com!Depth /\ Com!Depth \in Nat
    BY <1>2, DepthPositive DEF Com!Depth
  <2>2. Accounted(returned, Append(Com!Buf, rec), Tail(rx), arrived, lost)
    BY <1>4, TakenAccounted DEF SerialInv, SerialReceived
  <2>3. Len(rx) <= Com!Depth
    BY DEF SerialInv, SerialReceived
  <2> QED BY <1>1, <1>2, <1>10, <2>1, <2>2, <2>3 DEF SerialReceived
<1>12. SerialErrors'
  <2>1. Com!Buf \in Seq(RxRecord) /\ n \in Nat
    BY <1>5 DEF ReadCalls
  <2>2. /\ Len(Com!Buf') = n + 1 /\ Com!Buf'[n + 1] = rec
        /\ \A i \in 1 .. n : Com!Buf'[i] = Com!Buf[i]
    BY <1>4, <1>10, <2>1
  <2>3. \A i \in 1 .. n + 1 : i \in 1 .. n \/ i = n + 1
    BY <2>1
  <2>4. ASSUME chip = "16550" PROVE \A i \in 1 .. n + 1 : Com!Buf'[i].damage # "nobody"
    <3>1. rec.damage # "nobody"
      BY <1>4, <2>4 DEF SerialInv, SerialErrors, Com!Damage
    <3>2. \A i \in 1 .. n : Com!Buf[i].damage # "nobody"
      BY <2>4 DEF SerialInv, SerialErrors
    <3> QED BY <2>2, <2>3, <3>1, <3>2
  <2>5. \A i \in 1 .. Len(rx) - 1 : rx'[i] = rx[i + 1] /\ i + 1 \in 2 .. Len(rx)
    BY <1>1, <1>2
  <2>6. ASSUME chip = "16550" PROVE \A i \in 1 .. Len(rx) - 1 : rx'[i].damaged => rx'[i].flagged
    BY <2>5, <2>6 DEF SerialInv, SerialErrors
  <2>7. rx' # << >> => 1 \in 1 .. Len(rx) - 1
    BY <1>1, <1>2
  <2>8. \A i \in 2 .. Len(rx') : i \in 1 .. Len(rx) - 1
    BY <1>1, <1>2
  <2>9. chip' = "16550" =>
          /\ \A i \in 1 .. Len(Com!Buf') : Com!Buf'[i].damage # "nobody"
          /\ \A i \in 2 .. Len(rx') : rx'[i].damaged => rx'[i].flagged
          /\ rx' # << >> /\ rx'[1].damaged => rx'[1].flagged
    BY <1>2, <2>2, <2>4, <2>6, <2>7, <2>8
  <2>10. chip' = "16550" => \A i \in 1 .. Len(returned') : returned'[i].damage # "nobody"
    BY <1>2 DEF SerialInv, SerialErrors
  <2>11. told' \in {"nobody", "reader", "writer"}
    BY <1>2
  <2> QED BY <1>10, <2>9, <2>10, <2>11 DEF SerialErrors
<1>13. SerialInOrder' /\ Com!SpeedRight'
  BY <1>2, SendingKept, SpeedKept DEF SerialInv
<1> QED BY <1>2, <1>10, <1>11, <1>12, <1>13 DEF SerialInv

\* The poll of a reader.
LEMMA PollKeeps ==
  ASSUME SerialInv, Com!poll_16550
  PROVE  SerialInv'
<1> DEFINE h == [rx[1] EXCEPT !.flagged = FALSE]
<1>1. chip = "16550" /\ rx # << >> /\ Com!Reading /\ comCall.op \in {"read", "try_read"}
  BY DEF Com!poll_16550, Com!Polling, Com!Reading
<1>2. /\ Head(rx) = rx[1] /\ rx[1] \in RxByte /\ Len(rx) \in Nat /\ Len(rx) >= 1
      /\ Tail(rx) \in Seq(RxByte) /\ Len(Tail(rx)) = Len(rx) - 1
      /\ \A i \in 1 .. Len(rx) - 1 : Tail(rx)[i] = rx[i + 1]
  BY <1>1, RxHead
<1>3. /\ rx' = << h >> \o Tail(rx)
      /\ \/ /\ comCall' = Com!Idle /\ lost' = lost \cup Com!Numbers(Com!Buf)
            /\ told' = IF rx[1].flagged THEN "reader" ELSE told
         \/ /\ ~ rx[1].flagged /\ comCall' = [comCall EXCEPT !.at = "rbr"] /\ lost' = lost /\ told' = told
      /\ UNCHANGED <<chip, fifos, divisor>> /\ UNCHANGED Com!sending /\ arrived' = arrived /\ returned' = returned
  BY <1>2 DEF Com!poll_16550, Com!port, Com!check_errors, Com!ReadFails
<1>4. h \in RxByte /\ h.byte = rx[1].byte /\ h.damaged = rx[1].damaged /\ ~ h.flagged
  BY <1>2 DEF RxByte
<1> HIDE DEF h
<1>5. rx' \in Seq(RxByte) /\ Len(rx') = Len(rx) /\ rx'[1] = h
  BY <1>2, <1>3, <1>4
<1>6. \A i \in 2 .. Len(rx) : rx'[i] = rx[i]
  <2> TAKE i \in 2 .. Len(rx)
  <2>1. rx'[i] = Tail(rx)[i - 1]
    BY <1>2, <1>3, <1>4
  <2>2. i - 1 \in 1 .. Len(rx) - 1 /\ (i - 1) + 1 = i
    BY <1>2
  <2> QED BY <1>2, <2>1, <2>2
<1>7. \A i \in 1 .. Len(rx) : rx'[i].byte = rx[i].byte
  <2> TAKE i \in 1 .. Len(rx)
  <2>1. CASE i = 1
    BY <1>4, <1>5, <2>1
  <2>2. CASE i # 1
    BY <1>2, <1>6, <2>2
  <2> QED BY <2>1, <2>2
<1>8. Accounted(returned, Com!Buf, rx', arrived, lost)
  BY <1>5, <1>7, BitsAccounted DEF SerialInv, SerialReceived
<1>9. Com!Depth' = Com!Depth /\ Len(rx') <= Com!Depth
  BY <1>3, <1>5 DEF Com!Depth, SerialInv, SerialReceived
<1>10. rx[1].damaged => told' # "nobody"
  BY <1>1, <1>3 DEF SerialInv, SerialErrors
<1>11. told' \in {"nobody", "reader", "writer"}
  BY <1>3 DEF SerialInv, SerialErrors
<1>12. rx' # << >>
  BY <1>2, <1>5
<1>13. /\ \A i \in 2 .. Len(rx') : rx'[i].damaged => rx'[i].flagged
       /\ rx'[1].damaged => told' # "nobody"
       /\ \A i \in 1 .. Len(returned') : returned'[i].damage # "nobody"
       /\ ~ rx'[1].flagged
  BY <1>1, <1>3, <1>4, <1>5, <1>6, <1>10 DEF SerialInv, SerialErrors
<1>14. SerialInOrder' /\ Com!SpeedRight'
  BY <1>3, SendingKept, SpeedKept DEF SerialInv
<1>15. CASE comCall' = Com!Idle /\ lost' = lost \cup Com!Numbers(Com!Buf)
  <2>1. SerialCall' /\ ~ Com!AtRbr' /\ Com!Buf' = << >>
    BY <1>15, NoReadNext DEF SerialCall
  <2>2. SerialReceived'
    BY <1>3, <1>8, <1>9, <1>15, <2>1, NoBufferAccounted DEF SerialReceived
  <2>3. \A i \in 1 .. Len(<< >>) : FALSE
    OBVIOUS
  <2>4. SerialErrors'
    BY <1>11, <1>13, <2>1, <2>3 DEF SerialErrors
  <2> QED BY <1>3, <1>14, <2>1, <2>2, <2>4 DEF SerialInv
<1>16. CASE comCall' = [comCall EXCEPT !.at = "rbr"] /\ lost' = lost
  <2>1. comCall \in ReadCalls
    BY <1>1, CallNames DEF SerialInv
  <2>2. comCall' \in ReadCalls /\ comCall'.buf = comCall.buf /\ comCall'.op = comCall.op
    BY <1>16, <2>1 DEF ReadCalls
  <2>3. SerialCall' /\ Com!Buf' = Com!Buf
    BY <1>1, <2>2 DEF SerialCall, Com!Buf, Com!Reading
  <2>4. SerialReceived'
    BY <1>3, <1>8, <1>9, <1>16, <2>3 DEF SerialReceived
  <2>5. \A i \in 1 .. Len(Com!Buf') : Com!Buf'[i].damage # "nobody"
    BY <1>1, <2>3 DEF SerialInv, SerialErrors
  <2>6. SerialErrors'
    BY <1>1, <1>3, <1>11, <1>12, <1>13, <2>5 DEF SerialErrors
  <2> QED BY <1>3, <1>14, <2>3, <2>4, <2>6 DEF SerialInv
<1> QED BY <1>3, <1>15, <1>16

\* A read ends well: its buffer is the caller's.
LEMMA GivenKeeps ==
  ASSUME SerialInv, Com!read_done
  PROVE  SerialInv'
<1> DEFINE m == Len(returned)
           n == Len(Com!Buf)
<1>1. /\ returned' = returned \o Com!Buf /\ comCall' = Com!Idle
      /\ UNCHANGED <<chip, fifos, divisor>> /\ UNCHANGED Com!sending
      /\ rx' = rx /\ told' = told /\ arrived' = arrived /\ lost' = lost
  BY DEF Com!read_done, Com!Return, Com!port
<1>2. SerialCall' /\ ~ Com!AtRbr' /\ Com!Buf' = << >> /\ Com!Depth' = Com!Depth
  BY <1>1, NoReadNext DEF SerialCall, Com!Depth
<1>3. SerialReceived'
  BY <1>1, <1>2, GivenAccounted DEF SerialInv, SerialReceived
<1>4. returned \in Seq(RxRecord) /\ Com!Buf \in Seq(RxRecord) /\ m \in Nat /\ n \in Nat
  BY DEF SerialInv, SerialReceived, Accounted
<1>5. /\ Len(returned') = m + n
      /\ \A i \in 1 .. m : returned'[i] = returned[i]
      /\ \A i \in 1 .. m + n : i > m => returned'[i] = Com!Buf[i - m]
  BY <1>1, <1>4
<1>6. ASSUME chip = "16550" PROVE \A i \in 1 .. m + n : returned'[i].damage # "nobody"
  <2>1. /\ \A i \in 1 .. m : returned[i].damage # "nobody"
        /\ \A i \in 1 .. n : Com!Buf[i].damage # "nobody"
    BY <1>6 DEF SerialInv, SerialErrors
  <2>2. \A i \in 1 .. m + n : i \in 1 .. m \/ (i > m /\ i - m \in 1 .. n)
    BY <1>4
  <2> HIDE DEF m, n
  <2> QED BY <1>5, <2>1, <2>2
<1>7. \A i \in 1 .. Len(<< >>) : FALSE
  OBVIOUS
<1>8. SerialErrors'
  BY <1>1, <1>2, <1>5, <1>6, <1>7 DEF SerialInv, SerialErrors
<1>9. SerialInOrder' /\ Com!SpeedRight'
  BY <1>1, SendingKept, SpeedKept DEF SerialInv
<1> QED BY <1>1, <1>2, <1>3, <1>8, <1>9 DEF SerialInv

LEMMA ArriveKeeps ==
  ASSUME Com!SerialConstants, SerialInv, NEW damaged \in BOOLEAN, Com!arrive(damaged)
  PROVE  SerialInv'
<1> DEFINE new == [byte |-> arrived + 1, damaged |-> damaged, flagged |-> damaged]
           l == Len(rx)
<1>1. /\ UNCHANGED <<chip, fifos, divisor>> /\ UNCHANGED Com!sending /\ comCall' = comCall /\ returned' = returned
      /\ arrived' = arrived + 1
      /\ \/ l < Com!Depth /\ rx' = Append(rx, new) /\ told' = told /\ lost' = lost
         \/ /\ ~ (l < Com!Depth) /\ chip = "16550" /\ ~ fifos
            /\ rx' = << new >> /\ told' = "nobody" /\ lost' = lost \cup Com!Numbers(rx)
         \/ ~ (l < Com!Depth) /\ rx' = rx /\ told' = told /\ lost' = lost \cup {new.byte}
  BY DEF Com!arrive, Com!port
<1>2. SerialInOrder' /\ Com!SpeedRight' /\ SerialCall'
  BY <1>1, SendingKept, SpeedKept DEF SerialInv, SerialCall
<1>3. (Com!AtRbr' <=> Com!AtRbr) /\ Com!Buf' = Com!Buf
  BY <1>1 DEF Com!AtRbr, Com!Buf, Com!Reading
<1>4. /\ rx \in Seq(RxByte) /\ l \in Nat /\ arrived \in Nat /\ l <= Com!Depth
      /\ Accounted(returned, Com!Buf, rx, arrived, lost)
  BY DEF SerialInv, SerialReceived, Accounted
<1>5. Com!Depth' = Com!Depth /\ Com!Depth \in Nat /\ Com!Depth >= 1
  BY <1>1, DepthPositive DEF Com!Depth
<1>6. new \in RxByte /\ new.byte = arrived + 1 /\ (new.damaged => new.flagged)
  BY <1>4 DEF RxByte
<1>a. l = Len(rx) /\ (rx = << >> <=> l = 0)
  BY <1>4
<1> HIDE DEF new, l
<1>7. CASE l < Com!Depth /\ rx' = Append(rx, new) /\ told' = told /\ lost' = lost
  <2>1. /\ rx' \in Seq(RxByte) /\ Len(rx') = l + 1 /\ rx'[l + 1] = new
        /\ \A i \in 1 .. l : rx'[i] = rx[i]
    BY <1>4, <1>6, <1>7, <1>a
  <2>2. SerialReceived'
    <3>1. Accounted(returned, Com!Buf, rx', arrived + 1, lost)
      BY <1>4, <1>6, <1>7, ArrivedAccounted
    <3> QED BY <1>1, <1>3, <1>4, <1>5, <1>7, <2>1, <3>1 DEF SerialReceived
  <2>3. \A i \in 2 .. l + 1 : (i \in 2 .. l /\ i \in 1 .. l) \/ i = l + 1
    BY <1>4
  <2>4. ASSUME chip = "16550" PROVE \A i \in 2 .. l + 1 : rx'[i].damaged => rx'[i].flagged
    BY <1>6, <1>a, <2>1, <2>3, <2>4 DEF SerialInv, SerialErrors
  <2>5. CASE rx = << >>
    <3>1. l = 0 /\ rx'[1] = new /\ ~ Com!AtRbr
      BY <1>4, <1>a, <2>1, <2>5 DEF SerialInv, SerialErrors
    <3>2. SerialErrors'
      BY <1>1, <1>3, <1>6, <1>7, <2>1, <2>4, <3>1 DEF SerialInv, SerialErrors
    <3> QED BY <1>1, <1>2, <2>2, <3>2 DEF SerialInv
  <2>6. CASE rx # << >>
    <3>1. rx'[1] = rx[1] /\ rx' # << >>
      BY <1>4, <1>a, <2>1, <2>6
    <3>2. SerialErrors'
      BY <1>1, <1>3, <1>7, <2>1, <2>4, <2>6, <3>1 DEF SerialInv, SerialErrors
    <3> QED BY <1>1, <1>2, <2>2, <3>2 DEF SerialInv
  <2> QED BY <2>5, <2>6
<1>8. CASE /\ ~ (l < Com!Depth) /\ chip = "16550" /\ ~ fifos
           /\ rx' = << new >> /\ told' = "nobody" /\ lost' = lost \cup Com!Numbers(rx)
  <2>1. rx' \in Seq(RxByte) /\ Len(rx') = 1 /\ rx'[1] = new /\ rx' # << >> /\ rx' = Append(<< >>, new)
    BY <1>6, <1>8
  <2>2. SerialReceived'
    <3>1. Accounted(returned, Com!Buf, << >>, arrived, lost \cup Com!Numbers(rx))
      BY <1>4, NoFifoAccounted
    <3>2. PICK q : q = << >> /\ rx' = Append(q, new)
      BY <2>1
    <3>3. PICK gone : gone = lost \cup Com!Numbers(rx)
      OBVIOUS
    <3>4. Accounted(returned, Com!Buf, q, arrived, gone)
      BY <3>1, <3>2, <3>3
    <3>5. Accounted(returned, Com!Buf, Append(q, new), arrived + 1, gone)
      BY <1>6, <3>4, ArrivedAccounted
    <3> QED BY <1>1, <1>3, <1>5, <1>8, <2>1, <3>2, <3>3, <3>5 DEF SerialReceived
  <2>3. \A i \in 2 .. Len(rx') : rx'[i].damaged => rx'[i].flagged
    BY <2>1
  <2>4. SerialErrors'
    BY <1>1, <1>3, <1>6, <1>8, <2>1, <2>3 DEF SerialInv, SerialErrors
  <2> QED BY <1>1, <1>2, <2>2, <2>4 DEF SerialInv
<1>9. CASE ~ (l < Com!Depth) /\ rx' = rx /\ told' = told /\ lost' = lost \cup {new.byte}
  <2>1. Accounted(returned, Com!Buf, rx, arrived + 1, lost \cup {arrived + 1})
    BY <1>4, <1>6, ArrivedAccounted
  <2>2. SerialReceived'
    BY <1>1, <1>3, <1>4, <1>5, <1>6, <1>9, <1>a, <2>1 DEF SerialReceived
  <2>3. SerialErrors'
    BY <1>1, <1>3, <1>9 DEF SerialInv, SerialErrors
  <2> QED BY <1>1, <1>2, <2>2, <2>3 DEF SerialInv
<1> QED BY <1>1, <1>7, <1>8, <1>9

LEMMA SerialInit == Com!SerialConstants /\ Com!Init => SerialInv
<1> SUFFICES ASSUME Com!SerialConstants, Com!Init PROVE SerialInv
  OBVIOUS
<1>1. /\ chip \in {"pl011", "16550"} /\ fifos \in BOOLEAN /\ divisor = Com!NoDivisor
      /\ tx = << >> /\ shift = << >> /\ given = << >> /\ wire = << >> /\ rx = << >> /\ told = "nobody"
      /\ arrived = 0 /\ returned = << >> /\ lost = {} /\ comCall = Com!Idle
  BY DEF Com!Init
<1>2. SerialInOrder
  <2>1. << >> \in Seq({}) /\ << >> \o << >> \o << >> = << >>
    OBVIOUS
  <2> QED BY <1>1, <2>1 DEF SerialInOrder
<1>3. ~ Com!AtRbr /\ Com!Buf = << >>
  BY <1>1, NoRead
<1>4. SerialReceived
  <2>1. << >> \in Seq(RxRecord) /\ << >> \in Seq(RxByte) /\ Len(<< >>) = 0 /\ 1 .. 0 = {} /\ 0 \in Nat
    OBVIOUS
  <2>2. Accounted(<< >>, << >>, << >>, 0, {})
    BY <2>1, EmptyOrdered DEF Accounted, AllBefore
  <2> QED BY <1>1, <1>3, <2>1, <2>2, DepthPositive DEF SerialReceived
<1>5. SerialErrors
  <2>1. \A i \in 1 .. Len(<< >>) : FALSE
    OBVIOUS
  <2>2. \A i \in 2 .. Len(<< >>) : FALSE
    OBVIOUS
  <2> QED BY <1>1, <1>3, <2>1, <2>2 DEF SerialErrors
<1>6. SerialCall
  BY <1>1 DEF SerialCall
<1>7. Com!SpeedRight
  BY <1>1 DEF Com!SpeedRight
<1> QED BY <1>1, <1>2, <1>4, <1>5, <1>6, <1>7 DEF SerialInv

LEMMA SerialNext == Com!SerialConstants /\ SerialInv /\ [Com!Next]_comVars => SerialInv'
<1> SUFFICES ASSUME Com!SerialConstants, SerialInv, [Com!Next]_comVars PROVE SerialInv'
  OBVIOUS
<1>1. ASSUME UNCHANGED comVars PROVE SerialInv'
  <2>1. SerialInOrder' /\ Com!SpeedRight'
    BY <1>1, SendingKept, SpeedKept DEF comVars, SerialInv, Com!sending
  <2>2. Com!Depth' = Com!Depth /\ (Com!AtRbr' <=> Com!AtRbr) /\ Com!Buf' = Com!Buf
    BY <1>1 DEF comVars, Com!Depth, Com!AtRbr, Com!Buf, Com!Reading
  <2> QED BY <1>1, <2>1, <2>2 DEF comVars, SerialInv, SerialReceived, SerialErrors, SerialCall
<1>2. ASSUME Com!read_pl011 PROVE SerialInv'
  BY <1>2, TakenKeeps DEF Com!read_pl011, Com!Polling
<1>3. ASSUME Com!read_rbr PROVE SerialInv'
  BY <1>3, TakenKeeps DEF Com!read_rbr, Com!AtRbr, SerialInv, SerialErrors
<1>4. ASSUME Com!Driver PROVE SerialInv'
  BY <1>2, <1>3, <1>4, ConfigureSteps, SendSteps, CallSteps, PollSteps, PollKeeps, GivenKeeps DEF Com!Driver
<1> QED BY <1>1, <1>4, ConfigureSteps, CallSteps, SendSteps, ArriveKeeps DEF Com!Next

\* The three parts of what came in, put together.
LEMMA SerialAtOk == SerialInv => SerialSound
<1> SUFFICES ASSUME SerialInv PROVE Com!BytesInOrder /\ Com!DamageReported /\ Com!SpeedRight
  BY DEF SerialSound, Com!SerialSound
<1> DEFINE rb == returned \o Com!Buf
           received == rb \o rx
<1>1. Accounted(rb, << >>, rx, arrived, lost)
  BY GivenAccounted DEF SerialInv, SerialReceived
<1> HIDE DEF rb
<1>2. Com!Numbers(received) = Com!Numbers(rb) \cup Com!Numbers(rx) /\ Ordered(received)
  BY <1>1, JoinOrdered DEF Accounted
<1>3. Com!Numbers(received) = (1 .. arrived) \ lost
  BY <1>1, <1>2, EmptyOrdered DEF Accounted
<1>4. DOMAIN received = 1 .. Len(received)
  <2>1. rb \in Seq(RxRecord \cup RxByte) /\ rx \in Seq(RxRecord \cup RxByte)
    BY <1>1 DEF Accounted
  <2>2. received \in Seq(RxRecord \cup RxByte)
    BY <2>1
  <2> QED BY <2>2
<1> HIDE DEF received
<1>5. \A i, j \in DOMAIN received : i < j => received[i].byte < received[j].byte
  BY <1>2, <1>4 DEF Ordered
<1>6. wire \o shift \o tx = given
  BY DEF SerialInv, SerialInOrder
<1>7. Com!BytesInOrder
  BY <1>3, <1>5, <1>6 DEF Com!BytesInOrder, received, rb
<1>8. Com!DamageReported
  <2>1. returned \in Seq(RxRecord) /\ DOMAIN returned = 1 .. Len(returned)
    BY DEF SerialInv, SerialReceived, Accounted
  <2>2. rx # << >> => Head(rx) = rx[1]
    BY RxHead
  <2> QED BY <2>1, <2>2 DEF Com!DamageReported, SerialInv, SerialErrors
<1> QED BY <1>7, <1>8 DEF SerialInv

\* The line carries what was written, save what configure of a 16550 throws
\* away; those who read get what came in, each byte once and in order, save what
\* found no room, was thrown away by configure or was read by a call that then
\* failed.  A 16550 hands out a damaged byte only after its error bits were read
\* by somebody, a reader who got the error or a writer who ignored it, unless
\* it runs without FIFOs and the byte came between the poll and the data register.
\* A rate that was set is the one asked for, save where 16 * baud runs over
\* (pl011.rs, uart16550.rs).
THEOREM PortsSound == DevicesSpec => []SerialSound
<1>1. DevicesInit => SerialInv
  BY SerialInit, DevicesAssumption DEF DevicesInit
<1>2. SerialInv /\ [EmmcStep \/ TimerStep \/ SerialStep]_all => SerialInv'
  BY SerialNext, DevicesAssumption DEF EmmcStep, TimerStep, SerialStep, EmmcPart, TimerPart, SerialPart, all
<1>3. SerialInv => SerialSound
  BY SerialAtOk
<1> QED BY <1>1, <1>2, <1>3, PTL DEF DevicesSpec

\* All three, of the specification that the run checks.
THEOREM DevicesSafe == DevicesSpec => [](RightBlocks /\ TimersRight /\ SerialSound)
<1>1. DevicesInit => EInv
  BY InvInit DEF DevicesInit
<1>2. EInv /\ [EmmcStep \/ TimerStep \/ SerialStep]_all => EInv'
  BY InvNext DEF EmmcStep, TimerStep, SerialStep, EmmcPart, TimerPart, SerialPart, all
<1>3. EInv => RightBlocks
  BY BlocksAtOk
<1> QED BY <1>1, <1>2, <1>3, ClocksRight, PortsSound, PTL DEF DevicesSpec

=============================================================================
