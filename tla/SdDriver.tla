------------------------------- MODULE SdDriver --------------------------------
(***************************************************************************)
(* src/blockdevice/sd.c: init, deinit, read, program and trim of an SD     *)
(* card, cut into one step per command, block or token on the bus.         *)
(*                                                                         *)
(* A call has the mutex of the driver from its first step to its last, so  *)
(* one call is modelled at a time; deinit takes no mutex and may come at   *)
(* any moment.  The card can be pulled out and replaced at any moment too. *)
(***************************************************************************)
EXTENDS SdCard

CONSTANTS
    Boards,      \* the choices of enable_crc and of a clock over 25 MHz (fast)
    MaxTurns     \* bound: the ACMD41 sent before the timeout

ASSUME DriverAssumption == /\ Boards \subseteq [enable_crc : BOOLEAN, fast : BOOLEAN]
                           /\ MaxTurns \in Nat

VARIABLES
    config,      \* blockdevice_sd_config_t: see Configs
    initialized, \* device->is_initialized
    selected,    \* is the card selected (cs low)?
    call,        \* the call under way, or the last one: see Calls
    card

vars == <<config, initialized, selected, call, card>>

CardTypes == {"NONE", "UNKNOWN", "V1", "V2", "V2HC"}
Configs == [card_type : CardTypes, is_initialized : BOOLEAN, total_sectors : Nat,
            erase_size : Nat,                       \* in blocks
            enable_crc : BOOLEAN, fast : BOOLEAN]   \* hz > 25 MHz

InitStages == {"idle", "if cond", "crc on", "ocr", "op cond", "ccs", "crc off",
               "csd", "csd data", "block length"}
Stages == InitStages \cup {"read", "read data", "read stop", "pre-erase", "write",
                           "write data", "write stop", "erase from", "erase to", "erase", "rest"}

Statuses == {"ok", "NO_DEVICE", "CRC", "UNSUPPORTED", "ERASE", "PARAMETER", "UNUSABLE",
             "NO_RESPONSE", "NO_INIT", "WRITE", "DEVICE_ERROR", "EINVAL"}

Calls == [op : {"none", "init", "read", "program", "trim"}, at : Stages,
          first : Blocks, count : 0 .. MaxBlocks,        \* addr and size, in blocks
          left : 0 .. MaxBlocks,                         \* block_count
          buffer : UNION {[1 .. n -> Contents] : n \in 0 .. MaxBlocks},
          turns : Nat, status : Statuses]

TypeOK == /\ config \in Configs /\ initialized \in BOOLEAN /\ selected \in BOOLEAN
          /\ call \in Calls /\ card \in Cards

NoCall == [op |-> "none", at |-> "rest", first |-> 0, count |-> 0, left |-> 0,
           buffer |-> <<>>, turns |-> 0, status |-> "ok"]

Init ==
    /\ \E board \in Boards :
          config = [card_type |-> "NONE", is_initialized |-> FALSE, total_sectors |-> 0,
                    erase_size |-> 0, enable_crc |-> board.enable_crc, fast |-> board.fast]
    /\ initialized = FALSE /\ selected = FALSE
    /\ call = NoCall
    /\ \E kind \in Kinds : card = NewCard(kind, MaxNoise)

------------------------------------------------------------------------------
(* _cmd *)

Again(answers, Once(_)) == UNION {IF o.r1 = "none" THEN Once(o.card) ELSE {o} : o \in answers}

\* Up to three tries, as long as there is no response.
Cmd(cmd, arg) ==
    LET once(c) == Attempt(c, cmd, arg)
    IN  Again(Again(once(card), once), once)

CmdStatus(r1) == CASE r1 = "none"      -> "NO_DEVICE"
                   [] r1 = "crc"       -> "CRC"
                   [] r1 = "illegal"   -> "UNSUPPORTED"
                   [] r1 = "erase"     -> "ERASE"
                   [] r1 = "parameter" -> "PARAMETER"
                   [] OTHER            -> "ok"

\* Mutant of StaysSelected: deselects only after commands without data.
StaysSelectedOnError(cmd, status) == cmd \in {"CMD9", "CMD17", "CMD18", "CMD24", "CMD25"}

\* The card stays selected for the data of a command, unless the command failed.
StaysSelected(cmd, status) ==
    cmd \in {"CMD9", "CMD17", "CMD18", "CMD24", "CMD25"} /\ status = "ok"

\* Sends a command; After(status, o) is what the caller makes of the answer.
Command(cmd, arg, After(_, _)) ==
    \E o \in Cmd(cmd, arg) :
        /\ card' = o.card
        /\ selected' = StaysSelected(cmd, CmdStatus(o.r1))
        /\ After(CmdStatus(o.r1), o)

Goto(stage) == call' = [call EXCEPT !.at = stage, !.turns = 0]
\* What is known of a call once it has returned: its answer, and what it was read.
Closed(c) == [NoCall EXCEPT !.op = c.op, !.status = c.status, !.left = c.left, !.buffer = c.buffer]
Return(status) == call' = Closed([call EXCEPT !.status = status])

------------------------------------------------------------------------------
(* init() and init_card() *)

Begin(op, stage, first, count) ==
    call' = [NoCall EXCEPT !.op = op, !.at = stage, !.first = first, !.count = count,
                           !.left = count]

StartInit ==
    /\ call.at = "rest"
    /\ Begin("init", "idle", 0, 0)
    /\ UNCHANGED <<config, initialized, selected, card>>

\* The end of init_card: init goes on if its status is ok.
CardDone(status, type) ==
    /\ config' = [config EXCEPT !.is_initialized = (status = "ok"), !.card_type = type]
    /\ IF status = "ok" THEN Goto("csd") ELSE Return(status)

Type == config.card_type

\* _go_idle_state: CMD0, five times.
GoIdle ==
    /\ call.at = "idle"
    /\ Command("CMD0", 0, LAMBDA status, o :
          \/ o.r1 = "idle" /\ Goto("if cond") /\ UNCHANGED config
          \/ o.r1 # "idle" /\ call.turns = 4 /\ CardDone("NO_DEVICE", Type)
          \/ /\ o.r1 # "idle" /\ call.turns < 4
             /\ call' = [call EXCEPT !.turns = @ + 1] /\ UNCHANGED config)
    /\ UNCHANGED initialized

\* _cmd8.  Only a card that knows the command returns the pattern, and one that does
\* not run at 3.3 V returns another.
SendIfCond ==
    /\ call.at = "if cond"
    /\ Command("CMD8", 0, LAMBDA status, o :
          \/ /\ status = "ok" /\ card.kind = "LV" /\ CardDone("UNUSABLE", "UNKNOWN")
          \/ /\ (status = "ok" /\ card.kind # "LV") \/ status = "UNSUPPORTED"
             /\ config' = [config EXCEPT !.card_type =
                              IF status = "ok" THEN "V2" ELSE "UNKNOWN"]
             /\ Goto(IF config.enable_crc THEN "crc on" ELSE "ocr")
          \/ status \notin {"ok", "UNSUPPORTED"} /\ CardDone(status, Type))
    /\ UNCHANGED initialized

\* CMD59, whose status is not looked at.
CrcOn ==
    /\ call.at = "crc on"
    /\ Command("CMD59", 1, LAMBDA status, o : Goto("ocr"))
    /\ UNCHANGED <<config, initialized>>

ReadOcr ==
    /\ call.at = "ocr"
    /\ Command("CMD58", 0, LAMBDA status, o :
          \/ status # "ok" /\ CardDone(status, Type)
          \/ status = "ok" /\ card.kind = "LV" /\ CardDone("UNUSABLE", "UNKNOWN")
          \/ status = "ok" /\ card.kind # "LV" /\ Goto("op cond") /\ UNCHANGED config)
    /\ UNCHANGED initialized

\* Mutant of SendOpCond: the timeout starts again with every turn.
SendOpCondForever ==
    /\ call.at = "op cond"
    /\ Command("ACMD41", IF Type = "V2" THEN 1 ELSE 0, LAMBDA status, o :
          IF o.r1 = "none" \/ o.card.phase = "idle"
            THEN call' = [call EXCEPT !.turns = 1 - @] /\ UNCHANGED config
            ELSE /\ Goto(IF Type = "V2" THEN "ccs" ELSE "crc off")
                 /\ config' = [config EXCEPT !.card_type = IF @ = "V2" THEN @ ELSE "V1"])
    /\ UNCHANGED initialized

\* Once more round the ACMD41 loop, or out of it: at the timeout the status is that of
\* the last answer, which is ok for a card that says it is busy.
SendOpCond ==
    /\ call.at = "op cond"
    /\ Command("ACMD41", IF Type = "V2" THEN 1 ELSE 0, LAMBDA status, o :
          LET busy == o.r1 = "none" \/ o.card.phase = "idle"
          IN  \/ /\ busy /\ call.turns < MaxTurns
                 /\ call' = [call EXCEPT !.turns = @ + 1]
                 /\ UNCHANGED config
              \/ /\ busy \/ status # "ok"
                 /\ CardDone(status, "UNKNOWN")
              \/ /\ ~busy /\ status = "ok"
                 /\ Goto(IF Type = "V2" THEN "ccs" ELSE "crc off")
                 /\ config' = [config EXCEPT !.card_type = IF @ = "V2" THEN @ ELSE "V1"])
    /\ UNCHANGED initialized

\* The card capacity.  The status is overwritten by the next command.
ReadCcs ==
    /\ call.at = "ccs"
    /\ Command("CMD58", 0, LAMBDA status, o :
          /\ Goto("crc off")
          /\ config' = [config EXCEPT !.card_type =
                           IF status = "ok" /\ o.card.kind = "HC" THEN "V2HC" ELSE @])
    /\ UNCHANGED initialized

\* CMD59 with 0, whether enable_crc is set or not.
CrcOff ==
    /\ call.at = "crc off"
    /\ Command("CMD59", 0, LAMBDA status, o : CardDone(status, Type))
    /\ UNCHANGED initialized

\* _sd_sectors: CMD9, and then the register as a block of data.
SendCsd ==
    /\ call.at = "csd"
    /\ Command("CMD9", 0, LAMBDA status, o :
          IF status = "ok" THEN Goto("csd data") /\ UNCHANGED config
          ELSE Return("DEVICE_ERROR") /\ config' = [config EXCEPT !.total_sectors = 0])
    /\ UNCHANGED initialized

\* The register is received; its token does not come, or its checksum is wrong; or it is
\* garbled and nobody checks: of an unknown structure, or with a wrong size.
CsdData ==
    /\ call.at = "csd data"
    /\ \/ /\ card.phase = "ready"
          /\ Goto("block length")
          /\ config' = [config EXCEPT !.total_sectors = Sectors, !.erase_size = Granule(card)]
          /\ UNCHANGED card
       \/ /\ card.noise > 0 \/ card.phase # "ready"
          /\ card' = IF card.phase # "ready" THEN card ELSE Disturbed(card)
          /\ config' = [config EXCEPT !.total_sectors = 0]
          /\ Return("DEVICE_ERROR")
       \/ /\ card.noise > 0 /\ card.phase = "ready" /\ ~config.enable_crc
          /\ card' = Disturbed(card)
          /\ config' = [config EXCEPT !.total_sectors = Sectors + 1, !.erase_size = 1]
          /\ Goto("block length")
    /\ selected' = FALSE
    /\ UNCHANGED initialized

\* Mutant of BlockLength: does not look at the status of CMD16.
BlockLengthUnchecked ==
    /\ call.at = "block length"
    /\ Command("CMD16", BlockSize, LAMBDA status, o :
          IF config.fast THEN /\ config' = [config EXCEPT !.fast = FALSE]
                              /\ Return("EINVAL") /\ UNCHANGED initialized
          ELSE Return("ok") /\ initialized' = TRUE /\ UNCHANGED config)

\* CMD16, then _freq, which refuses a fast clock the first time it is called.
BlockLength ==
    /\ call.at = "block length"
    /\ Command("CMD16", BlockSize, LAMBDA status, o :
          CASE status # "ok" -> Return("DEVICE_ERROR") /\ UNCHANGED <<config, initialized>>
            [] status = "ok" /\ config.fast ->
                  /\ config' = [config EXCEPT !.fast = FALSE]
                  /\ Return("EINVAL") /\ UNCHANGED initialized
            [] OTHER -> Return("ok") /\ initialized' = TRUE /\ UNCHANGED config)

Deinit == initialized' = FALSE /\ UNCHANGED <<config, selected, call, card>>

------------------------------------------------------------------------------
(* read(), program() and trim() *)

\* The unit of an address: blocks for a high-capacity card, bytes for the others.
Address(b) == IF Type = "V2HC" THEN b ELSE b * BlockSize

Fits(first, count) == first + count <= config.total_sectors

Refuse(op, status) ==
    call' = [NoCall EXCEPT !.op = op, !.status = status]

StartRead(first, count) ==
    /\ call.at = "rest"
    /\ IF Fits(first, count) /\ config.is_initialized
         THEN Begin("read", "read", first, count) ELSE Refuse("read", "PARAMETER")
    /\ UNCHANGED <<config, initialized, selected, card>>

ReadCommand ==
    /\ call.at = "read"
    /\ Command(IF call.count > 1 THEN "CMD18" ELSE "CMD17", Address(call.first),
               LAMBDA status, o : IF status = "ok" THEN Goto("read data") ELSE Return(status))
    /\ UNCHANGED <<config, initialized>>

\* Mutant of Received: nobody looks at the checksum.
ReceivedUnchecked(o) == o.token

\* _read: the start token comes in time, and the checksum is right if it is looked at:
\* `Spoilt` stands for a block disturbed in its data or in its checksum, and none that is
\* disturbed has a checksum that matches by accident.
Received(o) == o.token /\ (config.enable_crc => o.data # Spoilt)

\* Mutant of EndOfRead: a multiple read is not stopped.
EndOfReadUnstopped(c) == Closed(c)

\* After the blocks: CMD12 for a multiple read.
EndOfRead(c) == IF c.count > 1 THEN [c EXCEPT !.at = "read stop"] ELSE Closed(c)

\* Mutant of ReadData: forgets to count the blocks down.
ReadDataUncounted ==
    /\ call.at = "read data"
    /\ \E o \in Sending(card) :
          /\ card' = o.card /\ selected' = Received(o)
          /\ call' = IF Received(o) THEN [call EXCEPT !.buffer = Append(@, o.data)]
                     ELSE EndOfRead([call EXCEPT !.status = "NO_RESPONSE"])
    /\ UNCHANGED <<config, initialized>>

\* A turn of the loop over the blocks, which the first failure ends.
ReadData ==
    /\ call.at = "read data"
    /\ \E o \in Sending(card) :
          /\ card' = o.card
          /\ \/ /\ ~Received(o) /\ selected' = FALSE
                /\ call' = EndOfRead([call EXCEPT !.status = "NO_RESPONSE"])
             \/ /\ Received(o) /\ selected' = (call.left > 1)
                /\ LET next == [call EXCEPT !.buffer = Append(@, o.data), !.left = @ - 1]
                   IN  call' = IF next.left = 0 THEN EndOfRead(next) ELSE next
    /\ UNCHANGED <<config, initialized>>

\* CMD12; read answers with its status, whatever became of the blocks.
ReadStop ==
    /\ call.at = "read stop"
    /\ Command("CMD12", 0, LAMBDA status, o : Return(status))
    /\ UNCHANGED <<config, initialized>>

StartProgram(first, count) ==
    /\ call.at = "rest"
    /\ CASE ~Fits(first, count)       -> Refuse("program", "PARAMETER")
         [] ~config.is_initialized /\ Fits(first, count) -> Refuse("program", "NO_INIT")
         [] OTHER -> Begin("program", IF count = 1 THEN "write" ELSE "pre-erase", first, count)
    /\ UNCHANGED <<config, initialized, selected, card>>

\* ACMD23, whose status is not looked at.
PreErase ==
    /\ call.at = "pre-erase"
    /\ Command("ACMD23", call.count, LAMBDA status, o : Goto("write"))
    /\ UNCHANGED <<config, initialized>>

WriteCommand ==
    /\ call.at = "write"
    /\ Command(IF call.count = 1 THEN "CMD24" ELSE "CMD25", Address(call.first),
               LAMBDA status, o : IF status = "ok" THEN Goto("write data") ELSE Return(status))
    /\ UNCHANGED <<config, initialized>>

\* Mutant of WriteData: counts a block in the loop and again in its condition.
WriteDataTwice ==
    /\ call.at = "write data"
    /\ \E o \in Taking(card, call.count - call.left + 1) :
          LET next == [call EXCEPT !.left = IF o.accepted THEN @ - 2 ELSE @]
          IN  /\ card' = o.card
              /\ selected' = (call.count > 1)
              /\ call' = IF call.count = 1
                           THEN Closed([next EXCEPT !.status = IF o.accepted THEN "ok" ELSE "WRITE"])
                           ELSE [next EXCEPT !.at = "write stop"]
    /\ UNCHANGED <<config, initialized>>

\* A turn of the loop over the blocks; a refused one ends it, and is an error only in a
\* write of one block.
WriteData ==
    /\ call.at = "write data"
    /\ \E o \in Taking(card, call.count - call.left + 1) :
          LET next == [call EXCEPT !.left = IF o.accepted THEN @ - 1 ELSE @]
          IN  /\ card' = o.card
              /\ selected' = (call.count > 1)
              /\ call' = CASE call.count = 1 ->
                               Closed([next EXCEPT !.status = IF o.accepted THEN "ok" ELSE "WRITE"])
                         [] call.count > 1 /\ o.accepted /\ next.left > 0 -> next
                         [] OTHER -> [next EXCEPT !.at = "write stop"]
    /\ UNCHANGED <<config, initialized>>

WriteStop ==
    /\ call.at = "write stop"
    /\ card' \in Stopped(card)
    /\ selected' = FALSE
    /\ Return(call.status)
    /\ UNCHANGED <<config, initialized>>

\* Only a device that has been initialised is trimmed: erase_size divides.
StartTrim(first, count) ==
    LET unit == config.erase_size
    IN  /\ call.at = "rest" /\ unit # 0
        /\ CASE ~(first % unit = 0 /\ count % unit = 0 /\ Fits(first, count)) ->
                   Refuse("trim", "PARAMETER")
             [] (first % unit = 0 /\ count % unit = 0 /\ Fits(first, count))
                   /\ ~config.is_initialized -> Refuse("trim", "NO_INIT")
             [] OTHER -> Begin("trim", "erase from", first, count)
        /\ UNCHANGED <<config, initialized, selected, card>>

EraseFrom ==
    /\ call.at = "erase from"
    /\ Command("CMD32", Address(call.first), LAMBDA status, o :
          IF status = "ok" THEN Goto("erase to") ELSE Return(status))
    /\ UNCHANGED <<config, initialized>>

\* Mutant of LastBlock: the block after the range.
NextBlock == call.first + call.count

\* `size -= block_size` before it is added.  With size 0 that is the block before the
\* range, and no address of a card for the first one.
LastBlock == call.first + call.count - 1

EraseTo ==
    /\ call.at = "erase to"
    /\ Command("CMD33", Address(LastBlock), LAMBDA status, o :
          IF status = "ok" THEN Goto("erase") ELSE Return(status))
    /\ UNCHANGED <<config, initialized>>

Erase ==
    /\ call.at = "erase"
    /\ Command("CMD38", 0, LAMBDA status, o : Return(status))
    /\ UNCHANGED <<config, initialized>>

------------------------------------------------------------------------------

Pull ==
    /\ card.phase # "gone"
    /\ card' = [card EXCEPT !.phase = "gone"]
    /\ UNCHANGED <<config, initialized, selected, call>>

Insert(kind) ==
    /\ card.phase = "gone"
    /\ card' = NewCard(kind, card.noise)
    /\ UNCHANGED <<config, initialized, selected, call>>

Step ==
    \/ GoIdle \/ SendIfCond \/ CrcOn \/ ReadOcr \/ SendOpCond \/ ReadCcs \/ CrcOff
    \/ SendCsd \/ CsdData \/ BlockLength
    \/ ReadCommand \/ ReadData \/ ReadStop
    \/ PreErase \/ WriteCommand \/ WriteData \/ WriteStop
    \/ EraseFrom \/ EraseTo \/ Erase

Start ==
    \/ StartInit
    \/ \E first \in Blocks, count \in 1 .. MaxBlocks :
          StartRead(first, count) \/ StartProgram(first, count)
    \/ \E first \in Blocks, count \in 0 .. MaxBlocks : StartTrim(first, count)

Next == Step \/ Start \/ Deinit \/ Pull \/ \E kind \in Kinds : Insert(kind)

Spec == Init /\ [][Next]_vars

\* A call that is under way goes on.
FairSpec == Spec /\ WF_vars(Step)

------------------------------------------------------------------------------
(* Properties *)

AnswersOk(op) ==
    call.at # "rest" /\ call'.at = "rest" /\ call.op = op /\ call'.status = "ok"

\* Do driver and card count addresses in the same unit?
UnitsAgree == (Type = "V2HC") = (card.kind = "HC")

Requested == call.first .. call.first + call.count - 1

\* The card is released when a call returns, on every error path: the bus may be shared.
ReleasedAtRest == call.at = "rest" => ~selected

\* init answers success only for a card that has completed its initialisation and told
\* its size - although init_card answers success for a card that is still busy when the
\* time for ACMD41 is over.
InitMeansReady ==
    [][AnswersOk("init") => /\ card'.phase = "ready"
                            /\ config'.enable_crc => config'.total_sectors = Sectors
                            /\ config'.card_type \in {"V1", "V2", "V2HC"}]_vars

\* A successful read of one block with CRC returns what the card has in it.
SingleReadExact ==
    [][AnswersOk("read") /\ call.count = 1 /\ UnitsAgree /\ config.enable_crc
          => call'.buffer = <<card.media[call.first]>>]_vars

\* After a successful read or a successful write of one block no transfer is open: the
\* card hears the next command.
TransferClosed ==
    [][AnswersOk("read") \/ (AnswersOk("program") /\ call.count = 1)
          => card'.phase = "ready"]_vars

\* Only program and trim change a card, and only in the blocks they were asked for,
\* whatever is disturbed or repeated.
NoStrayWrites ==
    [][UnitsAgree /\ config.erase_size = Granule(card) /\ card.phase # "gone"
          => \A b \in Blocks : card'.media[b] # card.media[b]
                => call.op \in {"program", "trim"} /\ b \in Requested]_vars

\* Every call returns, whatever the card does.
CallsReturn == call.at # "rest" ~> call.at = "rest"

\* Success means that every block was transferred: "BD_ERROR_OK = 0, no error" of
\* blockdevice.h.
SuccessIsWhole ==
    [][AnswersOk("read") \/ AnswersOk("program") => call'.left = 0]_vars
------------------------------------------------------------------------------
(* The inductive invariant behind the properties above *)

\* What a call has gone through when it is at a stage of init ...
InitInv ==
    /\ call.at \in InitStages => call.op = "init"
    /\ call.at = "ccs" => Type = "V2"
    /\ call.at \in {"crc off", "csd data", "block length"} => Type \in {"V1", "V2", "V2HC"}
    /\ call.at = "csd" =>
          Type \in {"V1", "V2", "V2HC"} \/ card.phase \in {"gone", "power", "idle"}
    /\ call.at = "block length" /\ config.enable_crc => config.total_sectors = Sectors

\* ... of read: the card sends nothing but the block asked for ...
ReadInv ==
    /\ call.at \in {"read", "read data", "read stop"} =>
          call.op = "read" /\ Len(call.buffer) = call.count - call.left
    /\ call.at \in {"read", "read data"} => call.left \in 1 .. call.count
    /\ call.at = "read stop" => call.count > 1
    /\ call.at = "read data" /\ call.count = 1 =>
          \/ card.phase \in {"gone", "power"}
          \/ card.phase = "send one" /\ card.pos = BlockAt(card, Address(call.first))

\* ... of program: the card is where the driver takes it to be ...
WriteInv ==
    /\ call.at \in {"pre-erase", "write", "write data", "write stop"} => call.op = "program"
    /\ call.at \in {"pre-erase", "write", "write data"} => call.left \in 1 .. call.count
    /\ call.at \in {"pre-erase", "write"} => call.left = call.count
    /\ call.at = "write stop" => call.count > 1
    /\ call.at = "write data" =>
          \/ card.phase \in {"gone", "power"}
          \/ /\ card.phase = IF call.count = 1 THEN "take one" ELSE "take"
             /\ card.pos = BlockAt(card, Address(call.first)) + call.count - call.left

\* ... and of trim: the card has been given the ends of the range.
TrimInv ==
    /\ call.at \in {"erase from", "erase to", "erase"} =>
          /\ call.op = "trim" /\ config.erase_size # 0
          /\ call.first % config.erase_size = 0 /\ call.count % config.erase_size = 0
    /\ call.at \in {"erase to", "erase"} /\ card.phase = "ready" =>
          card.from = BlockAt(card, Address(call.first))
    /\ call.at = "erase" /\ card.phase = "ready" => card.to = BlockAt(card, Address(LastBlock))

DriverInv == TypeOK /\ ReleasedAtRest /\ InitInv /\ ReadInv /\ WriteInv /\ TrimInv
================================================================================
