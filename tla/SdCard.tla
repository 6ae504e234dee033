-------------------------------- MODULE SdCard ---------------------------------
(***************************************************************************)
(* The other end of the SPI bus: an SD card as src/blockdevice/sd.c uses   *)
(* it, and the disturbances a call may meet.  Each operator gives the set  *)
(* of answers the card may give to one exchange, with the card after it.   *)
(*                                                                         *)
(* A disturbance loses a command or its answer, spoils a block or its      *)
(* token, and lowers card.noise; it never turns a command or an answer     *)
(* into another valid one.                                                 *)
(***************************************************************************)
EXTENDS Integers, Sequences

CONSTANTS
    Sectors,     \* the blocks of a card
    BlockSize,   \* the bytes of a block
    EraseGroup,  \* the blocks a standard-capacity card erases at once
    MaxBlocks,   \* bound: the blocks of one call
    MaxNoise     \* bound: the disturbances

Kinds == {"V1", "V2", "HC", "LV"}   \* "LV" does not run at 3.3 V
Phases == {"gone",                  \* no card in the socket
           "power",                 \* powered, not in SPI mode yet
           "idle",                  \* CMD0 taken, ACMD41 not completed
           "ready",
           "send one", "send",      \* CMD17, CMD18
           "take one", "take"}      \* CMD24, CMD25

Old == 0                \* the content of a new card; block i of a program call is i
Erased == -1
Spoilt == -2
Contents == {Erased, Spoilt} \cup 0 .. MaxBlocks
Blocks == 0 .. Sectors - 1

ASSUME CardAssumption ==
    /\ Sectors \in Nat \ {0} /\ BlockSize \in Nat \ {0}
    /\ EraseGroup \in Nat \ {0} /\ MaxBlocks \in Nat \ {0} /\ MaxNoise \in Nat
    /\ Sectors % EraseGroup = 0

Cards == [kind : Kinds, phase : Phases, pos : 0 .. Sectors,
          from : Blocks \cup {-1}, to : Blocks \cup {-1},    \* CMD32, CMD33
          checks : BOOLEAN,                                  \* CMD59
          media : [Blocks -> Contents], noise : 0 .. MaxNoise]

NewCard(kind, noise) ==
    [kind |-> kind, phase |-> "power", pos |-> 0, from |-> -1, to |-> -1,
     checks |-> FALSE, media |-> [b \in Blocks |-> Old], noise |-> noise]

Listening == {"idle", "ready"}
Granule(c) == IF c.kind = "HC" THEN 1 ELSE EraseGroup
Disturbed(c) == [c EXCEPT !.noise = @ - 1]

\* The block an address means: a high-capacity card counts blocks, the others bytes.
BlockAt(c, arg) ==
    LET unit == IF c.kind = "HC" THEN 1 ELSE BlockSize
    IN  IF arg >= 0 /\ arg % unit = 0 THEN arg \div unit ELSE -1

Answer(c, r1) == [card |-> c, r1 |-> r1]

EraseBlocks(c) ==
    LET group(b) == b \div Granule(c)
    IN  [c EXCEPT !.from = -1, !.to = -1,
                  !.media = [b \in Blocks |-> IF group(b) \in group(c.from) .. group(c.to)
                                                THEN Erased ELSE c.media[b]]]

\* What a ready card does with a command.
Perform(c, cmd, arg) ==
    LET b == BlockAt(c, arg)
        at(phase) == [c EXCEPT !.phase = phase, !.pos = b]
    IN  IF cmd \in {"CMD17", "CMD18", "CMD24", "CMD25", "CMD32", "CMD33"} /\ b \notin Blocks
          THEN {Answer(c, "parameter")}
        ELSE CASE cmd = "CMD17" -> {Answer(at("send one"), "ok")}
               [] cmd = "CMD18" -> {Answer(at("send"), "ok")}
               [] cmd = "CMD24" -> {Answer(at("take one"), "ok")}
               [] cmd = "CMD25" -> {Answer(at("take"), "ok")}
               [] cmd = "CMD32" -> {Answer([c EXCEPT !.from = b], "ok")}
               [] cmd = "CMD33" -> {Answer([c EXCEPT !.to = b], "ok")}
               [] cmd = "CMD38" -> {IF c.from \in Blocks /\ c.from <= c.to
                                      THEN Answer(EraseBlocks(c), "ok") ELSE Answer(c, "erase")}
               [] cmd = "CMD59" -> {Answer([c EXCEPT !.checks = (arg = 1)], "ok")}
               [] cmd \in {"CMD12", "ACMD41"} -> {Answer(c, "ok"), Answer(c, "illegal")}
               [] cmd = "CMD8"  -> {Answer(c, "illegal")}
               [] OTHER         -> {Answer(c, "ok")}

\* What a card that still initialises does.  ACMD41 takes its time, and with a
\* high-capacity card it does not end unless the host supports those (arg = 1).
Prepare(c, cmd, arg) ==
    CASE cmd = "CMD8"   -> {Answer(c, r) : r \in
                              CASE c.kind = "V1" -> {"illegal"}
                                [] c.kind = "LV" -> {"illegal", "idle"}
                                [] OTHER         -> {"idle"}}
      [] cmd = "CMD59"  -> {Answer([c EXCEPT !.checks = (arg = 1)], "idle")}
      [] cmd = "CMD58"  -> {Answer(c, "idle")}
      [] cmd = "ACMD41" -> {Answer(c, "idle")} \cup
                           {Answer([c EXCEPT !.phase = "ready"], "ok") :
                               x \in {c.kind} \ (IF arg = 1 THEN {} ELSE {"HC"})}
      [] OTHER          -> {Answer(c, "illegal")}

\* An undisturbed command.  A card that waits for a block hears no command but CMD0.
Obey(c, cmd, arg) ==
    IF c.phase # "gone" /\ cmd = "CMD0"
      THEN {Answer([c EXCEPT !.phase = "idle", !.checks = FALSE], "idle")}
    ELSE CASE c.phase = "idle"  -> Prepare(c, cmd, arg)
           [] c.phase = "ready" -> Perform(c, cmd, arg)
           [] c.phase \in {"send one", "send"} ->
                 {IF cmd = "CMD12" THEN Answer([c EXCEPT !.phase = "ready"], "ok")
                                   ELSE Answer(c, "illegal")}
           [] OTHER -> {Answer(c, "none")}

\* One command on the bus.  An application command may also lose its CMD55.
Attempt(c, cmd, arg) ==
    Obey(c, cmd, arg) \cup
    IF c.noise = 0 THEN {}
    ELSE {Answer(Disturbed(o.card), "none") : o \in Obey(c, cmd, arg) \cup {Answer(c, "none")}}
         \cup {Answer(Disturbed(c), r) : r \in
                 (IF c.phase \in Listening /\ (c.checks \/ cmd \in {"CMD0", "CMD8"})
                    THEN {"crc"} ELSE {})
                 \cup (IF c.phase \in Listening /\ cmd \in {"ACMD23", "ACMD41"}
                         THEN {"illegal"} ELSE {})}

\* One block from the card: token says whether its start token came in time.
Sending(c) ==
    LET sent == [c EXCEPT !.phase = IF @ = "send one" THEN "ready" ELSE @, !.pos = @ + 1]
        silent == [card |-> c, token |-> FALSE, data |-> Spoilt]
    IN  IF c.phase \notin {"send one", "send"} \/ c.pos = Sectors THEN {silent}
        ELSE {[card |-> sent, token |-> TRUE, data |-> c.media[c.pos]]} \cup
             IF c.noise = 0 THEN {}
             ELSE {[silent EXCEPT !.card = Disturbed(c)],
                   [card |-> Disturbed(sent), token |-> TRUE, data |-> Spoilt]}

\* One block to the card.  It is spoilt unnoticed unless the card checks CRCs, refused,
\* or written while the answer is lost.
Taking(c, value) ==
    LET next(x) == [x EXCEPT !.phase = IF @ = "take one" THEN "ready" ELSE @]
        written(v) == next([c EXCEPT !.media[c.pos] = v, !.pos = @ + 1])
        reply(x, yes) == [card |-> x, accepted |-> yes]
    IN  IF c.phase \notin {"take one", "take"} THEN {reply(c, FALSE)}
        ELSE IF c.pos = Sectors THEN {reply(next(c), FALSE)}
        ELSE {reply(written(value), TRUE)} \cup
             IF c.noise = 0 THEN {}
             ELSE {reply(Disturbed(next(c)), FALSE), reply(Disturbed(written(value)), FALSE)}
                  \cup (IF c.checks THEN {} ELSE {reply(Disturbed(written(Spoilt)), TRUE)})

\* The token that ends a multiple write, which may go lost.
Stopped(c) ==
    {IF c.phase = "take" THEN [c EXCEPT !.phase = "ready"] ELSE c}
    \cup (IF c.noise = 0 THEN {} ELSE {Disturbed(c)})
================================================================================
