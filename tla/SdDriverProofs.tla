---------------------------- MODULE SdDriverProofs -----------------------------
(***************************************************************************)
(* Proofs about SdDriver: for cards and calls of any size, any units, any  *)
(* boards, and any number of disturbances and turns.                       *)
(***************************************************************************)
EXTENDS SdDriver, SequenceTheorems, TLAPS

------------------------------------------------------------------------------
(* One command on the bus *)

Ok(r1) == CmdStatus(r1) = "ok"

\* What CMD38 may do to a card: nothing, or erase what CMD32 and CMD33 have named.
Erases(c, d) ==
    \/ d.media = c.media /\ d.from = c.from /\ d.to = c.to /\ d.phase = c.phase
    \/ /\ c.phase = "ready" /\ c.from \in Blocks /\ c.from <= c.to
       /\ d.from = -1 /\ d.media = EraseBlocks(c).media

\* What a command may do to the card c, and what its answer o tells.
Effect(c, cmd, arg, o) ==
    /\ o.card \in Cards /\ o.card.kind = c.kind
    /\ o.r1 \in {"idle", "ok", "none", "crc", "illegal", "erase", "parameter"}
    /\ cmd # "CMD38" => o.card.media = c.media
    /\ cmd = "CMD38" => Erases(c, o.card)
    /\ cmd \in {"CMD9", "CMD16", "CMD32", "CMD33"} => o.card.phase = c.phase
    /\ cmd = "CMD33" => o.card.from = c.from
    /\ Ok(o.r1) /\ cmd \in {"CMD9", "CMD12", "CMD16", "CMD32", "CMD33"} =>
          o.card.phase = "ready"
    /\ Ok(o.r1) /\ cmd = "CMD32" => o.card.from = BlockAt(c, arg)
    /\ Ok(o.r1) /\ cmd = "CMD33" => o.card.to = BlockAt(c, arg)
    /\ Ok(o.r1) /\ cmd \in {"CMD17", "CMD24", "CMD25"} =>
          /\ o.card.pos = BlockAt(c, arg)
          /\ o.card.phase = CASE cmd = "CMD17" -> "send one"
                              [] cmd = "CMD24" -> "take one"
                              [] cmd = "CMD25" -> "take"

LEMMA CardIs ==
    \A c : c \in Cards =>
        c = [kind |-> c.kind, phase |-> c.phase, pos |-> c.pos, from |-> c.from, to |-> c.to,
             checks |-> c.checks, media |-> c.media, noise |-> c.noise]
BY DEF Cards

LEMMA BlockAtIs ==
    ASSUME NEW c, NEW d, c.kind = d.kind, NEW arg
    PROVE  BlockAt(c, arg) = BlockAt(d, arg)
BY DEF BlockAt

\* The cards that a command may leave behind.
Phased(c, p)    == [c EXCEPT !.phase = p]
Placed(c, p, b) == [c EXCEPT !.phase = p, !.pos = b]
Woken(c)        == [c EXCEPT !.phase = "idle", !.checks = FALSE]
Checking(c, x)  == [c EXCEPT !.checks = x]
Begun(c, b)     == [c EXCEPT !.from = b]
Ended(c, b)     == [c EXCEPT !.to = b]

LEMMA PhasedIs ==
    ASSUME NEW c \in Cards, NEW p \in Phases
    PROVE  /\ Phased(c, p) \in Cards /\ Phased(c, p).kind = c.kind
           /\ Phased(c, p).media = c.media /\ Phased(c, p).noise = c.noise
           /\ Phased(c, p).phase = p
BY DEF Phased, Cards

LEMMA PlacedIs ==
    ASSUME NEW c \in Cards, NEW p \in Phases, NEW b \in Blocks
    PROVE  /\ Placed(c, p, b) \in Cards /\ Placed(c, p, b).kind = c.kind
           /\ Placed(c, p, b).media = c.media /\ Placed(c, p, b).noise = c.noise
           /\ Placed(c, p, b).phase = p /\ Placed(c, p, b).pos = b
<1>1. b \in 0 .. Sectors
  BY CardAssumption DEF Blocks
<1> QED
  BY <1>1 DEF Placed, Cards

LEMMA WokenIs ==
    ASSUME NEW c \in Cards
    PROVE  /\ Woken(c) \in Cards /\ Woken(c).kind = c.kind
           /\ Woken(c).media = c.media /\ Woken(c).noise = c.noise
BY DEF Woken, Cards, Phases

LEMMA CheckingIs ==
    ASSUME NEW c \in Cards, NEW x \in BOOLEAN
    PROVE  /\ Checking(c, x) \in Cards /\ Checking(c, x).kind = c.kind
           /\ Checking(c, x).media = c.media /\ Checking(c, x).noise = c.noise
BY DEF Checking, Cards

LEMMA BegunIs ==
    ASSUME NEW c \in Cards, NEW b \in Blocks
    PROVE  /\ Begun(c, b) \in Cards /\ Begun(c, b).kind = c.kind
           /\ Begun(c, b).media = c.media /\ Begun(c, b).noise = c.noise
           /\ Begun(c, b).phase = c.phase /\ Begun(c, b).from = b
BY DEF Begun, Cards

LEMMA EndedIs ==
    ASSUME NEW c \in Cards, NEW b \in Blocks
    PROVE  /\ Ended(c, b) \in Cards /\ Ended(c, b).kind = c.kind
           /\ Ended(c, b).media = c.media /\ Ended(c, b).noise = c.noise
           /\ Ended(c, b).phase = c.phase /\ Ended(c, b).from = c.from /\ Ended(c, b).to = b
BY DEF Ended, Cards

LEMMA DisturbedIs ==
    ASSUME NEW c \in Cards, c.noise # 0
    PROVE  /\ Disturbed(c) \in Cards
           /\ Disturbed(c).kind = c.kind /\ Disturbed(c).phase = c.phase
           /\ Disturbed(c).pos = c.pos /\ Disturbed(c).media = c.media
           /\ Disturbed(c).from = c.from /\ Disturbed(c).to = c.to
BY CardAssumption DEF Disturbed, Cards

LEMMA ErasedIs ==
    ASSUME NEW c \in Cards
    PROVE  /\ EraseBlocks(c) \in Cards
           /\ EraseBlocks(c).kind = c.kind /\ EraseBlocks(c).phase = c.phase
           /\ EraseBlocks(c).from = -1 /\ EraseBlocks(c).noise = c.noise
           /\ \A b \in Blocks : EraseBlocks(c).media[b] =
                 IF b \div Granule(c) \in c.from \div Granule(c) .. c.to \div Granule(c)
                   THEN Erased ELSE c.media[b]
BY DEF EraseBlocks, Cards, Contents

LEMMA OkIs ==
    /\ Ok("idle") /\ Ok("ok")
    /\ ~Ok("none") /\ ~Ok("crc") /\ ~Ok("illegal") /\ ~Ok("erase") /\ ~Ok("parameter")
BY DEF Ok, CmdStatus

LEMMA AnswerIs == \A c, r1 : Answer(c, r1).card = c /\ Answer(c, r1).r1 = r1
BY DEF Answer

\* An answer that leaves the card as it is.
LEMMA SameEffect ==
    ASSUME NEW c \in Cards, NEW cmd, NEW arg, NEW o, o.card = c,
           o.r1 \in {"idle", "ok", "none", "crc", "illegal", "erase", "parameter"},
           Ok(o.r1) => /\ cmd \in {"CMD9", "CMD12", "CMD16"} => c.phase = "ready"
                       /\ cmd \notin {"CMD17", "CMD24", "CMD25", "CMD32", "CMD33"}
    PROVE  Effect(c, cmd, arg, o)
BY DEF Effect, Erases

\* A command after which the card knows something else, but for CMD38.
LEMMA ChangeEffect ==
    ASSUME NEW c \in Cards, NEW d \in Cards, d.kind = c.kind, d.media = c.media,
           NEW cmd, cmd \notin {"CMD9", "CMD12", "CMD16", "CMD17", "CMD24", "CMD25",
                                "CMD32", "CMD33", "CMD38"},
           NEW arg, NEW r1 \in {"idle", "ok"}
    PROVE  Effect(c, cmd, arg, Answer(d, r1))
<1> DEFINE o == Answer(d, r1)
<1>1. o.card = d /\ o.r1 = r1
  BY AnswerIs
<1> HIDE DEF o
<1>2. Effect(c, cmd, arg, o)
  BY <1>1 DEF Effect
<1> QED
  BY <1>2 DEF o

LEMMA PerformIs ==
    ASSUME NEW c, NEW cmd, NEW arg, NEW o \in Perform(c, cmd, arg)
    PROVE  LET b == BlockAt(c, arg)
           IN  \/ o = Answer(c, "parameter") \/ o = Answer(c, "illegal") \/ o = Answer(c, "erase")
               \/ /\ cmd \notin {"CMD17", "CMD18", "CMD24", "CMD25", "CMD32", "CMD33"}
                  /\ o = Answer(c, "ok")
               \/ /\ b \in Blocks
                  /\ \/ cmd = "CMD17" /\ o = Answer(Placed(c, "send one", b), "ok")
                     \/ cmd = "CMD18" /\ o = Answer(Placed(c, "send", b), "ok")
                     \/ cmd = "CMD24" /\ o = Answer(Placed(c, "take one", b), "ok")
                     \/ cmd = "CMD25" /\ o = Answer(Placed(c, "take", b), "ok")
                     \/ cmd = "CMD32" /\ o = Answer(Begun(c, b), "ok")
                     \/ cmd = "CMD33" /\ o = Answer(Ended(c, b), "ok")
               \/ cmd = "CMD38" /\ c.from \in Blocks /\ c.from <= c.to
                    /\ o = Answer(EraseBlocks(c), "ok")
               \/ cmd = "CMD59" /\ \E x \in BOOLEAN : o = Answer(Checking(c, x), "ok")
<1> DEFINE b == BlockAt(c, arg)
           addressed == {"CMD17", "CMD18", "CMD24", "CMD25", "CMD32", "CMD33"}
<1>1. CASE cmd \in addressed /\ b \notin Blocks
  <2>1. Perform(c, cmd, arg) = {Answer(c, "parameter")}
    BY <1>1 DEF Perform, Placed, Begun, Ended, Checking
  <2> QED
    BY <2>1
<1>2. CASE cmd \in addressed /\ b \in Blocks
  <2>1. cmd = "CMD17" => Perform(c, cmd, arg)
                           = {Answer(Placed(c, "send one", b), "ok")}
    BY <1>2 DEF Perform, Placed, Begun, Ended, Checking
  <2>2. cmd = "CMD18" => Perform(c, cmd, arg)
                           = {Answer(Placed(c, "send", b), "ok")}
    BY <1>2 DEF Perform, Placed, Begun, Ended, Checking
  <2>3. cmd = "CMD24" => Perform(c, cmd, arg)
                           = {Answer(Placed(c, "take one", b), "ok")}
    BY <1>2 DEF Perform, Placed, Begun, Ended, Checking
  <2>4. cmd = "CMD25" => Perform(c, cmd, arg)
                           = {Answer(Placed(c, "take", b), "ok")}
    BY <1>2 DEF Perform, Placed, Begun, Ended, Checking
  <2>5. cmd = "CMD32" => Perform(c, cmd, arg) = {Answer(Begun(c, b), "ok")}
    BY <1>2 DEF Perform, Placed, Begun, Ended, Checking
  <2>6. cmd = "CMD33" => Perform(c, cmd, arg) = {Answer(Ended(c, b), "ok")}
    BY <1>2 DEF Perform, Placed, Begun, Ended, Checking
  <2> HIDE DEF b
  <2>7. \/ cmd = "CMD17" \/ cmd = "CMD18" \/ cmd = "CMD24" \/ cmd = "CMD25"
        \/ cmd = "CMD32" \/ cmd = "CMD33"
    BY <1>2
  <2> QED
    BY <1>2, <2>1, <2>2, <2>3, <2>4, <2>5, <2>6, <2>7 DEF b
<1>3. CASE cmd = "CMD38"
  <2>1. Perform(c, cmd, arg) = {IF c.from \in Blocks /\ c.from <= c.to
                                  THEN Answer(EraseBlocks(c), "ok") ELSE Answer(c, "erase")}
    BY <1>3 DEF Perform, Placed, Begun, Ended, Checking
  <2> QED
    BY <1>3, <2>1
<1>4. CASE cmd = "CMD59"
  <2>1. PICK x \in BOOLEAN : x = (arg = 1)
    OBVIOUS
  <2>2. Perform(c, cmd, arg) = {Answer(Checking(c, x), "ok")}
    BY <1>4, <2>1 DEF Perform, Placed, Begun, Ended, Checking
  <2> QED
    BY <1>4, <2>2
<1>5. CASE cmd \notin addressed \cup {"CMD38", "CMD59"}
  <2>1. Perform(c, cmd, arg) \subseteq {Answer(c, "ok"), Answer(c, "illegal")}
    BY <1>5 DEF Perform, Placed, Begun, Ended, Checking
  <2> QED
    BY <1>5, <2>1
<1> QED
  BY <1>1, <1>2, <1>3, <1>4, <1>5

LEMMA PerformEffect ==
    ASSUME NEW c \in Cards, NEW cmd, NEW arg \in Int, NEW o \in Perform(c, cmd, arg),
           c.phase = "ready"
    PROVE  Effect(c, cmd, arg, o)
<1> DEFINE b == BlockAt(c, arg)
<1>1. CASE \/ o = Answer(c, "parameter") \/ o = Answer(c, "illegal") \/ o = Answer(c, "erase")
           \/ /\ cmd \notin {"CMD17", "CMD18", "CMD24", "CMD25", "CMD32", "CMD33"}
              /\ o = Answer(c, "ok")
  BY <1>1, SameEffect, AnswerIs, OkIs
<1>2. ASSUME b \in Blocks, cmd \in {"CMD17", "CMD18", "CMD24", "CMD25"},
             NEW p \in Phases,
             p = CASE cmd = "CMD17" -> "send one" [] cmd = "CMD18" -> "send"
                   [] cmd = "CMD24" -> "take one" [] cmd = "CMD25" -> "take",
             o = Answer(Placed(c, p, b), "ok")
      PROVE  Effect(c, cmd, arg, o)
  <2> DEFINE d == Placed(c, p, b)
  <2>1. /\ d \in Cards /\ d.kind = c.kind /\ d.media = c.media
        /\ d.phase = p /\ d.pos = b
    <3>1. PICK e \in Blocks : e = b
      BY <1>2
    <3> QED
      BY <3>1, PlacedIs
  <2>2. o.card = d /\ o.r1 = "ok"
    BY <1>2, AnswerIs
  <2> HIDE DEF d, b
  <2>3. o.card.pos = BlockAt(c, arg)
    BY <2>1, <2>2 DEF b
  <2> QED
    BY <1>2, <2>1, <2>2, <2>3 DEF Effect
<1>3. ASSUME b \in Blocks, cmd = "CMD32", o = Answer(Begun(c, b), "ok")
      PROVE  Effect(c, cmd, arg, o)
  <2> DEFINE d == Begun(c, b)
  <2>1. d \in Cards /\ d.kind = c.kind /\ d.media = c.media /\ d.phase = c.phase /\ d.from = b
    BY <1>3, BegunIs
  <2>2. o.card = d /\ o.r1 = "ok"
    BY <1>3, AnswerIs
  <2> HIDE DEF d
  <2> QED
    BY <1>3, <2>1, <2>2 DEF Effect
<1>4. ASSUME b \in Blocks, cmd = "CMD33", o = Answer(Ended(c, b), "ok")
      PROVE  Effect(c, cmd, arg, o)
  <2> DEFINE d == Ended(c, b)
  <2>1. /\ d \in Cards /\ d.kind = c.kind /\ d.media = c.media /\ d.phase = c.phase
        /\ d.from = c.from /\ d.to = b
    BY <1>4, EndedIs
  <2>2. o.card = d /\ o.r1 = "ok"
    BY <1>4, AnswerIs
  <2> HIDE DEF d
  <2> QED
    BY <1>4, <2>1, <2>2 DEF Effect
<1>5. ASSUME cmd = "CMD38", c.from \in Blocks, c.from <= c.to, o = Answer(EraseBlocks(c), "ok")
      PROVE  Effect(c, cmd, arg, o)
  <2>1. o.card = EraseBlocks(c) /\ o.r1 = "ok"
    BY <1>5, AnswerIs
  <2> QED
    BY <1>5, <2>1, ErasedIs DEF Effect, Erases
<1>6. ASSUME cmd = "CMD59", NEW x \in BOOLEAN, o = Answer(Checking(c, x), "ok")
      PROVE  Effect(c, cmd, arg, o)
  <2> DEFINE d == Checking(c, x)
  <2>1. d \in Cards /\ d.kind = c.kind /\ d.media = c.media
    BY <1>6, CheckingIs
  <2>2. o = Answer(d, "ok")
    BY <1>6
  <2> HIDE DEF d
  <2> QED
    BY <1>6, <2>1, <2>2, ChangeEffect
<1> QED
  BY <1>1, <1>2, <1>3, <1>4, <1>5, <1>6, PerformIs, ZenonT(60) DEF Phases

LEMMA PrepareIs ==
    ASSUME NEW c, NEW cmd, NEW arg, NEW o \in Prepare(c, cmd, arg)
    PROVE  \/ o = Answer(c, "illegal")
           \/ cmd \in {"CMD8", "CMD58", "ACMD41"} /\ o = Answer(c, "idle")
           \/ cmd = "CMD59" /\ \E x \in BOOLEAN : o = Answer(Checking(c, x), "idle")
           \/ cmd = "ACMD41" /\ o = Answer(Phased(c, "ready"), "ok")
<1>1. PICK x \in BOOLEAN : x = (arg = 1)
  OBVIOUS
<1> QED
  BY <1>1 DEF Prepare, Phased, Checking

LEMMA PrepareEffect ==
    ASSUME NEW c \in Cards, NEW cmd, NEW arg \in Int, NEW o \in Prepare(c, cmd, arg),
           c.phase = "idle", cmd # "CMD0"
    PROVE  Effect(c, cmd, arg, o)
<1>1. CASE \/ o = Answer(c, "illegal")
           \/ cmd \in {"CMD8", "CMD58", "ACMD41"} /\ o = Answer(c, "idle")
  BY <1>1, SameEffect, AnswerIs, OkIs
<1>2. ASSUME cmd = "CMD59", NEW x \in BOOLEAN, o = Answer(Checking(c, x), "idle")
      PROVE  Effect(c, cmd, arg, o)
  <2> DEFINE d == Checking(c, x)
  <2>1. d \in Cards /\ d.kind = c.kind /\ d.media = c.media
    BY <1>2, CheckingIs
  <2>2. o = Answer(d, "idle")
    BY <1>2
  <2> HIDE DEF d
  <2> QED
    BY <1>2, <2>1, <2>2, ChangeEffect
<1>3. ASSUME cmd = "ACMD41", o = Answer(Phased(c, "ready"), "ok")
      PROVE  Effect(c, cmd, arg, o)
  <2> DEFINE d == Phased(c, "ready")
  <2>1. d \in Cards /\ d.kind = c.kind /\ d.media = c.media
    BY PhasedIs DEF Phases
  <2>2. o = Answer(d, "ok")
    BY <1>3
  <2> HIDE DEF d
  <2> QED
    BY <1>3, <2>1, <2>2, ChangeEffect
<1> QED
  BY <1>1, <1>2, <1>3, PrepareIs

LEMMA ObeyIs ==
    ASSUME NEW c, NEW cmd, NEW arg, NEW o \in Obey(c, cmd, arg)
    PROVE  \/ /\ cmd = "CMD0"
              /\ o = Answer(Woken(c), "idle")
           \/ c.phase = "idle" /\ cmd # "CMD0" /\ o \in Prepare(c, cmd, arg)
           \/ c.phase = "ready" /\ cmd # "CMD0" /\ o \in Perform(c, cmd, arg)
           \/ c.phase \in {"send one", "send"} /\ cmd = "CMD12"
                /\ o = Answer(Phased(c, "ready"), "ok")
           \/ o = Answer(c, "illegal") \/ o = Answer(c, "none")
<1>1. CASE c.phase # "gone" /\ cmd = "CMD0"
  <2>1. Obey(c, cmd, arg) = {Answer(Woken(c), "idle")}
    BY <1>1 DEF Obey, Phased, Woken
  <2> QED
    BY <1>1, <2>1
<1>2. CASE c.phase = "idle" /\ cmd # "CMD0"
  BY <1>2 DEF Obey, Phased, Woken
<1>3. CASE c.phase = "ready" /\ cmd # "CMD0"
  BY <1>3 DEF Obey, Phased, Woken
<1>4. CASE c.phase \in {"send one", "send"} /\ cmd # "CMD0"
  <2>1. Obey(c, cmd, arg) = {IF cmd = "CMD12" THEN Answer(Phased(c, "ready"), "ok")
                                              ELSE Answer(c, "illegal")}
    BY <1>4 DEF Obey, Phased, Woken
  <2> QED
    BY <1>4, <2>1
<1>5. CASE \/ c.phase = "gone"
           \/ c.phase \notin {"idle", "ready", "send one", "send"} /\ cmd # "CMD0"
  BY <1>5 DEF Obey, Phased, Woken
<1> QED
  BY <1>1, <1>2, <1>3, <1>4, <1>5

LEMMA ObeyEffect ==
    ASSUME NEW c \in Cards, NEW cmd, NEW arg \in Int, NEW o \in Obey(c, cmd, arg)
    PROVE  Effect(c, cmd, arg, o)
<1>1. ASSUME cmd = "CMD0", o = Answer(Woken(c), "idle")
      PROVE  Effect(c, cmd, arg, o)
  <2> DEFINE d == Woken(c)
  <2>1. d \in Cards /\ d.kind = c.kind /\ d.media = c.media
    BY WokenIs
  <2>2. o = Answer(d, "idle")
    BY <1>1
  <2> HIDE DEF d
  <2> QED
    BY <1>1, <2>1, <2>2, ChangeEffect
<1>2. ASSUME cmd = "CMD12", o = Answer(Phased(c, "ready"), "ok")
      PROVE  Effect(c, cmd, arg, o)
  <2> DEFINE d == Phased(c, "ready")
  <2>1. d \in Cards /\ d.kind = c.kind /\ d.media = c.media /\ d.phase = "ready"
    BY PhasedIs DEF Phases
  <2>2. o.card = d /\ o.r1 = "ok"
    BY <1>2, AnswerIs
  <2> HIDE DEF d
  <2> QED
    BY <1>2, <2>1, <2>2 DEF Effect
<1>3. CASE o = Answer(c, "illegal") \/ o = Answer(c, "none")
  BY <1>3, SameEffect, AnswerIs, OkIs
<1> QED
  BY <1>1, <1>2, <1>3, ObeyIs, PrepareEffect, PerformEffect

\* A lost answer takes from an effect what it tells, and disturbs the card.
LEMMA LostEffect ==
    ASSUME NEW c \in Cards, NEW cmd, NEW arg, NEW o, Effect(c, cmd, arg, o), o.card.noise # 0,
           NEW r1 \in {"none", "crc", "illegal"}
    PROVE  Effect(c, cmd, arg, Answer(Disturbed(o.card), r1))
<1> DEFINE d == Disturbed(o.card)
           p == Answer(d, r1)
<1>1. p.card = d /\ p.r1 = r1 /\ ~Ok(r1)
  BY DEF Answer, Ok, CmdStatus
<1>2. /\ d \in Cards /\ d.kind = o.card.kind /\ d.phase = o.card.phase
      /\ d.media = o.card.media /\ d.from = o.card.from /\ d.to = o.card.to
  BY DisturbedIs DEF Effect
<1> HIDE DEF d, p
<1>3. cmd = "CMD38" => Erases(c, d)
  BY <1>2 DEF Effect, Erases
<1>4. Effect(c, cmd, arg, p)
  BY <1>1, <1>2, <1>3 DEF Effect
<1> QED
  BY <1>4 DEF p, d

LEMMA ObeyNoise ==
    ASSUME NEW c \in Cards, NEW cmd, NEW arg \in Int, NEW o \in Obey(c, cmd, arg)
    PROVE  o.card.noise = c.noise
<1>1. /\ \A p \in Phases : Phased(c, p).noise = c.noise
      /\ Woken(c).noise = c.noise
      /\ \A x \in BOOLEAN : Checking(c, x).noise = c.noise
      /\ \A p \in Phases, b \in Blocks : Placed(c, p, b).noise = c.noise
      /\ \A b \in Blocks : Begun(c, b).noise = c.noise /\ Ended(c, b).noise = c.noise
      /\ EraseBlocks(c).noise = c.noise
  BY PhasedIs, WokenIs, CheckingIs, PlacedIs, BegunIs, EndedIs, ErasedIs
<1>2. ASSUME NEW d, d.noise = c.noise, NEW r1, o = Answer(d, r1)
      PROVE  o.card.noise = c.noise
  BY <1>2, AnswerIs
<1>3. CASE o \in Prepare(c, cmd, arg)
  BY <1>1, <1>2, <1>3, PrepareIs DEF Phases
<1>4. CASE o \in Perform(c, cmd, arg)
  <2>1. PICK b : b = BlockAt(c, arg)
    OBVIOUS
  <2>2. /\ "send one" \in Phases /\ "send" \in Phases
        /\ "take one" \in Phases /\ "take" \in Phases
    BY DEF Phases
  <2>3. \/ \E r1 : o = Answer(c, r1)
        \/ b \in Blocks /\ \E p \in Phases : o = Answer(Placed(c, p, b), "ok")
        \/ b \in Blocks /\ (o = Answer(Begun(c, b), "ok") \/ o = Answer(Ended(c, b), "ok"))
        \/ o = Answer(EraseBlocks(c), "ok")
        \/ \E x \in BOOLEAN : o = Answer(Checking(c, x), "ok")
    BY <1>4, <2>1, <2>2, PerformIs, ZenonT(60)
  <2> QED
    BY <1>1, <1>2, <2>3
<1> QED
  BY <1>1, <1>2, <1>3, <1>4, ObeyIs DEF Phases

LEMMA NoEffect ==
    ASSUME NEW c \in Cards, NEW cmd, NEW arg
    PROVE  Effect(c, cmd, arg, Answer(c, "none"))
BY DEF Effect, Erases, Answer, Ok, CmdStatus

LEMMA AttemptEffect ==
    ASSUME NEW c \in Cards, NEW cmd, NEW arg \in Int, NEW o \in Attempt(c, cmd, arg)
    PROVE  Effect(c, cmd, arg, o)
<1>1. CASE o \in Obey(c, cmd, arg)
  BY <1>1, ObeyEffect
<1>2. ASSUME c.noise # 0, NEW p \in Obey(c, cmd, arg) \cup {Answer(c, "none")},
             o = Answer(Disturbed(p.card), "none")
      PROVE  Effect(c, cmd, arg, o)
  <2>1. p.card.noise = c.noise
    BY ObeyNoise DEF Answer
  <2>2. Effect(c, cmd, arg, p)
    BY ObeyEffect, NoEffect
  <2> QED
    BY <1>2, <2>1, <2>2, LostEffect
<1>3. ASSUME c.noise # 0, NEW r1 \in {"crc", "illegal"}, o = Answer(Disturbed(c), r1)
      PROVE  Effect(c, cmd, arg, o)
  <2> DEFINE p == Answer(c, "none")
  <2>1. p.card = c /\ Effect(c, cmd, arg, p)
    BY NoEffect DEF Answer
  <2> HIDE DEF p
  <2>2. Effect(c, cmd, arg, Answer(Disturbed(p.card), r1))
    BY <1>3, <2>1, LostEffect
  <2> QED
    BY <1>3, <2>1, <2>2
<1> QED
  BY <1>1, <1>2, <1>3 DEF Attempt

LEMMA EffectsCompose ==
    ASSUME NEW c \in Cards, NEW cmd, NEW arg, NEW o, Effect(c, cmd, arg, o),
           NEW p, Effect(o.card, cmd, arg, p)
    PROVE  Effect(c, cmd, arg, p)
<1> DEFINE d == o.card
           e == p.card
<1>1. d \in Cards /\ d.kind = c.kind /\ e.kind = d.kind /\ BlockAt(d, arg) = BlockAt(c, arg)
  BY DEF Effect, BlockAt
<1>2. cmd = "CMD38" => Erases(c, e)
  <2>1. cmd = "CMD38" => Erases(c, d) /\ Erases(d, e)
    BY DEF Effect
  <2>2. -1 \notin Blocks
    BY DEF Blocks
  <2>3. EraseBlocks(c).media = EraseBlocks(d).media
          \/ ~(d.media = c.media /\ d.from = c.from /\ d.to = c.to)
    BY <1>1 DEF EraseBlocks, Granule, Cards
  <2> HIDE DEF d, e
  <2> QED
    BY <2>1, <2>2, <2>3 DEF Erases
<1> QED
  BY <1>1, <1>2 DEF Effect

\* What _cmd does is what one exchange may do: repeating a command whose answer was
\* lost adds nothing.
LEMMA CmdEffect ==
    ASSUME card \in Cards, NEW cmd, NEW arg \in Int, NEW o \in Cmd(cmd, arg)
    PROVE  Effect(card, cmd, arg, o)
<1> DEFINE once(c) == Attempt(c, cmd, arg)
           twice == Again(once(card), once)
<1>1. ASSUME NEW p \in twice PROVE Effect(card, cmd, arg, p)
  <2>1. PICK q \in Attempt(card, cmd, arg) : p = q \/ p \in Attempt(q.card, cmd, arg)
    BY <1>1 DEF Again
  <2>2. Effect(card, cmd, arg, q)
    BY AttemptEffect
  <2>3. CASE p \in Attempt(q.card, cmd, arg)
    <3>1. Effect(q.card, cmd, arg, p)
      BY <2>2, <2>3, AttemptEffect DEF Effect
    <3> QED
      BY <2>2, <3>1, EffectsCompose
  <2> QED
    BY <2>1, <2>2, <2>3
<1>2. PICK q \in twice : o = q \/ o \in Attempt(q.card, cmd, arg)
  BY DEF Cmd, Again
<1>3. Effect(card, cmd, arg, q)
  BY <1>1
<1>4. CASE o \in Attempt(q.card, cmd, arg)
  <2>1. Effect(q.card, cmd, arg, o)
    BY <1>3, <1>4, AttemptEffect DEF Effect
  <2> QED
    BY <1>3, <2>1, EffectsCompose
<1> QED
  BY <1>2, <1>3, <1>4

------------------------------------------------------------------------------
(* Blocks of data *)

Sent(c)       == [c EXCEPT !.phase = IF @ = "send one" THEN "ready" ELSE @, !.pos = @ + 1]
Over(c)       == [c EXCEPT !.phase = IF @ = "take one" THEN "ready" ELSE @]
Written(c, v) == [c EXCEPT !.media[c.pos] = v, !.pos = @ + 1]

Yes == TRUE
No  == FALSE
Silent(x)     == [card |-> x, token |-> No, data |-> Spoilt]
Arrived(x, d) == [card |-> x, token |-> Yes, data |-> d]
Refused(x)    == [card |-> x, accepted |-> No]
Accepted(x)   == [card |-> x, accepted |-> Yes]

LEMMA YesOrNo == Yes \in BOOLEAN /\ No \in BOOLEAN /\ Yes /\ ~No
BY DEF Yes, No

LEMMA AnswersAre ==
    /\ \A x : Silent(x).card = x /\ Silent(x).token = No /\ Silent(x).data = Spoilt
    /\ \A x, d : Arrived(x, d).card = x /\ Arrived(x, d).token = Yes /\ Arrived(x, d).data = d
    /\ \A x : Refused(x).card = x /\ Refused(x).accepted = No
    /\ \A x : Accepted(x).card = x /\ Accepted(x).accepted = Yes
BY DEF Silent, Arrived, Refused, Accepted

LEMMA SentIs ==
    ASSUME NEW c \in Cards, c.pos # Sectors
    PROVE  /\ Sent(c) \in Cards /\ Sent(c).kind = c.kind
           /\ Sent(c).media = c.media /\ Sent(c).noise = c.noise
           /\ Sent(c).phase = IF c.phase = "send one" THEN "ready" ELSE c.phase
<1> DEFINE p == IF c.phase = "send one" THEN "ready" ELSE c.phase
           q == c.pos + 1
<1>1. p \in Phases
  <2>1. c.phase \in Phases
    BY DEF Cards
  <2> QED
    BY <2>1 DEF Phases
<1>2. q \in 0 .. Sectors
  <2>1. c.pos \in 0 .. Sectors
    BY DEF Cards
  <2> QED
    BY <2>1, CardAssumption
<1>3. Sent(c) = [c EXCEPT !.phase = p, !.pos = q]
  BY DEF Sent, Cards
<1> HIDE DEF p, q
<1>4. /\ Sent(c) \in Cards /\ Sent(c).kind = c.kind
      /\ Sent(c).media = c.media /\ Sent(c).noise = c.noise /\ Sent(c).phase = p
  BY <1>1, <1>2, <1>3 DEF Cards
<1> QED
  BY <1>4 DEF p

LEMMA OverIs ==
    ASSUME NEW c \in Cards
    PROVE  /\ Over(c) \in Cards /\ Over(c).kind = c.kind
           /\ Over(c).media = c.media /\ Over(c).noise = c.noise /\ Over(c).pos = c.pos
           /\ Over(c).phase = IF c.phase = "take one" THEN "ready" ELSE c.phase
BY DEF Over, Cards, Phases

LEMMA WrittenIs ==
    ASSUME NEW c \in Cards, c.pos # Sectors, NEW v \in Contents
    PROVE  /\ Written(c, v) \in Cards /\ Written(c, v).kind = c.kind
           /\ Written(c, v).noise = c.noise /\ Written(c, v).phase = c.phase
           /\ Written(c, v).pos = c.pos + 1
           /\ \A b \in Blocks : b # c.pos => Written(c, v).media[b] = c.media[b]
<1> DEFINE m == [c.media EXCEPT ![c.pos] = v]
           q == c.pos + 1
<1>1. q \in 0 .. Sectors /\ c.media \in [Blocks -> Contents]
  BY CardAssumption DEF Cards
<1>2. m \in [Blocks -> Contents] /\ \A b \in Blocks : b # c.pos => m[b] = c.media[b]
  BY <1>1
<1>3. Written(c, v) = [c EXCEPT !.media = m, !.pos = q]
  BY DEF Written, Cards
<1> HIDE DEF m, q
<1>4. /\ Written(c, v) \in Cards /\ Written(c, v).kind = c.kind
      /\ Written(c, v).noise = c.noise /\ Written(c, v).phase = c.phase
      /\ Written(c, v).pos = q /\ Written(c, v).media = m
  BY <1>1, <1>2, <1>3 DEF Cards
<1> QED
  BY <1>2, <1>4 DEF q

\* A block that is received is the one the card is at, unless it has been spoilt.
LEMMA SendingIs ==
    ASSUME NEW c \in Cards, NEW o \in Sending(c)
    PROVE  /\ o.card \in Cards /\ o.card.kind = c.kind /\ o.card.media = c.media
           /\ o.token \in BOOLEAN /\ o.data \in Contents
           /\ o.token => /\ c.phase \in {"send one", "send"} /\ c.pos \in Blocks
                         /\ o.data = Spoilt \/ o.data = c.media[c.pos]
                         /\ c.phase = "send one" => o.card.phase = "ready"
<1>1. \/ /\ o.card \in {c, Disturbed(c)} /\ o.token = No /\ o.data = Spoilt
         /\ o.card = c \/ c.noise # 0
      \/ /\ c.phase \in {"send one", "send"} /\ c.pos # Sectors
         /\ o.token = Yes
         /\ \/ o.card = Sent(c) /\ o.data = c.media[c.pos]
            \/ o.card = Disturbed(Sent(c)) /\ o.data = Spoilt /\ c.noise # 0
  <2>1. CASE c.phase \notin {"send one", "send"} \/ c.pos = Sectors
    <3>1. o = Silent(c)
      BY <2>1 DEF Sending, Silent, No
    <3> QED
      BY <3>1, AnswersAre
  <2>2. CASE c.phase \in {"send one", "send"} /\ c.pos # Sectors
    <3>1. [Silent(c) EXCEPT !.card = Disturbed(c)]
             = Silent(Disturbed(c))
      BY DEF Silent
    <3>2. \/ o = Arrived(Sent(c), c.media[c.pos])
          \/ c.noise # 0 /\ o = [Silent(c) EXCEPT !.card = Disturbed(c)]
          \/ c.noise # 0 /\ o = Arrived(Disturbed(Sent(c)), Spoilt)
      BY <2>2 DEF Sending, Sent, Silent, Arrived, Yes, No
    <3>3. CASE o = Arrived(Sent(c), c.media[c.pos])
      <4>1. PICK x, d : x = Sent(c) /\ d = c.media[c.pos]
        OBVIOUS
      <4>2. o.card = x /\ o.token = Yes /\ o.data = d
        BY <3>3, <4>1, AnswersAre
      <4> QED
        BY <2>2, <4>1, <4>2
    <3>4. CASE c.noise # 0 /\ o = Silent(Disturbed(c))
      BY <3>4, AnswersAre
    <3>5. CASE c.noise # 0 /\ o = Arrived(Disturbed(Sent(c)), Spoilt)
      <4>1. PICK x : x = Disturbed(Sent(c))
        OBVIOUS
      <4>2. o.card = x /\ o.token = Yes /\ o.data = Spoilt
        BY <3>5, <4>1, AnswersAre
      <4> QED
        BY <2>2, <3>5, <4>1, <4>2
    <3> QED
      BY <3>1, <3>2, <3>3, <3>4, <3>5
  <2> QED
    BY <2>1, <2>2
<1>2. c.pos # Sectors => c.pos \in Blocks
  BY CardAssumption DEF Cards, Blocks
<1>3. Spoilt \in Contents /\ \A b \in Blocks : c.media[b] \in Contents
  BY DEF Cards, Contents
<1>4. c.pos # Sectors /\ c.noise # 0 =>
         /\ Disturbed(Sent(c)) \in Cards /\ Disturbed(Sent(c)).kind = c.kind
         /\ Disturbed(Sent(c)).media = c.media /\ Disturbed(Sent(c)).phase = Sent(c).phase
  BY SentIs, DisturbedIs, ZenonT(60)
<1>5. CASE o.card \in {c, Disturbed(c)} /\ o.token = No /\ o.data = Spoilt
              /\ (o.card = c \/ c.noise # 0)
  BY <1>3, <1>5, DisturbedIs, YesOrNo
<1>6. CASE /\ c.phase \in {"send one", "send"} /\ c.pos # Sectors /\ o.token = Yes
           /\ o.card = Sent(c) /\ o.data = c.media[c.pos]
  BY <1>2, <1>3, <1>6, SentIs, YesOrNo
<1>7. CASE /\ c.phase \in {"send one", "send"} /\ c.pos # Sectors /\ o.token = Yes
           /\ o.card = Disturbed(Sent(c)) /\ o.data = Spoilt /\ c.noise # 0
  BY <1>2, <1>3, <1>4, <1>7, SentIs, YesOrNo
<1> QED
  BY <1>1, <1>5, <1>6, <1>7

\* A block is written where the card is, or not at all.
LEMMA TakingIs ==
    ASSUME NEW c \in Cards, NEW v \in Contents, NEW o \in Taking(c, v)
    PROVE  /\ o.card \in Cards /\ o.card.kind = c.kind /\ o.accepted \in BOOLEAN
           /\ o.accepted => /\ c.phase \in {"take one", "take"}
                            /\ o.card.phase = IF c.phase = "take one" THEN "ready" ELSE c.phase
                            /\ o.card.pos = c.pos + 1
           /\ \A b \in Blocks : o.card.media[b] # c.media[b] =>
                 c.phase \in {"take one", "take"} /\ b = c.pos
<1>1. \/ o.accepted = No /\ o.card = c
      \/ o.accepted = No /\ o.card = Over(c)
      \/ o.accepted = No /\ o.card = Disturbed(Over(c)) /\ c.noise # 0
      \/ /\ c.phase \in {"take one", "take"} /\ c.pos # Sectors /\ o.accepted \in {Yes, No}
         /\ \E x \in {v, Spoilt} :
               \/ o.card = Over(Written(c, x))
               \/ o.card = Disturbed(Over(Written(c, x))) /\ c.noise # 0
  <2>1. CASE c.phase \notin {"take one", "take"} \/ c.pos = Sectors
    <3>1. o = Refused(c) \/ o = Refused(Over(c))
      BY <2>1 DEF Taking, Over, Refused, No
    <3> QED
      BY <3>1, AnswersAre
  <2>2. CASE c.phase \in {"take one", "take"} /\ c.pos # Sectors
    <3>1. \/ o = Accepted(Over(Written(c, v)))
          \/ c.noise # 0 /\ o = Refused(Disturbed(Over(c)))
          \/ c.noise # 0 /\ o = Refused(Disturbed(Over(Written(c, v))))
          \/ c.noise # 0 /\ o = Accepted(Disturbed(Over(Written(c, Spoilt))))
      BY <2>2 DEF Taking, Over, Written, Refused, Accepted, Yes, No
    <3>2. CASE c.noise # 0 /\ o = Refused(Disturbed(Over(c)))
      BY <3>2, AnswersAre
    <3>3. CASE \/ o = Accepted(Over(Written(c, v)))
               \/ c.noise # 0 /\ o = Refused(Disturbed(Over(Written(c, v))))
               \/ c.noise # 0 /\ o = Accepted(Disturbed(Over(Written(c, Spoilt))))
      <4>1. /\ o.accepted \in {Yes, No}
            /\ \/ o.card = Over(Written(c, v))
               \/ o.card = Disturbed(Over(Written(c, v))) /\ c.noise # 0
               \/ o.card = Disturbed(Over(Written(c, Spoilt))) /\ c.noise # 0
        BY <3>3, AnswersAre
      <4> QED
        BY <2>2, <4>1
    <3> QED
      BY <3>1, <3>2, <3>3
  <2> QED
    BY <2>1, <2>2
<1>2. Spoilt \in Contents
  BY DEF Contents
<1>3. ASSUME NEW x \in Contents, c.pos # Sectors, NEW w, w = Over(Written(c, x))
      PROVE  /\ w \in Cards /\ w.kind = c.kind /\ w.noise = c.noise /\ w.pos = c.pos + 1
             /\ w.phase = IF c.phase = "take one" THEN "ready" ELSE c.phase
             /\ \A b \in Blocks : b # c.pos => w.media[b] = c.media[b]
  <2>1. PICK y : y = Written(c, x)
    OBVIOUS
  <2>2. /\ y \in Cards /\ y.kind = c.kind /\ y.noise = c.noise /\ y.phase = c.phase
        /\ y.pos = c.pos + 1 /\ \A b \in Blocks : b # c.pos => y.media[b] = c.media[b]
    BY <1>3, <2>1, WrittenIs
  <2>3. w = Over(y)
    BY <1>3, <2>1
  <2> QED
    <3>1. /\ w \in Cards /\ w.kind = y.kind /\ w.media = y.media /\ w.noise = y.noise
          /\ w.pos = y.pos /\ w.phase = IF y.phase = "take one" THEN "ready" ELSE y.phase
      BY <2>2, <2>3, OverIs
    <3> QED
      BY <2>2, <3>1
<1>4. CASE o.accepted = No /\ (o.card = c \/ o.card = Over(c))
  BY <1>4, OverIs, YesOrNo
<1>5. CASE o.accepted = No /\ o.card = Disturbed(Over(c)) /\ c.noise # 0
  <2>1. PICK y : y = Over(c)
    OBVIOUS
  <2>2. /\ y \in Cards /\ y.kind = c.kind /\ y.media = c.media /\ y.noise # 0
    BY <1>5, <2>1, OverIs
  <2>3. o.card \in Cards /\ o.card.kind = c.kind /\ o.card.media = c.media
    BY <1>5, <2>1, <2>2, DisturbedIs
  <2> QED
    BY <1>5, <2>3, YesOrNo
<1>6. ASSUME c.phase \in {"take one", "take"}, c.pos # Sectors,
             NEW x \in Contents, NEW w, w = Over(Written(c, x)),
             o.card = w \/ (o.card = Disturbed(w) /\ c.noise # 0)
      PROVE  /\ o.card \in Cards /\ o.card.kind = c.kind
             /\ o.card.phase = IF c.phase = "take one" THEN "ready" ELSE c.phase
             /\ o.card.pos = c.pos + 1
             /\ \A b \in Blocks : o.card.media[b] # c.media[b] => b = c.pos
  <2>1. /\ w \in Cards /\ w.kind = c.kind /\ w.noise = c.noise /\ w.pos = c.pos + 1
        /\ w.phase = IF c.phase = "take one" THEN "ready" ELSE c.phase
        /\ \A b \in Blocks : b # c.pos => w.media[b] = c.media[b]
    BY <1>3, <1>6
  <2>2. /\ o.card \in Cards /\ o.card.kind = w.kind /\ o.card.pos = w.pos
        /\ o.card.phase = w.phase /\ o.card.media = w.media
    <3>1. CASE o.card = Disturbed(w) /\ c.noise # 0
      BY <2>1, <3>1, DisturbedIs, ZenonT(60)
    <3> QED
      BY <1>6, <2>1, <3>1
  <2> QED
    BY <2>1, <2>2
<1>7. ASSUME c.phase \in {"take one", "take"}, c.pos # Sectors, o.accepted \in {Yes, No},
             NEW x \in {v, Spoilt},
             \/ o.card = Over(Written(c, x))
             \/ o.card = Disturbed(Over(Written(c, x))) /\ c.noise # 0
      PROVE  /\ o.card \in Cards /\ o.card.kind = c.kind /\ o.accepted \in BOOLEAN
             /\ o.card.phase = IF c.phase = "take one" THEN "ready" ELSE c.phase
             /\ o.card.pos = c.pos + 1
             /\ \A b \in Blocks : o.card.media[b] # c.media[b] => b = c.pos
  <2>1. PICK w : w = Over(Written(c, x))
    OBVIOUS
  <2>2. x \in Contents
    BY <1>2
  <2> QED
    <3>1. o.card = w \/ (o.card = Disturbed(w) /\ c.noise # 0)
      BY <1>7, <2>1
    <3>2. c.phase \in {"take one", "take"} /\ c.pos # Sectors
      BY <1>7
    <3>3. o.accepted \in BOOLEAN
      BY <1>7, YesOrNo
    <3> QED
      BY <1>6, <2>1, <2>2, <3>1, <3>2, <3>3
<1>8. ASSUME /\ c.phase \in {"take one", "take"} /\ c.pos # Sectors /\ o.accepted \in {Yes, No}
             /\ \E x \in {v, Spoilt} :
                   \/ o.card = Over(Written(c, x))
                   \/ o.card = Disturbed(Over(Written(c, x))) /\ c.noise # 0
      PROVE  /\ o.card \in Cards /\ o.card.kind = c.kind /\ o.accepted \in BOOLEAN
             /\ o.accepted => /\ c.phase \in {"take one", "take"}
                              /\ o.card.phase = IF c.phase = "take one" THEN "ready" ELSE c.phase
                              /\ o.card.pos = c.pos + 1
             /\ \A b \in Blocks : o.card.media[b] # c.media[b] =>
                   c.phase \in {"take one", "take"} /\ b = c.pos
  <2>1. PICK x \in {v, Spoilt} :
           \/ o.card = Over(Written(c, x))
           \/ o.card = Disturbed(Over(Written(c, x))) /\ c.noise # 0
    BY <1>8
  <2>2. /\ o.card \in Cards /\ o.card.kind = c.kind /\ o.accepted \in BOOLEAN
        /\ o.card.phase = IF c.phase = "take one" THEN "ready" ELSE c.phase
        /\ o.card.pos = c.pos + 1
        /\ \A b \in Blocks : o.card.media[b] # c.media[b] => b = c.pos
    BY <1>7, <1>8, <2>1
  <2> QED
    BY <1>8, <2>2
<1> QED
  BY <1>1, <1>4, <1>5, <1>8

LEMMA StoppedIs ==
    ASSUME NEW c \in Cards, NEW d \in Stopped(c)
    PROVE  d \in Cards /\ d.kind = c.kind /\ d.media = c.media
<1>1. d = Phased(c, "ready") \/ d = c \/ (d = Disturbed(c) /\ c.noise # 0)
  BY DEF Stopped, Phased
<1>2. "ready" \in Phases
  BY DEF Phases
<1>3. CASE d = Phased(c, "ready")
  BY <1>2, <1>3, PhasedIs
<1>4. CASE d = Disturbed(c) /\ c.noise # 0
  BY <1>4, DisturbedIs
<1> QED
  BY <1>1, <1>3, <1>4

------------------------------------------------------------------------------
(* Units and groups *)

LEMMA DivideIs ==
    ASSUME NEW a \in Int, NEW g \in Nat \ {0}
    PROVE  /\ a \div g \in Int /\ a % g \in 0 .. g - 1
           /\ a = g * (a \div g) + (a % g)
OBVIOUS

LEMMA Factor ==
    ASSUME NEW g \in Nat \ {0}, NEW q \in Int, NEW p \in Int, g * q < g * p + g
    PROVE  q <= p
<1> SUFFICES ASSUME q >= p + 1 PROVE FALSE
  OBVIOUS
<1>1. PICK k \in Nat : q = p + 1 + k
  <2>1. q - p - 1 \in Nat /\ q = p + 1 + (q - p - 1)
    OBVIOUS
  <2> QED
    BY <2>1
<1>2. g * q = g * p + g + g * k
  BY <1>1
<1>3. g * k >= 0
  OBVIOUS
<1>4. g * q \in Int /\ g * p \in Int /\ g * k \in Int
  OBVIOUS
<1> QED
  BY <1>2, <1>3, <1>4

LEMMA DivideProduct ==
    ASSUME NEW b \in Int, NEW g \in Nat \ {0}
    PROVE  (b * g) % g = 0 /\ (b * g) \div g = b
<1> DEFINE a == g * b
           q == a \div g
           r == a % g
<1>1. a \in Int /\ b * g = a
  OBVIOUS
<1>2. q \in Int /\ r \in 0 .. g - 1 /\ a = g * q + r
  BY <1>1, DivideIs
<1>3. g * b < g * q + g
  BY <1>1, <1>2
<1>4. g * q < g * b + g
  BY <1>1, <1>2
<1> HIDE DEF q, r
<1>5. b <= q
  BY <1>2, <1>3, Factor
<1>6. q <= b
  BY <1>2, <1>4, Factor
<1>7. q = b
  BY <1>2, <1>5, <1>6
<1>8. r = 0
  BY <1>1, <1>2, <1>7
<1> QED
  BY <1>1, <1>7, <1>8 DEF q, r

\* Whole groups: a block whose group is one of those of a range lies in the range.
LEMMA GroupsAre ==
    ASSUME NEW g \in Nat \ {0}, NEW first \in Nat, NEW count \in Nat, NEW b \in Nat,
           first % g = 0, count % g = 0,
           b \div g \in first \div g .. (first + count - 1) \div g
    PROVE  b \in first .. first + count - 1
<1> DEFINE f == first \div g
           n == count \div g
           q == b \div g
           z == (first + count - 1) \div g
<1>1. f \in Int /\ n \in Int /\ first = g * f /\ count = g * n
  BY DivideIs
<1>2. q \in Int /\ b = g * q + (b % g) /\ b % g \in 0 .. g - 1
  BY DivideIs
<1>3. /\ z \in Int /\ (first + count - 1) % g \in 0 .. g - 1
      /\ first + count - 1 = g * z + ((first + count - 1) % g)
  BY DivideIs
<1>4. f <= q /\ q <= z
  OBVIOUS
<1> HIDE DEF f, n, q, z
<1>5. g * f <= g * q
  BY <1>1, <1>2, <1>4
<1>6. first <= b
  BY <1>1, <1>2, <1>5
<1>7. g * z < g * (f + n)
  BY <1>1, <1>3
<1>8. z < f + n
  <2>1. z # f + n
    BY <1>1, <1>3, <1>7
  <2>2. z <= f + n
    <3>1. g * z < g * (f + n) + g /\ f + n \in Int
      BY <1>1, <1>3, <1>7
    <3> QED
      BY <1>3, <3>1, Factor
  <2> QED
    BY <1>1, <1>3, <2>1, <2>2
<1>9. q + 1 <= f + n
  BY <1>1, <1>2, <1>3, <1>4, <1>8
<1>10. g * (q + 1) <= g * (f + n)
  BY <1>1, <1>2, <1>9
<1>11. b < first + count
  BY <1>1, <1>2, <1>10
<1> QED
  BY <1>6, <1>11

------------------------------------------------------------------------------
(* Calls *)

Buffers == UNION {[1 .. n -> Contents] : n \in 0 .. MaxBlocks}

LEMMA BuffersAre ==
    \A b : b \in Buffers <=> b \in Seq(Contents) /\ Len(b) \in 0 .. MaxBlocks
<1>1. ASSUME NEW b \in Buffers PROVE b \in Seq(Contents) /\ Len(b) \in 0 .. MaxBlocks
  <2>1. PICK n \in 0 .. MaxBlocks : b \in [1 .. n -> Contents]
    BY DEF Buffers
  <2>2. b \in Seq(Contents)
    BY <2>1, SeqDef, CardAssumption
  <2>3. Len(b) = n
    BY <2>1, <2>2, LenProperties, CardAssumption
  <2> QED
    BY <2>2, <2>3
<1>2. ASSUME NEW b \in Seq(Contents), Len(b) \in 0 .. MaxBlocks PROVE b \in Buffers
  <2>1. b \in [1 .. Len(b) -> Contents]
    BY LenProperties
  <2> QED
    BY <1>2, <2>1 DEF Buffers
<1> QED
  BY <1>1, <1>2

LEMMA AppendIs ==
    ASSUME NEW b \in Buffers, Len(b) + 1 \in 0 .. MaxBlocks, NEW d \in Contents
    PROVE  /\ Append(b, d) \in Buffers /\ Len(Append(b, d)) = Len(b) + 1
           /\ Len(b) = 0 => Append(b, d) = <<d>>
<1>1. b \in Seq(Contents)
  BY BuffersAre
<1>2. Append(b, d) \in Seq(Contents) /\ Len(Append(b, d)) = Len(b) + 1
  BY <1>1, AppendProperties
<1>3. Len(b) = 0 => b = <<>>
  BY <1>1, EmptySeq
<1>4. Append(<<>>, d) = <<d>>
  OBVIOUS
<1> QED
  BY <1>2, <1>3, <1>4, BuffersAre

LEMMA CallsAre ==
    Calls = [op : {"none", "init", "read", "program", "trim"}, at : Stages,
             first : Blocks, count : 0 .. MaxBlocks, left : 0 .. MaxBlocks,
             buffer : Buffers, turns : Nat, status : Statuses]
BY DEF Calls, Buffers

LEMMA StagesAre ==
    /\ InitStages \subseteq Stages
    /\ "idle" \in InitStages /\ "if cond" \in InitStages /\ "crc on" \in InitStages
    /\ "ocr" \in InitStages /\ "op cond" \in InitStages /\ "ccs" \in InitStages
    /\ "crc off" \in InitStages /\ "csd" \in InitStages /\ "csd data" \in InitStages
    /\ "block length" \in InitStages
    /\ "read" \in Stages /\ "read data" \in Stages /\ "read stop" \in Stages
    /\ "pre-erase" \in Stages /\ "write" \in Stages /\ "write data" \in Stages
    /\ "write stop" \in Stages /\ "erase from" \in Stages /\ "erase to" \in Stages
    /\ "erase" \in Stages /\ "rest" \in Stages
BY DEF Stages, InitStages

\* The steps of a call.
Moved(k, stage)  == [k EXCEPT !.at = stage, !.turns = 0]
Marked(k, s)     == [k EXCEPT !.status = s]
Turned(k)        == [k EXCEPT !.turns = @ + 1]
Staged(k, stage) == [k EXCEPT !.at = stage]
Left(k, n)       == [k EXCEPT !.left = n]
Filled(k, d)     == [k EXCEPT !.buffer = Append(@, d), !.left = @ - 1]

\* Nothing but the place of a call has changed.
SameTask(k, l) == /\ l.op = k.op /\ l.first = k.first /\ l.count = k.count
                  /\ l.left = k.left /\ l.buffer = k.buffer

LEMMA MovedIs ==
    ASSUME NEW k \in Calls, NEW stage \in Stages
    PROVE  /\ Moved(k, stage) \in Calls /\ Moved(k, stage).at = stage
           /\ SameTask(k, Moved(k, stage))
BY CallsAre DEF Moved, SameTask

LEMMA TurnedIs ==
    ASSUME NEW k \in Calls
    PROVE  Turned(k) \in Calls /\ Turned(k).at = k.at /\ SameTask(k, Turned(k))
<1>1. PICK n \in Nat : n = k.turns + 1
  BY CallsAre
<1>2. Turned(k) = [k EXCEPT !.turns = n]
  BY <1>1 DEF Turned
<1> QED
  BY <1>2, CallsAre DEF SameTask

LEMMA MarkedIs ==
    ASSUME NEW k \in Calls, NEW s \in Statuses
    PROVE  /\ Marked(k, s) \in Calls /\ Marked(k, s).at = k.at /\ Marked(k, s).status = s
           /\ SameTask(k, Marked(k, s))
BY CallsAre DEF Marked, SameTask

LEMMA StagedIs ==
    ASSUME NEW k \in Calls, NEW stage \in Stages
    PROVE  /\ Staged(k, stage) \in Calls /\ Staged(k, stage).at = stage
           /\ Staged(k, stage).status = k.status
           /\ SameTask(k, Staged(k, stage))
BY CallsAre DEF Staged, SameTask

LEMMA LeftIs ==
    ASSUME NEW k \in Calls, NEW n \in 0 .. MaxBlocks
    PROVE  /\ Left(k, n) \in Calls /\ Left(k, n).at = k.at /\ Left(k, n).status = k.status
           /\ Left(k, n).op = k.op /\ Left(k, n).first = k.first
           /\ Left(k, n).count = k.count /\ Left(k, n).left = n
           /\ Left(k, n).buffer = k.buffer
BY CallsAre DEF Left

LEMMA FilledIs ==
    ASSUME NEW k \in Calls, NEW d \in Contents, k.left > 0, Len(k.buffer) + 1 \in 0 .. MaxBlocks
    PROVE  /\ Filled(k, d) \in Calls /\ Filled(k, d).at = k.at /\ Filled(k, d).status = k.status
           /\ Filled(k, d).op = k.op /\ Filled(k, d).first = k.first
           /\ Filled(k, d).count = k.count /\ Filled(k, d).left = k.left - 1
           /\ Filled(k, d).buffer = Append(k.buffer, d)
<1> DEFINE b == Append(k.buffer, d)
           n == k.left - 1
<1>1. k.buffer \in Buffers /\ k.left \in 0 .. MaxBlocks
  BY CallsAre
<1>2. b \in Buffers
  BY <1>1, AppendIs
<1>3. n \in 0 .. MaxBlocks
  BY <1>1, CardAssumption
<1>4. Filled(k, d) = [k EXCEPT !.buffer = b, !.left = n]
  BY CallsAre DEF Filled
<1> HIDE DEF b, n
<1>5. /\ Filled(k, d) \in Calls /\ Filled(k, d).at = k.at /\ Filled(k, d).status = k.status
      /\ Filled(k, d).op = k.op /\ Filled(k, d).first = k.first
      /\ Filled(k, d).count = k.count /\ Filled(k, d).left = n
      /\ Filled(k, d).buffer = b
  BY <1>2, <1>3, <1>4, CallsAre
<1> QED
  BY <1>5 DEF b, n

LEMMA NoCallIs ==
    /\ NoCall \in Calls /\ NoCall.op = "none" /\ NoCall.at = "rest" /\ NoCall.first = 0
    /\ NoCall.count = 0 /\ NoCall.left = 0 /\ NoCall.buffer = <<>>
<1>1. <<>> \in Buffers
  <2>1. <<>> \in Seq(Contents) /\ Len(<<>>) = 0
    BY EmptySeq
  <2>2. 0 \in 0 .. MaxBlocks
    BY CardAssumption
  <2> QED
    BY <2>1, <2>2, BuffersAre
<1>2. 0 \in Blocks /\ 0 \in 0 .. MaxBlocks
  BY CardAssumption DEF Blocks
<1>3. PICK e : e = <<>>
  OBVIOUS
<1>4. NoCall = [op |-> "none", at |-> "rest", first |-> 0, count |-> 0, left |-> 0,
                buffer |-> e, turns |-> 0, status |-> "ok"]
  BY <1>3 DEF NoCall
<1>5. /\ NoCall \in Calls /\ NoCall.op = "none" /\ NoCall.at = "rest" /\ NoCall.first = 0
      /\ NoCall.count = 0 /\ NoCall.left = 0 /\ NoCall.buffer = e
  <2>1. "rest" \in Stages /\ e \in Buffers /\ "ok" \in Statuses
    BY <1>1, <1>3, StagesAre DEF Statuses
  <2>2. NoCall \in Calls
    BY <1>2, <1>4, <2>1, CallsAre
  <2> QED
    BY <1>4, <2>2
<1> QED
  BY <1>3, <1>5

LEMMA ClosedIs ==
    ASSUME NEW k \in Calls
    PROVE  /\ Closed(k) \in Calls /\ Closed(k).at = "rest"
           /\ Closed(k).op = k.op /\ Closed(k).status = k.status
           /\ Closed(k).left = k.left /\ Closed(k).buffer = k.buffer
<1>1. PICK n \in Calls : n = NoCall
  BY NoCallIs
<1>2. Closed(k) = [n EXCEPT !.op = k.op, !.status = k.status, !.left = k.left,
                            !.buffer = k.buffer]
  BY <1>1 DEF Closed
<1>3. n.at = "rest"
  BY <1>1, NoCallIs
<1> QED
  BY <1>2, <1>3, CallsAre

LEMMA ReturnIs ==
    ASSUME call \in Calls, NEW s \in Statuses, Return(s)
    PROVE  /\ call' \in Calls /\ call'.at = "rest" /\ call'.op = call.op /\ call'.status = s
           /\ call'.left = call.left /\ call'.buffer = call.buffer
<1>1. call' = Closed(Marked(call, s))
  BY DEF Return, Marked
<1> QED
  BY <1>1, MarkedIs, ClosedIs DEF SameTask

LEMMA GotoIs ==
    ASSUME call \in Calls, NEW stage \in Stages, Goto(stage)
    PROVE  call' \in Calls /\ call'.at = stage /\ SameTask(call, call')
<1>1. call' = Moved(call, stage)
  BY DEF Goto, Moved
<1> QED
  BY <1>1, MovedIs

LEMMA BeginIs ==
    ASSUME NEW op \in {"init", "read", "program", "trim"}, NEW stage \in Stages,
           NEW first \in Blocks, NEW count \in 0 .. MaxBlocks, Begin(op, stage, first, count)
    PROVE  /\ call' \in Calls /\ call'.op = op /\ call'.at = stage /\ call'.first = first
           /\ call'.count = count /\ call'.left = count /\ Len(call'.buffer) = 0
<1>1. PICK n \in Calls : n = NoCall
  BY NoCallIs
<1>2. call' = [n EXCEPT !.op = op, !.at = stage, !.first = first, !.count = count,
                        !.left = count]
  BY <1>1 DEF Begin
<1>3. Len(n.buffer) = 0
  BY <1>1, NoCallIs
<1> QED
  BY <1>2, <1>3, CallsAre

LEMMA RefuseIs ==
    ASSUME NEW op \in {"read", "program", "trim"}, NEW s \in Statuses, Refuse(op, s)
    PROVE  call' \in Calls /\ call'.at = "rest"
<1>1. PICK n \in Calls : n = NoCall
  BY NoCallIs
<1>2. call' = [n EXCEPT !.op = op, !.status = s]
  BY <1>1 DEF Refuse
<1>3. n.at = "rest"
  BY <1>1, NoCallIs
<1> QED
  BY <1>2, <1>3, CallsAre

------------------------------------------------------------------------------
(* What every step must keep *)

ReadyStep == AnswersOk("init") => /\ card'.phase = "ready"
                                  /\ config'.enable_crc => config'.total_sectors = Sectors
                                  /\ config'.card_type \in {"V1", "V2", "V2HC"}
ExactStep == AnswersOk("read") /\ call.count = 1 /\ UnitsAgree /\ config.enable_crc
                => call'.buffer = <<card.media[call.first]>>
ClosedStep == AnswersOk("read") \/ (AnswersOk("program") /\ call.count = 1)
                => card'.phase = "ready"
InPlaceStep == UnitsAgree /\ config.erase_size = Granule(card) /\ card.phase # "gone"
                 => \A b \in Blocks : card'.media[b] # card.media[b]
                       => call.op \in {"program", "trim"} /\ b \in Requested
Good == DriverInv' /\ ReadyStep /\ ExactStep /\ ClosedStep /\ InPlaceStep

LEMMA InPlace == ASSUME card'.media = card.media PROVE InPlaceStep
BY DEF InPlaceStep

\* A step that gives no good answer has nothing to promise.
LEMMA NoAnswer ==
    ASSUME call'.at # "rest" \/ call.at = "rest" \/ call'.status # "ok"
    PROVE  ReadyStep /\ ExactStep /\ ClosedStep
BY DEF ReadyStep, ExactStep, ClosedStep, AnswersOk

LEMMA RestHolds ==
    ASSUME TypeOK', call'.at = "rest", ~selected'
    PROVE  DriverInv'
BY DEF DriverInv, ReleasedAtRest, InitInv, ReadInv, WriteInv, TrimInv, InitStages

\* A call that fails.
LEMMA Fails ==
    ASSUME TypeOK', call'.at = "rest", ~selected', call'.status # "ok" \/ call.at = "rest",
           card'.media = card.media
    PROVE  Good
BY RestHolds, NoAnswer, InPlace DEF Good

\* An init that goes on.
LEMMA InitGoes ==
    ASSUME TypeOK', call'.at \in InitStages, InitInv', card'.media = card.media
    PROVE  Good
<1>1. DriverInv'
  BY DEF DriverInv, ReleasedAtRest, ReadInv, WriteInv, TrimInv, InitStages
<1>2. call'.at # "rest"
  BY DEF InitStages
<1> QED
  BY <1>1, <1>2, NoAnswer, InPlace DEF Good

\* The block of an address is the same as long as the call, the unit and the card are.
LEMMA UnitsStay ==
    ASSUME card'.kind = card.kind, config'.card_type = config.card_type,
           call'.first = call.first, call'.count = call.count
    PROVE  /\ BlockAt(card, Address(call.first))' = BlockAt(card, Address(call.first))
           /\ BlockAt(card, Address(LastBlock))' = BlockAt(card, Address(LastBlock))
BY DEF BlockAt, Address, Type, LastBlock

LEMMA AddressIs ==
    ASSUME NEW b \in Int
    PROVE  /\ Address(b) \in Int
           /\ card \in Cards /\ UnitsAgree /\ b >= 0 => BlockAt(card, Address(b)) = b
           /\ card \in Cards /\ b < 0 => BlockAt(card, Address(b)) = -1
<1>1. BlockSize \in Nat \ {0}
  BY CardAssumption
<1>2. b * BlockSize \in Int /\ (b * BlockSize) % BlockSize = 0 /\ (b * BlockSize) \div BlockSize = b
  BY <1>1, DivideProduct
<1>3. (b >= 0 => b * BlockSize >= 0) /\ (b < 0 => b * BlockSize < 0)
  BY <1>1
<1>4. b % 1 = 0 /\ b \div 1 = b
  OBVIOUS
<1>5. PICK a : a = b * BlockSize
  OBVIOUS
<1>6. Address(b) = IF Type = "V2HC" THEN b ELSE a
  BY <1>5 DEF Address
<1> QED
  BY <1>1, <1>2, <1>3, <1>4, <1>5, <1>6 DEF BlockAt, UnitsAgree

------------------------------------------------------------------------------
(* The steps of init *)

\* The driver has sent cmd and has had the answer o.
Exchanged(cmd, arg, o) ==
    /\ o \in Cmd(cmd, arg) /\ card' = o.card
    /\ selected' = StaysSelected(cmd, CmdStatus(o.r1))

\* A command of a call: what is known of it whatever it is.
LEMMA CommandIs ==
    ASSUME TypeOK, NEW cmd, NEW arg \in Int, NEW o, Exchanged(cmd, arg, o)
    PROVE  /\ Effect(card, cmd, arg, o)
           /\ card' \in Cards /\ card'.kind = card.kind
           /\ cmd # "CMD38" => card'.media = card.media
           /\ selected' \in BOOLEAN
           /\ CmdStatus(o.r1) # "ok" => ~selected'
           /\ cmd \notin {"CMD9", "CMD17", "CMD18", "CMD24", "CMD25"} => ~selected'
           /\ CmdStatus(o.r1) \in Statuses
<1>1. Effect(card, cmd, arg, o)
  BY CmdEffect DEF TypeOK, Exchanged
<1>2. CmdStatus(o.r1) \in Statuses
  BY <1>1 DEF Effect, CmdStatus, Statuses
<1> QED
  BY <1>1, <1>2 DEF Effect, StaysSelected, Exchanged

LEMMA CardDoneIs ==
    ASSUME TypeOK, NEW status \in Statuses, NEW type \in CardTypes, CardDone(status, type)
    PROVE  /\ config' \in Configs /\ config'.enable_crc = config.enable_crc
           /\ config'.card_type = type
           /\ call' \in Calls /\ call'.op = call.op
           /\ IF status = "ok" THEN call'.at = "csd"
                               ELSE call'.at = "rest" /\ call'.status = status
<1>1. config' = [config EXCEPT !.is_initialized = (status = "ok"), !.card_type = type]
  BY DEF CardDone
<1>2. PICK x \in BOOLEAN : x = (status = "ok")
  OBVIOUS
<1>3. config' = [config EXCEPT !.is_initialized = x, !.card_type = type]
  BY <1>1, <1>2
<1>4. /\ config' \in Configs /\ config'.enable_crc = config.enable_crc
      /\ config'.card_type = type
  BY <1>3 DEF TypeOK, Configs
<1>5. CASE status = "ok"
  <2>1. Goto("csd") /\ "csd" \in Stages /\ call \in Calls
    BY <1>5, StagesAre DEF CardDone, TypeOK
  <2> QED
    BY <1>4, <1>5, <2>1, GotoIs DEF SameTask
<1>6. CASE status # "ok"
  <2>1. Return(status) /\ call \in Calls
    BY <1>6 DEF CardDone, TypeOK
  <2> QED
    BY <1>4, <1>6, <2>1, ReturnIs
<1> QED
  BY <1>5, <1>6

\* Sets the type of the card.
Typed(c, type) == [c EXCEPT !.card_type = type]

LEMMA TypedIs ==
    ASSUME NEW c \in Configs, NEW type \in CardTypes
    PROVE  /\ Typed(c, type) \in Configs /\ Typed(c, type).card_type = type
           /\ Typed(c, type).enable_crc = c.enable_crc
BY DEF Typed, Configs

LEMMA TypeIs == ASSUME TypeOK PROVE Type \in CardTypes
BY DEF TypeOK, Type, Configs

\* Where a step of init leads to.
InitEnds == call'.at = "rest" /\ call'.status # "ok"
InitStays ==
    /\ call'.at \in InitStages \ {"block length"}
    /\ call'.at = "ccs" => Type' = "V2"
    /\ call'.at \in {"crc off", "csd data"} => Type' \in {"V1", "V2", "V2HC"}
    /\ call'.at = "csd" =>
          Type' \in {"V1", "V2", "V2HC"} \/ card'.phase \in {"gone", "power", "idle"}

LEMMA InitEarly ==
    ASSUME call'.at \in {"idle", "if cond", "crc on", "ocr", "op cond"}
    PROVE  InitStays
BY DEF InitStays, InitStages

InitCommands == {"CMD0", "CMD8", "CMD9", "CMD16", "CMD58", "CMD59", "ACMD41"}

\* A command that is not about data: init ends here with an error, or goes on.
LEMMA InitCommand ==
    ASSUME DriverInv, call.at \in InitStages, initialized' \in BOOLEAN, NEW cmd,
           cmd \in InitCommands, NEW arg \in Int, NEW o, Exchanged(cmd, arg, o),
           config' \in Configs, call' \in Calls, call'.op = call.op,
           InitEnds \/ InitStays,
           InitEnds => cmd # "CMD9" \/ CmdStatus(o.r1) # "ok"
    PROVE  Good
<1>1. TypeOK /\ call.op = "init"
  BY DEF DriverInv, InitInv
<1>2. /\ card' \in Cards /\ card'.media = card.media /\ selected' \in BOOLEAN
      /\ cmd # "CMD9" \/ CmdStatus(o.r1) # "ok" => ~selected'
  BY <1>1, CommandIs DEF InitCommands
<1>3. TypeOK'
  BY <1>2 DEF TypeOK
<1>4. CASE InitEnds
  <2>1. call'.at = "rest" /\ call'.status # "ok" /\ ~selected'
    BY <1>2, <1>4 DEF InitEnds
  <2> QED
    BY <1>2, <1>3, <2>1, Fails
<1>5. CASE InitStays
  <2>1. InitInv' /\ call'.at \in InitStages
    BY <1>1, <1>5 DEF InitInv, InitStages, InitStays
  <2> QED
    BY <1>2, <1>3, <2>1, InitGoes
<1> QED
  BY <1>4, <1>5

LEMMA GoIdleGood == ASSUME DriverInv, GoIdle PROVE Good
<1>1. PICK cmd, arg, o :
         /\ cmd = "CMD0" /\ arg = 0 /\ Exchanged(cmd, arg, o)
         /\ \/ Goto("if cond") /\ UNCHANGED config
            \/ CardDone("NO_DEVICE", Type)
            \/ call' = Turned(call) /\ UNCHANGED config
  BY DEF GoIdle, Command, Exchanged, Turned
<1>2. /\ call.at = "idle" /\ call.at \in InitStages /\ TypeOK
      /\ initialized' \in BOOLEAN /\ call \in Calls /\ config \in Configs
  BY StagesAre DEF GoIdle, DriverInv, TypeOK
<1>3. /\ config' \in Configs /\ call' \in Calls /\ call'.op = call.op
      /\ \/ call'.at = "rest" /\ call'.status # "ok"
         \/ call'.at = "idle" \/ call'.at = "if cond"
  <2>1. CASE Goto("if cond") /\ UNCHANGED config
    BY <1>2, <2>1, GotoIs, StagesAre DEF SameTask
  <2>2. CASE CardDone("NO_DEVICE", Type)
    <3>1. "NO_DEVICE" \in Statuses /\ Type \in CardTypes
      BY <1>2, TypeIs DEF Statuses
    <3> QED
      BY <1>2, <2>2, <3>1, CardDoneIs
  <2>3. CASE call' = Turned(call) /\ UNCHANGED config
    BY <1>2, <2>3, TurnedIs DEF SameTask
  <2> QED
    BY <1>1, <2>1, <2>2, <2>3
<1>4. InitEnds \/ InitStays
  BY <1>3, InitEarly DEF InitEnds
<1>5. arg \in Int /\ cmd # "CMD9" /\ cmd \in InitCommands
  <2>1. cmd = "CMD0" /\ arg = 0
    BY <1>1
  <2> QED
    BY <2>1 DEF InitCommands
<1> QED
  BY <1>1, <1>2, <1>3, <1>4, <1>5, InitCommand

LEMMA SendIfCondGood == ASSUME DriverInv, SendIfCond PROVE Good
<1> DEFINE next == IF config.enable_crc THEN "crc on" ELSE "ocr"
<1>1. PICK cmd, arg, o :
         /\ cmd = "CMD8" /\ arg = 0 /\ Exchanged(cmd, arg, o)
         /\ \/ CardDone("UNUSABLE", "UNKNOWN")
            \/ /\ config' = Typed(config, IF CmdStatus(o.r1) = "ok" THEN "V2" ELSE "UNKNOWN")
               /\ Goto(next)
            \/ CmdStatus(o.r1) # "ok" /\ CardDone(CmdStatus(o.r1), Type)
  BY DEF SendIfCond, Command, Exchanged, Typed
<1>2. /\ call.at = "if cond" /\ call.at \in InitStages /\ TypeOK
      /\ initialized' \in BOOLEAN /\ call \in Calls /\ config \in Configs
  BY StagesAre DEF SendIfCond, DriverInv, TypeOK
<1>3. CmdStatus(o.r1) \in Statuses
  <2>1. arg = 0 /\ Exchanged(cmd, arg, o)
    BY <1>1
  <2>2. arg \in Int
    BY <2>1
  <2> QED
    BY <1>2, <2>1, <2>2, CommandIs
<1>4. /\ config' \in Configs /\ call' \in Calls /\ call'.op = call.op
      /\ \/ call'.at = "rest" /\ call'.status # "ok"
         \/ call'.at = "crc on" \/ call'.at = "ocr"
  <2>1. CASE CardDone("UNUSABLE", "UNKNOWN")
    <3>1. "UNUSABLE" \in Statuses /\ "UNKNOWN" \in CardTypes
      BY DEF Statuses, CardTypes
    <3> QED
      BY <1>2, <2>1, <3>1, CardDoneIs
  <2>2. CASE /\ config' = Typed(config, IF CmdStatus(o.r1) = "ok" THEN "V2" ELSE "UNKNOWN")
             /\ Goto(next)
    <3>1. PICK type \in CardTypes : config' = Typed(config, type)
      BY <2>2 DEF CardTypes
    <3>2. next \in Stages /\ next \in {"crc on", "ocr"}
      BY StagesAre
    <3> HIDE DEF next
    <3>3. call' \in Calls /\ call'.at = next /\ call'.op = call.op
      BY <1>2, <2>2, <3>2, GotoIs DEF SameTask
    <3> QED
      BY <1>2, <3>1, <3>2, <3>3, TypedIs
  <2>3. CASE CmdStatus(o.r1) # "ok" /\ CardDone(CmdStatus(o.r1), Type)
    BY <1>2, <1>3, <2>3, CardDoneIs, TypeIs
  <2> QED
    BY <1>1, <2>1, <2>2, <2>3
<1>5. InitEnds \/ InitStays
  BY <1>4, InitEarly DEF InitEnds
<1>6. arg \in Int /\ cmd # "CMD9" /\ cmd \in InitCommands
  <2>1. cmd = "CMD8" /\ arg = 0
    BY <1>1
  <2> QED
    BY <2>1 DEF InitCommands
<1> QED
  BY <1>1, <1>2, <1>4, <1>5, <1>6, InitCommand

LEMMA CrcOnGood == ASSUME DriverInv, CrcOn PROVE Good
<1>1. PICK cmd, arg, o :
         /\ cmd = "CMD59" /\ arg = 1 /\ Exchanged(cmd, arg, o)
         /\ Goto("ocr")
  BY DEF CrcOn, Command, Exchanged
<1>2. /\ call.at \in InitStages /\ TypeOK /\ initialized' \in BOOLEAN
      /\ call \in Calls /\ config' \in Configs
  BY StagesAre DEF CrcOn, DriverInv, TypeOK
<1>3. call' \in Calls /\ call'.at = "ocr" /\ call'.op = call.op
  BY <1>1, <1>2, GotoIs, StagesAre DEF SameTask
<1>4. InitEnds \/ InitStays
  BY <1>3, InitEarly DEF InitEnds
<1>5. arg \in Int /\ cmd # "CMD9" /\ cmd \in InitCommands
  <2>1. cmd = "CMD59" /\ arg = 1
    BY <1>1
  <2> QED
    BY <2>1 DEF InitCommands
<1> QED
  BY <1>1, <1>2, <1>3, <1>4, <1>5, InitCommand

LEMMA ReadOcrGood == ASSUME DriverInv, ReadOcr PROVE Good
<1>1. PICK cmd, arg, o :
         /\ cmd = "CMD58" /\ arg = 0 /\ Exchanged(cmd, arg, o)
         /\ \/ CmdStatus(o.r1) # "ok" /\ CardDone(CmdStatus(o.r1), Type)
            \/ CardDone("UNUSABLE", "UNKNOWN")
            \/ Goto("op cond") /\ UNCHANGED config
  BY DEF ReadOcr, Command, Exchanged
<1>2. /\ call.at \in InitStages /\ TypeOK
      /\ initialized' \in BOOLEAN /\ call \in Calls /\ config \in Configs
  BY StagesAre DEF ReadOcr, DriverInv, TypeOK
<1>3. CmdStatus(o.r1) \in Statuses
  <2>1. arg = 0 /\ Exchanged(cmd, arg, o)
    BY <1>1
  <2>2. arg \in Int
    BY <2>1
  <2> QED
    BY <1>2, <2>1, <2>2, CommandIs
<1>4. /\ config' \in Configs /\ call' \in Calls /\ call'.op = call.op
      /\ \/ call'.at = "rest" /\ call'.status # "ok"
         \/ call'.at = "op cond"
  <2>1. CASE CmdStatus(o.r1) # "ok" /\ CardDone(CmdStatus(o.r1), Type)
    BY <1>2, <1>3, <2>1, CardDoneIs, TypeIs
  <2>2. CASE CardDone("UNUSABLE", "UNKNOWN")
    <3>1. "UNUSABLE" \in Statuses /\ "UNKNOWN" \in CardTypes
      BY DEF Statuses, CardTypes
    <3> QED
      BY <1>2, <2>2, <3>1, CardDoneIs
  <2>3. CASE Goto("op cond") /\ UNCHANGED config
    BY <1>2, <2>3, GotoIs, StagesAre DEF SameTask
  <2> QED
    BY <1>1, <2>1, <2>2, <2>3
<1>5. InitEnds \/ InitStays
  BY <1>4, InitEarly DEF InitEnds
<1>6. arg \in Int /\ cmd # "CMD9" /\ cmd \in InitCommands
  <2>1. cmd = "CMD58" /\ arg = 0
    BY <1>1
  <2> QED
    BY <2>1 DEF InitCommands
<1> QED
  BY <1>1, <1>2, <1>4, <1>5, <1>6, InitCommand

\* At the timeout a busy card is an idle one, and CMD9 will find that out.
LEMMA SendOpCondGood == ASSUME DriverInv, SendOpCond PROVE Good
<1> DEFINE hcs == IF Type = "V2" THEN 1 ELSE 0
           next == IF Type = "V2" THEN "ccs" ELSE "crc off"
           type == IF Type = "V2" THEN "V2" ELSE "V1"
<1>1. PICK cmd, arg, o :
         /\ cmd = "ACMD41" /\ arg = hcs /\ Exchanged(cmd, arg, o)
         /\ \/ call' = Turned(call) /\ UNCHANGED config
            \/ /\ o.r1 = "none" \/ o.card.phase = "idle" \/ CmdStatus(o.r1) # "ok"
               /\ CardDone(CmdStatus(o.r1), "UNKNOWN")
            \/ Goto(next) /\ config' = Typed(config, type)
  BY DEF SendOpCond, Command, Exchanged, Turned, Typed, Type
<1>2. /\ call.at = "op cond" /\ call.at \in InitStages /\ TypeOK
      /\ initialized' \in BOOLEAN /\ call \in Calls /\ config \in Configs
  BY StagesAre DEF SendOpCond, DriverInv, TypeOK
<1>3. arg \in Int /\ cmd # "CMD9" /\ cmd \in InitCommands
  <2>1. cmd = "ACMD41" /\ arg = hcs
    BY <1>1
  <2> QED
    BY <2>1 DEF InitCommands
<1> HIDE DEF hcs
<1>4. CmdStatus(o.r1) \in Statuses
  BY <1>1, <1>2, <1>3, CommandIs
<1>5. CASE call' = Turned(call) /\ UNCHANGED config
  <2>1. call' \in Calls /\ call'.at = "op cond" /\ call'.op = call.op /\ config' \in Configs
    BY <1>2, <1>5, TurnedIs DEF SameTask
  <2>2. InitStays
    BY <2>1, InitEarly
  <2> QED
    BY <1>1, <1>2, <1>3, <2>1, <2>2, InitCommand
<1>6. CASE /\ o.r1 = "none" \/ o.card.phase = "idle" \/ CmdStatus(o.r1) # "ok"
           /\ CardDone(CmdStatus(o.r1), "UNKNOWN")
  <2>1. "UNKNOWN" \in CardTypes
    BY DEF CardTypes
  <2>2. /\ call' \in Calls /\ call'.op = call.op /\ config' \in Configs
        /\ IF CmdStatus(o.r1) = "ok" THEN call'.at = "csd"
           ELSE call'.at = "rest" /\ call'.status = CmdStatus(o.r1)
    BY <1>2, <1>4, <1>6, <2>1, CardDoneIs
  <2>3. CmdStatus(o.r1) = "ok" => card'.phase = "idle"
    BY <1>1, <1>6 DEF CmdStatus, Exchanged
  <2>4. InitEnds \/ InitStays
    BY <2>2, <2>3 DEF InitEnds, InitStays, InitStages
  <2> QED
    BY <1>1, <1>2, <1>3, <2>2, <2>4, InitCommand
<1>7. CASE Goto(next) /\ config' = Typed(config, type)
  <2>1. next \in Stages /\ next \in {"ccs", "crc off"} /\ type \in CardTypes
    BY StagesAre DEF CardTypes
  <2>2. type \in {"V1", "V2", "V2HC"} /\ (next = "ccs" => type = "V2")
    OBVIOUS
  <2> HIDE DEF next, type
  <2>3. /\ call' \in Calls /\ call'.op = call.op /\ call'.at = next /\ config' \in Configs
        /\ Type' = type
    BY <1>2, <1>7, <2>1, GotoIs, TypedIs DEF SameTask, Type
  <2>4. InitStays
    BY <2>1, <2>2, <2>3 DEF InitStays, InitStages
  <2> QED
    BY <1>1, <1>2, <1>3, <2>3, <2>4, InitCommand
<1> QED
  BY <1>1, <1>5, <1>6, <1>7

LEMMA ReadCcsGood == ASSUME DriverInv, ReadCcs PROVE Good
<1>1. PICK cmd, arg, o :
         /\ cmd = "CMD58" /\ arg = 0 /\ Exchanged(cmd, arg, o)
         /\ Goto("crc off")
         /\ \E type \in {"V2HC", config.card_type} : config' = Typed(config, type)
  BY DEF ReadCcs, Command, Exchanged, Typed
<1>2. /\ call.at = "ccs" /\ call.at \in InitStages /\ TypeOK /\ Type = "V2"
      /\ initialized' \in BOOLEAN /\ call \in Calls /\ config \in Configs
  BY StagesAre DEF ReadCcs, DriverInv, TypeOK, InitInv
<1>3. PICK type \in {"V2", "V2HC"} : config' = Typed(config, type)
  BY <1>1, <1>2 DEF Type
<1>4. type \in CardTypes
  BY DEF CardTypes
<1>5. config' \in Configs /\ Type' = type
  BY <1>2, <1>3, <1>4, TypedIs DEF Type
<1>6. call' \in Calls /\ call'.at = "crc off" /\ call'.op = call.op
  BY <1>1, <1>2, GotoIs, StagesAre DEF SameTask
<1>7. InitStays
  BY <1>3, <1>5, <1>6 DEF InitStays, InitStages
<1>8. arg \in Int /\ cmd # "CMD9" /\ cmd \in InitCommands
  <2>1. cmd = "CMD58" /\ arg = 0
    BY <1>1
  <2> QED
    BY <2>1 DEF InitCommands
<1> QED
  BY <1>1, <1>2, <1>5, <1>6, <1>7, <1>8, InitCommand

LEMMA CrcOffGood == ASSUME DriverInv, CrcOff PROVE Good
<1>1. PICK cmd, arg, o :
         /\ cmd = "CMD59" /\ arg = 0 /\ Exchanged(cmd, arg, o)
         /\ CardDone(CmdStatus(o.r1), Type)
  BY DEF CrcOff, Command, Exchanged
<1>2. /\ call.at \in InitStages /\ TypeOK /\ Type \in {"V1", "V2", "V2HC"}
      /\ initialized' \in BOOLEAN
  BY StagesAre DEF CrcOff, DriverInv, TypeOK, InitInv
<1>3. CmdStatus(o.r1) \in Statuses
  <2>1. arg = 0 /\ Exchanged(cmd, arg, o)
    BY <1>1
  <2>2. arg \in Int
    BY <2>1
  <2> QED
    BY <1>2, <2>1, <2>2, CommandIs
<1>4. /\ config' \in Configs /\ call' \in Calls /\ call'.op = call.op /\ Type' = Type
      /\ IF CmdStatus(o.r1) = "ok" THEN call'.at = "csd"
         ELSE call'.at = "rest" /\ call'.status = CmdStatus(o.r1)
  <2>1. PICK t \in CardTypes : t = Type
    BY <1>2, TypeIs
  <2>2. CardDone(CmdStatus(o.r1), t)
    BY <1>1, <2>1
  <2> QED
    BY <1>2, <1>3, <2>1, <2>2, CardDoneIs DEF Type
<1>5. InitEnds \/ InitStays
  BY <1>2, <1>4 DEF InitEnds, InitStays, InitStages
<1>6. arg \in Int /\ cmd # "CMD9" /\ cmd \in InitCommands
  <2>1. cmd = "CMD59" /\ arg = 0
    BY <1>1
  <2> QED
    BY <2>1 DEF InitCommands
<1> QED
  BY <1>1, <1>2, <1>4, <1>5, <1>6, InitCommand

\* CMD9 is answered by a card that is ready.
LEMMA SendCsdGood == ASSUME DriverInv, SendCsd PROVE Good
<1>1. PICK cmd, arg, o :
         /\ cmd = "CMD9" /\ arg = 0 /\ Exchanged(cmd, arg, o)
         /\ IF CmdStatus(o.r1) = "ok" THEN Goto("csd data") /\ UNCHANGED config
            ELSE /\ Return("DEVICE_ERROR")
                 /\ config' = [config EXCEPT !.total_sectors = 0]
  BY DEF SendCsd, Command, Exchanged
<1>2. /\ call.at = "csd" /\ call.at \in InitStages /\ TypeOK
      /\ Type \in {"V1", "V2", "V2HC"} \/ card.phase \in {"gone", "power", "idle"}
      /\ initialized' \in BOOLEAN /\ call \in Calls /\ config \in Configs
  BY StagesAre DEF SendCsd, DriverInv, TypeOK, InitInv
<1>3. arg \in Int /\ cmd = "CMD9" /\ cmd \in InitCommands
  <2>1. cmd = "CMD9" /\ arg = 0
    BY <1>1
  <2> QED
    BY <2>1 DEF InitCommands
<1>4. Effect(card, cmd, arg, o)
  BY <1>1, <1>2, <1>3, CommandIs
<1>5. CASE CmdStatus(o.r1) = "ok"
  <2>1. card.phase = "ready"
    BY <1>3, <1>5, <1>4 DEF Effect, Ok
  <2>2. Type' \in {"V1", "V2", "V2HC"} /\ config' \in Configs
    BY <1>1, <1>2, <1>5, <2>1 DEF Type
  <2>3. call' \in Calls /\ call'.at = "csd data" /\ call'.op = call.op
    BY <1>1, <1>2, <1>5, GotoIs, StagesAre DEF SameTask
  <2>4. InitStays /\ ~InitEnds
    BY <2>2, <2>3 DEF InitStays, InitEnds, InitStages
  <2> QED
    BY <1>1, <1>2, <1>3, <2>2, <2>3, <2>4, InitCommand
<1>6. CASE CmdStatus(o.r1) # "ok"
  <2>1. config' \in Configs
    BY <1>1, <1>2, <1>6 DEF Configs
  <2>2. "DEVICE_ERROR" \in Statuses
    BY DEF Statuses
  <2>3. call' \in Calls /\ call'.at = "rest" /\ call'.op = call.op /\ call'.status # "ok"
    BY <1>1, <1>2, <1>6, <2>2, ReturnIs
  <2>4. InitEnds
    BY <2>3 DEF InitEnds
  <2> QED
    BY <1>1, <1>2, <1>3, <1>6, <2>1, <2>3, <2>4, InitCommand
<1> QED
  BY <1>5, <1>6

LEMMA CsdDataGood == ASSUME DriverInv, CsdData PROVE Good
<1>1. /\ call.at = "csd data" /\ call.at \in InitStages /\ TypeOK /\ call.op = "init"
      /\ Type \in {"V1", "V2", "V2HC"} /\ selected' = FALSE /\ initialized' \in BOOLEAN
      /\ call \in Calls /\ config \in Configs /\ card \in Cards
  BY StagesAre DEF CsdData, DriverInv, TypeOK, InitInv
<1>2. /\ Disturbed(card).media = card.media \/ card.noise = 0
      /\ Disturbed(card) \in Cards \/ card.noise = 0
  BY <1>1, DisturbedIs
<1>3. card.noise > 0 => card.noise # 0
  <2>1. card.noise \in 0 .. MaxNoise
    BY <1>1 DEF Cards
  <2> QED
    BY <2>1, CardAssumption
<1>4. CASE /\ Goto("block length") /\ UNCHANGED card
           /\ config' = [config EXCEPT !.total_sectors = Sectors, !.erase_size = Granule(card)]
  <2>1. Granule(card) \in Nat /\ Sectors \in Nat
    BY CardAssumption DEF Granule
  <2>2. /\ config' \in Configs /\ config'.total_sectors = Sectors
        /\ config'.card_type = config.card_type
    BY <1>1, <1>4, <2>1 DEF Configs
  <2>3. call' \in Calls /\ call'.at = "block length" /\ call'.op = "init"
    BY <1>1, <1>4, GotoIs, StagesAre DEF SameTask
  <2>4. TypeOK'
    BY <1>1, <1>4, <2>2, <2>3 DEF TypeOK
  <2>5. InitInv' /\ call'.at \in InitStages
    BY <1>1, <2>2, <2>3, StagesAre DEF InitInv, Type
  <2> QED
    BY <1>4, <2>4, <2>5, InitGoes
<1>5. CASE /\ card.noise > 0 \/ card.phase # "ready"
           /\ card' = IF card.phase # "ready" THEN card ELSE Disturbed(card)
           /\ config' = [config EXCEPT !.total_sectors = 0]
           /\ Return("DEVICE_ERROR")
  <2>1. config' \in Configs
    BY <1>1, <1>5 DEF Configs
  <2>2. "DEVICE_ERROR" \in Statuses
    BY DEF Statuses
  <2>3. call' \in Calls /\ call'.at = "rest" /\ call'.status # "ok"
    BY <1>1, <1>5, <2>2, ReturnIs
  <2>4. card' \in Cards /\ card'.media = card.media
    BY <1>1, <1>2, <1>3, <1>5
  <2>5. TypeOK' /\ ~selected'
    BY <1>1, <2>1, <2>3, <2>4 DEF TypeOK
  <2> QED
    BY <2>3, <2>4, <2>5, Fails
<1>6. CASE /\ card.noise > 0 /\ ~config.enable_crc
           /\ card' = Disturbed(card) /\ Goto("block length")
           /\ config' = [config EXCEPT !.total_sectors = Sectors + 1, !.erase_size = 1]
  <2>1. Sectors + 1 \in Nat
    BY CardAssumption
  <2>2. /\ config' \in Configs /\ config'.enable_crc = config.enable_crc
        /\ config'.card_type = config.card_type
    BY <1>1, <1>6, <2>1 DEF Configs
  <2>3. call' \in Calls /\ call'.at = "block length" /\ call'.op = "init"
    BY <1>1, <1>6, GotoIs, StagesAre DEF SameTask
  <2>4. card' \in Cards /\ card'.media = card.media
    BY <1>1, <1>2, <1>3, <1>6
  <2>5. TypeOK'
    BY <1>1, <2>2, <2>3, <2>4 DEF TypeOK
  <2>6. InitInv' /\ call'.at \in InitStages
    BY <1>1, <1>6, <2>2, <2>3, StagesAre DEF InitInv, Type
  <2> QED
    BY <2>4, <2>5, <2>6, InitGoes
<1> QED
  BY <1>4, <1>5, <1>6 DEF CsdData

\* CMD16 too is only accepted by a card that is ready.
LEMMA BlockLengthGood == ASSUME DriverInv, BlockLength PROVE Good
<1>1. PICK cmd, arg, o :
         /\ cmd = "CMD16" /\ arg = BlockSize /\ Exchanged(cmd, arg, o)
         /\ \/ Return("DEVICE_ERROR") /\ UNCHANGED <<config, initialized>>
            \/ /\ config' = [config EXCEPT !.fast = FALSE]
               /\ Return("EINVAL") /\ UNCHANGED initialized
            \/ /\ CmdStatus(o.r1) = "ok"
               /\ Return("ok") /\ initialized' = TRUE /\ UNCHANGED config
  BY DEF BlockLength, Command, Exchanged
<1>2. /\ call.at = "block length" /\ TypeOK /\ call.op = "init"
      /\ Type \in {"V1", "V2", "V2HC"}
      /\ config.enable_crc => config.total_sectors = Sectors
      /\ call \in Calls /\ config \in Configs /\ initialized \in BOOLEAN
  BY DEF BlockLength, DriverInv, TypeOK, InitInv, InitStages
<1>3. arg \in Int /\ cmd = "CMD16"
  BY <1>1, CardAssumption
<1>4. /\ Effect(card, cmd, arg, o) /\ card' \in Cards
      /\ card'.media = card.media /\ selected' \in BOOLEAN /\ ~selected'
  BY <1>1, <1>2, <1>3, CommandIs
<1>5. {"DEVICE_ERROR", "EINVAL", "ok"} \subseteq Statuses
  BY DEF Statuses
<1>6. CASE Return("DEVICE_ERROR") /\ UNCHANGED <<config, initialized>>
  <2>1. call' \in Calls /\ call'.at = "rest" /\ call'.status # "ok"
    BY <1>2, <1>5, <1>6, ReturnIs
  <2>2. TypeOK'
    BY <1>2, <1>4, <1>6, <2>1 DEF TypeOK
  <2> QED
    BY <1>4, <2>1, <2>2, Fails
<1>7. CASE /\ config' = [config EXCEPT !.fast = FALSE]
           /\ Return("EINVAL") /\ UNCHANGED initialized
  <2>1. call' \in Calls /\ call'.at = "rest" /\ call'.status # "ok"
    BY <1>2, <1>5, <1>7, ReturnIs
  <2>2. config' \in Configs
    BY <1>2, <1>7 DEF Configs
  <2>3. TypeOK'
    BY <1>2, <1>4, <1>7, <2>1, <2>2 DEF TypeOK
  <2> QED
    BY <1>4, <2>1, <2>3, Fails
<1>8. CASE /\ CmdStatus(o.r1) = "ok"
           /\ Return("ok") /\ initialized' = TRUE /\ UNCHANGED config
  <2>1. call' \in Calls /\ call'.at = "rest"
    BY <1>2, <1>5, <1>8, ReturnIs
  <2>2. TypeOK'
    BY <1>2, <1>4, <1>8, <2>1 DEF TypeOK
  <2>3. DriverInv' /\ InPlaceStep
    BY <1>4, <2>1, <2>2, RestHolds, InPlace
  <2>4. card'.phase = "ready"
    BY <1>1, <1>4, <1>8 DEF Effect, Ok, Exchanged
  <2>5. ReadyStep
    BY <1>2, <1>8, <2>4 DEF ReadyStep, Type
  <2>6. ExactStep /\ ClosedStep
    BY <1>2 DEF ExactStep, ClosedStep, AnswersOk
  <2> QED
    BY <2>3, <2>5, <2>6 DEF Good
<1> QED
  BY <1>1, <1>6, <1>7, <1>8

------------------------------------------------------------------------------
(* The steps of read *)

\* A read that goes on.
LEMMA ReadGoes ==
    ASSUME TypeOK', call'.at \in {"read", "read data", "read stop"}, ReadInv',
           card'.media = card.media
    PROVE  Good
<1>1. DriverInv'
  BY DEF DriverInv, ReleasedAtRest, InitInv, WriteInv, TrimInv, InitStages
<1> QED
  BY <1>1, NoAnswer, InPlace DEF Good

\* A command of read, program or trim changes nothing of the device.
LEMMA CommandTyped ==
    ASSUME TypeOK, NEW cmd, NEW arg \in Int, NEW o, Exchanged(cmd, arg, o),
           UNCHANGED <<config, initialized>>, call' \in Calls
    PROVE  TypeOK'
<1>1. card' \in Cards /\ selected' \in BOOLEAN
  BY CommandIs
<1> QED
  BY <1>1 DEF TypeOK

LEMMA CommandFails ==
    ASSUME TypeOK, NEW cmd, cmd # "CMD38", NEW arg \in Int, NEW o, Exchanged(cmd, arg, o),
           UNCHANGED <<config, initialized>>,
           CmdStatus(o.r1) # "ok", Return(CmdStatus(o.r1))
    PROVE  Good
<1>1. /\ card'.media = card.media /\ ~selected' /\ CmdStatus(o.r1) \in Statuses
  BY CommandIs
<1>2. call \in Calls
  BY DEF TypeOK
<1>3. call' \in Calls /\ call'.at = "rest" /\ call'.status # "ok"
  BY <1>1, <1>2, ReturnIs
<1>4. TypeOK'
  BY <1>3, CommandTyped
<1> QED
  BY <1>1, <1>3, <1>4, Fails

\* A call that is refused.
LEMMA RefuseGood ==
    ASSUME DriverInv, call.at = "rest", NEW op \in {"read", "program", "trim"},
           NEW s \in {"PARAMETER", "NO_INIT"}, Refuse(op, s),
           UNCHANGED <<config, initialized, selected, card>>
    PROVE  Good
<1>1. s \in Statuses
  BY DEF Statuses
<1>2. call' \in Calls /\ call'.at = "rest"
  BY <1>1, RefuseIs
<1>3. TypeOK' /\ ~selected'
  BY <1>2 DEF DriverInv, TypeOK, ReleasedAtRest
<1> QED
  BY <1>2, <1>3, Fails

LEMMA StartTyped ==
    ASSUME DriverInv, UNCHANGED <<config, initialized, selected, card>>, call' \in Calls
    PROVE  TypeOK'
BY DEF DriverInv, TypeOK

LEMMA StartInitGood == ASSUME DriverInv, StartInit PROVE Good
<1>1. 0 \in Blocks /\ 0 \in 0 .. MaxBlocks
  BY CardAssumption DEF Blocks
<1>2. Begin("init", "idle", 0, 0) /\ UNCHANGED <<config, initialized, selected, card>>
  BY DEF StartInit
<1>3. call' \in Calls /\ call'.op = "init" /\ call'.at = "idle"
  BY <1>1, <1>2, BeginIs, StagesAre
<1>4. TypeOK'
  BY <1>2, <1>3, StartTyped
<1>5. InitInv' /\ call'.at \in InitStages
  BY <1>3, StagesAre DEF InitInv
<1> QED
  BY <1>2, <1>4, <1>5, InitGoes

LEMMA StartReadGood ==
    ASSUME DriverInv, NEW first \in Blocks, NEW count \in 1 .. MaxBlocks,
           StartRead(first, count)
    PROVE  Good
<1>1. /\ call.at = "rest" /\ UNCHANGED <<config, initialized, selected, card>>
      /\ Begin("read", "read", first, count) \/ Refuse("read", "PARAMETER")
  BY DEF StartRead
<1>2. CASE Begin("read", "read", first, count)
  <2>1. count \in 0 .. MaxBlocks /\ count \in Int /\ count >= 1
    BY CardAssumption
  <2>2. /\ call' \in Calls /\ call'.op = "read" /\ call'.at = "read"
        /\ call'.count = count /\ call'.left = count /\ Len(call'.buffer) = 0
    BY <1>2, <2>1, BeginIs, StagesAre
  <2>3. TypeOK'
    BY <1>1, <2>2, StartTyped
  <2>4. ReadInv'
    BY <2>1, <2>2 DEF ReadInv
  <2> QED
    BY <1>1, <2>2, <2>3, <2>4, ReadGoes
<1>3. CASE Refuse("read", "PARAMETER")
  BY <1>1, <1>3, RefuseGood
<1> QED
  BY <1>1, <1>2, <1>3

\* What is known of the numbers of a call.
LEMMA NumbersAre ==
    ASSUME TypeOK
    PROVE  /\ call.first \in Int /\ call.first >= 0 /\ call.first \in Blocks
           /\ call.count \in 0 .. MaxBlocks /\ call.left \in 0 .. MaxBlocks
           /\ call.count \in Int /\ call.left \in Int /\ MaxBlocks \in Nat
           /\ LastBlock \in Int /\ call.buffer \in Buffers /\ Len(call.buffer) \in Int
           /\ call.status \in Statuses /\ call \in Calls
<1>1. /\ call.first \in Blocks /\ call.count \in 0 .. MaxBlocks /\ call.left \in 0 .. MaxBlocks
      /\ call.buffer \in Buffers /\ call.status \in Statuses /\ call \in Calls
  BY CallsAre DEF TypeOK
<1>2. call.first \in Int /\ call.first >= 0 /\ MaxBlocks \in Nat
  BY <1>1, CardAssumption DEF Blocks
<1>3. call.count \in Int /\ call.left \in Int
  BY <1>1
<1>4. Len(call.buffer) \in Int
  BY <1>1, BuffersAre
<1> QED
  BY <1>1, <1>2, <1>3, <1>4 DEF LastBlock

\* An accepted CMD17 leaves a card that sends the block it was asked for and no other.
LEMMA ReadCommandGood == ASSUME DriverInv, ReadCommand PROVE Good
<1>1. PICK cmd, arg, o :
         /\ cmd = (IF call.count > 1 THEN "CMD18" ELSE "CMD17")
         /\ arg = Address(call.first) /\ Exchanged(cmd, arg, o)
         /\ IF CmdStatus(o.r1) = "ok" THEN Goto("read data") ELSE Return(CmdStatus(o.r1))
  BY DEF ReadCommand, Command, Exchanged
<1>2. /\ call.at = "read" /\ TypeOK /\ ReadInv /\ UNCHANGED <<config, initialized>>
  BY DEF ReadCommand, DriverInv
<1>3. arg \in Int /\ cmd \in {"CMD17", "CMD18"} /\ cmd # "CMD38"
  <2>1. call.first \in Int
    BY <1>2, NumbersAre
  <2>2. Address(call.first) \in Int
    BY <2>1, AddressIs
  <2> QED
    BY <1>1, <2>2
<1>4. CASE CmdStatus(o.r1) = "ok"
  <2>1. call \in Calls /\ "read data" \in Stages /\ Goto("read data")
    BY <1>1, <1>2, <1>4, StagesAre DEF TypeOK
  <2>2. call' \in Calls /\ call'.at = "read data" /\ SameTask(call, call')
    BY <2>1, GotoIs
  <2>3. Exchanged(cmd, arg, o)
    BY <1>1
  <2>4. /\ Effect(card, cmd, arg, o) /\ card'.kind = card.kind /\ card'.media = card.media
    BY <1>2, <1>3, <2>3, CommandIs
  <2>5. TypeOK'
    BY <1>2, <1>3, <2>2, <2>3, CommandTyped
  <2>6. BlockAt(card, Address(call.first))' = BlockAt(card, arg)
    <3>1. BlockAt(card, Address(call.first))' = BlockAt(card, Address(call.first))
      BY <1>2, <2>2, <2>4, UnitsStay DEF SameTask
    <3> QED
      BY <1>1, <3>1
  <2>7. call.count = 1 =>
           card'.phase = "send one" /\ card'.pos = BlockAt(card, Address(call.first))'
    <3>1. call.count = 1 => cmd = "CMD17"
      <4>1. cmd = IF call.count > 1 THEN "CMD18" ELSE "CMD17"
        BY <1>1
      <4> QED
        BY <4>1
    <3> QED
      BY <1>4, <2>3, <2>4, <2>6, <3>1 DEF Effect, Ok, Exchanged
  <2>8. call.op = "read" /\ Len(call.buffer) = call.count - call.left
          /\ call.left \in 1 .. call.count
    BY <1>2 DEF ReadInv
  <2>9. ReadInv'
    BY <2>2, <2>7, <2>8 DEF ReadInv, SameTask
  <2> QED
    BY <2>2, <2>4, <2>5, <2>9, ReadGoes
<1>5. CASE CmdStatus(o.r1) # "ok"
  <2>1. Exchanged(cmd, arg, o) /\ Return(CmdStatus(o.r1))
    BY <1>1, <1>5
  <2> QED
    BY <1>2, <1>3, <1>5, <2>1, CommandFails
<1> QED
  BY <1>4, <1>5

\* A call that came to the end of its loop: with or without a CMD12.
LEMMA EndOfReadIs ==
    ASSUME NEW k \in Calls
    PROVE  /\ EndOfRead(k) \in Calls
           /\ EndOfRead(k).op = k.op /\ EndOfRead(k).left = k.left
           /\ EndOfRead(k).buffer = k.buffer /\ EndOfRead(k).status = k.status
           /\ IF k.count > 1 THEN EndOfRead(k).at = "read stop" /\ EndOfRead(k).count = k.count
                             ELSE EndOfRead(k).at = "rest"
<1>1. CASE k.count > 1
  <2>1. EndOfRead(k) = Staged(k, "read stop") /\ "read stop" \in Stages
    BY <1>1, StagesAre DEF EndOfRead, Staged
  <2>2. PICK e : e = Staged(k, "read stop")
    OBVIOUS
  <2>3. e \in Calls /\ e.at = "read stop" /\ e.status = k.status /\ SameTask(k, e)
    BY <2>1, <2>2, StagedIs
  <2>4. EndOfRead(k) = e
    BY <2>1, <2>2
  <2> QED
    BY <1>1, <2>3, <2>4 DEF SameTask
<1>2. CASE ~(k.count > 1)
  <2>1. EndOfRead(k) = Closed(k)
    BY <1>2 DEF EndOfRead
  <2> QED
    BY <1>2, <2>1, ClosedIs
<1> QED
  BY <1>1, <1>2

\* A block that does not come ends the loop; the last one that does ends it too, and if it
\* is the only one it is the block the card has.
LEMMA ReadDataGood == ASSUME DriverInv, ReadData PROVE Good
<1>1. PICK o \in Sending(card) :
         /\ card' = o.card
         /\ \/ /\ ~Received(o) /\ selected' = FALSE
               /\ call' = EndOfRead(Marked(call, "NO_RESPONSE"))
            \/ /\ Received(o) /\ selected' = (call.left > 1)
               /\ call' = IF Filled(call, o.data).left = 0 THEN EndOfRead(Filled(call, o.data))
                          ELSE Filled(call, o.data)
  BY DEF ReadData, Marked, Filled
<1>2. /\ call.at = "read data" /\ TypeOK /\ UNCHANGED <<config, initialized>>
      /\ call.op = "read" /\ Len(call.buffer) = call.count - call.left
      /\ call.left \in 1 .. call.count
      /\ call.count = 1 => \/ card.phase \in {"gone", "power"}
                           \/ /\ card.phase = "send one"
                              /\ card.pos = BlockAt(card, Address(call.first))
      /\ card \in Cards
  BY DEF ReadData, DriverInv, ReadInv, TypeOK
<1>3. /\ o.card \in Cards /\ o.card.media = card.media /\ o.data \in Contents
      /\ o.token => /\ card.phase \in {"send one", "send"}
                    /\ o.data = Spoilt \/ o.data = card.media[card.pos]
                    /\ card.phase = "send one" => o.card.phase = "ready"
  BY <1>2, SendingIs
<1>4. card' \in Cards /\ card'.media = card.media
  BY <1>1, <1>3
<1>5. CASE /\ ~Received(o) /\ selected' = FALSE
           /\ call' = EndOfRead(Marked(call, "NO_RESPONSE"))
  <2> DEFINE k == Marked(call, "NO_RESPONSE")
  <2>1. "NO_RESPONSE" \in Statuses /\ call \in Calls
    BY <1>2 DEF Statuses, TypeOK
  <2>2. k \in Calls /\ k.status = "NO_RESPONSE" /\ SameTask(call, k)
    BY <2>1, MarkedIs
  <2>3. call' = EndOfRead(k)
    BY <1>5
  <2> HIDE DEF k
  <2>4. /\ call' \in Calls /\ call'.op = k.op /\ call'.left = k.left
        /\ call'.buffer = k.buffer /\ call'.status = "NO_RESPONSE"
        /\ IF k.count > 1 THEN call'.at = "read stop" /\ call'.count = k.count
                          ELSE call'.at = "rest"
    BY <2>2, <2>3, EndOfReadIs
  <2>5. TypeOK' /\ ~selected'
    BY <1>2, <1>4, <1>5, <2>4 DEF TypeOK
  <2>6. CASE call'.at = "rest"
    BY <1>4, <2>4, <2>5, <2>6, Fails
  <2>7. CASE k.count > 1
    <3>1. call'.at = "read stop" /\ call'.count > 1 /\ call'.op = "read"
            /\ Len(call'.buffer) = call'.count - call'.left
      BY <1>2, <2>2, <2>4, <2>7 DEF SameTask
    <3>2. ReadInv'
      BY <3>1 DEF ReadInv
    <3> QED
      BY <1>4, <2>5, <3>1, <3>2, ReadGoes
  <2> QED
    BY <2>4, <2>6, <2>7
<1>6. CASE /\ Received(o) /\ selected' = (call.left > 1)
           /\ call' = IF Filled(call, o.data).left = 0 THEN EndOfRead(Filled(call, o.data))
                      ELSE Filled(call, o.data)
  <2> DEFINE k == Filled(call, o.data)
  <2>1. /\ call.count \in Int /\ call.left \in Int /\ call.count <= MaxBlocks
        /\ call.left > 0 /\ Len(call.buffer) + 1 \in 0 .. MaxBlocks
        /\ call \in Calls /\ call.buffer \in Buffers /\ call.left <= call.count
    <3>1. /\ call.count \in 0 .. MaxBlocks /\ call.count \in Int /\ call.left \in Int
          /\ MaxBlocks \in Nat /\ call \in Calls /\ call.buffer \in Buffers
      BY <1>2, NumbersAre
    <3>2. Len(call.buffer) = call.count - call.left /\ call.left \in 1 .. call.count
      BY <1>2
    <3> QED
      BY <3>1, <3>2
  <2>2. /\ k \in Calls /\ k.at = "read data" /\ k.op = "read" /\ k.first = call.first
        /\ k.count = call.count /\ k.left = call.left - 1
        /\ k.buffer = Append(call.buffer, o.data)
    BY <1>2, <1>3, <2>1, FilledIs
  <2>3. /\ Len(k.buffer) = Len(call.buffer) + 1
        /\ Len(call.buffer) = 0 => k.buffer = <<o.data>>
    BY <1>3, <2>1, <2>2, AppendIs
  <2>4. call' = IF k.left = 0 THEN EndOfRead(k) ELSE k
    BY <1>6
  <2> HIDE DEF k
  <2>5. call.left \in Int /\ call.left > 0 /\ call.count \in Int /\ call.left <= call.count
    BY <2>1
  <2>6. k.left = call.left - 1 /\ k.count = call.count
    BY <2>2
  <2>7. Len(k.buffer) = k.count - k.left
    <3>1. Len(call.buffer) = call.count - call.left
      BY <1>2
    <3>2. Len(k.buffer) = Len(call.buffer) + 1
      BY <2>3
    <3> QED
      BY <2>5, <2>6, <3>1, <3>2
  <2>8. selected' \in BOOLEAN /\ (k.left = 0 => ~selected')
    <3>1. selected' = (call.left > 1)
      BY <1>6
    <3>2. k.left = 0 => ~(call.left > 1)
      BY <2>5, <2>6
    <3>3. selected' = ((call.left > 1) = TRUE)
      BY <3>1
    <3>4. selected' \in BOOLEAN
      BY <3>3
    <3>5. selected' => call.left > 1
      BY <3>1
    <3> QED
      BY <3>2, <3>4, <3>5
  <2>9. CASE k.left # 0
    <3>1. call' = k
      BY <2>4, <2>9
    <3>2. TypeOK'
      BY <1>2, <1>4, <2>2, <2>8, <3>1 DEF TypeOK
    <3>3. k.left \in 1 .. k.count /\ k.count # 1
      BY <2>9, <2>5, <2>6
    <3>4. ReadInv'
      BY <2>2, <2>7, <3>1, <3>3 DEF ReadInv
    <3> QED
      BY <1>4, <2>2, <3>1, <3>2, <3>4, ReadGoes
  <2>10. CASE k.left = 0
    <3>1. /\ call' \in Calls /\ call'.op = "read" /\ call'.left = k.left
          /\ call'.buffer = k.buffer
          /\ IF k.count > 1 THEN call'.at = "read stop" /\ call'.count = k.count
                            ELSE call'.at = "rest"
      BY <2>2, <2>4, <2>10, EndOfReadIs
    <3>2. TypeOK' /\ ~selected'
      BY <1>2, <1>4, <2>8, <2>10, <3>1 DEF TypeOK
    <3>3. CASE k.count > 1
      <4>1. /\ call'.at = "read stop" /\ call'.count > 1
            /\ Len(call'.buffer) = call'.count - call'.left
        BY <2>7, <3>1, <3>3
      <4>2. ReadInv'
        BY <3>1, <4>1 DEF ReadInv
      <4> QED
        BY <1>4, <3>2, <4>1, <4>2, ReadGoes
    <3>4. CASE ~(k.count > 1)
      <4>1. call.count = 1 /\ Len(call.buffer) = 0 /\ call'.at = "rest"
        <5>1. Len(call.buffer) = call.count - call.left
          BY <1>2
        <5>2. call.count = 1 /\ call.left = 1
          BY <2>10, <2>5, <2>6, <3>4
        <5>3. call'.at = "rest"
          BY <3>1, <3>4
        <5>4. Len(call.buffer) = 0
          BY <5>1, <5>2
        <5> QED
          BY <5>2, <5>3, <5>4
      <4>2. o.token /\ (config.enable_crc => o.data # Spoilt)
        BY <1>6 DEF Received
      <4>3. /\ card.phase = "send one" /\ card.pos = BlockAt(card, Address(call.first))
            /\ card'.phase = "ready"
            /\ o.data = Spoilt \/ o.data = card.media[card.pos]
        BY <1>1, <1>2, <1>3, <4>1, <4>2
      <4>4. UnitsAgree => card.pos = call.first
        <5>1. call.first \in Int /\ call.first >= 0
          BY <1>2, NumbersAre
        <5> QED
          BY <1>2, <4>3, <5>1, AddressIs
      <4>5. ExactStep
        BY <2>3, <3>1, <4>1, <4>2, <4>3, <4>4 DEF ExactStep
      <4>6. ReadyStep /\ ClosedStep
        BY <1>2, <4>3 DEF ReadyStep, ClosedStep, AnswersOk
      <4> QED
        BY <1>4, <3>2, <4>1, <4>5, <4>6, RestHolds, InPlace DEF Good
    <3> QED
      BY <3>3, <3>4
  <2> QED
    BY <2>9, <2>10
<1> QED
  BY <1>1, <1>5, <1>6

\* An accepted CMD12 leaves no transfer open.
LEMMA ReadStopGood == ASSUME DriverInv, ReadStop PROVE Good
<1>1. PICK cmd, arg, o :
         cmd = "CMD12" /\ arg = 0 /\ Exchanged(cmd, arg, o) /\ Return(CmdStatus(o.r1))
  BY DEF ReadStop, Command, Exchanged
<1>2. /\ call.at = "read stop" /\ TypeOK /\ call.op = "read" /\ call.count > 1
      /\ UNCHANGED <<config, initialized>> /\ call \in Calls
  BY DEF ReadStop, DriverInv, ReadInv, TypeOK
<1>3. arg \in Int /\ cmd = "CMD12"
  BY <1>1
<1>4. /\ Effect(card, cmd, arg, o) /\ card'.media = card.media /\ ~selected'
      /\ CmdStatus(o.r1) \in Statuses
  BY <1>1, <1>2, <1>3, CommandIs
<1>5. call' \in Calls /\ call'.at = "rest" /\ call'.status = CmdStatus(o.r1)
  BY <1>1, <1>2, <1>4, ReturnIs
<1>6. TypeOK'
  BY <1>1, <1>2, <1>3, <1>5, CommandTyped
<1>7. CmdStatus(o.r1) = "ok" => card'.phase = "ready"
  BY <1>1, <1>3, <1>4 DEF Effect, Ok, Exchanged
<1>8. ReadyStep /\ ExactStep /\ ClosedStep
  <2>1. call.count # 1
    <3>1. call.count \in Int
      BY <1>2, NumbersAre
    <3>2. call.count > 1
      BY <1>2
    <3> QED
      BY <3>1, <3>2
  <2> QED
    BY <1>2, <1>5, <1>7, <2>1 DEF ReadyStep, ExactStep, ClosedStep, AnswersOk
<1> QED
  BY <1>4, <1>5, <1>6, <1>8, RestHolds, InPlace DEF Good

------------------------------------------------------------------------------
(* The steps of program *)

\* A program that goes on.
LEMMA WriteGoes ==
    ASSUME TypeOK', call'.at \in {"pre-erase", "write", "write data", "write stop"}, WriteInv',
           InPlaceStep
    PROVE  Good
<1>1. DriverInv'
  BY DEF DriverInv, ReleasedAtRest, InitInv, ReadInv, TrimInv, InitStages
<1> QED
  BY <1>1, NoAnswer DEF Good

LEMMA StartProgramGood ==
    ASSUME DriverInv, NEW first \in Blocks, NEW count \in 1 .. MaxBlocks,
           StartProgram(first, count)
    PROVE  Good
<1>1. /\ call.at = "rest" /\ UNCHANGED <<config, initialized, selected, card>>
      /\ \/ \E stage \in {"write", "pre-erase"} : Begin("program", stage, first, count)
         \/ \E s \in {"PARAMETER", "NO_INIT"} : Refuse("program", s)
  <2>1. PICK stage \in {"write", "pre-erase"} :
           stage = IF count = 1 THEN "write" ELSE "pre-erase"
    OBVIOUS
  <2>2. CASE ~Fits(first, count)
    BY <2>2 DEF StartProgram
  <2>3. CASE Fits(first, count) /\ ~config.is_initialized
    BY <2>3 DEF StartProgram
  <2>4. CASE Fits(first, count) /\ config.is_initialized
    BY <2>1, <2>4 DEF StartProgram
  <2> QED
    BY <2>2, <2>3, <2>4
<1>2. ASSUME NEW stage \in {"write", "pre-erase"}, Begin("program", stage, first, count)
      PROVE  Good
  <2>1. count \in 0 .. MaxBlocks /\ count \in Int /\ count >= 1
    BY CardAssumption
  <2>2. /\ call' \in Calls /\ call'.op = "program" /\ call'.at = stage
        /\ call'.count = count /\ call'.left = count
    BY <1>2, <2>1, BeginIs, StagesAre
  <2>3. TypeOK'
    BY <1>1, <2>2, StartTyped
  <2>4. /\ call'.at \in {"write", "pre-erase"} /\ call'.op = "program"
        /\ call'.left \in 1 .. call'.count /\ call'.left = call'.count
    BY <2>1, <2>2
  <2>5. WriteInv'
    BY <2>4 DEF WriteInv
  <2> QED
    BY <1>1, <2>3, <2>4, <2>5, WriteGoes, InPlace
<1>3. ASSUME NEW s \in {"PARAMETER", "NO_INIT"}, Refuse("program", s) PROVE Good
  BY <1>1, <1>3, RefuseGood
<1> QED
  BY <1>1, <1>2, <1>3

LEMMA PreEraseGood == ASSUME DriverInv, PreErase PROVE Good
<1>1. PICK cmd, arg, o :
         cmd = "ACMD23" /\ arg = call.count /\ Exchanged(cmd, arg, o) /\ Goto("write")
  BY DEF PreErase, Command, Exchanged
<1>2. /\ call.at = "pre-erase" /\ TypeOK /\ UNCHANGED <<config, initialized>>
      /\ call.op = "program" /\ call.left \in 1 .. call.count /\ call.left = call.count
  BY DEF PreErase, DriverInv, WriteInv
<1>3. arg \in Int /\ cmd = "ACMD23" /\ call \in Calls
  BY <1>1, <1>2, NumbersAre
<1>4. card'.media = card.media
  BY <1>1, <1>2, <1>3, CommandIs
<1>5. call' \in Calls /\ call'.at = "write" /\ SameTask(call, call')
  BY <1>1, <1>3, GotoIs, StagesAre
<1>6. TypeOK'
  BY <1>1, <1>2, <1>3, <1>5, CommandTyped
<1>7. WriteInv'
  BY <1>2, <1>5 DEF WriteInv, SameTask
<1> QED
  BY <1>4, <1>5, <1>6, <1>7, WriteGoes, InPlace

\* An accepted CMD24 or CMD25 leaves a card that takes the block it was asked to.
LEMMA WriteCommandGood == ASSUME DriverInv, WriteCommand PROVE Good
<1>1. PICK cmd, arg, o :
         /\ cmd = (IF call.count = 1 THEN "CMD24" ELSE "CMD25")
         /\ arg = Address(call.first) /\ Exchanged(cmd, arg, o)
         /\ IF CmdStatus(o.r1) = "ok" THEN Goto("write data") ELSE Return(CmdStatus(o.r1))
  BY DEF WriteCommand, Command, Exchanged
<1>2. /\ call.at = "write" /\ TypeOK /\ WriteInv /\ UNCHANGED <<config, initialized>>
  BY DEF WriteCommand, DriverInv
<1>3. arg \in Int /\ cmd \in {"CMD24", "CMD25"} /\ cmd # "CMD38"
  <2>1. call.first \in Int
    BY <1>2, NumbersAre
  <2>2. Address(call.first) \in Int
    BY <2>1, AddressIs
  <2> QED
    BY <1>1, <2>2
<1>4. CASE CmdStatus(o.r1) = "ok"
  <2>1. call \in Calls /\ "write data" \in Stages /\ Goto("write data")
    BY <1>1, <1>2, <1>4, StagesAre DEF TypeOK
  <2>2. call' \in Calls /\ call'.at = "write data" /\ SameTask(call, call')
    BY <2>1, GotoIs
  <2>3. Exchanged(cmd, arg, o)
    BY <1>1
  <2>4. /\ Effect(card, cmd, arg, o) /\ card'.kind = card.kind /\ card'.media = card.media
        /\ card' \in Cards
    BY <1>2, <1>3, <2>3, CommandIs
  <2>5. TypeOK'
    BY <1>2, <1>3, <2>2, <2>3, CommandTyped
  <2>6. BlockAt(card, Address(call.first))' = BlockAt(card, arg)
    <3>1. BlockAt(card, Address(call.first))' = BlockAt(card, Address(call.first))
      BY <1>2, <2>2, <2>4, UnitsStay DEF SameTask
    <3> QED
      BY <1>1, <3>1
  <2>7. card'.phase = IF call.count = 1 THEN "take one" ELSE "take"
    <3>1. cmd = IF call.count = 1 THEN "CMD24" ELSE "CMD25"
      BY <1>1
    <3>2. o.card.phase = IF cmd = "CMD24" THEN "take one" ELSE "take"
      BY <1>3, <1>4, <2>4 DEF Effect, Ok
    <3> QED
      BY <2>3, <3>1, <3>2 DEF Exchanged
  <2>8. call.op = "program" /\ call.left \in 1 .. call.count /\ call.left = call.count
    BY <1>2 DEF WriteInv
  <2>9. card'.pos = BlockAt(card, Address(call.first))' /\ card'.pos \in Int
    <3>1. o.card.pos = BlockAt(card, arg)
      BY <1>3, <1>4, <2>4 DEF Effect, Ok
    <3>2. card'.pos \in 0 .. Sectors
      BY <2>4 DEF Cards
    <3>3. card'.pos \in Int
      BY <3>2
    <3> QED
      BY <2>3, <2>6, <3>1, <3>3 DEF Exchanged
  <2>10. /\ call'.op = call.op /\ call'.left = call.left /\ call'.count = call.count
    BY <2>2 DEF SameTask
  <2>11. card'.pos = BlockAt(card, Address(call.first))' + call'.count - call'.left
    <3>1. call.count \in Int
      BY <1>2, NumbersAre
    <3> HIDE DEF SameTask
    <3> QED
      BY <2>8, <2>9, <2>10, <3>1
  <2>12. WriteInv'
    BY <2>2, <2>7, <2>8, <2>10, <2>11 DEF WriteInv
  <2> QED
    BY <2>2, <2>4, <2>5, <2>12, WriteGoes, InPlace
<1>5. CASE CmdStatus(o.r1) # "ok"
  <2>1. Exchanged(cmd, arg, o) /\ Return(CmdStatus(o.r1))
    BY <1>1, <1>5
  <2> QED
    BY <1>2, <1>3, <1>5, <2>1, CommandFails
<1> QED
  BY <1>4, <1>5

LEMMA BlockAtInt ==
    ASSUME NEW c, NEW b \in Int
    PROVE  BlockAt(c, b) \in Int
<1>1. BlockSize \in Nat \ {0}
  BY CardAssumption
<1>2. PICK u \in Nat \ {0} : u = IF c.kind = "HC" THEN 1 ELSE BlockSize
  BY <1>1
<1>3. b \div u \in Int
  OBVIOUS
<1>4. BlockAt(c, b) = IF b >= 0 /\ b % u = 0 THEN b \div u ELSE -1
  BY <1>2 DEF BlockAt
<1> QED
  BY <1>3, <1>4

\* Block i of the call goes to the block first + i - 1 of the card, or nowhere.
LEMMA WriteDataGood == ASSUME DriverInv, WriteData PROVE Good
<1>1. PICK v, o :
         /\ v = call.count - call.left + 1 /\ o \in Taking(card, v) /\ card' = o.card
         /\ selected' = (call.count > 1)
         /\ LET k == Left(call, IF o.accepted THEN call.left - 1 ELSE call.left)
            IN  call' = CASE call.count = 1 ->
                               Closed(Marked(k, IF o.accepted THEN "ok" ELSE "WRITE"))
                          [] call.count > 1 /\ o.accepted /\ k.left > 0 -> k
                          [] OTHER -> Staged(k, "write stop")
  BY DEF WriteData, Left, Marked, Staged
<1>2. /\ call.at = "write data" /\ TypeOK /\ UNCHANGED <<config, initialized>>
      /\ call.op = "program" /\ call.left \in 1 .. call.count /\ card \in Cards
      /\ \/ card.phase \in {"gone", "power"}
         \/ /\ card.phase = IF call.count = 1 THEN "take one" ELSE "take"
            /\ card.pos = BlockAt(card, Address(call.first)) + call.count - call.left
  BY DEF WriteData, DriverInv, WriteInv, TypeOK
<1>3. /\ call.count \in Int /\ call.left \in Int /\ MaxBlocks \in Nat /\ call.first \in Int
      /\ call.first >= 0 /\ call \in Calls /\ call.count <= MaxBlocks
      /\ call.left >= 1 /\ call.left <= call.count
  <2>1. /\ call.count \in 0 .. MaxBlocks /\ call.count \in Int /\ call.left \in Int
        /\ MaxBlocks \in Nat /\ call.first \in Int /\ call.first >= 0 /\ call \in Calls
    BY <1>2, NumbersAre
  <2>2. call.left \in 1 .. call.count
    BY <1>2
  <2> QED
    BY <2>1, <2>2
<1>4. v \in Contents
  <2>1. v = call.count - call.left + 1
    BY <1>1
  <2> QED
    BY <1>3, <2>1 DEF Contents
<1>5. /\ o.card \in Cards /\ o.card.kind = card.kind /\ o.accepted \in BOOLEAN
      /\ o.accepted => /\ card.phase \in {"take one", "take"}
                       /\ o.card.phase = IF card.phase = "take one" THEN "ready" ELSE card.phase
                       /\ o.card.pos = card.pos + 1
      /\ \A b \in Blocks : o.card.media[b] # card.media[b] =>
            card.phase \in {"take one", "take"} /\ b = card.pos
  BY <1>1, <1>2, <1>4, TakingIs
<1>6. card' = o.card
  BY <1>1
<1>7. InPlaceStep
  <2>1. ASSUME UnitsAgree, NEW b \in Blocks, card'.media[b] # card.media[b]
        PROVE  call.op \in {"program", "trim"} /\ b \in Requested
    <3>1. card.phase \in {"take one", "take"} /\ b = card.pos
      BY <1>5, <1>6, <2>1
    <3>2. card.pos = BlockAt(card, Address(call.first)) + call.count - call.left
      BY <1>2, <3>1
    <3>3. BlockAt(card, Address(call.first)) = call.first
      BY <1>2, <1>3, <2>1, AddressIs
    <3>4. b \in Requested
      <4>1. /\ call.count \in Int /\ call.left \in Int /\ call.first \in Int
            /\ call.left >= 1 /\ call.left <= call.count
        BY <1>3
      <4>2. b = call.first + call.count - call.left
        BY <3>1, <3>2, <3>3
      <4>3. b \in call.first .. call.first + call.count - 1
        BY <4>1, <4>2
      <4> QED
        BY <4>3 DEF Requested
    <3> QED
      BY <1>2, <3>4
  <2> QED
    BY <2>1 DEF InPlaceStep
<1>8. PICK n \in 0 .. MaxBlocks : n = IF o.accepted THEN call.left - 1 ELSE call.left
  <2>1. call.left - 1 \in 0 .. MaxBlocks /\ call.left \in 0 .. MaxBlocks
    BY <1>3
  <2> QED
    BY <2>1
<1> DEFINE k == Left(call, n)
<1>9. /\ k \in Calls /\ k.at = "write data" /\ k.op = "program" /\ k.first = call.first
      /\ k.count = call.count /\ k.left = n
  BY <1>2, <1>3, LeftIs
<1>10. /\ call.count = 1 => call' = Closed(Marked(k, IF o.accepted THEN "ok" ELSE "WRITE"))
       /\ call.count > 1 /\ o.accepted /\ k.left > 0 => call' = k
       /\ call.count # 1 /\ ~(call.count > 1 /\ o.accepted /\ k.left > 0) =>
             call' = Staged(k, "write stop")
  <2>1. call.count = 1 => ~(call.count > 1)
    OBVIOUS
  <2> QED
    BY <1>1, <1>8, <2>1
<1> HIDE DEF k
<1>11. selected' \in BOOLEAN /\ (call.count = 1 => ~selected')
  <2>1. selected' = (call.count > 1)
    BY <1>1
  <2>2. selected' = ((call.count > 1) = TRUE)
    BY <2>1
  <2>3. selected' \in BOOLEAN
    BY <2>2
  <2>4. selected' => call.count > 1
    BY <2>1
  <2>5. call.count = 1 => ~(call.count > 1)
    OBVIOUS
  <2> QED
    BY <2>3, <2>4, <2>5
<1>12. CASE call.count = 1
  <2>1. PICK s \in {"ok", "WRITE"} : s = IF o.accepted THEN "ok" ELSE "WRITE"
    OBVIOUS
  <2>2. s \in Statuses
    BY DEF Statuses
  <2>3. PICK j : j = Marked(k, s)
    OBVIOUS
  <2>4. j \in Calls /\ j.status = s
    BY <1>9, <2>2, <2>3, MarkedIs
  <2>5. call' = Closed(j)
    BY <1>10, <1>12, <2>1, <2>3
  <2>6. call' \in Calls /\ call'.at = "rest" /\ call'.status = s
    BY <2>4, <2>5, ClosedIs
  <2>7. TypeOK' /\ ~selected'
    BY <1>2, <1>5, <1>6, <1>11, <1>12, <2>6 DEF TypeOK
  <2>8. s = "ok" => card'.phase = "ready"
    <3>1. s = "ok" => o.accepted
      BY <2>1
    <3>2. o.accepted => card.phase = "take one"
      BY <1>2, <1>5, <1>12
    <3> QED
      BY <1>5, <1>6, <3>1, <3>2
  <2>9. ReadyStep /\ ExactStep /\ ClosedStep
    BY <1>2, <2>6, <2>8 DEF ReadyStep, ExactStep, ClosedStep, AnswersOk
  <2> QED
    BY <1>7, <2>6, <2>7, <2>9, RestHolds DEF Good
<1>13. CASE call.count > 1 /\ o.accepted /\ k.left > 0
  <2>1. call' = k
    BY <1>10, <1>13
  <2>2. TypeOK'
    BY <1>2, <1>5, <1>6, <1>9, <1>11, <2>1 DEF TypeOK
  <2>3. n = call.left - 1 /\ n > 0 /\ call.count # 1
    <3>1. call.count \in Int /\ call.count > 1
      BY <1>3, <1>13
    <3>2. n = call.left - 1
      BY <1>8, <1>13
    <3>3. n > 0
      BY <1>9, <1>13
    <3> QED
      BY <3>1, <3>2, <3>3
  <2>4. card.phase = "take" /\ card'.phase = "take" /\ card'.pos = card.pos + 1
    BY <1>2, <1>5, <1>6, <1>13, <2>3
  <2>5. card.pos = BlockAt(card, Address(call.first)) + call.count - call.left
    BY <1>2, <2>4
  <2>6. BlockAt(card, Address(call.first)) \in Int
    BY <1>3, AddressIs, BlockAtInt
  <2>7. BlockAt(card, Address(call.first))' = BlockAt(card, Address(call.first))
    BY <1>2, <1>5, <1>6, <1>9, <2>1, UnitsStay
  <2>8. card'.pos = BlockAt(card, Address(call.first))' + call.count - n
    BY <1>3, <2>3, <2>4, <2>5, <2>6, <2>7
  <2>9. n \in 1 .. call.count
    BY <1>3, <2>3
  <2>10. /\ call'.at = "write data" /\ call'.op = "program" /\ call'.left = n
         /\ call'.count = call.count
    BY <1>9, <2>1
  <2>11. WriteInv'
    BY <2>3, <2>4, <2>8, <2>9, <2>10 DEF WriteInv
  <2> QED
    BY <1>7, <2>2, <2>10, <2>11, WriteGoes
<1>14. CASE call.count # 1 /\ ~(call.count > 1 /\ o.accepted /\ k.left > 0)
  <2>1. call' = Staged(k, "write stop") /\ "write stop" \in Stages
    BY <1>10, <1>14, StagesAre
  <2>2. call' \in Calls /\ call'.at = "write stop" /\ SameTask(k, call')
    BY <1>9, <2>1, StagedIs
  <2>3. TypeOK'
    BY <1>2, <1>5, <1>6, <1>11, <2>2 DEF TypeOK
  <2>4. call.count > 1
    BY <1>3, <1>14
  <2>5. WriteInv'
    BY <1>9, <2>2, <2>4 DEF WriteInv, SameTask
  <2> QED
    BY <1>7, <2>2, <2>3, <2>5, WriteGoes
<1> QED
  BY <1>12, <1>13, <1>14

\* After the token that ends it, a write of several blocks promises nothing.
LEMMA WriteStopGood == ASSUME DriverInv, WriteStop PROVE Good
<1>1. /\ call.at = "write stop" /\ TypeOK /\ call.op = "program" /\ call.count > 1
      /\ card' \in Stopped(card) /\ selected' = FALSE /\ Return(call.status)
      /\ UNCHANGED <<config, initialized>>
  BY DEF WriteStop, DriverInv, WriteInv
<1>2. call.status \in Statuses /\ call \in Calls /\ card \in Cards /\ call.count \in Int
  BY <1>1, NumbersAre DEF TypeOK
<1>3. call' \in Calls /\ call'.at = "rest"
  BY <1>1, <1>2, ReturnIs
<1>4. card' \in Cards /\ card'.media = card.media
  BY <1>1, <1>2, StoppedIs
<1>5. TypeOK' /\ ~selected'
  BY <1>1, <1>3, <1>4 DEF TypeOK
<1>6. call.count # 1
  <2>1. call.count \in Int /\ call.count > 1
    BY <1>1, <1>2
  <2> QED
    BY <2>1
<1>7. ReadyStep /\ ExactStep /\ ClosedStep
  BY <1>1, <1>6 DEF ReadyStep, ExactStep, ClosedStep, AnswersOk
<1> QED
  BY <1>3, <1>4, <1>5, <1>7, RestHolds, InPlace DEF Good

------------------------------------------------------------------------------
(* The steps of trim *)

\* A trim that goes on.
LEMMA TrimGoes ==
    ASSUME TypeOK', call'.at \in {"erase from", "erase to", "erase"}, TrimInv',
           card'.media = card.media
    PROVE  Good
<1>1. DriverInv'
  BY DEF DriverInv, ReleasedAtRest, InitInv, ReadInv, WriteInv, InitStages
<1> QED
  BY <1>1, NoAnswer, InPlace DEF Good

LEMMA StartTrimGood ==
    ASSUME DriverInv, NEW first \in Blocks, NEW count \in 0 .. MaxBlocks,
           StartTrim(first, count)
    PROVE  Good
<1> DEFINE whole == first % config.erase_size = 0 /\ count % config.erase_size = 0
<1>1. /\ call.at = "rest" /\ UNCHANGED <<config, initialized, selected, card>>
      /\ config.erase_size # 0
      /\ \/ whole /\ Begin("trim", "erase from", first, count)
         \/ \E s \in {"PARAMETER", "NO_INIT"} : Refuse("trim", s)
  <2>1. CASE ~(whole /\ Fits(first, count))
    BY <2>1 DEF StartTrim
  <2>2. CASE (whole /\ Fits(first, count)) /\ ~config.is_initialized
    BY <2>2 DEF StartTrim
  <2>3. CASE whole /\ Fits(first, count) /\ config.is_initialized
    BY <2>3 DEF StartTrim
  <2> QED
    BY <2>1, <2>2, <2>3
<1>2. CASE whole /\ Begin("trim", "erase from", first, count)
  <2>1. /\ call' \in Calls /\ call'.op = "trim" /\ call'.at = "erase from"
        /\ call'.first = first /\ call'.count = count
    BY <1>2, BeginIs, StagesAre
  <2>2. TypeOK'
    BY <1>1, <2>1, StartTyped
  <2>3. TrimInv'
    BY <1>1, <1>2, <2>1 DEF TrimInv
  <2> QED
    BY <1>1, <2>1, <2>2, <2>3, TrimGoes
<1>3. ASSUME NEW s \in {"PARAMETER", "NO_INIT"}, Refuse("trim", s) PROVE Good
  BY <1>1, <1>3, RefuseGood
<1> QED
  BY <1>1, <1>2, <1>3

\* What a trim is, and stays, until it returns.
Trimming == /\ call.op = "trim" /\ config.erase_size # 0
            /\ call.first % config.erase_size = 0 /\ call.count % config.erase_size = 0

LEMMA TrimmingStays ==
    ASSUME Trimming, UNCHANGED config, SameTask(call, call')
    PROVE  Trimming'
BY DEF Trimming, SameTask

LEMMA EraseFromGood == ASSUME DriverInv, EraseFrom PROVE Good
<1>1. PICK cmd, arg, o :
         /\ cmd = "CMD32" /\ arg = Address(call.first) /\ Exchanged(cmd, arg, o)
         /\ IF CmdStatus(o.r1) = "ok" THEN Goto("erase to") ELSE Return(CmdStatus(o.r1))
  BY DEF EraseFrom, Command, Exchanged
<1>2. /\ call.at = "erase from" /\ TypeOK /\ Trimming /\ UNCHANGED <<config, initialized>>
      /\ call \in Calls
  BY DEF EraseFrom, DriverInv, TrimInv, Trimming, TypeOK
<1>3. arg \in Int /\ cmd = "CMD32" /\ arg = Address(call.first) /\ Exchanged(cmd, arg, o)
  <2>1. call.first \in Int
    BY <1>2, NumbersAre
  <2> QED
    BY <1>1, <2>1, AddressIs
<1>4. CASE CmdStatus(o.r1) = "ok"
  <2>1. "erase to" \in Stages /\ Goto("erase to")
    BY <1>1, <1>4, StagesAre
  <2>2. call' \in Calls /\ call'.at = "erase to" /\ SameTask(call, call')
    BY <1>2, <2>1, GotoIs
  <2>3. Effect(card, cmd, arg, o) /\ card'.kind = card.kind /\ card'.media = card.media
    <3>1. arg \in Int /\ cmd # "CMD38" /\ Exchanged(cmd, arg, o)
      BY <1>3
    <3> QED
      BY <1>2, <3>1, CommandIs
  <2>4. TypeOK'
    BY <1>2, <1>3, <2>2, CommandTyped
  <2>5. BlockAt(card, Address(call.first))' = BlockAt(card, Address(call.first))
    BY <1>2, <2>2, <2>3, UnitsStay DEF SameTask
  <2>6. card'.from = BlockAt(card, Address(call.first))'
    BY <1>3, <1>4, <2>3, <2>5 DEF Effect, Ok, Exchanged
  <2>7. TrimInv'
    BY <1>2, <2>2, <2>6, TrimmingStays DEF TrimInv, Trimming
  <2> QED
    BY <2>2, <2>3, <2>4, <2>7, TrimGoes
<1>5. CASE CmdStatus(o.r1) # "ok"
  <2>1. Return(CmdStatus(o.r1))
    BY <1>1, <1>5
  <2> QED
    BY <1>2, <1>3, <1>5, <2>1, CommandFails
<1> QED
  BY <1>4, <1>5

LEMMA EraseToGood == ASSUME DriverInv, EraseTo PROVE Good
<1>1. PICK cmd, arg, o :
         /\ cmd = "CMD33" /\ arg = Address(LastBlock) /\ Exchanged(cmd, arg, o)
         /\ IF CmdStatus(o.r1) = "ok" THEN Goto("erase") ELSE Return(CmdStatus(o.r1))
  BY DEF EraseTo, Command, Exchanged
<1>2. /\ call.at = "erase to" /\ TypeOK /\ Trimming /\ UNCHANGED <<config, initialized>>
      /\ call \in Calls
      /\ card.phase = "ready" => card.from = BlockAt(card, Address(call.first))
  BY DEF EraseTo, DriverInv, TrimInv, Trimming, TypeOK
<1>3. arg \in Int /\ cmd = "CMD33" /\ arg = Address(LastBlock) /\ Exchanged(cmd, arg, o)
  <2>1. LastBlock \in Int
    BY <1>2, NumbersAre
  <2> QED
    BY <1>1, <2>1, AddressIs
<1>4. CASE CmdStatus(o.r1) = "ok"
  <2>1. "erase" \in Stages /\ Goto("erase")
    BY <1>1, <1>4, StagesAre
  <2>2. call' \in Calls /\ call'.at = "erase" /\ SameTask(call, call')
    BY <1>2, <2>1, GotoIs
  <2>3. Effect(card, cmd, arg, o) /\ card'.kind = card.kind /\ card'.media = card.media
    <3>1. arg \in Int /\ cmd # "CMD38" /\ Exchanged(cmd, arg, o)
      BY <1>3
    <3> QED
      BY <1>2, <3>1, CommandIs
  <2>4. TypeOK'
    BY <1>2, <1>3, <2>2, CommandTyped
  <2>5. /\ BlockAt(card, Address(call.first))' = BlockAt(card, Address(call.first))
        /\ BlockAt(card, Address(LastBlock))' = BlockAt(card, Address(LastBlock))
    BY <1>2, <2>2, <2>3, UnitsStay DEF SameTask
  <2>6. card.phase = "ready" /\ card'.from = card.from
    BY <1>3, <1>4, <2>3 DEF Effect, Ok, Exchanged
  <2>7. card'.to = BlockAt(card, Address(LastBlock))'
    BY <1>3, <1>4, <2>3, <2>5 DEF Effect, Ok, Exchanged
  <2>8. card'.from = BlockAt(card, Address(call.first))'
    BY <1>2, <2>5, <2>6
  <2>9. TrimInv'
    BY <1>2, <2>2, <2>7, <2>8, TrimmingStays DEF TrimInv, Trimming
  <2> QED
    BY <2>2, <2>3, <2>4, <2>9, TrimGoes
<1>5. CASE CmdStatus(o.r1) # "ok"
  <2>1. Return(CmdStatus(o.r1))
    BY <1>1, <1>5
  <2> QED
    BY <1>2, <1>3, <1>5, <2>1, CommandFails
<1> QED
  BY <1>4, <1>5

LEMMA GranuleIs == ASSUME NEW c PROVE Granule(c) \in Nat \ {0}
BY CardAssumption DEF Granule

\* CMD38 erases whole groups, and the range of a trim is made of whole groups.
LEMMA EraseGood == ASSUME DriverInv, Erase PROVE Good
<1>1. PICK cmd, arg, o :
         cmd = "CMD38" /\ arg = 0 /\ Exchanged(cmd, arg, o) /\ Return(CmdStatus(o.r1))
  BY DEF Erase, Command, Exchanged
<1>2. /\ call.at = "erase" /\ TypeOK /\ Trimming /\ UNCHANGED <<config, initialized>>
      /\ call \in Calls /\ card \in Cards
      /\ card.phase = "ready" => /\ card.from = BlockAt(card, Address(call.first))
                                 /\ card.to = BlockAt(card, Address(LastBlock))
  BY DEF Erase, DriverInv, TrimInv, Trimming, TypeOK
<1>3. arg \in Int /\ cmd = "CMD38"
  BY <1>1
<1>4. /\ Effect(card, cmd, arg, o) /\ ~selected' /\ CmdStatus(o.r1) \in Statuses
  BY <1>1, <1>2, <1>3, CommandIs
<1>5. call' \in Calls /\ call'.at = "rest"
  BY <1>1, <1>2, <1>4, ReturnIs
<1>6. TypeOK'
  BY <1>1, <1>2, <1>3, <1>5, CommandTyped
<1>7. ReadyStep /\ ExactStep /\ ClosedStep
  BY <1>2 DEF ReadyStep, ExactStep, ClosedStep, AnswersOk, Trimming
<1>8. card' = o.card /\ Erases(card, card')
  BY <1>1, <1>3, <1>4 DEF Effect, Exchanged
<1>9. ASSUME UnitsAgree, config.erase_size = Granule(card),
             NEW b \in Blocks, card'.media[b] # card.media[b]
      PROVE  call.op \in {"program", "trim"} /\ b \in Requested
  <2>1. /\ card.phase = "ready" /\ card.from \in Blocks /\ card.from <= card.to
        /\ card'.media = EraseBlocks(card).media
    BY <1>8, <1>9 DEF Erases
  <2>2. b \div Granule(card) \in card.from \div Granule(card) .. card.to \div Granule(card)
    <3>1. EraseBlocks(card).media[b] =
             IF b \div Granule(card) \in card.from \div Granule(card)
                                           .. card.to \div Granule(card)
               THEN Erased ELSE card.media[b]
      BY <1>2, ErasedIs
    <3> QED
      BY <1>9, <2>1, <3>1
  <2>3. /\ call.first \in Int /\ call.first >= 0 /\ LastBlock \in Int
        /\ call.count \in Int /\ call.count \in 0 .. MaxBlocks
    BY <1>2, NumbersAre
  <2>4. card.from = call.first
    BY <1>2, <1>9, <2>1, <2>3, AddressIs
  <2>5. LastBlock >= 0
    <3>1. CASE LastBlock < 0
      <4>1. card.to = -1
        BY <1>2, <2>1, <2>3, <3>1, AddressIs
      <4> QED
        BY <2>1, <2>3, <2>4, <4>1
    <3> QED
      BY <2>3, <3>1
  <2>6. card.to = LastBlock
    BY <1>2, <1>9, <2>1, <2>3, <2>5, AddressIs
  <2>7. PICK g \in Nat \ {0} : g = Granule(card)
    BY GranuleIs
  <2>8. call.first % g = 0 /\ call.count % g = 0
    BY <1>2, <1>9, <2>7 DEF Trimming
  <2>9. b \div g \in call.first \div g .. (call.first + call.count - 1) \div g
    BY <2>2, <2>4, <2>6, <2>7 DEF LastBlock
  <2>10. b \in Nat /\ call.first \in Nat /\ call.count \in Nat
    BY <2>3 DEF Blocks
  <2>11. b \in call.first .. call.first + call.count - 1
    BY <2>8, <2>9, <2>10, GroupsAre
  <2> QED
    BY <1>2, <2>11 DEF Requested, Trimming
<1>10. InPlaceStep
  BY <1>9 DEF InPlaceStep
<1> QED
  BY <1>4, <1>5, <1>6, <1>7, <1>10, RestHolds DEF Good

------------------------------------------------------------------------------
(* The steps that are no part of a call *)

\* Another card, or none: nothing is promised about the data of a card that is replaced.
LEMMA OtherCardGood ==
    ASSUME DriverInv, UNCHANGED <<config, initialized, selected, call>>,
           card' \in Cards, card'.phase \in {"gone", "power"}, InPlaceStep
    PROVE  Good
<1>1. TypeOK' /\ ReleasedAtRest'
  BY DEF DriverInv, TypeOK, ReleasedAtRest
<1>2. InitInv' /\ ReadInv'
  BY DEF DriverInv, InitInv, ReadInv, Type
<1>3. WriteInv' /\ TrimInv'
  BY DEF DriverInv, WriteInv, TrimInv
<1>4. ReadyStep /\ ExactStep /\ ClosedStep
  BY NoAnswer
<1> QED
  BY <1>1, <1>2, <1>3, <1>4 DEF DriverInv, Good

LEMMA PullGood == ASSUME DriverInv, Pull PROVE Good
<1>1. card' = Phased(card, "gone") /\ UNCHANGED <<config, initialized, selected, call>>
  BY DEF Pull, Phased
<1>2. card' \in Cards /\ card'.media = card.media /\ card'.phase = "gone"
  BY <1>1, PhasedIs DEF DriverInv, TypeOK, Phases
<1> QED
  BY <1>1, <1>2, InPlace, OtherCardGood

LEMMA NewCardIs ==
    ASSUME NEW kind \in Kinds, NEW noise \in 0 .. MaxNoise
    PROVE  NewCard(kind, noise) \in Cards /\ NewCard(kind, noise).phase = "power"
<1>1. PICK m \in [Blocks -> Contents] : m = [b \in Blocks |-> Old]
  <2>1. Old \in Contents
    BY CardAssumption DEF Old, Contents
  <2> QED
    BY <2>1
<1>2. 0 \in 0 .. Sectors /\ -1 \in Blocks \cup {-1} /\ "power" \in Phases
  BY CardAssumption DEF Phases
<1>3. NewCard(kind, noise) = [kind |-> kind, phase |-> "power", pos |-> 0, from |-> -1,
                              to |-> -1, checks |-> FALSE, media |-> m, noise |-> noise]
  BY <1>1 DEF NewCard
<1> QED
  BY <1>2, <1>3 DEF Cards

LEMMA InsertGood == ASSUME DriverInv, NEW kind \in Kinds, Insert(kind) PROVE Good
<1>1. /\ card.phase = "gone" /\ card' = NewCard(kind, card.noise)
      /\ UNCHANGED <<config, initialized, selected, call>>
  BY DEF Insert
<1>2. card.noise \in 0 .. MaxNoise
  BY DEF DriverInv, TypeOK, Cards
<1>3. card' \in Cards /\ card'.phase = "power"
  BY <1>1, <1>2, NewCardIs
<1>4. InPlaceStep
  BY <1>1 DEF InPlaceStep
<1> QED
  BY <1>1, <1>3, <1>4, OtherCardGood

LEMMA DeinitGood ==
    ASSUME DriverInv, UNCHANGED <<config, selected, call, card>>, initialized' \in BOOLEAN
    PROVE  Good
<1>1. TypeOK' /\ ReleasedAtRest'
  BY DEF DriverInv, TypeOK, ReleasedAtRest
<1>2. InitInv'
  BY DEF DriverInv, InitInv, Type
<1>3. /\ BlockAt(card, Address(call.first))' = BlockAt(card, Address(call.first))
      /\ BlockAt(card, Address(LastBlock))' = BlockAt(card, Address(LastBlock))
  BY UnitsStay
<1>4. ReadInv' /\ WriteInv' /\ TrimInv'
  BY <1>3 DEF DriverInv, ReadInv, WriteInv, TrimInv
<1>5. ReadyStep /\ ExactStep /\ ClosedStep
  BY NoAnswer
<1> QED
  BY <1>1, <1>2, <1>4, <1>5, InPlace DEF DriverInv, Good

------------------------------------------------------------------------------
(* The theorems *)

LEMMA DriverInit == Init => DriverInv
<1> SUFFICES ASSUME Init PROVE DriverInv
  OBVIOUS
<1>1. config \in Configs
  <2>1. PICK board \in Boards :
           config = [card_type |-> "NONE", is_initialized |-> FALSE, total_sectors |-> 0,
                     erase_size |-> 0, enable_crc |-> board.enable_crc, fast |-> board.fast]
    BY DEF Init
  <2>2. PICK e \in BOOLEAN, f \in BOOLEAN : e = board.enable_crc /\ f = board.fast
    BY DriverAssumption
  <2>3. config = [card_type |-> "NONE", is_initialized |-> FALSE, total_sectors |-> 0,
                  erase_size |-> 0, enable_crc |-> e, fast |-> f]
    BY <2>1, <2>2
  <2> QED
    BY <2>3 DEF Configs, CardTypes
<1>2. call \in Calls /\ call.at = "rest"
  BY NoCallIs DEF Init
<1>3. card \in Cards
  <2>1. MaxNoise \in 0 .. MaxNoise
    BY CardAssumption
  <2> QED
    BY <2>1, NewCardIs DEF Init
<1>4. TypeOK /\ ~selected
  BY <1>1, <1>2, <1>3 DEF Init, TypeOK
<1> QED
  BY <1>2, <1>4 DEF DriverInv, ReleasedAtRest, InitInv, ReadInv, WriteInv, TrimInv, InitStages

LEMMA DriverNext == DriverInv /\ [Next]_vars => Good
<1> SUFFICES ASSUME DriverInv, [Next]_vars PROVE Good
  OBVIOUS
<1>1. CASE Step
  BY <1>1, GoIdleGood, SendIfCondGood, CrcOnGood, ReadOcrGood, SendOpCondGood, ReadCcsGood,
     CrcOffGood, SendCsdGood, CsdDataGood, BlockLengthGood, ReadCommandGood, ReadDataGood,
     ReadStopGood, PreEraseGood, WriteCommandGood, WriteDataGood, WriteStopGood,
     EraseFromGood, EraseToGood, EraseGood DEF Step
<1>2. CASE Start
  BY <1>2, StartInitGood, StartReadGood, StartProgramGood, StartTrimGood DEF Start
<1>3. CASE Deinit
  BY <1>3, DeinitGood DEF Deinit
<1>4. CASE Pull
  BY <1>4, PullGood
<1>5. ASSUME NEW kind \in Kinds, Insert(kind) PROVE Good
  BY <1>5, InsertGood
<1>6. CASE UNCHANGED vars
  BY <1>6, DeinitGood DEF vars, DriverInv, TypeOK
<1> QED
  BY <1>1, <1>2, <1>3, <1>4, <1>5, <1>6 DEF Next

\* At every stage of every call the driver knows what it relies on there: which type the
\* card has, how much of the call is left, which block the card will send or take next,
\* and which range it will erase.
THEOREM DriverIsSafe == Spec => []DriverInv
<1>1. DriverInv /\ [Next]_vars => DriverInv'
  BY DriverNext DEF Good
<1> QED
  BY <1>1, DriverInit, PTL DEF Spec

\* The card is released when a call returns, on every error path of every call.
THEOREM CardIsReleased == Spec => []ReleasedAtRest
<1>1. DriverInv => ReleasedAtRest
  BY DEF DriverInv
<1> QED
  BY <1>1, DriverIsSafe, PTL

\* An init that answers success has a card that is ready, a type for it and, with CRC,
\* its size: CMD9 and CMD16 are only accepted by a card that has completed ACMD41.
THEOREM InitIsHonest == Spec => InitMeansReady
<1>1. DriverInv /\ [Next]_vars => [ReadyStep]_vars
  BY DriverNext DEF Good
<1>2. Spec => [][ReadyStep]_vars
  BY <1>1, DriverIsSafe, PTL DEF Spec
<1> QED
  BY <1>2 DEF InitMeansReady, ReadyStep

\* A successful read of one block with CRC returns the block the card had there, however
\* often the command was repeated and whatever was disturbed.
THEOREM ReadIsExact == Spec => SingleReadExact
<1>1. DriverInv /\ [Next]_vars => [ExactStep]_vars
  BY DriverNext DEF Good
<1>2. Spec => [][ExactStep]_vars
  BY <1>1, DriverIsSafe, PTL DEF Spec
<1> QED
  BY <1>2 DEF SingleReadExact, ExactStep

\* A read, or a write of one block, that answers success leaves no transfer open.
THEOREM TransfersAreClosed == Spec => TransferClosed
<1>1. DriverInv /\ [Next]_vars => [ClosedStep]_vars
  BY DriverNext DEF Good
<1>2. Spec => [][ClosedStep]_vars
  BY <1>1, DriverIsSafe, PTL DEF Spec
<1> QED
  BY <1>2 DEF TransferClosed, ClosedStep

\* No block of a card changes but those a program or a trim was asked for.
THEOREM WritesAreInPlace == Spec => NoStrayWrites
<1>1. DriverInv /\ [Next]_vars => [InPlaceStep]_vars
  BY DriverNext DEF Good
<1>2. Spec => [][InPlaceStep]_vars
  BY <1>1, DriverIsSafe, PTL DEF Spec
<1> QED
  BY <1>2 DEF NoStrayWrites, InPlaceStep
================================================================================
