------------------------------- MODULE SdProofs -------------------------------
(***************************************************************************)
(* Proofs about SdCard, for every clock divider, start-up time, block      *)
(* length and card.  Controller and card agree where a byte begins         *)
(* (StepInv).  From there: the byte each of the two has got of the other   *)
(* (ByteTypes, BitInv), what the controller waits for (PaceInv), what the  *)
(* card makes of the bytes and will send (CardPlace), where MAR and RAM    *)
(* are (Pulses, HostPlace); together CopyInv, and a block is copied.       *)
(***************************************************************************)
EXTENDS SdCard, SequenceTheorems, TLAPS

SdFields ==
  {"init", "write", "read", "intra", "cnt", "n", "cmd", "ready", "start", "cs_en", "clk_cnt",
   "tx", "address_progression", "sdwd", "sdrd", "SDC_DEV"}
SpiFields == {"state", "div", "sclk", "rise", "fall", "bit", "txr", "rx", "mosi"}
CardFields ==
  {"mode", "app", "want", "heard", "queue", "bits", "in", "out", "miso", "block", "polls",
   "refused", "disk"}

\* What the controller is doing.
Powering == ~sd.ready /\ sd.init = 0
Selecting == ~sd.ready /\ sd.init = 2
InFillers ==
  \/ ~sd.ready /\ sd.init \in {1, 4, 6, 8}
  \/ sd.ready /\ sd.write = 1
  \/ sd.ready /\ sd.write = 0 /\ sd.read = 1
InCommand ==
  \/ ~sd.ready /\ sd.init \in {3, 5, 7, 9}
  \/ sd.ready /\ sd.write = 2
  \/ sd.ready /\ sd.write = 0 /\ sd.read = 2
Writing == sd.ready /\ sd.write = 3
Seeking == sd.ready /\ sd.write = 0 /\ sd.read = 3
Reading == sd.ready /\ sd.write = 0 /\ sd.read = 4
Waiting == sd.ready /\ sd.write = 0 /\ sd.read = 0

SdShape ==
  /\ DOMAIN sd = SdFields
  /\ sd.ready \in BOOLEAN /\ sd.start \in BOOLEAN /\ sd.cs_en \in BOOLEAN
  /\ sd.clk_cnt \in {Slow, Fast}
SdPlace ==
  /\ ~sd.ready => sd.init \in 0 .. 9 /\ sd.write = 0 /\ sd.read = 0
  /\ sd.write \in 0 .. 3 /\ sd.read \in 0 .. 4
  /\ sd.write # 0 => sd.read = 0
  /\ Powering \/ Waiting => sd.intra = 0
  /\ InFillers \/ Seeking => sd.intra \in 0 .. 3
  /\ InCommand => sd.intra \in 0 .. 8
  /\ Writing => sd.intra \in 0 .. 26
  /\ Reading => sd.intra \in 0 .. 12

\* start is high only in the state after it was raised.
WritingUp == {2, 5, 8, 12, 14, 16, 20, 24}
Lowering ==
  \/ InFillers /\ sd.intra = 2
  \/ InCommand /\ sd.intra \in {3, 7}
  \/ Writing /\ sd.intra \in WritingUp
  \/ Seeking /\ sd.intra = 2
  \/ Reading /\ sd.intra \in {2, 7, 9, 11}
StartFalls == sd.start => Lowering

CtlInv == SdShape /\ SdPlace /\ StartFalls

\* Where the controller can find the card deselected or selects it: no byte is
\* under way.
Resting == Selecting \/ Waiting \/ (Writing /\ sd.intra = 26)
Rested == Resting => spi.state = 0 /\ spi.sclk

SpiShape ==
  /\ DOMAIN spi = SpiFields
  /\ spi.state \in 0 .. 3 /\ spi.sclk \in BOOLEAN /\ spi.rise \in BOOLEAN
  /\ spi.fall \in BOOLEAN
Edges ==
  /\ spi.rise => spi.sclk /\ spi.div = 0
  /\ spi.fall => ~spi.sclk /\ spi.div = 0
  /\ spi.state = 3 => spi.sclk
EngInv == SpiShape /\ Edges

\* Rising edges the selected card has seen of the byte under way.
Together ==
  ~sd.cs_en =>
    /\ spi.state \in {0, 1, 3} => card.bits = 0
    /\ spi.state = 0 => spi.sclk
    /\ spi.state = 1 => ~spi.rise /\ (spi.sclk \/ spi.fall)
    /\ spi.state = 2 =>
         /\ spi.bit \in 0 .. 7
         /\ card.bits = IF spi.rise THEN (8 - spi.bit) % 8 ELSE 7 - spi.bit

CardShape(c) == DOMAIN c = CardFields /\ c.want \in {"command", "token", "data"}

StepInv ==
  /\ CtlInv /\ Rested /\ EngInv
  /\ CardShape(card)
  /\ Together
-----------------------------------------------------------------------------
(* One edge of the controller.                                             *)

\* The controller stays in its routine, at place k of it; start can only be
\* high at a place of up.
StepsTo(k, up) ==
  /\ DOMAIN sd' = SdFields
  /\ sd'.ready = sd.ready /\ sd'.init = sd.init /\ sd'.write = sd.write /\ sd'.read = sd.read
  /\ sd'.clk_cnt = sd.clk_cnt /\ sd'.intra = k
  /\ sd'.start \in BOOLEAN /\ (sd'.start => k \in up)
  /\ sd'.cs_en \in BOOLEAN /\ (sd.cs_en => sd'.cs_en)
\* It goes to another routine, at place k of it, with start low.
Goes(init, write, read, k) ==
  /\ DOMAIN sd' = SdFields
  /\ sd'.ready = sd.ready /\ sd'.init = init /\ sd'.write = write /\ sd'.read = read
  /\ sd'.clk_cnt = sd.clk_cnt /\ sd'.intra = k
  /\ sd'.start = FALSE
  /\ sd'.cs_en \in BOOLEAN

LEMMA OfferStep ==
  ASSUME CtlInv, NEW b, NEW k, NEW up, ~sd.start, sd' = Offer(b, k)
  PROVE  StepsTo(k, up)
BY DEF Offer, StepsTo, CtlInv, SdShape, SdFields
LEMMA RaiseStep ==
  ASSUME CtlInv, NEW k, NEW up, k \in up, sd' = Raise(k)
  PROVE  StepsTo(k, up)
BY DEF Raise, StepsTo, CtlInv, SdShape, SdFields
LEMMA LowerStep ==
  ASSUME CtlInv, NEW k, NEW up, sd' = Lower(k)
  PROVE  StepsTo(k, up)
BY DEF Lower, StepsTo, CtlInv, SdShape, SdFields
LEMMA StayStep ==
  ASSUME CtlInv, NEW up, ~sd.start, sd' = sd
  PROVE  StepsTo(sd.intra, up)
BY DEF StepsTo, CtlInv, SdShape, SdFields

LEMMA FillersMove ==
  ASSUME CtlInv, sd.start => sd.intra = 2, sd.intra \in 0 .. 3, NEW limit, NEW then,
         sd' = Fillers(limit, then)
  PROVE  \/ \E k \in 0 .. 3 : StepsTo(k, {2})
         \/ sd.intra = 3 /\ done /\ sd' = then
<1>1. CASE sd.intra = 0
  <2>1. sd' = Offer(Filler, 1)
    BY <1>1 DEF Fillers
  <2>2. QED BY <1>1, <2>1, OfferStep
<1>2. CASE sd.intra = 1
  <2>1. sd' = Raise(2)
    BY <1>2 DEF Fillers
  <2>2. QED BY <2>1, RaiseStep
<1>3. CASE sd.intra = 2
  <2>1. sd' = Lower(3)
    BY <1>3 DEF Fillers
  <2>2. QED BY <2>1, LowerStep
<1>4. CASE sd.intra = 3
  <2>1. \/ sd' = sd
        \/ sd' = [sd EXCEPT !.cnt = @ + 1, !.intra = 1]
        \/ done /\ sd' = then
    BY <1>4 DEF Fillers
  <2>2. CASE sd' = sd
    BY <1>4, <2>2, StayStep
  <2>3. CASE sd' = [sd EXCEPT !.cnt = @ + 1, !.intra = 1]
    <3>1. StepsTo(1, {2})
      BY <1>4, <2>3 DEF StepsTo, CtlInv, SdShape, SdFields
    <3>2. QED BY <3>1
  <2>4. QED BY <1>4, <2>1, <2>2, <2>3
<1>5. QED BY <1>1, <1>2, <1>3, <1>4

LEMMA CommandMoves ==
  ASSUME CtlInv, sd.start => sd.intra \in {3, 7}, sd.intra \in 0 .. 8, NEW frame, NEW answered,
         sd' = Command(frame, answered)
  PROVE  \/ \E k \in 0 .. 8 : StepsTo(k, {3, 7})
         \/ sd.intra = 8 /\ done /\ sd' = answered
<1>1. CASE sd.intra = 0
  <2>1. sd' = [sd EXCEPT !.n = 0, !.cmd = frame, !.intra = 1,
                         !.cnt = IF sd.init = 9 THEN 0 ELSE @]
    BY <1>1 DEF Command
  <2>2. StepsTo(1, {3, 7})
    BY <1>1, <2>1 DEF StepsTo, CtlInv, SdShape, SdFields
  <2>3. QED BY <2>2
<1>2. CASE sd.intra = 1
  <2>1. sd' = Offer(sd.cmd[sd.n + 1], 2)
    BY <1>2 DEF Command
  <2>2. QED BY <1>2, <2>1, OfferStep
<1>3. CASE sd.intra = 2
  <2>1. sd' = Raise(3)
    BY <1>3 DEF Command
  <2>2. QED BY <2>1, RaiseStep
<1>4. CASE sd.intra = 3
  <2>1. sd' = Lower(4)
    BY <1>4 DEF Command
  <2>2. QED BY <2>1, LowerStep
<1>5. CASE sd.intra = 4
  <2>1. \/ sd' = sd
        \/ sd' = [sd EXCEPT !.intra = 5, !.cnt = IF sd.init = 5 THEN 0 ELSE @]
        \/ sd' = [sd EXCEPT !.intra = 1, !.n = @ + 1]
    BY <1>5 DEF Command
  <2>2. CASE sd' = sd
    BY <1>5, <2>2, StayStep
  <2>3. CASE sd' = [sd EXCEPT !.intra = 5, !.cnt = IF sd.init = 5 THEN 0 ELSE @]
    <3>1. StepsTo(5, {3, 7})
      BY <1>5, <2>3 DEF StepsTo, CtlInv, SdShape, SdFields
    <3>2. QED BY <3>1
  <2>4. CASE sd' = [sd EXCEPT !.intra = 1, !.n = @ + 1]
    <3>1. StepsTo(1, {3, 7})
      BY <1>5, <2>4 DEF StepsTo, CtlInv, SdShape, SdFields
    <3>2. QED BY <3>1
  <2>5. QED BY <2>1, <2>2, <2>3, <2>4
<1>6. CASE sd.intra = 5
  <2>1. sd' = Offer(Filler, 6)
    BY <1>6 DEF Command
  <2>2. QED BY <1>6, <2>1, OfferStep
<1>7. CASE sd.intra = 6
  <2>1. sd' = Raise(7)
    BY <1>7 DEF Command
  <2>2. QED BY <2>1, RaiseStep
<1>8. CASE sd.intra = 7
  <2>1. sd' = Lower(8)
    BY <1>8 DEF Command
  <2>2. QED BY <2>1, LowerStep
<1>9. CASE sd.intra = 8
  <2>1. sd' = sd \/ (done /\ sd' = answered)
    BY <1>9 DEF Command
  <2>2. QED BY <1>9, <2>1, StayStep
<1>10. QED BY <1>1, <1>2, <1>3, <1>4, <1>5, <1>6, <1>7, <1>8, <1>9

\* What an edge leaves of the controller: its invariant; a byte can only be
\* over when it comes to rest; and only at rest does it select the card.
CtlStep ==
  /\ CtlInv'
  /\ Resting' => Resting \/ done
  /\ ~sd'.cs_en => ~sd.cs_en \/ Resting

LEMMA Lowered ==
  ASSUME CtlInv
  PROVE  /\ InFillers => (sd.start => sd.intra = 2) /\ sd.intra \in 0 .. 3
         /\ InCommand => (sd.start => sd.intra \in {3, 7}) /\ sd.intra \in 0 .. 8
         /\ Writing => /\ sd.start => sd.intra \in WritingUp
                       /\ sd.intra \in 0 .. 26
         /\ Seeking => (sd.start => sd.intra = 2) /\ sd.intra \in 0 .. 3
         /\ Reading => (sd.start => sd.intra \in {2, 7, 9, 11}) /\ sd.intra \in 0 .. 12
         /\ Powering \/ Selecting \/ Waiting => ~sd.start
BY DEF CtlInv, SdShape, SdPlace, StartFalls, Lowering, Powering, Selecting, InFillers, InCommand,
   Writing, Seeking, Reading, Waiting

LEMMA FillersStay ==
  ASSUME CtlInv, InFillers, NEW k \in 0 .. 3, StepsTo(k, {2})
  PROVE  CtlStep
<1>1. InFillers' /\ ~Resting'
  BY DEF StepsTo, InFillers, Resting, Selecting, Writing, Waiting
<1>2. SdShape'
  BY DEF StepsTo, CtlInv, SdShape
<1>3. SdPlace'
  BY <1>1 DEF StepsTo, CtlInv, SdShape, SdPlace, Powering, InFillers, InCommand, Writing, Seeking,
     Reading, Waiting
<1>4. StartFalls'
  BY <1>1 DEF StepsTo, StartFalls, Lowering
<1>5. ~sd'.cs_en => ~sd.cs_en
  BY DEF StepsTo
<1>6. QED BY <1>1, <1>2, <1>3, <1>4, <1>5 DEF CtlStep, CtlInv

LEMMA CommandStay ==
  ASSUME CtlInv, InCommand, NEW k \in 0 .. 8, StepsTo(k, {3, 7})
  PROVE  CtlStep
<1>1. InCommand' /\ ~Resting'
  BY DEF StepsTo, InCommand, Resting, Selecting, Writing, Waiting
<1>2. SdShape'
  BY DEF StepsTo, CtlInv, SdShape
<1>3. SdPlace'
  BY <1>1 DEF StepsTo, CtlInv, SdShape, SdPlace, Powering, InFillers, InCommand, Writing, Seeking,
     Reading, Waiting
<1>4. StartFalls'
  BY <1>1 DEF StepsTo, StartFalls, Lowering
<1>5. ~sd'.cs_en => ~sd.cs_en
  BY DEF StepsTo
<1>6. QED BY <1>1, <1>2, <1>3, <1>4, <1>5 DEF CtlStep, CtlInv

LEMMA WritingStay ==
  ASSUME CtlInv, Writing, NEW k \in 0 .. 26, StepsTo(k, WritingUp),
         k = 26 => done
  PROVE  CtlStep
<1>1. Writing' /\ (Resting' => done)
  BY DEF StepsTo, Writing, Resting, Selecting, Waiting
<1>2. SdShape'
  BY DEF StepsTo, CtlInv, SdShape
<1>3. SdPlace'
  BY <1>1 DEF StepsTo, CtlInv, SdShape, SdPlace, Powering, InFillers, InCommand, Writing, Seeking,
     Reading, Waiting
<1>4. StartFalls'
  BY <1>1 DEF StepsTo, StartFalls, Lowering
<1>5. ~sd'.cs_en => ~sd.cs_en
  BY DEF StepsTo
<1>6. QED BY <1>1, <1>2, <1>3, <1>4, <1>5 DEF CtlStep, CtlInv

LEMMA SeekingStay ==
  ASSUME CtlInv, Seeking, NEW k \in 0 .. 3, StepsTo(k, {2})
  PROVE  CtlStep
<1>1. Seeking' /\ ~Resting'
  BY DEF StepsTo, Seeking, Resting, Selecting, Writing, Waiting
<1>2. SdShape'
  BY DEF StepsTo, CtlInv, SdShape
<1>3. SdPlace'
  BY <1>1 DEF StepsTo, CtlInv, SdShape, SdPlace, Powering, InFillers, InCommand, Writing, Seeking,
     Reading, Waiting
<1>4. StartFalls'
  BY <1>1 DEF StepsTo, StartFalls, Lowering
<1>5. ~sd'.cs_en => ~sd.cs_en
  BY DEF StepsTo
<1>6. QED BY <1>1, <1>2, <1>3, <1>4, <1>5 DEF CtlStep, CtlInv

LEMMA ReadingStay ==
  ASSUME CtlInv, Reading, NEW k \in 0 .. 12, StepsTo(k, {2, 7, 9, 11})
  PROVE  CtlStep
<1>1. Reading' /\ ~Resting'
  BY DEF StepsTo, Reading, Resting, Selecting, Writing, Waiting
<1>2. SdShape'
  BY DEF StepsTo, CtlInv, SdShape
<1>3. SdPlace'
  BY <1>1 DEF StepsTo, CtlInv, SdShape, SdPlace, Powering, InFillers, InCommand, Writing, Seeking,
     Reading, Waiting
<1>4. StartFalls'
  BY <1>1 DEF StepsTo, StartFalls, Lowering
<1>5. ~sd'.cs_en => ~sd.cs_en
  BY DEF StepsTo
<1>6. QED BY <1>1, <1>2, <1>3, <1>4, <1>5 DEF CtlStep, CtlInv

\* The next routine, from its first place, or the wait for the next call.
Begins ==
  /\ DOMAIN sd' = SdFields
  /\ sd'.ready = sd.ready /\ sd'.clk_cnt = sd.clk_cnt
  /\ ~sd.ready => sd'.init \in 0 .. 9 /\ sd'.write = 0 /\ sd'.read = 0
  /\ sd'.write \in 0 .. 3 /\ sd'.read \in 0 .. 4
  /\ sd'.write # 0 => sd'.read = 0
  /\ sd'.intra = 0 \/ (~sd.ready /\ sd'.init = 2)
  /\ sd'.start = FALSE
  /\ sd'.cs_en \in BOOLEAN
  /\ ~sd'.cs_en => ~sd.cs_en \/ Resting
  /\ Resting' => Resting \/ done

LEMMA RoutineBegins ==
  ASSUME CtlInv, Begins
  PROVE  CtlStep
<1>1. SdShape'
  BY DEF Begins, CtlInv, SdShape
<1>2. SdPlace'
  BY DEF Begins, CtlInv, SdShape, SdPlace, Powering, InFillers, InCommand, Writing, Seeking,
     Reading, Waiting
<1>3. StartFalls'
  BY DEF Begins, StartFalls
<1>4. QED BY <1>1, <1>2, <1>3 DEF Begins, CtlStep, CtlInv

LEMMA NextInitGoes ==
  ASSUME CtlInv, ~sd.start, \/ sd' = NextInit \/ sd' = [NextInit EXCEPT !.cnt = 0]
  PROVE  Goes(sd.init + 1, sd.write, sd.read, 0) /\ (~sd'.cs_en => ~sd.cs_en)
<1>1. CASE sd' = NextInit
  <2>1. sd' = [sd EXCEPT !.init = @ + 1, !.intra = 0]
    BY <1>1 DEF NextInit
  <2>2. QED BY <2>1 DEF Goes, CtlInv, SdShape, SdFields
<1>2. CASE sd' = [NextInit EXCEPT !.cnt = 0]
  <2>1. sd' = [[sd EXCEPT !.init = @ + 1, !.intra = 0] EXCEPT !.cnt = 0]
    BY <1>2 DEF NextInit
  <2>2. QED BY <2>1 DEF Goes, CtlInv, SdShape, SdFields
<1>3. QED BY <1>1, <1>2

LEMMA AskAgainStays ==
  ASSUME CtlInv, ~sd.start,
         \/ sd' = AskAgain
         \/ sd' = [AskAgain EXCEPT !.cnt = 0]
         \/ sd' = [AskAgain EXCEPT !.cnt = @ + 1]
  PROVE  StepsTo(6, {3, 7})
<1>1. CASE sd' = AskAgain
  BY <1>1 DEF AskAgain, StepsTo, CtlInv, SdShape, SdFields
<1>2. CASE sd' = [AskAgain EXCEPT !.cnt = 0]
  BY <1>2 DEF AskAgain, StepsTo, CtlInv, SdShape, SdFields
<1>3. CASE sd' = [AskAgain EXCEPT !.cnt = @ + 1]
  BY <1>3 DEF AskAgain, StepsTo, CtlInv, SdShape, SdFields
<1>4. QED BY <1>1, <1>2, <1>3

LEMMA PoweringStep ==
  ASSUME CtlInv, Powering, sd' = Initialise
  PROVE  CtlStep
<1>1. ~sd.start /\ sd.init = 0 /\ ~sd.ready /\ sd.write = 0 /\ sd.read = 0 /\ sd.intra = 0
  BY Lowered DEF Powering, CtlInv, SdPlace
<1>2. sd' = [NextInit EXCEPT !.cnt = 0] \/ sd' = [sd EXCEPT !.cnt = @ + 1]
  BY <1>1 DEF Initialise
<1>3. CASE sd' = [NextInit EXCEPT !.cnt = 0]
  <2>1. Goes(1, 0, 0, 0) /\ (~sd'.cs_en => ~sd.cs_en)
    BY <1>1, <1>3, NextInitGoes
  <2>2. ~Resting'
    BY <1>1, <2>1 DEF Goes, Resting, Selecting, Waiting, Writing
  <2>3. Begins
    BY <1>1, <2>1, <2>2 DEF Goes, Begins, Resting
  <2>4. QED BY <2>3, RoutineBegins
<1>4. CASE sd' = [sd EXCEPT !.cnt = @ + 1]
  <2>1. Goes(0, 0, 0, 0) /\ (~sd'.cs_en => ~sd.cs_en)
    BY <1>1, <1>4 DEF Goes, CtlInv, SdShape, SdFields
  <2>2. ~Resting'
    BY <1>1, <2>1 DEF Goes, Resting, Selecting, Waiting, Writing
  <2>3. Begins
    BY <1>1, <2>1, <2>2 DEF Goes, Begins, Resting
  <2>4. QED BY <2>3, RoutineBegins
<1>5. QED BY <1>2, <1>3, <1>4

LEMMA SelectingStep ==
  ASSUME CtlInv, Selecting, sd' = Initialise
  PROVE  CtlStep
<1>1. ~sd.start /\ sd.init = 2 /\ ~sd.ready /\ sd.write = 0 /\ sd.read = 0
  BY Lowered DEF Selecting, CtlInv, SdPlace
<1>2. sd' = [NextInit EXCEPT !.cs_en = FALSE, !.cnt = 0, !.n = 0, !.cmd = CMD_0]
  BY <1>1 DEF Initialise
<1>3. Goes(3, 0, 0, 0)
  BY <1>1, <1>2 DEF NextInit, Goes, CtlInv, SdShape, SdFields
<1>4. ~Resting'
  BY <1>1, <1>3 DEF Goes, Resting, Selecting, Waiting, Writing
<1>5. Begins
  BY <1>1, <1>3, <1>4 DEF Goes, Begins, Resting
<1>6. QED BY <1>5, RoutineBegins

LEMMA InitFillersStep ==
  ASSUME CtlInv, ~sd.ready, sd.init \in {1, 4, 6, 8}, sd' = Initialise
  PROVE  CtlStep
<1>1. InFillers /\ (sd.start => sd.intra = 2) /\ sd.intra \in 0 .. 3 /\ sd.write = 0 /\ sd.read = 0
  BY Lowered DEF InFillers, CtlInv, SdPlace
<1>2. PICK limit, then : /\ sd' = Fillers(limit, then)
                         /\ then = NextInit \/ (sd.init = 1 /\ then = [sd EXCEPT !.init = 2])
  BY DEF Initialise
<1>3. CASE \E k \in 0 .. 3 : StepsTo(k, {2})
  BY <1>1, <1>3, FillersStay
<1>4. CASE sd.intra = 3 /\ done /\ sd' = NextInit
  <2>1. Goes(sd.init + 1, 0, 0, 0) /\ (~sd'.cs_en => ~sd.cs_en)
    BY <1>1, <1>4, NextInitGoes
  <2>2. Begins
    BY <1>1, <1>4, <2>1 DEF Goes, Begins, Resting
  <2>3. QED BY <2>2, RoutineBegins
<1>5. CASE sd.intra = 3 /\ done /\ sd.init = 1 /\ sd' = [sd EXCEPT !.init = 2]
  <2>1. Goes(2, 0, 0, 3) /\ (~sd'.cs_en => ~sd.cs_en)
    BY <1>1, <1>5 DEF Goes, CtlInv, SdShape, SdFields
  <2>2. Begins
    BY <1>1, <1>5, <2>1 DEF Goes, Begins, Resting
  <2>3. QED BY <2>2, RoutineBegins
<1>6. QED BY <1>1, <1>2, <1>3, <1>4, <1>5, FillersMove

LEMMA InitCommandStep ==
  ASSUME CtlInv, ~sd.ready, sd.init \in {3, 5, 7, 9}, sd' = Initialise
  PROVE  CtlStep
<1>1. /\ InCommand /\ sd.write = 0 /\ sd.read = 0
      /\ sd.start => sd.intra \in {3, 7}
      /\ sd.intra \in 0 .. 8
  BY Lowered DEF InCommand, CtlInv, SdPlace
<1>2. PICK frame, answered :
        /\ sd' = Command(frame, answered)
        /\ \/ sd.init # 9 /\ answered \in {AskAgain, NextInit, [NextInit EXCEPT !.cnt = 0]}
           \/ sd.init = 5 /\ answered = AnswerR7
           \/ sd.init = 9 /\ answered = AnswerACMD41
  BY DEF Initialise
<1>3. \/ answered \in {AskAgain, [AskAgain EXCEPT !.cnt = 0], [AskAgain EXCEPT !.cnt = @ + 1]}
      \/ sd.init # 9 /\ answered \in {NextInit, [NextInit EXCEPT !.cnt = 0]}
      \/ answered = [sd EXCEPT !.cnt = 0, !.init = 6, !.intra = 0]
      \/ answered = [NextInit EXCEPT !.ready = TRUE, !.clk_cnt = Fast, !.cnt = 0, !.cs_en = TRUE]
  <2>1. \/ AnswerR7 \in {[AskAgain EXCEPT !.cnt = 0], [AskAgain EXCEPT !.cnt = @ + 1]}
        \/ AnswerR7 = [NextInit EXCEPT !.cnt = 0]
    BY DEF AnswerR7
  <2>2. \/ AnswerACMD41 = [AskAgain EXCEPT !.cnt = @ + 1]
        \/ AnswerACMD41 = [sd EXCEPT !.cnt = 0, !.init = 6, !.intra = 0]
        \/ AnswerACMD41 = [NextInit EXCEPT !.ready = TRUE, !.clk_cnt = Fast, !.cnt = 0,
                                           !.cs_en = TRUE]
    BY DEF AnswerACMD41
  <2>3. QED BY <1>2, <2>1, <2>2
<1>4. CASE \E k \in 0 .. 8 : StepsTo(k, {3, 7})
  BY <1>1, <1>4, CommandStay
<1>5. CASE sd.intra = 8 /\ done /\ sd' = answered
  <2>1. ~sd.start
    BY <1>1, <1>5
  <2>2. CASE answered \in {AskAgain, [AskAgain EXCEPT !.cnt = 0], [AskAgain EXCEPT !.cnt = @ + 1]}
    <3>1. StepsTo(6, {3, 7})
      BY <1>5, <2>1, <2>2, AskAgainStays
    <3>2. QED BY <1>1, <3>1, CommandStay
  <2>3. CASE sd.init # 9 /\ answered \in {NextInit, [NextInit EXCEPT !.cnt = 0]}
    <3>1. Goes(sd.init + 1, 0, 0, 0) /\ (~sd'.cs_en => ~sd.cs_en)
      BY <1>1, <1>5, <2>1, <2>3, NextInitGoes
    <3>2. sd.init + 1 \in 0 .. 9
      BY <2>3
    <3>3. Begins
      BY <1>1, <1>5, <3>1, <3>2 DEF Goes, Begins, Resting
    <3>4. QED BY <3>3, RoutineBegins
  <2>4. CASE answered = [sd EXCEPT !.cnt = 0, !.init = 6, !.intra = 0]
    <3>1. Goes(6, 0, 0, 0) /\ (~sd'.cs_en => ~sd.cs_en)
      BY <1>1, <1>5, <2>1, <2>4 DEF Goes, CtlInv, SdShape, SdFields
    <3>2. Begins
      BY <1>1, <1>5, <3>1 DEF Goes, Begins, Resting
    <3>3. QED BY <3>2, RoutineBegins
  <2>5. CASE answered = [NextInit EXCEPT !.ready = TRUE, !.clk_cnt = Fast, !.cnt = 0,
                                         !.cs_en = TRUE]
    <3>1. /\ DOMAIN sd' = SdFields /\ sd'.ready = TRUE /\ sd'.clk_cnt = Fast /\ sd'.cs_en = TRUE
          /\ sd'.intra = 0 /\ sd'.write = 0 /\ sd'.read = 0 /\ sd'.start = FALSE
      BY <1>1, <1>5, <2>1, <2>5 DEF NextInit, CtlInv, SdShape, SdFields
    <3>2. SdShape'
      BY <3>1 DEF SdShape
    <3>3. SdPlace'
      BY <3>1 DEF SdPlace, Powering, InFillers, InCommand, Writing, Seeking, Reading, Waiting
    <3>4. QED BY <1>5, <3>1, <3>2, <3>3 DEF CtlStep, CtlInv, StartFalls
  <2>6. QED BY <1>3, <1>5, <2>2, <2>3, <2>4, <2>5
<1>6. QED BY <1>1, <1>2, <1>4, <1>5, CommandMoves

LEMMA InitialiseStep ==
  ASSUME CtlInv, ~sd.ready, sd' = Initialise
  PROVE  CtlStep
<1>1. sd.init \in {0, 2, 1, 4, 6, 8, 3, 5, 7, 9}
  BY DEF CtlInv, SdPlace
<1>2. QED
  BY <1>1, PoweringStep, SelectingStep, InitFillersStep, InitCommandStep DEF Powering, Selecting

LEMMA NextWriteStep ==
  ASSUME CtlInv, sd.ready, sd.write \in 1 .. 2, ~sd.start, sd' = NextWrite
  PROVE  CtlStep
<1>1. sd.read = 0
  BY DEF CtlInv, SdPlace
<1>2. Goes(sd.init, sd.write + 1, 0, 0) /\ (~sd'.cs_en => ~sd.cs_en)
  BY <1>1 DEF NextWrite, Goes, CtlInv, SdShape, SdFields
<1>3. ~Resting'
  BY <1>2 DEF Goes, Resting, Selecting, Waiting, Writing
<1>4. Begins
  BY <1>2, <1>3 DEF Goes, Begins
<1>5. QED BY <1>4, RoutineBegins

LEMMA NextReadStep ==
  ASSUME CtlInv, sd.ready, sd.write = 0, sd.read \in 1 .. 3, ~sd.start, sd' = NextRead
  PROVE  CtlStep
<1>1. Goes(sd.init, 0, sd.read + 1, 0) /\ (~sd'.cs_en => ~sd.cs_en)
  BY DEF NextRead, Goes, CtlInv, SdShape, SdFields
<1>2. ~Resting'
  BY <1>1 DEF Goes, Resting, Selecting, Waiting, Writing
<1>3. Begins
  BY <1>1, <1>2 DEF Goes, Begins
<1>4. QED BY <1>3, RoutineBegins

LEMMA WriteDataMoves ==
  ASSUME CtlInv, Writing, NEW byte, sd' = WriteData(byte)
  PROVE  \/ \E k \in 0 .. 26 : /\ StepsTo(k, WritingUp)
                               /\ k = 26 => done
         \/ Goes(sd.init, 0, 0, 0) /\ (~sd'.cs_en => ~sd.cs_en) /\ sd.intra = 26
<1>1. /\ sd.ready /\ sd.intra \in 0 .. 26 /\ sd.read = 0
      /\ sd.start => sd.intra \in WritingUp
      /\ sd.intra \in {0, 3, 6, 9, 10, 13, 15, 17, 18, 21, 22, 25, 26} => ~sd.start
  BY Lowered DEF Writing, WritingUp, CtlInv, SdPlace
<1>2. CASE sd.intra \in {0, 10, 18}
  <2>1. sd' = Offer(Filler, sd.intra + 1)
    BY <1>2 DEF WriteData
  <2>2. StepsTo(sd.intra + 1, WritingUp)
    BY <1>1, <1>2, <2>1, OfferStep
  <2>3. QED BY <1>2, <2>2
<1>3. CASE sd.intra \in {1, 4, 11, 19, 23}
  <2>1. sd' = Raise(sd.intra + 1)
    BY <1>3 DEF WriteData
  <2>2. StepsTo(sd.intra + 1, WritingUp)
    BY <1>3, <2>1, RaiseStep DEF WritingUp
  <2>3. QED BY <1>3, <2>2
<1>4. CASE sd.intra \in {2, 12, 14, 16, 20, 24}
  <2>1. sd' = Lower(sd.intra + 1)
    BY <1>4 DEF WriteData
  <2>2. StepsTo(sd.intra + 1, WritingUp)
    BY <1>4, <2>1, LowerStep
  <2>3. QED BY <1>4, <2>2
<1>5. CASE sd.intra = 3
  <2>1. sd' = Offer(StartToken, 4) \/ sd' = sd
    BY <1>5 DEF WriteData
  <2>2. StepsTo(4, WritingUp) \/ StepsTo(sd.intra, WritingUp)
    BY <1>1, <1>5, <2>1, OfferStep, StayStep
  <2>3. QED BY <1>5, <2>2
<1>6. CASE sd.intra = 5
  <2>1. sd' = [Lower(6) EXCEPT !.cnt = 0]
    BY <1>6 DEF WriteData
  <2>2. StepsTo(6, WritingUp)
    BY <1>6, <2>1 DEF Lower, StepsTo, CtlInv, SdShape, SdFields
  <2>3. QED BY <2>2
<1>7. CASE sd.intra = 6
  <2>1. sd' = Offer(byte, 7) \/ sd' = sd
    BY <1>7 DEF WriteData
  <2>2. StepsTo(7, WritingUp) \/ StepsTo(sd.intra, WritingUp)
    BY <1>1, <1>7, <2>1, OfferStep, StayStep
  <2>3. QED BY <1>7, <2>2
<1>8. CASE sd.intra = 7
  <2>1. sd' = [Raise(8) EXCEPT !.address_progression = TRUE]
    BY <1>8 DEF WriteData
  <2>2. StepsTo(8, WritingUp)
    BY <1>8, <2>1 DEF Raise, StepsTo, CtlInv, SdShape, SdFields, WritingUp
  <2>3. QED BY <2>2
<1>9. CASE sd.intra = 8
  <2>1. sd' = [Lower(9) EXCEPT !.address_progression = FALSE]
    BY <1>9 DEF WriteData
  <2>2. StepsTo(9, WritingUp)
    BY <1>9, <2>1 DEF Lower, StepsTo, CtlInv, SdShape, SdFields
  <2>3. QED BY <2>2
<1>10. CASE sd.intra = 9
  <2>1. \/ sd' = sd
        \/ sd' = [sd EXCEPT !.cnt = @ + 1, !.intra = 6]
        \/ sd' = [sd EXCEPT !.intra = 10]
    BY <1>10 DEF WriteData
  <2>2. CASE sd' = sd
    <3>1. StepsTo(9, WritingUp)
      BY <1>1, <1>10, <2>2, StayStep
    <3>2. QED BY <3>1
  <2>3. CASE sd' = [sd EXCEPT !.cnt = @ + 1, !.intra = 6]
    <3>1. StepsTo(6, WritingUp)
      BY <1>1, <1>10, <2>3 DEF StepsTo, CtlInv, SdShape, SdFields
    <3>2. QED BY <3>1
  <2>4. CASE sd' = [sd EXCEPT !.intra = 10]
    <3>1. StepsTo(10, WritingUp)
      BY <1>1, <1>10, <2>4 DEF StepsTo, CtlInv, SdShape, SdFields
    <3>2. QED BY <3>1
  <2>5. QED BY <2>1, <2>2, <2>3, <2>4
<1>11. CASE sd.intra \in {13, 15}
  <2>1. sd' = Raise(sd.intra + 1) \/ sd' = sd
    BY <1>11 DEF WriteData
  <2>2. StepsTo(sd.intra + 1, WritingUp) \/ StepsTo(sd.intra, WritingUp)
    BY <1>1, <1>11, <2>1, RaiseStep, StayStep DEF WritingUp
  <2>3. QED BY <1>11, <2>2
<1>12. CASE sd.intra = 17
  <2>1. sd' = [sd EXCEPT !.intra = 18, !.cnt = 0] \/ sd' = sd
    BY <1>12 DEF WriteData
  <2>2. CASE sd' = sd
    <3>1. StepsTo(17, WritingUp)
      BY <1>1, <1>12, <2>2, StayStep
    <3>2. QED BY <3>1
  <2>3. CASE sd' = [sd EXCEPT !.intra = 18, !.cnt = 0]
    <3>1. StepsTo(18, WritingUp)
      BY <1>1, <1>12, <2>3 DEF StepsTo, CtlInv, SdShape, SdFields
    <3>2. QED BY <3>1
  <2>4. QED BY <2>1, <2>2, <2>3
<1>13. CASE sd.intra = 21
  <2>1. \/ sd' = sd
        \/ sd' = [sd EXCEPT !.intra = 22]
        \/ sd' = [sd EXCEPT !.intra = 19]
    BY <1>13 DEF WriteData
  <2>2. CASE sd' = sd
    <3>1. StepsTo(21, WritingUp)
      BY <1>1, <1>13, <2>2, StayStep
    <3>2. QED BY <3>1
  <2>3. CASE sd' = [sd EXCEPT !.intra = 22]
    <3>1. StepsTo(22, WritingUp)
      BY <1>1, <1>13, <2>3 DEF StepsTo, CtlInv, SdShape, SdFields
    <3>2. QED BY <3>1
  <2>4. CASE sd' = [sd EXCEPT !.intra = 19]
    <3>1. StepsTo(19, WritingUp)
      BY <1>1, <1>13, <2>4 DEF StepsTo, CtlInv, SdShape, SdFields
    <3>2. QED BY <3>1
  <2>5. QED BY <2>1, <2>2, <2>3, <2>4
<1>14. CASE sd.intra = 22
  <2>1. sd' = [Offer(Filler, 23) EXCEPT !.cs_en = TRUE]
    BY <1>14 DEF WriteData
  <2>2. StepsTo(23, WritingUp)
    BY <1>1, <1>14, <2>1 DEF Offer, StepsTo, CtlInv, SdShape, SdFields
  <2>3. QED BY <2>2
<1>15. CASE sd.intra = 25
  <2>1. sd' = sd \/ (done /\ sd' = [sd EXCEPT !.intra = 26, !.sdwd = TRUE])
    BY <1>15 DEF WriteData
  <2>2. CASE sd' = sd
    <3>1. StepsTo(25, WritingUp)
      BY <1>1, <1>15, <2>2, StayStep
    <3>2. QED BY <3>1
  <2>3. CASE done /\ sd' = [sd EXCEPT !.intra = 26, !.sdwd = TRUE]
    <3>1. StepsTo(26, WritingUp)
      BY <1>1, <1>15, <2>3 DEF StepsTo, CtlInv, SdShape, SdFields
    <3>2. QED BY <2>3, <3>1
  <2>4. QED BY <2>1, <2>2, <2>3
<1>16. CASE sd.intra = 26
  <2>1. sd' = [sd EXCEPT !.write = 0, !.intra = 0, !.cnt = 0, !.sdwd = FALSE]
    BY <1>16 DEF WriteData
  <2>2. Goes(sd.init, 0, 0, 0) /\ (~sd'.cs_en => ~sd.cs_en)
    BY <1>1, <1>16, <2>1 DEF Goes, CtlInv, SdShape, SdFields
  <2>3. QED BY <1>16, <2>2
<1>17. sd.intra \in {0, 10, 18} \cup {1, 4, 11, 19, 23} \cup {2, 12, 14, 16, 20, 24}
                    \cup {3, 5, 6, 7, 8, 9, 17, 21, 22, 25, 26} \cup {13, 15}
  BY <1>1
<1>18. QED
  BY <1>2, <1>3, <1>4, <1>5, <1>6, <1>7, <1>8, <1>9, <1>10, <1>11, <1>12, <1>13, <1>14, <1>15,
     <1>16, <1>17

LEMMA WriteStep ==
  ASSUME CtlInv, sd.ready, sd.write # 0, NEW block, NEW byte, sd' = Write(block, byte)
  PROVE  CtlStep
<1>1. sd.write \in 1 .. 3 /\ sd.read = 0
  BY DEF CtlInv, SdPlace
<1>2. CASE sd.write = 1
  <2>1. InFillers /\ (sd.start => sd.intra = 2) /\ sd.intra \in 0 .. 3
    BY <1>2, Lowered DEF InFillers
  <2>2. sd' = Fillers(2, NextWrite)
    BY <1>2 DEF Write
  <2>3. CASE \E k \in 0 .. 3 : StepsTo(k, {2})
    BY <2>1, <2>3, FillersStay
  <2>4. CASE sd.intra = 3 /\ done /\ sd' = NextWrite
    BY <1>2, <2>1, <2>4, NextWriteStep
  <2>5. QED BY <2>1, <2>2, <2>3, <2>4, FillersMove
<1>3. CASE sd.write = 2
  <2>1. InCommand /\ (sd.start => sd.intra \in {3, 7}) /\ sd.intra \in 0 .. 8
    BY <1>3, Lowered DEF InCommand
  <2>2. PICK answered : /\ sd' = Command(CMD_24(block), answered)
                        /\ answered \in {NextWrite, AskAgain}
    BY <1>3 DEF Write
  <2>3. CASE \E k \in 0 .. 8 : StepsTo(k, {3, 7})
    BY <2>1, <2>3, CommandStay
  <2>4. CASE sd.intra = 8 /\ done /\ sd' = NextWrite
    BY <1>3, <2>1, <2>4, NextWriteStep
  <2>5. CASE sd.intra = 8 /\ done /\ sd' = AskAgain
    <3>1. StepsTo(6, {3, 7})
      BY <2>1, <2>5, AskAgainStays
    <3>2. QED BY <2>1, <3>1, CommandStay
  <2>6. QED BY <2>1, <2>2, <2>3, <2>4, <2>5, CommandMoves
<1>4. CASE sd.write = 3
  <2>1. Writing
    BY <1>4 DEF Writing
  <2>2. sd' = WriteData(byte)
    BY <1>4 DEF Write
  <2>3. CASE \E k \in 0 .. 26 : StepsTo(k, WritingUp) /\ (k = 26 => done)
    BY <2>1, <2>3, WritingStay
  <2>4. CASE Goes(sd.init, 0, 0, 0) /\ (~sd'.cs_en => ~sd.cs_en) /\ sd.intra = 26
    <3>1. Resting
      BY <2>1, <2>4 DEF Resting
    <3>2. Begins
      BY <2>4, <3>1 DEF Goes, Begins
    <3>3. QED BY <3>2, RoutineBegins
  <2>5. QED BY <2>1, <2>2, <2>3, <2>4, WriteDataMoves
<1>5. QED BY <1>1, <1>2, <1>3, <1>4

LEMMA ReadTokenStep ==
  ASSUME CtlInv, Seeking, sd' = ReadToken
  PROVE  CtlStep
<1>1. sd.ready /\ sd.write = 0 /\ sd.read = 3
  BY DEF Seeking
<1>2. sd.intra \in 0 .. 3 /\ (sd.start => sd.intra = 2)
  BY Lowered
<1>3. CASE \E k \in 0 .. 3 : StepsTo(k, {2})
  BY <1>3, SeekingStay
<1>4. CASE sd.intra = 0
  <2>1. sd' = Offer(Filler, 1)
    BY <1>4 DEF ReadToken
  <2>2. StepsTo(1, {2})
    BY <1>2, <1>4, <2>1, OfferStep
  <2>3. QED BY <1>3, <2>2
<1>5. CASE sd.intra = 1
  <2>1. sd' = Raise(2)
    BY <1>5 DEF ReadToken
  <2>2. StepsTo(2, {2})
    BY <2>1, RaiseStep
  <2>3. QED BY <1>3, <2>2
<1>6. CASE sd.intra = 2
  <2>1. sd' = Lower(3)
    BY <1>6 DEF ReadToken
  <2>2. StepsTo(3, {2})
    BY <2>1, LowerStep
  <2>3. QED BY <1>3, <2>2
<1>7. CASE sd.intra = 3
  <2>1. \/ sd' = sd
        \/ sd' = NextRead
        \/ sd' = [sd EXCEPT !.intra = 1]
    BY <1>7 DEF ReadToken
  <2>2. CASE sd' = sd
    <3>1. StepsTo(sd.intra, {2})
      BY <1>2, <1>7, <2>2, StayStep
    <3>2. QED BY <1>3, <1>7, <3>1
  <2>3. CASE sd' = NextRead
    BY <1>1, <1>2, <1>7, <2>3, NextReadStep
  <2>4. CASE sd' = [sd EXCEPT !.intra = 1]
    <3>1. StepsTo(1, {2})
      BY <1>2, <1>7, <2>4 DEF StepsTo, CtlInv, SdShape, SdFields
    <3>2. QED BY <1>3, <3>1
  <2>5. QED BY <2>1, <2>2, <2>3, <2>4
<1>8. QED BY <1>2, <1>4, <1>5, <1>6, <1>7

LEMMA ReadDataStep ==
  ASSUME CtlInv, Reading, sd' = ReadData
  PROVE  CtlStep
<1>1. /\ sd.ready /\ sd.write = 0 /\ sd.read = 4 /\ sd.intra \in 0 .. 12
      /\ sd.intra \in {0, 1, 3, 4, 5, 6, 8, 10, 12} => ~sd.start
  BY Lowered DEF Reading
<1>2. CASE \E k \in 0 .. 12 : StepsTo(k, {2, 7, 9, 11})
  BY <1>2, ReadingStay
<1>3. CASE sd.intra = 0
  <2>1. sd' = [Offer(Filler, 1) EXCEPT !.cnt = 0]
    BY <1>3 DEF ReadData
  <2>2. StepsTo(1, {2, 7, 9, 11})
    BY <1>1, <1>3, <2>1 DEF Offer, StepsTo, CtlInv, SdShape, SdFields
  <2>3. QED BY <1>2, <2>2
<1>4. CASE sd.intra = 1
  <2>1. sd' = [Raise(2) EXCEPT !.address_progression = FALSE]
    BY <1>4 DEF ReadData
  <2>2. StepsTo(2, {2, 7, 9, 11})
    BY <1>1, <1>4, <2>1 DEF Raise, StepsTo, CtlInv, SdShape, SdFields
  <2>3. QED BY <1>2, <2>2
<1>5. CASE sd.intra \in {2, 7, 9, 11}
  <2>1. sd' = Lower(sd.intra + 1)
    BY <1>5 DEF ReadData
  <2>2. StepsTo(sd.intra + 1, {2, 7, 9, 11})
    BY <2>1, LowerStep
  <2>3. QED BY <1>2, <1>5, <2>2
<1>6. CASE sd.intra = 3
  <2>1. sd' = sd \/ sd' = [sd EXCEPT !.SDC_DEV = spi.rx, !.intra = 4]
    BY <1>6 DEF ReadData
  <2>2. StepsTo(3, {2, 7, 9, 11}) \/ StepsTo(4, {2, 7, 9, 11})
    <3>1. CASE sd' = sd
      BY <1>1, <1>6, <3>1, StayStep
    <3>2. CASE sd' = [sd EXCEPT !.SDC_DEV = spi.rx, !.intra = 4]
      BY <1>1, <1>6, <3>2 DEF StepsTo, CtlInv, SdShape, SdFields
    <3>3. QED BY <2>1, <3>1, <3>2
  <2>3. QED BY <1>2, <2>2
<1>7. CASE sd.intra = 4
  <2>1. \/ sd' = [sd EXCEPT !.address_progression = TRUE, !.cnt = @ + 1, !.intra = 1]
        \/ sd' = [sd EXCEPT !.address_progression = TRUE, !.cnt = 0, !.intra = 5]
    <3>1. sd' = [sd EXCEPT !.address_progression = TRUE,
                           !.cnt = IF More THEN @ + 1 ELSE 0,
                           !.intra = IF More THEN 1 ELSE 5]
      BY <1>7 DEF ReadData
    <3>2. CASE More
      BY <3>1, <3>2
    <3>3. CASE ~More
      BY <3>1, <3>3
    <3>4. QED BY <3>2, <3>3
  <2>2. StepsTo(1, {2, 7, 9, 11}) \/ StepsTo(5, {2, 7, 9, 11})
    <3>1. CASE sd' = [sd EXCEPT !.address_progression = TRUE, !.cnt = @ + 1, !.intra = 1]
      BY <1>1, <1>7, <3>1 DEF StepsTo, CtlInv, SdShape, SdFields
    <3>2. CASE sd' = [sd EXCEPT !.address_progression = TRUE, !.cnt = 0, !.intra = 5]
      BY <1>1, <1>7, <3>2 DEF StepsTo, CtlInv, SdShape, SdFields
    <3>3. QED BY <2>1, <3>1, <3>2
  <2>3. QED BY <1>2, <2>2
<1>8. CASE sd.intra = 5
  <2>1. sd' = [Offer(Filler, 6) EXCEPT !.address_progression = FALSE, !.cnt = 0]
    BY <1>8 DEF ReadData
  <2>2. StepsTo(6, {2, 7, 9, 11})
    BY <1>1, <1>8, <2>1 DEF Offer, StepsTo, CtlInv, SdShape, SdFields
  <2>3. QED BY <1>2, <2>2
<1>9. CASE sd.intra = 6
  <2>1. sd' = Raise(7)
    BY <1>9 DEF ReadData
  <2>2. StepsTo(7, {2, 7, 9, 11})
    BY <2>1, RaiseStep
  <2>3. QED BY <1>2, <2>2
<1>10. CASE sd.intra \in {8, 10}
  <2>1. sd' = Raise(sd.intra + 1) \/ sd' = sd
    BY <1>10 DEF ReadData
  <2>2. StepsTo(sd.intra + 1, {2, 7, 9, 11}) \/ StepsTo(sd.intra, {2, 7, 9, 11})
    BY <1>1, <1>10, <2>1, RaiseStep, StayStep
  <2>3. QED BY <1>2, <1>10, <2>2
<1>11. CASE sd.intra = 12
  <2>1. \/ sd' = sd
        \/ done /\ sd' = [sd EXCEPT !.read = 0, !.intra = 0, !.cs_en = TRUE, !.sdrd = TRUE]
    BY <1>11 DEF ReadData
  <2>2. CASE sd' = sd
    <3>1. StepsTo(12, {2, 7, 9, 11})
      BY <1>1, <1>11, <2>2, StayStep
    <3>2. QED BY <1>2, <3>1
  <2>3. CASE done /\ sd' = [sd EXCEPT !.read = 0, !.intra = 0, !.cs_en = TRUE, !.sdrd = TRUE]
    <3>1. Goes(sd.init, 0, 0, 0) /\ (~sd'.cs_en => ~sd.cs_en)
      BY <1>1, <1>11, <2>3 DEF Goes, CtlInv, SdShape, SdFields
    <3>2. done
      BY <2>3
    <3>3. Begins
      BY <1>1, <3>1, <3>2 DEF Goes, Begins
    <3>4. QED BY <3>3, RoutineBegins
  <2>4. QED BY <2>1, <2>2, <2>3
<1>12. sd.intra \in {0, 1, 3, 4, 5, 6, 12} \cup {2, 7, 9, 11} \cup {8, 10}
  BY <1>1
<1>13. QED
  BY <1>3, <1>4, <1>5, <1>6, <1>7, <1>8, <1>9, <1>10, <1>11, <1>12

LEMMA ReadStep ==
  ASSUME CtlInv, sd.ready, sd.write = 0, sd.read # 0, NEW block, sd' = Read(block)
  PROVE  CtlStep
<1>1. sd.read \in 1 .. 4
  BY DEF CtlInv, SdPlace
<1>2. CASE sd.read = 1
  <2>1. InFillers /\ (sd.start => sd.intra = 2) /\ sd.intra \in 0 .. 3
    BY <1>2, Lowered DEF InFillers
  <2>2. sd' = Fillers(4, NextRead)
    BY <1>2 DEF Read
  <2>3. CASE \E k \in 0 .. 3 : StepsTo(k, {2})
    BY <2>1, <2>3, FillersStay
  <2>4. CASE sd.intra = 3 /\ done /\ sd' = NextRead
    BY <1>2, <2>1, <2>4, NextReadStep
  <2>5. QED BY <2>1, <2>2, <2>3, <2>4, FillersMove
<1>3. CASE sd.read = 2
  <2>1. InCommand /\ (sd.start => sd.intra \in {3, 7}) /\ sd.intra \in 0 .. 8
    BY <1>3, Lowered DEF InCommand
  <2>2. PICK answered : /\ sd' = Command(CMD_17(block), answered)
                        /\ answered \in {NextRead, AskAgain}
    BY <1>3 DEF Read
  <2>3. CASE \E k \in 0 .. 8 : StepsTo(k, {3, 7})
    BY <2>1, <2>3, CommandStay
  <2>4. CASE sd.intra = 8 /\ done /\ sd' = NextRead
    BY <1>3, <2>1, <2>4, NextReadStep
  <2>5. CASE sd.intra = 8 /\ done /\ sd' = AskAgain
    <3>1. StepsTo(6, {3, 7})
      BY <2>1, <2>5, AskAgainStays
    <3>2. QED BY <2>1, <3>1, CommandStay
  <2>6. QED BY <2>1, <2>2, <2>3, <2>4, <2>5, CommandMoves
<1>4. CASE sd.read = 3
  BY <1>4, ReadTokenStep DEF Seeking, Read
<1>5. CASE sd.read = 4
  BY <1>5, ReadDataStep DEF Reading, Read
<1>6. QED BY <1>1, <1>2, <1>3, <1>4, <1>5

LEMMA WaitStep ==
  ASSUME CtlInv, Waiting, NEW sdws, NEW sdrs, ~(sdws /\ sdrs), sd' = Wait(sdws, sdrs)
  PROVE  CtlStep
<1>1. ~sd.start /\ sd.ready /\ sd.intra = 0 /\ Resting
  BY Lowered DEF Waiting, Resting, CtlInv, SdPlace
<1>2. /\ DOMAIN sd' = SdFields
      /\ sd'.ready = sd.ready /\ sd'.init = sd.init /\ sd'.clk_cnt = sd.clk_cnt
      /\ sd'.intra = sd.intra /\ sd'.start = sd.start
  BY DEF Wait, CtlInv, SdShape, SdFields
<1>3. sd'.write \in {0, 1} /\ sd'.read \in {0, 1} /\ (sd'.write # 0 => sd'.read = 0)
  BY DEF Wait, CtlInv, SdShape, SdFields
<1>4. sd'.cs_en \in BOOLEAN
  <2>1. sd'.cs_en = (sd.cs_en /\ ~sdws /\ ~sdrs)
    BY DEF Wait, CtlInv, SdShape, SdFields
  <2>2. QED BY <2>1
<1>5. Begins
  <2>1. sd'.start = FALSE
    BY <1>1, <1>2 DEF CtlInv, SdShape
  <2>2. QED BY <1>1, <1>2, <1>3, <1>4, <2>1 DEF Begins
<1>6. QED BY <1>5, RoutineBegins

LEMMA ControllerStep ==
  ASSUME CtlInv, NEW sdws, NEW sdrs, ~(sdws /\ sdrs), NEW block, NEW byte,
         SdClock(sdws, sdrs, block, byte)
  PROVE  CtlStep
<1>1. CASE ~sd.ready
  BY <1>1, InitialiseStep DEF SdClock
<1>2. CASE sd.ready /\ sd.write # 0
  BY <1>2, WriteStep DEF SdClock
<1>3. CASE sd.ready /\ sd.write = 0 /\ sd.read # 0
  BY <1>3, ReadStep DEF SdClock
<1>4. CASE sd.ready /\ sd.write = 0 /\ sd.read = 0
  BY <1>4, WaitStep DEF SdClock, Waiting
<1>5. QED BY <1>1, <1>2, <1>3, <1>4

-----------------------------------------------------------------------------
(* One edge of the engine.                                                 *)

\* sclk turns while a byte is under way, never on two edges in a row.
Turns ==
  /\ spi.state \in {1, 2} /\ ~spi.rise /\ ~spi.fall
  /\ spi'.div = 0
  /\ spi'.sclk <=> ~spi.sclk
  /\ spi'.rise <=> ~spi.sclk
  /\ spi'.fall <=> spi.sclk
Holds ==
  /\ spi'.sclk = spi.sclk
  /\ ~spi'.rise /\ ~spi'.fall

Clocked == spi'.sclk = Divided.sclk /\ spi'.rise = Divided.rise /\ spi'.fall = Divided.fall
           /\ spi'.div = Divided.div

LEMMA DividedFields ==
  ASSUME EngInv
  PROVE  /\ DOMAIN Divided = SpiFields
         /\ Divided.state = spi.state /\ Divided.bit = spi.bit
         /\ Divided.sclk \in BOOLEAN /\ Divided.rise \in BOOLEAN /\ Divided.fall \in BOOLEAN
<1>1. CASE spi.state \notin {1, 2}
  <2>1. Divided = [spi EXCEPT !.div = 0, !.rise = FALSE, !.fall = FALSE]
    BY <1>1 DEF Divided
  <2>2. QED BY <2>1 DEF EngInv, SpiShape, SpiFields
<1>2. CASE spi.state \in {1, 2} /\ spi.div = sd.clk_cnt
  <2>1. Divided = [spi EXCEPT !.div = 0, !.sclk = ~@, !.rise = ~spi.sclk, !.fall = spi.sclk]
    BY <1>2 DEF Divided
  <2>2. DOMAIN Divided = SpiFields /\ Divided.state = spi.state /\ Divided.bit = spi.bit
    BY <2>1 DEF EngInv, SpiShape, SpiFields
  <2>3. Divided.sclk = ~spi.sclk
    BY <2>1 DEF EngInv, SpiShape, SpiFields
  <2>4. Divided.rise = ~spi.sclk
    BY <2>1 DEF EngInv, SpiShape, SpiFields
  <2>5. Divided.fall = spi.sclk
    BY <2>1 DEF EngInv, SpiShape, SpiFields
  <2>6. Divided.sclk \in BOOLEAN
    BY <2>3
  <2>7. Divided.rise \in BOOLEAN
    BY <2>4
  <2>8. Divided.fall \in BOOLEAN
    BY <2>5 DEF EngInv, SpiShape
  <2>9. QED BY <2>2, <2>6, <2>7, <2>8
<1>3. CASE spi.state \in {1, 2} /\ spi.div # sd.clk_cnt
  <2>1. Divided = [spi EXCEPT !.div = @ + 1, !.rise = FALSE, !.fall = FALSE]
    BY <1>3 DEF Divided
  <2>2. QED BY <2>1 DEF EngInv, SpiShape, SpiFields
<1>4. QED BY <1>1, <1>2, <1>3

LEMMA ClockTurns ==
  ASSUME CtlInv, EngInv, Clocked
  PROVE  Turns \/ Holds
<1>1. CASE spi.state \notin {1, 2}
  <2>1. Divided = [spi EXCEPT !.div = 0, !.rise = FALSE, !.fall = FALSE]
    BY <1>1 DEF Divided
  <2>2. QED BY <2>1 DEF EngInv, SpiShape, SpiFields, Clocked, Holds
<1>2. CASE spi.state \in {1, 2} /\ spi.div = sd.clk_cnt
  <2>1. Divided = [spi EXCEPT !.div = 0, !.sclk = ~@, !.rise = ~spi.sclk, !.fall = spi.sclk]
    BY <1>2 DEF Divided
  <2>2. Divided.sclk = ~spi.sclk
    BY <2>1 DEF EngInv, SpiShape, SpiFields
  <2>3. Divided.rise = ~spi.sclk
    BY <2>1 DEF EngInv, SpiShape, SpiFields
  <2>4. Divided.fall = spi.sclk
    BY <2>1 DEF EngInv, SpiShape, SpiFields
  <2>5. Divided.div = 0
    BY <2>1 DEF EngInv, SpiShape, SpiFields
  <2>6. spi.div # 0
    BY <1>2, SdAssumption DEF CtlInv, SdShape
  <2>7. ~spi.rise /\ ~spi.fall
    BY <2>6 DEF EngInv, Edges
  <2>8. QED BY <1>2, <2>2, <2>3, <2>4, <2>5, <2>7 DEF Clocked, Turns
<1>3. CASE spi.state \in {1, 2} /\ spi.div # sd.clk_cnt
  <2>1. Divided = [spi EXCEPT !.div = @ + 1, !.rise = FALSE, !.fall = FALSE]
    BY <1>3 DEF Divided
  <2>2. QED BY <2>1 DEF EngInv, SpiShape, SpiFields, Clocked, Holds
<1>4. QED BY <1>1, <1>2, <1>3

\* The states of the engine, and the bit it is at.
Byteward ==
  /\ spi.state = 0 => spi'.state = IF sd.start THEN 1 ELSE 0
  /\ spi.state = 1 => IF spi.fall THEN spi'.state = 2 /\ spi'.bit = 7 ELSE spi'.state = 1
  /\ spi.state = 2 =>
       IF ~spi.fall /\ spi.rise
       THEN spi'.bit = (spi.bit + 7) % 8 /\ spi'.state = IF spi.bit = 0 THEN 3 ELSE 2
       ELSE spi'.bit = spi.bit /\ spi'.state = 2
  /\ spi.state = 3 => spi'.state = 0

LEMMA EngineMoves ==
  ASSUME CtlInv, EngInv, NEW miso, SpiClock(miso)
  PROVE  DOMAIN spi' = SpiFields /\ Clocked /\ Byteward
<1> DEFINE D == Divided
<1>1. /\ DOMAIN D = SpiFields /\ D.state = spi.state /\ D.bit = spi.bit
      /\ D.sclk \in BOOLEAN /\ D.rise \in BOOLEAN /\ D.fall \in BOOLEAN
  BY DividedFields
<1>2. CASE spi.state = 0
  <2>1. spi' = IF sd.start THEN [D EXCEPT !.state = 1, !.txr = sd.tx] ELSE D
    BY <1>2 DEF SpiClock
  <2>. HIDE DEF D
  <2>2. CASE sd.start
    <3>1. spi' = [D EXCEPT !.state = 1, !.txr = sd.tx]
      BY <2>1, <2>2
    <3>2. /\ DOMAIN spi' = SpiFields /\ spi'.state = 1 /\ spi'.div = D.div
          /\ spi'.sclk = D.sclk /\ spi'.rise = D.rise /\ spi'.fall = D.fall
      BY <1>1, <3>1 DEF SpiFields
    <3>3. QED BY <1>2, <2>2, <3>2 DEF Clocked, Byteward, D
  <2>3. CASE ~sd.start
    <3>1. spi' = D
      BY <2>1, <2>3
    <3>2. QED BY <1>1, <1>2, <2>3, <3>1 DEF Clocked, Byteward, D
  <2>4. QED BY <2>2, <2>3
<1>3. CASE spi.state = 1
  <2>1. spi' = IF spi.fall THEN Aligned ELSE D
    BY <1>3 DEF SpiClock
  <2>. HIDE DEF D
  <2>2. CASE spi.fall
    <3>1. spi' = [D EXCEPT !.state = 2, !.bit = 7, !.mosi = Bit(spi.txr, 7)]
      BY <2>1, <2>2 DEF Aligned, D
    <3>2. /\ DOMAIN spi' = SpiFields /\ spi'.state = 2 /\ spi'.bit = 7 /\ spi'.div = D.div
          /\ spi'.sclk = D.sclk /\ spi'.rise = D.rise /\ spi'.fall = D.fall
      BY <1>1, <3>1 DEF SpiFields
    <3>3. QED BY <1>3, <2>2, <3>2 DEF Clocked, Byteward, D
  <2>3. CASE ~spi.fall
    <3>1. spi' = D
      BY <2>1, <2>3
    <3>2. QED BY <1>1, <1>3, <2>3, <3>1 DEF Clocked, Byteward, D
  <2>4. QED BY <2>2, <2>3
<1>4. CASE spi.state = 2
  <2>1. spi' = Exchange(miso)
    BY <1>4 DEF SpiClock
  <2>2. spi' = IF spi.fall THEN [D EXCEPT !.mosi = Bit(spi.txr, spi.bit)]
               ELSE IF spi.rise
               THEN [D EXCEPT !.rx = WithBit(@, spi.bit, miso), !.bit = (@ + 7) % 8,
                              !.state = IF LastBit THEN 3 ELSE 2]
               ELSE D
    BY <2>1 DEF Exchange
  <2>. HIDE DEF D
  <2>3. CASE spi.fall
    <3>1. spi' = [D EXCEPT !.mosi = Bit(spi.txr, spi.bit)]
      BY <2>2, <2>3
    <3>2. /\ DOMAIN spi' = SpiFields /\ spi'.state = D.state /\ spi'.bit = D.bit
          /\ spi'.div = D.div
          /\ spi'.sclk = D.sclk /\ spi'.rise = D.rise /\ spi'.fall = D.fall
      BY <1>1, <3>1 DEF SpiFields
    <3>3. QED BY <1>1, <1>4, <2>3, <3>2 DEF Clocked, Byteward, D
  <2>4. CASE ~spi.fall /\ spi.rise
    <3>1. spi' = [D EXCEPT !.rx = WithBit(@, spi.bit, miso), !.bit = (@ + 7) % 8,
                           !.state = IF LastBit THEN 3 ELSE 2]
      BY <2>2, <2>4
    <3>2. /\ DOMAIN spi' = SpiFields /\ spi'.state = (IF LastBit THEN 3 ELSE 2)
          /\ spi'.bit = (D.bit + 7) % 8 /\ spi'.div = D.div
          /\ spi'.sclk = D.sclk /\ spi'.rise = D.rise /\ spi'.fall = D.fall
      BY <1>1, <3>1 DEF SpiFields
    <3>3. QED BY <1>1, <1>4, <2>4, <3>2 DEF Clocked, Byteward, LastBit, D
  <2>5. CASE ~spi.fall /\ ~spi.rise
    <3>1. spi' = D
      BY <2>2, <2>5
    <3>2. QED BY <1>1, <1>4, <2>5, <3>1 DEF Clocked, Byteward, D
  <2>6. QED BY <2>3, <2>4, <2>5
<1>5. CASE spi.state = 3
  <2>1. spi' = [D EXCEPT !.state = 0]
    BY <1>5 DEF SpiClock
  <2>. HIDE DEF D
  <2>2. /\ DOMAIN spi' = SpiFields /\ spi'.state = 0 /\ spi'.div = D.div
        /\ spi'.sclk = D.sclk /\ spi'.rise = D.rise /\ spi'.fall = D.fall
    BY <1>1, <2>1 DEF SpiFields
  <2>3. QED BY <1>5, <2>2 DEF Clocked, Byteward, D
<1>6. QED BY <1>2, <1>3, <1>4, <1>5 DEF EngInv, SpiShape

LEMMA EngineStep ==
  ASSUME CtlInv, EngInv, NEW miso, SpiClock(miso)
  PROVE  EngInv'
<1>1. DOMAIN spi' = SpiFields /\ Clocked /\ Byteward
  BY EngineMoves
<1>2. Turns \/ Holds
  BY <1>1, ClockTurns
<1>3. spi.state \in 0 .. 3
  BY DEF EngInv, SpiShape
<1>4. spi'.state \in 0 .. 3
  BY <1>1, <1>3 DEF Byteward
<1>5. spi'.sclk \in BOOLEAN /\ spi'.rise \in BOOLEAN /\ spi'.fall \in BOOLEAN
  BY <1>1, DividedFields DEF Clocked
<1>6. (spi'.rise => spi'.sclk /\ spi'.div = 0) /\ (spi'.fall => ~spi'.sclk /\ spi'.div = 0)
  BY <1>2 DEF Turns, Holds
<1>7. spi'.state = 3 => spi'.sclk
  <2>1. spi'.state = 3 => spi.state = 2 /\ spi.rise
    BY <1>1, <1>3 DEF Byteward
  <2>2. spi.rise => spi.sclk
    BY DEF EngInv, Edges
  <2>3. QED BY <1>2, <2>1, <2>2 DEF Turns, Holds
<1>8. QED BY <1>1, <1>4, <1>5, <1>6, <1>7 DEF EngInv, SpiShape, Edges

-----------------------------------------------------------------------------
(* The card hears one edge.                                                *)

LEMMA AnswerFields ==
  ASSUME CardShape(card), NEW frame, NEW d
  PROVE  CardShape(Answer(frame, d))
<1>1. CASE frame[1] = 64
  BY <1>1 DEF Answer, CardShape, CardFields
<1>2. CASE frame[1] = 72
  BY <1>2 DEF Answer, CardShape, CardFields
<1>3. CASE frame[1] = 119
  BY <1>3 DEF Answer, CardShape, CardFields
<1>4. CASE frame[1] = 105 /\ card.app /\ card.polls > 0
  BY <1>4 DEF Answer, CardShape, CardFields
<1>5. CASE frame[1] = 105 /\ card.app /\ card.polls = 0
  BY <1>5 DEF Answer, CardShape, CardFields
<1>6. CASE frame[1] = 88 /\ card.mode = "ready"
  BY <1>6 DEF Answer, CardShape, CardFields
<1>7. CASE frame[1] = 81 /\ card.mode = "ready"
  BY <1>7 DEF Answer, CardShape, CardFields
<1>8. CASE /\ frame[1] \notin {64, 72, 119}
           /\ ~(frame[1] = 105 /\ card.app /\ card.polls > 0)
           /\ ~(frame[1] = 105 /\ card.app /\ card.polls = 0)
           /\ ~(frame[1] = 88 /\ card.mode = "ready")
           /\ ~(frame[1] = 81 /\ card.mode = "ready")
  BY <1>8 DEF Answer, CardShape, CardFields
<1>9. QED BY <1>1, <1>2, <1>3, <1>4, <1>5, <1>6, <1>7, <1>8

LEMMA TakeFields ==
  ASSUME CardShape(card), NEW data, NEW ok, NEW busy
  PROVE  CardShape(Take(data, ok, busy))
<1>1. CASE ok
  BY <1>1 DEF Take, CardShape, CardFields
<1>2. CASE ~ok
  BY <1>2 DEF Take, CardShape, CardFields
<1>3. QED BY <1>1, <1>2

LEMMA HearFields ==
  ASSUME CardShape(card), NEW b, NEW c \in Hear(b)
  PROVE  CardShape(c)
<1> DEFINE heard == Append(card.heard, b)
           Drop(x) == [x EXCEPT !.heard = <<>>]
<1>1. \/ c = card
      \/ c = [card EXCEPT !.heard = heard]
      \/ \E d \in Delays : c = Drop(Answer(heard, d))
      \/ c = [card EXCEPT !.want = "data"]
      \/ \E ok \in BOOLEAN, n \in Busy : c = Drop(Take(SubSeq(heard, 1, BlockLen), ok, n))
  <2>1. CASE card.queue # <<>>
    BY <2>1 DEF Hear
  <2>2. CASE card.queue = <<>> /\ card.want = "command"
    <3>1. c \in (IF card.heard = <<>> /\ b \div 64 # 1 THEN {card}
                 ELSE IF Len(heard) < 6 THEN {[card EXCEPT !.heard = heard]}
                 ELSE {Drop(Answer(heard, d)) : d \in Delays})
      BY <2>2 DEF Hear
    <3>. HIDE DEF heard, Drop
    <3>2. QED BY <3>1
  <2>3. CASE card.queue = <<>> /\ card.want = "token"
    <3>1. c = IF b = StartToken THEN [card EXCEPT !.want = "data"] ELSE card
      BY <2>3 DEF Hear
    <3>2. QED BY <3>1
  <2>4. CASE card.queue = <<>> /\ card.want = "data"
    <3>1. c \in (IF Len(heard) < BlockLen + 2 THEN {[card EXCEPT !.heard = heard]}
                 ELSE {Drop(Take(SubSeq(heard, 1, BlockLen), ok, n)) :
                         ok \in BOOLEAN, n \in Busy})
      BY <2>4 DEF Hear
    <3>. HIDE DEF heard, Drop
    <3>2. QED BY <3>1
  <2>5. QED BY <2>1, <2>2, <2>3, <2>4 DEF CardShape
<1>2. CASE \E d \in Delays : c = Drop(Answer(heard, d))
  BY <1>2, AnswerFields DEF CardShape, CardFields
<1>3. CASE \E ok \in BOOLEAN, n \in Busy : c = Drop(Take(SubSeq(heard, 1, BlockLen), ok, n))
  BY <1>3, TakeFields DEF CardShape, CardFields
<1>4. CASE c = [card EXCEPT !.heard = heard]
  BY <1>4 DEF CardShape, CardFields
<1>5. CASE c = [card EXCEPT !.want = "data"]
  BY <1>5 DEF CardShape, CardFields
<1>6. QED BY <1>1, <1>2, <1>3, <1>4, <1>5

\* The bits the card counts of a byte.
Counts ==
  IF sd.cs_en THEN card'.bits = 0
  ELSE IF SclkRises THEN card'.bits = IF card.bits < 7 THEN card.bits + 1 ELSE 0
  ELSE card'.bits = card.bits

LEMMA CardStep ==
  ASSUME CardShape(card), Card
  PROVE  CardShape(card') /\ Counts
<1> DEFINE in == 2 * card.in + spi.mosi
<1>1. CASE sd.cs_en
  <2>1. card' = [card EXCEPT !.bits = 0, !.in = 0, !.heard = <<>>, !.queue = <<>>,
                             !.out = Filler, !.miso = 1]
    BY <1>1 DEF Card
  <2>2. CardShape(card') /\ card'.bits = 0
    BY <2>1 DEF CardShape, CardFields
  <2>3. QED BY <1>1, <2>2 DEF Counts
<1>2. CASE ~sd.cs_en /\ SclkFalls
  <2>1. card' = [card EXCEPT !.miso = Bit(card.out, 7 - card.bits)]
    BY <1>2 DEF Card
  <2>2. CardShape(card') /\ card'.bits = card.bits
    BY <2>1 DEF CardShape, CardFields
  <2>3. ~SclkRises
    BY <1>2 DEF SclkFalls, SclkRises
  <2>4. QED BY <1>2, <2>2, <2>3 DEF Counts
<1>3. CASE ~sd.cs_en /\ ~SclkFalls /\ SclkRises /\ card.bits < 7
  <2>1. card' = [card EXCEPT !.bits = @ + 1, !.in = in]
    BY <1>3 DEF Card
  <2>2. CardShape(card') /\ card'.bits = card.bits + 1
    BY <2>1 DEF CardShape, CardFields
  <2>3. QED BY <1>3, <2>2 DEF Counts
<1>4. CASE ~sd.cs_en /\ ~SclkFalls /\ SclkRises /\ ~(card.bits < 7)
  <2>1. PICK c \in Hear(in) : card' = Queued(c)
    BY <1>4 DEF Card
  <2>2. CardShape(c)
    BY <2>1, HearFields
  <2>3. CardShape(card') /\ card'.bits = 0
    BY <2>1, <2>2 DEF Queued, CardShape, CardFields
  <2>4. QED BY <1>4, <2>3 DEF Counts
<1>5. CASE ~sd.cs_en /\ ~SclkFalls /\ ~SclkRises
  <2>1. card' = card
    BY <1>5 DEF Card
  <2>2. QED BY <1>5, <2>1 DEF Counts
<1>6. QED BY <1>1, <1>2, <1>3, <1>4, <1>5

-----------------------------------------------------------------------------
(* Controller, engine and card together.                                   *)

LEMMA RestedStep ==
  ASSUME StepInv, CtlStep, EngInv', Clocked, Byteward
  PROVE  Rested'
<1> SUFFICES ASSUME Resting' PROVE spi'.state = 0 /\ spi'.sclk
  BY DEF Rested
<1>1. CASE Resting
  <2>1. spi.state = 0 /\ spi.sclk
    BY <1>1 DEF StepInv, Rested
  <2>2. ~sd.start
    BY <1>1 DEF StepInv, CtlInv, StartFalls, Lowering, WritingUp, Resting, Selecting, Waiting,
       InFillers, InCommand, Writing, Seeking, Reading
  <2>3. spi'.state = 0
    BY <2>1, <2>2 DEF Byteward
  <2>4. Holds
    BY <2>1, ClockTurns DEF StepInv, Turns
  <2>5. spi'.sclk = spi.sclk
    BY <2>4 DEF Holds
  <2>6. QED BY <2>1, <2>3, <2>5
<1>2. CASE done
  <2>1. spi.state = 3 /\ spi.sclk
    BY <1>2 DEF StepInv, done, EngInv, Edges
  <2>2. spi'.state = 0
    BY <2>1 DEF Byteward
  <2>3. Holds
    BY <2>1, ClockTurns DEF StepInv, Turns
  <2>4. spi'.sclk = spi.sclk
    BY <2>3 DEF Holds
  <2>5. QED BY <2>1, <2>2, <2>4
<1>3. QED BY <1>1, <1>2 DEF CtlStep

LEMMA TogetherStep ==
  ASSUME StepInv, CtlStep, EngInv', Clocked, Byteward, Counts
  PROVE  Together'
<1> SUFFICES ASSUME ~sd'.cs_en PROVE Together'
  BY DEF Together
<1>1. Turns \/ Holds
  BY ClockTurns DEF StepInv
<1>2. spi.sclk \in BOOLEAN /\ spi.state \in 0 .. 3 /\ (spi.fall => ~spi.sclk)
      /\ (spi.rise => spi.sclk) /\ spi'.sclk \in BOOLEAN
  BY DEF StepInv, EngInv, SpiShape, Edges
<1>3. CASE sd.cs_en
  <2>1. Resting
    BY <1>3 DEF CtlStep
  <2>2. spi.state = 0 /\ spi.sclk /\ ~sd.start
    BY <2>1 DEF StepInv, Rested, CtlInv, StartFalls, Lowering, WritingUp, Resting, Selecting,
       Waiting, InFillers, InCommand, Writing, Seeking, Reading
  <2>3. spi'.state = 0 /\ spi'.sclk
    <3>1. spi'.state = 0
      BY <2>2 DEF Byteward
    <3>2. Holds
      BY <1>1, <2>2 DEF Turns
    <3>3. spi'.sclk = spi.sclk
      BY <3>2 DEF Holds
    <3>4. QED BY <2>2, <3>1, <3>3
  <2>4. card'.bits = 0
    BY <1>3 DEF Counts
  <2>5. QED BY <2>3, <2>4 DEF Together
<1>4. CASE ~sd.cs_en /\ spi.state = 0
  <2>1. card.bits = 0 /\ spi.sclk
    BY <1>4 DEF StepInv, Together
  <2>2. Holds
    BY <1>1, <1>4 DEF Turns
  <2>3. card'.bits = 0
    BY <1>4, <2>1, <2>2 DEF Counts, SclkRises, Holds
  <2>4. spi'.state \in {0, 1}
    BY <1>4 DEF Byteward
  <2>5. QED BY <2>1, <2>2, <2>3, <2>4 DEF Together, Holds
<1>5. CASE ~sd.cs_en /\ spi.state = 1 /\ spi.fall
  <2>1. card.bits = 0 /\ ~spi.rise /\ ~spi.sclk
    BY <1>2, <1>5 DEF StepInv, Together
  <2>2. Holds
    BY <1>1, <1>5 DEF Turns
  <2>3. card'.bits = 0
    BY <1>5, <2>1, <2>2 DEF Counts, SclkRises, Holds
  <2>4. spi'.state = 2 /\ spi'.bit = 7
    BY <1>5 DEF Byteward
  <2>5. QED BY <2>2, <2>3, <2>4 DEF Together, Holds
<1>6. CASE ~sd.cs_en /\ spi.state = 1 /\ ~spi.fall
  <2>1. card.bits = 0 /\ ~spi.rise /\ spi.sclk
    BY <1>6 DEF StepInv, Together
  <2>2. ~SclkRises
    BY <2>1 DEF SclkRises
  <2>3. card'.bits = 0
    BY <1>6, <2>1, <2>2 DEF Counts
  <2>4. spi'.state = 1
    BY <1>6 DEF Byteward
  <2>5. ~spi'.rise /\ (spi'.sclk \/ spi'.fall)
    BY <1>1, <2>1 DEF Turns, Holds
  <2>6. QED BY <2>3, <2>4, <2>5 DEF Together
<1>7. CASE ~sd.cs_en /\ spi.state = 2 /\ ~spi.fall /\ spi.rise
  <2>1. spi.bit \in 0 .. 7 /\ card.bits = (8 - spi.bit) % 8
    BY <1>7 DEF StepInv, Together
  <2>2. Holds
    BY <1>1, <1>7 DEF Turns
  <2>3. card'.bits = card.bits
    BY <1>7, <1>2, <2>2 DEF Counts, SclkRises, Holds
  <2>4. CASE spi.bit = 0
    <3>1. spi'.state = 3 /\ card'.bits = 0
      BY <1>7, <2>1, <2>3, <2>4 DEF Byteward
    <3>2. QED BY <3>1 DEF Together
  <2>5. CASE spi.bit # 0
    <3>1. spi'.state = 2 /\ spi'.bit = (spi.bit + 7) % 8
      BY <1>7, <2>5 DEF Byteward
    <3>2. spi'.bit = spi.bit - 1 /\ card.bits = 8 - spi.bit
      BY <2>1, <2>5, <3>1
    <3>3. QED BY <2>1, <2>2, <2>3, <2>5, <3>1, <3>2 DEF Together, Holds
  <2>6. QED BY <2>4, <2>5
<1>8. CASE ~sd.cs_en /\ spi.state = 2 /\ ~(~spi.fall /\ spi.rise)
  <2>1. ~spi.rise
    BY <1>2, <1>8
  <2>2. spi.bit \in 0 .. 7 /\ card.bits = 7 - spi.bit
    BY <1>8, <2>1 DEF StepInv, Together
  <2>3. spi'.state = 2 /\ spi'.bit = spi.bit
    BY <1>8 DEF Byteward
  <2>4. CASE SclkRises
    <3>1. spi'.rise
      BY <1>1, <2>4 DEF SclkRises, Turns, Holds
    <3>2. card'.bits = (8 - spi.bit) % 8
      BY <1>8, <2>2, <2>4 DEF Counts
    <3>3. QED BY <2>2, <2>3, <3>1, <3>2 DEF Together
  <2>5. CASE ~SclkRises
    <3>1. ~spi'.rise
      BY <1>1, <1>2, <2>5 DEF SclkRises, Turns, Holds
    <3>2. card'.bits = card.bits
      BY <1>8, <2>5 DEF Counts
    <3>3. QED BY <2>2, <2>3, <3>1, <3>2 DEF Together
  <2>6. QED BY <2>4, <2>5
<1>9. CASE ~sd.cs_en /\ spi.state = 3
  <2>1. card.bits = 0 /\ spi.sclk
    BY <1>9 DEF StepInv, Together, EngInv, Edges
  <2>2. Holds
    BY <1>1, <1>9 DEF Turns
  <2>3. card'.bits = 0
    BY <1>9, <2>1, <2>2 DEF Counts, SclkRises, Holds
  <2>4. spi'.state = 0
    BY <1>9 DEF Byteward
  <2>5. QED BY <2>1, <2>2, <2>3, <2>4 DEF Together, Holds
<1>10. QED
  BY <1>2, <1>3, <1>4, <1>5, <1>6, <1>7, <1>8, <1>9

LEMMA StepInvInit == Init => StepInv
<1> SUFFICES ASSUME Init PROVE StepInv
  OBVIOUS
<1>1. sd = SdInit /\ spi = SpiInit /\ \E polls \in 0 .. MaxPolls : card = CardInit(polls)
  BY DEF Init
<1>2. SdShape
  BY <1>1 DEF SdInit, SdShape, SdFields
<1>3. Powering /\ SdPlace
  BY <1>1 DEF SdInit, SdPlace, Powering, InFillers, InCommand, Writing, Seeking, Reading, Waiting
<1>4. ~sd.start /\ sd.cs_en /\ ~Resting
  BY <1>1 DEF SdInit, Resting, Selecting, Waiting, Writing
<1>5. EngInv
  BY <1>1 DEF SpiInit, EngInv, SpiShape, SpiFields, Edges
<1>6. CardShape(card)
  BY <1>1 DEF CardInit, CardShape, CardFields
<1>7. QED
  BY <1>2, <1>3, <1>4, <1>5, <1>6 DEF StepInv, CtlInv, StartFalls, Rested, Together

LEMMA StepInvTick ==
  ASSUME StepInv, NEW calls, Tick(calls)
  PROVE  StepInv'
<1> DEFINE sdws == dev_start_signal /\ host.call = "write"
           sdrs == dev_start_signal /\ host.call = "read"
<1>1. CtlInv /\ EngInv /\ CardShape(card)
  BY DEF StepInv
<1>2. CtlStep
  <2>1. ~(sdws /\ sdrs)
    OBVIOUS
  <2>2. SdClock(sdws, sdrs, host.sar, rdata)
    BY DEF Tick
  <2>. HIDE DEF sdws, sdrs
  <2>3. QED BY <1>1, <2>1, <2>2, ControllerStep
<1>3. EngInv' /\ Clocked /\ Byteward
  BY <1>1, EngineMoves, EngineStep DEF Tick
<1>4. CardShape(card') /\ Counts
  BY <1>1, CardStep DEF Tick
<1>5. Rested'
  BY <1>2, <1>3, RestedStep
<1>6. Together'
  BY <1>2, <1>3, <1>4, TogetherStep
<1>7. CtlInv'
  BY <1>2 DEF CtlStep
<1>8. QED
  BY <1>3, <1>4, <1>5, <1>6, <1>7 DEF StepInv

LEMMA StepInvNext == StepInv /\ [Next]_vars => StepInv'
<1> SUFFICES ASSUME StepInv, [Next]_vars PROVE StepInv'
  OBVIOUS
<1>1. CASE Next
  BY <1>1, StepInvTick DEF Next
<1>2. CASE UNCHANGED vars
  BY <1>2 DEF vars, StepInv, CtlInv, SdShape, SdPlace, StartFalls, Lowering, Rested, Resting,
     EngInv, SpiShape, Edges, CardShape, Together, Powering, Selecting, InFillers, InCommand,
     Writing, Seeking, Reading, Waiting
<1>3. QED BY <1>1, <1>2

\* Controller, engine and card never lose step: whatever the dividers, the
\* length of a block, the program's calls, and the card's delays and answers,
\* the selected card has seen a whole number of bytes whenever the engine rests
\* (clk_div, sclk and bit_cnt, SPISDCONTROLLER.v:1085-1150).
THEOREM BytesInStep == Spec => []InStep
<1>1. StepInv => InStep
  BY DEF StepInv, Together, InStep
<1>2. QED
  BY <1>1, StepInvInit, StepInvNext, PTL DEF Spec

-----------------------------------------------------------------------------
(* What a block's bytes are at each of these edges.                        *)

Calls == {"write", "read"}
Idle == sd.write = 0 /\ sd.read = 0
Top(byte, k) == byte \div Weight(k)

\* The controller waits for done; the byte it waits for is on its way, but for
\* a refused block, for whose answer it waits once too often.
Awaiting ==
  \/ InFillers /\ sd.intra = 3
  \/ InCommand /\ sd.intra \in {4, 8}
  \/ Writing /\ sd.intra \in {3, 9, 13, 15, 17, 21, 25}
  \/ Writing /\ sd.intra = 6 /\ sd.cnt = 0
  \/ Seeking /\ sd.intra = 3
  \/ Reading /\ sd.intra \in {3, 8, 10, 12}
Hung == Writing /\ sd.intra = 17 /\ spi.state = 0
PaceInv ==
  /\ Lowering => sd.start
  /\ Awaiting => spi.state \in 1 .. 3 \/ Hung
  /\ ~Awaiting => spi.state = 0
  /\ spi.state # 0 => spi.txr = sd.tx

\* The card has the whole byte; what the controller will have been told for it.
Over == spi.state = 3 \/ (spi.state = 2 /\ spi.rise /\ spi.bit = 0)
Told == IF spi.state = 3 THEN spi.rx ELSE WithBit(spi.rx, 0, card.miso)

\* The bits of the byte under way, on both sides.
ByteTypes ==
  /\ sd.tx \in Byte /\ spi.txr \in Byte /\ spi.rx \in Byte
  /\ spi.mosi \in 0 .. 1 /\ card.miso \in 0 .. 1
  /\ spi.state = 2 => spi.bit \in 0 .. 7
  /\ card.out \in Byte /\ card.queue \in Seq(Byte) /\ card.heard \in Seq(Byte)
BitInv ==
  ~sd.cs_en =>
    /\ spi.state # 2 \/ Over => card.in = 0
    /\ spi.state \in {1, 2} /\ ~spi.sclk => card.miso = Bit(card.out, 7 - card.bits)
    /\ spi.state = 2 /\ ~spi.sclk /\ ~spi.fall => spi.mosi = Bit(spi.txr, spi.bit)
    /\ spi.state = 2 /\ ~Over =>
         /\ Top(spi.rx, spi.bit + 1) = Top(card.out, spi.bit + 1)
         /\ card.in = Top(spi.txr, 8 - card.bits)
         /\ spi.rise => card.miso = Bit(card.out, spi.bit)

\* What the card is about, whatever bit it is at; and what the call is about.
Script ==
  [want |-> card.want, heard |-> card.heard, queue |-> card.queue, out |-> card.out,
   block |-> card.block, disk |-> card.disk]
Deal == [buf |-> host.buf, sar |-> host.sar, disk |-> host.disk, ram |-> host.ram]

\* The bytes a card with script s will send, from the one under way.
Left(s) == Len(s.queue) + 1
Coming(s, i) == IF i = 1 THEN s.out ELSE s.queue[i - 1]

\* What it makes of a filler: nothing, in all of these.
Silent(s) == s.want = "command" /\ s.heard = <<>>
Clear(s) == Silent(s) /\ s.queue = <<>> /\ s.out = Filler
Mute(s) == Silent(s) /\ \A i \in 1 .. Left(s) : Coming(s, i) # 0
Listening(s, frame, n) ==
  /\ s.want = "command" /\ s.queue = <<>> /\ s.out = Filler
  /\ Len(s.heard) = n /\ \A i \in 1 .. n : s.heard[i] = frame[i]

WantsToken(s, d) == s.want = "token" /\ s.heard = <<>> /\ s.block = d.sar
TokenReady(s, d) == WantsToken(s, d) /\ s.queue = <<>>
WriteGranted(s, d) ==
  /\ WantsToken(s, d)
  /\ Coming(s, Left(s)) = 0 /\ \A i \in 1 .. Left(s) - 1 : Coming(s, i) = Filler
Sent(d, i) == d.ram[d.buf + i - 1]
DataHeard(s, d, n) ==
  /\ s.want = "data" /\ s.queue = <<>> /\ s.block = d.sar
  /\ Len(s.heard) = n /\ \A i \in 1 .. n : i <= BlockLen => s.heard[i] = Sent(d, i)
Stored(s, d) == s.disk = [d.disk EXCEPT ![d.sar] = [i \in 1 .. BlockLen |-> Sent(d, i)]]
Judged(s, d, byte) == Silent(s) /\ ((byte = 229 /\ Stored(s, d)) \/ byte = 235)

Wanted(d, i) == d.disk[d.sar][i]
DataFrom(s, d, t, n) ==
  /\ t + BlockLen - n <= Left(s) + 1
  /\ \A j \in 1 .. BlockLen - n : Coming(s, t + j - 1) = Wanted(d, n + j)
TokenAt(s, d, k, t) ==
  /\ \A i \in k .. t - 1 : Coming(s, i) = Filler
  /\ Coming(s, t) = StartToken
  /\ DataFrom(s, d, t + 1, 0)
TokenFrom(s, d, k) == \E t \in k .. Left(s) : TokenAt(s, d, k, t)
ReadGranted(s, d) ==
  /\ Silent(s)
  /\ \E z \in 1 .. Left(s) :
       /\ \A i \in 1 .. z - 1 : Coming(s, i) = Filler
       /\ Coming(s, z) = 0
       /\ TokenFrom(s, d, z + 1)
TokenComing(s, d) == Silent(s) /\ TokenFrom(s, d, 1)
DataComing(s, d, n) == Silent(s) /\ DataFrom(s, d, 1, n)

\* Command and answer, of either kind.
Frame(call, block) == IF call = "write" THEN CMD_24(block) ELSE CMD_17(block)
Grants(call, s, d) == Mute(s) \/ IF call = "write" THEN WriteGranted(s, d) ELSE ReadGranted(s, d)
Granted(call, s, d) == IF call = "write" THEN TokenReady(s, d) ELSE TokenComing(s, d)
Opening == sd.ready /\ (sd.write = 1 \/ (sd.write = 0 /\ sd.read = 1))
Commanding == sd.ready /\ (sd.write = 2 \/ (sd.write = 0 /\ sd.read = 2))

OpeningPlace == Clear(Script) /\ (sd.intra # 0 => sd.tx = Filler)
CommandPlace ==
  LET frame == Frame(host.call, host.sar)
  IN  /\ sd.intra = 0 => Clear(Script)
      /\ sd.intra \in 1 .. 4 =>
           /\ sd.n \in 0 .. 5 /\ sd.cmd = frame
           /\ sd.intra # 1 => sd.tx = frame[sd.n + 1]
           /\ ~Over => Listening(Script, frame, sd.n)
           /\ Over /\ sd.n = 5 => Grants(host.call, Script, Deal)
           /\ Over /\ sd.n # 5 => Listening(Script, frame, sd.n + 1)
      /\ sd.intra \in 5 .. 8 /\ (Over => Told # 0) => Grants(host.call, Script, Deal)
      /\ sd.intra \in 5 .. 8 /\ Over /\ Told = 0 => Granted(host.call, Script, Deal)
      /\ sd.intra \in 6 .. 8 => sd.tx = Filler

WritePlace ==
  /\ sd.intra \in (1 .. 3) \cup (11 .. 18) \cup (19 .. 26) => sd.tx = Filler
  /\ sd.intra \in 4 .. 5 \/ (sd.intra = 6 /\ sd.cnt = 0) => sd.tx = StartToken
  /\ sd.intra \in 7 .. 9 => sd.tx = Sent(Deal, sd.cnt + 1)
  /\ sd.intra \in 6 .. 9 => sd.cnt \in 0 .. BlockLen - 1
  /\ sd.intra \in 0 .. 5 => TokenReady(Script, Deal)
  /\ sd.intra = 6 /\ sd.cnt = 0 => IF Over THEN DataHeard(Script, Deal, 0)
                                   ELSE TokenReady(Script, Deal)
  /\ sd.intra = 6 /\ sd.cnt > 0 => DataHeard(Script, Deal, sd.cnt)
  /\ sd.intra \in 7 .. 9 => DataHeard(Script, Deal, IF Over THEN sd.cnt + 1 ELSE sd.cnt)
  /\ sd.intra \in 10 .. 13 => DataHeard(Script, Deal, IF Over THEN BlockLen + 1 ELSE BlockLen)
  /\ sd.intra \in 14 .. 15 => IF Over THEN Judged(Script, Deal, card.out)
                                ELSE DataHeard(Script, Deal, BlockLen + 1)
  /\ sd.intra \in 16 .. 17 /\ ~Hung => Judged(Script, Deal, IF Over THEN Told ELSE card.out)
  /\ sd.intra \in 18 .. 26 => Silent(Script) /\ Stored(Script, Deal)
  /\ sd.intra \in 0 .. 14 \/ (sd.intra = 15 /\ ~Over) => card.disk = host.disk

SeekPlace ==
  /\ sd.intra \in 1 .. 3 => sd.tx = Filler
  /\ IF ~Over THEN TokenComing(Script, Deal)
     ELSE \/ Told # StartToken /\ TokenComing(Script, Deal)
          \/ Told = StartToken /\ DataComing(Script, Deal, 0)
ReadPlace ==
  /\ sd.intra # 0 => sd.tx = Filler
  /\ sd.intra \in 1 .. 4 => sd.cnt \in 0 .. BlockLen - 1
  /\ sd.intra = 0 => DataComing(Script, Deal, 0)
  /\ sd.intra \in 1 .. 3 =>
       IF Over THEN DataComing(Script, Deal, sd.cnt + 1) /\ Told = Wanted(Deal, sd.cnt + 1)
       ELSE DataComing(Script, Deal, sd.cnt)
  /\ sd.intra = 4 => DataComing(Script, Deal, sd.cnt + 1) /\ sd.SDC_DEV = Wanted(Deal, sd.cnt + 1)
  /\ sd.intra >= 5 => Silent(Script)

InitFrames == {CMD_0, CMD_8, CMD_55, ACMD_41}
InitPlace ==
  /\ sd.tx \notin {81, 88}
  /\ InCommand /\ sd.intra \in 1 .. 4 => sd.cmd \in InitFrames /\ sd.n \in 0 .. 5
  /\ card.want = "command"
  /\ card.heard # <<>> => card.heard[1] \notin {81, 88}

CardPlace ==
  /\ ~sd.ready => InitPlace
  /\ Waiting => card.want = "command" /\ sd.cs_en
  /\ Opening => OpeningPlace
  /\ Commanding => CommandPlace
  /\ Writing => WritePlace
  /\ Seeking => SeekPlace
  /\ Reading => ReadPlace
  /\ sd.write \in 1 .. 2 \/ sd.read # 0 => card.disk = host.disk
  /\ ~Idle => (sd.cs_en <=> Writing /\ sd.intra >= 23)

\* MAR, RAM and the pulses.
Loads(r, d, n) ==
  \A a \in Address :
    r[a] = IF a \in d.buf .. d.buf + n - 1 /\ a \notin Unwritten
           THEN Wanted(d, a - d.buf + 1) ELSE d.ram[a]
Loaded(n) == Loads(ram, Deal, n)
At(n) == host.mar = host.buf + n /\ ~host.inc
Fresh == rdata = ram[host.mar]
Pulses ==
  /\ sd.address_progression <=>
       \/ Writing /\ sd.intra = 8
       \/ Reading /\ (sd.intra = 5 \/ (sd.intra = 1 /\ sd.cnt > 0))
  /\ sd.sdwd <=> Writing /\ sd.intra = 26
  /\ sd.sdrd => Waiting /\ host.pc = "stalled" /\ host.call = "read" /\ Loaded(BlockLen)
                /\ card.disk = host.disk
WriteWalk ==
  /\ ram = host.ram
  /\ sd.write \in 1 .. 2 \/ sd.intra \in 0 .. 5 \/ (sd.intra = 6 /\ sd.cnt = 0) => At(0) /\ Fresh
  /\ sd.write = 3 /\ sd.intra \in 6 .. 7 => At(sd.cnt) /\ Fresh
  /\ sd.write = 3 /\ sd.intra = 8 => At(sd.cnt)
  /\ sd.write = 3 /\ sd.intra = 9 =>
       \/ host.inc /\ host.mar = host.buf + sd.cnt /\ spi.state = 1 /\ ~spi.fall
       \/ At(sd.cnt + 1) /\ (spi.state = 1 \/ Fresh)
ReadWalk ==
  /\ sd.read \in 1 .. 3 \/ sd.intra = 0 => At(0) /\ Loaded(0)
  /\ sd.read = 4 /\ sd.intra = 1 =>
       IF sd.cnt = 0 THEN At(0) /\ Loaded(0)
       ELSE At(sd.cnt - 1) /\ Loaded(sd.cnt - 1) /\ sd.SDC_DEV = Wanted(Deal, sd.cnt)
  /\ sd.read = 4 /\ sd.intra = 2 =>
       /\ Loaded(sd.cnt)
       /\ IF sd.cnt = 0 THEN At(0) ELSE host.inc /\ host.mar = host.buf + sd.cnt - 1
  /\ sd.read = 4 /\ sd.intra \in 3 .. 4 => At(sd.cnt) /\ Loaded(sd.cnt)
  /\ sd.read = 4 /\ sd.intra = 5 =>
       At(BlockLen - 1) /\ Loaded(BlockLen - 1) /\ sd.SDC_DEV = Wanted(Deal, BlockLen)
  /\ sd.read = 4 /\ sd.intra >= 6 => Loaded(BlockLen)
HostPlace ==
  /\ DOMAIN host = {"pc", "call", "mar", "inc", "buf", "sar", "ram", "disk"}
  /\ host.pc \in {"program", "start", "stalled", "done"} /\ host.call \in Calls
  /\ ram \in [Address -> Byte] /\ card.disk \in [BlockNo -> Block]
  /\ host.pc # "program" => /\ host.buf \in Buffers /\ host.sar \in BlockNo
                            /\ host.ram \in [Address -> Byte] /\ host.disk \in [BlockNo -> Block]
  /\ host.pc # "stalled" => Idle /\ ~sd.sdrd
  /\ host.pc = "program" => ~host.inc
  /\ host.pc = "start" => At(0) /\ ram = host.ram /\ card.disk = host.disk
  /\ host.pc = "done" => BlockCopied
  /\ sd.write # 0 => host.call = "write" /\ WriteWalk
  /\ sd.read # 0 => host.call = "read" /\ ReadWalk

CopyInv == PaceInv /\ ByteTypes /\ BitInv /\ CardPlace /\ Pulses /\ HostPlace

-----------------------------------------------------------------------------
(* Bits and bytes.                                                         *)

LEMMA Weights ==
  /\ Weight(0) = 1 /\ Weight(1) = 2 /\ Weight(2) = 4 /\ Weight(3) = 8 /\ Weight(4) = 16
  /\ Weight(5) = 32 /\ Weight(6) = 64 /\ Weight(7) = 128 /\ Weight(8) = 256
BY DEF Weight

\* What is left of a bit of a byte, from the left: one bit more.
LEMMA OneBitMore ==
  ASSUME NEW b \in Byte, NEW k \in 0 .. 7
  PROVE  Bit(b, k) \in 0 .. 1 /\ Top(b, k) = 2 * Top(b, k + 1) + Bit(b, k)
<1> USE DEF Byte, Top, Bit
<1>0. CASE k = 0
  BY <1>0, Weights
<1>1. CASE k = 1
  BY <1>1, Weights
<1>2. CASE k = 2
  BY <1>2, Weights
<1>3. CASE k = 3
  BY <1>3, Weights
<1>4. CASE k = 4
  BY <1>4, Weights
<1>5. CASE k = 5
  BY <1>5, Weights
<1>6. CASE k = 6
  BY <1>6, Weights
<1>7. CASE k = 7
  <2>1. Top(b, 7) = b \div 128 /\ Top(b, 8) = 0 /\ Bit(b, 7) = (b \div 128) % 2
    BY <1>7, Weights
  <2>2. b \div 128 \in 0 .. 1
    OBVIOUS
  <2>3. QED BY <1>7, <2>1, <2>2
<1>8. QED BY <1>0, <1>1, <1>2, <1>3, <1>4, <1>5, <1>6, <1>7

LEMMA NoBit == ASSUME NEW b \in Byte PROVE Top(b, 8) = 0 /\ Top(b, 0) = b
BY Weights DEF Byte, Top

\* A bit put into a byte: the bits above it stay.
LEMMA BitPut ==
  ASSUME NEW a \in Byte, NEW k \in 0 .. 7, NEW v \in 0 .. 1
  PROVE  /\ WithBit(a, k, v) \in Byte
         /\ Top(WithBit(a, k, v), k) = 2 * Top(a, k + 1) + v
<1>0. CASE k = 0
  <2> DEFINE above == a \div 2
             at == (a \div 1) % 2
             below == a % 1
  <2>1. /\ above \in 0 .. 127 /\ at \in 0 .. 1 /\ below \in 0 .. 0
        /\ a = 2 * above + 1 * at + below
    BY DEF Byte
  <2>2. Top(a, k + 1) = above /\ WithBit(a, k, v) = a + (v - at) * 1
    BY <1>0, Weights DEF Top, WithBit, Bit
  <2> HIDE DEF above, at, below
  <2>3. WithBit(a, k, v) = 2 * above + 1 * v + below
    BY <2>1, <2>2
  <2>4. WithBit(a, k, v) \in Byte
    BY <2>1, <2>3 DEF Byte
  <2>5. (2 * above + 1 * v + below) \div 1 = 2 * above + v
    BY <2>1
  <2>6. QED BY <1>0, <2>2, <2>3, <2>4, <2>5, Weights DEF Top
<1>1. CASE k = 1
  <2> DEFINE above == a \div 4
             at == (a \div 2) % 2
             below == a % 2
  <2>1. /\ above \in 0 .. 63 /\ at \in 0 .. 1 /\ below \in 0 .. 1
        /\ a = 4 * above + 2 * at + below
    BY DEF Byte
  <2>2. Top(a, k + 1) = above /\ WithBit(a, k, v) = a + (v - at) * 2
    BY <1>1, Weights DEF Top, WithBit, Bit
  <2> HIDE DEF above, at, below
  <2>3. WithBit(a, k, v) = 4 * above + 2 * v + below
    BY <2>1, <2>2
  <2>4. WithBit(a, k, v) \in Byte
    BY <2>1, <2>3 DEF Byte
  <2>5. (4 * above + 2 * v + below) \div 2 = 2 * above + v
    BY <2>1
  <2>6. QED BY <1>1, <2>2, <2>3, <2>4, <2>5, Weights DEF Top
<1>2. CASE k = 2
  <2> DEFINE above == a \div 8
             at == (a \div 4) % 2
             below == a % 4
  <2>1. /\ above \in 0 .. 31 /\ at \in 0 .. 1 /\ below \in 0 .. 3
        /\ a = 8 * above + 4 * at + below
    BY DEF Byte
  <2>2. Top(a, k + 1) = above /\ WithBit(a, k, v) = a + (v - at) * 4
    BY <1>2, Weights DEF Top, WithBit, Bit
  <2> HIDE DEF above, at, below
  <2>3. WithBit(a, k, v) = 8 * above + 4 * v + below
    BY <2>1, <2>2
  <2>4. WithBit(a, k, v) \in Byte
    BY <2>1, <2>3 DEF Byte
  <2>5. (8 * above + 4 * v + below) \div 4 = 2 * above + v
    BY <2>1
  <2>6. QED BY <1>2, <2>2, <2>3, <2>4, <2>5, Weights DEF Top
<1>3. CASE k = 3
  <2> DEFINE above == a \div 16
             at == (a \div 8) % 2
             below == a % 8
  <2>1. /\ above \in 0 .. 15 /\ at \in 0 .. 1 /\ below \in 0 .. 7
        /\ a = 16 * above + 8 * at + below
    BY DEF Byte
  <2>2. Top(a, k + 1) = above /\ WithBit(a, k, v) = a + (v - at) * 8
    BY <1>3, Weights DEF Top, WithBit, Bit
  <2> HIDE DEF above, at, below
  <2>3. WithBit(a, k, v) = 16 * above + 8 * v + below
    BY <2>1, <2>2
  <2>4. WithBit(a, k, v) \in Byte
    BY <2>1, <2>3 DEF Byte
  <2>5. (16 * above + 8 * v + below) \div 8 = 2 * above + v
    BY <2>1
  <2>6. QED BY <1>3, <2>2, <2>3, <2>4, <2>5, Weights DEF Top
<1>4. CASE k = 4
  <2> DEFINE above == a \div 32
             at == (a \div 16) % 2
             below == a % 16
  <2>1. /\ above \in 0 .. 7 /\ at \in 0 .. 1 /\ below \in 0 .. 15
        /\ a = 32 * above + 16 * at + below
    BY DEF Byte
  <2>2. Top(a, k + 1) = above /\ WithBit(a, k, v) = a + (v - at) * 16
    BY <1>4, Weights DEF Top, WithBit, Bit
  <2> HIDE DEF above, at, below
  <2>3. WithBit(a, k, v) = 32 * above + 16 * v + below
    BY <2>1, <2>2
  <2>4. WithBit(a, k, v) \in Byte
    BY <2>1, <2>3 DEF Byte
  <2>5. (32 * above + 16 * v + below) \div 16 = 2 * above + v
    BY <2>1
  <2>6. QED BY <1>4, <2>2, <2>3, <2>4, <2>5, Weights DEF Top
<1>5. CASE k = 5
  <2> DEFINE above == a \div 64
             at == (a \div 32) % 2
             below == a % 32
  <2>1. /\ above \in 0 .. 3 /\ at \in 0 .. 1 /\ below \in 0 .. 31
        /\ a = 64 * above + 32 * at + below
    BY DEF Byte
  <2>2. Top(a, k + 1) = above /\ WithBit(a, k, v) = a + (v - at) * 32
    BY <1>5, Weights DEF Top, WithBit, Bit
  <2> HIDE DEF above, at, below
  <2>3. WithBit(a, k, v) = 64 * above + 32 * v + below
    BY <2>1, <2>2
  <2>4. WithBit(a, k, v) \in Byte
    BY <2>1, <2>3 DEF Byte
  <2>5. (64 * above + 32 * v + below) \div 32 = 2 * above + v
    BY <2>1
  <2>6. QED BY <1>5, <2>2, <2>3, <2>4, <2>5, Weights DEF Top
<1>6. CASE k = 6
  <2> DEFINE above == a \div 128
             at == (a \div 64) % 2
             below == a % 64
  <2>1. /\ above \in 0 .. 1 /\ at \in 0 .. 1 /\ below \in 0 .. 63
        /\ a = 128 * above + 64 * at + below
    BY DEF Byte
  <2>2. Top(a, k + 1) = above /\ WithBit(a, k, v) = a + (v - at) * 64
    BY <1>6, Weights DEF Top, WithBit, Bit
  <2> HIDE DEF above, at, below
  <2>3. WithBit(a, k, v) = 128 * above + 64 * v + below
    BY <2>1, <2>2
  <2>4. WithBit(a, k, v) \in Byte
    BY <2>1, <2>3 DEF Byte
  <2>5. (128 * above + 64 * v + below) \div 64 = 2 * above + v
    BY <2>1
  <2>6. QED BY <1>6, <2>2, <2>3, <2>4, <2>5, Weights DEF Top
<1>7. CASE k = 7
  <2> DEFINE above == a \div 256
             at == (a \div 128) % 2
             below == a % 128
  <2>1. /\ above \in 0 .. 0 /\ at \in 0 .. 1 /\ below \in 0 .. 127
        /\ a = 256 * above + 128 * at + below
    BY DEF Byte
  <2>2. Top(a, k + 1) = above /\ WithBit(a, k, v) = a + (v - at) * 128
    BY <1>7, Weights DEF Top, WithBit, Bit
  <2> HIDE DEF above, at, below
  <2>3. WithBit(a, k, v) = 256 * above + 128 * v + below
    BY <2>1, <2>2
  <2>4. WithBit(a, k, v) \in Byte
    BY <2>1, <2>3 DEF Byte
  <2>5. (256 * above + 128 * v + below) \div 128 = 2 * above + v
    BY <2>1
  <2>6. QED BY <1>7, <2>2, <2>3, <2>4, <2>5, Weights DEF Top
<1>8. QED BY <1>0, <1>1, <1>2, <1>3, <1>4, <1>5, <1>6, <1>7

LEMMA BitAgrees ==
  ASSUME NEW a \in Byte, NEW b \in Byte, NEW k \in 0 .. 7, Top(a, k + 1) = Top(b, k + 1)
  PROVE  Top(WithBit(a, k, Bit(b, k)), k) = Top(b, k)
<1>1. Bit(b, k) \in 0 .. 1 /\ Top(b, k) = 2 * Top(b, k + 1) + Bit(b, k)
  BY OneBitMore
<1>2. Top(WithBit(a, k, Bit(b, k)), k) = 2 * Top(a, k + 1) + Bit(b, k)
  BY <1>1, BitPut
<1>3. QED BY <1>1, <1>2

-----------------------------------------------------------------------------
(* What an edge leaves of the byte in the engine.                          *)

ByteInEngine(miso) ==
  /\ spi'.txr = IF spi.state = 0 /\ sd.start THEN sd.tx ELSE spi.txr
  /\ spi'.rx = IF spi.state = 2 /\ ~spi.fall /\ spi.rise THEN WithBit(spi.rx, spi.bit, miso)
               ELSE spi.rx
  /\ spi'.mosi = IF spi.state = 1 /\ spi.fall THEN Bit(spi.txr, 7)
                 ELSE IF spi.state = 2 /\ spi.fall THEN Bit(spi.txr, spi.bit)
                 ELSE spi.mosi

LEMMA EngineByte ==
  ASSUME CtlInv, EngInv, NEW miso, SpiClock(miso)
  PROVE  ByteInEngine(miso)
<1> DEFINE D == Divided
<1>1. DOMAIN D = SpiFields /\ D.txr = spi.txr /\ D.rx = spi.rx /\ D.mosi = spi.mosi
  BY DividedFields DEF Divided, EngInv, SpiShape, SpiFields
<1>2. CASE spi.state = 0
  <2>1. spi' = IF sd.start THEN [D EXCEPT !.state = 1, !.txr = sd.tx] ELSE D
    BY <1>2 DEF SpiClock
  <2>. HIDE DEF D
  <2>2. QED BY <1>1, <1>2, <2>1 DEF SpiFields, ByteInEngine
<1>3. CASE spi.state = 1
  <2>1. spi' = IF spi.fall THEN [D EXCEPT !.state = 2, !.bit = 7, !.mosi = Bit(spi.txr, 7)]
               ELSE D
    BY <1>3 DEF SpiClock, Aligned
  <2>. HIDE DEF D
  <2>2. QED BY <1>1, <1>3, <2>1 DEF SpiFields, ByteInEngine
<1>4. CASE spi.state = 2 /\ spi.fall
  <2>1. spi' = [D EXCEPT !.mosi = Bit(spi.txr, spi.bit)]
    BY <1>4 DEF SpiClock, Exchange
  <2>. HIDE DEF D
  <2>2. QED BY <1>1, <1>4, <2>1 DEF SpiFields, ByteInEngine
<1>5. CASE spi.state = 2 /\ ~spi.fall /\ spi.rise
  <2>1. spi' = [D EXCEPT !.rx = WithBit(@, spi.bit, miso), !.bit = (@ + 7) % 8,
                         !.state = IF LastBit THEN 3 ELSE 2]
    BY <1>5 DEF SpiClock, Exchange
  <2>. HIDE DEF D
  <2>2. QED BY <1>1, <1>5, <2>1 DEF SpiFields, ByteInEngine
<1>6. CASE spi.state = 2 /\ ~spi.fall /\ ~spi.rise
  <2>1. spi' = D
    BY <1>6 DEF SpiClock, Exchange
  <2>. HIDE DEF D
  <2>2. QED BY <1>1, <1>6, <2>1 DEF ByteInEngine
<1>7. CASE spi.state = 3
  <2>1. spi' = [D EXCEPT !.state = 0]
    BY <1>7 DEF SpiClock
  <2>. HIDE DEF D
  <2>2. QED BY <1>1, <1>7, <2>1 DEF SpiFields, ByteInEngine
<1>8. QED BY <1>2, <1>3, <1>4, <1>5, <1>6, <1>7 DEF EngInv, SpiShape

\* What it leaves of the card: nothing of a card that is not selected; a bit
\* more in or out; or a whole byte.
Clears ==
  /\ card'.heard = <<>> /\ card'.queue = <<>> /\ card'.out = Filler /\ card'.miso = 1
  /\ card'.in = 0
  /\ card'.want = card.want /\ card'.block = card.block /\ card'.disk = card.disk
KeepsScript ==
  /\ card'.want = card.want /\ card'.heard = card.heard /\ card'.queue = card.queue
  /\ card'.out = card.out /\ card'.block = card.block /\ card'.disk = card.disk
Shows == SclkFalls /\ card'.miso = Bit(card.out, 7 - card.bits) /\ card'.in = card.in
Samples ==
  SclkRises /\ card.bits < 7 /\ card'.miso = card.miso /\ card'.in = 2 * card.in + spi.mosi
Waits == ~SclkFalls /\ ~SclkRises /\ card'.miso = card.miso /\ card'.in = card.in
Ends(b) ==
  /\ SclkRises /\ card.bits >= 7
  /\ \E c \in Hear(b) : card' = Queued(c)

LEMMA CardMoves ==
  ASSUME CardShape(card), ~sd.cs_en => card.bits \in 0 .. 7, Card
  PROVE  IF sd.cs_en THEN Clears
         ELSE \/ KeepsScript /\ (Shows \/ Samples \/ Waits)
              \/ Ends(2 * card.in + spi.mosi)
<1> DEFINE in == 2 * card.in + spi.mosi
<1>1. CASE sd.cs_en
  <2>1. card' = [card EXCEPT !.bits = 0, !.in = 0, !.heard = <<>>, !.queue = <<>>,
                             !.out = Filler, !.miso = 1]
    BY <1>1 DEF Card
  <2>2. QED BY <1>1, <2>1 DEF Clears, CardShape, CardFields
<1>2. CASE ~sd.cs_en /\ SclkFalls
  <2>1. card' = [card EXCEPT !.miso = Bit(card.out, 7 - card.bits)]
    BY <1>2 DEF Card
  <2>2. QED BY <1>2, <2>1 DEF KeepsScript, Shows, CardShape, CardFields
<1>3. CASE ~sd.cs_en /\ ~SclkFalls /\ SclkRises /\ card.bits < 7
  <2>1. card' = [card EXCEPT !.bits = @ + 1, !.in = in]
    BY <1>3 DEF Card
  <2>2. QED BY <1>3, <2>1 DEF KeepsScript, Samples, CardShape, CardFields
<1>4. CASE ~sd.cs_en /\ ~SclkFalls /\ SclkRises /\ ~(card.bits < 7)
  <2>1. \E c \in Hear(in) : card' = Queued(c)
    BY <1>4 DEF Card
  <2>2. card.bits >= 7
    BY <1>4
  <2>3. QED BY <1>4, <2>1, <2>2 DEF Ends
<1>5. CASE ~sd.cs_en /\ ~SclkFalls /\ ~SclkRises
  <2>1. card' = card
    BY <1>5 DEF Card
  <2>2. QED BY <1>5, <2>1 DEF KeepsScript, Waits
<1>6. QED BY <1>1, <1>2, <1>3, <1>4, <1>5

-----------------------------------------------------------------------------
(* The byte on its way between the two.                                    *)

Completes ==
  /\ ~Over /\ Over' /\ Told' = card.out
  /\ \E c \in Hear(spi.txr) : card' = Queued(c)
Keeps == KeepsScript /\ (Over' => Over /\ Told' = Told)

\* The last byte of the card before it is completed, and its answer to it, do
\* not turn up on the line yet.
LEMMA AnswerLine ==
  ASSUME CardShape(card), NEW frame, NEW d PROVE Answer(frame, d).miso = card.miso
<1>1. CASE frame[1] = 64
  BY <1>1 DEF Answer, CardShape, CardFields
<1>2. CASE frame[1] = 72
  BY <1>2 DEF Answer, CardShape, CardFields
<1>3. CASE frame[1] = 119
  BY <1>3 DEF Answer, CardShape, CardFields
<1>4. CASE frame[1] = 105 /\ card.app /\ card.polls > 0
  BY <1>4 DEF Answer, CardShape, CardFields
<1>5. CASE frame[1] = 105 /\ card.app /\ card.polls = 0
  BY <1>5 DEF Answer, CardShape, CardFields
<1>6. CASE frame[1] = 88 /\ card.mode = "ready"
  BY <1>6 DEF Answer, CardShape, CardFields
<1>7. CASE frame[1] = 81 /\ card.mode = "ready"
  BY <1>7 DEF Answer, CardShape, CardFields
<1>8. CASE /\ frame[1] \notin {64, 72, 119}
           /\ ~(frame[1] = 105 /\ card.app /\ card.polls > 0)
           /\ ~(frame[1] = 105 /\ card.app /\ card.polls = 0)
           /\ ~(frame[1] = 88 /\ card.mode = "ready")
           /\ ~(frame[1] = 81 /\ card.mode = "ready")
  BY <1>8 DEF Answer, CardShape, CardFields
<1>9. QED BY <1>1, <1>2, <1>3, <1>4, <1>5, <1>6, <1>7, <1>8

\* What the card can be after a byte it has heard.
Dropped(c) == [c EXCEPT !.heard = <<>>]
LEMMA HearCases ==
  ASSUME CardShape(card), NEW b, NEW c \in Hear(b)
  PROVE  \/ c = card /\ \/ card.queue # <<>>
                        \/ card.want = "command" /\ card.heard = <<>> /\ b \div 64 # 1
                        \/ card.want = "token" /\ b # StartToken
         \/ /\ card.queue = <<>> /\ c = [card EXCEPT !.heard = Append(card.heard, b)]
            /\ \/ /\ card.want = "command" /\ Len(Append(card.heard, b)) < 6
                  /\ card.heard # <<>> \/ b \div 64 = 1
               \/ card.want = "data" /\ Len(Append(card.heard, b)) < BlockLen + 2
         \/ /\ card.queue = <<>> /\ card.want = "command" /\ ~(Len(Append(card.heard, b)) < 6)
            /\ card.heard # <<>> \/ b \div 64 = 1
            /\ \E d \in Delays : c = Dropped(Answer(Append(card.heard, b), d))
         \/ /\ card.queue = <<>> /\ card.want = "token" /\ b = StartToken
            /\ c = [card EXCEPT !.want = "data"]
         \/ /\ card.queue = <<>> /\ card.want = "data"
            /\ ~(Len(Append(card.heard, b)) < BlockLen + 2)
            /\ \E ok \in BOOLEAN, n \in Busy :
                 c = Dropped(Take(SubSeq(Append(card.heard, b), 1, BlockLen), ok, n))
<1> DEFINE heard == Append(card.heard, b)
<1>1. CASE card.queue # <<>>
  BY <1>1 DEF Hear
<1>2. CASE card.queue = <<>> /\ card.want = "command"
  <2>1. c \in (IF card.heard = <<>> /\ b \div 64 # 1 THEN {card}
               ELSE IF Len(heard) < 6 THEN {[card EXCEPT !.heard = heard]}
               ELSE {Dropped(Answer(heard, d)) : d \in Delays})
    BY <1>2 DEF Hear, Dropped
  <2>. HIDE DEF heard
  <2>2. QED BY <1>2, <2>1 DEF heard
<1>3. CASE card.queue = <<>> /\ card.want = "token"
  <2>1. c = IF b = StartToken THEN [card EXCEPT !.want = "data"] ELSE card
    BY <1>3 DEF Hear
  <2>2. QED BY <1>3, <2>1
<1>4. CASE card.queue = <<>> /\ card.want = "data"
  <2>1. c \in (IF Len(heard) < BlockLen + 2 THEN {[card EXCEPT !.heard = heard]}
               ELSE {Dropped(Take(SubSeq(heard, 1, BlockLen), ok, n)) :
                       ok \in BOOLEAN, n \in Busy})
    BY <1>4 DEF Hear, Dropped
  <2>. HIDE DEF heard
  <2>2. QED BY <1>4, <2>1 DEF heard
<1>5. QED BY <1>1, <1>2, <1>3, <1>4 DEF CardShape

LEMMA HearLine ==
  ASSUME CardShape(card), NEW b, NEW c \in Hear(b)
  PROVE  c.miso = card.miso
<1>1. \/ c = card
      \/ c = [card EXCEPT !.heard = Append(card.heard, b)]
      \/ \E d \in Delays : c = Dropped(Answer(Append(card.heard, b), d))
      \/ c = [card EXCEPT !.want = "data"]
      \/ \E ok \in BOOLEAN, n \in Busy :
           c = Dropped(Take(SubSeq(Append(card.heard, b), 1, BlockLen), ok, n))
  BY HearCases
<1>2. CASE \E d \in Delays : c = Dropped(Answer(Append(card.heard, b), d))
  BY <1>2, AnswerLine, AnswerFields DEF CardShape, CardFields, Dropped
<1>3. CASE \E ok \in BOOLEAN, n \in Busy :
             c = Dropped(Take(SubSeq(Append(card.heard, b), 1, BlockLen), ok, n))
  <2>1. PICK ok \in BOOLEAN, n \in Busy :
          c = Dropped(Take(SubSeq(Append(card.heard, b), 1, BlockLen), ok, n))
    BY <1>3
  <2>2. \A data : Take(data, ok, n).miso = card.miso /\ CardShape(Take(data, ok, n))
    BY TakeFields DEF Take, CardShape, CardFields
  <2>3. QED BY <2>1, <2>2 DEF CardShape, CardFields, Dropped
<1>4. CASE c = card \/ c = [card EXCEPT !.heard = Append(card.heard, b)]
           \/ c = [card EXCEPT !.want = "data"]
  BY <1>4 DEF CardShape, CardFields
<1>5. QED BY <1>1, <1>2, <1>3, <1>4

\* How the bits are afterwards: BitInv of the next state, given that the card is
\* selected in it.
BitsNext ==
  /\ spi'.state # 2 \/ Over' => card'.in = 0
  /\ spi'.state \in {1, 2} /\ ~spi'.sclk => card'.miso = Bit(card'.out, 7 - card'.bits)
  /\ spi'.state = 2 /\ ~spi'.sclk /\ ~spi'.fall => spi'.mosi = Bit(spi'.txr, spi'.bit)
  /\ spi'.state = 2 /\ ~Over' =>
       /\ Top(spi'.rx, spi'.bit + 1) = Top(card'.out, spi'.bit + 1)
       /\ card'.in = Top(spi'.txr, 8 - card'.bits)
       /\ spi'.rise => card'.miso = Bit(card'.out, spi'.bit)

\* An edge of engine and card, as far as the byte is concerned.
ByteEdge ==
  /\ Clocked /\ Byteward /\ ByteInEngine(card.miso) /\ Counts /\ Together'
  /\ Turns \/ Holds
  /\ \/ KeepsScript /\ (Shows \/ Samples \/ Waits)
     \/ Ends(2 * card.in + spi.mosi)

LEMMA HeldLine ==
  ASSUME Holds, ByteEdge
  PROVE  KeepsScript /\ Waits
BY DEF Holds, ByteEdge, Shows, Samples, Ends, SclkFalls, SclkRises

\* No byte under way, or only just asked for.
LEMMA BitsBefore ==
  ASSUME StepInv, BitInv, ByteTypes, ~sd.cs_en, ~sd'.cs_en, ByteEdge, spi.state \in {0, 1}
  PROVE  BitsNext /\ Keeps
<1>1. /\ card.bits = 0 /\ card.in = 0 /\ card.bits \in 0 .. 7
      /\ spi.sclk \in BOOLEAN /\ (spi.fall => ~spi.sclk)
  BY DEF StepInv, Together, BitInv, EngInv, SpiShape, Edges
<1>2. CASE spi.state = 0
  <2>1. Holds /\ spi.sclk
    BY <1>2 DEF ByteEdge, Turns, StepInv, Together
  <2>2. KeepsScript /\ Waits
    BY <2>1, HeldLine
  <2>3. spi'.state \in {0, 1} /\ spi'.sclk
    BY <1>2, <2>1 DEF ByteEdge, Byteward, Holds
  <2>4. ~Over'
    BY <2>3 DEF Over
  <2>5. QED BY <1>1, <2>2, <2>3, <2>4 DEF BitsNext, Keeps, Waits
<1>3. CASE spi.state = 1 /\ spi.fall
  <2>1. Holds /\ ~spi.sclk
    BY <1>1, <1>3 DEF ByteEdge, Turns
  <2>2. KeepsScript /\ Waits
    BY <2>1, HeldLine
  <2>3. spi'.state = 2 /\ spi'.bit = 7 /\ ~spi'.rise
    BY <1>3, <2>1 DEF ByteEdge, Byteward, Holds
  <2>4. ~Over'
    BY <2>3 DEF Over
  <2>5. spi'.mosi = Bit(spi.txr, 7) /\ spi'.txr = spi.txr /\ spi'.rx = spi.rx
    BY <1>3 DEF ByteEdge, ByteInEngine
  <2>6. card'.bits = 0 /\ card'.in = 0 /\ card'.miso = card.miso /\ card'.out = card.out
    BY <1>1, <2>1, <2>2 DEF ByteEdge, Counts, Waits, KeepsScript
  <2>7. card.miso = Bit(card.out, 7)
    BY <1>1, <1>3, <2>1 DEF BitInv
  <2>8. Top(spi.rx, 8) = 0 /\ Top(card.out, 8) = 0 /\ Top(spi.txr, 8) = 0
    BY NoBit DEF ByteTypes
  <2>9. QED
    BY <2>2, <2>3, <2>4, <2>5, <2>6, <2>7, <2>8 DEF BitsNext, Keeps
<1>4. CASE spi.state = 1 /\ ~spi.fall
  <2>1. spi'.state = 1
    BY <1>4 DEF ByteEdge, Byteward
  <2>2. ~Over'
    BY <2>1 DEF Over
  <2>3. spi.sclk
    BY <1>4 DEF StepInv, Together
  <2>4. CASE Holds
    <3>1. KeepsScript /\ Waits
      BY <2>4, HeldLine
    <3>2. spi'.sclk
      BY <2>3, <2>4 DEF Holds
    <3>3. QED BY <1>1, <2>1, <2>2, <3>1, <3>2 DEF BitsNext, Keeps, Waits
  <2>5. CASE Turns
    <3>1. ~SclkRises /\ SclkFalls
      BY <2>3, <2>5 DEF SclkRises, SclkFalls, Turns
    <3>2. KeepsScript /\ Shows
      BY <3>1 DEF ByteEdge, Samples, Waits, Ends
    <3>3. card'.bits = card.bits
      BY <3>1 DEF ByteEdge, Counts
    <3>4. QED BY <1>1, <2>1, <2>2, <3>2, <3>3 DEF BitsNext, Keeps, Shows, KeepsScript
  <2>6. QED BY <2>4, <2>5 DEF ByteEdge
<1>5. QED BY <1>2, <1>3, <1>4

\* A byte's bits are sampled and shifted.
LEMMA BitsWithin ==
  ASSUME StepInv, BitInv, ByteTypes, ~sd.cs_en, ~sd'.cs_en, ByteEdge, spi.state = 2, ~Over
  PROVE  BitsNext /\ (Completes \/ Keeps)
<1>1. /\ spi.bit \in 0 .. 7 /\ card.bits = (IF spi.rise THEN (8 - spi.bit) % 8 ELSE 7 - spi.bit)
      /\ spi.sclk \in BOOLEAN /\ spi.fall \in BOOLEAN /\ spi.rise \in BOOLEAN
      /\ (spi.fall => ~spi.sclk) /\ (spi.rise => spi.sclk)
  BY DEF StepInv, Together, EngInv, SpiShape, Edges
<1>2. /\ Top(spi.rx, spi.bit + 1) = Top(card.out, spi.bit + 1)
      /\ card.in = Top(spi.txr, 8 - card.bits)
      /\ spi.rise => card.miso = Bit(card.out, spi.bit)
      /\ ~spi.sclk => card.miso = Bit(card.out, 7 - card.bits)
      /\ ~spi.sclk /\ ~spi.fall => spi.mosi = Bit(spi.txr, spi.bit)
  BY DEF BitInv
<1>3. spi'.txr = spi.txr
  BY DEF ByteEdge, ByteInEngine
<1>4. CASE spi.rise
  <2>1. spi.bit # 0 /\ ~spi.fall /\ card.bits = 8 - spi.bit
    BY <1>1, <1>4 DEF Over
  <2>2. Holds
    BY <1>4 DEF ByteEdge, Turns
  <2>3. KeepsScript /\ Waits
    BY <2>2, HeldLine
  <2>4. /\ spi'.state = 2 /\ spi'.bit = spi.bit - 1
        /\ spi'.rx = WithBit(spi.rx, spi.bit, card.miso) /\ ~spi'.rise /\ spi'.sclk
    <3>1. spi'.bit = (spi.bit + 7) % 8
      BY <1>4, <2>1 DEF ByteEdge, Byteward
    <3>2. spi'.bit = spi.bit - 1
      BY <1>1, <2>1, <3>1
    <3>3. QED BY <1>1, <1>4, <2>1, <2>2, <3>2 DEF ByteEdge, Byteward, ByteInEngine, Holds
  <2>5. ~Over'
    BY <2>4 DEF Over
  <2>6. Top(spi'.rx, spi.bit) = Top(card.out, spi.bit)
    BY <1>1, <1>2, <1>4, <2>4, BitAgrees DEF ByteTypes
  <2>7. card'.bits = 7 - spi'.bit /\ card'.bits = card.bits
    BY <1>1, <2>1, <2>3, <2>4 DEF ByteEdge, Counts, Waits
  <2>8. /\ spi'.bit + 1 = spi.bit
        /\ card'.in = card.in /\ card'.out = card.out
    BY <1>1, <2>3, <2>4 DEF Waits, KeepsScript
  <2>9. QED
    BY <1>2, <1>3, <2>3, <2>4, <2>5, <2>6, <2>7, <2>8 DEF BitsNext, Keeps
<1>5. CASE ~spi.rise /\ Holds
  <2>1. KeepsScript /\ Waits
    BY <1>5, HeldLine
  <2>2. /\ spi'.state = 2 /\ spi'.bit = spi.bit /\ spi'.rx = spi.rx /\ ~spi'.rise
        /\ spi'.sclk = spi.sclk /\ ~spi'.fall
        /\ spi'.mosi = IF spi.fall THEN Bit(spi.txr, spi.bit) ELSE spi.mosi
    BY <1>5 DEF ByteEdge, Byteward, ByteInEngine, Holds
  <2>3. ~Over'
    BY <2>2 DEF Over
  <2>4. card'.bits = card.bits /\ card'.in = card.in /\ card'.out = card.out
        /\ card'.miso = card.miso
    BY <2>1 DEF ByteEdge, Counts, Waits, KeepsScript
  <2>5. QED
    BY <1>2, <1>3, <2>1, <2>2, <2>3, <2>4 DEF BitsNext, Keeps
<1>6. CASE ~spi.rise /\ Turns /\ spi.sclk
  <2>1. SclkFalls /\ ~SclkRises
    BY <1>6 DEF Turns, SclkFalls, SclkRises
  <2>2. KeepsScript /\ Shows
    BY <2>1 DEF ByteEdge, Samples, Waits, Ends
  <2>3. /\ spi'.state = 2 /\ spi'.bit = spi.bit /\ spi'.rx = spi.rx /\ ~spi'.rise
        /\ spi'.fall
    BY <1>6 DEF ByteEdge, Byteward, ByteInEngine, Turns
  <2>4. ~Over'
    BY <2>3 DEF Over
  <2>5. card'.bits = card.bits /\ card'.in = card.in /\ card'.out = card.out
        /\ card'.miso = Bit(card.out, 7 - card.bits)
    BY <2>1, <2>2 DEF ByteEdge, Counts, Shows, KeepsScript
  <2>6. QED
    BY <1>2, <1>3, <2>2, <2>3, <2>4, <2>5 DEF BitsNext, Keeps
<1>7. CASE ~spi.rise /\ Turns /\ ~spi.sclk
  <2>1. SclkRises /\ ~SclkFalls /\ ~spi.fall
    BY <1>7 DEF Turns, SclkFalls, SclkRises
  <2>2. /\ spi'.state = 2 /\ spi'.bit = spi.bit /\ spi'.rx = spi.rx /\ spi'.rise /\ spi'.sclk
    BY <1>7, <2>1 DEF ByteEdge, Byteward, ByteInEngine, Turns
  <2>3. /\ card.bits = 7 - spi.bit /\ spi.mosi = Bit(spi.txr, spi.bit)
        /\ card.miso = Bit(card.out, spi.bit) /\ card.in = Top(spi.txr, spi.bit + 1)
    <3>1. card.bits = 7 - spi.bit
      BY <1>1, <1>7
    <3>2. 7 - card.bits = spi.bit /\ 8 - card.bits = spi.bit + 1
      BY <1>1, <3>1
    <3>3. QED BY <1>2, <1>7, <2>1, <3>1, <3>2
  <2>4. 2 * card.in + spi.mosi = Top(spi.txr, spi.bit)
    BY <1>1, <2>3, OneBitMore DEF ByteTypes
  <2>5. CASE spi.bit # 0
    <3>1. card.bits < 7
      BY <1>1, <2>3, <2>5
    <3>2. KeepsScript /\ Samples
      BY <1>1, <2>1, <2>3, <3>1 DEF ByteEdge, Shows, Waits, Ends
    <3>3. card'.bits = 8 - spi.bit
      BY <1>1, <2>1, <2>3, <3>1 DEF ByteEdge, Counts
    <3>4. ~Over'
      BY <2>2, <2>5 DEF Over
    <3>5. 8 - card'.bits = spi.bit /\ card'.in = Top(spi.txr, spi.bit) /\ card'.miso = card.miso
          /\ card'.out = card.out
      BY <1>1, <2>4, <3>2, <3>3 DEF Samples, KeepsScript
    <3>6. QED BY <1>2, <1>3, <2>2, <2>3, <3>2, <3>4, <3>5 DEF BitsNext, Keeps
  <2>6. CASE spi.bit = 0
    <3>1. Ends(spi.txr)
      <4>1. ~(card.bits < 7)
        BY <2>3, <2>6
      <4>2. 2 * card.in + spi.mosi = spi.txr
        BY <2>4, <2>6, NoBit DEF ByteTypes
      <4>3. QED BY <2>1, <4>1, <4>2 DEF ByteEdge, Shows, Samples, Waits
    <3>2. PICK c \in Hear(spi.txr) : card' = Queued(c)
      BY <3>1 DEF Ends
    <3>3. card'.miso = card.miso /\ card'.in = 0
      BY <3>2, HearFields, HearLine DEF StepInv, Queued, CardShape, CardFields
    <3>4. Over'
      BY <2>2, <2>6 DEF Over
    <3>5. Told' = WithBit(spi.rx, 0, Bit(card.out, 0))
      BY <2>2, <2>3, <2>6, <3>3 DEF Told
    <3>6. Told' = card.out
      <4>1. spi.rx \in Byte /\ card.out \in Byte /\ Top(spi.rx, 0 + 1) = Top(card.out, 0 + 1)
        BY <1>2, <2>6 DEF ByteTypes
      <4>2. /\ Top(WithBit(spi.rx, 0, Bit(card.out, 0)), 0) = Top(card.out, 0)
            /\ WithBit(spi.rx, 0, Bit(card.out, 0)) \in Byte
        <5>1. 0 \in 0 .. 7
          OBVIOUS
        <5>2. Bit(card.out, 0) \in 0 .. 1
          BY <4>1, <5>1, OneBitMore
        <5>3. WithBit(spi.rx, 0, Bit(card.out, 0)) \in Byte
          BY <4>1, <5>1, <5>2, BitPut
        <5>4. QED BY <4>1, <5>1, <5>3, BitAgrees
      <4>3. QED BY <3>5, <4>1, <4>2, NoBit
    <3>7. Completes
      BY <3>2, <3>4, <3>6 DEF Completes
    <3>8. QED BY <2>2, <3>3, <3>4, <3>7 DEF BitsNext
  <2>7. QED BY <2>5, <2>6
<1>8. QED BY <1>1, <1>4, <1>5, <1>6, <1>7 DEF ByteEdge

\* The byte is over, for the card and then for the engine.
LEMMA BitsAfter ==
  ASSUME StepInv, BitInv, ByteTypes, ~sd.cs_en, ~sd'.cs_en, ByteEdge, Over
  PROVE  BitsNext /\ Keeps
<1>1. /\ card.in = 0 /\ card.bits = 0
  BY DEF BitInv, StepInv, Together, Over
<1>2. Holds
  BY DEF ByteEdge, Turns, Over
<1>3. KeepsScript /\ Waits
  BY <1>2, HeldLine
<1>4. card'.in = 0
  BY <1>1, <1>3 DEF Waits
<1>5. CASE spi.state = 3
  <2>1. spi'.state = 0
    BY <1>5 DEF ByteEdge, Byteward
  <2>2. ~Over'
    BY <2>1 DEF Over
  <2>3. QED BY <1>3, <1>4, <2>1, <2>2 DEF BitsNext, Keeps
<1>6. CASE spi.state = 2 /\ spi.rise /\ spi.bit = 0
  <2>1. ~spi.fall
    BY <1>6 DEF StepInv, EngInv, Edges, SpiShape
  <2>2. spi'.state = 3 /\ spi'.rx = WithBit(spi.rx, 0, card.miso)
    BY <1>6, <2>1 DEF ByteEdge, Byteward, ByteInEngine
  <2>3. Over' /\ Told' = Told
    BY <1>6, <2>2 DEF Over, Told
  <2>4. QED BY <1>3, <1>4, <1>6, <2>2, <2>3 DEF BitsNext, Keeps
<1>7. QED BY <1>5, <1>6 DEF Over

LEMMA BitsStep ==
  ASSUME StepInv, BitInv, ByteTypes, ~sd.cs_en, ~sd'.cs_en, ByteEdge
  PROVE  BitsNext /\ (Completes \/ Keeps)
<1>1. spi.state \in 0 .. 3
  BY DEF StepInv, EngInv, SpiShape
<1>2. Over => spi.state \in {2, 3}
  BY DEF Over
<1>3. spi.state = 3 => Over
  BY DEF Over
<1>4. QED BY <1>1, <1>2, <1>3, BitsBefore, BitsWithin, BitsAfter

-----------------------------------------------------------------------------
(* What an edge leaves in the controller, place by place.                  *)

SameRoutine ==
  sd'.ready = sd.ready /\ sd'.init = sd.init /\ sd'.write = sd.write /\ sd'.read = sd.read
SameFrame == sd'.n = sd.n /\ sd'.cmd = sd.cmd
SameLines ==
  /\ sd'.cs_en = sd.cs_en /\ sd'.sdwd = sd.sdwd /\ sd'.sdrd = sd.sdrd
  /\ sd'.address_progression = sd.address_progression
\* To place k of the routine, with a byte offered, a count and start.
Sets(k, tx, cnt, start) ==
  /\ SameRoutine /\ SameFrame /\ sd'.intra = k /\ sd'.tx = tx /\ sd'.cnt = cnt
  /\ sd'.start = start
Plain(k, tx, cnt, start) ==
  Sets(k, tx, cnt, start) /\ SameLines /\ sd'.SDC_DEV = sd.SDC_DEV

LEMMA OfferMoves ==
  ASSUME CtlInv, NEW b, NEW k, sd' = Offer(b, k), ~sd.start
  PROVE  Plain(k, b, sd.cnt, FALSE)
BY DEF Offer, Plain, Sets, SameRoutine, SameFrame, SameLines, CtlInv, SdShape, SdFields
LEMMA RaiseMoves ==
  ASSUME CtlInv, NEW k, sd' = Raise(k)
  PROVE  Plain(k, sd.tx, sd.cnt, TRUE)
BY DEF Raise, Plain, Sets, SameRoutine, SameFrame, SameLines, CtlInv, SdShape, SdFields
LEMMA LowerMoves ==
  ASSUME CtlInv, NEW k, sd' = Lower(k)
  PROVE  Plain(k, sd.tx, sd.cnt, FALSE)
BY DEF Lower, Plain, Sets, SameRoutine, SameFrame, SameLines, CtlInv, SdShape, SdFields
LEMMA GoMoves ==
  ASSUME CtlInv, NEW k, sd' = [sd EXCEPT !.intra = k], ~sd.start
  PROVE  Plain(k, sd.tx, sd.cnt, FALSE)
BY DEF Plain, Sets, SameRoutine, SameFrame, SameLines, CtlInv, SdShape, SdFields

FillersRow(then) ==
  \/ sd.intra = 0 /\ Plain(1, Filler, sd.cnt, FALSE)
  \/ sd.intra = 1 /\ Plain(2, sd.tx, sd.cnt, TRUE)
  \/ sd.intra = 2 /\ Plain(3, sd.tx, sd.cnt, FALSE)
  \/ sd.intra = 3 /\ ~done /\ sd' = sd
  \/ sd.intra = 3 /\ done /\ Plain(1, sd.tx, sd.cnt + 1, FALSE)
  \/ sd.intra = 3 /\ done /\ sd' = then
LEMMA FillersTable ==
  ASSUME CtlInv, sd.intra \in 0 .. 3, sd.start => sd.intra = 2, NEW limit, NEW then,
         sd' = Fillers(limit, then)
  PROVE  FillersRow(then)
<1>0. sd.intra \in {0, 1, 3} => ~sd.start
  OBVIOUS
<1>1. \/ sd.intra = 0 /\ sd' = Offer(Filler, 1)
      \/ sd.intra = 1 /\ sd' = Raise(2)
      \/ sd.intra = 2 /\ sd' = Lower(3)
      \/ sd.intra = 3 /\ ~done /\ sd' = sd
      \/ sd.intra = 3 /\ done /\ sd' = [sd EXCEPT !.cnt = @ + 1, !.intra = 1]
      \/ sd.intra = 3 /\ done /\ sd' = then
  BY DEF Fillers
<1>2. ASSUME sd' = [sd EXCEPT !.cnt = @ + 1, !.intra = 1], ~sd.start
      PROVE  Plain(1, sd.tx, sd.cnt + 1, FALSE)
  BY <1>2 DEF Plain, Sets, SameRoutine, SameFrame, SameLines, CtlInv, SdShape, SdFields
<1>3. CASE sd.intra = 0 /\ sd' = Offer(Filler, 1)
  <2>1. ~sd.start
    BY <1>0, <1>3
  <2>2. Plain(1, Filler, sd.cnt, FALSE)
    BY <1>3, <2>1, OfferMoves
  <2>3. QED BY <1>3, <2>2 DEF FillersRow
<1>4. CASE sd.intra = 1 /\ sd' = Raise(2)
  BY <1>4, RaiseMoves DEF FillersRow
<1>5. CASE sd.intra = 2 /\ sd' = Lower(3)
  BY <1>5, LowerMoves DEF FillersRow
<1>6. CASE sd.intra = 3
  <2>1. CASE sd' = [sd EXCEPT !.cnt = @ + 1, !.intra = 1] /\ done
    BY <1>0, <1>2, <1>6, <2>1 DEF FillersRow
  <2>2. CASE (~done /\ sd' = sd) \/ (done /\ sd' = then)
    BY <1>6, <2>2 DEF FillersRow
  <2>3. sd' = IF ~done THEN sd
              ELSE IF sd.cnt < limit THEN [sd EXCEPT !.cnt = @ + 1, !.intra = 1]
              ELSE then
    BY <1>6 DEF Fillers
  <2>4. QED BY <2>1, <2>2, <2>3 DEF FillersRow
<1>7. QED BY <1>1, <1>3, <1>4, <1>5, <1>6 DEF FillersRow

CommandRow(frame, answered) ==
  \/ /\ sd.intra = 0
     /\ SameRoutine /\ SameLines /\ sd'.n = 0 /\ sd'.cmd = frame /\ sd'.intra = 1
     /\ sd'.tx = sd.tx /\ sd'.start = FALSE /\ sd'.SDC_DEV = sd.SDC_DEV
  \/ sd.intra = 1 /\ Plain(2, sd.cmd[sd.n + 1], sd.cnt, FALSE)
  \/ sd.intra = 2 /\ Plain(3, sd.tx, sd.cnt, TRUE)
  \/ sd.intra = 3 /\ Plain(4, sd.tx, sd.cnt, FALSE)
  \/ sd.intra = 4 /\ ~done /\ sd' = sd
  \/ sd.intra = 4 /\ done /\ sd.n = 5 /\ \E cnt : Plain(5, sd.tx, cnt, FALSE)
  \/ /\ sd.intra = 4 /\ done /\ sd.n # 5
     /\ SameRoutine /\ SameLines /\ sd'.n = sd.n + 1 /\ sd'.cmd = sd.cmd /\ sd'.intra = 1
     /\ sd'.tx = sd.tx /\ sd'.start = FALSE /\ sd'.SDC_DEV = sd.SDC_DEV
  \/ sd.intra = 5 /\ Plain(6, Filler, sd.cnt, FALSE)
  \/ sd.intra = 6 /\ Plain(7, sd.tx, sd.cnt, TRUE)
  \/ sd.intra = 7 /\ Plain(8, sd.tx, sd.cnt, FALSE)
  \/ sd.intra = 8 /\ ~done /\ sd' = sd
  \/ sd.intra = 8 /\ done /\ sd' = answered
LEMMA CommandTable ==
  ASSUME CtlInv, sd.intra \in 0 .. 8, sd.start => sd.intra \in {3, 7}, NEW frame, NEW answered,
         sd' = Command(frame, answered)
  PROVE  CommandRow(frame, answered)
<1>0. DOMAIN sd = SdFields /\ sd.start \in BOOLEAN
  BY DEF CtlInv, SdShape
<1>a. sd.intra \notin {3, 7} => ~sd.start
  OBVIOUS
<1>1. CASE sd.intra = 0
  <2>1. sd' = [sd EXCEPT !.n = 0, !.cmd = frame, !.intra = 1,
                         !.cnt = IF sd.init = 9 THEN 0 ELSE @]
    BY <1>1 DEF Command
  <2>2. QED BY <1>0, <1>1, <2>1 DEF SameRoutine, SameLines, SdFields, CommandRow
<1>2. CASE sd.intra = 4 /\ done /\ sd.n = 5
  <2>1. PICK cnt : sd' = [sd EXCEPT !.intra = 5, !.cnt = cnt]
    <3>1. sd' = [sd EXCEPT !.intra = 5, !.cnt = IF sd.init = 5 THEN 0 ELSE @]
      BY <1>2 DEF Command
    <3>2. QED BY <3>1
  <2>2. Plain(5, sd.tx, cnt, FALSE)
    BY <1>0, <1>2, <2>1 DEF Plain, Sets, SameRoutine, SameFrame, SameLines, SdFields
  <2>3. QED BY <1>2, <2>2 DEF CommandRow
<1>3. CASE sd.intra = 4 /\ done /\ sd.n # 5
  <2>1. sd' = [sd EXCEPT !.intra = 1, !.n = @ + 1]
    BY <1>3 DEF Command
  <2>2. /\ SameRoutine /\ SameLines /\ sd'.n = sd.n + 1 /\ sd'.cmd = sd.cmd /\ sd'.intra = 1
        /\ sd'.tx = sd.tx /\ sd'.start = FALSE /\ sd'.SDC_DEV = sd.SDC_DEV
    BY <1>0, <1>3, <2>1 DEF SameRoutine, SameLines, SdFields
  <2>3. QED BY <1>3, <2>2 DEF CommandRow
<1>4. CASE sd.intra = 1
  <2>1. sd' = Offer(sd.cmd[sd.n + 1], 2)
    BY <1>4 DEF Command
  <2>2. Plain(2, sd.cmd[sd.n + 1], sd.cnt, FALSE)
    <3>1. ~sd.start
      BY <1>a, <1>4
    <3>2. QED BY <2>1, <3>1, OfferMoves
  <2>3. QED BY <1>4, <2>2 DEF CommandRow
<1>5. CASE sd.intra = 5
  <2>1. sd' = Offer(Filler, 6)
    BY <1>5 DEF Command
  <2>2. Plain(6, Filler, sd.cnt, FALSE)
    <3>1. ~sd.start
      BY <1>a, <1>5
    <3>2. QED BY <2>1, <3>1, OfferMoves
  <2>3. QED BY <1>5, <2>2 DEF CommandRow
<1>6. CASE sd.intra \in {2, 3, 6, 7}
  <2>1. \/ sd.intra = 2 /\ sd' = Raise(3)
        \/ sd.intra = 3 /\ sd' = Lower(4)
        \/ sd.intra = 6 /\ sd' = Raise(7)
        \/ sd.intra = 7 /\ sd' = Lower(8)
    BY <1>6 DEF Command
  <2>2. sd' = Raise(3) => Plain(3, sd.tx, sd.cnt, TRUE)
    BY RaiseMoves
  <2>3. sd' = Lower(4) => Plain(4, sd.tx, sd.cnt, FALSE)
    BY LowerMoves
  <2>4. sd' = Raise(7) => Plain(7, sd.tx, sd.cnt, TRUE)
    BY RaiseMoves
  <2>5. sd' = Lower(8) => Plain(8, sd.tx, sd.cnt, FALSE)
    BY LowerMoves
  <2>6. QED BY <2>1, <2>2, <2>3, <2>4, <2>5 DEF CommandRow
<1>7. CASE sd.intra = 8
  <2>1. sd' = IF done THEN answered ELSE sd
    BY <1>7 DEF Command
  <2>2. QED BY <1>7, <2>1 DEF CommandRow
<1>8. CASE sd.intra = 4 /\ ~done
  <2>1. sd' = sd
    BY <1>8 DEF Command
  <2>2. QED BY <1>8, <2>1 DEF CommandRow
<1>9. sd.intra \in {0, 1, 2, 3, 4, 5, 6, 7, 8}
  OBVIOUS
<1>10. QED BY <1>1, <1>2, <1>3, <1>4, <1>5, <1>6, <1>7, <1>8, <1>9 DEF CommandRow

WriteRow(byte) ==
  \/ sd.intra \in {0, 10, 18} /\ Plain(sd.intra + 1, Filler, sd.cnt, FALSE)
  \/ sd.intra \in {1, 4, 11, 19, 23} /\ Plain(sd.intra + 1, sd.tx, sd.cnt, TRUE)
  \/ sd.intra \in {2, 12, 14, 16, 20, 24} /\ Plain(sd.intra + 1, sd.tx, sd.cnt, FALSE)
  \/ sd.intra \in {3, 9, 13, 15, 17, 21, 25} /\ ~done /\ sd' = sd
  \/ sd.intra = 3 /\ done /\ Plain(4, StartToken, sd.cnt, FALSE)
  \/ sd.intra = 5 /\ Plain(6, sd.tx, 0, FALSE)
  \/ sd.intra = 6 /\ ~ByteGone /\ sd' = sd
  \/ sd.intra = 6 /\ ByteGone /\ Plain(7, byte, sd.cnt, FALSE)
  \/ /\ sd.intra = 7 /\ Sets(8, sd.tx, sd.cnt, TRUE)
     /\ sd'.address_progression = TRUE
     /\ sd'.cs_en = sd.cs_en /\ sd'.sdwd = sd.sdwd /\ sd'.sdrd = sd.sdrd
  \/ /\ sd.intra = 8 /\ Sets(9, sd.tx, sd.cnt, FALSE)
     /\ sd'.address_progression = FALSE
     /\ sd'.cs_en = sd.cs_en /\ sd'.sdwd = sd.sdwd /\ sd'.sdrd = sd.sdrd
  \/ sd.intra = 9 /\ done /\ More /\ Plain(6, sd.tx, sd.cnt + 1, FALSE)
  \/ sd.intra = 9 /\ done /\ ~More /\ Plain(10, sd.tx, sd.cnt, FALSE)
  \/ sd.intra \in {13, 15} /\ done /\ Plain(sd.intra + 1, sd.tx, sd.cnt, TRUE)
  \/ sd.intra = 17 /\ done /\ Accepted(spi.rx) /\ Plain(18, sd.tx, 0, FALSE)
  \/ sd.intra = 17 /\ done /\ ~Accepted(spi.rx) /\ sd' = sd
  \/ sd.intra = 21 /\ done /\ (\E k \in {19, 22} : Plain(k, sd.tx, sd.cnt, FALSE))
  \/ /\ sd.intra = 22 /\ Sets(23, Filler, sd.cnt, FALSE) /\ sd'.cs_en = TRUE
     /\ sd'.sdwd = sd.sdwd /\ sd'.sdrd = sd.sdrd
     /\ sd'.address_progression = sd.address_progression
  \/ /\ sd.intra = 25 /\ done /\ Sets(26, sd.tx, sd.cnt, FALSE) /\ sd'.sdwd = TRUE
     /\ sd'.cs_en = sd.cs_en /\ sd'.sdrd = sd.sdrd
     /\ sd'.address_progression = sd.address_progression
  \/ /\ sd.intra = 26 /\ sd'.ready = sd.ready /\ sd'.write = 0 /\ sd'.read = sd.read
     /\ sd'.intra = 0 /\ sd'.tx = sd.tx /\ sd'.start = FALSE
     /\ sd'.sdwd = FALSE /\ sd'.cs_en = sd.cs_en /\ sd'.sdrd = sd.sdrd
     /\ sd'.address_progression = sd.address_progression
LEMMA WriteTable ==
  ASSUME CtlInv, Writing, NEW byte, sd' = WriteData(byte)
  PROVE  WriteRow(byte)
<1>0. /\ DOMAIN sd = SdFields /\ sd.start \in BOOLEAN /\ sd.intra \in 0 .. 26
      /\ sd.intra \in {0, 3, 6, 9, 10, 13, 15, 17, 18, 21, 22, 25, 26} => ~sd.start
  BY Lowered DEF CtlInv, SdShape, WritingUp
<1>1. CASE sd.intra \in {0, 10, 18}
  <2>1. sd' = Offer(Filler, sd.intra + 1)
    BY <1>1 DEF WriteData
  <2>2. Plain(sd.intra + 1, Filler, sd.cnt, FALSE)
    BY <1>0, <1>1, <2>1, OfferMoves
  <2>3. QED BY <1>1, <2>2 DEF WriteRow
<1>2. CASE sd.intra \in {1, 4, 11, 19, 23}
  <2>1. sd' = Raise(sd.intra + 1)
    BY <1>2 DEF WriteData
  <2>2. Plain(sd.intra + 1, sd.tx, sd.cnt, TRUE)
    BY <2>1, RaiseMoves
  <2>3. QED BY <1>2, <2>2 DEF WriteRow
<1>3. CASE sd.intra \in {2, 12, 14, 16, 20, 24}
  <2>1. sd' = Lower(sd.intra + 1)
    BY <1>3 DEF WriteData
  <2>2. Plain(sd.intra + 1, sd.tx, sd.cnt, FALSE)
    BY <2>1, LowerMoves
  <2>3. QED BY <1>3, <2>2 DEF WriteRow
<1>4. CASE sd.intra \in {3, 9, 13, 15, 17, 21, 25} /\ ~done
  <2>1. sd' = sd
    BY <1>4 DEF WriteData
  <2>2. QED BY <1>4, <2>1 DEF WriteRow
<1>5. CASE sd.intra = 3 /\ done
  <2>1. sd' = Offer(StartToken, 4)
    BY <1>5 DEF WriteData
  <2>2. QED BY <1>0, <1>5, <2>1, OfferMoves DEF WriteRow
<1>6. CASE sd.intra = 5
  <2>1. sd' = [Lower(6) EXCEPT !.cnt = 0]
    BY <1>6 DEF WriteData
  <2>2. Plain(6, sd.tx, 0, FALSE)
    BY <1>0, <2>1 DEF Lower, Plain, Sets, SameRoutine, SameFrame, SameLines, SdFields
  <2>3. QED BY <1>6, <2>2 DEF WriteRow
<1>7. CASE sd.intra = 6
  <2>1. sd' = IF ByteGone THEN Offer(byte, 7) ELSE sd
    BY <1>7 DEF WriteData
  <2>2. QED BY <1>0, <1>7, <2>1, OfferMoves DEF WriteRow
<1>8. CASE sd.intra = 7
  <2>1. sd' = [Raise(8) EXCEPT !.address_progression = TRUE]
    BY <1>8 DEF WriteData
  <2>2. QED BY <1>0, <1>8, <2>1 DEF Raise, Sets, SameRoutine, SameFrame, SdFields, WriteRow
<1>9. CASE sd.intra = 8
  <2>1. sd' = [Lower(9) EXCEPT !.address_progression = FALSE]
    BY <1>9 DEF WriteData
  <2>2. QED BY <1>0, <1>9, <2>1 DEF Lower, Sets, SameRoutine, SameFrame, SdFields, WriteRow
<1>10. CASE sd.intra = 9 /\ done /\ More
  <2>1. sd' = [sd EXCEPT !.cnt = @ + 1, !.intra = 6]
    BY <1>10 DEF WriteData
  <2>2. Plain(6, sd.tx, sd.cnt + 1, FALSE)
    BY <1>0, <1>10, <2>1 DEF Plain, Sets, SameRoutine, SameFrame, SameLines, SdFields
  <2>3. QED BY <1>10, <2>2 DEF WriteRow
<1>11. CASE sd.intra = 9 /\ done /\ ~More
  <2>1. sd' = [sd EXCEPT !.intra = 10]
    BY <1>11 DEF WriteData
  <2>2. QED BY <1>0, <1>11, <2>1, GoMoves DEF WriteRow
<1>12. CASE sd.intra \in {13, 15} /\ done
  <2>1. sd' = Raise(sd.intra + 1)
    BY <1>12 DEF WriteData
  <2>2. QED BY <1>12, <2>1, RaiseMoves DEF WriteRow
<1>13. CASE sd.intra = 17 /\ done
  <2>1. sd' = IF Accepted(spi.rx) THEN [sd EXCEPT !.intra = 18, !.cnt = 0] ELSE sd
    BY <1>13 DEF WriteData
  <2>2. ASSUME Accepted(spi.rx) PROVE Plain(18, sd.tx, 0, FALSE)
    BY <1>0, <1>13, <2>1, <2>2 DEF Plain, Sets, SameRoutine, SameFrame, SameLines, SdFields
  <2>3. QED BY <1>13, <2>1, <2>2 DEF WriteRow
<1>14. CASE sd.intra = 21 /\ done
  <2>1. \E k \in {19, 22} : sd' = [sd EXCEPT !.intra = k]
    BY <1>14 DEF WriteData
  <2>2. QED BY <1>0, <1>14, <2>1, GoMoves DEF WriteRow
<1>15. CASE sd.intra = 22
  <2>1. sd' = [Offer(Filler, 23) EXCEPT !.cs_en = TRUE]
    BY <1>15 DEF WriteData
  <2>2. QED BY <1>0, <1>15, <2>1 DEF Offer, Sets, SameRoutine, SameFrame, SdFields, WriteRow
<1>16. CASE sd.intra = 25 /\ done
  <2>1. sd' = [sd EXCEPT !.intra = 26, !.sdwd = TRUE]
    BY <1>16 DEF WriteData
  <2>2. QED BY <1>0, <1>16, <2>1 DEF Sets, SameRoutine, SameFrame, SdFields, WriteRow
<1>17. CASE sd.intra = 26
  <2>1. sd' = [sd EXCEPT !.write = 0, !.intra = 0, !.cnt = 0, !.sdwd = FALSE]
    BY <1>17 DEF WriteData
  <2>2. QED BY <1>0, <1>17, <2>1 DEF SdFields, WriteRow
<1>18. sd.intra \in {0, 10, 18} \cup {1, 4, 11, 19, 23} \cup {2, 12, 14, 16, 20, 24}
                    \cup {3, 5, 6, 7, 8, 9, 17, 21, 22, 25, 26} \cup {13, 15}
  BY <1>0
<1>19. QED
  BY <1>1, <1>2, <1>3, <1>4, <1>5, <1>6, <1>7, <1>8, <1>9, <1>10, <1>11, <1>12, <1>13, <1>14,
     <1>15, <1>16, <1>17, <1>18 DEF WriteRow

SeekRow ==
  \/ sd.intra = 0 /\ Plain(1, Filler, sd.cnt, FALSE)
  \/ sd.intra = 1 /\ Plain(2, sd.tx, sd.cnt, TRUE)
  \/ sd.intra = 2 /\ Plain(3, sd.tx, sd.cnt, FALSE)
  \/ sd.intra = 3 /\ ~done /\ sd' = sd
  \/ sd.intra = 3 /\ done /\ spi.rx = StartToken /\ sd' = NextRead
  \/ sd.intra = 3 /\ done /\ spi.rx # StartToken /\ Plain(1, sd.tx, sd.cnt, FALSE)
LEMMA SeekTable ==
  ASSUME CtlInv, Seeking, sd' = ReadToken
  PROVE  SeekRow
<1>0. sd.intra \in {0, 1, 2, 3} /\ (sd.intra \in {0, 1, 3} => ~sd.start)
  BY Lowered
<1>1. CASE sd.intra = 0
  <2>1. sd' = Offer(Filler, 1)
    BY <1>1 DEF ReadToken
  <2>2. QED BY <1>0, <1>1, <2>1, OfferMoves DEF SeekRow
<1>2. CASE sd.intra = 1
  <2>1. sd' = Raise(2)
    BY <1>2 DEF ReadToken
  <2>2. QED BY <1>2, <2>1, RaiseMoves DEF SeekRow
<1>3. CASE sd.intra = 2
  <2>1. sd' = Lower(3)
    BY <1>3 DEF ReadToken
  <2>2. QED BY <1>3, <2>1, LowerMoves DEF SeekRow
<1>4. CASE sd.intra = 3
  <2>1. sd' = IF ~done THEN sd
              ELSE IF spi.rx = StartToken THEN NextRead ELSE [sd EXCEPT !.intra = 1]
    BY <1>4 DEF ReadToken
  <2>2. sd' = [sd EXCEPT !.intra = 1] => Plain(1, sd.tx, sd.cnt, FALSE)
    BY <1>0, <1>4, GoMoves
  <2>3. QED BY <1>4, <2>1, <2>2 DEF SeekRow
<1>5. QED BY <1>0, <1>1, <1>2, <1>3, <1>4 DEF SeekRow

ReadRow ==
  \/ sd.intra = 0 /\ Plain(1, Filler, 0, FALSE)
  \/ /\ sd.intra = 1 /\ Sets(2, sd.tx, sd.cnt, TRUE) /\ sd'.SDC_DEV = sd.SDC_DEV
     /\ sd'.address_progression = FALSE
     /\ sd'.cs_en = sd.cs_en /\ sd'.sdwd = sd.sdwd /\ sd'.sdrd = sd.sdrd
  \/ sd.intra \in {2, 7, 9, 11} /\ Plain(sd.intra + 1, sd.tx, sd.cnt, FALSE)
  \/ sd.intra \in {3, 8, 10, 12} /\ ~done /\ sd' = sd
  \/ /\ sd.intra = 3 /\ done /\ Sets(4, sd.tx, sd.cnt, FALSE) /\ SameLines
     /\ sd'.SDC_DEV = spi.rx
  \/ /\ sd.intra = 4
     /\ IF More THEN Sets(1, sd.tx, sd.cnt + 1, FALSE) ELSE Sets(5, sd.tx, 0, FALSE)
     /\ sd'.address_progression = TRUE /\ sd'.SDC_DEV = sd.SDC_DEV
     /\ sd'.cs_en = sd.cs_en /\ sd'.sdwd = sd.sdwd /\ sd'.sdrd = sd.sdrd
  \/ /\ sd.intra = 5 /\ Sets(6, Filler, 0, FALSE) /\ sd'.address_progression = FALSE
     /\ sd'.cs_en = sd.cs_en /\ sd'.sdwd = sd.sdwd /\ sd'.sdrd = sd.sdrd
  \/ sd.intra = 6 /\ Plain(7, sd.tx, sd.cnt, TRUE)
  \/ sd.intra \in {8, 10} /\ done /\ Plain(sd.intra + 1, sd.tx, sd.cnt, TRUE)
  \/ /\ sd.intra = 12 /\ done
     /\ sd'.ready = sd.ready /\ sd'.write = sd.write /\ sd'.read = 0 /\ sd'.intra = 0
     /\ sd'.tx = sd.tx /\ sd'.start = FALSE /\ sd'.cs_en = TRUE /\ sd'.sdrd = TRUE
     /\ sd'.sdwd = sd.sdwd /\ sd'.address_progression = sd.address_progression
LEMMA ReadTable ==
  ASSUME CtlInv, Reading, sd' = ReadData
  PROVE  ReadRow
<1>0. /\ DOMAIN sd = SdFields /\ sd.start \in BOOLEAN
      /\ sd.intra \in {0, 1, 4, 5, 6} \cup {3, 12} \cup {2, 7, 9, 11} \cup {8, 10}
      /\ sd.intra \in {0, 1, 3, 4, 5, 6, 8, 10, 12} => ~sd.start
  BY Lowered DEF CtlInv, SdShape
<1>1. CASE sd.intra = 0
  <2>1. sd' = [Offer(Filler, 1) EXCEPT !.cnt = 0]
    BY <1>1 DEF ReadData
  <2>2. Plain(1, Filler, 0, FALSE)
    BY <1>0, <1>1, <2>1 DEF Offer, Plain, Sets, SameRoutine, SameFrame, SameLines, SdFields
  <2>3. QED BY <1>1, <2>2 DEF ReadRow
<1>2. CASE sd.intra = 1
  <2>1. sd' = [Raise(2) EXCEPT !.address_progression = FALSE]
    BY <1>2 DEF ReadData
  <2>2. QED BY <1>0, <1>2, <2>1 DEF Raise, Sets, SameRoutine, SameFrame, SdFields, ReadRow
<1>3. CASE sd.intra \in {2, 7, 9, 11}
  <2>1. sd' = Lower(sd.intra + 1)
    BY <1>3 DEF ReadData
  <2>2. QED BY <1>3, <2>1, LowerMoves DEF ReadRow
<1>4. CASE sd.intra \in {3, 8, 10, 12} /\ ~done
  <2>1. sd' = sd
    BY <1>4 DEF ReadData
  <2>2. QED BY <1>4, <2>1 DEF ReadRow
<1>5. CASE sd.intra = 3 /\ done
  <2>1. sd' = [sd EXCEPT !.SDC_DEV = spi.rx, !.intra = 4]
    BY <1>5 DEF ReadData
  <2>2. QED BY <1>0, <1>5, <2>1 DEF Sets, SameRoutine, SameFrame, SameLines, SdFields, ReadRow
<1>6. CASE sd.intra = 4
  <2>1. sd' = [sd EXCEPT !.address_progression = TRUE,
                         !.cnt = IF More THEN @ + 1 ELSE 0,
                         !.intra = IF More THEN 1 ELSE 5]
    BY <1>6 DEF ReadData
  <2>2. QED BY <1>0, <1>6, <2>1 DEF Sets, SameRoutine, SameFrame, SdFields, ReadRow
<1>7. CASE sd.intra = 5
  <2>1. sd' = [Offer(Filler, 6) EXCEPT !.address_progression = FALSE, !.cnt = 0]
    BY <1>7 DEF ReadData
  <2>2. QED BY <1>0, <1>7, <2>1 DEF Offer, Sets, SameRoutine, SameFrame, SdFields, ReadRow
<1>8. CASE sd.intra = 6
  <2>1. sd' = Raise(7)
    BY <1>8 DEF ReadData
  <2>2. QED BY <1>8, <2>1, RaiseMoves DEF ReadRow
<1>9. CASE sd.intra \in {8, 10} /\ done
  <2>1. sd' = Raise(sd.intra + 1)
    BY <1>9 DEF ReadData
  <2>2. QED BY <1>9, <2>1, RaiseMoves DEF ReadRow
<1>10. CASE sd.intra = 12 /\ done
  <2>1. sd' = [sd EXCEPT !.read = 0, !.intra = 0, !.cs_en = TRUE, !.sdrd = TRUE]
    BY <1>10 DEF ReadData
  <2>2. QED BY <1>0, <1>10, <2>1 DEF SdFields, ReadRow
<1>11. QED
  BY <1>0, <1>1, <1>2, <1>3, <1>4, <1>5, <1>6, <1>7, <1>8, <1>9, <1>10 DEF ReadRow

\* To the first place of the next routine, or back to the command before it.
Enters(init, write, read) ==
  /\ sd'.ready = sd.ready /\ sd'.init = init /\ sd'.write = write /\ sd'.read = read
  /\ sd'.intra = 0 /\ sd'.tx = sd.tx /\ sd'.start = FALSE
  /\ SameFrame /\ SameLines

LEMMA NextMoves ==
  ASSUME CtlInv, ~sd.start
  PROVE  /\ sd' = NextWrite => Enters(sd.init, sd.write + 1, sd.read)
         /\ sd' = NextRead => Enters(sd.init, sd.write, sd.read + 1)
         /\ sd' = NextInit \/ sd' = [NextInit EXCEPT !.cnt = 0] =>
              Enters(sd.init + 1, sd.write, sd.read)
<1> USE DEF Enters, SameFrame, SameLines
<1>0. DOMAIN sd = SdFields /\ sd.start \in BOOLEAN
  BY DEF CtlInv, SdShape
<1>1. sd' = NextWrite => Enters(sd.init, sd.write + 1, sd.read)
  BY <1>0 DEF NextWrite, SdFields
<1>2. sd' = NextRead => Enters(sd.init, sd.write, sd.read + 1)
  BY <1>0 DEF NextRead, SdFields
<1>3. ASSUME sd' = NextInit PROVE Enters(sd.init + 1, sd.write, sd.read)
  BY <1>0, <1>3 DEF NextInit, SdFields
<1>4. ASSUME sd' = [NextInit EXCEPT !.cnt = 0] PROVE Enters(sd.init + 1, sd.write, sd.read)
  <2>1. sd' = [[sd EXCEPT !.init = @ + 1, !.intra = 0] EXCEPT !.cnt = 0]
    BY <1>4 DEF NextInit
  <2>2. QED BY <1>0, <2>1 DEF SdFields
<1>5. QED BY <1>1, <1>2, <1>3, <1>4

LEMMA AskMoves ==
  ASSUME CtlInv, ~sd.start,
         \/ sd' = AskAgain
         \/ sd' = [AskAgain EXCEPT !.cnt = 0]
         \/ sd' = [AskAgain EXCEPT !.cnt = @ + 1]
  PROVE  \E cnt : Plain(6, sd.tx, cnt, FALSE)
<1>1. PICK cnt : sd' = [sd EXCEPT !.intra = 6, !.cnt = cnt]
  <2>1. CASE sd' = AskAgain
    <3>1. sd' = [sd EXCEPT !.intra = 6, !.cnt = sd.cnt]
      BY <2>1 DEF AskAgain, CtlInv, SdShape, SdFields
    <3>2. QED BY <3>1
  <2>2. CASE sd' = [AskAgain EXCEPT !.cnt = 0]
    BY <2>2 DEF AskAgain
  <2>3. CASE sd' = [AskAgain EXCEPT !.cnt = @ + 1]
    <3>1. sd' = [sd EXCEPT !.intra = 6, !.cnt = sd.cnt + 1]
      BY <2>3 DEF AskAgain, CtlInv, SdShape, SdFields
    <3>2. QED BY <3>1
  <2>4. QED BY <2>1, <2>2, <2>3
<1>2. Plain(6, sd.tx, cnt, FALSE)
  BY <1>1 DEF Plain, Sets, SameRoutine, SameFrame, SameLines, CtlInv, SdShape, SdFields
<1>3. QED BY <1>2

-----------------------------------------------------------------------------
(* Who waits for whom: a byte is on its way where the controller awaits it. *)

PaceStep ==
  /\ Lowering' => sd'.start
  /\ Lowering => Awaiting' /\ sd'.tx = sd.tx
  /\ ~Lowering /\ ~Awaiting => ~Awaiting'
  /\ Awaiting /\ ~done => sd' = sd
  /\ Awaiting /\ done => ~Awaiting' \/ (sd' = sd /\ Writing /\ sd.intra = 17)

LEMMA SetsPlace ==
  \A k, tx, cnt, start :
    Sets(k, tx, cnt, start) \/ Plain(k, tx, cnt, start) =>
      SameRoutine /\ sd'.intra = k /\ sd'.tx = tx /\ sd'.cnt = cnt /\ sd'.start = start
BY DEF Plain, Sets

LEMMA PaceStays ==
  ASSUME Awaiting, ~Lowering, ~done \/ (Writing /\ sd.intra = 17), sd' = sd
  PROVE  PaceStep
<1>1. Lowering' = Lowering /\ Awaiting' = Awaiting
  BY DEF Lowering, Awaiting, InFillers, InCommand, Writing, Seeking, Reading
<1>2. QED BY <1>1 DEF PaceStep

LEMMA PaceFillers ==
  ASSUME CtlInv, InFillers,
         \/ sd.intra = 0 /\ Plain(1, Filler, sd.cnt, FALSE)
         \/ sd.intra = 1 /\ Plain(2, sd.tx, sd.cnt, TRUE)
         \/ sd.intra = 2 /\ Plain(3, sd.tx, sd.cnt, FALSE)
         \/ sd.intra = 3 /\ ~done /\ sd' = sd
         \/ sd.intra = 3 /\ done /\ Plain(1, sd.tx, sd.cnt + 1, FALSE)
  PROVE  PaceStep
<1>1. ~InCommand /\ ~Writing /\ ~Seeking /\ ~Reading
  BY DEF CtlInv, SdPlace, InFillers, InCommand, Writing, Seeking, Reading
<1>2. CASE sd.intra = 3 /\ ~done /\ sd' = sd
  <2>1. Awaiting /\ ~Lowering
    BY <1>1, <1>2 DEF Lowering, Awaiting
  <2>2. QED BY <1>2, <2>1, PaceStays
<1>3. CASE SameRoutine
  <2>1. InFillers' /\ ~InCommand' /\ ~Writing' /\ ~Seeking' /\ ~Reading'
    BY <1>1, <1>3 DEF SameRoutine, InFillers, InCommand, Writing, Seeking, Reading
  <2>2. QED BY <1>1, <1>2, <2>1 DEF PaceStep, Lowering, Awaiting, Plain, Sets
<1>4. QED BY <1>2, <1>3 DEF Plain, Sets

LEMMA PaceCommand ==
  ASSUME CtlInv, InCommand,
         \/ sd.intra = 0 /\ SameRoutine /\ sd'.intra = 1
         \/ sd.intra = 1 /\ SameRoutine /\ sd'.intra = 2
         \/ sd.intra = 2 /\ SameRoutine /\ sd'.intra = 3 /\ sd'.start = TRUE
         \/ sd.intra = 3 /\ SameRoutine /\ sd'.intra = 4 /\ sd'.tx = sd.tx
         \/ sd.intra \in {4, 8} /\ ~done /\ sd' = sd
         \/ sd.intra = 4 /\ done /\ SameRoutine /\ sd'.intra \in {1, 5}
         \/ sd.intra = 5 /\ SameRoutine /\ sd'.intra = 6
         \/ sd.intra = 6 /\ SameRoutine /\ sd'.intra = 7 /\ sd'.start = TRUE
         \/ sd.intra = 7 /\ SameRoutine /\ sd'.intra = 8 /\ sd'.tx = sd.tx
         \/ sd.intra = 8 /\ done /\ SameRoutine /\ sd'.intra = 6
  PROVE  PaceStep
<1>1. ~InFillers /\ ~Writing /\ ~Seeking /\ ~Reading
  BY DEF CtlInv, SdPlace, InFillers, InCommand, Writing, Seeking, Reading
<1>2. CASE sd.intra \in {4, 8} /\ ~done /\ sd' = sd
  <2>1. Awaiting /\ ~Lowering
    BY <1>1, <1>2 DEF Lowering, Awaiting
  <2>2. QED BY <1>2, <2>1, PaceStays
<1>3. CASE SameRoutine
  <2>1. InCommand' /\ ~InFillers' /\ ~Writing' /\ ~Seeking' /\ ~Reading'
    BY <1>1, <1>3 DEF SameRoutine, InFillers, InCommand, Writing, Seeking, Reading
  <2>2. QED BY <1>1, <1>2, <2>1 DEF PaceStep, Lowering, Awaiting
<1>4. QED BY <1>2, <1>3

\* From a place with nothing under way, or with a byte over, to a first place.
LEMMA PaceEnds ==
  ASSUME ~Lowering, Awaiting => done, sd'.intra = 0 \/ (~sd'.ready /\ sd'.init = 2 /\ sd'.write = 0)
  PROVE  PaceStep
<1>1. ~Lowering' /\ ~Awaiting'
  BY DEF Lowering, Awaiting, InFillers, InCommand, Writing, WritingUp, Seeking, Reading
<1>2. QED BY <1>1 DEF PaceStep

\* How a step moves a routine on, as far as the waiting goes.
WriteOn ==
  \/ sd.intra \in {0, 10, 18} /\ sd'.intra = sd.intra + 1
  \/ sd.intra \in {1, 4, 11, 19, 23} /\ sd'.intra = sd.intra + 1 /\ sd'.start = TRUE
  \/ sd.intra \in {2, 12, 14, 16, 20, 24} /\ sd'.intra = sd.intra + 1 /\ sd'.tx = sd.tx
  \/ sd.intra = 3 /\ done /\ sd'.intra = 4
  \/ sd.intra = 5 /\ sd'.intra = 6 /\ sd'.cnt = 0 /\ sd'.tx = sd.tx
  \/ sd.intra = 6 /\ ByteGone /\ sd'.intra = 7
  \/ sd.intra = 7 /\ sd'.intra = 8 /\ sd'.start = TRUE
  \/ sd.intra = 8 /\ sd'.intra = 9 /\ sd'.tx = sd.tx
  \/ sd.intra = 9 /\ done /\ sd'.intra = 6 /\ sd'.cnt = sd.cnt + 1
  \/ sd.intra = 9 /\ done /\ sd'.intra = 10
  \/ sd.intra \in {13, 15} /\ done /\ sd'.intra = sd.intra + 1 /\ sd'.start = TRUE
  \/ sd.intra = 17 /\ done /\ sd'.intra = 18
  \/ sd.intra = 21 /\ done /\ sd'.intra \in {19, 22}
  \/ sd.intra = 22 /\ sd'.intra = 23
  \/ sd.intra = 25 /\ done /\ sd'.intra = 26
WritePace ==
  \/ /\ sd' = sd
     /\ \/ sd.intra \in {3, 9, 13, 15, 17, 21, 25} /\ ~done
        \/ sd.intra = 6 /\ ~ByteGone
        \/ sd.intra = 17 /\ done
  \/ sd.intra = 26 /\ sd'.intra = 0
  \/ SameRoutine /\ WriteOn
LEMMA PaceWrite ==
  ASSUME CtlInv, Writing, NEW byte, sd' = WriteData(byte),
         sd.intra \in 6 .. 9 => sd.cnt \in Nat
  PROVE  PaceStep
<1>0. /\ ~InFillers /\ ~InCommand /\ ~Seeking /\ ~Reading
      /\ sd.intra \in 0 .. 26
  BY DEF CtlInv, SdPlace, InFillers, InCommand, Writing, Seeking, Reading
<1>1. WritePace
  <2>0. WriteRow(byte)
    BY WriteTable
  <2>1. CASE sd.intra \in {0, 10, 18}
    BY <2>1, <2>0 DEF WriteRow, WritePace, WriteOn, Plain, Sets
  <2>2. CASE sd.intra \in {1, 4, 11, 19, 23}
    BY <2>2, <2>0 DEF WriteRow, WritePace, WriteOn, Plain, Sets
  <2>3. CASE sd.intra \in {2, 12, 14, 16, 20, 24}
    BY <2>3, <2>0 DEF WriteRow, WritePace, WriteOn, Plain, Sets
  <2>4. CASE sd.intra \in {3, 5, 6}
    BY <2>4, <2>0 DEF WriteRow, WritePace, WriteOn, Plain, Sets
  <2>5. CASE sd.intra \in {7, 8}
    BY <2>5, <2>0 DEF WriteRow, WritePace, WriteOn, Plain, Sets
  <2>6. CASE sd.intra = 9
    BY <2>6, <2>0 DEF WriteRow, WritePace, WriteOn, Plain, Sets
  <2>7. CASE sd.intra \in {13, 15}
    BY <2>7, <2>0 DEF WriteRow, WritePace, WriteOn, Plain, Sets
  <2>8. CASE sd.intra \in {17, 21}
    BY <2>8, <2>0 DEF WriteRow, WritePace, WriteOn, Plain, Sets
  <2>9. CASE sd.intra \in {22, 25}
    BY <2>9, <2>0 DEF WriteRow, WritePace, WriteOn, Plain, Sets
  <2>10. CASE sd.intra = 26
    BY <2>10, <2>0 DEF WriteRow, WritePace, WriteOn, Plain, Sets
  <2>11. QED BY <1>0, <2>1, <2>2, <2>3, <2>4, <2>5, <2>6, <2>7, <2>8, <2>9, <2>10
<1>2. CASE /\ sd' = sd
           /\ \/ sd.intra \in {3, 9, 13, 15, 17, 21, 25} /\ ~done
              \/ sd.intra = 6 /\ ~ByteGone
              \/ sd.intra = 17 /\ done
  <2>1. Awaiting /\ ~Lowering /\ (~done \/ sd.intra = 17)
    BY <1>0, <1>2 DEF Awaiting, Lowering, WritingUp, ByteGone
  <2>2. QED BY <1>2, <2>1, PaceStays
<1>3. CASE sd.intra = 26 /\ sd'.intra = 0
  <2>1. ~Lowering /\ ~Awaiting
    BY <1>0, <1>3 DEF Awaiting, Lowering, WritingUp
  <2>2. QED BY <1>3, <2>1, PaceEnds
<1>4. CASE SameRoutine /\ WriteOn
  <2>2. Writing' /\ ~InFillers' /\ ~InCommand' /\ ~Seeking' /\ ~Reading'
    BY <1>0, <1>4 DEF SameRoutine, InFillers, InCommand, Writing, Seeking, Reading
  <2>4. Lowering => sd.intra \in WritingUp
    BY <1>0 DEF Lowering
  <2>5. Awaiting <=> sd.intra \in {3, 9, 13, 15, 17, 21, 25} \/ (sd.intra = 6 /\ sd.cnt = 0)
    BY <1>0 DEF Awaiting
  <2>6. Lowering' <=> sd'.intra \in WritingUp
    BY <2>2 DEF Lowering
  <2>7. Awaiting' <=> sd'.intra \in {3, 9, 13, 15, 17, 21, 25} \/ (sd'.intra = 6 /\ sd'.cnt = 0)
    BY <2>2 DEF Awaiting
  <2>8. Awaiting => done
    BY <1>4, <2>5 DEF WriteOn, ByteGone
  <2>9. ~Awaiting' \/ sd.intra \in WritingUp
    BY <1>4, <2>7 DEF WriteOn, WritingUp
  <2>10. Lowering' => sd'.start
    BY <1>4, <2>6 DEF WriteOn, WritingUp
  <2>11. Lowering => Awaiting' /\ sd'.tx = sd.tx
    BY <1>4, <2>4, <2>7 DEF WriteOn, WritingUp
  <2>12. sd.intra \in WritingUp => Lowering /\ ~Awaiting
    BY <2>5 DEF Lowering, WritingUp
  <2>13. QED BY <2>8, <2>9, <2>10, <2>11, <2>12 DEF PaceStep
<1>5. QED BY <1>1, <1>2, <1>3, <1>4 DEF WritePace

LEMMA PaceSeek ==
  ASSUME CtlInv, Seeking, sd' = ReadToken
  PROVE  PaceStep
<1>0. ~InFillers /\ ~InCommand /\ ~Writing /\ ~Reading
  BY DEF CtlInv, SdPlace, InFillers, InCommand, Writing, Seeking, Reading
<1>1. CASE sd.intra = 3 /\ ~done /\ sd' = sd
  <2>1. Awaiting /\ ~Lowering
    BY <1>0, <1>1 DEF Lowering, Awaiting
  <2>2. QED BY <1>1, <2>1, PaceStays
<1>2. CASE sd.intra = 3 /\ done /\ sd' = NextRead
  <2>1. ~Lowering /\ ~sd.start
    BY <1>0, <1>2 DEF Lowering, CtlInv, StartFalls
  <2>2. sd'.intra = 0
    BY <1>2, <2>1, NextMoves DEF Enters
  <2>3. QED BY <1>2, <2>1, <2>2, PaceEnds
<1>3. CASE SameRoutine /\ (\/ sd.intra = 0 /\ sd'.intra = 1
                           \/ sd.intra = 1 /\ sd'.intra = 2 /\ sd'.start = TRUE
                           \/ sd.intra = 2 /\ sd'.intra = 3 /\ sd'.tx = sd.tx
                           \/ sd.intra = 3 /\ done /\ sd'.intra = 1)
  <2>1. Seeking' /\ ~InCommand' /\ ~Writing' /\ ~InFillers' /\ ~Reading'
    BY <1>0, <1>3 DEF SameRoutine, InFillers, InCommand, Writing, Seeking, Reading
  <2>2. QED BY <1>0, <1>3, <2>1 DEF PaceStep, Lowering, Awaiting
<1>4. QED
  <2>1. \/ sd.intra = 3 /\ ~done /\ sd' = sd
        \/ sd.intra = 3 /\ done /\ sd' = NextRead
        \/ SameRoutine /\ (\/ sd.intra = 0 /\ sd'.intra = 1
                           \/ sd.intra = 1 /\ sd'.intra = 2 /\ sd'.start = TRUE
                           \/ sd.intra = 2 /\ sd'.intra = 3 /\ sd'.tx = sd.tx
                           \/ sd.intra = 3 /\ done /\ sd'.intra = 1)
    BY SeekTable, Zenon DEF SeekRow, Plain, Sets
  <2>2. QED BY <1>1, <1>2, <1>3, <2>1

ReadOn ==
  \/ sd.intra = 0 /\ sd'.intra = 1
  \/ sd.intra \in {1, 6} /\ sd'.intra = sd.intra + 1 /\ sd'.start = TRUE
  \/ sd.intra \in {2, 7, 9, 11} /\ sd'.intra = sd.intra + 1 /\ sd'.tx = sd.tx
  \/ sd.intra = 3 /\ done /\ sd'.intra = 4
  \/ sd.intra = 4 /\ sd'.intra \in {1, 5}
  \/ sd.intra = 5 /\ sd'.intra = 6
  \/ sd.intra \in {8, 10} /\ done /\ sd'.intra = sd.intra + 1 /\ sd'.start = TRUE
ReadPace ==
  \/ sd.intra \in {3, 8, 10, 12} /\ ~done /\ sd' = sd
  \/ sd.intra = 12 /\ done /\ sd'.intra = 0
  \/ SameRoutine /\ ReadOn
LEMMA PaceRead ==
  ASSUME CtlInv, Reading, sd' = ReadData
  PROVE  PaceStep
<1>0. ~InFillers /\ ~InCommand /\ ~Writing /\ ~Seeking
  BY DEF CtlInv, SdPlace, InFillers, InCommand, Writing, Seeking, Reading
<1>1. CASE sd.intra \in {3, 8, 10, 12} /\ ~done /\ sd' = sd
  <2>1. Awaiting /\ ~Lowering
    BY <1>0, <1>1 DEF Lowering, Awaiting
  <2>2. QED BY <1>1, <2>1, PaceStays
<1>2. CASE sd.intra = 12 /\ done /\ sd'.intra = 0
  <2>1. ~Lowering
    BY <1>0, <1>2 DEF Lowering
  <2>2. QED BY <1>2, <2>1, PaceEnds
<1>3. CASE SameRoutine /\ ReadOn
  <2>1. Reading' /\ ~InCommand' /\ ~Writing' /\ ~InFillers' /\ ~Seeking'
    BY <1>0, <1>3 DEF SameRoutine, InFillers, InCommand, Writing, Seeking, Reading
  <2>2. QED BY <1>0, <1>3, <2>1 DEF ReadOn, PaceStep, Lowering, Awaiting
<1>4. ReadPace
  <2>0. ReadRow
    BY ReadTable
  <2>1. CASE sd.intra = 0
    BY <2>1, <2>0 DEF ReadRow, ReadPace, ReadOn, Plain, Sets
  <2>2. CASE sd.intra = 1
    BY <2>2, <2>0 DEF ReadRow, ReadPace, ReadOn, Plain, Sets
  <2>3. CASE sd.intra \in {2, 7, 9, 11}
    BY <2>3, <2>0 DEF ReadRow, ReadPace, ReadOn, Plain, Sets
  <2>4. CASE sd.intra = 3
    BY <2>4, <2>0 DEF ReadRow, ReadPace, ReadOn, Plain, Sets
  <2>5. CASE sd.intra = 4
    BY <2>5, <2>0 DEF ReadRow, ReadPace, ReadOn, Plain, Sets
  <2>6. CASE sd.intra \in {5, 6}
    BY <2>6, <2>0 DEF ReadRow, ReadPace, ReadOn, Plain, Sets
  <2>7. CASE sd.intra \in {8, 10}
    BY <2>7, <2>0 DEF ReadRow, ReadPace, ReadOn, Plain, Sets
  <2>8. CASE sd.intra = 12
    BY <2>8, <2>0 DEF ReadRow, ReadPace, ReadOn, Plain, Sets
  <2>9. QED
    <3>1. sd.intra \in 0 .. 12
      BY DEF CtlInv, SdPlace
    <3>2. QED BY <3>1, <2>1, <2>2, <2>3, <2>4, <2>5, <2>6, <2>7, <2>8
<1>5. QED BY <1>1, <1>2, <1>3, <1>4 DEF ReadPace

-----------------------------------------------------------------------------
(* The controller before it is ready.                                      *)

SamePulses ==
  /\ sd'.address_progression = sd.address_progression
  /\ sd'.sdwd = sd.sdwd /\ sd'.sdrd = sd.sdrd
InitSteps ==
  /\ PaceStep
  /\ sd'.write = 0 /\ sd'.read = 0 /\ SamePulses
  /\ sd'.tx \in Byte \ {81, 88}
  /\ ~sd'.ready /\ InCommand' /\ sd'.intra \in 1 .. 4 => sd'.cmd \in InitFrames /\ sd'.n \in 0 .. 5
  /\ sd'.ready => sd'.cs_en /\ sd'.intra = 0

LEMMA InitFrameBytes ==
  ASSUME NEW frame \in InitFrames, NEW n \in 0 .. 5
  PROVE  frame[n + 1] \in Byte \ {81, 88}
BY DEF InitFrames, CMD_0, CMD_8, CMD_55, ACMD_41, Byte

LEMMA PaceFillersRow ==
  ASSUME CtlInv, InFillers, NEW then, FillersRow(then),
         sd.intra = 3 /\ done /\ sd' = then =>
           sd'.intra = 0 \/ (~sd'.ready /\ sd'.init = 2 /\ sd'.write = 0)
  PROVE  PaceStep
<1>1. CASE sd.intra = 3 /\ done /\ sd' = then
  <2>1. ~Lowering
    BY <1>1 DEF Lowering, CtlInv, SdPlace, InFillers, InCommand, Writing, Seeking, Reading
  <2>2. QED BY <1>1, <2>1, PaceEnds
<1>2. QED BY <1>1, PaceFillers DEF FillersRow

LEMMA PaceCommandRow ==
  ASSUME CtlInv, InCommand, NEW frame, NEW answered, CommandRow(frame, answered),
         sd.intra = 8 /\ done /\ sd' = answered =>
           \/ sd'.intra = 0
           \/ SameRoutine /\ sd'.intra = 6
  PROVE  PaceStep
<1>1. CASE sd.intra = 8 /\ done /\ sd' = answered
  <2>1. ~Lowering
    BY <1>1 DEF Lowering, CtlInv, SdPlace, InFillers, InCommand, Writing, Seeking, Reading
  <2>2. CASE sd'.intra = 0
    BY <1>1, <2>1, <2>2, PaceEnds
  <2>3. CASE SameRoutine /\ sd'.intra = 6
    BY <1>1, <2>3, PaceCommand
  <2>4. QED BY <1>1, <2>2, <2>3
<1>2. CASE sd.intra = 4 /\ done /\ sd.n = 5 /\ \E cnt : Plain(5, sd.tx, cnt, FALSE)
  <2>1. SameRoutine /\ sd'.intra = 5
    BY <1>2, SetsPlace
  <2>2. QED BY <1>2, <2>1, PaceCommand
<1>3. CASE sd.intra \in {1, 2, 3, 5, 6, 7} /\
           \/ sd.intra = 1 /\ Plain(2, sd.cmd[sd.n + 1], sd.cnt, FALSE)
           \/ sd.intra = 2 /\ Plain(3, sd.tx, sd.cnt, TRUE)
           \/ sd.intra = 3 /\ Plain(4, sd.tx, sd.cnt, FALSE)
           \/ sd.intra = 5 /\ Plain(6, Filler, sd.cnt, FALSE)
           \/ sd.intra = 6 /\ Plain(7, sd.tx, sd.cnt, TRUE)
           \/ sd.intra = 7 /\ Plain(8, sd.tx, sd.cnt, FALSE)
  <2>1. \/ sd.intra = 1 /\ SameRoutine /\ sd'.intra = 2
        \/ sd.intra = 2 /\ SameRoutine /\ sd'.intra = 3 /\ sd'.start = TRUE
        \/ sd.intra = 3 /\ SameRoutine /\ sd'.intra = 4 /\ sd'.tx = sd.tx
        \/ sd.intra = 5 /\ SameRoutine /\ sd'.intra = 6
        \/ sd.intra = 6 /\ SameRoutine /\ sd'.intra = 7 /\ sd'.start = TRUE
        \/ sd.intra = 7 /\ SameRoutine /\ sd'.intra = 8 /\ sd'.tx = sd.tx
    BY <1>3, SetsPlace
  <2>2. QED BY <2>1, PaceCommand
<1>4. CASE \/ sd.intra = 0 /\ SameRoutine /\ sd'.intra = 1
           \/ sd.intra \in {4, 8} /\ ~done /\ sd' = sd
           \/ sd.intra = 4 /\ done /\ SameRoutine /\ sd'.intra = 1
  <2>1. \/ sd.intra = 0 /\ SameRoutine /\ sd'.intra = 1
        \/ sd.intra \in {4, 8} /\ ~done /\ sd' = sd
        \/ sd.intra = 4 /\ done /\ SameRoutine /\ sd'.intra \in {1, 5}
    BY <1>4
  <2>2. QED BY <2>1, PaceCommand
<1>5. QED BY <1>1, <1>2, <1>3, <1>4 DEF CommandRow

LEMMA PoweringInit ==
  ASSUME CtlInv, InitPlace, sd.tx \in Byte, Powering \/ Selecting, sd' = Initialise
  PROVE  InitSteps
<1>1. /\ ~sd.start /\ sd.init \in {0, 2} /\ ~sd.ready /\ sd.write = 0 /\ sd.read = 0
      /\ sd.init = 0 => sd.intra = 0
  BY Lowered DEF Powering, Selecting, CtlInv, SdPlace
<1>2. \/ sd.init = 0 /\ sd' = [NextInit EXCEPT !.cnt = 0]
      \/ sd.init = 0 /\ sd' = [sd EXCEPT !.cnt = @ + 1]
      \/ sd.init = 2 /\ sd' = [NextInit EXCEPT !.cs_en = FALSE, !.cnt = 0, !.n = 0, !.cmd = CMD_0]
  BY <1>1 DEF Initialise
<1>3. /\ sd'.write = 0 /\ sd'.read = 0 /\ SamePulses /\ sd'.tx = sd.tx /\ sd'.intra = 0
      /\ sd'.ready = sd.ready
  <2>1. CASE sd.init = 0 /\ sd' = [NextInit EXCEPT !.cnt = 0]
    BY <1>1, <2>1 DEF NextInit, SamePulses, CtlInv, SdShape, SdFields
  <2>2. CASE sd.init = 0 /\ sd' = [sd EXCEPT !.cnt = @ + 1]
    BY <1>1, <2>2 DEF SamePulses, CtlInv, SdShape, SdFields
  <2>3. CASE sd' = [NextInit EXCEPT !.cs_en = FALSE, !.cnt = 0, !.n = 0, !.cmd = CMD_0]
    BY <1>1, <2>3 DEF NextInit, SamePulses, CtlInv, SdShape, SdFields
  <2>4. QED BY <1>2, <2>1, <2>2, <2>3
<1>4. ~Lowering /\ ~Awaiting
  BY <1>1 DEF Lowering, Awaiting, InFillers, InCommand, Writing, Seeking, Reading
<1>5. PaceStep
  BY <1>3, <1>4, PaceEnds
<1>6. QED BY <1>1, <1>3, <1>5 DEF InitSteps, InitPlace

LEMMA FillersInit ==
  ASSUME CtlInv, InitPlace, sd.tx \in Byte, ~sd.ready, sd.init \in {1, 4, 6, 8}, sd' = Initialise
  PROVE  InitSteps
<1>1. /\ InFillers /\ (sd.start => sd.intra = 2) /\ sd.intra \in 0 .. 3
      /\ sd.write = 0 /\ sd.read = 0 /\ ~InCommand
  BY Lowered DEF InFillers, InCommand, CtlInv, SdPlace
<1>2. PICK limit, then : /\ sd' = Fillers(limit, then)
                         /\ then = NextInit \/ (sd.init = 1 /\ then = [sd EXCEPT !.init = 2])
  BY DEF Initialise
<1>3. FillersRow(then)
  BY <1>1, <1>2, FillersTable
<1>4. sd.tx \in Byte \ {81, 88} /\ Filler \in Byte \ {81, 88}
  BY DEF InitPlace, Filler, Byte
<1>5. CASE sd.intra = 3 /\ done /\ sd' = then
  <2>1. ~sd.start
    BY <1>1, <1>5
  <2>2. CASE then = NextInit
    <3>1. Enters(sd.init + 1, sd.write, sd.read)
      BY <1>5, <2>1, <2>2, NextMoves
    <3>2. /\ sd'.intra = 0 /\ sd'.tx = sd.tx /\ SamePulses /\ sd'.write = 0 /\ sd'.read = 0
          /\ ~sd'.ready
      BY <1>1, <3>1 DEF Enters, SameLines, SamePulses
    <3>3. PaceStep
      BY <1>1, <1>3, <3>2, PaceFillersRow
    <3>4. QED BY <1>4, <3>2, <3>3 DEF InitSteps
  <2>3. CASE sd.init = 1 /\ then = [sd EXCEPT !.init = 2]
    <3>1. /\ sd'.init = 2 /\ ~sd'.ready /\ sd'.tx = sd.tx /\ SamePulses
          /\ sd'.write = 0 /\ sd'.read = 0
      BY <1>1, <1>5, <2>3 DEF SamePulses, CtlInv, SdShape, SdFields
    <3>2. ~InCommand'
      BY <3>1 DEF InCommand
    <3>3. PaceStep
      BY <1>1, <1>3, <3>1, PaceFillersRow
    <3>4. QED BY <1>4, <3>1, <3>2, <3>3 DEF InitSteps
  <2>4. QED BY <1>2, <2>2, <2>3
<1>6. CASE ~(sd.intra = 3 /\ done /\ sd' = then)
  <2>1. PaceStep
    BY <1>1, <1>3, <1>6, PaceFillersRow
  <2>2. sd'.tx \in {sd.tx, Filler} /\ SamePulses /\ SameRoutine
    <3>1. CASE sd' = sd
      BY <3>1 DEF SamePulses, SameRoutine
    <3>2. CASE sd' # sd
      BY <1>3, <1>6, <3>2 DEF FillersRow, Plain, Sets, SameLines, SamePulses
    <3>3. QED BY <3>1, <3>2
  <2>3. ~InCommand' /\ ~sd'.ready
    BY <1>1, <2>2 DEF InCommand, SameRoutine
  <2>4. QED BY <1>1, <1>4, <2>1, <2>2, <2>3 DEF InitSteps, SameRoutine
<1>7. QED BY <1>5, <1>6

LEMMA CommandInit ==
  ASSUME CtlInv, InitPlace, sd.tx \in Byte, ~sd.ready, sd.init \in {3, 5, 7, 9}, sd' = Initialise
  PROVE  InitSteps
<1>1. /\ InCommand /\ sd.write = 0 /\ sd.read = 0
      /\ sd.start => sd.intra \in {3, 7}
      /\ sd.intra \in 0 .. 8
  BY Lowered DEF InCommand, CtlInv, SdPlace
<1>2. PICK frame, answered :
        /\ sd' = Command(frame, answered)
        /\ frame \in InitFrames
        /\ \/ answered \in {AskAgain, [AskAgain EXCEPT !.cnt = 0], [AskAgain EXCEPT !.cnt = @ + 1]}
           \/ sd.init # 9 /\ answered \in {NextInit, [NextInit EXCEPT !.cnt = 0]}
           \/ answered = [sd EXCEPT !.cnt = 0, !.init = 6, !.intra = 0]
           \/ answered = [NextInit EXCEPT !.ready = TRUE, !.clk_cnt = Fast, !.cnt = 0,
                                          !.cs_en = TRUE]
  <2>1. PICK frame, answered :
          /\ sd' = Command(frame, answered)
          /\ frame \in InitFrames
          /\ \/ sd.init # 9 /\ answered \in {AskAgain, NextInit, [NextInit EXCEPT !.cnt = 0]}
             \/ sd.init = 5 /\ answered = AnswerR7
             \/ sd.init = 9 /\ answered = AnswerACMD41
    BY DEF Initialise, InitFrames
  <2>2. \/ AnswerR7 \in {[AskAgain EXCEPT !.cnt = 0], [AskAgain EXCEPT !.cnt = @ + 1]}
        \/ AnswerR7 = [NextInit EXCEPT !.cnt = 0]
    BY DEF AnswerR7
  <2>3. \/ AnswerACMD41 = [AskAgain EXCEPT !.cnt = @ + 1]
        \/ AnswerACMD41 = [sd EXCEPT !.cnt = 0, !.init = 6, !.intra = 0]
        \/ AnswerACMD41 = [NextInit EXCEPT !.ready = TRUE, !.clk_cnt = Fast, !.cnt = 0,
                                           !.cs_en = TRUE]
    BY DEF AnswerACMD41
  <2>4. QED BY <2>1, <2>2, <2>3
<1>3. CommandRow(frame, answered)
  BY <1>1, <1>2, CommandTable
<1>4. sd.tx \in Byte \ {81, 88} /\ Filler \in Byte \ {81, 88}
  BY DEF InitPlace, Filler, Byte
<1>5. CASE sd.intra = 8 /\ done /\ sd' = answered
  <2>1. ~sd.start
    BY <1>1, <1>5
  <2>2. CASE answered \in {AskAgain, [AskAgain EXCEPT !.cnt = 0], [AskAgain EXCEPT !.cnt = @ + 1]}
    <3>1. PICK cnt : Plain(6, sd.tx, cnt, FALSE)
      BY <1>5, <2>1, <2>2, AskMoves
    <3>2. SameRoutine /\ sd'.intra = 6 /\ sd'.tx = sd.tx /\ SamePulses
      BY <3>1 DEF Plain, Sets, SameLines, SamePulses
    <3>3. PaceStep
      BY <1>1, <1>3, <3>2, PaceCommandRow
    <3>4. QED BY <1>1, <1>4, <3>2, <3>3 DEF InitSteps, SameRoutine
  <2>3. CASE answered \in {NextInit, [NextInit EXCEPT !.cnt = 0]}
    <3>1. Enters(sd.init + 1, sd.write, sd.read)
      BY <1>5, <2>1, <2>3, NextMoves
    <3>2. /\ sd'.intra = 0 /\ sd'.tx = sd.tx /\ SamePulses /\ sd'.write = 0 /\ sd'.read = 0
          /\ ~sd'.ready
      BY <1>1, <3>1 DEF Enters, SameLines, SamePulses
    <3>3. PaceStep
      BY <1>1, <1>3, <3>2, PaceCommandRow
    <3>4. QED BY <1>4, <3>2, <3>3 DEF InitSteps
  <2>4. CASE answered = [sd EXCEPT !.cnt = 0, !.init = 6, !.intra = 0]
    <3>1. /\ sd'.intra = 0 /\ sd'.tx = sd.tx /\ SamePulses /\ sd'.write = 0 /\ sd'.read = 0
          /\ ~sd'.ready
      BY <1>1, <1>5, <2>4 DEF SamePulses, CtlInv, SdShape, SdFields
    <3>2. PaceStep
      BY <1>1, <1>3, <3>1, PaceCommandRow
    <3>3. QED BY <1>4, <3>1, <3>2 DEF InitSteps
  <2>5. CASE answered = [NextInit EXCEPT !.ready = TRUE, !.clk_cnt = Fast, !.cnt = 0,
                                         !.cs_en = TRUE]
    <3>1. /\ sd'.intra = 0 /\ sd'.tx = sd.tx /\ SamePulses /\ sd'.write = 0 /\ sd'.read = 0
          /\ sd'.ready = TRUE /\ sd'.cs_en = TRUE
      BY <1>1, <1>5, <2>5 DEF NextInit, SamePulses, CtlInv, SdShape, SdFields
    <3>2. PaceStep
      BY <1>1, <1>3, <3>1, PaceCommandRow
    <3>3. QED BY <1>4, <3>1, <3>2 DEF InitSteps
  <2>6. QED BY <1>2, <2>2, <2>3, <2>4, <2>5
<1>6. CASE ~(sd.intra = 8 /\ done /\ sd' = answered)
  <2>1. PaceStep
    BY <1>1, <1>3, <1>6, PaceCommandRow
  <2>2. CASE sd' = sd
    BY <1>1, <1>4, <2>1, <2>2 DEF InitSteps, SamePulses, InitPlace, InCommand
  <2>3. CASE sd' # sd
    <3>1. CASE sd.intra = 0
      <4>1. /\ SameRoutine /\ SameLines /\ sd'.n = 0 /\ sd'.cmd = frame /\ sd'.intra = 1
            /\ sd'.tx = sd.tx
        BY <1>3, <3>1 DEF CommandRow
      <4>2. QED BY <1>1, <1>2, <1>4, <2>1, <4>1 DEF InitSteps, SameRoutine, SameLines, SamePulses
    <3>2. CASE sd.intra = 4 /\ sd.n # 5
      <4>1. /\ SameRoutine /\ SameLines /\ sd'.n = sd.n + 1 /\ sd'.cmd = sd.cmd /\ sd'.intra = 1
            /\ sd'.tx = sd.tx
        <5>1. sd.intra = 4 /\ sd.n # 5 /\ sd' # sd
          BY <2>3, <3>2
        <5>2. QED BY <1>3, <5>1 DEF CommandRow, Plain, Sets
      <4>2. sd.cmd \in InitFrames /\ sd.n \in 0 .. 5
        BY <1>1, <3>2 DEF InitPlace
      <4>3. QED BY <1>1, <1>4, <2>1, <3>2, <4>1, <4>2
                DEF InitSteps, SameRoutine, SameLines, SamePulses
    <3>3. CASE sd.intra # 0 /\ ~(sd.intra = 4 /\ sd.n # 5)
      <4>1. \/ sd.intra = 1 /\ Plain(2, sd.cmd[sd.n + 1], sd.cnt, FALSE)
            \/ sd.intra = 2 /\ Plain(3, sd.tx, sd.cnt, TRUE)
            \/ sd.intra = 3 /\ Plain(4, sd.tx, sd.cnt, FALSE)
            \/ sd.intra = 4 /\ \E cnt : Plain(5, sd.tx, cnt, FALSE)
            \/ sd.intra = 5 /\ Plain(6, Filler, sd.cnt, FALSE)
            \/ sd.intra = 6 /\ Plain(7, sd.tx, sd.cnt, TRUE)
            \/ sd.intra = 7 /\ Plain(8, sd.tx, sd.cnt, FALSE)
        BY <1>3, <1>6, <2>3, <3>3 DEF CommandRow
      <4>2. SameRoutine /\ SameFrame /\ SamePulses
        BY <4>1 DEF Plain, Sets, SameLines, SamePulses
      <4>3. sd'.tx \in {sd.tx, Filler} \/ (sd.intra = 1 /\ sd'.tx = sd.cmd[sd.n + 1])
        BY <4>1 DEF Plain, Sets
      <4>4. sd.intra \in 1 .. 4 => sd.cmd \in InitFrames /\ sd.n \in 0 .. 5
        BY <1>1 DEF InitPlace
      <4>5. sd'.tx \in Byte \ {81, 88}
        BY <1>4, <4>3, <4>4, InitFrameBytes
      <4>6. sd'.intra \in 1 .. 4 => sd.intra \in 1 .. 4
        BY <4>1 DEF Plain, Sets
      <4>7. QED BY <1>1, <2>1, <4>2, <4>4, <4>5, <4>6 DEF InitSteps, SameRoutine, SameFrame
    <3>4. QED BY <3>1, <3>2, <3>3
  <2>4. QED BY <2>2, <2>3
<1>7. QED BY <1>5, <1>6

LEMMA InitialiseMoves ==
  ASSUME CtlInv, InitPlace, sd.tx \in Byte, ~sd.ready, sd' = Initialise
  PROVE  InitSteps
<1>1. sd.init \in {0, 2, 1, 4, 6, 8, 3, 5, 7, 9}
  BY DEF CtlInv, SdPlace
<1>2. QED
  BY <1>1, PoweringInit, FillersInit, CommandInit DEF Powering, Selecting

\* The first two routines of a call.
LEMMA PaceWriteCall ==
  ASSUME CtlInv, sd.ready, sd.write \in 1 .. 2, NEW block, NEW byte, sd' = Write(block, byte)
  PROVE  /\ PaceStep
         /\ sd.write = 1 => FillersRow(NextWrite)
         /\ sd.write = 2 => CommandRow(CMD_24(block),
                                       IF spi.rx = 0 THEN NextWrite ELSE AskAgain)
<1>1. sd.read = 0
  BY DEF CtlInv, SdPlace
<1>2. CASE sd.write = 1
  <2>1. InFillers /\ (sd.start => sd.intra = 2) /\ sd.intra \in 0 .. 3
    BY <1>2, Lowered DEF InFillers
  <2>2. sd' = Fillers(2, NextWrite)
    BY <1>2 DEF Write
  <2>3. FillersRow(NextWrite)
    BY <2>1, <2>2, FillersTable
  <2>4. sd.intra = 3 /\ sd' = NextWrite => sd'.intra = 0
    <3>1. sd.intra = 3 => ~sd.start
      BY <2>1
    <3>2. QED BY <3>1, NextMoves DEF Enters
  <2>5. PaceStep
    BY <2>1, <2>3, <2>4, PaceFillersRow
  <2>6. QED BY <1>2, <2>3, <2>5
<1>3. CASE sd.write = 2
  <2>1. InCommand /\ (sd.start => sd.intra \in {3, 7}) /\ sd.intra \in 0 .. 8
    BY <1>3, Lowered DEF InCommand
  <2>2. sd' = Command(CMD_24(block), IF spi.rx = 0 THEN NextWrite ELSE AskAgain)
    BY <1>3 DEF Write
  <2>3. CommandRow(CMD_24(block), IF spi.rx = 0 THEN NextWrite ELSE AskAgain)
    BY <2>1, <2>2, CommandTable
  <2>4. sd.intra = 8 /\ sd' = NextWrite => sd'.intra = 0
    <3>1. sd.intra = 8 => ~sd.start
      BY <2>1
    <3>2. QED BY <3>1, NextMoves DEF Enters
  <2>5. sd.intra = 8 /\ sd' = AskAgain => SameRoutine /\ sd'.intra = 6
    <3>1. sd.intra = 8 => ~sd.start
      BY <2>1
    <3>2. QED BY <3>1, AskMoves, SetsPlace
  <2>6. PaceStep
    BY <2>1, <2>3, <2>4, <2>5, PaceCommandRow
  <2>7. QED BY <1>3, <2>3, <2>6
<1>4. QED BY <1>2, <1>3

LEMMA PaceReadCall ==
  ASSUME CtlInv, sd.ready, sd.write = 0, sd.read \in 1 .. 2, NEW block, sd' = Read(block)
  PROVE  /\ PaceStep
         /\ sd.read = 1 => FillersRow(NextRead)
         /\ sd.read = 2 => CommandRow(CMD_17(block), IF spi.rx = 0 THEN NextRead ELSE AskAgain)
<1>2. CASE sd.read = 1
  <2>1. InFillers /\ (sd.start => sd.intra = 2) /\ sd.intra \in 0 .. 3
    BY <1>2, Lowered DEF InFillers
  <2>2. sd' = Fillers(4, NextRead)
    BY <1>2 DEF Read
  <2>3. FillersRow(NextRead)
    BY <2>1, <2>2, FillersTable
  <2>4. sd.intra = 3 /\ sd' = NextRead => sd'.intra = 0
    <3>1. sd.intra = 3 => ~sd.start
      BY <2>1
    <3>2. QED BY <3>1, NextMoves DEF Enters
  <2>5. PaceStep
    BY <2>1, <2>3, <2>4, PaceFillersRow
  <2>6. QED BY <1>2, <2>3, <2>5
<1>3. CASE sd.read = 2
  <2>1. InCommand /\ (sd.start => sd.intra \in {3, 7}) /\ sd.intra \in 0 .. 8
    BY <1>3, Lowered DEF InCommand
  <2>2. sd' = Command(CMD_17(block), IF spi.rx = 0 THEN NextRead ELSE AskAgain)
    BY <1>3 DEF Read
  <2>3. CommandRow(CMD_17(block), IF spi.rx = 0 THEN NextRead ELSE AskAgain)
    BY <2>1, <2>2, CommandTable
  <2>4. sd.intra = 8 /\ sd' = NextRead => sd'.intra = 0
    <3>1. sd.intra = 8 => ~sd.start
      BY <2>1
    <3>2. QED BY <3>1, NextMoves DEF Enters
  <2>5. sd.intra = 8 /\ sd' = AskAgain => SameRoutine /\ sd'.intra = 6
    <3>1. sd.intra = 8 => ~sd.start
      BY <2>1
    <3>2. QED BY <3>1, AskMoves, SetsPlace
  <2>6. PaceStep
    BY <2>1, <2>3, <2>4, <2>5, PaceCommandRow
  <2>7. QED BY <1>3, <2>3, <2>6
<1>4. QED BY <1>2, <1>3

-----------------------------------------------------------------------------
(* PaceInv, and the three kinds of edge there are while the card listens.  *)

LEMMA PaceTick ==
  ASSUME CtlInv, CardPlace, sd.tx \in Byte, NEW sdws, NEW sdrs, ~(sdws /\ sdrs), NEW block,
         NEW byte, SdClock(sdws, sdrs, block, byte)
  PROVE  PaceStep
<1>0. /\ sd.ready \in BOOLEAN /\ sd.write \in 0 .. 3 /\ sd.read \in 0 .. 4
      /\ sd.write # 0 => sd.read = 0
  BY DEF CtlInv, SdShape, SdPlace
<1>1. CASE ~sd.ready
  <2>1. InitPlace
    BY <1>1 DEF CardPlace
  <2>2. sd' = Initialise
    BY <1>1 DEF SdClock
  <2>3. QED BY <1>1, <2>1, <2>2, InitialiseMoves DEF InitSteps
<1>2. CASE sd.ready /\ sd.write # 0
  <2>1. sd' = Write(block, byte)
    BY <1>2 DEF SdClock
  <2>2. CASE sd.write = 3
    <3>1. Writing /\ sd' = WriteData(byte)
      BY <1>2, <2>1, <2>2 DEF Writing, Write
    <3>2. sd.intra \in 6 .. 9 => sd.cnt \in Nat
      <4>1. BlockLen \in Nat
        BY SdAssumption
      <4>2. QED BY <3>1, <4>1 DEF CardPlace, WritePlace
    <3>3. QED BY <3>1, <3>2, PaceWrite
  <2>3. CASE sd.write \in 1 .. 2
    BY <1>2, <2>1, <2>3, PaceWriteCall
  <2>4. QED BY <1>0, <1>2, <2>2, <2>3
<1>3. CASE sd.ready /\ sd.write = 0 /\ sd.read # 0
  <2>1. sd' = Read(block)
    BY <1>3 DEF SdClock
  <2>2. CASE sd.read \in 1 .. 2
    BY <1>3, <2>1, <2>2, PaceReadCall
  <2>3. CASE sd.read = 3
    <3>1. Seeking /\ sd' = ReadToken
      BY <1>3, <2>1, <2>3 DEF Seeking, Read
    <3>2. QED BY <3>1, PaceSeek
  <2>4. CASE sd.read = 4
    <3>1. Reading /\ sd' = ReadData
      BY <1>3, <2>1, <2>4 DEF Reading, Read
    <3>2. QED BY <3>1, PaceRead
  <2>5. QED BY <1>0, <1>3, <2>2, <2>3, <2>4
<1>4. CASE sd.ready /\ sd.write = 0 /\ sd.read = 0
  <2>1. Waiting /\ sd.intra = 0
    BY <1>4 DEF Waiting, CtlInv, SdPlace
  <2>2. sd' = Wait(sdws, sdrs)
    BY <1>4 DEF SdClock
  <2>3. sd'.intra = 0
    BY <2>1, <2>2 DEF Wait, CtlInv, SdShape, SdFields
  <2>4. ~Lowering /\ ~Awaiting
    BY <2>1 DEF Lowering, Awaiting, Waiting, InFillers, InCommand, Writing, Seeking, Reading
  <2>5. QED BY <2>3, <2>4, PaceEnds
<1>5. QED BY <1>0, <1>1, <1>2, <1>3, <1>4

LEMMA LowersOrAwaits == ASSUME CtlInv PROVE ~(Lowering /\ Awaiting)
BY DEF CtlInv, SdPlace, Lowering, Awaiting, WritingUp, InFillers, InCommand, Writing, Seeking,
   Reading

LEMMA PaceNext ==
  ASSUME StepInv, PaceInv, PaceStep, Byteward, NEW miso, ByteInEngine(miso)
  PROVE  PaceInv'
<1>1. /\ spi.state \in 0 .. 3 /\ ~(Lowering /\ Awaiting)
      /\ sd.start => Lowering
  BY LowersOrAwaits DEF StepInv, CtlInv, StartFalls, EngInv, SpiShape
<1>2. spi'.state \in 0 .. 3
  BY <1>1 DEF Byteward
<1>3. CASE Lowering
  <2>1. spi.state = 0 /\ sd.start
    BY <1>1, <1>3 DEF PaceInv
  <2>2. spi'.state = 1 /\ spi'.txr = sd.tx
    BY <2>1 DEF Byteward, ByteInEngine
  <2>3. Awaiting' /\ sd'.tx = sd.tx
    BY <1>3 DEF PaceStep
  <2>4. QED BY <2>2, <2>3 DEF PaceInv, PaceStep
<1>4. CASE ~Lowering /\ ~Awaiting
  <2>1. spi.state = 0 /\ ~sd.start
    BY <1>1, <1>4 DEF PaceInv
  <2>2. spi'.state = 0
    BY <2>1 DEF Byteward
  <2>3. QED BY <1>4, <2>2 DEF PaceInv, PaceStep
<1>5. CASE ~Lowering /\ Awaiting /\ ~done
  <2>1. sd' = sd /\ ~sd.start
    BY <1>1, <1>5 DEF PaceStep
  <2>2. Lowering' = Lowering /\ Awaiting' = Awaiting
    BY <2>1 DEF Lowering, Awaiting, InFillers, InCommand, Writing, Seeking, Reading
  <2>3. CASE spi.state \in 1 .. 2
    <3>1. spi'.state \in 1 .. 3
      BY <2>3 DEF Byteward
    <3>2. spi'.txr = spi.txr
      BY <2>3 DEF ByteInEngine
    <3>3. QED BY <1>5, <2>1, <2>2, <2>3, <3>1, <3>2 DEF PaceInv
  <2>4. CASE Hung
    <3>1. spi'.state = 0
      BY <2>1, <2>4 DEF Byteward, Hung
    <3>2. Hung'
      BY <2>1, <2>4, <3>1 DEF Hung, Writing
    <3>3. QED BY <1>5, <2>2, <3>1, <3>2 DEF PaceInv
  <2>5. QED BY <1>5, <2>3, <2>4 DEF PaceInv, done
<1>6. CASE ~Lowering /\ Awaiting /\ done
  <2>1. spi'.state = 0
    BY <1>6 DEF done, Byteward
  <2>2. ~Awaiting' \/ Hung'
    BY <1>6, <2>1 DEF PaceStep, Hung, Writing
  <2>3. QED BY <2>1, <2>2 DEF PaceInv, PaceStep
<1>7. QED BY <1>1, <1>3, <1>4, <1>5, <1>6

Finishes == Completes /\ sd' = sd /\ Awaiting /\ spi.state = 2 /\ spi.txr = sd.tx
Lasts == KeepsScript /\ sd' = sd /\ Awaiting /\ (Over' <=> Over) /\ (Over => Told' = Told)
         /\ (Hung' <=> Hung)
MovesOn ==
  /\ KeepsScript /\ ~Over' /\ spi.state \in {0, 3} /\ spi'.state \in {0, 1}
  /\ IF Awaiting THEN done ELSE spi.state = 0

LEMMA EdgeKinds ==
  ASSUME StepInv, PaceInv, BitInv, ByteTypes, ~sd.cs_en, ByteEdge, PaceStep
  PROVE  Finishes \/ Lasts \/ MovesOn
<1>1. spi.state \in 0 .. 3 /\ (Awaiting => spi.state \in 1 .. 3 \/ Hung)
      /\ (~Awaiting => spi.state = 0)
  BY DEF StepInv, EngInv, SpiShape, PaceInv
<1>2. CASE ~Awaiting \/ done
  <2>1. spi.state \in {0, 3}
    BY <1>1, <1>2 DEF done
  <2>2. Holds
    BY <2>1 DEF ByteEdge, Turns
  <2>3. KeepsScript
    BY <2>2, HeldLine
  <2>4. spi'.state \in {0, 1} /\ ~Over'
    BY <2>1 DEF ByteEdge, Byteward, Over
  <2>5. QED BY <1>1, <1>2, <2>1, <2>3, <2>4 DEF MovesOn
<1>3. CASE Awaiting /\ ~done
  <2>1. sd' = sd
    BY <1>3 DEF PaceStep
  <2>2. Completes \/ Keeps
    BY <2>1, BitsStep
  <2>3. ~sd.start
    <3>1. ~Lowering
      BY <1>3, LowersOrAwaits DEF StepInv
    <3>2. QED BY <3>1 DEF StepInv, CtlInv, StartFalls
  <2>4. Over => Over'
    <3>1. ASSUME Over PROVE spi.state = 2 /\ spi.rise /\ spi.bit = 0
      BY <1>3, <3>1 DEF Over, done
    <3>2. spi.rise => ~spi.fall
      BY DEF StepInv, EngInv, Edges, SpiShape
    <3>3. QED BY <3>1, <3>2 DEF ByteEdge, Byteward, Over
  <2>5. Hung' <=> Hung
    <3>1. CASE spi.state = 0
      BY <2>1, <2>3, <3>1 DEF ByteEdge, Byteward, Hung, Writing
    <3>2. CASE spi.state \in {1, 2}
      BY <2>1, <3>2 DEF ByteEdge, Byteward, Hung, Writing
    <3>3. QED BY <1>1, <1>3, <3>1, <3>2 DEF done
  <2>6. CASE Completes
    <3>1. spi.state = 2
      <4>1. CASE spi.state \in {0, 1}
        BY <2>3, <2>6, <4>1 DEF ByteEdge, Byteward, Completes, Over
      <4>2. QED BY <1>1, <1>3, <4>1 DEF done
    <3>2. QED BY <1>3, <2>1, <2>6, <3>1 DEF Finishes, PaceInv
  <2>7. CASE Keeps
    BY <1>3, <2>1, <2>4, <2>5, <2>7 DEF Keeps, Lasts
  <2>8. QED BY <2>2, <2>6, <2>7
<1>4. QED BY <1>2, <1>3

-----------------------------------------------------------------------------
(* A script, a byte further.                                               *)

Scripts ==
  [want : {"command", "token", "data"}, heard : Seq(Byte), queue : Seq(Byte), out : Byte,
   block : Int, disk : [BlockNo -> Block]]

\* The card made nothing of the byte it heard.
Passes(s, s2) ==
  /\ s2.want = s.want /\ s2.heard = s.heard /\ s2.block = s.block /\ s2.disk = s.disk
  /\ IF Left(s) = 1 THEN s2.queue = <<>> /\ s2.out = Filler
     ELSE Left(s2) = Left(s) - 1 /\ \A i \in 1 .. Left(s2) : Coming(s2, i) = Coming(s, i + 1)
\* It put queue in its own, and the head of that on the line.
Puts(s2, queue) ==
  IF queue = <<>> THEN s2.queue = <<>> /\ s2.out = Filler
  ELSE s2.out = Head(queue) /\ s2.queue = Tail(queue)

LEMMA PutQueue ==
  ASSUME NEW s2, NEW queue \in Seq(Byte), Puts(s2, queue), queue # <<>>
  PROVE  /\ Left(s2) = Len(queue) /\ Len(queue) \in Nat \ {0}
         /\ \A i \in 1 .. Len(queue) : Coming(s2, i) = queue[i]
<1>1. /\ Len(queue) \in Nat \ {0} /\ Len(Tail(queue)) = Len(queue) - 1
      /\ \A i \in 1 .. Len(Tail(queue)) : Tail(queue)[i] = queue[i + 1]
      /\ Head(queue) = queue[1]
  BY EmptySeq, HeadTailProperties
<1>2. s2.out = queue[1] /\ s2.queue = Tail(queue)
  BY <1>1 DEF Puts
<1>3. Left(s2) = Len(queue)
  BY <1>1, <1>2 DEF Left
<1>4. ASSUME NEW i \in 1 .. Len(queue) PROVE Coming(s2, i) = queue[i]
  BY <1>1, <1>2 DEF Coming
<1>5. QED BY <1>1, <1>3, <1>4

LEMMA LeftOne ==
  ASSUME NEW s, s.queue \in Seq(Byte)
  PROVE  /\ Left(s) \in Nat \ {0} /\ (Left(s) = 1 <=> s.queue = <<>>)
         /\ \A i \in 2 .. Left(s) : Coming(s, i) = s.queue[i - 1]
         /\ Coming(s, 1) = s.out
<1>1. Len(s.queue) \in Nat /\ (Len(s.queue) = 0 <=> s.queue = <<>>)
  BY EmptySeq
<1>2. QED BY <1>1 DEF Left, Coming

LEMMA PutPasses ==
  ASSUME NEW s, NEW s2, s.queue \in Seq(Byte), Puts(s2, s.queue),
         s2.want = s.want, s2.heard = s.heard, s2.block = s.block, s2.disk = s.disk
  PROVE  Passes(s, s2)
<1>1. CASE s.queue = <<>>
  BY <1>1, LeftOne DEF Puts, Passes
<1>2. CASE s.queue # <<>>
  <2>1. /\ Left(s2) = Len(s.queue) /\ Len(s.queue) \in Nat \ {0}
        /\ \A i \in 1 .. Len(s.queue) : Coming(s2, i) = s.queue[i]
    BY <1>2, PutQueue
  <2>2. Left(s) = Len(s.queue) + 1
    BY DEF Left
  <2>3. ASSUME NEW i \in 1 .. Len(s.queue) PROVE Coming(s, i + 1) = s.queue[i]
    BY <2>1 DEF Coming
  <2>4. QED BY <2>1, <2>2, <2>3 DEF Passes
<1>3. QED BY <1>1, <1>2

LEMMA MutePasses ==
  ASSUME NEW s, NEW s2, s.queue \in Seq(Byte), Passes(s, s2), s2.queue \in Seq(Byte), Mute(s)
  PROVE  s.out # 0 /\ Mute(s2)
<1>1. /\ Left(s) \in Nat \ {0} /\ Left(s2) \in Nat \ {0} /\ Coming(s, 1) = s.out
      /\ Coming(s2, 1) = s2.out
      /\ s2.queue = <<>> => Left(s2) = 1
  BY LeftOne
<1>2. s.out # 0 /\ Silent(s2)
  BY <1>1 DEF Mute, Silent, Passes
<1>3. CASE Left(s) = 1
  BY <1>1, <1>2, <1>3 DEF Passes, Mute, Filler
<1>4. CASE Left(s) # 1
  BY <1>1, <1>2, <1>4 DEF Passes, Mute
<1>5. QED BY <1>2, <1>3, <1>4

LEMMA WriteGrantedPasses ==
  ASSUME NEW s, NEW s2, NEW d, s.queue \in Seq(Byte), Passes(s, s2), s2.queue \in Seq(Byte),
         WriteGranted(s, d)
  PROVE  \/ s.out = 0 /\ TokenReady(s2, d)
         \/ s.out # 0 /\ WriteGranted(s2, d)
<1>1. /\ Left(s) \in Nat \ {0} /\ Left(s2) \in Nat \ {0} /\ Coming(s, 1) = s.out
  BY LeftOne
<1>2. WantsToken(s2, d)
  BY DEF WriteGranted, WantsToken, Passes
<1>3. CASE Left(s) = 1
  BY <1>1, <1>2, <1>3 DEF Passes, WriteGranted, TokenReady
<1>4. CASE Left(s) # 1
  <2>1. s.out = Filler
    BY <1>1, <1>4 DEF WriteGranted
  <2>2. Left(s2) = Left(s) - 1 /\ \A i \in 1 .. Left(s2) : Coming(s2, i) = Coming(s, i + 1)
    BY <1>4 DEF Passes
  <2>3. WriteGranted(s2, d)
    BY <1>1, <1>2, <2>2 DEF WriteGranted
  <2>4. QED BY <2>1, <2>3 DEF Filler
<1>5. QED BY <1>3, <1>4

\* What still comes, a byte earlier.
LEMMA DataPasses ==
  ASSUME NEW s, NEW s2, NEW d, s.queue \in Seq(Byte), Passes(s, s2), s2.queue \in Seq(Byte),
         NEW t \in Nat, t > 0, NEW n \in 0 .. BlockLen, DataFrom(s, d, t + 1, n), Left(s) > 1
  PROVE  DataFrom(s2, d, t, n)
<1>1. /\ Left(s) \in Nat \ {0} /\ Left(s2) \in Nat \ {0} /\ BlockLen \in Nat \ {0}
  BY LeftOne, SdAssumption
<1>2. Left(s2) = Left(s) - 1 /\ \A i \in 1 .. Left(s2) : Coming(s2, i) = Coming(s, i + 1)
  BY <1>1 DEF Passes
<1>3. t + 1 + BlockLen - n <= Left(s) + 1
  BY DEF DataFrom
<1>4. ASSUME NEW j \in 1 .. BlockLen - n
      PROVE  Coming(s2, t + j - 1) = Wanted(d, n + j)
  <2>1. Coming(s, t + 1 + j - 1) = Wanted(d, n + j)
    BY DEF DataFrom
  <2>2. t + j - 1 \in 1 .. Left(s2) /\ (t + j - 1) + 1 = t + 1 + j - 1
    BY <1>1, <1>2, <1>3, <1>4
  <2>3. QED BY <1>2, <2>1, <2>2
<1>5. t + BlockLen - n <= Left(s2) + 1
  BY <1>1, <1>2, <1>3
<1>6. QED BY <1>4, <1>5 DEF DataFrom

LEMMA TokenPasses ==
  ASSUME NEW s, NEW s2, NEW d, s.queue \in Seq(Byte), Passes(s, s2), s2.queue \in Seq(Byte),
         NEW k \in Nat, k > 0, TokenFrom(s, d, k + 1)
  PROVE  TokenFrom(s2, d, k)
<1>1. /\ Left(s) \in Nat \ {0} /\ Left(s2) \in Nat \ {0} /\ BlockLen \in Nat \ {0}
  BY LeftOne, SdAssumption
<1>2. PICK t \in k + 1 .. Left(s) : TokenAt(s, d, k + 1, t)
  BY DEF TokenFrom
<1>3. Left(s2) = Left(s) - 1 /\ \A i \in 1 .. Left(s2) : Coming(s2, i) = Coming(s, i + 1)
  BY <1>1, <1>2 DEF Passes
<1>4. DataFrom(s2, d, t, 0)
  <2>1. DataFrom(s, d, t + 1, 0) /\ t \in Nat /\ t > 0 /\ Left(s) > 1 /\ 0 \in 0 .. BlockLen
    BY <1>1, <1>2 DEF TokenAt
  <2>2. QED BY <2>1, DataPasses
<1>5. t - 1 \in k .. Left(s2) /\ t - 1 + 1 = t
  BY <1>1, <1>2, <1>3
<1>6. Coming(s2, t - 1) = StartToken
  <2>1. Coming(s, t) = StartToken
    BY <1>2 DEF TokenAt
  <2>2. t - 1 \in 1 .. Left(s2)
    BY <1>1, <1>5
  <2>3. QED BY <1>3, <1>5, <2>1, <2>2
<1>7. ASSUME NEW i \in k .. t - 1 - 1 PROVE Coming(s2, i) = Filler
  <2>1. i + 1 \in k + 1 .. t - 1 /\ i \in 1 .. Left(s2)
    BY <1>1, <1>2, <1>3
  <2>2. Coming(s, i + 1) = Filler
    BY <1>2, <2>1 DEF TokenAt
  <2>3. QED BY <1>3, <2>1, <2>2
<1>8. TokenAt(s2, d, k, t - 1)
  BY <1>4, <1>5, <1>6, <1>7 DEF TokenAt
<1>9. QED BY <1>5, <1>8 DEF TokenFrom

LEMMA TokenComingPasses ==
  ASSUME NEW s, NEW s2, NEW d, s.queue \in Seq(Byte), Passes(s, s2), s2.queue \in Seq(Byte),
         TokenComing(s, d)
  PROVE  \/ s.out = StartToken /\ DataComing(s2, d, 0)
         \/ s.out # StartToken /\ TokenComing(s2, d)
<1>1. /\ Left(s) \in Nat \ {0} /\ BlockLen \in Nat \ {0} /\ Coming(s, 1) = s.out
  BY LeftOne, SdAssumption
<1>2. Silent(s2)
  BY DEF TokenComing, Silent, Passes
<1>3. PICK t \in 1 .. Left(s) : TokenAt(s, d, 1, t)
  BY DEF TokenComing, TokenFrom
<1>4. CASE t = 1
  <2>1. s.out = StartToken /\ DataFrom(s, d, 2, 0)
    BY <1>1, <1>3, <1>4 DEF TokenAt
  <2>2. 2 + BlockLen - 0 <= Left(s) + 1
    BY <2>1 DEF DataFrom
  <2>3. Left(s) > 1 /\ 0 \in 0 .. BlockLen
    BY <1>1, <2>2
  <2>4. DataFrom(s2, d, 1, 0)
    <3>1. PICK k \in Nat : k = 1
      OBVIOUS
    <3>2. k > 0 /\ k + 1 = 2
      BY <3>1
    <3>3. DataFrom(s, d, k + 1, 0)
      BY <2>1, <3>2
    <3>4. DataFrom(s2, d, k, 0)
      BY <2>3, <3>2, <3>3, DataPasses
    <3>5. QED BY <3>1, <3>4
  <2>5. QED BY <1>2, <2>1, <2>4 DEF DataComing
<1>5. CASE t > 1
  <2>1. s.out = Filler
    BY <1>1, <1>3, <1>5 DEF TokenAt
  <2>2. TokenFrom(s, d, 2)
    <3>1. t \in 2 .. Left(s) /\ TokenAt(s, d, 2, t)
      BY <1>3, <1>5 DEF TokenAt
    <3>2. QED BY <3>1 DEF TokenFrom
  <2>3. TokenFrom(s2, d, 1)
    <3>1. \A k \in Nat : k > 0 /\ TokenFrom(s, d, k + 1) => TokenFrom(s2, d, k)
      BY TokenPasses
    <3>2. 1 \in Nat /\ 1 > 0 /\ 1 + 1 = 2
      OBVIOUS
    <3>3. TokenFrom(s, d, 1 + 1)
      BY <2>2, <3>2
    <3>4. QED BY ONLY <3>1, <3>2, <3>3
  <2>4. QED BY <1>2, <2>1, <2>3 DEF TokenComing, Filler, StartToken
<1>6. QED BY <1>3, <1>4, <1>5

LEMMA ReadGrantedPasses ==
  ASSUME NEW s, NEW s2, NEW d, s.queue \in Seq(Byte), Passes(s, s2), s2.queue \in Seq(Byte),
         ReadGranted(s, d)
  PROVE  \/ s.out = 0 /\ TokenComing(s2, d)
         \/ s.out # 0 /\ ReadGranted(s2, d)
<1>1. /\ Left(s) \in Nat \ {0} /\ Coming(s, 1) = s.out
  BY LeftOne
<1>2. Silent(s2)
  BY DEF ReadGranted, Silent, Passes
<1>3. PICK z \in 1 .. Left(s) :
        /\ \A i \in 1 .. z - 1 : Coming(s, i) = Filler
        /\ Coming(s, z) = 0
        /\ TokenFrom(s, d, z + 1)
  BY DEF ReadGranted
<1>4. TokenFrom(s2, d, z)
  BY <1>3, TokenPasses
<1>5. CASE z = 1
  BY <1>1, <1>2, <1>3, <1>4, <1>5 DEF TokenComing
<1>6. CASE z > 1
  <2>1. s.out = Filler
    BY <1>1, <1>3, <1>6
  <2>2. Left(s2) = Left(s) - 1 /\ \A i \in 1 .. Left(s2) : Coming(s2, i) = Coming(s, i + 1)
    BY <1>1, <1>3, <1>6 DEF Passes
  <2>3. z - 1 \in 1 .. Left(s2) /\ z - 1 + 1 = z
    BY <1>1, <1>3, <1>6, <2>2
  <2>4. Coming(s2, z - 1) = 0
    BY <1>3, <2>2, <2>3
  <2>5. ASSUME NEW i \in 1 .. z - 1 - 1 PROVE Coming(s2, i) = Filler
    BY <1>1, <1>3, <2>2
  <2>6. TokenFrom(s2, d, z - 1 + 1)
    BY <1>4, <2>3
  <2>7. QED BY <1>2, <2>1, <2>3, <2>4, <2>5, <2>6 DEF ReadGranted, Filler
<1>7. QED BY <1>3, <1>5, <1>6

LEMMA DataComingPasses ==
  ASSUME NEW s, NEW s2, NEW d, s.queue \in Seq(Byte), Passes(s, s2), s2.queue \in Seq(Byte),
         NEW n \in 0 .. BlockLen - 1, DataComing(s, d, n)
  PROVE  s.out = Wanted(d, n + 1) /\ DataComing(s2, d, n + 1)
<1>1. /\ Left(s) \in Nat \ {0} /\ Left(s2) \in Nat \ {0} /\ BlockLen \in Nat \ {0}
      /\ Coming(s, 1) = s.out
  BY LeftOne, SdAssumption
<1>2. Silent(s2)
  BY DEF DataComing, Silent, Passes
<1>3. /\ 1 + BlockLen - n <= Left(s) + 1
      /\ \A j \in 1 .. BlockLen - n : Coming(s, 1 + j - 1) = Wanted(d, n + j)
  BY DEF DataComing, DataFrom
<1>4. s.out = Wanted(d, n + 1)
  <2>1. 1 \in 1 .. BlockLen - n /\ 1 + 1 - 1 = 1
    BY <1>1
  <2>2. QED BY <1>1, <1>3, <2>1
<1>5. DataFrom(s2, d, 1, n + 1)
  <2>1. CASE Left(s) = 1
    <3>1. 1 + BlockLen - (n + 1) <= Left(s2) + 1 /\ 1 .. BlockLen - (n + 1) = {}
      BY <1>1, <1>3, <2>1
    <3>2. QED BY <3>1 DEF DataFrom
  <2>2. CASE Left(s) > 1
    <3>1. Left(s2) = Left(s) - 1 /\ \A i \in 1 .. Left(s2) : Coming(s2, i) = Coming(s, i + 1)
      BY <2>2, <1>1 DEF Passes
    <3>2. 1 + BlockLen - (n + 1) <= Left(s2) + 1
      BY <1>1, <1>3, <3>1
    <3>3. ASSUME NEW j \in 1 .. BlockLen - (n + 1)
          PROVE  Coming(s2, 1 + j - 1) = Wanted(d, n + 1 + j)
      <4>1. j + 1 \in 1 .. BlockLen - n /\ 1 + (j + 1) - 1 = j + 1 /\ n + (j + 1) = n + 1 + j
            /\ 1 + j - 1 = j /\ j \in 1 .. Left(s2)
        BY <1>1, <1>3, <3>1
      <4>2. Coming(s, j + 1) = Wanted(d, n + 1 + j)
        BY <1>3, <4>1
      <4>3. QED BY <3>1, <4>1, <4>2
    <3>4. QED BY <3>2, <3>3 DEF DataFrom
  <2>3. QED BY <1>1, <2>1, <2>2
<1>6. QED BY <1>2, <1>4, <1>5 DEF DataComing

-----------------------------------------------------------------------------
(* The card and the byte it has heard.                                     *)

CardTypes ==
  /\ card.queue \in Seq(Byte) /\ card.heard \in Seq(Byte) /\ card.out \in Byte
  /\ card.disk \in [BlockNo -> Block]

LEMMA FillBytes ==
  ASSUME NEW d \in Nat
  PROVE  /\ Fill(d) \in Seq(Byte) /\ Len(Fill(d)) = d
         /\ \A i \in 1 .. d : Fill(d)[i] = Filler
BY IsASeq DEF Fill, Filler, Byte

\* A block's address survives the trip through the frame.
LEMMA AddressTrip ==
  ASSUME NEW code, NEW block \in BlockNo
  PROVE  /\ Addressing(code, block) \in [1 .. 6 -> {code} \cup Byte]
         /\ Addressing(code, block)[1] = code /\ Len(Addressing(code, block)) = 6
         /\ Addressed(Addressing(code, block)) = block
<1> DEFINE b1 == block \div 256
           b2 == block \div 65536
           b3 == block \div 16777216
<1>1. block \in Nat /\ block < Blocks /\ Blocks \in Nat /\ Blocks \div 65536 < 65536
  BY CardAssumption DEF BlockNo
<1>2. /\ b1 \in Nat /\ block = 256 * b1 + (block % 256) /\ block % 256 \in 0 .. 255
      /\ b2 \in Nat /\ 65536 * b2 <= block /\ block < 65536 * (b2 + 1)
      /\ b3 \in Nat /\ 16777216 * b3 <= block /\ block < 16777216 * (b3 + 1)
  <2>1. block \in Nat
    BY <1>1
  <2>2. b1 \in Nat /\ block = 256 * b1 + (block % 256) /\ block % 256 \in 0 .. 255
    BY ONLY <2>1
  <2>3. b2 \in Nat /\ 65536 * b2 <= block /\ block < 65536 * (b2 + 1)
    BY ONLY <2>1
  <2>4. b3 \in Nat /\ 16777216 * b3 <= block /\ block < 16777216 * (b3 + 1)
    BY ONLY <2>1
  <2>5. QED BY <2>2, <2>3, <2>4
<1>3. b2 < 65536
  <2>1. Blocks < 65536 * 65536
    BY <1>1
  <2>2. QED BY <1>1, <1>2, <2>1
<1>. HIDE DEF b1, b2, b3
<1>4. /\ b1 \div 256 = b2 /\ b1 = 256 * b2 + (b1 % 256) /\ b1 % 256 \in 0 .. 255
  <2>1. 256 * b2 <= b1 /\ b1 < 256 * (b2 + 1)
    BY <1>1, <1>2
  <2>2. b1 \in Nat /\ b2 \in Nat
    BY <1>2
  <2>3. QED BY ONLY <2>1, <2>2
<1>5. /\ b2 \div 256 = b3 /\ b2 = 256 * b3 + (b2 % 256) /\ b2 % 256 \in 0 .. 255
  <2>1. 256 * b3 <= b2 /\ b2 < 256 * (b3 + 1)
    BY <1>1, <1>2
  <2>2. b2 \in Nat /\ b3 \in Nat
    BY <1>2
  <2>3. QED BY ONLY <2>1, <2>2
<1>6. b3 \in 0 .. 255
  BY <1>2, <1>3, <1>5
<1>7. Addressing(code, block) = <<code, b3, b2 % 256, b1 % 256, block % 256, 255>>
  BY DEF Addressing, b1, b2, b3
<1>8. block = b3 * 16777216 + (b2 % 256) * 65536 + (b1 % 256) * 256 + (block % 256)
  BY <1>2, <1>4, <1>5
<1>9. ASSUME NEW x, NEW y, NEW z, NEW w
      PROVE  Addressed(<<code, x, y, z, w, 255>>) = x * 16777216 + y * 65536 + z * 256 + w
  BY DEF Addressed
<1>10. <<code, b3, b2 % 256, b1 % 256, block % 256, 255>> \in [1 .. 6 -> {code} \cup Byte]
  BY <1>2, <1>4, <1>5, <1>6 DEF Byte
<1>11. Addressed(<<code, b3, b2 % 256, b1 % 256, block % 256, 255>>) = block
  BY <1>8, <1>9, SMT
<1>12. Addressing(code, block) \in [1 .. 6 -> {code} \cup Byte]
  BY <1>7, <1>10
<1>13. Addressing(code, block)[1] = code /\ Len(Addressing(code, block)) = 6
  BY <1>7
<1>14. QED BY <1>7, <1>11, <1>12, <1>13

\* What goes on the line is the head of what the card queued.
LEMMA QueuedScript ==
  ASSUME NEW c, CardShape(c), card' = Queued(c)
  PROVE  /\ Script'.want = c.want /\ Script'.heard = c.heard /\ Script'.block = c.block
         /\ Script'.disk = c.disk /\ Puts(Script', c.queue)
<1>1. card' = [c EXCEPT !.bits = 0, !.in = 0,
                        !.out = IF c.queue = <<>> THEN Filler ELSE Head(c.queue),
                        !.queue = IF c.queue = <<>> THEN c.queue ELSE Tail(c.queue)]
  BY DEF Queued
<1>2. /\ card'.want = c.want /\ card'.heard = c.heard /\ card'.block = c.block
      /\ card'.disk = c.disk
      /\ card'.out = (IF c.queue = <<>> THEN Filler ELSE Head(c.queue))
      /\ card'.queue = (IF c.queue = <<>> THEN c.queue ELSE Tail(c.queue))
  BY <1>1 DEF CardShape, CardFields
<1>3. Script' = [want |-> card'.want, heard |-> card'.heard, queue |-> card'.queue,
                 out |-> card'.out, block |-> card'.block, disk |-> card'.disk]
  BY DEF Script
<1>4. QED BY <1>2, <1>3 DEF Puts

LEMMA ScriptFields ==
  /\ Script.want = card.want /\ Script.heard = card.heard /\ Script.queue = card.queue
  /\ Script.out = card.out /\ Script.block = card.block /\ Script.disk = card.disk
BY DEF Script

LEMMA PassedOver ==
  ASSUME CardShape(card), CardTypes, NEW b, NEW c \in Hear(b), card' = Queued(c),
         \/ Silent(Script) /\ b = Filler
         \/ card.want = "token" /\ b # StartToken
         \/ card.queue # <<>>
  PROVE  Passes(Script, Script')
<1>1. c = card
  <2>1. 255 \div 64 = 3
    OBVIOUS
  <2>2. \/ card.want = "command" /\ card.heard = <<>> /\ b \div 64 # 1
        \/ card.want = "token" /\ b # StartToken
        \/ card.queue # <<>>
    BY <2>1, ScriptFields DEF Silent, Filler
  <2>3. QED BY <2>2, HearCases
<1>2. /\ Script'.want = card.want /\ Script'.heard = card.heard /\ Script'.block = card.block
      /\ Script'.disk = card.disk /\ Puts(Script', card.queue)
  BY <1>1, QueuedScript
<1>3. QED BY <1>2, ScriptFields, PutPasses DEF CardTypes

\* The frame goes in, byte by byte.
LEMMA FrameGoesIn ==
  ASSUME CardShape(card), CardTypes, NEW n \in 0 .. 4, NEW frame,
         Listening(Script, frame, n), frame[1] \div 64 = 1, frame[n + 1] \in Byte,
         NEW c \in Hear(frame[n + 1]), card' = Queued(c)
  PROVE  Listening(Script', frame, n + 1) /\ card'.disk = card.disk
<1> DEFINE b == frame[n + 1]
           heard == Append(card.heard, b)
<1>1. /\ card.want = "command" /\ card.queue = <<>> /\ Len(card.heard) = n
      /\ \A i \in 1 .. n : card.heard[i] = frame[i]
  BY ScriptFields DEF Listening
<1>2. /\ Len(heard) = n + 1 /\ heard[n + 1] = b
      /\ \A i \in 1 .. n : heard[i] = card.heard[i]
  BY <1>1, AppendProperties DEF CardTypes
<1>3. card.heard # <<>> \/ b \div 64 = 1
  <2>1. CASE n = 0
    BY <2>1
  <2>2. CASE n # 0
    BY <1>1, <2>2
  <2>3. QED BY <2>1, <2>2
<1>4. c = [card EXCEPT !.heard = heard]
  <2>1. Len(heard) < 6
    BY <1>2
  <2>. HIDE DEF heard, b
  <2>2. c \in Hear(b) /\ heard = Append(card.heard, b)
    BY DEF heard, b
  <2>3. QED BY <1>1, <1>3, <2>1, <2>2, HearCases
<1>. HIDE DEF heard
<1>5. /\ CardShape(c) /\ c.want = "command" /\ c.heard = heard /\ c.queue = <<>>
      /\ c.disk = card.disk
  BY <1>1, <1>4 DEF CardShape, CardFields
<1>6. /\ Script'.want = c.want /\ Script'.heard = c.heard /\ Puts(Script', c.queue)
      /\ Script'.disk = c.disk
  BY <1>5, QueuedScript
<1>7. \A i \in 1 .. n + 1 : heard[i] = frame[i]
  <2>1. \A i \in 1 .. n + 1 : i = n + 1 \/ i \in 1 .. n
    OBVIOUS
  <2>2. QED BY <1>1, <1>2, <2>1
<1>8. Script'.disk = card'.disk
  BY DEF Script
<1>9. QED BY <1>2, <1>5, <1>6, <1>7, <1>8 DEF Listening, Puts

\* The answers there are.
After(a, want, block, queue) ==
  /\ a.disk = card.disk /\ a.out = card.out /\ a.heard = card.heard
  /\ a.want = want /\ a.block = block /\ a.queue = queue
Granting(d, frame) ==
  Fill(d) \o << 0 >> \o Fill(d) \o <<StartToken>> \o card.disk[Addressed(frame)] \o <<0, 0>>
Replies == {<< 0 >>, << 1 >>, <<R1>>, <<R1, 0, 0, 1, 170>>, <<R1 + 4>>}

LEMMA Answered ==
  ASSUME CardShape(card), NEW frame, NEW d, NEW a, a = Answer(frame, d)
  PROVE  \/ /\ frame[1] = 88 /\ card.mode = "ready"
            /\ After(a, "token", Addressed(frame), Fill(d) \o << 0 >>)
         \/ /\ frame[1] = 81 /\ card.mode = "ready"
            /\ After(a, card.want, card.block, Granting(d, frame))
         \/ /\ frame[1] \in {81, 88} /\ After(a, card.want, card.block, Fill(d) \o << 5 >>)
         \/ /\ frame[1] \notin {81, 88}
            /\ \E reply \in Replies : After(a, card.want, card.block, Fill(d) \o reply)
<1>0. \A q : After([card EXCEPT !.mode = "idle", !.app = FALSE, !.queue = q],
                      card.want, card.block, q)
  BY DEF CardShape, CardFields, After
<1>1. \A q : After([card EXCEPT !.app = TRUE, !.queue = q], card.want, card.block, q)
  BY DEF CardShape, CardFields, After
<1>2. \A q : After([card EXCEPT !.app = FALSE, !.queue = q], card.want, card.block, q)
  BY DEF CardShape, CardFields, After
<1>3. \A q : After([card EXCEPT !.app = FALSE, !.polls = @ - 1, !.queue = q],
                   card.want, card.block, q)
  BY DEF CardShape, CardFields, After
<1>4. \A q : After([card EXCEPT !.app = FALSE, !.mode = "ready", !.queue = q],
                   card.want, card.block, q)
  BY DEF CardShape, CardFields, After
<1>5. \A q : After([card EXCEPT !.app = FALSE, !.want = "token", !.block = Addressed(frame),
                                !.queue = q], "token", Addressed(frame), q)
  BY DEF CardShape, CardFields, After
<1>6. /\ << 0 >> \in Replies /\ << 1 >> \in Replies /\ <<R1>> \in Replies
      /\ <<R1, 0, 0, 1, 170>> \in Replies /\ <<R1 + 4>> \in Replies
  BY DEF Replies
<1>7. card.mode # "ready" => R1 + 4 = 5
  BY DEF R1
<1>8. CASE frame[1] = 64
  <2>1. a = [card EXCEPT !.mode = "idle", !.app = FALSE, !.queue = Fill(d) \o << 1 >>]
    BY <1>8 DEF Answer
  <2>2. After(a, card.want, card.block, Fill(d) \o << 1 >>)
    BY <1>0, <2>1
  <2>3. QED BY <1>6, <1>8, <2>2
<1>9. CASE frame[1] = 72
  <2>1. a = [card EXCEPT !.app = FALSE, !.queue = Fill(d) \o <<R1, 0, 0, 1, 170>>]
    BY <1>9 DEF Answer
  <2>2. After(a, card.want, card.block, Fill(d) \o <<R1, 0, 0, 1, 170>>)
    BY <1>2, <2>1
  <2>3. QED BY <1>6, <1>9, <2>2
<1>10. CASE frame[1] = 119
  <2>1. a = [card EXCEPT !.app = TRUE, !.queue = Fill(d) \o <<R1>>]
    BY <1>10 DEF Answer
  <2>2. After(a, card.want, card.block, Fill(d) \o <<R1>>)
    BY <1>1, <2>1
  <2>3. QED BY <1>6, <1>10, <2>2
<1>11. CASE frame[1] = 105 /\ card.app /\ card.polls > 0
  <2>1. a = [card EXCEPT !.app = FALSE, !.polls = @ - 1, !.queue = Fill(d) \o << 1 >>]
    BY <1>11 DEF Answer
  <2>2. After(a, card.want, card.block, Fill(d) \o << 1 >>)
    BY <1>3, <2>1
  <2>3. QED BY <1>6, <1>11, <2>2
<1>12. CASE frame[1] = 105 /\ card.app /\ card.polls = 0
  <2>1. a = [card EXCEPT !.app = FALSE, !.mode = "ready", !.queue = Fill(d) \o << 0 >>]
    BY <1>12 DEF Answer
  <2>2. After(a, card.want, card.block, Fill(d) \o << 0 >>)
    BY <1>4, <2>1
  <2>3. QED BY <1>6, <1>12, <2>2
<1>13. CASE frame[1] = 88 /\ card.mode = "ready"
  <2>1. a = [card EXCEPT !.app = FALSE, !.want = "token", !.block = Addressed(frame),
                         !.queue = Fill(d) \o << 0 >>]
    BY <1>13 DEF Answer
  <2>2. After(a, "token", Addressed(frame), Fill(d) \o << 0 >>)
    BY <1>5, <2>1
  <2>3. QED BY <1>13, <2>2
<1>14. CASE frame[1] = 81 /\ card.mode = "ready"
  <2>1. a = [card EXCEPT !.app = FALSE, !.queue = Granting(d, frame)]
    BY <1>14 DEF Answer, Granting
  <2>2. After(a, card.want, card.block, Granting(d, frame))
    BY <1>2, <2>1
  <2>3. QED BY <1>14, <2>2
<1>15. CASE /\ frame[1] \notin {64, 72, 119}
            /\ ~(frame[1] = 105 /\ card.app /\ card.polls > 0)
            /\ ~(frame[1] = 105 /\ card.app /\ card.polls = 0)
            /\ ~(frame[1] = 88 /\ card.mode = "ready")
            /\ ~(frame[1] = 81 /\ card.mode = "ready")
  <2>1. a = [card EXCEPT !.app = FALSE, !.queue = Fill(d) \o <<R1 + 4>>]
    BY <1>15 DEF Answer
  <2>2. After(a, card.want, card.block, Fill(d) \o <<R1 + 4>>)
    BY <1>2, <2>1
  <2>3. CASE frame[1] \in {81, 88}
    <3>1. R1 + 4 = 5
      BY <1>7, <1>15, <2>3
    <3>2. QED BY <2>2, <2>3, <3>1
  <2>4. QED BY <1>6, <2>2, <2>3
<1>16. QED BY <1>8, <1>9, <1>10, <1>11, <1>12, <1>13, <1>14, <1>15

LEMMA Joined ==
  ASSUME NEW s \in Seq(Byte), NEW t \in Seq(Byte), NEW m \in Nat, NEW n \in Nat, Len(s) = m,
         Len(t) = n
  PROVE  /\ s \o t \in Seq(Byte) /\ Len(s \o t) = m + n
         /\ \A i \in 1 .. m : (s \o t)[i] = s[i]
         /\ \A i \in 1 .. n : (s \o t)[m + i] = t[i]
<1> DEFINE u == s \o t
<1>1. /\ u \in Seq(Byte) /\ Len(u) = Len(s) + Len(t)
      /\ \A i \in 1 .. Len(s) + Len(t) : u[i] = IF i <= Len(s) THEN s[i] ELSE t[i - Len(s)]
  BY ConcatProperties
<1>. HIDE DEF u
<1>2. \A i \in 1 .. m : u[i] = s[i]
  BY <1>1
<1>3. ASSUME NEW i \in 1 .. n PROVE u[m + i] = t[i]
  <2>1. m + i \in 1 .. Len(s) + Len(t) /\ ~(m + i <= Len(s)) /\ m + i - Len(s) = i
    OBVIOUS
  <2>2. QED BY <1>1, <2>1
<1>4. QED BY <1>1, <1>2, <1>3 DEF u

LEMMA Reply ==
  ASSUME NEW k \in Nat, NEW x \in Byte
  PROVE  LET q == Fill(k) \o <<x>> IN
         /\ q \in Seq(Byte) /\ Len(q) = k + 1 /\ q # <<>> /\ q[k + 1] = x
         /\ \A i \in 1 .. k : q[i] = Filler
<1> DEFINE q == Fill(k) \o <<x>>
<1>1. <<x>> \in Seq(Byte) /\ Len(<<x>>) = 1 /\ <<x>>[1] = x
  OBVIOUS
<1>2. /\ Fill(k) \in Seq(Byte) /\ Len(Fill(k)) = k
      /\ \A i \in 1 .. k : Fill(k)[i] = Filler
  BY FillBytes
<1>3. /\ q \in Seq(Byte) /\ Len(q) = k + 1
      /\ \A i \in 1 .. k + 1 : q[i] = IF i <= k THEN Fill(k)[i] ELSE <<x>>[i - k]
  BY <1>1, <1>2, ConcatProperties
<1>. HIDE DEF q
<1>4. q # <<>>
  BY <1>3
<1>5. q[k + 1] = x
  BY <1>1, <1>3
<1>6. \A i \in 1 .. k : q[i] = Filler
  BY <1>2, <1>3
<1>7. QED BY <1>3, <1>4, <1>5, <1>6 DEF q

\* All replies are bytes.
LEMMA ReplyTypes ==
  ASSUME NEW k \in Nat, NEW reply \in Replies
  PROVE  Fill(k) \o reply \in Seq(Byte)
<1>1. R1 \in Byte /\ R1 + 4 \in Byte /\ 0 \in Byte /\ 1 \in Byte /\ 170 \in Byte
  BY DEF R1, Byte
<1>2. reply \in Seq(Byte)
  <2>1. \A x \in Byte : <<x>> \in Seq(Byte)
    OBVIOUS
  <2>2. <<R1, 0, 0, 1, 170>> \in Seq(Byte)
    BY <1>1
  <2>3. QED BY <1>1, <2>1, <2>2 DEF Replies
<1>3. QED BY <1>2, FillBytes, ConcatProperties

\* A frame the card has granted, and a block comes.
LEMMA GrantingBytes ==
  ASSUME CardTypes, NEW k \in Nat, NEW frame, Addressed(frame) \in BlockNo
  PROVE  LET q == Granting(k, frame) IN
         /\ q \in Seq(Byte) /\ q # <<>> /\ Len(q) = 2 * k + 4 + BlockLen
         /\ \A i \in 1 .. k : q[i] = Filler
         /\ q[k + 1] = 0
         /\ \A i \in k + 2 .. 2 * k + 1 : q[i] = Filler
         /\ q[2 * k + 2] = StartToken
         /\ \A j \in 1 .. BlockLen : q[2 * k + 2 + j] = card.disk[Addressed(frame)][j]
<1> DEFINE data == card.disk[Addressed(frame)]
           q1 == Fill(k) \o << 0 >>
           q2 == q1 \o Fill(k)
           q3 == q2 \o <<StartToken>>
           q4 == q3 \o data
           q5 == q4 \o <<0, 0>>
<1>0. BlockLen \in Nat \ {0}
  BY SdAssumption
<1>1. /\ Fill(k) \in Seq(Byte) /\ Len(Fill(k)) = k
      /\ \A i \in 1 .. k : Fill(k)[i] = Filler
  BY FillBytes
<1>2. /\ q1 \in Seq(Byte) /\ Len(q1) = k + 1 /\ q1[k + 1] = 0
      /\ \A i \in 1 .. k : q1[i] = Filler
  <2>1. 0 \in Byte
    BY DEF Byte
  <2>2. QED BY <2>1, Reply
<1>3. data \in Seq(Byte) /\ Len(data) = BlockLen
  <2>1. data \in [1 .. BlockLen -> Byte]
    BY DEF CardTypes, Block
  <2>. HIDE DEF data
  <2>2. data \in Seq(Byte)
    BY <1>0, <2>1, SeqDef
  <2>3. QED BY <1>0, <2>1, <2>2, LenProperties
<1>. HIDE DEF data, q1
<1>4. /\ q2 \in Seq(Byte) /\ Len(q2) = 2 * k + 1
      /\ \A i \in 1 .. k + 1 : q2[i] = q1[i]
      /\ \A i \in 1 .. k : q2[k + 1 + i] = Filler
  <2>1. /\ q2 \in Seq(Byte) /\ Len(q2) = (k + 1) + k
        /\ \A i \in 1 .. k + 1 : q2[i] = q1[i]
        /\ \A i \in 1 .. k : q2[k + 1 + i] = Fill(k)[i]
    <3>1. k + 1 \in Nat
      OBVIOUS
    <3>2. QED BY <1>1, <1>2, <3>1, Joined
  <2>. HIDE DEF q2
  <2>2. Len(q2) = 2 * k + 1
    BY <2>1
  <2>3. \A i \in 1 .. k : q2[k + 1 + i] = Filler
    BY <1>1, <2>1
  <2>4. QED BY <2>1, <2>2, <2>3
<1>. HIDE DEF q2
<1>5. /\ q3 \in Seq(Byte) /\ Len(q3) = 2 * k + 2
      /\ \A i \in 1 .. 2 * k + 1 : q3[i] = q2[i]
      /\ q3[2 * k + 2] = StartToken
  <2>1. /\ <<StartToken>> \in Seq(Byte) /\ Len(<<StartToken>>) = 1
        /\ <<StartToken>>[1] = StartToken /\ 2 * k + 1 \in Nat /\ 1 \in Nat
    BY DEF StartToken, Byte
  <2>2. /\ q3 \in Seq(Byte) /\ Len(q3) = (2 * k + 1) + 1
        /\ \A i \in 1 .. 2 * k + 1 : q3[i] = q2[i]
        /\ \A i \in 1 .. 1 : q3[2 * k + 1 + i] = <<StartToken>>[i]
    BY <1>4, <2>1, Joined
  <2>. HIDE DEF q3
  <2>3. 1 \in 1 .. 1 /\ 2 * k + 1 + 1 = 2 * k + 2
    OBVIOUS
  <2>4. q3[2 * k + 1 + 1] = StartToken
    BY <2>1, <2>2, <2>3
  <2>5. QED BY <2>2, <2>3, <2>4
<1>. HIDE DEF q3
<1>6. /\ q4 \in Seq(Byte) /\ Len(q4) = 2 * k + 2 + BlockLen
      /\ \A i \in 1 .. 2 * k + 2 : q4[i] = q3[i]
      /\ \A i \in 1 .. BlockLen : q4[2 * k + 2 + i] = data[i]
  <2>1. 2 * k + 2 \in Nat /\ BlockLen \in Nat
    BY <1>0
  <2>2. QED BY <1>3, <1>5, <2>1, Joined
<1>. HIDE DEF q4
<1>7. /\ q5 \in Seq(Byte) /\ Len(q5) = 2 * k + 4 + BlockLen
      /\ \A i \in 1 .. 2 * k + 2 + BlockLen : q5[i] = q4[i]
  <2>1. /\ <<0, 0>> \in Seq(Byte) /\ Len(<<0, 0>>) = 2 /\ 2 \in Nat
        /\ 2 * k + 2 + BlockLen \in Nat
    BY <1>0 DEF Byte
  <2>2. /\ q5 \in Seq(Byte) /\ Len(q5) = (2 * k + 2 + BlockLen) + 2
        /\ \A i \in 1 .. 2 * k + 2 + BlockLen : q5[i] = q4[i]
    BY <1>6, <2>1, Joined
  <2>. HIDE DEF q5
  <2>3. QED BY <1>0, <2>2
<1>8. Granting(k, frame) = q5
  BY DEF Granting, q5, q4, q3, q2, q1, data
<1>. HIDE DEF q5
<1>9. \A i \in 1 .. 2 * k + 2 : q5[i] = q3[i]
  BY <1>0, <1>6, <1>7
<1>10. \A i \in 1 .. k + 1 : q5[i] = q1[i]
  BY <1>4, <1>5, <1>9
<1>11. ASSUME NEW i \in k + 2 .. 2 * k + 1 PROVE q5[i] = Filler
  <2>1. i - (k + 1) \in 1 .. k /\ k + 1 + (i - (k + 1)) = i
    OBVIOUS
  <2>2. q2[i] = Filler
    BY <1>4, <2>1
  <2>3. q5[i] = q2[i]
    BY <1>5, <1>9
  <2>4. QED BY <2>2, <2>3
<1>12. ASSUME NEW j \in 1 .. BlockLen PROVE q5[2 * k + 2 + j] = data[j]
  <2>1. 2 * k + 2 + j \in 1 .. 2 * k + 2 + BlockLen
    BY <1>0
  <2>2. QED BY <1>6, <1>7, <2>1
<1>13. q5 # <<>>
  BY <1>0, <1>7
<1>14. q5[2 * k + 2] = StartToken /\ q5[k + 1] = 0 /\ \A i \in 1 .. k : q5[i] = Filler
  BY <1>2, <1>5, <1>9, <1>10
<1>15. QED BY <1>7, <1>8, <1>11, <1>12, <1>13, <1>14 DEF data

\* Six bytes: the card answers.
LEMMA SixBytes ==
  ASSUME CardShape(card), CardTypes, card.want = "command", card.queue = <<>>,
         Len(card.heard) = 5, NEW b \in Byte, NEW c \in Hear(b), card' = Queued(c)
  PROVE  \E k \in Delays : \E a :
           /\ a = Answer(Append(card.heard, b), k)
           /\ Script'.want = a.want /\ Script'.heard = <<>> /\ Script'.block = a.block
           /\ Script'.disk = a.disk /\ card'.disk = a.disk /\ Puts(Script', a.queue)
<1> DEFINE frame == Append(card.heard, b)
<1>1. Len(frame) = 6
  <2>1. card.heard \in Seq(Byte) /\ b \in Byte
    BY DEF CardTypes
  <2>2. Len(frame) = Len(card.heard) + 1
    BY ONLY <2>1, AppendProperties
  <2>3. QED BY <2>2
<1>2. card.heard # <<>>
  <2>1. Len(<<>>) = 0
    OBVIOUS
  <2>2. QED BY <2>1
<1>3. PICK k \in Delays : c = Dropped(Answer(frame, k))
  <2>1. ~(Len(frame) < 6)
    BY <1>1
  <2>2. QED BY <1>2, <2>1, HearCases
<1>4. CardShape(Answer(frame, k))
  BY AnswerFields
<1> DEFINE a == Answer(frame, k)
<1>. HIDE DEF a
<1>5. c = [a EXCEPT !.heard = <<>>] /\ CardShape(a)
  BY <1>3, <1>4 DEF a, Dropped
<1>6. /\ CardShape(c) /\ c.want = a.want /\ c.heard = <<>> /\ c.block = a.block
      /\ c.disk = a.disk /\ c.queue = a.queue
  BY <1>5 DEF CardShape, CardFields
<1>7. /\ Script'.want = c.want /\ Script'.heard = c.heard /\ Script'.block = c.block
      /\ Script'.disk = c.disk /\ Puts(Script', c.queue)
  BY <1>6, QueuedScript
<1>8. Script'.disk = card'.disk
  BY DEF Script
<1>9. a = Answer(frame, k)
  BY DEF a
<1>10. QED BY <1>6, <1>7, <1>8, <1>9

\* A card that says "not now" never says 0.
LEMMA Declines ==
  ASSUME NEW s, NEW k \in Nat, s.want = "command", s.heard = <<>>, Puts(s, Fill(k) \o << 5 >>)
  PROVE  Mute(s)
<1> DEFINE q == Fill(k) \o << 5 >>
<1>1. /\ q \in Seq(Byte) /\ Len(q) = k + 1 /\ q # <<>> /\ q[k + 1] = 5
      /\ \A i \in 1 .. k : q[i] = Filler
  <2>1. 5 \in Byte
    BY DEF Byte
  <2>2. QED BY <2>1, Reply
<1>. HIDE DEF q
<1>2. Left(s) = k + 1 /\ \A i \in 1 .. k + 1 : Coming(s, i) = q[i]
  <2>1. Puts(s, q)
    BY DEF q
  <2>2. QED BY <1>1, <2>1, PutQueue
<1>3. \A i \in 1 .. k + 1 : i = k + 1 \/ i \in 1 .. k
  OBVIOUS
<1>4. QED BY <1>1, <1>2, <1>3 DEF Mute, Silent, Filler

LEMMA WriteFrameEnds ==
  ASSUME CardShape(card), CardTypes, NEW deal, deal.sar \in BlockNo, NEW b, b = 255,
         Listening(Script, CMD_24(deal.sar), 5), NEW c \in Hear(b), card' = Queued(c)
  PROVE  /\ Mute(Script') \/ WriteGranted(Script', deal)
         /\ card'.disk = card.disk
<1> DEFINE frame == CMD_24(deal.sar)
           heard == Append(card.heard, b)
<1>1. /\ card.want = "command" /\ card.queue = <<>> /\ Len(card.heard) = 5
      /\ \A i \in 1 .. 5 : card.heard[i] = frame[i]
  BY ScriptFields DEF Listening
<1>2. frame[1] = 88 /\ Addressed(frame) = deal.sar
  BY AddressTrip DEF CMD_24
<1>3. /\ heard[1] = frame[1] /\ heard[2] = frame[2] /\ heard[3] = frame[3]
      /\ heard[4] = frame[4] /\ heard[5] = frame[5]
  <2>1. \A i \in 1 .. 5 : heard[i] = card.heard[i]
    BY <1>1, AppendProperties DEF CardTypes
  <2>. HIDE DEF heard, frame
  <2>2. QED BY <1>1, <2>1
<1>. HIDE DEF frame
<1>4. Addressed(heard) = deal.sar
  <2>. HIDE DEF heard
  <2>1. Addressed(heard) = Addressed(frame)
    BY <1>3, SMT DEF Addressed
  <2>2. QED BY <1>2, <2>1
<1>answer. PICK k \in Delays :
        \E a :
          /\ a = Answer(heard, k)
          /\ Script'.want = a.want /\ Script'.heard = <<>> /\ Script'.block = a.block
          /\ Script'.disk = a.disk /\ card'.disk = a.disk /\ Puts(Script', a.queue)
  <2>1. b \in Byte
    BY DEF Byte
  <2>2. QED BY <1>1, <2>1, SixBytes
<1>5. PICK a :
        /\ a = Answer(heard, k)
        /\ Script'.want = a.want /\ Script'.heard = <<>> /\ Script'.block = a.block
        /\ Script'.disk = a.disk /\ card'.disk = a.disk /\ Puts(Script', a.queue)
  BY <1>answer
<1>. HIDE DEF heard
<1>6. k \in Nat
  BY CardAssumption
<1>7. \/ After(a, "token", Addressed(heard), Fill(k) \o << 0 >>)
      \/ After(a, card.want, card.block, Fill(k) \o << 5 >>)
  <2>1. heard[1] = 88
    BY <1>2, <1>3
  <2>2. QED BY <1>5, <2>1, Answered
<1>8. CASE After(a, card.want, card.block, Fill(k) \o << 5 >>)
  <2>1. a.want = "command" /\ a.queue = Fill(k) \o << 5 >> /\ a.disk = card.disk
    BY <1>1, <1>8 DEF After
  <2>2. QED BY <1>5, <1>6, <2>1, Declines
<1>9. CASE After(a, "token", Addressed(heard), Fill(k) \o << 0 >>)
  <2>1. /\ a.want = "token" /\ a.queue = Fill(k) \o << 0 >> /\ a.disk = card.disk
        /\ a.block = deal.sar
    BY <1>4, <1>9 DEF After
  <2> DEFINE q == Fill(k) \o << 0 >>
  <2>2. /\ q \in Seq(Byte) /\ Len(q) = k + 1 /\ q # <<>> /\ q[k + 1] = 0
        /\ \A i \in 1 .. k : q[i] = Filler
    <3>1. 0 \in Byte
      BY DEF Byte
    <3>2. QED BY <1>6, <3>1, Reply
  <2>3. Puts(Script', q)
    BY <1>5, <2>1
  <2>. HIDE DEF q
  <2>4. Left(Script') = k + 1 /\ \A i \in 1 .. k + 1 : Coming(Script', i) = q[i]
    BY <2>2, <2>3, PutQueue
  <2>5. /\ Coming(Script', Left(Script')) = 0
        /\ \A i \in 1 .. Left(Script') - 1 : Coming(Script', i) = Filler
    BY <1>6, <2>2, <2>4
  <2>6. WriteGranted(Script', deal)
    BY <1>5, <2>1, <2>5 DEF WriteGranted, WantsToken
  <2>7. QED BY <1>5, <2>1, <2>6
<1>10. QED BY <1>7, <1>8, <1>9

LEMMA ReadFrameEnds ==
  ASSUME CardShape(card), CardTypes, NEW deal, deal.sar \in BlockNo, deal.disk = card.disk,
         NEW b, b = 255,
         Listening(Script, CMD_17(deal.sar), 5), NEW c \in Hear(b), card' = Queued(c)
  PROVE  /\ Mute(Script') \/ ReadGranted(Script', deal)
         /\ card'.disk = card.disk
<1> DEFINE frame == CMD_17(deal.sar)
           heard == Append(card.heard, b)
<1>0. BlockLen \in Nat \ {0}
  BY SdAssumption
<1>1. /\ card.want = "command" /\ card.queue = <<>> /\ Len(card.heard) = 5
      /\ \A i \in 1 .. 5 : card.heard[i] = frame[i]
  BY ScriptFields DEF Listening
<1>2. frame[1] = 81 /\ Addressed(frame) = deal.sar
  BY AddressTrip DEF CMD_17
<1>3. /\ heard[1] = frame[1] /\ heard[2] = frame[2] /\ heard[3] = frame[3]
      /\ heard[4] = frame[4] /\ heard[5] = frame[5]
  <2>1. \A i \in 1 .. 5 : heard[i] = card.heard[i]
    BY <1>1, AppendProperties DEF CardTypes
  <2>. HIDE DEF heard, frame
  <2>2. QED BY <1>1, <2>1
<1>. HIDE DEF frame
<1>4. Addressed(heard) = deal.sar
  <2>. HIDE DEF heard
  <2>1. Addressed(heard) = Addressed(frame)
    BY <1>3, SMT DEF Addressed
  <2>2. QED BY <1>2, <2>1
<1>answer. PICK k \in Delays :
        \E a :
          /\ a = Answer(heard, k)
          /\ Script'.want = a.want /\ Script'.heard = <<>> /\ Script'.block = a.block
          /\ Script'.disk = a.disk /\ card'.disk = a.disk /\ Puts(Script', a.queue)
  <2>1. b \in Byte
    BY DEF Byte
  <2>2. QED BY <1>1, <2>1, SixBytes
<1>5. PICK a :
        /\ a = Answer(heard, k)
        /\ Script'.want = a.want /\ Script'.heard = <<>> /\ Script'.block = a.block
        /\ Script'.disk = a.disk /\ card'.disk = a.disk /\ Puts(Script', a.queue)
  BY <1>answer
<1>. HIDE DEF heard
<1>6. k \in Nat
  BY CardAssumption
<1>7. \/ After(a, card.want, card.block, Granting(k, heard))
      \/ After(a, card.want, card.block, Fill(k) \o << 5 >>)
  <2>1. heard[1] = 81
    BY <1>2, <1>3
  <2>2. QED BY <1>5, <2>1, Answered
<1>8. CASE After(a, card.want, card.block, Fill(k) \o << 5 >>)
  <2>1. a.want = "command" /\ a.queue = Fill(k) \o << 5 >> /\ a.disk = card.disk
    BY <1>1, <1>8 DEF After
  <2>2. QED BY <1>5, <1>6, <2>1, Declines
<1>9. CASE After(a, card.want, card.block, Granting(k, heard))
  <2> DEFINE q == Granting(k, heard)
             t == 2 * k + 2
  <2>1. a.want = "command" /\ a.queue = q /\ a.disk = card.disk
    BY <1>1, <1>9 DEF After
  <2>2. /\ q \in Seq(Byte) /\ q # <<>> /\ Len(q) = 2 * k + 4 + BlockLen
        /\ \A i \in 1 .. k : q[i] = Filler
        /\ q[k + 1] = 0
        /\ \A i \in k + 2 .. 2 * k + 1 : q[i] = Filler
        /\ q[2 * k + 2] = StartToken
        /\ \A j \in 1 .. BlockLen : q[2 * k + 2 + j] = card.disk[Addressed(heard)][j]
    <3>1. Addressed(heard) \in BlockNo
      BY <1>4
    <3>2. QED BY <1>6, <3>1, GrantingBytes
  <2>3. Puts(Script', q)
    BY <1>5, <2>1
  <2>. HIDE DEF q
  <2>12. \A j \in 1 .. BlockLen : q[2 * k + 2 + j] = Wanted(deal, j)
    BY <1>4, <2>2 DEF Wanted
  <2>4. /\ Left(Script') = 2 * k + 4 + BlockLen
        /\ \A i \in 1 .. 2 * k + 4 + BlockLen : Coming(Script', i) = q[i]
    BY <2>2, <2>3, PutQueue
  <2>5. DataFrom(Script', deal, t + 1, 0)
    <3>1. t + 1 + BlockLen - 0 <= Left(Script') + 1
      BY <1>0, <1>6, <2>4
    <3>2. ASSUME NEW j \in 1 .. BlockLen - 0
          PROVE  Coming(Script', t + 1 + j - 1) = Wanted(deal, 0 + j)
      <4>1. /\ t + 1 + j - 1 = 2 * k + 2 + j /\ 0 + j = j /\ j \in 1 .. BlockLen
            /\ 2 * k + 2 + j \in 1 .. 2 * k + 4 + BlockLen
        BY <1>0, <1>6
      <4>. HIDE DEF t
      <4>2. QED BY <2>4, <2>12, <4>1
    <3>3. QED BY <3>1, <3>2 DEF DataFrom
  <2>6. TokenAt(Script', deal, k + 2, t)
    <3>1. t - 1 = 2 * k + 1 /\ t \in 1 .. 2 * k + 4 + BlockLen
      BY <1>0, <1>6
    <3>2. ASSUME NEW i \in k + 2 .. t - 1
          PROVE  Coming(Script', i) = Filler
      <4>1. i \in k + 2 .. 2 * k + 1
        BY <3>1
      <4>. HIDE DEF t
      <4>2. i \in 1 .. 2 * k + 4 + BlockLen
        BY <1>0, <1>6, <4>1
      <4>3. Coming(Script', i) = q[i]
        BY <2>4, <4>2
      <4>4. QED BY <2>2, <4>1, <4>3
    <3>3. Coming(Script', t) = StartToken
      BY <2>2, <2>4, <3>1
    <3>4. QED BY <2>5, <3>2, <3>3 DEF TokenAt
  <2>7. TokenFrom(Script', deal, k + 2)
    <3>1. t \in k + 2 .. Left(Script')
      BY <1>0, <1>6, <2>4
    <3>. HIDE DEF t
    <3>2. QED BY <2>6, <3>1 DEF TokenFrom
  <2>8. /\ k + 1 \in 1 .. Left(Script') /\ k + 1 + 1 = k + 2 /\ (k + 1) - 1 = k
        /\ Coming(Script', k + 1) = 0
        /\ \A i \in 1 .. k : Coming(Script', i) = Filler
    <3>1. /\ k + 1 \in 1 .. 2 * k + 4 + BlockLen /\ k + 1 + 1 = k + 2 /\ (k + 1) - 1 = k
          /\ \A i \in 1 .. k : i \in 1 .. 2 * k + 4 + BlockLen
      BY <1>0, <1>6
    <3>2. k + 1 \in 1 .. Left(Script') /\ Coming(Script', k + 1) = 0
      BY <2>2, <2>4, <3>1
    <3>3. QED BY <2>2, <2>4, <3>1, <3>2
  <2>9. Silent(Script')
    BY <1>5, <2>1 DEF Silent
  <2>10. ReadGranted(Script', deal)
    <3>1. \A i \in 1 .. (k + 1) - 1 : Coming(Script', i) = Filler
      BY <2>8
    <3>2. TokenFrom(Script', deal, k + 1 + 1)
      BY <2>7, <2>8
    <3>3. k + 1 \in 1 .. Left(Script') /\ Coming(Script', k + 1) = 0
      BY <2>8
    <3> DEFINE z == k + 1
    <3>4. /\ z \in 1 .. Left(Script') /\ Coming(Script', z) = 0
          /\ \A i \in 1 .. z - 1 : Coming(Script', i) = Filler
          /\ TokenFrom(Script', deal, z + 1)
      BY ONLY <1>6, <3>1, <3>2, <3>3
    <3>. HIDE DEF z
    <3>5. QED BY <2>9, <3>4 DEF ReadGranted
  <2>11. QED BY <1>5, <2>1, <2>10
<1>10. QED BY <1>7, <1>8, <1>9

LEMMA TokenHeard ==
  ASSUME CardShape(card), CardTypes, NEW deal, TokenReady(Script, deal),
         NEW b, b = StartToken, NEW c \in Hear(b), card' = Queued(c)
  PROVE  DataHeard(Script', deal, 0) /\ card'.disk = card.disk
<1>1. card.want = "token" /\ card.queue = <<>> /\ card.heard = <<>> /\ card.block = deal.sar
  BY ScriptFields DEF TokenReady, WantsToken
<1>2. c = [card EXCEPT !.want = "data"]
  BY <1>1, HearCases
<1>3. /\ CardShape(c) /\ c.want = "data" /\ c.queue = <<>> /\ c.heard = <<>>
      /\ c.block = deal.sar /\ c.disk = card.disk
  BY <1>1, <1>2 DEF CardShape, CardFields
<1>4. /\ Script'.want = c.want /\ Script'.heard = c.heard /\ Script'.block = c.block
      /\ Script'.disk = c.disk /\ Puts(Script', c.queue)
  BY <1>3, QueuedScript
<1>5. Script'.disk = card'.disk /\ Len(<<>>) = 0
  BY DEF Script
<1>6. QED BY <1>3, <1>4, <1>5 DEF DataHeard, Puts

LEMMA DataByteHeard ==
  ASSUME CardShape(card), CardTypes, NEW deal, NEW n \in 0 .. BlockLen,
         DataHeard(Script, deal, n), NEW b \in Byte, n < BlockLen => b = Sent(deal, n + 1),
         NEW c \in Hear(b), card' = Queued(c)
  PROVE  DataHeard(Script', deal, n + 1) /\ card'.disk = card.disk
<1> DEFINE heard == Append(card.heard, b)
<1>0. BlockLen \in Nat \ {0}
  BY SdAssumption
<1>1. /\ card.want = "data" /\ card.queue = <<>> /\ card.block = deal.sar
      /\ Len(card.heard) = n
      /\ \A i \in 1 .. n : i <= BlockLen => card.heard[i] = Sent(deal, i)
  BY ScriptFields DEF DataHeard
<1>2. /\ Len(heard) = n + 1 /\ heard[n + 1] = b
      /\ \A i \in 1 .. n : heard[i] = card.heard[i]
  BY <1>1, AppendProperties DEF CardTypes
<1>3. c = [card EXCEPT !.heard = heard]
  <2>1. Len(heard) < BlockLen + 2
    BY <1>0, <1>2
  <2>. HIDE DEF heard
  <2>2. heard = Append(card.heard, b)
    BY DEF heard
  <2>3. QED BY <1>1, <2>1, <2>2, HearCases
<1>. HIDE DEF heard
<1>4. /\ CardShape(c) /\ c.want = "data" /\ c.queue = <<>> /\ c.heard = heard
      /\ c.block = deal.sar /\ c.disk = card.disk
  BY <1>1, <1>3 DEF CardShape, CardFields
<1>5. /\ Script'.want = c.want /\ Script'.heard = c.heard /\ Script'.block = c.block
      /\ Script'.disk = c.disk /\ Puts(Script', c.queue)
  BY <1>4, QueuedScript
<1>6. Script'.disk = card'.disk
  BY DEF Script
<1>7. ASSUME NEW i \in 1 .. n + 1, i <= BlockLen PROVE heard[i] = Sent(deal, i)
  <2>1. CASE i = n + 1
    BY <1>0, <1>2, <1>7, <2>1
  <2>2. CASE i \in 1 .. n
    BY <1>1, <1>2, <1>7, <2>2
  <2>3. QED BY <2>1, <2>2
<1>8. QED BY <1>2, <1>4, <1>5, <1>6, <1>7 DEF DataHeard, Puts

\* The last byte of a block and its check: stored, or refused.
LEMMA DataEnds ==
  ASSUME CardShape(card), CardTypes, NEW deal, DataHeard(Script, deal, BlockLen + 1),
         card.disk = deal.disk, NEW b \in Byte, NEW c \in Hear(b), card' = Queued(c)
  PROVE  Judged(Script', deal, card'.out)
<1> DEFINE heard == Append(card.heard, b)
           data == SubSeq(heard, 1, BlockLen)
           sent == [i \in 1 .. BlockLen |-> Sent(deal, i)]
<1>0. BlockLen \in Nat \ {0}
  BY SdAssumption
<1>1. /\ card.want = "data" /\ card.queue = <<>> /\ card.block = deal.sar
      /\ Len(card.heard) = BlockLen + 1
      /\ \A i \in 1 .. BlockLen + 1 : i <= BlockLen => card.heard[i] = Sent(deal, i)
  BY ScriptFields DEF DataHeard
<1>2. /\ heard \in Seq(Byte) /\ Len(heard) = BlockLen + 2
      /\ \A i \in 1 .. BlockLen + 1 : heard[i] = card.heard[i]
  <2>1. /\ heard \in Seq(Byte) /\ Len(heard) = Len(card.heard) + 1
        /\ \A i \in 1 .. Len(card.heard) : heard[i] = card.heard[i]
    BY AppendProperties DEF CardTypes
  <2>. HIDE DEF heard
  <2>2. QED BY <1>0, <1>1, <2>1
<1>3. PICK ok \in BOOLEAN, n \in Busy : c = Dropped(Take(data, ok, n))
  <2>1. ~(Len(heard) < BlockLen + 2)
    BY <1>0, <1>2
  <2>2. QED BY <1>1, <2>1, HearCases
<1>. HIDE DEF heard
<1>4. data = sent
  <2>1. \A i \in 1 .. BlockLen : heard[i] = Sent(deal, i) /\ heard[i] \in Byte
    BY <1>0, <1>1, <1>2, ElementOfSeq
  <2>2. /\ data \in Seq(Byte) /\ Len(data) = BlockLen
        /\ \A i \in 1 .. BlockLen : data[i] = heard[i]
    <3>1. 1 \in Int /\ BlockLen \in Int /\ \A i \in 1 .. BlockLen : heard[i] \in Byte
      BY <1>0, <2>1
    <3>2. /\ data \in Seq(Byte) /\ Len(data) = (IF 1 <= BlockLen THEN BlockLen - 1 + 1 ELSE 0)
          /\ \A i \in 1 .. BlockLen - 1 + 1 : data[i] = heard[1 + i - 1]
      BY <3>1, SubSeqProperties
    <3>. HIDE DEF data
    <3>3. \A i \in 1 .. BlockLen : i \in 1 .. BlockLen - 1 + 1 /\ 1 + i - 1 = i
      BY <1>0
    <3>4. QED BY <1>0, <3>2, <3>3
  <2>. HIDE DEF data
  <2>3. data \in [1 .. BlockLen -> Byte]
    BY <2>2, LenProperties
  <2>4. QED BY <2>1, <2>2, <2>3
<1>. HIDE DEF data
<1>5. CASE ok
  <2>1. c = [[card EXCEPT !.disk[card.block] = data, !.want = "command",
                          !.queue = << 229 >> \o [i \in 1 .. n |-> 0]] EXCEPT !.heard = <<>>]
    BY <1>3, <1>5 DEF Take, Dropped
  <2> DEFINE q == << 229 >> \o [i \in 1 .. n |-> 0]
  <2>2. q \in Seq(Byte) /\ q # <<>> /\ q[1] = 229
    <3>1. n \in Nat /\ 229 \in Byte /\ 0 \in Byte
      BY CardAssumption DEF Byte
    <3> DEFINE zeros == [i \in 1 .. n |-> 0]
    <3>2. zeros \in Seq(Byte)
      BY <3>1, IsASeq
    <3>. HIDE DEF zeros
    <3>3. Len(zeros) \in Nat
      BY <3>2, LenProperties
    <3>4. << 229 >> \in Seq(Byte) /\ Len(<< 229 >>) = 1 /\ << 229 >>[1] = 229 /\ 1 \in Nat /\ 1 \in 1 .. 1
      BY <3>1
    <3>5. /\ << 229 >> \o zeros \in Seq(Byte) /\ Len(<< 229 >> \o zeros) = 1 + Len(zeros)
          /\ \A i \in 1 .. 1 : (<< 229 >> \o zeros)[i] = << 229 >>[i]
      BY <3>2, <3>3, <3>4, Joined
    <3>6. q = << 229 >> \o zeros
      BY DEF zeros
    <3>. HIDE DEF q
    <3>7. Len(q) # 0 /\ q \in Seq(Byte) /\ q[1] = 229
      BY <3>3, <3>4, <3>5, <3>6
    <3>8. QED BY <3>7
  <2>. HIDE DEF q
  <2>3. /\ CardShape(c) /\ c.want = "command" /\ c.heard = <<>> /\ c.queue = q
        /\ c.disk = [card.disk EXCEPT ![card.block] = data]
    <3>1. c = [[card EXCEPT !.disk[card.block] = data, !.want = "command",
                          !.queue = q] EXCEPT !.heard = <<>>]
      BY <2>1 DEF q
    <3>2. QED BY <3>1 DEF CardShape, CardFields
  <2>4. /\ Script'.want = "command" /\ Script'.heard = <<>>
        /\ Script'.disk = c.disk /\ Puts(Script', q)
    BY <2>3, QueuedScript
  <2>5. Script'.out = 229
    BY <2>2, <2>4, HeadTailProperties DEF Puts
  <2>6. card'.out = 229
    BY <2>5 DEF Script
  <2>7. Stored(Script', deal)
    BY <1>1, <1>4, <2>3, <2>4 DEF Stored
  <2>8. QED BY <2>4, <2>6, <2>7 DEF Judged, Silent
<1>6. CASE ~ok
  <2>1. c = [[card EXCEPT !.refused = TRUE, !.want = "command", !.queue = << 235 >>]
               EXCEPT !.heard = <<>>]
    BY <1>3, <1>6 DEF Take, Dropped
  <2>2. /\ CardShape(c) /\ c.want = "command" /\ c.heard = <<>> /\ c.queue = << 235 >>
    BY <2>1 DEF CardShape, CardFields
  <2>3. Script'.want = "command" /\ Script'.heard = <<>> /\ Puts(Script', << 235 >>)
    BY <2>2, QueuedScript
  <2>4. Script'.out = 235
    BY <2>3 DEF Puts
  <2>5. card'.out = 235
    BY <2>4 DEF Script
  <2>6. QED BY <2>3, <2>5 DEF Judged, Silent
<1>7. QED BY <1>5, <1>6

\* The types of what the card keeps of a byte.
LEMMA PutTypes ==
  ASSUME NEW c, CardShape(c), c.queue \in Seq(Byte), c.heard \in Seq(Byte),
         c.disk \in [BlockNo -> Block], card' = Queued(c)
  PROVE  CardTypes'
<1>1. /\ Script'.heard = c.heard /\ Script'.disk = c.disk /\ Puts(Script', c.queue)
  BY QueuedScript
<1>2. /\ card'.heard = c.heard /\ card'.disk = c.disk /\ Script'.queue = card'.queue
      /\ Script'.out = card'.out
  BY <1>1 DEF Script
<1>3. card'.queue \in Seq(Byte) /\ card'.out \in Byte
  <2>1. CASE c.queue = <<>>
    <3>1. Filler \in Byte
      BY DEF Filler, Byte
    <3>2. card'.queue = c.queue /\ card'.out = Filler
      BY <1>1, <1>2, <2>1 DEF Puts
    <3>3. QED BY <3>1, <3>2
  <2>2. CASE c.queue # <<>>
    BY <1>1, <1>2, <2>2, HeadTailProperties DEF Puts
  <2>3. QED BY <2>1, <2>2
<1>4. QED BY <1>2, <1>3 DEF CardTypes

LEMMA DroppedFields ==
  ASSUME NEW a, CardShape(a), NEW c, c = Dropped(a)
  PROVE  /\ CardShape(c) /\ c.queue = a.queue /\ c.heard = <<>> /\ c.disk = a.disk
         /\ c.want = a.want
BY DEF CardShape, CardFields, Dropped

Readable(frame) == frame[1] = 81 => Addressed(frame) \in BlockNo
LEMMA AnswerTypes ==
  ASSUME CardShape(card), CardTypes, NEW frame, NEW k \in Delays, NEW c,
         c = Dropped(Answer(frame, k)), Readable(frame)
  PROVE  /\ CardShape(c) /\ c.queue \in Seq(Byte) /\ c.heard = <<>> /\ c.disk = card.disk
         /\ frame[1] # 88 => c.want = card.want
<1> DEFINE a == Answer(frame, k)
<1>1. CardShape(a)
  BY AnswerFields
<1>. HIDE DEF a
<1>2. /\ CardShape(c) /\ c.queue = a.queue /\ c.heard = <<>> /\ c.disk = a.disk
      /\ c.want = a.want
  <2>1. c = Dropped(a)
    BY DEF a
  <2>2. QED BY <1>1, <2>1, DroppedFields
<1>3. k \in Nat /\ 0 \in Byte /\ 5 \in Byte
  BY CardAssumption DEF Byte
<1>4. \/ /\ frame[1] = 88 /\ card.mode = "ready"
         /\ After(a, "token", Addressed(frame), Fill(k) \o << 0 >>)
      \/ /\ frame[1] = 81 /\ card.mode = "ready"
         /\ After(a, card.want, card.block, Granting(k, frame))
      \/ /\ frame[1] \in {81, 88} /\ After(a, card.want, card.block, Fill(k) \o << 5 >>)
      \/ /\ frame[1] \notin {81, 88}
         /\ \E reply \in Replies : After(a, card.want, card.block, Fill(k) \o reply)
  BY Answered DEF a
<1>5. CASE frame[1] = 88 /\ After(a, "token", Addressed(frame), Fill(k) \o << 0 >>)
  <2>1. Fill(k) \o << 0 >> \in Seq(Byte)
    BY <1>3, Reply
  <2>2. QED BY <1>2, <1>5, <2>1 DEF After
<1>6. CASE frame[1] = 81 /\ After(a, card.want, card.block, Granting(k, frame))
  <2>1. Granting(k, frame) \in Seq(Byte)
    <3>1. Addressed(frame) \in BlockNo
      BY <1>6 DEF Readable
    <3>2. QED BY <1>3, <3>1, GrantingBytes
  <2>2. QED BY <1>2, <1>6, <2>1 DEF After
<1>7. CASE After(a, card.want, card.block, Fill(k) \o << 5 >>)
  <2>1. Fill(k) \o << 5 >> \in Seq(Byte)
    BY <1>3, Reply
  <2>2. QED BY <1>2, <1>7, <2>1 DEF After
<1>8. CASE \E reply \in Replies : After(a, card.want, card.block, Fill(k) \o reply)
  <2>1. PICK reply \in Replies : After(a, card.want, card.block, Fill(k) \o reply)
    BY <1>8
  <2>2. Fill(k) \o reply \in Seq(Byte)
    BY <1>3, ReplyTypes
  <2>3. QED BY <1>2, <2>1, <2>2 DEF After
<1>9. QED BY <1>4, <1>5, <1>6, <1>7, <1>8

LEMMA HeardTypes ==
  ASSUME CardShape(card), CardTypes, NEW b \in Byte, NEW c \in Hear(b), card' = Queued(c),
         card.want = "command" /\ card.queue = <<>> /\ Len(card.heard) >= 5 =>
           Readable(Append(card.heard, b))
  PROVE  CardTypes'
<1> DEFINE heard == Append(card.heard, b)
<1>1. heard \in Seq(Byte) /\ Len(heard) = Len(card.heard) + 1 /\ Len(card.heard) \in Nat
  BY AppendProperties, LenProperties DEF CardTypes
<1>2. CASE c = card
  BY <1>2, PutTypes DEF CardTypes
<1>3. CASE c = [card EXCEPT !.heard = heard]
  <2>. HIDE DEF heard
  <2>1. CardShape(c) /\ c.queue = card.queue /\ c.heard = heard /\ c.disk = card.disk
    BY <1>3 DEF CardShape, CardFields
  <2>2. QED BY <1>1, <2>1, PutTypes DEF CardTypes
<1>4. CASE /\ card.queue = <<>> /\ card.want = "command" /\ ~(Len(heard) < 6)
           /\ \E k \in Delays : c = Dropped(Answer(heard, k))
  <2>1. PICK k \in Delays : c = Dropped(Answer(heard, k))
    BY <1>4
  <2>2. Readable(heard)
    BY <1>1, <1>4
  <2>3. CardShape(c) /\ c.queue \in Seq(Byte) /\ c.heard = <<>> /\ c.disk = card.disk
    BY <2>1, <2>2, AnswerTypes
  <2>4. c.heard \in Seq(Byte)
    BY <2>3
  <2>5. QED BY <2>3, <2>4, PutTypes DEF CardTypes
<1>5. CASE c = [card EXCEPT !.want = "data"]
  <2>1. CardShape(c) /\ c.queue = card.queue /\ c.heard = card.heard /\ c.disk = card.disk
    BY <1>5 DEF CardShape, CardFields
  <2>2. QED BY <2>1, PutTypes DEF CardTypes
<1>6. CASE /\ ~(Len(heard) < BlockLen + 2)
           /\ \E ok \in BOOLEAN, n \in Busy : c = Dropped(Take(SubSeq(heard, 1, BlockLen), ok, n))
  <2> DEFINE data == SubSeq(heard, 1, BlockLen)
  <2>0. BlockLen \in Nat \ {0}
    BY SdAssumption
  <2>1. PICK ok \in BOOLEAN, n \in Busy : c = Dropped(Take(data, ok, n))
    BY <1>6
  <2>. HIDE DEF heard
  <2>2. data \in Block
    <3>1. 1 \in Int /\ BlockLen \in Int /\ \A i \in 1 .. BlockLen : heard[i] \in Byte
      BY <1>1, <1>6, <2>0, ElementOfSeq
    <3>2. data \in Seq(Byte) /\ Len(data) = (IF 1 <= BlockLen THEN BlockLen - 1 + 1 ELSE 0)
      BY <3>1, SubSeqProperties
    <3>. HIDE DEF data
    <3>3. Len(data) = BlockLen
      BY <2>0, <3>2
    <3>4. QED BY <3>2, <3>3, LenProperties DEF Block
  <2>. HIDE DEF data
  <2>3. CardShape(Take(data, ok, n))
    BY TakeFields
  <2>4. /\ CardShape(c) /\ c.queue = Take(data, ok, n).queue /\ c.heard = <<>>
        /\ c.disk = Take(data, ok, n).disk
    BY <2>1, <2>3, DroppedFields
  <2>5. CASE ok
    <3> DEFINE zeros == [i \in 1 .. n |-> 0]
    <3>1. Take(data, ok, n) = [card EXCEPT !.disk[card.block] = data, !.want = "command",
                                           !.queue = << 229 >> \o zeros]
      BY <2>5 DEF Take
    <3>2. n \in Nat /\ 0 \in Byte /\ 229 \in Byte
      BY CardAssumption DEF Byte
    <3>3. zeros \in Seq(Byte)
      BY <3>2, IsASeq
    <3>. HIDE DEF zeros
    <3>4. << 229 >> \in Seq(Byte)
      BY <3>2
    <3>5. << 229 >> \o zeros \in Seq(Byte)
      BY <3>3, <3>4, ConcatProperties
    <3>6. [card.disk EXCEPT ![card.block] = data] \in [BlockNo -> Block]
      BY <2>2 DEF CardTypes
    <3>7. /\ Take(data, ok, n).queue = << 229 >> \o zeros
          /\ Take(data, ok, n).disk = [card.disk EXCEPT ![card.block] = data]
      BY <3>1 DEF CardShape, CardFields
    <3>8. c.heard \in Seq(Byte)
      BY <2>4
    <3>9. c.queue \in Seq(Byte)
      BY <2>4, <3>5, <3>7
    <3>10. c.disk \in [BlockNo -> Block]
      BY <2>4, <3>6, <3>7
    <3>11. QED BY <2>4, <3>8, <3>9, <3>10, PutTypes
  <2>6. CASE ~ok
    <3>1. Take(data, ok, n) = [card EXCEPT !.refused = TRUE, !.want = "command",
                                           !.queue = << 235 >>]
      BY <2>6 DEF Take
    <3>2. Take(data, ok, n).queue = << 235 >> /\ Take(data, ok, n).disk = card.disk
      BY <3>1 DEF CardShape, CardFields
    <3>3. << 235 >> \in Seq(Byte) /\ c.heard \in Seq(Byte)
      BY <2>4 DEF Byte
    <3>4. QED BY <2>4, <3>2, <3>3, PutTypes DEF CardTypes
  <2>7. QED BY <2>5, <2>6
<1>7. \/ c = card
      \/ c = [card EXCEPT !.heard = heard]
      \/ /\ card.queue = <<>> /\ card.want = "command" /\ ~(Len(heard) < 6)
         /\ \E k \in Delays : c = Dropped(Answer(heard, k))
      \/ c = [card EXCEPT !.want = "data"]
      \/ /\ ~(Len(heard) < BlockLen + 2)
         /\ \E ok \in BOOLEAN, n \in Busy : c = Dropped(Take(SubSeq(heard, 1, BlockLen), ok, n))
  BY HearCases
<1>8. QED BY <1>2, <1>3, <1>4, <1>5, <1>6, <1>7

\* During the initialisation no command comes that would move blocks.
LEMMA InitByteHeard ==
  ASSUME CardShape(card), CardTypes, card.want = "command",
         card.heard # <<>> => card.heard[1] \notin {81, 88},
         NEW b \in Byte \ {81, 88}, NEW c \in Hear(b), card' = Queued(c)
  PROVE  /\ card'.want = "command" /\ card'.disk = card.disk
         /\ card'.heard # <<>> => card'.heard[1] \notin {81, 88}
         /\ CardTypes'
<1> DEFINE heard == Append(card.heard, b)
<1>1. heard \in Seq(Byte) /\ heard[1] \notin {81, 88}
  <2>1. /\ heard \in Seq(Byte) /\ Len(heard) = Len(card.heard) + 1 /\ heard[Len(card.heard) + 1] = b
        /\ \A i \in 1 .. Len(card.heard) : heard[i] = card.heard[i]
    BY AppendProperties DEF CardTypes
  <2>. HIDE DEF heard
  <2>2. CASE card.heard = <<>>
    BY <2>1, <2>2
  <2>3. CASE card.heard # <<>>
    <3>1. Len(card.heard) \in Nat \ {0}
      BY <2>3, EmptySeq DEF CardTypes
    <3>2. heard[1] = card.heard[1]
      BY <2>1, <3>1
    <3>3. QED BY <2>1, <2>3, <3>2
  <2>4. QED BY <2>2, <2>3
<1>2. CardTypes'
  <2>1. Readable(heard)
    BY <1>1 DEF Readable
  <2>2. QED BY <2>1, HeardTypes
<1>3. \/ c = card
      \/ c = [card EXCEPT !.heard = heard]
      \/ \E k \in Delays : c = Dropped(Answer(heard, k))
  BY HearCases
<1>4. /\ CardShape(c) /\ c.want = "command" /\ c.disk = card.disk
      /\ c.heard # <<>> => c.heard[1] \notin {81, 88}
  <2>1. CASE c = card
    BY <2>1
  <2>2. CASE c = [card EXCEPT !.heard = heard]
    <3>. HIDE DEF heard
    <3>1. QED BY <1>1, <2>2 DEF CardShape, CardFields
  <2>3. CASE \E k \in Delays : c = Dropped(Answer(heard, k))
    <3>1. PICK k \in Delays : c = Dropped(Answer(heard, k))
      BY <2>3
    <3>2. Readable(heard)
      BY <1>1 DEF Readable
    <3>. HIDE DEF heard
    <3>3. CardShape(c) /\ c.heard = <<>> /\ c.disk = card.disk /\ c.want = card.want
      BY <1>1, <3>1, <3>2, AnswerTypes
    <3>4. QED BY <3>3
  <2>4. QED BY <1>3, <2>1, <2>2, <2>3
<1>5. Script'.want = c.want /\ Script'.heard = c.heard /\ Script'.disk = c.disk
  BY <1>4, QueuedScript
<1>6. Script'.want = card'.want /\ Script'.heard = card'.heard /\ Script'.disk = card'.disk
  BY DEF Script
<1>7. QED BY <1>2, <1>4, <1>5, <1>6

-----------------------------------------------------------------------------
(* CardPlace, routine by routine: a byte finishes, or nothing happens to   *)
(* the card, or the controller goes on.                                    *)

\* What a call is about stays the same while the processor is stalled.
SameDeal ==
  host'.call = host.call /\ host'.buf = host.buf /\ host'.sar = host.sar /\ host'.ram = host.ram
  /\ host'.disk = host.disk
LEMMA DealKept == SameDeal => Deal' = Deal
BY DEF SameDeal, Deal
LEMMA ScriptKept == KeepsScript => Script' = Script
BY DEF KeepsScript, Script
LEMMA PlacesKept ==
  sd' = sd =>
    /\ (Opening' <=> Opening) /\ (Commanding' <=> Commanding) /\ (Writing' <=> Writing)
    /\ (Seeking' <=> Seeking) /\ (Reading' <=> Reading) /\ (Waiting' <=> Waiting)
    /\ (InCommand' <=> InCommand)
BY DEF Opening, Commanding, Writing, Seeking, Reading, Waiting, InCommand

\* The routine of a call and the place in it.
RoutinePlace ==
  /\ Opening => OpeningPlace
  /\ Commanding => CommandPlace
  /\ Writing => WritePlace
  /\ Seeking => SeekPlace
  /\ Reading => ReadPlace

LEMMA LastsPlace ==
  ASSUME Lasts, SameDeal, RoutinePlace
  PROVE  RoutinePlace'
<1>1. Script' = Script /\ Deal' = Deal /\ sd' = sd /\ card'.disk = card.disk
      /\ card'.out = card.out
  BY ScriptKept, DealKept DEF Lasts, KeepsScript
<1>2. /\ host'.call = host.call /\ host'.sar = host.sar /\ host'.disk = host.disk
      /\ (Over' <=> Over) /\ (Over => Told' = Told) /\ (Hung' <=> Hung)
  BY DEF SameDeal, Lasts
<1>3. OpeningPlace => OpeningPlace'
  BY <1>1 DEF OpeningPlace
<1>4. CommandPlace => CommandPlace'
  BY <1>1, <1>2 DEF CommandPlace
<1>5. WritePlace => WritePlace'
  BY <1>1, <1>2 DEF WritePlace
<1>6. SeekPlace => SeekPlace'
  BY <1>1, <1>2 DEF SeekPlace
<1>7. ReadPlace => ReadPlace'
  BY <1>1, <1>2 DEF ReadPlace
<1>8. QED BY <1>1, <1>3, <1>4, <1>5, <1>6, <1>7, PlacesKept DEF RoutinePlace

\* A byte is over: what there is to know of it.
LEMMA FinishedByte ==
  ASSUME Finishes
  PROVE  /\ sd' = sd /\ ~Over /\ Over' /\ Told' = card.out
         /\ \E c \in Hear(sd.tx) : card' = Queued(c)
BY DEF Finishes, Completes

LEMMA PassedTypes ==
  ASSUME CardShape(card), CardTypes, NEW b \in Byte, NEW c \in Hear(b), card' = Queued(c),
         card.heard = <<>> \/ card.want # "command" \/ card.queue # <<>>
  PROVE  CardTypes' /\ Script'.queue \in Seq(Byte) /\ Script.queue \in Seq(Byte)
<1>1. card.heard = <<>> => ~(Len(card.heard) >= 5)
  OBVIOUS
<1>2. CardTypes'
  BY <1>1, HeardTypes
<1>3. QED BY <1>2 DEF CardTypes, Script
LEMMA OpeningFinishes ==
  ASSUME CtlInv, Finishes, Opening, OpeningPlace, CardShape(card), CardTypes
  PROVE  OpeningPlace' /\ CardTypes' /\ card'.disk = card.disk
<1>1. sd.intra = 3
  BY DEF CtlInv, SdPlace, Opening, Finishes, Awaiting, InFillers, InCommand, Writing, Seeking,
     Reading
<1>2. sd.tx = Filler /\ Filler \in Byte
  BY <1>1 DEF OpeningPlace, Filler, Byte
<1>3. PICK c \in Hear(Filler) : card' = Queued(c)
  BY <1>2, FinishedByte
<1>4. Silent(Script) /\ Script.queue = <<>> /\ Script.out = Filler
  BY DEF OpeningPlace, Clear
<1>5. Passes(Script, Script')
  BY <1>3, <1>4, PassedOver
<1>6. CardTypes' /\ Script.queue \in Seq(Byte)
  BY <1>2, <1>3, <1>4, PassedTypes DEF Silent, Script
<1>7. Left(Script) = 1
  BY <1>4, <1>6, LeftOne
<1>8. Clear(Script') /\ card'.disk = card.disk
  BY <1>4, <1>5, <1>7 DEF Passes, Clear, Silent, Script
<1>9. QED BY <1>2, <1>6, <1>8, FinishedByte DEF OpeningPlace

LEMMA FrameBytes ==
  ASSUME NEW call \in Calls, NEW block \in BlockNo
  PROVE  LET frame == Frame(call, block) IN
         /\ frame[1] \div 64 = 1 /\ frame[6] = 255 /\ \A i \in 1 .. 6 : frame[i] \in Byte
         /\ frame[1] = 81 => frame = CMD_17(block) /\ Addressed(frame) = block
<1>1. CASE call = "write"
  <2>1. Frame(call, block) = Addressing(88, block)
    BY <1>1 DEF Frame, CMD_24
  <2>2. Addressing(88, block)[6] = 255
    BY DEF Addressing
  <2>3. QED BY <2>1, <2>2, AddressTrip DEF Byte
<1>2. CASE call = "read"
  <2>1. Frame(call, block) = Addressing(81, block)
    BY <1>2 DEF Frame, CMD_17
  <2>2. Addressing(81, block)[6] = 255
    BY DEF Addressing
  <2>3. QED BY <2>1, <2>2, AddressTrip DEF Byte, CMD_17
<1>3. QED BY <1>1, <1>2 DEF Calls
LEMMA FrameReadable ==
  ASSUME CardTypes, NEW call \in Calls, NEW block \in BlockNo,
         Listening(Script, Frame(call, block), 5)
  PROVE  Readable(Append(card.heard, 255))
<1> DEFINE frame == Frame(call, block)
<1> DEFINE got == Append(card.heard, 255)
<1>1. card.heard \in Seq(Byte) /\ Len(card.heard) = 5
      /\ \A i \in 1 .. 5 : card.heard[i] = frame[i]
  BY DEF CardTypes, Listening, Script
<1>2. \A i \in 1 .. 5 : got[i] = card.heard[i]
  BY <1>1
<1>3. /\ got[1] = frame[1] /\ got[2] = frame[2] /\ got[3] = frame[3] /\ got[4] = frame[4]
      /\ got[5] = frame[5]
  BY <1>1, <1>2
<1>4. frame[1] = 81 => Addressed(frame) = block
  BY FrameBytes
<1> HIDE DEF frame, got
<1>5. got[1] = 81 => Addressed(got) = block
  BY <1>3, <1>4 DEF Addressed
<1>6. Readable(got)
  BY <1>5 DEF Readable
<1>7. QED BY <1>6 DEF got

\* A byte of the command, the last one with the card's answer.
LEMMA CommandByteFinishes ==
  ASSUME CtlInv, Finishes, Commanding, CommandPlace, CardShape(card), CardTypes, SameDeal,
         host.call \in Calls, host.sar \in BlockNo, host.disk = card.disk, sd.intra = 4
  PROVE  CommandPlace' /\ CardTypes' /\ card'.disk = card.disk
<1> DEFINE frame == Frame(host.call, host.sar)
<1>1. /\ sd' = sd /\ Over' /\ ~Over /\ Deal' = Deal
      /\ host'.call = host.call /\ host'.sar = host.sar
  BY FinishedByte, DealKept DEF SameDeal
<1>2. sd.n \in 0 .. 5 /\ sd.cmd = frame /\ sd.tx = frame[sd.n + 1] /\ Listening(Script, frame, sd.n)
  BY <1>1 DEF CommandPlace
<1>3. /\ frame[1] \div 64 = 1 /\ frame[6] = 255 /\ \A i \in 1 .. 6 : frame[i] \in Byte
      /\ frame[1] = 81 => frame = CMD_17(host.sar)
  BY FrameBytes
<1>4. PICK c \in Hear(sd.tx) : card' = Queued(c)
  BY FinishedByte
<1>5. Script.heard = card.heard /\ Len(card.heard) = sd.n
  BY <1>2 DEF Listening, Script
<1>6. CASE sd.n # 5
  <2>1. sd.n \in 0 .. 4 /\ sd.n + 1 \in 1 .. 6
    BY <1>2, <1>6
  <2>2. frame[sd.n + 1] \in Byte
    BY <1>3, <2>1
  <2> HIDE DEF frame
  <2>3. Listening(Script', frame, sd.n + 1) /\ card'.disk = card.disk
    BY <1>2, <1>3, <1>4, <2>1, <2>2, FrameGoesIn
  <2>4. ~(Len(card.heard) >= 5)
    BY <1>5, <2>1
  <2>5. CardTypes'
    BY <1>2, <1>4, <2>2, <2>4, HeardTypes
  <2>6. CommandPlace'
    BY <1>1, <1>2, <1>6, <2>3 DEF CommandPlace, frame
  <2>7. QED BY <2>3, <2>5, <2>6
<1>7. CASE sd.n = 5
  <2>1. sd.tx = 255 /\ 255 \in Byte
    <3>1. 5 + 1 = 6
      OBVIOUS
    <3>2. QED BY <1>2, <1>3, <1>7, <3>1 DEF Byte
  <2>2. CardTypes'
    <3>1. Listening(Script, Frame(host.call, host.sar), 5)
      BY <1>2, <1>7
    <3>2. Readable(Append(card.heard, 255))
      BY <3>1, FrameReadable
    <3> HIDE DEF frame
    <3>3. QED BY <1>4, <2>1, <3>2, HeardTypes
  <2>3. Grants(host.call, Script', Deal) /\ card'.disk = card.disk
    <3>0. Deal.sar = host.sar /\ Deal.disk = card.disk
      BY DEF Deal
    <3>1. CASE host.call = "write"
      <4>1. Listening(Script, CMD_24(Deal.sar), 5)
        BY <1>2, <1>7, <3>0, <3>1 DEF Frame
      <4>2. Mute(Script') \/ WriteGranted(Script', Deal)
        BY <1>4, <2>1, <3>0, <4>1, WriteFrameEnds
      <4>3. card'.disk = card.disk
        BY <1>4, <2>1, <3>0, <4>1, WriteFrameEnds
      <4>4. QED BY <3>1, <4>2, <4>3 DEF Grants
    <3>2. CASE host.call = "read"
      <4>1. Listening(Script, CMD_17(Deal.sar), 5)
        BY <1>2, <1>7, <3>0, <3>2 DEF Frame
      <4>2. Mute(Script') \/ ReadGranted(Script', Deal)
        BY <1>4, <2>1, <3>0, <4>1, ReadFrameEnds
      <4>3. card'.disk = card.disk
        BY <1>4, <2>1, <3>0, <4>1, ReadFrameEnds
      <4>4. QED BY <3>2, <4>2, <4>3 DEF Grants
    <3>3. QED BY <3>1, <3>2 DEF Calls
  <2>4. CommandPlace'
    BY <1>1, <1>2, <1>7, <2>3 DEF CommandPlace
  <2>5. QED BY <2>2, <2>3, <2>4
<1>8. QED BY <1>6, <1>7
\* A filler after it: the answer comes nearer.
LEMMA AnswerByteFinishes ==
  ASSUME CtlInv, Finishes, Commanding, CommandPlace, CardShape(card), CardTypes, SameDeal,
         host.call \in Calls, sd.intra = 8
  PROVE  CommandPlace' /\ CardTypes' /\ card'.disk = card.disk
<1>1. /\ sd' = sd /\ Over' /\ ~Over /\ Deal' = Deal /\ Told' = Script.out
      /\ host'.call = host.call /\ host'.sar = host.sar
  BY FinishedByte, DealKept DEF SameDeal, Script
<1>2. sd.tx = Filler /\ Filler \in Byte /\ Grants(host.call, Script, Deal)
  BY <1>1 DEF CommandPlace, Filler, Byte
<1>3. PICK c \in Hear(Filler) : card' = Queued(c)
  BY <1>2, FinishedByte
<1>4. \/ Silent(Script)
      \/ card.want = "token" /\ card.heard = <<>> /\ Filler # StartToken
  BY <1>2 DEF Grants, Mute, WriteGranted, ReadGranted, WantsToken, Script, Filler, StartToken
<1>5. Passes(Script, Script')
  BY <1>3, <1>4, PassedOver
<1>6. card.heard = <<>>
  BY <1>4 DEF Silent, Script
<1>7. CardTypes' /\ Script'.queue \in Seq(Byte) /\ Script.queue \in Seq(Byte)
  BY <1>2, <1>3, <1>6, PassedTypes
<1>8. card'.disk = card.disk
  BY <1>5 DEF Passes, Script
<1>9. /\ Script.out # 0 => Grants(host.call, Script', Deal)
      /\ Script.out = 0 => Granted(host.call, Script', Deal)
  <2>1. CASE Mute(Script)
    <3>1. Script.out # 0 /\ Mute(Script')
      BY <1>5, <1>7, <2>1, MutePasses
    <3>2. QED BY <3>1 DEF Grants
  <2>2. CASE host.call = "write" /\ WriteGranted(Script, Deal)
    <3>1. \/ Script.out = 0 /\ TokenReady(Script', Deal)
          \/ Script.out # 0 /\ WriteGranted(Script', Deal)
      BY <1>5, <1>7, <2>2, WriteGrantedPasses
    <3>2. QED BY <2>2, <3>1 DEF Grants, Granted
  <2>3. CASE host.call = "read" /\ ReadGranted(Script, Deal)
    <3>1. \/ Script.out = 0 /\ TokenComing(Script', Deal)
          \/ Script.out # 0 /\ ReadGranted(Script', Deal)
      BY <1>5, <1>7, <2>3, ReadGrantedPasses
    <3>2. QED BY <2>3, <3>1 DEF Grants, Granted
  <2>4. QED BY <1>2, <2>1, <2>2, <2>3 DEF Grants, Calls
<1>10. CommandPlace'
  BY <1>1, <1>2, <1>9 DEF CommandPlace
<1>11. QED BY <1>7, <1>8, <1>10
LEMMA CommandFinishes ==
  ASSUME CtlInv, Finishes, Commanding, CommandPlace, CardShape(card), CardTypes, SameDeal,
         host.call \in Calls, host.sar \in BlockNo, host.disk = card.disk
  PROVE  CommandPlace' /\ CardTypes' /\ card'.disk = card.disk
<1>1. sd.intra \in {4, 8}
  BY DEF CtlInv, SdPlace, Commanding, Finishes, Awaiting, InFillers, InCommand, Writing, Seeking,
     Reading
<1>2. QED BY <1>1, CommandByteFinishes, AnswerByteFinishes

\* The block goes out: token, data and check, the card's judgement, busy bytes.
LEMMA WritingPasses ==
  ASSUME CardShape(card), CardTypes, sd.tx = Filler, Finishes,
         TokenReady(Script, Deal) \/ Silent(Script)
  PROVE  /\ TokenReady(Script, Deal) => TokenReady(Script', Deal)
         /\ Silent(Script) => Silent(Script')
         /\ card'.disk = card.disk /\ CardTypes'
<1>1. Filler \in Byte /\ Filler # StartToken
  BY DEF Filler, StartToken, Byte
<1>2. PICK c \in Hear(Filler) : card' = Queued(c)
  BY FinishedByte
<1>3. card.heard = <<>> /\ (Silent(Script) \/ card.want = "token")
  BY DEF TokenReady, WantsToken, Silent, Script
<1>4. Passes(Script, Script')
  BY <1>1, <1>2, <1>3, PassedOver
<1>5. CardTypes' /\ Script.queue \in Seq(Byte)
  BY <1>1, <1>2, <1>3, PassedTypes
<1>6. Script.queue = <<>> => Left(Script) = 1
  BY <1>5, LeftOne
<1>7. QED BY <1>4, <1>5, <1>6 DEF Passes, TokenReady, WantsToken, Silent, Script

LEMMA WritingFinishes ==
  ASSUME CtlInv, Finishes, Writing, sd.intra < 23, WritePlace, CardShape(card), CardTypes, SameDeal,
         sd.tx \in Byte
  PROVE  /\ WritePlace' /\ CardTypes'
         /\ card'.disk = card.disk \/ sd.intra = 15
<1>1. /\ sd' = sd /\ Over' /\ ~Over /\ Deal' = Deal /\ Told' = card.out
      /\ host'.disk = host.disk
  BY FinishedByte, DealKept DEF SameDeal
<1>2. ~Hung /\ BlockLen \in Nat
  BY SdAssumption DEF Finishes, Hung
<1>3. PICK c \in Hear(sd.tx) : card' = Queued(c)
  BY FinishedByte
<1>4. sd.intra \in {3, 9, 13, 15, 17, 21} \/ (sd.intra = 6 /\ sd.cnt = 0)
  BY DEF CtlInv, SdPlace, Finishes, Awaiting, InFillers, InCommand, Writing, Seeking, Reading
<1>5. CASE sd.intra = 3
  <2>1. TokenReady(Script, Deal) /\ sd.tx = Filler /\ card.disk = host.disk
    BY <1>1, <1>5 DEF WritePlace
  <2>2. TokenReady(Script', Deal) /\ card'.disk = card.disk /\ CardTypes'
    BY <2>1, WritingPasses
  <2>3. WritePlace'
    BY <1>1, <1>5, <2>1, <2>2 DEF WritePlace
  <2>4. QED BY <2>2, <2>3
<1>6. CASE sd.intra = 6 /\ sd.cnt = 0
  <2>1. TokenReady(Script, Deal) /\ sd.tx = StartToken /\ card.disk = host.disk
    BY <1>1, <1>6 DEF WritePlace
  <2>2. DataHeard(Script', Deal, 0) /\ card'.disk = card.disk
    BY <1>3, <2>1, TokenHeard
  <2>3. CardTypes'
    <3>1. card.heard = <<>>
      BY <2>1 DEF TokenReady, WantsToken, Script
    <3>2. QED BY <1>3, <3>1, PassedTypes
  <2>4. WritePlace'
    BY <1>1, <1>2, <1>6, <2>1, <2>2 DEF WritePlace
  <2>5. QED BY <2>2, <2>3, <2>4
<1>7. CASE sd.intra = 9
  <2>1. /\ DataHeard(Script, Deal, sd.cnt) /\ sd.tx = Sent(Deal, sd.cnt + 1)
        /\ sd.cnt \in 0 .. BlockLen - 1 /\ card.disk = host.disk
    BY <1>1, <1>7 DEF WritePlace
  <2>2. DataHeard(Script', Deal, sd.cnt + 1) /\ card'.disk = card.disk
    <3>1. sd.cnt \in 0 .. BlockLen
      BY <1>2, <2>1
    <3>2. QED BY <1>3, <2>1, <3>1, DataByteHeard
  <2>3. CardTypes'
    <3>1. card.want # "command"
      BY <2>1 DEF DataHeard, Script
    <3>2. QED BY <1>3, <3>1, PassedTypes
  <2>4. WritePlace'
    BY <1>1, <1>2, <1>7, <2>1, <2>2 DEF WritePlace
  <2>5. QED BY <2>2, <2>3, <2>4
<1>8. CASE sd.intra = 13
  <2>1. DataHeard(Script, Deal, BlockLen) /\ sd.tx = Filler /\ card.disk = host.disk
    BY <1>1, <1>8 DEF WritePlace
  <2>2. DataHeard(Script', Deal, BlockLen + 1) /\ card'.disk = card.disk
    <3>1. BlockLen \in 0 .. BlockLen /\ ~(BlockLen < BlockLen)
      BY <1>2
    <3>2. QED BY <1>3, <2>1, <3>1, DataByteHeard
  <2>3. CardTypes'
    <3>1. card.want # "command"
      BY <2>1 DEF DataHeard, Script
    <3>2. QED BY <1>3, <3>1, PassedTypes
  <2>4. WritePlace'
    BY <1>1, <1>2, <1>8, <2>1, <2>2 DEF WritePlace
  <2>5. QED BY <2>2, <2>3, <2>4
<1>9. CASE sd.intra = 15
  <2>1. DataHeard(Script, Deal, BlockLen + 1) /\ sd.tx = Filler /\ card.disk = host.disk
    BY <1>1, <1>9 DEF WritePlace
  <2>2. Judged(Script', Deal, card'.out)
    <3>1. card.disk = Deal.disk
      BY <2>1 DEF Deal
    <3>2. QED BY <1>3, <2>1, <3>1, DataEnds
  <2>3. CardTypes'
    <3>1. card.want # "command"
      BY <2>1 DEF DataHeard, Script
    <3>2. QED BY <1>3, <3>1, PassedTypes
  <2>4. WritePlace'
    BY <1>1, <1>2, <1>9, <2>1, <2>2 DEF WritePlace
  <2>5. QED BY <1>9, <2>3, <2>4
<1>10. CASE sd.intra = 17
  <2>1. Judged(Script, Deal, card.out) /\ sd.tx = Filler
    BY <1>1, <1>2, <1>10 DEF WritePlace
  <2>2. Silent(Script') /\ card'.disk = card.disk /\ CardTypes'
    BY <2>1, WritingPasses DEF Judged
  <2>3. Judged(Script', Deal, card.out)
    BY <2>1, <2>2 DEF Judged, Stored, Script
  <2>4. WritePlace'
    BY <1>1, <1>2, <1>10, <2>1, <2>3 DEF WritePlace
  <2>5. QED BY <2>2, <2>4
<1>11. CASE sd.intra = 21
  <2>1. Silent(Script) /\ Stored(Script, Deal) /\ sd.tx = Filler
    BY <1>1, <1>11 DEF WritePlace
  <2>2. Silent(Script') /\ card'.disk = card.disk /\ CardTypes'
    BY <2>1, WritingPasses
  <2>3. Stored(Script', Deal)
    BY <2>1, <2>2 DEF Stored, Script
  <2>4. WritePlace'
    BY <1>1, <1>2, <1>11, <2>1, <2>2, <2>3 DEF WritePlace
  <2>5. QED BY <2>2, <2>4
<1>12. QED BY <1>4, <1>5, <1>6, <1>7, <1>8, <1>9, <1>10, <1>11

\* The block comes in.
LEMMA SilentPasses ==
  ASSUME CardShape(card), CardTypes, sd.tx = Filler, Finishes, Silent(Script)
  PROVE  /\ Passes(Script, Script') /\ card'.disk = card.disk /\ CardTypes'
         /\ Script.queue \in Seq(Byte) /\ Script'.queue \in Seq(Byte)
<1>1. Filler \in Byte
  BY DEF Filler, Byte
<1>2. PICK c \in Hear(Filler) : card' = Queued(c)
  BY FinishedByte
<1>3. card.heard = <<>>
  BY DEF Silent, Script
<1>4. Passes(Script, Script')
  BY <1>1, <1>2, PassedOver
<1>5. card'.disk = card.disk
  BY <1>4 DEF Passes, Script
<1>6. CardTypes' /\ Script.queue \in Seq(Byte) /\ Script'.queue \in Seq(Byte)
  BY <1>1, <1>2, <1>3, PassedTypes
<1>7. QED BY <1>4, <1>5, <1>6
LEMMA SeekingFinishes ==
  ASSUME CtlInv, Finishes, Seeking, SeekPlace, CardShape(card), CardTypes, SameDeal
  PROVE  SeekPlace' /\ CardTypes' /\ card'.disk = card.disk
<1>1. /\ sd' = sd /\ Over' /\ ~Over /\ Deal' = Deal /\ Told' = Script.out
  BY FinishedByte, DealKept DEF SameDeal, Script
<1>2. sd.intra = 3
  BY DEF CtlInv, SdPlace, Finishes, Awaiting, InFillers, InCommand, Writing, Seeking, Reading
<1>3. sd.tx = Filler /\ TokenComing(Script, Deal)
  BY <1>1, <1>2 DEF SeekPlace
<1>4. /\ Passes(Script, Script') /\ card'.disk = card.disk /\ CardTypes'
      /\ Script.queue \in Seq(Byte) /\ Script'.queue \in Seq(Byte)
  BY <1>3, SilentPasses DEF TokenComing
<1>5. \/ Script.out = StartToken /\ DataComing(Script', Deal, 0)
      \/ Script.out # StartToken /\ TokenComing(Script', Deal)
  BY <1>3, <1>4, TokenComingPasses
<1>6. SeekPlace'
  BY <1>1, <1>2, <1>3, <1>5 DEF SeekPlace
<1>7. QED BY <1>4, <1>6
LEMMA ReadingFinishes ==
  ASSUME CtlInv, Finishes, Reading, ReadPlace, CardShape(card), CardTypes, SameDeal
  PROVE  ReadPlace' /\ CardTypes' /\ card'.disk = card.disk
<1>1. /\ sd' = sd /\ Over' /\ ~Over /\ Deal' = Deal /\ Told' = Script.out
  BY FinishedByte, DealKept DEF SameDeal, Script
<1>2. sd.intra \in {3, 8, 10, 12}
  BY DEF CtlInv, SdPlace, Finishes, Awaiting, InFillers, InCommand, Writing, Seeking, Reading
<1>3. sd.tx = Filler
  BY <1>2 DEF ReadPlace
<1>4. CASE sd.intra = 3
  <2>1. DataComing(Script, Deal, sd.cnt) /\ sd.cnt \in 0 .. BlockLen - 1
    BY <1>1, <1>4 DEF ReadPlace
  <2>2. /\ Passes(Script, Script') /\ card'.disk = card.disk /\ CardTypes'
        /\ Script.queue \in Seq(Byte) /\ Script'.queue \in Seq(Byte)
    BY <1>3, <2>1, SilentPasses DEF DataComing
  <2>3. Script.out = Wanted(Deal, sd.cnt + 1) /\ DataComing(Script', Deal, sd.cnt + 1)
    BY <2>1, <2>2, DataComingPasses
  <2>4. ReadPlace'
    BY <1>1, <1>3, <1>4, <2>1, <2>3 DEF ReadPlace
  <2>5. QED BY <2>2, <2>4
<1>5. CASE sd.intra \in {8, 10, 12}
  <2>1. Silent(Script)
    BY <1>5 DEF ReadPlace
  <2>2. Passes(Script, Script') /\ card'.disk = card.disk /\ CardTypes'
    BY <1>3, <2>1, SilentPasses
  <2>3. Silent(Script')
    BY <2>1, <2>2 DEF Passes, Silent
  <2>4. ReadPlace'
    BY <1>1, <1>3, <1>5, <2>3 DEF ReadPlace
  <2>5. QED BY <2>2, <2>4
<1>6. QED BY <1>2, <1>4, <1>5
LEMMA FinishesPlace ==
  ASSUME CtlInv, Finishes, RoutinePlace, sd.ready, Writing => sd.intra < 23, CardShape(card),
         CardTypes, SameDeal, sd.tx \in Byte, host.call \in Calls, host.sar \in BlockNo,
         Commanding => host.disk = card.disk, ~Idle
  PROVE  /\ RoutinePlace' /\ CardTypes'
         /\ card'.disk = card.disk \/ (Writing /\ sd.intra = 15)
<1>1. sd' = sd
  BY FinishedByte
<1>2. /\ sd.write \in 0 .. 3 /\ sd.read \in 0 .. 4 /\ (sd.write # 0 => sd.read = 0)
      /\ ~(sd.write = 0 /\ sd.read = 0)
  BY DEF CtlInv, SdPlace, Idle
<1>3. Opening \/ Commanding \/ Writing \/ Seeking \/ Reading
  BY <1>2 DEF Opening, Commanding, Writing, Seeking, Reading
<1>4. /\ Opening => ~Commanding /\ ~Writing /\ ~Seeking /\ ~Reading
      /\ Commanding => ~Writing /\ ~Seeking /\ ~Reading
      /\ Writing => ~Seeking /\ ~Reading
      /\ Seeking => ~Reading
  BY <1>2 DEF Opening, Commanding, Writing, Seeking, Reading
<1>5. CASE Opening
  <2>1. OpeningPlace' /\ CardTypes' /\ card'.disk = card.disk
    BY <1>5, OpeningFinishes DEF RoutinePlace
  <2>2. QED BY <1>1, <1>4, <1>5, <2>1, PlacesKept DEF RoutinePlace
<1>6. CASE Commanding
  <2>1. CommandPlace' /\ CardTypes' /\ card'.disk = card.disk
    BY <1>6, CommandFinishes DEF RoutinePlace
  <2>2. QED BY <1>1, <1>4, <1>6, <2>1, PlacesKept DEF RoutinePlace
<1>7. CASE Writing
  <2>1. WritePlace' /\ CardTypes' /\ (card'.disk = card.disk \/ sd.intra = 15)
    BY <1>7, WritingFinishes DEF RoutinePlace
  <2>2. QED BY <1>1, <1>4, <1>7, <2>1, PlacesKept DEF RoutinePlace
<1>8. CASE Seeking
  <2>1. SeekPlace' /\ CardTypes' /\ card'.disk = card.disk
    BY <1>8, SeekingFinishes DEF RoutinePlace
  <2>2. QED BY <1>1, <1>4, <1>8, <2>1, PlacesKept DEF RoutinePlace
<1>9. CASE Reading
  <2>1. ReadPlace' /\ CardTypes' /\ card'.disk = card.disk
    BY <1>9, ReadingFinishes DEF RoutinePlace
  <2>2. QED BY <1>1, <1>4, <1>9, <2>1, PlacesKept DEF RoutinePlace
<1>10. QED BY <1>3, <1>5, <1>6, <1>7, <1>8, <1>9

-----------------------------------------------------------------------------
(* The controller goes on.                                                 *)

\* The rest of CardPlace of a controller that is ready.
RestPlace ==
  /\ sd.ready
  /\ Waiting => card.want = "command" /\ sd.cs_en
  /\ sd.write \in 1 .. 2 \/ sd.read # 0 => card.disk = host.disk
  /\ ~Idle => (sd.cs_en <=> Writing /\ sd.intra >= 23)
LEMMA CardPlaces ==
  /\ CardPlace /\ sd.ready => RoutinePlace /\ RestPlace
  /\ RoutinePlace' /\ RestPlace' => CardPlace'
BY DEF CardPlace, RoutinePlace, RestPlace
LEMMA RoutinesApart ==
  /\ Opening' => ~Commanding' /\ ~Writing' /\ ~Seeking' /\ ~Reading' /\ ~Waiting'
  /\ Commanding' => ~Writing' /\ ~Seeking' /\ ~Reading' /\ ~Waiting'
  /\ Writing' => ~Seeking' /\ ~Reading' /\ ~Waiting'
  /\ Seeking' => ~Reading' /\ ~Waiting'
  /\ Reading' => ~Waiting'
BY DEF Opening, Commanding, Writing, Seeking, Reading, Waiting
LEMMA RoutineStays ==
  ASSUME SameRoutine
  PROVE  /\ (Opening' <=> Opening) /\ (Commanding' <=> Commanding) /\ (Writing' <=> Writing)
         /\ (Seeking' <=> Seeking) /\ (Reading' <=> Reading) /\ (Waiting' <=> Waiting)
         /\ (Idle' <=> Idle)
BY DEF SameRoutine, Opening, Commanding, Writing, Seeking, Reading, Waiting, Idle

\* The controller stays in the routine, with cs as it is.
LEMMA RestStays ==
  ASSUME RestPlace, SameRoutine, SameDeal, card'.disk = card.disk, sd'.cs_en = sd.cs_en, ~Idle,
         Writing => (sd'.intra >= 23 <=> sd.intra >= 23)
  PROVE  RestPlace'
<1>1. ~Waiting' /\ (Writing' <=> Writing) /\ sd'.write = sd.write /\ sd'.read = sd.read /\ sd'.ready
  BY DEF RestPlace, SameRoutine, Waiting, Idle, Writing
<1>2. host'.disk = host.disk
  BY DEF SameDeal
<1>3. QED BY <1>1, <1>2 DEF RestPlace

LEMMA OpeningGoesOn ==
  ASSUME CtlInv, MovesOn, Opening, RoutinePlace, RestPlace, SameDeal,
         sd.write = 1 => FillersRow(NextWrite), sd.write = 0 => FillersRow(NextRead)
  PROVE  RoutinePlace' /\ RestPlace'
<1>1. /\ Script' = Script /\ card'.disk = card.disk /\ Clear(Script)
      /\ sd.intra # 0 => sd.tx = Filler
  BY ScriptKept DEF MovesOn, KeepsScript, RoutinePlace, OpeningPlace
<1>2. ~Idle /\ ~Writing /\ (sd.write = 1 \/ (sd.write = 0 /\ sd.read = 1)) /\ sd.ready
  BY DEF Opening, Idle, Writing
<1>4. ASSUME SameRoutine, sd'.cs_en = sd.cs_en, sd'.tx = Filler
      PROVE  RoutinePlace' /\ RestPlace'
  <2>1. Opening' /\ OpeningPlace'
    BY <1>1, <1>4, RoutineStays DEF OpeningPlace
  <2>2. RestPlace'
    BY <1>1, <1>2, <1>4, RestStays
  <2>3. QED BY <2>1, <2>2, RoutinesApart DEF RoutinePlace
<1>5. CASE /\ sd.intra = 3 /\ done
           /\ (sd.write = 1 /\ sd' = NextWrite) \/ (sd.write = 0 /\ sd' = NextRead)
  <2>0. ~sd.start
    BY <1>2, <1>5 DEF CtlInv, StartFalls, Lowering, InFillers, InCommand, Writing, Seeking, Reading
  <2>1. \/ sd.write = 1 /\ Enters(sd.init, sd.write + 1, sd.read)
        \/ sd.write = 0 /\ Enters(sd.init, sd.write, sd.read + 1)
    BY <1>5, <2>0, NextMoves
  <2>2. /\ sd'.ready = sd.ready /\ sd'.intra = 0 /\ sd'.cs_en = sd.cs_en
        /\ \/ sd'.write = 2 /\ sd.write = 1 /\ sd'.read = sd.read
           \/ sd'.write = 0 /\ sd'.read = 2 /\ sd.write = 0 /\ sd.read = 1
    <3>1. CASE sd.write = 1
      <4>1. Enters(sd.init, sd.write + 1, sd.read)
        BY <2>1, <3>1
      <4>2. sd'.write = 2
        BY <3>1, <4>1 DEF Enters
      <4>3. QED BY <1>5, <3>1, <4>1, <4>2 DEF Enters, SameLines
    <3>2. CASE sd.write = 0
      <4>1. Enters(sd.init, sd.write, sd.read + 1) /\ sd.read = 1
        BY <1>2, <2>1, <3>2
      <4>2. sd'.read = 2
        BY <4>1 DEF Enters
      <4>3. QED BY <1>5, <3>2, <4>1, <4>2 DEF Enters, SameLines
    <3>3. QED BY <1>2, <3>1, <3>2
  <2>3. Commanding' /\ CommandPlace'
    <3>1. Commanding'
      BY <1>2, <2>2 DEF Commanding
    <3>2. CommandPlace'
      BY <1>1, <2>2 DEF CommandPlace
    <3>3. QED BY <3>1, <3>2
  <2>4. RestPlace'
    <3>1. host'.disk = host.disk /\ card.disk = host.disk /\ sd.cs_en = FALSE
      <4>1. ~(Writing /\ sd.intra >= 23) /\ sd.cs_en \in BOOLEAN
        BY <1>2 DEF CtlInv, SdShape
      <4>2. sd.write \in 1 .. 2 \/ sd.read # 0
        BY <1>2
      <4>3. QED BY <1>2, <4>1, <4>2 DEF RestPlace, SameDeal
    <3>2. ~Waiting' /\ ~Writing'
      BY <2>3, RoutinesApart
    <3>3. QED BY <1>1, <1>2, <2>2, <3>1, <3>2 DEF RestPlace
  <2>5. QED BY <2>3, <2>4, RoutinesApart DEF RoutinePlace
<1>6. \/ SameRoutine /\ sd'.cs_en = sd.cs_en /\ sd'.tx = Filler
      \/ /\ sd.intra = 3 /\ done
         /\ (sd.write = 1 /\ sd' = NextWrite) \/ (sd.write = 0 /\ sd' = NextRead)
  <2>1. ASSUME NEW x, FillersRow(x)
        PROVE  \/ SameRoutine /\ sd'.cs_en = sd.cs_en /\ sd'.tx = Filler
               \/ sd.intra = 3 /\ done /\ sd' = x
    BY <1>1, <2>1 DEF FillersRow, Plain, Sets, SameLines, SameRoutine
  <2>2. CASE sd.write = 1
    <3>1. FillersRow(NextWrite)
      BY <2>2
    <3>2. QED BY <2>1, <2>2, <3>1
  <2>3. CASE sd.write = 0
    <3>1. FillersRow(NextRead)
      BY <2>3
    <3>2. QED BY <2>1, <2>3, <3>1
  <2>4. QED BY <1>2, <2>2, <2>3
<1>7. QED BY <1>4, <1>5, <1>6

LEMMA CommandGoesOn ==
  ASSUME CtlInv, MovesOn, Commanding, RoutinePlace, RestPlace, SameDeal, host.call \in Calls,
         sd.write = 2 => host.call = "write"
           /\ CommandRow(CMD_24(host.sar), IF spi.rx = 0 THEN NextWrite ELSE AskAgain),
         sd.write = 0 => host.call = "read"
           /\ CommandRow(CMD_17(host.sar), IF spi.rx = 0 THEN NextRead ELSE AskAgain)
  PROVE  RoutinePlace' /\ RestPlace'
<1> DEFINE frame == Frame(host.call, host.sar)
<1> DEFINE next == IF sd.write = 2 THEN NextWrite ELSE NextRead
<1>1. /\ Script' = Script /\ card'.disk = card.disk /\ Deal' = Deal /\ ~Over'
      /\ host'.call = host.call /\ host'.sar = host.sar /\ host'.disk = host.disk
      /\ CommandPlace
  BY ScriptKept, DealKept DEF MovesOn, KeepsScript, RoutinePlace, SameDeal
<1>2. ~Idle /\ ~Writing /\ (sd.write = 2 \/ (sd.write = 0 /\ sd.read = 2)) /\ sd.ready
  BY DEF Commanding, Idle, Writing
<1>3. CommandRow(frame, IF spi.rx = 0 THEN next ELSE AskAgain)
  <2>1. CASE sd.write = 2
    BY <2>1 DEF Frame
  <2>2. CASE sd.write = 0
    BY <2>2 DEF Frame
  <2>3. QED BY <1>2, <2>1, <2>2
<1>4. sd.intra \in 0 .. 8
  BY DEF CtlInv, SdPlace, Commanding, InCommand
<1>5. IF sd.intra \in {4, 8} THEN spi.state = 3 /\ Over /\ done /\ Told = spi.rx ELSE ~Over
  <2>1. Awaiting <=> sd.intra \in {4, 8}
    BY <1>4 DEF Commanding, Awaiting, InFillers, InCommand, Writing, Seeking, Reading
  <2>2. QED BY <2>1 DEF MovesOn, done, Over, Told
<1>6. host.disk = card.disk /\ sd.cs_en = FALSE
  <2>1. sd.cs_en \in BOOLEAN
    BY DEF CtlInv, SdShape
  <2>2. sd.write \in 1 .. 2 \/ sd.read # 0
    BY <1>2
  <2>3. QED BY <1>2, <2>1, <2>2 DEF RestPlace
<1> HIDE DEF frame, next
<1>7. ASSUME SameRoutine, sd'.cs_en = sd.cs_en, CommandPlace'
      PROVE  RoutinePlace' /\ RestPlace'
  <2>1. Commanding'
    BY <1>7, RoutineStays
  <2>2. RestPlace'
    BY <1>1, <1>2, <1>7, RestStays
  <2>3. QED BY <1>7, <2>1, <2>2, RoutinesApart DEF RoutinePlace
<1>8. CASE sd.intra = 0
  <2>1. /\ SameRoutine /\ sd'.cs_en = sd.cs_en /\ sd'.n = 0 /\ sd'.cmd = frame /\ sd'.intra = 1
    BY <1>3, <1>8 DEF CommandRow, SameLines
  <2>2. Listening(Script', frame, 0)
    BY <1>1, <1>8 DEF CommandPlace, Clear, Silent, Listening
  <2>3. CommandPlace'
    BY <1>1, <2>1, <2>2 DEF CommandPlace, frame
  <2>4. QED BY <1>7, <2>1, <2>3
<1>9. CASE sd.intra \in 1 .. 3
  <2>0. CASE sd.intra = 1
    <3>1. /\ SameRoutine /\ SameFrame /\ sd'.intra = 2 /\ sd'.tx = sd.cmd[sd.n + 1]
          /\ sd'.cs_en = sd.cs_en
      BY <1>3, <2>0 DEF CommandRow, Plain, Sets, SameLines
    <3>2. CommandPlace'
      BY <1>1, <1>5, <2>0, <3>1 DEF CommandPlace, SameFrame
    <3>3. QED BY <1>7, <3>1, <3>2
  <2>1. CASE sd.intra \in 2 .. 3
    <3>1. /\ SameRoutine /\ SameFrame /\ sd'.intra = sd.intra + 1 /\ sd'.tx = sd.tx
          /\ sd'.cs_en = sd.cs_en
      <4>1. CASE sd.intra = 2
        BY <1>3, <4>1 DEF CommandRow, Plain, Sets, SameLines
      <4>2. CASE sd.intra = 3
        BY <1>3, <4>2 DEF CommandRow, Plain, Sets, SameLines
      <4>3. QED BY <2>1, <4>1, <4>2
    <3>2. CommandPlace'
      BY <1>1, <1>5, <2>1, <3>1 DEF CommandPlace, SameFrame
    <3>3. QED BY <1>7, <3>1, <3>2
  <2>2. QED BY <1>9, <2>0, <2>1
<1>10. CASE sd.intra = 4 /\ sd.n = 5
  <2>1. Grants(host.call, Script, Deal)
    BY <1>1, <1>5, <1>10 DEF CommandPlace
  <2>2. SameRoutine /\ sd'.intra = 5 /\ sd'.cs_en = sd.cs_en
    BY <1>3, <1>5, <1>10 DEF CommandRow, Plain, Sets, SameLines
  <2>3. CommandPlace'
    BY <1>1, <2>1, <2>2 DEF CommandPlace
  <2>4. QED BY <1>7, <2>2, <2>3
<1>11. CASE sd.intra = 4 /\ sd.n # 5
  <2>1. Listening(Script, frame, sd.n + 1) /\ sd.n \in 0 .. 5 /\ sd.cmd = frame
    BY <1>1, <1>5, <1>11 DEF CommandPlace, frame
  <2>2. /\ SameRoutine /\ sd'.cs_en = sd.cs_en /\ sd'.n = sd.n + 1 /\ sd'.cmd = sd.cmd
        /\ sd'.intra = 1
    BY <1>3, <1>5, <1>11 DEF CommandRow, SameLines, Plain, Sets
  <2>3. sd'.n \in 0 .. 5
    BY <1>11, <2>1, <2>2
  <2>4. CommandPlace'
    BY <1>1, <2>1, <2>2, <2>3 DEF CommandPlace, frame
  <2>5. QED BY <1>7, <2>2, <2>4
<1>12. CASE sd.intra \in 5 .. 7
  <2>1. Grants(host.call, Script, Deal) /\ (sd.intra # 5 => sd.tx = Filler)
    BY <1>1, <1>5, <1>12 DEF CommandPlace
  <2>2. SameRoutine /\ sd'.intra = sd.intra + 1 /\ sd'.tx = Filler /\ sd'.cs_en = sd.cs_en
    <3>1. CASE sd.intra = 5
      BY <1>3, <2>1, <3>1 DEF CommandRow, Plain, Sets, SameLines
    <3>2. CASE sd.intra = 6
      BY <1>3, <2>1, <3>2 DEF CommandRow, Plain, Sets, SameLines
    <3>3. CASE sd.intra = 7
      BY <1>3, <2>1, <3>3 DEF CommandRow, Plain, Sets, SameLines
    <3>4. QED BY <1>12, <3>1, <3>2, <3>3
  <2>3. CommandPlace'
    BY <1>1, <1>12, <2>1, <2>2 DEF CommandPlace
  <2>4. QED BY <1>7, <2>2, <2>3
<1>13. CASE sd.intra = 8 /\ spi.rx # 0
  <2>1. Grants(host.call, Script, Deal) /\ sd.tx = Filler
    BY <1>1, <1>5, <1>13 DEF CommandPlace
  <2>2. sd' = AskAgain
    BY <1>3, <1>5, <1>13 DEF CommandRow
  <2>3. ~sd.start
    BY <1>13 DEF CtlInv, StartFalls, Lowering, InFillers, InCommand, Writing, Seeking, Reading,
       Commanding
  <2>4. PICK cnt : Plain(6, sd.tx, cnt, FALSE)
    BY <2>2, <2>3, AskMoves
  <2>5. CommandPlace' /\ SameRoutine /\ sd'.cs_en = sd.cs_en
    BY <1>1, <2>1, <2>4 DEF CommandPlace, Plain, Sets, SameLines
  <2>6. QED BY <1>7, <2>5
<1>14. CASE sd.intra = 8 /\ spi.rx = 0
  <2>1. Granted(host.call, Script, Deal)
    BY <1>1, <1>5, <1>14 DEF CommandPlace
  <2>2. sd' = next
    BY <1>3, <1>5, <1>14 DEF CommandRow
  <2>3. ~sd.start
    BY <1>14 DEF CtlInv, StartFalls, Lowering, InFillers, InCommand, Writing, Seeking, Reading,
       Commanding
  <2>4. CASE sd.write = 2
    <3>1. Enters(sd.init, sd.write + 1, sd.read)
      BY <2>2, <2>3, <2>4, NextMoves DEF next
    <3>2. sd'.write = 3
      BY <2>4, <3>1 DEF Enters
    <3>3. sd'.ready = sd.ready /\ sd'.intra = 0 /\ sd'.cs_en = sd.cs_en /\ sd'.read = sd.read
      BY <3>1 DEF Enters, SameLines
    <3>4. Writing'
      BY <1>2, <3>2, <3>3 DEF Writing
    <3>5. WritePlace'
      BY <1>1, <1>6, <2>1, <2>4, <3>3 DEF WritePlace, Granted
    <3>6. RestPlace'
      BY <1>1, <1>2, <1>6, <3>2, <3>3, <3>4, RoutinesApart DEF RestPlace
    <3>7. QED BY <3>4, <3>5, <3>6, RoutinesApart DEF RoutinePlace
  <2>5. CASE sd.write = 0
    <3>1. Enters(sd.init, sd.write, sd.read + 1) /\ sd.read = 2
      BY <1>2, <2>2, <2>3, <2>5, NextMoves DEF next
    <3>2. sd'.read = 3
      BY <3>1 DEF Enters
    <3>3. sd'.ready = sd.ready /\ sd'.intra = 0 /\ sd'.cs_en = sd.cs_en /\ sd'.write = sd.write
      BY <3>1 DEF Enters, SameLines
    <3>4. Seeking'
      BY <1>2, <2>5, <3>2, <3>3 DEF Seeking
    <3>5. SeekPlace'
      BY <1>1, <2>1, <2>5, <3>3 DEF SeekPlace, Granted
    <3>6. RestPlace'
      BY <1>1, <1>2, <1>6, <3>2, <3>3, <3>4, RoutinesApart DEF RestPlace
    <3>7. QED BY <3>4, <3>5, <3>6, RoutinesApart DEF RoutinePlace
  <2>6. QED BY <1>2, <2>4, <2>5
<1>15. QED BY <1>4, <1>8, <1>9, <1>10, <1>11, <1>12, <1>13, <1>14

LEMMA WritingGoesOn ==
  ASSUME CtlInv, MovesOn, Writing, RoutinePlace, RestPlace, SameDeal, ~sd.cs_en, NEW byte,
         WriteRow(byte), sd.intra = 6 => byte = Sent(Deal, sd.cnt + 1),
         spi.state = 3 => spi'.state = 0
  PROVE  RoutinePlace' /\ RestPlace'
<1>1. /\ Script' = Script /\ card'.disk = card.disk /\ card'.out = card.out /\ Deal' = Deal
      /\ ~Over' /\ host'.disk = host.disk /\ WritePlace /\ BlockLen \in Nat \ {0}
  BY ScriptKept, DealKept, SdAssumption DEF MovesOn, KeepsScript, RoutinePlace, SameDeal
<1>2. sd.intra \in 0 .. 22 /\ ~Idle /\ sd.ready /\ sd.write = 3
  <2>1. ~Idle /\ sd.ready /\ sd.write = 3 /\ sd.intra \in 0 .. 26
    BY DEF Writing, Idle, CtlInv, SdPlace
  <2>2. ~(sd.intra >= 23)
    BY <2>1 DEF RestPlace
  <2>3. QED BY <2>1, <2>2
<1>3. IF sd.intra \in {3, 9, 13, 15, 17, 21} \/ (sd.intra = 6 /\ sd.cnt = 0)
      THEN spi.state = 3 /\ Over /\ done /\ Told = spi.rx /\ ~Hung
      ELSE ~Over
  <2>1. Awaiting <=> sd.intra \in {3, 9, 13, 15, 17, 21} \/ (sd.intra = 6 /\ sd.cnt = 0)
    BY <1>2 DEF Writing, Awaiting, InFillers, InCommand, Seeking, Reading
  <2>2. QED BY <2>1 DEF MovesOn, done, Over, Told, Hung
<1>4. ASSUME SameRoutine, sd'.cs_en = sd.cs_en, sd'.intra \in 0 .. 22, WritePlace'
      PROVE  RoutinePlace' /\ RestPlace'
  <2>1. Writing' /\ (sd'.intra >= 23 <=> sd.intra >= 23)
    BY <1>2, <1>4, RoutineStays
  <2>2. RestPlace'
    BY <1>1, <1>2, <1>4, <2>1, RestStays
  <2>3. QED BY <1>4, <2>1, <2>2, RoutinesApart DEF RoutinePlace
<1>5. CASE sd.intra \in 0 .. 5
  <2>1. TokenReady(Script, Deal) /\ card.disk = host.disk
    BY <1>1, <1>3, <1>5 DEF WritePlace
  <2>2. /\ SameRoutine /\ sd'.intra = sd.intra + 1 /\ sd'.cs_en = sd.cs_en
        /\ sd'.tx = IF sd.intra = 0 THEN Filler ELSE IF sd.intra = 3 THEN StartToken ELSE sd.tx
        /\ sd.intra = 5 => sd'.cnt = 0
    <3>1. CASE sd.intra \in 0 .. 2
      BY <1>3, <3>1 DEF WriteRow, Plain, Sets, SameLines
    <3>2. CASE sd.intra \in 3 .. 5
      BY <1>3, <3>2 DEF WriteRow, Plain, Sets, SameLines
    <3>3. QED BY <1>5, <3>1, <3>2
  <2>3. WritePlace'
    <3>1. /\ sd'.intra \in 1 .. 3 => sd'.tx = Filler
          /\ sd'.intra \in 4 .. 6 => sd'.tx = StartToken
      BY <1>1, <1>5, <2>2 DEF WritePlace
    <3>2. 0 \in 0 .. BlockLen - 1
      BY <1>1
    <3>3. QED BY <1>1, <1>5, <2>1, <2>2, <3>1, <3>2 DEF WritePlace
  <2>4. sd'.intra \in 0 .. 22
    BY <1>5, <2>2
  <2>5. QED BY <1>4, <2>2, <2>3, <2>4
<1>6. CASE sd.intra = 6
  <2>1. DataHeard(Script, Deal, sd.cnt) /\ card.disk = host.disk /\ sd.cnt \in 0 .. BlockLen - 1
    BY <1>1, <1>3, <1>6 DEF WritePlace
  <2>2. ByteGone
    BY <1>1, <1>3, <1>6, <2>1 DEF ByteGone
  <2>3. /\ SameRoutine /\ sd'.intra = 7 /\ sd'.cs_en = sd.cs_en
        /\ sd'.tx = Sent(Deal, sd.cnt + 1) /\ sd'.cnt = sd.cnt
    BY <1>6, <2>2 DEF WriteRow, Plain, Sets, SameLines
  <2>4. WritePlace'
    BY <1>1, <2>1, <2>3 DEF WritePlace
  <2>5. QED BY <1>4, <2>3, <2>4
<1>7. CASE sd.intra \in 7 .. 8
  <2>1. /\ DataHeard(Script, Deal, sd.cnt) /\ card.disk = host.disk /\ sd.cnt \in 0 .. BlockLen - 1
        /\ sd.tx = Sent(Deal, sd.cnt + 1)
    BY <1>1, <1>3, <1>7 DEF WritePlace
  <2>2. /\ SameRoutine /\ sd'.intra = sd.intra + 1 /\ sd'.cs_en = sd.cs_en
        /\ sd'.tx = sd.tx /\ sd'.cnt = sd.cnt
    <3>1. CASE sd.intra = 7
      BY <3>1 DEF WriteRow, Plain, Sets
    <3>2. CASE sd.intra = 8
      BY <3>2 DEF WriteRow, Plain, Sets
    <3>3. QED BY <1>7, <3>1, <3>2
  <2>3. WritePlace'
    BY <1>1, <1>7, <2>1, <2>2 DEF WritePlace
  <2>4. sd'.intra \in 0 .. 22
    BY <1>7, <2>2
  <2>5. QED BY <1>4, <2>2, <2>3, <2>4
<1>8. CASE sd.intra = 9
  <2>1. /\ DataHeard(Script, Deal, sd.cnt + 1) /\ card.disk = host.disk
        /\ sd.cnt \in 0 .. BlockLen - 1
    BY <1>1, <1>3, <1>8 DEF WritePlace
  <2>2. /\ SameRoutine /\ sd'.cs_en = sd.cs_en
        /\ IF More THEN sd'.intra = 6 /\ sd'.cnt = sd.cnt + 1 ELSE sd'.intra = 10
    BY <1>3, <1>8 DEF WriteRow, Plain, Sets, SameLines
  <2>3. WritePlace'
    <3>1. CASE More
      <4>1. sd.cnt + 1 \in 0 .. BlockLen - 1 /\ sd.cnt + 1 > 0
        BY <1>1, <2>1, <3>1 DEF More
      <4>2. QED BY <1>1, <2>1, <2>2, <3>1, <4>1 DEF WritePlace
    <3>2. CASE ~More
      <4>1. sd.cnt + 1 = BlockLen
        BY <1>1, <2>1, <3>2 DEF More
      <4>2. QED BY <1>1, <2>1, <2>2, <3>2, <4>1 DEF WritePlace
    <3>3. QED BY <3>1, <3>2
  <2>4. sd'.intra \in 0 .. 22
    BY <2>2
  <2>5. QED BY <1>4, <2>2, <2>3, <2>4
<1>9. CASE sd.intra \in 10 .. 13
  <2>1. /\ DataHeard(Script, Deal, IF sd.intra = 13 THEN BlockLen + 1 ELSE BlockLen)
        /\ card.disk = host.disk /\ (sd.intra # 10 => sd.tx = Filler)
    BY <1>1, <1>3, <1>9 DEF WritePlace
  <2>2. SameRoutine /\ sd'.intra = sd.intra + 1 /\ sd'.cs_en = sd.cs_en /\ sd'.tx = Filler
    <3>1. CASE sd.intra = 10
      BY <2>1, <3>1 DEF WriteRow, Plain, Sets, SameLines
    <3>2. CASE sd.intra = 11
      BY <2>1, <3>2 DEF WriteRow, Plain, Sets, SameLines
    <3>3. CASE sd.intra = 12
      BY <2>1, <3>3 DEF WriteRow, Plain, Sets, SameLines
    <3>4. CASE sd.intra = 13
      BY <1>3, <2>1, <3>4 DEF WriteRow, Plain, Sets, SameLines
    <3>5. QED BY <1>9, <3>1, <3>2, <3>3, <3>4
  <2>3. WritePlace'
    BY <1>1, <1>9, <2>1, <2>2 DEF WritePlace
  <2>4. sd'.intra \in 0 .. 22
    BY <1>9, <2>2
  <2>5. QED BY <1>4, <2>2, <2>3, <2>4
<1>10. CASE sd.intra = 14
  <2>1. DataHeard(Script, Deal, BlockLen + 1) /\ card.disk = host.disk /\ sd.tx = Filler
    BY <1>1, <1>3, <1>10 DEF WritePlace
  <2>2. SameRoutine /\ sd'.intra = 15 /\ sd'.cs_en = sd.cs_en /\ sd'.tx = sd.tx
    BY <1>10 DEF WriteRow, Plain, Sets, SameLines
  <2>3. WritePlace'
    BY <1>1, <2>1, <2>2 DEF WritePlace
  <2>4. QED BY <1>4, <2>2, <2>3
<1>11. CASE sd.intra \in 15 .. 16
  <2>1. Judged(Script, Deal, card.out) /\ sd.tx = Filler
    BY <1>1, <1>3, <1>11 DEF WritePlace, Hung
  <2>2. SameRoutine /\ sd'.intra = sd.intra + 1 /\ sd'.cs_en = sd.cs_en /\ sd'.tx = sd.tx
    <3>1. CASE sd.intra = 15
      BY <1>3, <3>1 DEF WriteRow, Plain, Sets, SameLines
    <3>2. CASE sd.intra = 16
      BY <3>2 DEF WriteRow, Plain, Sets, SameLines
    <3>3. QED BY <1>11, <3>1, <3>2
  <2>3. WritePlace'
    BY <1>1, <1>11, <2>1, <2>2 DEF WritePlace
  <2>4. sd'.intra \in 0 .. 22
    BY <1>11, <2>2
  <2>5. QED BY <1>4, <2>2, <2>3, <2>4
<1>12. CASE sd.intra = 17
  <2>1. Judged(Script, Deal, spi.rx) /\ sd.tx = Filler
    BY <1>1, <1>3, <1>12 DEF WritePlace
  <2>2. CASE Accepted(spi.rx)
    <3>1. Silent(Script) /\ Stored(Script, Deal)
      BY <2>1, <2>2 DEF Judged, Accepted
    <3>2. SameRoutine /\ sd'.intra = 18 /\ sd'.cs_en = sd.cs_en /\ sd'.tx = sd.tx
      BY <1>3, <1>12, <2>2 DEF WriteRow, Plain, Sets, SameLines
    <3>3. WritePlace'
      BY <1>1, <2>1, <3>1, <3>2 DEF WritePlace
    <3>4. QED BY <1>4, <3>2, <3>3
  <2>3. CASE ~Accepted(spi.rx)
    <3>1. sd' = sd
      BY <1>3, <1>12, <2>3 DEF WriteRow, Plain, Sets
    <3>2. Hung'
      BY <1>3, <1>12, <3>1 DEF Hung, Writing
    <3>3. WritePlace' /\ SameRoutine
      BY <1>1, <1>12, <2>1, <3>1, <3>2 DEF WritePlace, SameRoutine
    <3>4. QED BY <1>4, <1>12, <3>1, <3>3
  <2>4. QED BY <2>2, <2>3
<1>13. CASE sd.intra \in 18 .. 21
  <2>1. /\ Silent(Script) /\ Stored(Script, Deal) /\ (sd.intra # 18 => sd.tx = Filler)
    BY <1>1, <1>13 DEF WritePlace
  <2>2. SameRoutine /\ sd'.intra \in 19 .. 22 /\ sd'.cs_en = sd.cs_en /\ sd'.tx = Filler
    <3>1. CASE sd.intra = 18
      BY <2>1, <3>1 DEF WriteRow, Plain, Sets, SameLines
    <3>2. CASE sd.intra = 19
      BY <2>1, <3>2 DEF WriteRow, Plain, Sets, SameLines
    <3>3. CASE sd.intra = 20
      BY <2>1, <3>3 DEF WriteRow, Plain, Sets, SameLines
    <3>4. CASE sd.intra = 21
      BY <1>3, <2>1, <3>4 DEF WriteRow, Plain, Sets, SameLines
    <3>5. QED BY <1>13, <3>1, <3>2, <3>3, <3>4
  <2>3. WritePlace'
    BY <1>1, <2>1, <2>2 DEF WritePlace
  <2>4. QED BY <1>4, <2>2, <2>3
<1>14. CASE sd.intra = 22
  <2>1. Silent(Script) /\ Stored(Script, Deal)
    BY <1>1, <1>14 DEF WritePlace
  <2>2. SameRoutine /\ sd'.intra = 23 /\ sd'.cs_en = TRUE /\ sd'.tx = Filler
    BY <1>14 DEF WriteRow, Plain, Sets, SameLines
  <2>3. WritePlace'
    BY <1>1, <2>1, <2>2 DEF WritePlace
  <2>4. Writing' /\ sd'.read = sd.read /\ sd'.write = 3 /\ sd'.ready
    BY <1>2, <2>2, RoutineStays DEF SameRoutine
  <2>5. RestPlace'
    BY <1>1, <2>2, <2>4, RoutinesApart DEF RestPlace
  <2>6. QED BY <2>3, <2>4, <2>5, RoutinesApart DEF RoutinePlace
<1>15. QED BY <1>2, <1>5, <1>6, <1>7, <1>8, <1>9, <1>10, <1>11, <1>12, <1>13, <1>14

\* The card is left alone after a block it has stored.
LEMMA WritingEnds ==
  ASSUME CtlInv, Clears, Writing, sd.intra >= 23, RoutinePlace, RestPlace, SameDeal, NEW byte,
         WriteRow(byte)
  PROVE  RoutinePlace' /\ RestPlace'
<1>1. WritePlace /\ Deal' = Deal /\ host'.disk = host.disk
  BY DealKept DEF RoutinePlace, SameDeal
<1>2. sd.intra \in 23 .. 26 /\ sd.ready /\ sd.write = 3 /\ sd.read = 0 /\ ~Idle
  BY DEF Writing, CtlInv, SdPlace, Idle
<1>3. Silent(Script) /\ Stored(Script, Deal) /\ sd.tx = Filler /\ sd.cs_en = TRUE
  BY <1>1, <1>2 DEF WritePlace, RestPlace, CtlInv, SdShape
<1>4. Silent(Script') /\ Stored(Script', Deal') /\ card'.want = "command"
  BY <1>1, <1>3 DEF Clears, Silent, Stored, Script
<1>5. ASSUME SameRoutine, sd'.intra \in 23 .. 26, sd'.tx = sd.tx, sd'.cs_en = sd.cs_en
      PROVE  RoutinePlace' /\ RestPlace'
  <2>1. Writing' /\ sd'.read = 0 /\ sd'.write = 3 /\ sd'.ready
    BY <1>2, <1>5, RoutineStays DEF SameRoutine
  <2>2. WritePlace'
    BY <1>3, <1>4, <1>5 DEF WritePlace
  <2>3. RestPlace'
    BY <1>3, <1>5, <2>1, RoutinesApart DEF RestPlace
  <2>4. QED BY <2>1, <2>2, <2>3, RoutinesApart DEF RoutinePlace
<1>6. CASE sd.intra = 23
  <2>1. SameRoutine /\ sd'.intra = 24 /\ sd'.tx = sd.tx /\ sd'.cs_en = sd.cs_en
    BY <1>6 DEF WriteRow, Plain, Sets, SameLines
  <2>2. QED BY <1>5, <2>1
<1>7. CASE sd.intra = 24
  <2>1. SameRoutine /\ sd'.intra = 25 /\ sd'.tx = sd.tx /\ sd'.cs_en = sd.cs_en
    BY <1>7 DEF WriteRow, Plain, Sets, SameLines
  <2>2. QED BY <1>5, <2>1
<1>8. CASE sd.intra = 25
  <2>1. SameRoutine /\ sd'.intra \in 25 .. 26 /\ sd'.tx = sd.tx /\ sd'.cs_en = sd.cs_en
    BY <1>8 DEF WriteRow, Plain, Sets, SameLines, SameRoutine
  <2>2. QED BY <1>5, <2>1
<1>9. CASE sd.intra = 26
  <2>0. /\ sd'.ready = sd.ready /\ sd'.write = 0 /\ sd'.read = sd.read
        /\ sd'.cs_en = sd.cs_en
    BY <1>9 DEF WriteRow, Plain, Sets
  <2>1. sd'.ready = sd.ready /\ sd'.write = 0 /\ sd'.read = 0 /\ sd'.cs_en = TRUE
    BY <1>2, <1>3, <2>0
  <2>2. Waiting' /\ Idle'
    BY <1>2, <2>1 DEF Waiting, Idle
  <2>3. RestPlace'
    BY <1>2, <1>4, <2>1, <2>2 DEF RestPlace
  <2>4. QED BY <2>2, <2>3, RoutinesApart DEF RoutinePlace
<1>10. QED BY <1>2, <1>6, <1>7, <1>8, <1>9

LEMMA SeekingGoesOn ==
  ASSUME CtlInv, MovesOn, Seeking, RoutinePlace, RestPlace, SameDeal, SeekRow
  PROVE  RoutinePlace' /\ RestPlace'
<1>1. /\ Script' = Script /\ card'.disk = card.disk /\ Deal' = Deal /\ ~Over'
      /\ host'.disk = host.disk /\ SeekPlace
  BY ScriptKept, DealKept DEF MovesOn, KeepsScript, RoutinePlace, SameDeal
<1>2. sd.intra \in 0 .. 3 /\ sd.ready /\ sd.write = 0 /\ sd.read = 3 /\ ~Idle /\ ~Writing
  BY DEF Seeking, CtlInv, SdPlace, Idle, Writing
<1>3. IF sd.intra = 3 THEN spi.state = 3 /\ Over /\ done /\ Told = spi.rx ELSE ~Over
  <2>1. Awaiting <=> sd.intra = 3
    BY <1>2 DEF Seeking, Awaiting, InFillers, InCommand, Writing, Reading
  <2>2. QED BY <2>1 DEF MovesOn, done, Over, Told
<1>4. ASSUME SameRoutine, sd'.intra \in 1 .. 3, sd'.tx = Filler, sd'.cs_en = sd.cs_en,
             TokenComing(Script, Deal)
      PROVE  RoutinePlace' /\ RestPlace'
  <2>1. Seeking'
    BY <1>4, RoutineStays
  <2>2. SeekPlace'
    BY <1>1, <1>4 DEF SeekPlace
  <2>3. RestPlace'
    BY <1>1, <1>2, <1>4, RestStays
  <2>4. QED BY <2>1, <2>2, <2>3, RoutinesApart DEF RoutinePlace
<1>5. CASE sd.intra \in 0 .. 2
  <2>1. TokenComing(Script, Deal) /\ (sd.intra # 0 => sd.tx = Filler)
    BY <1>1, <1>3, <1>5 DEF SeekPlace
  <2>2. SameRoutine /\ sd'.intra \in 1 .. 3 /\ sd'.tx = Filler /\ sd'.cs_en = sd.cs_en
    BY <1>5, <2>1 DEF SeekRow, Plain, Sets, SameLines
  <2>3. QED BY <1>4, <2>1, <2>2
<1>6. CASE sd.intra = 3 /\ spi.rx # StartToken
  <2>1. TokenComing(Script, Deal) /\ sd.tx = Filler
    BY <1>1, <1>3, <1>6 DEF SeekPlace
  <2>2. SameRoutine /\ sd'.intra = 1 /\ sd'.tx = Filler /\ sd'.cs_en = sd.cs_en
    BY <1>3, <1>6, <2>1 DEF SeekRow, Plain, Sets, SameLines
  <2>3. QED BY <1>4, <2>1, <2>2
<1>7. CASE sd.intra = 3 /\ spi.rx = StartToken
  <2>1. DataComing(Script, Deal, 0)
    BY <1>1, <1>3, <1>7 DEF SeekPlace
  <2>2. sd' = NextRead
    BY <1>3, <1>7 DEF SeekRow, Plain, Sets
  <2>3. ~sd.start
    BY <1>7 DEF CtlInv, StartFalls, Lowering, InFillers, InCommand, Writing, Seeking, Reading
  <2>4. Enters(sd.init, sd.write, sd.read + 1)
    BY <2>2, <2>3, NextMoves
  <2>5. sd'.read = 4
    BY <1>2, <2>4 DEF Enters
  <2>6. sd'.ready = sd.ready /\ sd'.write = 0 /\ sd'.intra = 0 /\ sd'.cs_en = sd.cs_en
    BY <1>2, <2>4 DEF Enters, SameLines
  <2>7. Reading'
    BY <1>2, <2>5, <2>6 DEF Reading
  <2>8. ReadPlace'
    BY <1>1, <2>1, <2>6 DEF ReadPlace
  <2>9. RestPlace'
    <3>1. card.disk = host.disk /\ (sd.cs_en <=> FALSE)
      BY <1>2 DEF RestPlace
    <3>2. QED BY <1>1, <1>2, <2>6, <2>7, <3>1, RoutinesApart DEF RestPlace
  <2>10. QED BY <2>7, <2>8, <2>9, RoutinesApart DEF RoutinePlace
<1>8. QED BY <1>2, <1>5, <1>6, <1>7

LEMMA ReadingGoesOn ==
  ASSUME CtlInv, MovesOn, Reading, RoutinePlace, RestPlace, SameDeal, ReadRow
  PROVE  RoutinePlace' /\ RestPlace'
<1>1. /\ Script' = Script /\ card'.disk = card.disk /\ card'.want = card.want /\ Deal' = Deal
      /\ ~Over' /\ host'.disk = host.disk /\ ReadPlace /\ BlockLen \in Nat \ {0}
  BY ScriptKept, DealKept, SdAssumption DEF MovesOn, KeepsScript, RoutinePlace, SameDeal
<1>2. sd.intra \in 0 .. 12 /\ sd.ready /\ sd.write = 0 /\ sd.read = 4 /\ ~Idle /\ ~Writing
  BY DEF Reading, CtlInv, SdPlace, Idle, Writing
<1>3. IF sd.intra \in {3, 8, 10, 12}
      THEN spi.state = 3 /\ Over /\ done /\ Told = spi.rx ELSE ~Over
  <2>1. Awaiting <=> sd.intra \in {3, 8, 10, 12}
    BY <1>2 DEF Reading, Awaiting, InFillers, InCommand, Writing, Seeking
  <2>2. QED BY <2>1 DEF MovesOn, done, Over, Told
<1>4. ASSUME SameRoutine, sd'.cs_en = sd.cs_en, ReadPlace'
      PROVE  RoutinePlace' /\ RestPlace'
  <2>1. Reading'
    BY <1>4, RoutineStays
  <2>2. RestPlace'
    BY <1>1, <1>2, <1>4, RestStays
  <2>3. QED BY <1>4, <2>1, <2>2, RoutinesApart DEF RoutinePlace
<1>5. CASE sd.intra = 0
  <2>1. /\ SameRoutine /\ sd'.intra = 1 /\ sd'.tx = Filler /\ sd'.cnt = 0 /\ sd'.cs_en = sd.cs_en
    BY <1>5 DEF ReadRow, Plain, Sets, SameLines
  <2>2. DataComing(Script, Deal, 0) /\ 0 \in 0 .. BlockLen - 1
    BY <1>1, <1>5 DEF ReadPlace
  <2>3. ReadPlace'
    BY <1>1, <2>1, <2>2 DEF ReadPlace
  <2>4. QED BY <1>4, <2>1, <2>3
<1>6. CASE sd.intra \in 1 .. 2
  <2>1. DataComing(Script, Deal, sd.cnt) /\ sd.cnt \in 0 .. BlockLen - 1 /\ sd.tx = Filler
    BY <1>1, <1>3, <1>6 DEF ReadPlace
  <2>2. /\ SameRoutine /\ sd'.intra = sd.intra + 1 /\ sd'.tx = Filler /\ sd'.cnt = sd.cnt
        /\ sd'.cs_en = sd.cs_en
    <3>1. CASE sd.intra = 1
      BY <2>1, <3>1 DEF ReadRow, Plain, Sets, SameLines
    <3>2. CASE sd.intra = 2
      BY <2>1, <3>2 DEF ReadRow, Plain, Sets, SameLines
    <3>3. QED BY <1>6, <3>1, <3>2
  <2>3. ReadPlace'
    BY <1>1, <1>6, <2>1, <2>2 DEF ReadPlace
  <2>4. QED BY <1>4, <2>2, <2>3
<1>7. CASE sd.intra = 3
  <2>1. /\ DataComing(Script, Deal, sd.cnt + 1) /\ spi.rx = Wanted(Deal, sd.cnt + 1)
        /\ sd.cnt \in 0 .. BlockLen - 1 /\ sd.tx = Filler
    BY <1>1, <1>3, <1>7 DEF ReadPlace
  <2>2. /\ SameRoutine /\ sd'.intra = 4 /\ sd'.tx = Filler /\ sd'.cnt = sd.cnt
        /\ sd'.cs_en = sd.cs_en /\ sd'.SDC_DEV = spi.rx
    BY <1>3, <1>7, <2>1 DEF ReadRow, Plain, Sets, SameLines
  <2>3. ReadPlace'
    BY <1>1, <2>1, <2>2 DEF ReadPlace
  <2>4. QED BY <1>4, <2>2, <2>3
<1>8. CASE sd.intra = 4
  <2>1. DataComing(Script, Deal, sd.cnt + 1) /\ sd.cnt \in 0 .. BlockLen - 1 /\ sd.tx = Filler
    BY <1>1, <1>8 DEF ReadPlace
  <2>2. /\ SameRoutine /\ sd'.tx = Filler /\ sd'.cs_en = sd.cs_en
        /\ IF More THEN sd'.intra = 1 /\ sd'.cnt = sd.cnt + 1 ELSE sd'.intra = 5
    BY <1>8, <2>1 DEF ReadRow, Plain, Sets, SameLines
  <2>3. More => sd.cnt + 1 \in 0 .. BlockLen - 1
    BY <1>1, <2>1 DEF More
  <2>4. ReadPlace'
    <3>1. CASE More
      BY <1>1, <2>1, <2>2, <2>3, <3>1 DEF ReadPlace
    <3>2. CASE ~More
      BY <1>1, <2>1, <2>2, <3>2 DEF ReadPlace, DataComing
    <3>3. QED BY <3>1, <3>2
  <2>5. QED BY <1>4, <2>2, <2>4
<1>9. CASE sd.intra \in 5 .. 11
  <2>1. Silent(Script) /\ sd.tx = Filler
    BY <1>1, <1>9 DEF ReadPlace
  <2>2. SameRoutine /\ sd'.intra = sd.intra + 1 /\ sd'.tx = Filler /\ sd'.cs_en = sd.cs_en
    <3>1. CASE sd.intra = 5
      BY <2>1, <3>1 DEF ReadRow, Plain, Sets, SameLines
    <3>2. CASE sd.intra = 6
      BY <2>1, <3>2 DEF ReadRow, Plain, Sets, SameLines
    <3>3. CASE sd.intra \in {7, 9, 11}
      BY <2>1, <3>3 DEF ReadRow, Plain, Sets, SameLines
    <3>4. CASE sd.intra \in {8, 10}
      BY <1>3, <2>1, <3>4 DEF ReadRow, Plain, Sets, SameLines
    <3>5. QED BY <1>9, <3>1, <3>2, <3>3, <3>4
  <2>3. ReadPlace'
    BY <1>1, <1>9, <2>1, <2>2 DEF ReadPlace
  <2>4. QED BY <1>4, <2>2, <2>3
<1>10. CASE sd.intra = 12
  <2>1. card.want = "command"
    BY <1>1, <1>10 DEF ReadPlace, Silent, Script
  <2>2. /\ sd'.ready = sd.ready /\ sd'.write = sd.write /\ sd'.read = 0 /\ sd'.cs_en = TRUE
    BY <1>3, <1>10 DEF ReadRow, Plain, Sets
  <2>3. Waiting' /\ Idle'
    BY <1>2, <2>2 DEF Waiting, Idle
  <2>4. RestPlace'
    BY <1>1, <1>2, <2>1, <2>2, <2>3 DEF RestPlace
  <2>5. QED BY <2>3, <2>4, RoutinesApart DEF RoutinePlace
<1>11. QED BY <1>2, <1>5, <1>6, <1>7, <1>8, <1>9, <1>10

\* A call begins, or none does.
LEMMA WaitingGoesOn ==
  ASSUME CtlInv, Clears, Waiting, RestPlace, NEW sdws \in BOOLEAN, NEW sdrs \in BOOLEAN,
         ~(sdws /\ sdrs), sd' = Wait(sdws, sdrs), sdws \/ sdrs => host'.disk = card.disk
  PROVE  RoutinePlace' /\ RestPlace'
<1>1. card.want = "command" /\ sd.cs_en = TRUE
  BY DEF RestPlace, CtlInv, SdShape
<1>2. Clear(Script') /\ card'.want = "command" /\ card'.disk = card.disk
  BY <1>1 DEF Clears, Clear, Silent, Script
<1>3. /\ sd'.ready = sd.ready /\ sd'.intra = 0 /\ sd.ready
      /\ sd'.write = IF sdws THEN 1 ELSE 0
      /\ sd'.read = IF sdrs THEN 1 ELSE 0
      /\ (sd'.cs_en <=> ~sdws /\ ~sdrs)
  BY <1>1 DEF Wait, CtlInv, SdShape, SdPlace, SdFields, Waiting
<1>4. CASE sdws \/ sdrs
  <2>1. Opening' /\ ~Idle'
    BY <1>3, <1>4 DEF Opening, Idle
  <2>2. OpeningPlace'
    BY <1>2, <1>3 DEF OpeningPlace
  <2>3. RestPlace'
    BY <1>2, <1>3, <1>4, <2>1, RoutinesApart DEF RestPlace
  <2>4. QED BY <2>1, <2>2, <2>3, RoutinesApart DEF RoutinePlace
<1>5. CASE ~sdws /\ ~sdrs
  <2>1. Waiting' /\ Idle'
    BY <1>3, <1>5 DEF Waiting, Idle
  <2>2. RestPlace'
    BY <1>2, <1>3, <1>5, <2>1 DEF RestPlace
  <2>3. QED BY <2>1, <2>2, RoutinesApart DEF RoutinePlace
<1>6. QED BY <1>4, <1>5

-----------------------------------------------------------------------------
(* CardPlace, over an edge.                                                *)

HostFields == {"pc", "call", "mar", "inc", "buf", "sar", "ram", "disk"}
Walks ==
  /\ SameDeal /\ DOMAIN host' = HostFields
  /\ host'.inc = sd.address_progression
  /\ host'.mar = IF ~sd.address_progression /\ host.inc THEN host.mar + 1 ELSE host.mar
  /\ host'.pc = IF host.pc = "stalled" /\ dev_stop_signal THEN "done" ELSE "stalled"
LEMMA HostWalks ==
  ASSUME HostPlace, NEW calls, Host(calls), host.pc \in {"start", "stalled"}
  PROVE  Walks
<1>1. DOMAIN host = HostFields
  BY DEF HostPlace, HostFields
<1>2. PICK pc : /\ host' = Walk([host EXCEPT !.pc = pc])
                /\ pc = IF host.pc = "stalled" /\ dev_stop_signal THEN "done" ELSE "stalled"
  BY DEF Host
<1> DEFINE h == [host EXCEPT !.pc = pc]
<1>3. /\ DOMAIN h = HostFields /\ h.pc = pc /\ h.call = host.call /\ h.mar = host.mar
      /\ h.inc = host.inc /\ h.buf = host.buf /\ h.sar = host.sar /\ h.ram = host.ram
      /\ h.disk = host.disk
  BY <1>1 DEF HostFields
<1> HIDE DEF h
<1>4. host' = [h EXCEPT !.inc = sd.address_progression,
                        !.mar = IF ~sd.address_progression /\ host.inc THEN @ + 1 ELSE @]
  BY <1>2 DEF Walk, h
<1>5. /\ DOMAIN host' = HostFields /\ host'.pc = pc
      /\ host'.call = h.call /\ host'.buf = h.buf /\ host'.sar = h.sar /\ host'.ram = h.ram
      /\ host'.disk = h.disk /\ host'.inc = sd.address_progression
      /\ host'.mar = IF ~sd.address_progression /\ host.inc THEN h.mar + 1 ELSE h.mar
  BY <1>3, <1>4 DEF HostFields
<1>6. QED BY <1>2, <1>3, <1>5 DEF Walks, SameDeal

LEMMA CountedBits ==
  ASSUME StepInv, ~sd.cs_en
  PROVE  card.bits \in 0 .. 7
<1>1. spi.state \in 0 .. 3 /\ (spi.state = 2 => spi.bit \in 0 .. 7)
  BY DEF StepInv, EngInv, SpiShape, Together
<1>2. CASE spi.state # 2
  <2>1. card.bits = 0
    BY <1>1, <1>2 DEF StepInv, Together
  <2>2. QED BY <2>1
<1>3. CASE spi.state = 2
  <2>1. card.bits = IF spi.rise THEN (8 - spi.bit) % 8 ELSE 7 - spi.bit
    BY <1>3 DEF StepInv, Together
  <2>2. QED BY <1>1, <1>3, <2>1
<1>4. QED BY <1>2, <1>3

LEMMA TypesOfCard == ByteTypes /\ HostPlace => CardTypes
BY DEF ByteTypes, HostPlace, CardTypes

\* What an edge does, told from the three sides.
EdgeParts ==
  /\ PaceStep /\ Byteward /\ ByteInEngine(card.miso) /\ StepInv' /\ PaceInv'
  /\ Turns \/ Holds
  /\ IF sd.cs_en THEN Clears ELSE ByteEdge

LEMMA TickParts ==
  ASSUME StepInv, CopyInv, NEW calls, Tick(calls)
  PROVE  EdgeParts
<1> DEFINE sdws == dev_start_signal /\ host.call = "write"
           sdrs == dev_start_signal /\ host.call = "read"
<1>1. /\ CtlInv /\ EngInv /\ CardShape(card) /\ CardPlace /\ PaceInv /\ sd.tx \in Byte
      /\ SpiClock(card.miso) /\ Card /\ SdClock(sdws, sdrs, host.sar, rdata)
  BY DEF StepInv, CopyInv, ByteTypes, Tick
<1>2. PaceStep
  <2>1. ~(sdws /\ sdrs)
    OBVIOUS
  <2> HIDE DEF sdws, sdrs
  <2>2. QED BY <1>1, <2>1, PaceTick
<1>3. Clocked /\ Byteward /\ ByteInEngine(card.miso)
  BY <1>1, EngineMoves, EngineByte
<1>4. Counts /\ StepInv' /\ (Turns \/ Holds)
  BY <1>1, <1>3, CardStep, StepInvTick, ClockTurns
<1>5. PaceInv'
  BY <1>1, <1>2, <1>3, PaceNext
<1>6. ~sd.cs_en => card.bits \in 0 .. 7
  BY CountedBits
<1>7. IF sd.cs_en THEN Clears
      ELSE \/ KeepsScript /\ (Shows \/ Samples \/ Waits)
           \/ Ends(2 * card.in + spi.mosi)
  BY <1>1, <1>6, CardMoves
<1>8. Together'
  BY <1>4 DEF StepInv
<1>9. QED BY <1>2, <1>3, <1>4, <1>5, <1>7, <1>8 DEF EdgeParts, ByteEdge

\* While the controller brings the card up.
LEMMA StartingNext ==
  ASSUME CtlInv, CardShape(card), CardTypes, ~sd.ready, InitPlace, InitSteps,
         Clears \/ KeepsScript \/ Finishes, sd.tx \in Byte
  PROVE  CardPlace' /\ CardTypes' /\ card'.disk = card.disk
<1>1. /\ card'.want = "command" /\ card'.disk = card.disk /\ CardTypes'
      /\ card'.heard # <<>> => card'.heard[1] \notin {81, 88}
  <2>1. /\ card.want = "command" /\ (card.heard # <<>> => card.heard[1] \notin {81, 88})
        /\ sd.tx \in Byte \ {81, 88}
    BY DEF InitPlace
  <2>2. CASE Clears
    <3>1. Filler \in Byte
      BY DEF Filler, Byte
    <3>2. QED BY <2>1, <2>2, <3>1 DEF Clears, CardTypes
  <2>3. CASE KeepsScript
    BY <2>1, <2>3 DEF KeepsScript, CardTypes
  <2>4. CASE Finishes
    <3>1. PICK c \in Hear(sd.tx) : card' = Queued(c)
      BY <2>4, FinishedByte
    <3>2. QED BY <2>1, <3>1, InitByteHeard
  <2>5. QED BY <2>2, <2>3, <2>4
<1>2. CASE ~sd'.ready
  <2>1. InitPlace'
    BY <1>1, <1>2 DEF InitSteps, InitPlace
  <2>2. QED BY <1>1, <1>2, <2>1 DEF CardPlace, Waiting, Opening, Commanding, Writing, Seeking,
       Reading, InitSteps, Idle
<1>3. CASE sd'.ready
  <2>1. sd'.write = 0 /\ sd'.read = 0 /\ sd'.cs_en
    BY <1>3 DEF InitSteps
  <2>2. QED BY <1>1, <1>3, <2>1 DEF CardPlace, Waiting, Opening, Commanding, Writing, Seeking,
       Reading, Idle
<1>4. QED BY <1>2, <1>3

LEMMA RestKept ==
  ASSUME RestPlace, sd' = sd, ~Idle, SameDeal, card'.disk = card.disk \/ Writing,
         sd.read = 0 \/ ~Writing
  PROVE  RestPlace'
BY DEF RestPlace, SameDeal, Waiting, Idle, Writing

\* What the routines of a call do at an edge.
LEMMA RoutineRows ==
  ASSUME CtlInv, sd.ready, ~Idle, NEW sdws, NEW sdrs, SdClock(sdws, sdrs, host.sar, rdata)
  PROVE  /\ Opening => /\ sd.write = 1 => FillersRow(NextWrite)
                       /\ sd.write = 0 => FillersRow(NextRead)
         /\ Commanding =>
              /\ sd.write = 2 =>
                   CommandRow(CMD_24(host.sar), IF spi.rx = 0 THEN NextWrite ELSE AskAgain)
              /\ sd.write = 0 =>
                   CommandRow(CMD_17(host.sar), IF spi.rx = 0 THEN NextRead ELSE AskAgain)
         /\ Writing => WriteRow(rdata)
         /\ Seeking => SeekRow
         /\ Reading => ReadRow
<1>1. CASE sd.write # 0
  <2>1. sd' = Write(host.sar, rdata)
    BY <1>1 DEF SdClock
  <2>2. CASE sd.write \in 1 .. 2
    BY <2>1, <2>2, PaceWriteCall DEF Opening, Commanding, Writing, Seeking, Reading
  <2>3. CASE sd.write = 3
    <3>1. Writing /\ sd' = WriteData(rdata)
      BY <2>1, <2>3 DEF Writing, Write
    <3>2. WriteRow(rdata)
      BY <3>1, WriteTable
    <3>3. QED BY <2>3, <3>2 DEF Opening, Commanding, Writing, Seeking, Reading
  <2>4. QED BY <1>1, <2>2, <2>3 DEF CtlInv, SdPlace
<1>2. CASE sd.write = 0
  <2>1. sd' = Read(host.sar)
    BY <1>2 DEF SdClock, Idle
  <2>2. CASE sd.read \in 1 .. 2
    BY <1>2, <2>1, <2>2, PaceReadCall DEF Opening, Commanding, Writing, Seeking, Reading
  <2>3. CASE sd.read = 3
    <3>1. Seeking /\ sd' = ReadToken
      BY <1>2, <2>1, <2>3 DEF Seeking, Read
    <3>2. SeekRow
      BY <3>1, SeekTable
    <3>3. QED BY <1>2, <2>3, <3>2 DEF Opening, Commanding, Writing, Seeking, Reading
  <2>4. CASE sd.read = 4
    <3>1. Reading /\ sd' = ReadData
      BY <1>2, <2>1, <2>4 DEF Reading, Read
    <3>2. ReadRow
      BY <3>1, ReadTable
    <3>3. QED BY <1>2, <2>4, <3>2 DEF Opening, Commanding, Writing, Seeking, Reading
  <2>5. QED BY <1>2, <2>2, <2>3, <2>4 DEF CtlInv, SdPlace, Idle
<1>3. QED BY <1>1, <1>2

\* A call under way, the card selected or already left alone.
LEMMA ServingNext ==
  ASSUME StepInv, CopyInv, EdgeParts, SameDeal, sd.ready, ~Idle, NEW sdws, NEW sdrs,
         SdClock(sdws, sdrs, host.sar, rdata), host.sar \in BlockNo,
         Writing /\ sd.intra = 6 => rdata = Sent(Deal, sd.cnt + 1)
  PROVE  /\ CardPlace' /\ CardTypes'
         /\ card'.disk = card.disk \/ (Writing /\ sd.intra = 15)
<1>1. /\ CtlInv /\ CardShape(card) /\ CardTypes /\ RoutinePlace /\ RestPlace /\ sd.tx \in Byte
      /\ PaceInv /\ BitInv /\ ByteTypes /\ HostPlace /\ PaceStep
  BY TypesOfCard, CardPlaces DEF StepInv, CopyInv, ByteTypes, EdgeParts
<1>2. /\ sd.write \in 0 .. 3 /\ sd.read \in 0 .. 4 /\ (sd.write # 0 => sd.read = 0)
      /\ ~(sd.write = 0 /\ sd.read = 0)
  BY <1>1 DEF CtlInv, SdPlace, Idle
<1>3. sd.read = 0 \/ ~Writing
  BY <1>2 DEF Writing
<1>4. Opening \/ Commanding \/ Writing \/ Seeking \/ Reading
  BY <1>2 DEF Opening, Commanding, Writing, Seeking, Reading
<1>5. CASE sd.cs_en
  <2>1. Writing /\ sd.intra >= 23 /\ Clears
    BY <1>1, <1>5 DEF RestPlace, EdgeParts
  <2>2. WriteRow(rdata)
    BY <1>1, <2>1, RoutineRows
  <2>3. RoutinePlace' /\ RestPlace'
    BY <1>1, <2>1, <2>2, WritingEnds
  <2>4. CardTypes' /\ card'.disk = card.disk
    BY <1>1, <2>1 DEF Clears, CardTypes, Filler, Byte
  <2>5. QED BY <2>3, <2>4, CardPlaces
<1>6. CASE ~sd.cs_en
  <2>1. Finishes \/ Lasts \/ MovesOn
    BY <1>1, <1>6, EdgeKinds DEF EdgeParts
  <2>2. CASE Finishes
    <3>1. Writing => sd.intra < 23
      BY <1>1, <1>6 DEF RestPlace, CtlInv, SdPlace
    <3>2. Commanding => host.disk = card.disk
      BY <1>1, <1>2 DEF RestPlace, Commanding
    <3>3. /\ RoutinePlace' /\ CardTypes'
          /\ card'.disk = card.disk \/ (Writing /\ sd.intra = 15)
      BY <1>1, <2>2, <3>1, <3>2, FinishesPlace DEF HostPlace
    <3>4. sd' = sd
      BY <2>2, FinishedByte
    <3>5. RestPlace'
      BY <1>1, <1>3, <3>3, <3>4, RestKept
    <3>6. QED BY <3>3, <3>5, CardPlaces
  <2>3. CASE Lasts
    <3>1. sd' = sd /\ card'.disk = card.disk /\ CardTypes'
      BY <1>1, <2>3 DEF Lasts, KeepsScript, CardTypes
    <3>2. RoutinePlace'
      BY <1>1, <2>3, LastsPlace
    <3>3. RestPlace'
      BY <1>1, <1>3, <3>1, RestKept
    <3>4. QED BY <3>1, <3>2, <3>3, CardPlaces
  <2>4. CASE MovesOn
    <3>1. card'.disk = card.disk /\ CardTypes'
      BY <1>1, <2>4 DEF MovesOn, KeepsScript, CardTypes
    <3>2. RoutinePlace' /\ RestPlace'
      <4>1. CASE Opening
        <5>1. (sd.write = 1 => FillersRow(NextWrite)) /\ (sd.write = 0 => FillersRow(NextRead))
          BY <1>1, <4>1, RoutineRows
        <5>2. QED BY <1>1, <2>4, <4>1, <5>1, OpeningGoesOn
      <4>2. CASE Commanding
        <5>1. /\ sd.write = 2 =>
                   CommandRow(CMD_24(host.sar), IF spi.rx = 0 THEN NextWrite ELSE AskAgain)
              /\ sd.write = 0 =>
                   CommandRow(CMD_17(host.sar), IF spi.rx = 0 THEN NextRead ELSE AskAgain)
          BY <1>1, <4>2, RoutineRows
        <5>2. /\ sd.write = 2 => host.call = "write"
              /\ sd.write = 0 => host.call = "read"
              /\ host.call \in Calls
          BY <1>1, <1>2 DEF HostPlace
        <5>3. QED BY <1>1, <2>4, <4>2, <5>1, <5>2, CommandGoesOn
      <4>3. CASE Writing
        <5>1. WriteRow(rdata)
          BY <1>1, <4>3, RoutineRows
        <5>2. spi.state = 3 => spi'.state = 0
          BY DEF EdgeParts, Byteward
        <5>3. QED BY <1>1, <1>6, <2>4, <4>3, <5>1, <5>2, WritingGoesOn
      <4>4. CASE Seeking
        <5>1. SeekRow
          BY <1>1, <4>4, RoutineRows
        <5>2. QED BY <1>1, <2>4, <4>4, <5>1, SeekingGoesOn
      <4>5. CASE Reading
        <5>1. ReadRow
          BY <1>1, <4>5, RoutineRows
        <5>2. QED BY <1>1, <2>4, <4>5, <5>1, ReadingGoesOn
      <4>6. QED BY <1>4, <4>1, <4>2, <4>3, <4>4, <4>5
    <3>3. QED BY <3>1, <3>2, CardPlaces
  <2>5. QED BY <2>1, <2>2, <2>3, <2>4
<1>7. QED BY <1>5, <1>6

-----------------------------------------------------------------------------
(* MAR, RAM and the pulses.                                                *)

LEMMA BufferRoom ==
  ASSUME HostPlace, host.pc # "program"
  PROVE  /\ host.buf \in Nat /\ host.buf + BlockLen < RamTop /\ RamTop \in Nat
         /\ BlockLen \in Nat \ {0}
BY CardAssumption, SdAssumption DEF HostPlace
\* MAR stands still, or counts.
LEMMA Standing ==
  ASSUME Walks, Memory, ~sd.address_progression, ~host.inc
  PROVE  /\ host'.mar = host.mar /\ host'.inc = sd.address_progression /\ host'.buf = host.buf
         /\ host'.ram = host.ram /\ ram' = ram /\ rdata' = ram'[host'.mar]
BY DEF Walks, SameDeal, Memory, sdevbyte
LEMMA RamKept ==
  ASSUME Memory, ~sd.address_progression \/ host.call = "write"
  PROVE  ram' = ram
BY DEF Memory, sdevbyte

LEMMA WritingHost ==
  ASSUME CtlInv, Writing, WriteRow(rdata), Pulses, HostPlace, Walks, Memory, RoutinePlace, PaceInv,
         StepInv, Byteward, Turns \/ Holds, sd.tx \in Byte
  PROVE  /\ Pulses' /\ sd'.tx \in Byte /\ ram' = ram /\ sd'.read = 0
         /\ sd'.write # 0 => WriteWalk'
         /\ sd.sdwd => sd'.write = 0 /\ ~sd'.sdrd
<1>1. /\ host.pc = "stalled" /\ host.call = "write" /\ WriteWalk /\ sd.ready /\ sd.write = 3
      /\ sd.read = 0 /\ sd.intra \in 0 .. 26 /\ ~Waiting /\ ~Reading
  BY DEF HostPlace, Writing, CtlInv, SdPlace, Idle, Waiting, Reading
<1>2. /\ (sd.address_progression <=> sd.intra = 8) /\ (sd.sdwd <=> sd.intra = 26) /\ ~sd.sdrd
  BY <1>1 DEF Pulses
<1>3. ram' = ram /\ host'.ram = host.ram /\ ram' = host'.ram /\ host'.buf = host.buf
  BY <1>1, RamKept DEF WriteWalk, Walks, SameDeal
<1>4. /\ host.buf \in Nat /\ host.buf + BlockLen < RamTop /\ BlockLen \in Nat \ {0}
      /\ RamTop \in Nat
  BY <1>1, BufferRoom
<1>5. Filler \in Byte /\ StartToken \in Byte
  BY DEF Filler, StartToken, Byte
<1>6. ASSUME SameRoutine, sd'.sdrd = sd.sdrd, sd'.address_progression <=> sd'.intra = 8,
             sd'.sdwd <=> sd'.intra = 26
      PROVE  Pulses' /\ sd'.read = 0
  <2>1. Writing' /\ ~Reading' /\ sd'.read = 0
    BY <1>1, <1>6, RoutineStays, RoutinesApart DEF SameRoutine
  <2>2. QED BY <1>2, <1>6, <2>1 DEF Pulses
<1>7. CASE sd.intra \in 0 .. 5
  <2>1. At(0) /\ Fresh
    BY <1>1, <1>7 DEF WriteWalk
  <2>2. host'.mar = host.mar /\ host'.inc = sd.address_progression /\ Fresh'
    BY <1>2, <1>7, <2>1, Standing DEF At, Fresh
  <2>3. At(0)'
    BY <1>2, <1>3, <1>7, <2>1, <2>2 DEF At
  <2>4. /\ SameRoutine /\ SameLines /\ sd'.intra \in 0 .. 6 /\ sd'.tx \in Byte
        /\ sd'.intra = 6 => sd'.cnt = 0
    <3>1. CASE sd.intra \in 0 .. 2
      BY <1>5, <3>1 DEF WriteRow, Plain, Sets
    <3>2. CASE sd.intra = 3
      BY <1>5, <3>2 DEF WriteRow, Plain, Sets, SameRoutine, SameLines
    <3>3. CASE sd.intra \in 4 .. 5
      BY <1>5, <3>3 DEF WriteRow, Plain, Sets
    <3>4. QED BY <1>7, <3>1, <3>2, <3>3
  <2>5. Pulses' /\ sd'.read = 0
    <3>1. /\ sd'.sdrd = sd.sdrd /\ (sd'.address_progression <=> sd'.intra = 8)
          /\ (sd'.sdwd <=> sd'.intra = 26)
      BY <1>2, <1>7, <2>4 DEF SameLines
    <3>2. QED BY <1>6, <2>4, <3>1
  <2>6. WriteWalk'
    BY <1>3, <2>2, <2>3, <2>4 DEF WriteWalk, At
  <2>7. QED BY <1>2, <1>3, <1>7, <2>4, <2>5, <2>6
<1>8. CASE sd.intra = 6
  <2>1. At(sd.cnt) /\ Fresh /\ sd.cnt \in 0 .. BlockLen - 1
    BY <1>1, <1>8 DEF WriteWalk, RoutinePlace, WritePlace
  <2>2. host'.mar = host.mar /\ host'.inc = sd.address_progression /\ Fresh'
    BY <1>2, <1>8, <2>1, Standing DEF At, Fresh
  <2>3. rdata \in Byte
    <3>1. host.mar \in Address
      BY <1>4, <2>1 DEF At, Address
    <3>2. QED BY <2>1, <3>1 DEF Fresh, HostPlace
  <2>4. /\ SameRoutine /\ SameLines /\ sd'.intra \in 6 .. 7 /\ sd'.tx \in Byte /\ sd'.cnt = sd.cnt
    BY <1>8, <2>3 DEF WriteRow, Plain, Sets, SameRoutine, SameLines
  <2>5. Pulses' /\ sd'.read = 0
    <3>1. /\ sd'.sdrd = sd.sdrd /\ (sd'.address_progression <=> sd'.intra = 8)
          /\ (sd'.sdwd <=> sd'.intra = 26)
      BY <1>2, <1>8, <2>4 DEF SameLines
    <3>2. QED BY <1>6, <2>4, <3>1
  <2>6. WriteWalk'
    <3>1. host'.mar = host'.buf + sd'.cnt /\ ~host'.inc
      BY <1>2, <1>3, <1>8, <2>1, <2>2, <2>4 DEF At
    <3>2. sd'.write = 3
      BY <1>1, <2>4 DEF SameRoutine
    <3>3. QED BY <1>3, <2>2, <2>4, <3>1, <3>2 DEF WriteWalk, At
  <2>7. QED BY <1>2, <1>3, <1>8, <2>4, <2>5, <2>6
<1>9. CASE sd.intra = 7
  <2>1. At(sd.cnt) /\ Fresh
    BY <1>1, <1>9 DEF WriteWalk
  <2>2. host'.mar = host.mar /\ host'.inc = sd.address_progression
    BY <1>2, <1>9, <2>1, Standing DEF At
  <2>3. /\ SameRoutine /\ sd'.intra = 8 /\ sd'.tx = sd.tx /\ sd'.cnt = sd.cnt
        /\ sd'.sdrd = sd.sdrd /\ sd'.sdwd = sd.sdwd /\ sd'.address_progression
    BY <1>9 DEF WriteRow, Plain, Sets
  <2>4. Pulses' /\ sd'.read = 0
    BY <1>2, <1>6, <1>9, <2>3
  <2>5. host'.mar = host'.buf + sd'.cnt /\ ~host'.inc /\ sd'.write = 3
    BY <1>1, <1>2, <1>3, <1>9, <2>1, <2>2, <2>3 DEF At, SameRoutine
  <2>6. WriteWalk'
    BY <1>3, <2>3, <2>5 DEF WriteWalk, At
  <2>7. QED BY <1>2, <1>3, <1>9, <2>3, <2>4, <2>6
<1>10. CASE sd.intra = 8
  <2>1. At(sd.cnt)
    BY <1>1, <1>10 DEF WriteWalk
  <2>2. host'.mar = host.mar /\ host'.inc
    BY <1>2, <1>10 DEF Walks
  <2>3. /\ SameRoutine /\ sd'.intra = 9 /\ sd'.tx = sd.tx /\ sd'.cnt = sd.cnt
        /\ sd'.sdrd = sd.sdrd /\ sd'.sdwd = sd.sdwd /\ ~sd'.address_progression
    BY <1>10 DEF WriteRow, Plain, Sets
  <2>4. Pulses' /\ sd'.read = 0
    BY <1>2, <1>6, <1>10, <2>3
  <2>5. spi'.state = 1 /\ ~spi'.fall
    <3>1. sd.start /\ Lowering
      BY <1>10 DEF PaceInv, Lowering, WritingUp
    <3>2. spi.state = 0
      BY <3>1, LowersOrAwaits DEF PaceInv
    <3>3. QED BY <3>1, <3>2 DEF Byteward, Turns, Holds
  <2>6. host'.mar = host'.buf + sd'.cnt /\ sd'.write = 3
    BY <1>1, <1>3, <2>1, <2>2, <2>3 DEF At, SameRoutine
  <2>7. WriteWalk'
    BY <1>3, <2>2, <2>3, <2>5, <2>6 DEF WriteWalk, At
  <2>8. QED BY <1>2, <1>3, <1>10, <2>3, <2>4, <2>7
<1>11. CASE sd.intra = 9
  <2>1. sd.cnt \in 0 .. BlockLen - 1
    BY <1>11 DEF RoutinePlace, WritePlace
  <2>2. /\ SameRoutine /\ SameLines /\ sd'.tx = sd.tx
        /\ \/ ~done /\ sd' = sd
           \/ done /\ sd'.intra = 6 /\ sd'.cnt = sd.cnt + 1
           \/ done /\ sd'.intra = 10
    BY <1>11 DEF WriteRow, Plain, Sets, SameRoutine, SameLines
  <2>3. Pulses' /\ sd'.read = 0
    <3>1. /\ sd'.sdrd = sd.sdrd /\ (sd'.address_progression <=> sd'.intra = 8)
          /\ (sd'.sdwd <=> sd'.intra = 26)
      BY <1>2, <1>11, <2>2 DEF SameLines
    <3>2. QED BY <1>6, <2>2, <3>1
  <2>4. WriteWalk'
    <3>0. sd'.write = 3
      BY <1>1, <2>2 DEF SameRoutine
    <3>1. CASE host.inc /\ host.mar = host.buf + sd.cnt /\ spi.state = 1 /\ ~spi.fall
      <4>1. host'.mar = host.mar + 1 /\ ~host'.inc
        BY <1>2, <1>11, <3>1 DEF Walks
      <4>2. spi'.state = 1 /\ sd' = sd
        BY <2>2, <3>1 DEF Byteward, done
      <4>3. host'.mar = host'.buf + (sd'.cnt + 1)
        BY <1>3, <1>4, <2>1, <3>1, <4>1, <4>2
      <4>4. QED BY <1>3, <1>11, <3>0, <4>1, <4>2, <4>3 DEF WriteWalk, At
    <3>2. CASE At(sd.cnt + 1) /\ (spi.state = 1 \/ Fresh)
      <4>1. host'.mar = host.mar /\ ~host'.inc /\ Fresh'
        BY <1>2, <1>11, <3>2, Standing DEF At, Fresh
      <4>2. host'.mar = host'.buf + (sd.cnt + 1)
        BY <1>3, <3>2, <4>1 DEF At
      <4>3. sd.cnt + 1 # 0
        BY <2>1, <1>4
      <4>4. QED BY <1>3, <1>11, <2>2, <3>0, <4>1, <4>2, <4>3 DEF WriteWalk, At
    <3>3. QED BY <1>1, <1>11, <3>1, <3>2 DEF WriteWalk
  <2>5. QED BY <1>2, <1>3, <1>11, <2>2, <2>3, <2>4
<1>12. CASE sd.intra \in 10 .. 25
  <2>1. /\ SameRoutine /\ sd'.intra \in 10 .. 26 /\ sd'.tx \in Byte /\ sd'.sdrd = sd.sdrd
        /\ sd'.address_progression = sd.address_progression
        /\ (sd'.sdwd <=> sd'.intra = 26)
    <3>1. CASE sd.intra \in 10 .. 12
      BY <1>2, <1>5, <3>1 DEF WriteRow, Plain, Sets, SameLines
    <3>2. CASE sd.intra \in {13, 15, 17}
      BY <1>2, <1>5, <3>2 DEF WriteRow, Plain, Sets, SameLines, SameRoutine
    <3>3. CASE sd.intra \in {14, 16, 18}
      BY <1>2, <1>5, <3>3 DEF WriteRow, Plain, Sets, SameLines
    <3>4. CASE sd.intra \in {19, 20, 22, 23, 24}
      BY <1>2, <1>5, <3>4 DEF WriteRow, Plain, Sets, SameLines
    <3>5. CASE sd.intra = 21
      BY <1>2, <1>5, <3>5 DEF WriteRow, Plain, Sets, SameLines, SameRoutine
    <3>6. CASE sd.intra = 25
      BY <1>2, <1>5, <3>6 DEF WriteRow, Plain, Sets, SameLines, SameRoutine
    <3>7. QED BY <1>12, <3>1, <3>2, <3>3, <3>4, <3>5, <3>6
  <2>2. Pulses' /\ sd'.read = 0
    BY <1>2, <1>6, <1>12, <2>1
  <2>3. sd'.write = 3
    BY <1>1, <2>1 DEF SameRoutine
  <2>4. WriteWalk'
    BY <1>3, <2>1, <2>3 DEF WriteWalk
  <2>5. QED BY <1>2, <1>3, <1>12, <2>1, <2>2, <2>4
<1>13. CASE sd.intra = 26
  <2>1. /\ sd'.ready = sd.ready /\ sd'.write = 0 /\ sd'.read = sd.read /\ sd'.tx = sd.tx
        /\ sd'.sdwd = FALSE /\ sd'.sdrd = sd.sdrd
        /\ sd'.address_progression = sd.address_progression
    BY <1>13 DEF WriteRow, Plain, Sets
  <2>2. ~Writing' /\ ~Reading'
    BY <1>1, <2>1 DEF Writing, Reading
  <2>3. Pulses'
    BY <1>2, <1>13, <2>1, <2>2 DEF Pulses
  <2>4. QED BY <1>1, <1>2, <1>3, <2>1, <2>3
<1>14. QED BY <1>1, <1>7, <1>8, <1>9, <1>10, <1>11, <1>12, <1>13

\* A byte more of the block in RAM, or one that RAM does not take.
LEMMA LoadsMore ==
  ASSUME NEW r \in [Address -> Byte], NEW d, NEW n \in 0 .. BlockLen - 1, d.buf \in Nat,
         d.buf + BlockLen < RamTop, RamTop \in Nat, BlockLen \in Nat, Loads(r, d, n),
         NEW v \in Byte, v = Wanted(d, n + 1),
         NEW r2, r2 = IF d.buf + n \in Unwritten THEN r ELSE [r EXCEPT ![d.buf + n] = v]
  PROVE  /\ Loads(r2, d, n + 1)
         /\ r2 \in [Address -> Byte]
<1>1. d.buf + n \in Address
  BY DEF Address
<1>2. r2 \in [Address -> Byte]
  BY <1>1
<1>3. Loads(r2, d, n + 1)
  <2>1. SUFFICES ASSUME NEW a \in Address
                 PROVE  r2[a] = IF a \in d.buf .. d.buf + (n + 1) - 1 /\ a \notin Unwritten
                                THEN Wanted(d, a - d.buf + 1) ELSE d.ram[a]
    BY DEF Loads
  <2>2. CASE a = d.buf + n
    <3>1. a \notin d.buf .. d.buf + n - 1
      BY <2>2
    <3>2. a - d.buf + 1 = n + 1 /\ a \in d.buf .. d.buf + (n + 1) - 1
      BY <2>2
    <3>3. CASE a \in Unwritten
      <4>1. r2[a] = r[a]
        BY <2>2, <3>3
      <4>2. r[a] = d.ram[a]
        BY <3>1 DEF Loads
      <4>3. QED BY <3>3, <4>1, <4>2
    <3>4. CASE a \notin Unwritten
      <4>1. r2[a] = v
        BY <1>1, <2>2, <3>4
      <4>2. QED BY <3>2, <3>4, <4>1
    <3>5. QED BY <3>3, <3>4
  <2>3. CASE a # d.buf + n
    <3>1. r2[a] = r[a]
      BY <2>3
    <3>2. a \in d.buf .. d.buf + (n + 1) - 1 <=> a \in d.buf .. d.buf + n - 1
      BY <2>3 DEF Address
    <3>3. QED BY <3>1, <3>2 DEF Loads
  <2>4. QED BY <2>2, <2>3
<1>4. QED BY <1>2, <1>3
LEMMA WantedBytes ==
  ASSUME HostPlace, host.pc # "program", NEW k \in 1 .. BlockLen
  PROVE  Wanted(Deal, k) \in Byte
<1>1. host.sar \in BlockNo /\ host.disk \in [BlockNo -> Block]
  BY DEF HostPlace
<1>2. host.disk[host.sar] \in [1 .. BlockLen -> Byte]
  BY <1>1 DEF Block
<1>3. Wanted(Deal, k) = host.disk[host.sar][k]
  BY DEF Wanted, Deal
<1>4. QED BY <1>2, <1>3

\* The block's last step into RAM happens on the edge that ends the pulse.
LEMMA LoadStep ==
  ASSUME HostPlace, host.pc # "program", host.call = "read", Memory, sd.address_progression,
         NEW n \in 0 .. BlockLen - 1, At(n), Loaded(n), sd.SDC_DEV = Wanted(Deal, n + 1), SameDeal
  PROVE  Loads(ram', Deal', n + 1) /\ ram' \in [Address -> Byte]
<1>1. /\ host.buf \in Nat /\ host.buf + BlockLen < RamTop /\ RamTop \in Nat
      /\ BlockLen \in Nat \ {0}
  BY BufferRoom
<1>2. Deal.buf = host.buf /\ Deal' = Deal /\ ram \in [Address -> Byte]
  BY DealKept DEF Deal, HostPlace
<1>3. host.mar = Deal.buf + n
  BY <1>2 DEF At
<1>4. n + 1 \in 1 .. BlockLen
  BY <1>1
<1>5. sd.SDC_DEV \in Byte
  BY <1>4, WantedBytes
<1>6. ram' = IF Deal.buf + n \in Unwritten THEN ram
             ELSE [ram EXCEPT ![Deal.buf + n] = sd.SDC_DEV]
  BY <1>3 DEF Memory, sdevbyte
<1>7. Loads(ram, Deal, n)
  BY DEF Loaded
<1> DEFINE d == Deal
           v == sd.SDC_DEV
           r2 == ram'
<1>8. /\ d.buf \in Nat /\ d.buf + BlockLen < RamTop /\ RamTop \in Nat /\ BlockLen \in Nat
      /\ v \in Byte /\ v = Wanted(d, n + 1) /\ ram \in [Address -> Byte] /\ Loads(ram, d, n)
      /\ r2 = IF d.buf + n \in Unwritten THEN ram ELSE [ram EXCEPT ![d.buf + n] = v]
  BY <1>1, <1>2, <1>5, <1>6, <1>7
<1> HIDE DEF d, v, r2
<1>9. Loads(r2, d, n + 1) /\ r2 \in [Address -> Byte]
  BY <1>8, LoadsMore
<1>10. QED BY <1>2, <1>9 DEF d, r2

LEMMA ReadingHost ==
  ASSUME CtlInv, Reading, ReadRow, Pulses, HostPlace, Walks, Memory, RoutinePlace, RestPlace,
         sd.tx \in Byte, card'.disk = card.disk
  PROVE  /\ Pulses' /\ sd'.tx \in Byte /\ ram' \in [Address -> Byte] /\ sd'.write = 0
         /\ sd'.read # 0 => ReadWalk'
         /\ host'.pc = "stalled"
<1>1. /\ host.pc = "stalled" /\ host.call = "read" /\ ReadWalk /\ sd.ready /\ sd.write = 0
      /\ sd.read = 4 /\ sd.intra \in 0 .. 12 /\ ~Waiting /\ ~Writing /\ ReadPlace
  BY DEF HostPlace, Writing, CtlInv, SdPlace, Idle, Waiting, Reading, RoutinePlace
<1>2. /\ sd.address_progression <=> sd.intra = 5 \/ (sd.intra = 1 /\ sd.cnt > 0)
      /\ ~sd.sdwd /\ ~sd.sdrd
  BY <1>1 DEF Pulses
<1>3. SameDeal /\ Deal' = Deal /\ host'.pc = "stalled" /\ host'.call = "read"
      /\ host'.buf = host.buf /\ ram \in [Address -> Byte]
  BY <1>1, <1>2, DealKept DEF Walks, SameDeal, dev_stop_signal, HostPlace
<1>4. /\ host.buf \in Nat /\ host.buf + BlockLen < RamTop /\ BlockLen \in Nat \ {0}
      /\ RamTop \in Nat
  BY <1>1, BufferRoom
<1>5. Filler \in Byte
  BY DEF Filler, Byte
<1>6. ASSUME SameRoutine, sd'.sdrd = sd.sdrd, sd'.sdwd = sd.sdwd,
             sd'.address_progression <=> sd'.intra = 5 \/ (sd'.intra = 1 /\ sd'.cnt > 0)
      PROVE  Pulses' /\ sd'.write = 0 /\ sd'.read = 4
  <2>1. Reading' /\ ~Writing' /\ sd'.write = 0 /\ sd'.read = 4
    BY <1>1, <1>6, RoutineStays, RoutinesApart DEF SameRoutine
  <2>2. QED BY <1>2, <1>6, <2>1 DEF Pulses
<1>7. ASSUME ~sd.address_progression
      PROVE  ram' = ram /\ \A n : Loaded(n) => Loads(ram', Deal', n)
  BY <1>3, <1>7, RamKept DEF Loaded
<1>8. CASE sd.intra = 0
  <2>1. At(0) /\ Loaded(0)
    BY <1>1, <1>8 DEF ReadWalk
  <2>2. host'.mar = host.mar /\ ~host'.inc /\ ram' = ram /\ Loads(ram', Deal', 0)
    BY <1>2, <1>7, <1>8, <2>1, Standing DEF At
  <2>3. SameRoutine /\ SameLines /\ sd'.intra = 1 /\ sd'.cnt = 0 /\ sd'.tx = Filler
    BY <1>8 DEF ReadRow, Plain, Sets
  <2>4. Pulses' /\ sd'.write = 0 /\ sd'.read = 4
    <3>1. sd'.sdrd = sd.sdrd /\ sd'.sdwd = sd.sdwd
          /\ (sd'.address_progression <=> sd'.intra = 5 \/ (sd'.intra = 1 /\ sd'.cnt > 0))
      BY <1>2, <1>8, <2>3 DEF SameLines
    <3>2. QED BY <1>6, <2>3, <3>1
  <2>5. ReadWalk'
    BY <1>3, <2>1, <2>2, <2>3, <2>4 DEF ReadWalk, At, Loaded
  <2>6. QED BY <1>3, <1>5, <2>2, <2>3, <2>4, <2>5
<1>9. CASE sd.intra = 1
  <2>1. sd.cnt \in 0 .. BlockLen - 1
    BY <1>1, <1>9 DEF ReadPlace
  <2>2. /\ SameRoutine /\ sd'.intra = 2 /\ sd'.cnt = sd.cnt /\ sd'.tx = sd.tx
        /\ sd'.sdrd = sd.sdrd /\ sd'.sdwd = sd.sdwd /\ ~sd'.address_progression
    BY <1>9 DEF ReadRow, Plain, Sets
  <2>3. Pulses' /\ sd'.write = 0 /\ sd'.read = 4
    BY <1>6, <2>2
  <2>4. CASE sd.cnt = 0
    <3>1. At(0) /\ Loaded(0)
      BY <1>1, <1>9, <2>4 DEF ReadWalk
    <3>2. host'.mar = host.mar /\ ~host'.inc /\ ram' = ram /\ Loads(ram', Deal', 0)
      BY <1>2, <1>7, <1>9, <2>4, <3>1, Standing DEF At
    <3>3. ReadWalk'
      BY <1>3, <2>2, <2>3, <2>4, <3>1, <3>2 DEF ReadWalk, At, Loaded
    <3>4. QED BY <1>3, <2>2, <2>3, <3>2, <3>3
  <2>5. CASE sd.cnt > 0
    <3>1. At(sd.cnt - 1) /\ Loaded(sd.cnt - 1) /\ sd.SDC_DEV = Wanted(Deal, sd.cnt)
      BY <1>1, <1>9, <2>5 DEF ReadWalk
    <3>2. sd.cnt - 1 \in 0 .. BlockLen - 1 /\ (sd.cnt - 1) + 1 = sd.cnt
      BY <1>4, <2>1, <2>5
    <3>3. Loads(ram', Deal', sd.cnt) /\ ram' \in [Address -> Byte]
      <4>1. PICK n : n = sd.cnt - 1
        OBVIOUS
      <4>2. /\ n \in 0 .. BlockLen - 1 /\ n + 1 = sd.cnt /\ At(n) /\ Loaded(n)
            /\ sd.SDC_DEV = Wanted(Deal, n + 1)
        BY <3>1, <3>2, <4>1
      <4>3. sd.address_progression /\ host.pc # "program"
        BY <1>1, <1>2, <1>9, <2>5
      <4>4. Loads(ram', Deal', n + 1) /\ ram' \in [Address -> Byte]
        BY <1>1, <1>3, <4>2, <4>3, LoadStep
      <4>5. QED BY <4>2, <4>4
    <3>4. host'.inc /\ host'.mar = host'.buf + sd.cnt - 1
      BY <1>2, <1>3, <1>4, <1>9, <2>1, <2>5, <3>1 DEF Walks, At
    <3>5. ReadWalk'
      BY <2>2, <2>3, <2>5, <3>3, <3>4 DEF ReadWalk, Loaded
    <3>6. QED BY <1>3, <2>2, <2>3, <3>3, <3>5
  <2>6. QED BY <2>1, <2>4, <2>5
<1>10. CASE sd.intra = 2
  <2>1. Loaded(sd.cnt) /\ IF sd.cnt = 0 THEN At(0)
                          ELSE host.inc /\ host.mar = host.buf + sd.cnt - 1
    BY <1>1, <1>10 DEF ReadWalk
  <2>2. sd.cnt \in 0 .. BlockLen - 1
    BY <1>1, <1>10 DEF ReadPlace
  <2>3. SameRoutine /\ SameLines /\ sd'.intra = 3 /\ sd'.cnt = sd.cnt /\ sd'.tx = sd.tx
    BY <1>10 DEF ReadRow, Plain, Sets
  <2>4. Pulses' /\ sd'.write = 0 /\ sd'.read = 4
    <3>1. sd'.sdrd = sd.sdrd /\ sd'.sdwd = sd.sdwd
          /\ (sd'.address_progression <=> sd'.intra = 5 \/ (sd'.intra = 1 /\ sd'.cnt > 0))
      BY <1>2, <1>10, <2>3 DEF SameLines
    <3>2. QED BY <1>6, <2>3, <3>1
  <2>5. ram' = ram /\ Loads(ram', Deal', sd.cnt)
    BY <1>2, <1>7, <1>10, <2>1
  <2>6. host'.mar = host'.buf + sd.cnt /\ ~host'.inc
    <3>1. CASE sd.cnt = 0
      BY <1>2, <1>3, <1>10, <2>1, <3>1, Standing DEF At
    <3>2. CASE sd.cnt # 0
      <4>1. host'.mar = host.mar + 1 /\ ~host'.inc
        BY <1>2, <1>10, <2>1, <3>2 DEF Walks
      <4>2. QED BY <1>3, <1>4, <2>1, <2>2, <3>2, <4>1
    <3>3. QED BY <3>1, <3>2
  <2>7. ReadWalk'
    BY <2>3, <2>4, <2>5, <2>6 DEF ReadWalk, At, Loaded
  <2>8. QED BY <1>3, <2>3, <2>4, <2>5, <2>7
<1>11. CASE sd.intra = 3
  <2>1. Loaded(sd.cnt) /\ At(sd.cnt)
    BY <1>1, <1>11 DEF ReadWalk
  <2>2. SameRoutine /\ SameLines /\ sd'.intra \in 3 .. 4 /\ sd'.cnt = sd.cnt /\ sd'.tx = sd.tx
    BY <1>11 DEF ReadRow, Plain, Sets, SameRoutine, SameLines
  <2>3. Pulses' /\ sd'.write = 0 /\ sd'.read = 4
    <3>1. sd'.sdrd = sd.sdrd /\ sd'.sdwd = sd.sdwd
          /\ (sd'.address_progression <=> sd'.intra = 5 \/ (sd'.intra = 1 /\ sd'.cnt > 0))
      BY <1>2, <1>11, <2>2 DEF SameLines
    <3>2. QED BY <1>6, <2>2, <3>1
  <2>4. ram' = ram /\ Loads(ram', Deal', sd.cnt)
    BY <1>2, <1>7, <1>11, <2>1
  <2>5. host'.mar = host'.buf + sd.cnt /\ ~host'.inc
    BY <1>2, <1>3, <1>11, <2>1, Standing DEF At
  <2>6. ReadWalk'
    BY <2>2, <2>3, <2>4, <2>5 DEF ReadWalk, At, Loaded
  <2>7. QED BY <1>3, <2>2, <2>3, <2>4, <2>6
<1>12. CASE sd.intra = 4
  <2>1. /\ Loaded(sd.cnt) /\ At(sd.cnt) /\ sd.SDC_DEV = Wanted(Deal, sd.cnt + 1)
        /\ sd.cnt \in 0 .. BlockLen - 1
    BY <1>1, <1>12 DEF ReadWalk, ReadPlace
  <2>2. /\ SameRoutine /\ sd'.tx = sd.tx /\ sd'.sdrd = sd.sdrd /\ sd'.sdwd = sd.sdwd
        /\ IF More THEN sd'.intra = 1 /\ sd'.cnt = sd.cnt + 1 ELSE sd'.intra = 5
        /\ sd'.address_progression /\ sd'.SDC_DEV = sd.SDC_DEV
    BY <1>12 DEF ReadRow, Plain, Sets
  <2>3. Pulses' /\ sd'.write = 0 /\ sd'.read = 4
    <3>1. sd'.intra = 5 \/ (sd'.intra = 1 /\ sd'.cnt > 0)
      BY <1>4, <2>1, <2>2
    <3>2. QED BY <1>6, <2>2, <3>1
  <2>4. ram' = ram /\ Loads(ram', Deal', sd.cnt)
    BY <1>2, <1>7, <1>12, <2>1
  <2>5. host'.mar = host'.buf + sd.cnt /\ ~host'.inc
    BY <1>2, <1>3, <1>12, <2>1, Standing DEF At
  <2>6. CASE More
    <3>1. sd'.cnt - 1 = sd.cnt /\ sd'.cnt # 0 /\ sd'.intra = 1
      BY <2>1, <2>2, <2>6
    <3>2. sd'.SDC_DEV = Wanted(Deal', sd'.cnt)
      BY <1>3, <2>1, <2>2, <2>6
    <3>3. ReadWalk'
      BY <2>3, <2>4, <2>5, <3>1, <3>2 DEF ReadWalk, At, Loaded
    <3>4. QED BY <1>3, <2>2, <2>3, <2>4, <3>3
  <2>7. CASE ~More
    <3>1. sd.cnt = BlockLen - 1 /\ sd.cnt + 1 = BlockLen /\ sd'.intra = 5
      BY <1>4, <2>1, <2>2, <2>7 DEF More
    <3>2. sd'.SDC_DEV = Wanted(Deal', BlockLen)
      BY <1>3, <2>1, <2>2, <3>1
    <3>3. ReadWalk'
      BY <2>3, <2>4, <2>5, <3>1, <3>2 DEF ReadWalk, At, Loaded
    <3>4. QED BY <1>3, <2>2, <2>3, <2>4, <3>3
  <2>8. QED BY <2>6, <2>7
<1>13. CASE sd.intra = 5
  <2>1. At(BlockLen - 1) /\ Loaded(BlockLen - 1) /\ sd.SDC_DEV = Wanted(Deal, BlockLen)
    BY <1>1, <1>13 DEF ReadWalk
  <2>2. /\ SameRoutine /\ sd'.tx = Filler /\ sd'.sdrd = sd.sdrd /\ sd'.sdwd = sd.sdwd
        /\ sd'.intra = 6 /\ ~sd'.address_progression
    BY <1>13 DEF ReadRow, Plain, Sets
  <2>3. Pulses' /\ sd'.write = 0 /\ sd'.read = 4
    BY <1>6, <2>2
  <2>4. Loads(ram', Deal', BlockLen) /\ ram' \in [Address -> Byte]
    <3>1. PICK n : n = BlockLen - 1
      OBVIOUS
    <3>2. n \in 0 .. BlockLen - 1 /\ n + 1 = BlockLen
      BY <1>4, <3>1
    <3>3. At(n) /\ Loaded(n) /\ sd.SDC_DEV = Wanted(Deal, n + 1)
      BY <2>1, <3>1, <3>2
    <3>4. sd.address_progression /\ host.pc # "program"
      BY <1>1, <1>2, <1>13
    <3>5. Loads(ram', Deal', n + 1) /\ ram' \in [Address -> Byte]
      BY <1>1, <1>3, <3>2, <3>3, <3>4, LoadStep
    <3>6. QED BY <3>2, <3>5
  <2>5. ReadWalk'
    BY <2>2, <2>3, <2>4 DEF ReadWalk, Loaded
  <2>6. QED BY <1>3, <1>5, <2>2, <2>3, <2>4, <2>5
<1>14. CASE sd.intra \in 6 .. 11
  <2>1. Loaded(BlockLen)
    BY <1>1, <1>14 DEF ReadWalk
  <2>2. /\ SameRoutine /\ sd'.intra \in 6 .. 12 /\ sd'.tx = sd.tx /\ sd'.sdrd = sd.sdrd
        /\ sd'.sdwd = sd.sdwd /\ sd'.address_progression = sd.address_progression
    <3>1. CASE sd.intra \in {6, 7, 9, 11}
      BY <3>1 DEF ReadRow, Plain, Sets, SameLines
    <3>2. CASE sd.intra \in {8, 10}
      BY <3>2 DEF ReadRow, Plain, Sets, SameLines, SameRoutine
    <3>3. QED BY <1>14, <3>1, <3>2
  <2>3. Pulses' /\ sd'.write = 0 /\ sd'.read = 4
    BY <1>2, <1>6, <1>14, <2>2
  <2>4. ram' = ram /\ Loads(ram', Deal', BlockLen)
    BY <1>2, <1>7, <1>14, <2>1
  <2>5. ReadWalk'
    BY <2>2, <2>3, <2>4 DEF ReadWalk, Loaded
  <2>6. QED BY <1>3, <2>2, <2>3, <2>4, <2>5
<1>15. CASE sd.intra = 12
  <2>1. Loaded(BlockLen) /\ ram' = ram /\ Loads(ram', Deal', BlockLen)
    BY <1>1, <1>2, <1>7, <1>15 DEF ReadWalk
  <2>2. CASE ~done
    <3>1. sd' = sd
      BY <1>15, <2>2 DEF ReadRow, Plain, Sets
    <3>2. Pulses' /\ sd'.write = 0 /\ sd'.read = 4
      BY <1>6, <3>1 DEF SameRoutine, Pulses, Reading, Writing
    <3>3. ReadWalk'
      BY <1>15, <2>1, <3>1, <3>2 DEF ReadWalk, Loaded
    <3>4. QED BY <1>3, <2>1, <3>1, <3>2, <3>3
  <2>3. CASE done
    <3>1. /\ sd'.ready = sd.ready /\ sd'.write = sd.write /\ sd'.read = 0 /\ sd'.tx = sd.tx
          /\ sd'.sdwd = sd.sdwd /\ sd'.address_progression = sd.address_progression
      BY <1>15, <2>3 DEF ReadRow, Plain, Sets
    <3>2. Waiting' /\ ~Writing' /\ ~Reading'
      BY <1>1, <3>1 DEF Waiting, Writing, Reading
    <3>3. card'.disk = host'.disk
      BY <1>1, <1>3 DEF RestPlace, SameDeal
    <3>4. Pulses'
      BY <1>2, <1>3, <1>15, <2>1, <3>1, <3>2, <3>3 DEF Pulses, Loaded
    <3>5. QED BY <1>1, <1>3, <2>1, <3>1, <3>4
  <2>4. QED BY <2>2, <2>3
<1>16. QED BY <1>1, <1>8, <1>9, <1>10, <1>11, <1>12, <1>13, <1>14, <1>15

\* The first routines of a call: the block is not moved yet.
CallGoes ==
  /\ SameLines /\ sd'.ready = sd.ready /\ sd'.tx \in Byte
  /\ sd.write # 0 => /\ sd'.read = 0 /\ sd'.write \in 1 .. 3
                     /\ sd'.write = 3 => sd'.intra = 0
  /\ sd.write = 0 => /\ sd'.write = 0 /\ sd'.read \in 1 .. 4
                     /\ sd'.read = 4 => sd'.intra = 0
LEMMA CallStays ==
  ASSUME CtlInv, Opening \/ Commanding \/ Seeking, SameRoutine, SameLines, sd'.tx \in Byte
  PROVE  CallGoes
BY DEF CallGoes, SameRoutine, CtlInv, SdPlace, Opening, Commanding, Seeking
LEMMA CallEnters ==
  ASSUME CtlInv, Opening \/ Commanding \/ Seeking, ~sd.start, sd.tx \in Byte,
         \/ sd.write # 0 /\ sd' = NextWrite
         \/ sd.write = 0 /\ sd' = NextRead
  PROVE  CallGoes
<1>1. \/ sd.write # 0 /\ Enters(sd.init, sd.write + 1, sd.read)
      \/ sd.write = 0 /\ Enters(sd.init, sd.write, sd.read + 1)
  BY NextMoves
<1>2. (sd.write \in 1 .. 2 /\ sd.read = 0) \/ (sd.write = 0 /\ sd.read \in 1 .. 3)
  BY DEF CtlInv, SdPlace, Opening, Commanding, Seeking
<1>3. CASE sd.write \in 1 .. 2
  <2>1. Enters(sd.init, sd.write + 1, sd.read)
    BY <1>1, <1>3
  <2>2. sd'.write = sd.write + 1 /\ sd'.read = 0 /\ sd'.intra = 0 /\ SameLines /\ sd'.tx = sd.tx
        /\ sd'.ready = sd.ready
    BY <1>2, <1>3, <2>1 DEF Enters
  <2>3. QED BY <1>3, <2>2 DEF CallGoes
<1>4. CASE sd.write = 0
  <2>1. Enters(sd.init, sd.write, sd.read + 1)
    BY <1>1, <1>4
  <2>2. sd'.read = sd.read + 1 /\ sd'.write = 0 /\ sd'.intra = 0 /\ SameLines /\ sd'.tx = sd.tx
        /\ sd'.ready = sd.ready
    BY <1>4, <2>1 DEF Enters
  <2>3. QED BY <1>2, <1>4, <2>2 DEF CallGoes
<1>5. QED BY <1>2, <1>3, <1>4

LEMMA OpeningCalls ==
  ASSUME CtlInv, Opening, sd.tx \in Byte,
         sd.write = 1 => FillersRow(NextWrite), sd.write = 0 => FillersRow(NextRead)
  PROVE  CallGoes
<1>1. Filler \in Byte
  BY DEF Filler, Byte
<1>2. ASSUME NEW x, FillersRow(x)
      PROVE  \/ SameRoutine /\ SameLines /\ sd'.tx \in Byte
             \/ sd.intra = 3 /\ sd' = x
  BY <1>1, <1>2 DEF FillersRow, Plain, Sets, SameLines, SameRoutine
<1>3. (sd.write = 1 \/ sd.write = 0) /\ (sd.intra = 3 => ~sd.start)
  BY DEF Opening, CtlInv, StartFalls, Lowering, InFillers, InCommand, Writing, Seeking, Reading
<1>4. CASE sd.write = 1
  <2>1. FillersRow(NextWrite)
    BY <1>4
  <2>2. CASE SameRoutine /\ SameLines /\ sd'.tx \in Byte
    BY <2>2, CallStays
  <2>3. CASE sd.intra = 3 /\ sd' = NextWrite
    BY <1>3, <1>4, <2>3, CallEnters
  <2>4. QED BY <1>2, <2>1, <2>2, <2>3
<1>5. CASE sd.write = 0
  <2>1. FillersRow(NextRead)
    BY <1>5
  <2>2. CASE SameRoutine /\ SameLines /\ sd'.tx \in Byte
    BY <2>2, CallStays
  <2>3. CASE sd.intra = 3 /\ sd' = NextRead
    BY <1>3, <1>5, <2>3, CallEnters
  <2>4. QED BY <1>2, <2>1, <2>2, <2>3
<1>6. QED BY <1>3, <1>4, <1>5

LEMMA CommandCalls ==
  ASSUME CtlInv, Commanding, CommandPlace, sd.tx \in Byte, host.call \in Calls,
         host.sar \in BlockNo, NEW frame,
         \/ sd.write = 2 /\ CommandRow(frame, IF spi.rx = 0 THEN NextWrite ELSE AskAgain)
         \/ sd.write = 0 /\ CommandRow(frame, IF spi.rx = 0 THEN NextRead ELSE AskAgain)
  PROVE  CallGoes
<1>1. Filler \in Byte
  BY DEF Filler, Byte
<1>2. sd.intra = 1 => sd.cmd[sd.n + 1] \in Byte
  <2>1. SUFFICES ASSUME sd.intra = 1 PROVE sd.cmd[sd.n + 1] \in Byte
    OBVIOUS
  <2>2. sd.n \in 0 .. 5 /\ sd.cmd = Frame(host.call, host.sar)
    BY <2>1 DEF CommandPlace
  <2>3. sd.n + 1 \in 1 .. 6
    BY <2>2
  <2>4. QED BY <2>2, <2>3, FrameBytes
<1>3. ASSUME NEW x, CommandRow(frame, x)
      PROVE  \/ SameRoutine /\ SameLines /\ sd'.tx \in Byte
             \/ sd.intra = 8 /\ sd' = x
  <2>1. CASE sd.intra \in {0, 1, 2, 3}
    BY <1>1, <1>2, <1>3, <2>1 DEF CommandRow, Plain, Sets
  <2>2. CASE sd.intra = 4
    BY <1>1, <1>3, <2>2 DEF CommandRow, Plain, Sets, SameLines, SameRoutine
  <2>3. CASE sd.intra \in {5, 6, 7}
    BY <1>1, <1>3, <2>3 DEF CommandRow, Plain, Sets
  <2>4. CASE sd.intra = 8
    BY <1>1, <1>3, <2>4 DEF CommandRow, Plain, Sets, SameLines, SameRoutine
  <2>5. sd.intra \in 0 .. 8
    BY Lowered DEF Commanding, InCommand
  <2>6. QED BY <2>1, <2>2, <2>3, <2>4, <2>5
<1>4. sd.intra = 8 => ~sd.start
  BY DEF Commanding, CtlInv, StartFalls, Lowering, InFillers, InCommand, Writing, Seeking, Reading
<1>5. ASSUME sd.intra = 8, sd' = AskAgain
      PROVE  SameRoutine /\ SameLines /\ sd'.tx \in Byte
  <2>1. ~sd.start
    BY <1>4, <1>5
  <2>2. \E cnt : Plain(6, sd.tx, cnt, FALSE)
    BY <1>5, <2>1, AskMoves
  <2>3. QED BY <2>2 DEF Plain, Sets
<1>6. CASE sd.write = 2
  <2>1. \/ SameRoutine /\ SameLines /\ sd'.tx \in Byte
        \/ sd.intra = 8 /\ sd' = NextWrite
        \/ sd.intra = 8 /\ sd' = AskAgain
    BY <1>3, <1>6
  <2>2. CASE SameRoutine /\ SameLines /\ sd'.tx \in Byte
    BY <2>2, CallStays
  <2>3. CASE sd.intra = 8 /\ sd' = NextWrite
    BY <1>4, <1>6, <2>3, CallEnters
  <2>4. CASE sd.intra = 8 /\ sd' = AskAgain
    BY <1>5, <2>4, CallStays
  <2>5. QED BY <2>1, <2>2, <2>3, <2>4
<1>7. CASE sd.write = 0
  <2>1. \/ SameRoutine /\ SameLines /\ sd'.tx \in Byte
        \/ sd.intra = 8 /\ sd' = NextRead
        \/ sd.intra = 8 /\ sd' = AskAgain
    BY <1>3, <1>7
  <2>2. CASE SameRoutine /\ SameLines /\ sd'.tx \in Byte
    BY <2>2, CallStays
  <2>3. CASE sd.intra = 8 /\ sd' = NextRead
    BY <1>4, <1>7, <2>3, CallEnters
  <2>4. CASE sd.intra = 8 /\ sd' = AskAgain
    BY <1>5, <2>4, CallStays
  <2>5. QED BY <2>1, <2>2, <2>3, <2>4
<1>8. QED BY <1>6, <1>7

LEMMA SeekingCalls ==
  ASSUME CtlInv, Seeking, SeekRow, sd.tx \in Byte
  PROVE  CallGoes
<1>1. Filler \in Byte
  BY DEF Filler, Byte
<1>2. (sd.intra = 3 => ~sd.start) /\ sd.write = 0
  BY DEF CtlInv, StartFalls, Lowering, InFillers, InCommand, Writing, Seeking, Reading
<1>3. \/ SameRoutine /\ SameLines /\ sd'.tx \in Byte
      \/ sd.intra = 3 /\ sd' = NextRead
  BY <1>1 DEF SeekRow, Plain, Sets, SameLines, SameRoutine
<1>4. QED BY <1>2, <1>3, CallStays, CallEnters

\* MAR stands at the buffer's start, RAM is as it was.
LEMMA CallHost ==
  ASSUME CtlInv, Opening \/ Commanding \/ Seeking, CallGoes, Pulses, HostPlace, Walks, Memory
  PROVE  /\ Pulses' /\ ram' = ram /\ host'.pc = "stalled"
         /\ sd'.write # 0 => sd.write # 0 /\ WriteWalk'
         /\ sd'.read # 0 => sd.read # 0 /\ ReadWalk'
<1>1. /\ (sd.write \in 1 .. 2 /\ sd.read = 0) \/ (sd.write = 0 /\ sd.read \in 1 .. 3)
      /\ ~Waiting /\ ~Writing /\ ~Reading /\ ~Idle
  BY DEF CtlInv, SdPlace, Opening, Commanding, Seeking, Waiting, Writing, Reading, Idle
<1>2. ~sd.address_progression /\ ~sd.sdwd /\ ~sd.sdrd /\ host.pc = "stalled"
  BY <1>1 DEF Pulses, HostPlace
<1>3. At(0)
  BY <1>1 DEF HostPlace, WriteWalk, ReadWalk
<1>4. /\ host'.mar = host.mar /\ ~host'.inc /\ host'.buf = host.buf /\ host'.ram = host.ram
      /\ ram' = ram /\ rdata' = ram'[host'.mar] /\ host'.pc = "stalled" /\ Deal' = Deal
  BY <1>2, <1>3, Standing, DealKept DEF At, Walks, dev_stop_signal
<1>5. Pulses'
  <2>1. ~sd'.address_progression /\ ~sd'.sdwd /\ ~sd'.sdrd
    BY <1>2 DEF CallGoes, SameLines
  <2>2. ~(Writing' /\ sd'.intra \in {8, 26}) /\ ~(Reading' /\ sd'.intra \in {1, 5})
    BY DEF CallGoes, Writing, Reading
  <2>3. QED BY <2>1, <2>2 DEF Pulses
<1>6. CASE sd.write # 0
  <2>1. ram = host.ram /\ sd'.write \in 1 .. 3 /\ (sd'.write = 3 => sd'.intra = 0) /\ sd'.read = 0
    BY <1>6 DEF HostPlace, WriteWalk, CallGoes
  <2>2. WriteWalk'
    BY <1>3, <1>4, <2>1 DEF WriteWalk, At, Fresh
  <2>3. QED BY <1>4, <1>5, <1>6, <2>1, <2>2
<1>7. CASE sd.write = 0
  <2>1. Loaded(0) /\ sd'.read \in 1 .. 4 /\ (sd'.read = 4 => sd'.intra = 0) /\ sd'.write = 0
    BY <1>1, <1>7 DEF HostPlace, ReadWalk, CallGoes
  <2>2. Loads(ram', Deal', 0)
    BY <1>4, <2>1 DEF Loaded
  <2>3. ReadWalk'
    BY <1>3, <1>4, <2>1, <2>2 DEF ReadWalk, At, Loaded
  <2>4. QED BY <1>1, <1>4, <1>5, <1>7, <2>1, <2>3
<1>8. QED BY <1>6, <1>7

-----------------------------------------------------------------------------
(* The other parts of CopyInv.                                             *)

LEMMA CtlTick ==
  ASSUME StepInv, NEW calls, Tick(calls)
  PROVE  CtlStep
<1> DEFINE sdws == dev_start_signal /\ host.call = "write"
           sdrs == dev_start_signal /\ host.call = "read"
<1>1. SdClock(sdws, sdrs, host.sar, rdata) /\ CtlInv
  BY DEF Tick, StepInv
<1>2. ~(sdws /\ sdrs)
  OBVIOUS
<1> HIDE DEF sdws, sdrs
<1>3. QED BY <1>1, <1>2, ControllerStep

LEMMA CardLine ==
  ASSUME StepInv, ByteTypes, EdgeParts
  PROVE  card'.miso \in 0 .. 1
<1>1. CASE sd.cs_en
  BY <1>1 DEF EdgeParts, Clears
<1>2. CASE ~sd.cs_en
  <2>1. card.miso \in 0 .. 1 /\ card.out \in Byte
    BY DEF ByteTypes
  <2>2. \/ KeepsScript /\ (Shows \/ Samples \/ Waits)
        \/ Ends(2 * card.in + spi.mosi)
    BY <1>2 DEF EdgeParts, ByteEdge
  <2>3. CASE Shows
    <3>1. 7 - card.bits \in 0 .. 7
      BY <1>2, CountedBits
    <3>2. QED BY <2>1, <2>3, <3>1, OneBitMore DEF Shows
  <2>4. CASE Samples \/ Waits
    BY <2>1, <2>4 DEF Samples, Waits
  <2>5. CASE Ends(2 * card.in + spi.mosi)
    <3>1. PICK c \in Hear(2 * card.in + spi.mosi) : card' = Queued(c)
      BY <2>5 DEF Ends
    <3>2. CardShape(c) /\ c.miso = card.miso
      BY <3>1, HearFields, HearLine DEF StepInv
    <3>3. card'.miso = c.miso
      BY <3>1, <3>2 DEF Queued, CardShape, CardFields
    <3>4. QED BY <2>1, <3>2, <3>3
  <2>6. QED BY <2>2, <2>3, <2>4, <2>5
<1>3. QED BY <1>1, <1>2

LEMMA BytesNext ==
  ASSUME StepInv, ByteTypes, EdgeParts, CardTypes', sd'.tx \in Byte
  PROVE  ByteTypes'
<1>1. spi.state \in 0 .. 3 /\ Byteward /\ ByteInEngine(card.miso)
  BY DEF StepInv, EngInv, SpiShape, EdgeParts
<1>2. /\ spi.txr \in Byte /\ spi.rx \in Byte /\ sd.tx \in Byte /\ spi.mosi \in 0 .. 1
      /\ card.miso \in 0 .. 1 /\ (spi.state = 2 => spi.bit \in 0 .. 7)
  BY DEF ByteTypes
<1>3. spi'.state = 2 => spi'.bit \in 0 .. 7
  <2>1. CASE spi.state \in {0, 3}
    BY <1>1, <2>1 DEF Byteward
  <2>2. CASE spi.state = 1
    BY <1>1, <2>2 DEF Byteward
  <2>3. CASE spi.state = 2
    <3>1. spi'.bit = (spi.bit + 7) % 8 \/ spi'.bit = spi.bit
      BY <1>1, <2>3 DEF Byteward
    <3>2. QED BY <1>2, <2>3, <3>1
  <2>4. QED BY <1>1, <2>1, <2>2, <2>3
<1>4. spi'.txr \in Byte
  BY <1>1, <1>2 DEF ByteInEngine
<1>5. spi'.rx \in Byte
  BY <1>1, <1>2, BitPut DEF ByteInEngine
<1>6. spi'.mosi \in 0 .. 1
  <2>1. 7 \in 0 .. 7
    OBVIOUS
  <2>2. Bit(spi.txr, 7) \in 0 .. 1 /\ (spi.state = 2 => Bit(spi.txr, spi.bit) \in 0 .. 1)
    BY <1>2, <2>1, OneBitMore
  <2>3. QED BY <1>1, <1>2, <2>2 DEF ByteInEngine
<1>7. card'.miso \in 0 .. 1
  BY CardLine
<1>8. QED BY <1>3, <1>4, <1>5, <1>6, <1>7 DEF ByteTypes, CardTypes

LEMMA BitsOfNext ==
  ASSUME StepInv, BitInv, ByteTypes, EdgeParts, CtlStep
  PROVE  BitInv'
<1> SUFFICES ASSUME ~sd'.cs_en PROVE BitInv'
  BY DEF BitInv
<1>1. CASE ~sd.cs_en
  <2>1. ByteEdge
    BY <1>1 DEF EdgeParts
  <2>2. BitsNext
    BY <1>1, <2>1, BitsStep
  <2>3. QED BY <2>2 DEF BitsNext, BitInv
<1>2. CASE sd.cs_en
  <2>1. Resting
    BY <1>2 DEF CtlStep
  <2>2. spi.state = 0 /\ ~sd.start
    BY <2>1 DEF StepInv, Rested, CtlInv, StartFalls, Lowering, WritingUp, Resting, Selecting,
       Waiting, InFillers, InCommand, Writing, Seeking, Reading
  <2>3. spi'.state = 0
    BY <2>2 DEF EdgeParts, Byteward
  <2>4. card'.in = 0
    BY <1>2 DEF EdgeParts, Clears
  <2>5. QED BY <2>3, <2>4 DEF BitInv
<1>3. QED BY <1>1, <1>2

-----------------------------------------------------------------------------
(* No call under way.                                                      *)

IdleStep(sdws, sdrs) ==
  /\ CardPlace' /\ CardTypes' /\ card'.disk = card.disk /\ sd'.tx \in Byte /\ Pulses' /\ ~sd'.sdrd
  /\ IF sdws THEN sd'.write \in 0 .. 1 ELSE sd'.write = 0
  /\ IF sdrs THEN sd'.read \in 0 .. 1 ELSE sd'.read = 0
LEMMA IdleNext ==
  ASSUME StepInv, CopyInv, EdgeParts, Idle, NEW sdws \in BOOLEAN, NEW sdrs \in BOOLEAN,
         ~(sdws /\ sdrs), NEW block, NEW byte, SdClock(sdws, sdrs, block, byte),
         sdws \/ sdrs => host'.disk = card.disk
  PROVE  IdleStep(sdws, sdrs)
<1>1. /\ CtlInv /\ CardShape(card) /\ CardTypes /\ CardPlace /\ Pulses /\ sd.tx \in Byte
      /\ PaceInv /\ BitInv /\ ByteTypes /\ PaceStep
  BY TypesOfCard DEF StepInv, CopyInv, ByteTypes, EdgeParts
<1>2. ~Writing /\ ~Reading /\ sd.write = 0 /\ sd.read = 0
  BY DEF Idle, Writing, Reading
<1>3. ~sd.address_progression /\ ~sd.sdwd
  BY <1>1, <1>2 DEF Pulses
<1>4. CASE ~sd.ready
  <2>1. sd' = Initialise /\ InitPlace
    BY <1>1, <1>4 DEF SdClock, CardPlace
  <2>2. InitSteps
    BY <1>1, <1>4, <2>1, InitialiseMoves
  <2>3. Clears \/ KeepsScript \/ Finishes
    <3>1. CASE sd.cs_en
      BY <3>1 DEF EdgeParts
    <3>2. CASE ~sd.cs_en
      <4>1. Finishes \/ Lasts \/ MovesOn
        BY <1>1, <3>2, EdgeKinds DEF EdgeParts
      <4>2. QED BY <4>1 DEF Lasts, MovesOn
    <3>3. QED BY <3>1, <3>2
  <2>4. CardPlace' /\ CardTypes' /\ card'.disk = card.disk
    BY <1>1, <1>4, <2>1, <2>2, <2>3, StartingNext
  <2>5. ~sd.sdrd
    BY <1>1, <1>4 DEF Pulses, Waiting
  <2>6. /\ sd'.write = 0 /\ sd'.read = 0 /\ sd'.tx \in Byte /\ ~sd'.sdrd /\ ~sd'.sdwd
        /\ ~sd'.address_progression
    BY <1>3, <2>2, <2>5 DEF InitSteps, SamePulses
  <2>7. Pulses'
    BY <2>6 DEF Pulses, Writing, Reading
  <2>8. QED BY <2>4, <2>6, <2>7 DEF IdleStep
<1>5. CASE sd.ready
  <2>1. sd' = Wait(sdws, sdrs) /\ Waiting
    BY <1>2, <1>5 DEF SdClock, Waiting
  <2>2. RestPlace
    BY <1>1, <1>5, CardPlaces
  <2>3. sd.cs_en
    BY <2>1, <2>2 DEF RestPlace
  <2>4. Clears
    BY <2>3 DEF EdgeParts
  <2>5. CardPlace'
    BY <1>1, <2>1, <2>2, <2>4, WaitingGoesOn, CardPlaces
  <2>6. CardTypes' /\ card'.disk = card.disk
    BY <1>1, <2>4 DEF Clears, CardTypes, Filler, Byte
  <2>7. /\ sd'.sdrd = FALSE /\ sd'.sdwd = sd.sdwd /\ sd'.tx = sd.tx
        /\ sd'.address_progression = sd.address_progression
        /\ sd'.write = IF sdws THEN 1 ELSE 0
        /\ sd'.read = IF sdrs THEN 1 ELSE 0
    BY <1>1, <2>1 DEF Wait, CtlInv, SdShape, SdFields
  <2>8. sd'.write \in 0 .. 1 /\ sd'.read \in 0 .. 1
    BY <2>7
  <2>9. Pulses'
    <3>1. ~Writing' /\ ~Reading'
      BY <2>8 DEF Writing, Reading
    <3>2. QED BY <1>3, <2>7, <3>1 DEF Pulses
  <2>10. QED BY <1>1, <2>5, <2>6, <2>7, <2>8, <2>9 DEF IdleStep
<1>6. QED BY <1>1, <1>4, <1>5 DEF CtlInv, SdShape

-----------------------------------------------------------------------------
(* HostPlace, and all of it.                                               *)

\* The processor has begun a call, and waits for its end.
LEMMA HostStays ==
  ASSUME HostPlace, host.pc \in {"start", "stalled"}, Walks, ram' \in [Address -> Byte],
         CardTypes',
         host'.pc # "stalled" => Idle' /\ ~sd'.sdrd /\ BlockCopied',
         sd'.write # 0 => host.call = "write" /\ WriteWalk',
         sd'.read # 0 => host.call = "read" /\ ReadWalk'
  PROVE  HostPlace'
<1>1. /\ DOMAIN host' = HostFields /\ host'.pc \in {"stalled", "done"} /\ host'.call = host.call
      /\ host'.buf = host.buf /\ host'.sar = host.sar
      /\ host'.ram = host.ram /\ host'.disk = host.disk
  BY DEF Walks, SameDeal
<1>2. card'.disk \in [BlockNo -> Block]
  BY DEF CardTypes
<1>3. QED BY <1>1, <1>2 DEF HostPlace, HostFields

LEMMA StoredCopied ==
  ASSUME SameDeal, host.call = "write", ram' = host.ram, Stored(Script, Deal),
         card'.disk = card.disk
  PROVE  BlockCopied'
<1>1. card'.disk = [host.disk EXCEPT ![host.sar] =
                      [i \in 1 .. BlockLen |-> host.ram[host.buf + i - 1]]]
  BY DEF Stored, Sent, Script, Deal
<1>2. QED BY <1>1 DEF BlockCopied, SameDeal

LEMMA LoadedCopied ==
  ASSUME SameDeal, host.call = "read", ram' = ram, Loaded(BlockLen), card'.disk = card.disk,
         card.disk = host.disk
  PROVE  BlockCopied'
<1>1. \A a \in Address :
        ram[a] = IF a \in host.buf .. host.buf + BlockLen - 1 /\ a \notin Unwritten
                 THEN host.disk[host.sar][a - host.buf + 1] ELSE host.ram[a]
  BY DEF Loaded, Loads, Wanted, Deal
<1>2. QED BY <1>1 DEF BlockCopied, SameDeal, InBuffer, Moved

\* The call's pulse: the controller takes it, or does not hear it.
LEMMA StartsHost ==
  ASSUME HostPlace, Pulses, host.pc = "start", Walks, Memory,
         NEW sdws, NEW sdrs, sdws = (host.call = "write"), sdrs = (host.call = "read"),
         IdleStep(sdws, sdrs), CtlInv'
  PROVE  HostPlace'
<1>1. /\ Idle /\ ~sd.sdrd /\ At(0) /\ ram = host.ram /\ host.call \in Calls
      /\ ram \in [Address -> Byte]
  BY DEF HostPlace
<1>2. ~sd.address_progression
  BY <1>1 DEF Pulses, Idle, Writing, Reading
<1>3. /\ host'.mar = host.mar /\ ~host'.inc /\ host'.buf = host.buf /\ host'.ram = host.ram
      /\ ram' = ram /\ rdata' = ram'[host'.mar] /\ host'.pc = "stalled"
  BY <1>1, <1>2, Standing DEF At, Walks
<1>4. sd'.write # 0 => host.call = "write" /\ sd'.write = 1
  <2>1. CASE sdws
    <3>1. host.call = "write"
      BY <2>1
    <3>2. sd'.write \in 0 .. 1
      BY <2>1 DEF IdleStep
    <3>3. QED BY <3>1, <3>2
  <2>2. CASE ~sdws
    BY <2>2 DEF IdleStep
  <2>3. QED BY <2>1, <2>2
<1>5. sd'.read # 0 => host.call = "read" /\ sd'.read = 1
  <2>1. CASE sdrs
    <3>1. host.call = "read"
      BY <2>1
    <3>2. sd'.read \in 0 .. 1
      BY <2>1 DEF IdleStep
    <3>3. QED BY <3>1, <3>2
  <2>2. CASE ~sdrs
    BY <2>2 DEF IdleStep
  <2>3. QED BY <2>1, <2>2
<1>6. At(0)' /\ Fresh' /\ ram' = host'.ram
  BY <1>1, <1>3 DEF At, Fresh
<1>7. sd'.write # 0 => WriteWalk'
  BY <1>4, <1>6 DEF WriteWalk
<1>8. sd'.read # 0 => ReadWalk'
  <2>1. host.buf \in Nat
    BY BufferRoom
  <2>2. Loads(ram', Deal', 0)
    BY <1>3, <1>6, <2>1 DEF Loads, Deal
  <2>3. QED BY <1>5, <1>6, <2>2 DEF ReadWalk, Loaded
<1>9. CardTypes'
  BY DEF IdleStep
<1>10. QED BY <1>1, <1>3, <1>4, <1>5, <1>7, <1>8, <1>9, HostStays

\* No call: the processor is in its program, or comes back to it.
LEMMA ProgramHost ==
  ASSUME HostPlace, Pulses, host.pc \in {"program", "done"}, NEW calls, Host(calls), Memory,
         IdleStep(FALSE, FALSE)
  PROVE  HostPlace'
<1>1. /\ Idle /\ DOMAIN host = HostFields /\ ram \in [Address -> Byte] /\ host.call \in Calls
      /\ card.disk \in [BlockNo -> Block] /\ (host.pc = "program" => ~host.inc)
  BY DEF HostPlace, HostFields
<1>2. ram' = ram
  BY <1>1, RamKept DEF Pulses, Idle, Writing, Reading
<1>3. /\ sd'.write = 0 /\ sd'.read = 0 /\ ~sd'.sdrd /\ card'.disk = card.disk
  BY DEF IdleStep
<1>4. CASE host.pc = "program" /\ calls /\ Call
  <2>1. PICK c \in Calls, a \in Buffers, b \in BlockNo :
          host' = [host EXCEPT !.pc = "start", !.call = c, !.mar = a, !.buf = a, !.sar = b,
                               !.ram = ram, !.disk = card.disk]
    BY <1>4 DEF Call, Calls
  <2>2. /\ DOMAIN host' = HostFields /\ host'.pc = "start" /\ host'.call = c /\ host'.mar = a
        /\ host'.buf = a /\ host'.sar = b /\ host'.ram = ram /\ host'.disk = card.disk
        /\ ~host'.inc
    BY <1>1, <1>4, <2>1 DEF HostFields
  <2>3. host'.mar = host'.buf + 0
    BY <2>2, CardAssumption
  <2>4. QED BY <1>1, <1>2, <1>3, <2>2, <2>3 DEF HostPlace, HostFields, At, Idle
<1>5. CASE host.pc = "program" /\ host' = host
  BY <1>1, <1>2, <1>3, <1>5 DEF HostPlace, HostFields, Idle
<1>6. CASE host.pc = "done"
  <2>1. host' = InProgram(0)
    BY <1>6 DEF Host
  <2>2. /\ DOMAIN host' = HostFields /\ host'.pc = "program" /\ host'.call \in Calls /\ ~host'.inc
    BY <2>1 DEF InProgram, HostFields, Calls
  <2>3. QED BY <1>1, <1>2, <1>3, <2>2 DEF HostPlace, HostFields, Idle
<1>7. (host.pc = "program" /\ calls /\ Call) \/ (host.pc = "program" /\ host' = host)
      \/ host.pc = "done"
  BY DEF Host
<1>8. QED BY <1>4, <1>5, <1>6, <1>7

\* Stalled, and the controller has finished, or never begun.
LEMMA StalledIdle ==
  ASSUME HostPlace, Pulses, host.pc = "stalled", Idle, Walks, Memory, IdleStep(FALSE, FALSE)
  PROVE  HostPlace'
<1>1. ~sd.address_progression /\ ~sd.sdwd
  BY DEF Pulses, Idle, Writing, Reading
<1>2. ram' = ram /\ ram \in [Address -> Byte]
  BY <1>1, RamKept DEF HostPlace
<1>3. sd'.write = 0 /\ sd'.read = 0 /\ ~sd'.sdrd /\ card'.disk = card.disk /\ CardTypes'
  BY DEF IdleStep
<1>4. host'.pc # "stalled" => BlockCopied'
  <2>1. SUFFICES ASSUME host'.pc # "stalled" PROVE BlockCopied'
    OBVIOUS
  <2>2. sd.sdrd
    BY <1>1, <2>1 DEF Walks, dev_stop_signal
  <2>3. host.call = "read" /\ Loaded(BlockLen) /\ card.disk = host.disk
    BY <2>2 DEF Pulses
  <2>4. QED BY <1>2, <1>3, <2>3, LoadedCopied DEF Walks
<1>5. QED BY <1>2, <1>3, <1>4, HostStays DEF Idle

\* Stalled, and the block is on its way.
LEMMA StalledServed ==
  ASSUME StepInv, CopyInv, EdgeParts, host.pc = "stalled", ~Idle, Walks, Memory,
         NEW sdws, NEW sdrs, SdClock(sdws, sdrs, host.sar, rdata)
  PROVE  CardPlace' /\ CardTypes' /\ Pulses' /\ sd'.tx \in Byte /\ HostPlace'
<1>1. /\ CtlInv /\ sd.ready /\ CardPlace /\ Pulses /\ HostPlace /\ PaceInv /\ sd.tx \in Byte
      /\ SameDeal /\ host.sar \in BlockNo /\ host.call \in Calls
  BY DEF StepInv, CopyInv, ByteTypes, Walks, HostPlace, CtlInv, SdShape, SdPlace, Idle
<1>2. /\ RoutinePlace /\ RestPlace /\ ram \in [Address -> Byte]
  BY <1>1, CardPlaces DEF HostPlace
<1>3. (sd.write # 0 => sd.read = 0) /\ sd.write \in 0 .. 3 /\ sd.read \in 0 .. 4
      /\ ~(sd.write = 0 /\ sd.read = 0)
  BY <1>1 DEF CtlInv, SdPlace, Idle
<1>4. Writing /\ sd.intra = 6 => rdata = Sent(Deal, sd.cnt + 1)
  <2>1. SUFFICES ASSUME Writing, sd.intra = 6 PROVE rdata = Sent(Deal, sd.cnt + 1)
    OBVIOUS
  <2>2. At(sd.cnt) /\ Fresh /\ ram = host.ram
    BY <1>1, <2>1 DEF HostPlace, WriteWalk, Writing
  <2>3. sd.cnt \in 0 .. BlockLen - 1 /\ host.buf \in Nat /\ BlockLen \in Nat
    BY <1>1, <1>2, <2>1, BufferRoom DEF RoutinePlace, WritePlace
  <2>4. host.buf + (sd.cnt + 1) - 1 = host.buf + sd.cnt
    BY <2>3
  <2>5. QED BY <2>2, <2>4 DEF At, Fresh, Sent, Deal
<1>5. /\ CardPlace' /\ CardTypes'
      /\ card'.disk = card.disk \/ (Writing /\ sd.intra = 15)
  BY <1>1, <1>4, ServingNext
<1>6. CASE Writing
  <2>1. /\ sd.write = 3 /\ host.call = "write" /\ ram = host.ram
    BY <1>1, <1>6 DEF Writing, HostPlace, WriteWalk
  <2>2. WriteRow(rdata)
    BY <1>1, <1>6, RoutineRows
  <2>3. /\ Pulses' /\ sd'.tx \in Byte /\ ram' = ram /\ sd'.read = 0
        /\ sd'.write # 0 => WriteWalk'
        /\ sd.sdwd => sd'.write = 0 /\ ~sd'.sdrd
    <3>1. Byteward /\ (Turns \/ Holds)
      BY DEF EdgeParts
    <3>2. QED BY <1>1, <1>2, <1>6, <2>2, <3>1, WritingHost
  <2>4. host'.pc # "stalled" => sd.sdwd
    BY <1>1, <2>1 DEF Walks, dev_stop_signal
  <2>5. sd.sdwd => BlockCopied'
    <3>1. SUFFICES ASSUME sd.sdwd PROVE BlockCopied'
      OBVIOUS
    <3>2. sd.intra = 26
      BY <1>1, <3>1 DEF Pulses
    <3>3. Stored(Script, Deal)
      BY <1>2, <1>6, <3>2 DEF RoutinePlace, WritePlace
    <3>4. card'.disk = card.disk
      BY <1>5, <3>2
    <3>5. QED BY <1>1, <2>1, <2>3, <3>3, <3>4, StoredCopied
  <2>6. HostPlace'
    BY <1>1, <1>2, <1>5, <2>1, <2>3, <2>4, <2>5, HostStays DEF Idle
  <2>7. QED BY <1>5, <2>3, <2>6
<1>7. CASE Reading
  <2>1. host.call = "read" /\ ReadRow /\ card'.disk = card.disk
    BY <1>1, <1>5, <1>7, RoutineRows DEF Reading, Writing, HostPlace
  <2>2. /\ Pulses' /\ sd'.tx \in Byte /\ ram' \in [Address -> Byte] /\ sd'.write = 0
        /\ sd'.read # 0 => ReadWalk'
        /\ host'.pc = "stalled"
    BY <1>1, <1>2, <1>7, <2>1, ReadingHost
  <2>3. HostPlace'
    BY <1>1, <1>5, <2>1, <2>2, HostStays
  <2>4. QED BY <1>5, <2>2, <2>3
<1>8. CASE Opening \/ Commanding \/ Seeking
  <2>1. CallGoes
    <3>1. CASE Opening
      <4>1. (sd.write = 1 => FillersRow(NextWrite)) /\ (sd.write = 0 => FillersRow(NextRead))
        BY <1>1, <3>1, RoutineRows
      <4>2. QED BY <1>1, <3>1, <4>1, OpeningCalls
    <3>2. CASE Commanding
      <4>1. CommandPlace /\ (sd.write = 2 \/ sd.write = 0)
        BY <1>2, <3>2 DEF RoutinePlace, Commanding
      <4>2. CASE sd.write = 2
        <5>1. CommandRow(CMD_24(host.sar), IF spi.rx = 0 THEN NextWrite ELSE AskAgain)
          BY <1>1, <3>2, <4>2, RoutineRows
        <5>2. QED BY <1>1, <3>2, <4>1, <4>2, <5>1, CommandCalls
      <4>3. CASE sd.write = 0
        <5>1. CommandRow(CMD_17(host.sar), IF spi.rx = 0 THEN NextRead ELSE AskAgain)
          BY <1>1, <3>2, <4>3, RoutineRows
        <5>2. QED BY <1>1, <3>2, <4>1, <4>3, <5>1, CommandCalls
      <4>4. QED BY <4>1, <4>2, <4>3
    <3>3. CASE Seeking
      <4>1. SeekRow
        BY <1>1, <3>3, RoutineRows
      <4>2. QED BY <1>1, <3>3, <4>1, SeekingCalls
    <3>4. QED BY <1>8, <3>1, <3>2, <3>3
  <2>2. /\ Pulses' /\ ram' = ram /\ host'.pc = "stalled"
        /\ sd'.write # 0 => sd.write # 0 /\ WriteWalk'
        /\ sd'.read # 0 => sd.read # 0 /\ ReadWalk'
    BY <1>1, <1>8, <2>1, CallHost
  <2>3. (sd.write # 0 => host.call = "write") /\ (sd.read # 0 => host.call = "read")
    BY <1>1 DEF HostPlace
  <2>4. HostPlace'
    BY <1>1, <1>2, <1>5, <2>2, <2>3, HostStays
  <2>5. QED BY <1>5, <2>1, <2>2, <2>4 DEF CallGoes
<1>9. Opening \/ Commanding \/ Writing \/ Seeking \/ Reading
  BY <1>1, <1>3 DEF Opening, Commanding, Writing, Seeking, Reading
<1>10. QED BY <1>6, <1>7, <1>8, <1>9

LEMMA CopyInvTick ==
  ASSUME StepInv, CopyInv, NEW calls \in BOOLEAN, Tick(calls)
  PROVE  CopyInv'
<1> DEFINE sdws == dev_start_signal /\ host.call = "write"
           sdrs == dev_start_signal /\ host.call = "read"
<1>1. SdClock(sdws, sdrs, host.sar, rdata) /\ Host(calls) /\ Memory
  BY DEF Tick
<1>2. EdgeParts /\ CtlStep
  BY TickParts, CtlTick
<1>3. /\ sdws \in BOOLEAN /\ sdrs \in BOOLEAN /\ ~(sdws /\ sdrs)
      /\ sdws = (host.pc = "start" /\ host.call = "write")
      /\ sdrs = (host.pc = "start" /\ host.call = "read")
  BY DEF dev_start_signal
<1> HIDE DEF sdws, sdrs
<1>4. HostPlace /\ Pulses /\ ByteTypes /\ BitInv /\ (host.pc # "stalled" => Idle)
  BY DEF CopyInv, HostPlace
<1>5. CardPlace' /\ CardTypes' /\ Pulses' /\ sd'.tx \in Byte /\ HostPlace'
  <2>1. CASE host.pc \in {"program", "done"}
    <3>1. sdws = FALSE /\ sdrs = FALSE
      BY <1>3, <2>1
    <3>2. IdleStep(FALSE, FALSE)
      BY <1>1, <1>2, <1>4, <2>1, <3>1, IdleNext
    <3>3. HostPlace'
      BY <1>1, <1>4, <2>1, <3>2, ProgramHost
    <3>4. QED BY <3>2, <3>3 DEF IdleStep
  <2>2. CASE host.pc = "start"
    <3>1. Walks
      BY <1>1, <1>4, <2>2, HostWalks
    <3>2. host'.disk = card.disk
      BY <1>4, <2>2, <3>1 DEF Walks, SameDeal, HostPlace
    <3>3. IdleStep(sdws, sdrs)
      BY <1>1, <1>2, <1>3, <1>4, <2>2, <3>2, IdleNext
    <3>4. sdws = (host.call = "write") /\ sdrs = (host.call = "read")
      BY <1>3, <2>2
    <3>5. HostPlace'
      BY <1>1, <1>2, <1>4, <2>2, <3>1, <3>3, <3>4, StartsHost DEF CtlStep
    <3>6. QED BY <3>3, <3>5 DEF IdleStep
  <2>3. CASE host.pc = "stalled"
    <3>1. Walks
      BY <1>1, <1>4, <2>3, HostWalks
    <3>2. CASE Idle
      <4>1. sdws = FALSE /\ sdrs = FALSE
        BY <1>3, <2>3
      <4>2. IdleStep(FALSE, FALSE)
        BY <1>1, <1>2, <3>2, <4>1, IdleNext
      <4>3. HostPlace'
        BY <1>1, <1>4, <2>3, <3>1, <3>2, <4>2, StalledIdle
      <4>4. QED BY <4>2, <4>3 DEF IdleStep
    <3>3. CASE ~Idle
      BY <1>1, <1>2, <2>3, <3>1, <3>3, StalledServed
    <3>4. QED BY <3>2, <3>3
  <2>4. QED BY <1>4, <2>1, <2>2, <2>3 DEF HostPlace
<1>6. PaceInv'
  BY <1>2 DEF EdgeParts
<1>7. ByteTypes'
  BY <1>2, <1>4, <1>5, BytesNext
<1>8. BitInv'
  BY <1>2, <1>4, BitsOfNext
<1>9. QED BY <1>5, <1>6, <1>7, <1>8 DEF CopyInv

LEMMA CopyInvInit == Init => CopyInv
<1> SUFFICES ASSUME Init PROVE CopyInv
  OBVIOUS
<1>1. /\ sd = SdInit /\ spi = SpiInit /\ ram = Ram /\ rdata = 0 /\ host = InProgram(0)
      /\ \E polls \in 0 .. MaxPolls : card = CardInit(polls)
  BY DEF Init
<1>2. /\ ~sd.ready /\ sd.init = 0 /\ sd.write = 0 /\ sd.read = 0 /\ sd.tx = 0 /\ sd.cs_en
      /\ ~sd.address_progression /\ ~sd.sdwd /\ ~sd.sdrd
  BY <1>1 DEF SdInit
<1>3. /\ ~InFillers /\ ~InCommand /\ ~Writing /\ ~Seeking /\ ~Reading /\ ~Waiting /\ ~Opening
      /\ ~Commanding /\ Idle
  BY <1>2 DEF InFillers, InCommand, Writing, Seeking, Reading, Waiting, Opening, Commanding, Idle
<1>4. /\ spi.state = 0 /\ spi.txr = 0 /\ spi.rx = 0 /\ spi.mosi = 1
  BY <1>1 DEF SpiInit
<1>5. /\ card.want = "command" /\ card.heard = <<>> /\ card.queue = <<>> /\ card.out = 255
      /\ card.miso = 1 /\ card.disk = Disk
  BY <1>1 DEF CardInit, Filler
<1>6. PaceInv
  BY <1>3, <1>4 DEF PaceInv, Lowering, Awaiting
<1>7. ByteTypes
  <2>1. 0 \in Byte /\ 255 \in Byte
    BY DEF Byte
  <2>2. <<>> \in Seq(Byte)
    OBVIOUS
  <2>3. QED BY <1>2, <1>4, <1>5, <2>1, <2>2 DEF ByteTypes
<1>8. BitInv
  BY <1>2 DEF BitInv
<1>9. CardPlace
  BY <1>2, <1>3, <1>5 DEF CardPlace, InitPlace
<1>10. Pulses
  BY <1>2, <1>3 DEF Pulses
<1>11. HostPlace
  <2>1. /\ DOMAIN host = HostFields /\ host.pc = "program" /\ host.call = "write" /\ ~host.inc
    BY <1>1 DEF InProgram, HostFields
  <2>2. QED BY <1>1, <1>2, <1>3, <1>5, <2>1, CardAssumption DEF HostPlace, HostFields, Calls
<1>12. QED BY <1>6, <1>7, <1>8, <1>9, <1>10, <1>11 DEF CopyInv

LEMMA CopyInvStutter == ASSUME CopyInv, UNCHANGED vars PROVE CopyInv'
<1>1. sd' = sd /\ spi' = spi /\ host' = host /\ ram' = ram /\ rdata' = rdata /\ card' = card
  BY DEF vars
<1>2. Script' = Script /\ Deal' = Deal /\ (Over' <=> Over) /\ Told' = Told /\ (Hung' <=> Hung)
  BY <1>1 DEF Script, Deal, Over, Told, Hung, Writing
<1>3. /\ (Opening' <=> Opening) /\ (Commanding' <=> Commanding) /\ (Writing' <=> Writing)
      /\ (Seeking' <=> Seeking) /\ (Reading' <=> Reading) /\ (Waiting' <=> Waiting)
      /\ (InCommand' <=> InCommand) /\ (InFillers' <=> InFillers) /\ (Idle' <=> Idle)
  BY <1>1, PlacesKept DEF Idle, InFillers
<1>4. PaceInv'
  BY <1>1, <1>2, <1>3 DEF CopyInv, PaceInv, Lowering, Awaiting
<1>5. ByteTypes'
  BY <1>1 DEF CopyInv, ByteTypes
<1>6. BitInv'
  BY <1>1, <1>2 DEF CopyInv, BitInv
<1>7. CardPlace'
  <2>1. Opening => (OpeningPlace' <=> OpeningPlace)
    BY <1>1, <1>2 DEF OpeningPlace
  <2>2. CommandPlace' <=> CommandPlace
    BY <1>1, <1>2 DEF CommandPlace
  <2>3. WritePlace' <=> WritePlace
    BY <1>1, <1>2 DEF WritePlace
  <2>4. SeekPlace' <=> SeekPlace
    BY <1>1, <1>2 DEF SeekPlace
  <2>5. ReadPlace' <=> ReadPlace
    BY <1>1, <1>2 DEF ReadPlace
  <2>6. InitPlace' <=> InitPlace
    BY <1>1, <1>3 DEF InitPlace
  <2>7. QED BY <1>1, <1>3, <2>1, <2>2, <2>3, <2>4, <2>5, <2>6 DEF CopyInv, CardPlace
<1>8. \A n : Loaded(n) => Loads(ram', Deal', n)
  BY <1>1, <1>2 DEF Loaded
<1>9. Pulses'
  BY <1>1, <1>3, <1>8 DEF CopyInv, Pulses, Loaded
<1>10. HostPlace'
  <2>1. WriteWalk => WriteWalk'
    BY <1>1 DEF WriteWalk, At, Fresh
  <2>2. ReadWalk => ReadWalk'
    BY <1>1, <1>2 DEF ReadWalk, At, Loaded
  <2>3. BlockCopied => BlockCopied'
    BY <1>1 DEF BlockCopied, InBuffer, Moved
  <2>4. QED BY <1>1, <1>3, <2>1, <2>2, <2>3 DEF CopyInv, HostPlace, At
<1>11. QED BY <1>4, <1>5, <1>6, <1>7, <1>9, <1>10 DEF CopyInv

LEMMA CopyInvNext == StepInv /\ CopyInv /\ [Next]_vars => CopyInv'
BY CopyInvTick, CopyInvStutter DEF Next

\* A processor that goes on after sys_sd_write has its block in the card, one
\* that goes on after sys_sd_read has it in RAM but for the bytes that RAM takes
\* no write at (RAM.v:32868-32872), and nothing else has changed: for every clock
\* divider, start-up time, block length, buffer, block number and set of such
\* bytes, and for every card, however long it takes over its answers, whatever
\* it is asked, and whether or not it refuses a block (write_state, read_state
\* and address_progression, SPISDCONTROLLER.v:554-1069; wfi_dev, CM.v).
THEOREM BlocksCopied == Spec => []BlockCopied
<1>1. CopyInv => BlockCopied
  BY DEF CopyInv, HostPlace, BlockCopied
<1>2. StepInv /\ CopyInv /\ [Next]_vars => StepInv' /\ CopyInv'
  BY StepInvNext, CopyInvNext
<1>3. Init => StepInv /\ CopyInv
  BY StepInvInit, CopyInvInit
<1>4. QED
  BY <1>1, <1>2, <1>3, PTL DEF Spec
===============================================================================
