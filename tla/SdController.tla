----------------------------- MODULE SdController -----------------------------
(***************************************************************************)
(* SD_Controller and SPI_Engine (Soft Core/SPISDCONTROLLER.v; the engine   *)
(* also stands alone in SPISDENGINE.v), one clock edge at a time.  The     *)
(* controller brings a card up, then writes or reads one block for each    *)
(* pulse of sdws or sdrs.  The engine exchanges a byte, bit by bit.        *)
(* init_state, write_state and read_state are sd.init, sd.write, sd.read;  *)
(* intra_state and cnt are shared by all three, as in the code.            *)
(***************************************************************************)
EXTENDS Integers, Sequences

CONSTANTS
  PowerUp,      \* clock cycles before the first byte (400000)
  InitBytes,    \* the first fillers are InitBytes + 1 bytes (80)
  Slow, Fast,   \* clk_cnt during initialisation and after it (199, 15)
  BlockLen      \* bytes of a block (512)

ASSUME SdAssumption ==
  /\ PowerUp \in Nat /\ InitBytes \in Nat
  /\ Slow \in Nat \ {0} /\ Fast \in Nat \ {0}
  /\ BlockLen \in Nat \ {0}

VARIABLES
  sd,     \* registers of SD_Controller
  spi     \* registers of SPI_Engine

Byte == 0 .. 255
Weight(k) == <<1, 2, 4, 8, 16, 32, 64, 128, 256>>[k + 1]
Bit(byte, k) == (byte \div Weight(k)) % 2
WithBit(byte, k, v) == byte + (v - Bit(byte, k)) * Weight(k)

Filler == 255
StartToken == 254
CMD_0 == <<64, 0, 0, 0, 0, 149>>
CMD_8 == <<72, 0, 0, 1, 170, 135>>
CMD_55 == <<119, 0, 0, 0, 0, 101>>
ACMD_41 == <<105, 64, 0, 0, 0, 119>>
Addressing(code, block) ==
  <<code, block \div 16777216, (block \div 65536) % 256, (block \div 256) % 256, block % 256, 255>>
CMD_24(block) == Addressing(88, block)
CMD_17(block) == Addressing(81, block)

done == spi.state = 3

SdInit ==
  [init |-> 0, write |-> 0, read |-> 0, intra |-> 0, cnt |-> 0, n |-> 0, cmd |-> CMD_0,
   ready |-> FALSE, start |-> FALSE, cs_en |-> TRUE, clk_cnt |-> Slow, tx |-> 0,
   address_progression |-> FALSE, sdwd |-> FALSE, sdrd |-> FALSE, SDC_DEV |-> 0]

-----------------------------------------------------------------------------
(* What the states of the controller have in common.                       *)

Offer(byte, k) == [sd EXCEPT !.tx = byte, !.intra = k]
Raise(k) == [sd EXCEPT !.start = TRUE, !.intra = k]
Lower(k) == [sd EXCEPT !.start = FALSE, !.intra = k]

\* limit + 1 bytes FFh, when cnt was 0 before; then the controller goes on.
Fillers(limit, then) ==
  CASE sd.intra = 0 -> Offer(Filler, 1)
    [] sd.intra = 1 -> Raise(2)
    [] sd.intra = 2 -> Lower(3)
    [] sd.intra = 3 ->
         IF ~done THEN sd
         ELSE IF sd.cnt < limit THEN [sd EXCEPT !.cnt = @ + 1, !.intra = 1]
         ELSE then

\* Six bytes of a command, then FFh until answered ends the wait.
Command(frame, answered) ==
  CASE sd.intra = 0 -> [sd EXCEPT !.n = 0, !.cmd = frame, !.intra = 1,
                                  !.cnt = IF sd.init = 9 THEN 0 ELSE @]
    [] sd.intra = 1 -> Offer(sd.cmd[sd.n + 1], 2)
    [] sd.intra = 2 -> Raise(3)
    [] sd.intra = 3 -> Lower(4)
    [] sd.intra = 4 ->
         IF ~done THEN sd
         ELSE IF sd.n = 5
         THEN [sd EXCEPT !.intra = 5, !.cnt = IF sd.init = 5 THEN 0 ELSE @]
         ELSE [sd EXCEPT !.intra = 1, !.n = @ + 1]
    [] sd.intra = 5 -> Offer(Filler, 6)
    [] sd.intra = 6 -> Raise(7)
    [] sd.intra = 7 -> Lower(8)
    [] sd.intra = 8 -> IF done THEN answered ELSE sd

AskAgain == [sd EXCEPT !.intra = 6]
NextInit == [sd EXCEPT !.init = @ + 1, !.intra = 0]

-----------------------------------------------------------------------------
(* Initialisation.                                                         *)

\* The five bytes of the answer to CMD 8; anything else starts the count anew.
AnswerR7 ==
  IF sd.cnt < 4 /\ spi.rx = <<1, 0, 0, 1>>[sd.cnt + 1]
  THEN [AskAgain EXCEPT !.cnt = @ + 1]
  ELSE IF sd.cnt = 4 /\ spi.rx = 170 THEN [NextInit EXCEPT !.cnt = 0]
  ELSE [AskAgain EXCEPT !.cnt = 0]

\* Mutant: one byte less.
PatienceOneLess == 4
Patience == 5

Initialised(rx) == rx = 0

\* Ready; or no answer yet, six times at most; or back to CMD 55.
AnswerACMD41 ==
  IF Initialised(spi.rx)
  THEN [NextInit EXCEPT !.ready = TRUE, !.clk_cnt = Fast, !.cnt = 0, !.cs_en = TRUE]
  ELSE IF spi.rx = Filler /\ sd.cnt < Patience THEN [AskAgain EXCEPT !.cnt = @ + 1]
  ELSE [sd EXCEPT !.cnt = 0, !.init = 6, !.intra = 0]

Initialise ==
  CASE sd.init = 0 ->
         IF sd.cnt = PowerUp THEN [NextInit EXCEPT !.cnt = 0] ELSE [sd EXCEPT !.cnt = @ + 1]
    [] sd.init = 1 -> Fillers(InitBytes, [sd EXCEPT !.init = 2])
    [] sd.init = 2 -> [NextInit EXCEPT !.cs_en = FALSE, !.cnt = 0, !.n = 0, !.cmd = CMD_0]
    [] sd.init = 3 ->
         Command(CMD_0, IF spi.rx = 1 THEN [NextInit EXCEPT !.cnt = 0] ELSE AskAgain)
    [] sd.init = 4 -> Fillers(6, NextInit)
    [] sd.init = 5 -> Command(CMD_8, AnswerR7)
    [] sd.init = 6 -> Fillers(2, NextInit)
    [] sd.init = 7 -> Command(CMD_55, IF spi.rx = 1 THEN NextInit ELSE AskAgain)
    [] sd.init = 8 -> Fillers(2, NextInit)
    [] sd.init = 9 -> Command(ACMD_41, AnswerACMD41)

-----------------------------------------------------------------------------
(* Writing and reading a block.                                            *)

\* Mutant: what the card thinks of the block is not looked at.
AcceptedUnseen(rx) == TRUE
Accepted(rx) == rx % 8 = 5

More == sd.cnt < BlockLen - 1

\* Mutant: done is waited for a second time.
ByteGoneAgain == done
ByteGone == done \/ sd.cnt > 0

WriteData(DEV_SDC) ==
  CASE sd.intra \in {0, 10, 18} -> Offer(Filler, sd.intra + 1)
    [] sd.intra \in {1, 4, 11, 19, 23} -> Raise(sd.intra + 1)
    [] sd.intra \in {2, 12, 14, 16, 20, 24} -> Lower(sd.intra + 1)
    [] sd.intra = 3 -> IF done THEN Offer(StartToken, 4) ELSE sd
    [] sd.intra = 5 -> [Lower(6) EXCEPT !.cnt = 0]
    [] sd.intra = 6 -> IF ByteGone THEN Offer(DEV_SDC, 7) ELSE sd
    [] sd.intra = 7 -> [Raise(8) EXCEPT !.address_progression = TRUE]
    [] sd.intra = 8 -> [Lower(9) EXCEPT !.address_progression = FALSE]
    [] sd.intra = 9 ->
         IF ~done THEN sd
         ELSE IF More THEN [sd EXCEPT !.cnt = @ + 1, !.intra = 6]
         ELSE [sd EXCEPT !.intra = 10]
    [] sd.intra \in {13, 15} -> IF done THEN Raise(sd.intra + 1) ELSE sd
    [] sd.intra = 17 ->
         IF done /\ Accepted(spi.rx) THEN [sd EXCEPT !.intra = 18, !.cnt = 0] ELSE sd
    [] sd.intra = 21 ->
         IF ~done THEN sd ELSE [sd EXCEPT !.intra = IF Bit(spi.rx, 0) = 1 THEN 22 ELSE 19]
    [] sd.intra = 22 -> [Offer(Filler, 23) EXCEPT !.cs_en = TRUE]
    [] sd.intra = 25 -> IF done THEN [sd EXCEPT !.intra = 26, !.sdwd = TRUE] ELSE sd
    [] sd.intra = 26 -> [sd EXCEPT !.write = 0, !.intra = 0, !.cnt = 0, !.sdwd = FALSE]

NextWrite == [sd EXCEPT !.write = @ + 1, !.intra = 0]
NextRead == [sd EXCEPT !.read = @ + 1, !.intra = 0]

Write(block, DEV_SDC) ==
  CASE sd.write = 1 -> Fillers(2, NextWrite)
    [] sd.write = 2 -> Command(CMD_24(block), IF spi.rx = 0 THEN NextWrite ELSE AskAgain)
    [] sd.write = 3 -> WriteData(DEV_SDC)

ReadToken ==
  CASE sd.intra = 0 -> Offer(Filler, 1)
    [] sd.intra = 1 -> Raise(2)
    [] sd.intra = 2 -> Lower(3)
    [] sd.intra = 3 ->
         IF ~done THEN sd
         ELSE IF spi.rx = StartToken THEN NextRead ELSE [sd EXCEPT !.intra = 1]

ReadData ==
  CASE sd.intra = 0 -> [Offer(Filler, 1) EXCEPT !.cnt = 0]
    [] sd.intra = 1 -> [Raise(2) EXCEPT !.address_progression = FALSE]
    [] sd.intra \in {2, 7, 9, 11} -> Lower(sd.intra + 1)
    [] sd.intra = 3 -> IF done THEN [sd EXCEPT !.SDC_DEV = spi.rx, !.intra = 4] ELSE sd
    [] sd.intra = 4 ->
         [sd EXCEPT !.address_progression = TRUE,
                    !.cnt = IF More THEN @ + 1 ELSE 0,
                    !.intra = IF More THEN 1 ELSE 5]
    [] sd.intra = 5 -> [Offer(Filler, 6) EXCEPT !.address_progression = FALSE, !.cnt = 0]
    [] sd.intra = 6 -> Raise(7)
    [] sd.intra \in {8, 10} -> IF done THEN Raise(sd.intra + 1) ELSE sd
    [] sd.intra = 12 ->
         IF done THEN [sd EXCEPT !.read = 0, !.intra = 0, !.cs_en = TRUE, !.sdrd = TRUE] ELSE sd

Read(block) ==
  CASE sd.read = 1 -> Fillers(4, NextRead)
    [] sd.read = 2 -> Command(CMD_17(block), IF spi.rx = 0 THEN NextRead ELSE AskAgain)
    [] sd.read = 3 -> ReadToken
    [] sd.read = 4 -> ReadData

Wait(sdws, sdrs) ==
  [sd EXCEPT !.cs_en = @ /\ ~sdws /\ ~sdrs, !.sdrd = FALSE,
             !.write = IF sdws THEN 1 ELSE 0, !.read = IF sdrs THEN 1 ELSE 0]

\* The caller never raises sdws and sdrs together or during a transfer.
SdClock(sdws, sdrs, block, DEV_SDC) ==
  sd' = IF ~sd.ready THEN Initialise
        ELSE IF sd.write # 0 THEN Write(block, DEV_SDC)
        ELSE IF sd.read # 0 THEN Read(block)
        ELSE Wait(sdws, sdrs)

-----------------------------------------------------------------------------
(* SPI_Engine                                                              *)

SpiInit ==
  [state |-> 0, div |-> 0, sclk |-> FALSE, rise |-> FALSE, fall |-> FALSE, bit |-> 0,
   txr |-> 0, rx |-> 0, mosi |-> 1]

\* The clock divider runs while a byte is under way.
Divided ==
  IF spi.state \notin {1, 2} THEN [spi EXCEPT !.div = 0, !.rise = FALSE, !.fall = FALSE]
  ELSE IF spi.div = sd.clk_cnt
  THEN [spi EXCEPT !.div = 0, !.sclk = ~@, !.rise = ~spi.sclk, !.fall = spi.sclk]
  ELSE [spi EXCEPT !.div = @ + 1, !.rise = FALSE, !.fall = FALSE]

Aligned == [Divided EXCEPT !.state = 2, !.bit = 7, !.mosi = Bit(spi.txr, 7)]

\* Mutant: a byte has seven bits.
LastBitEarly == spi.bit = 1
LastBit == spi.bit = 0

Exchange(miso) ==
  IF spi.fall THEN [Divided EXCEPT !.mosi = Bit(spi.txr, spi.bit)]
  ELSE IF spi.rise
  THEN [Divided EXCEPT !.rx = WithBit(@, spi.bit, miso), !.bit = (@ + 7) % 8,
                       !.state = IF LastBit THEN 3 ELSE 2]
  ELSE Divided

SpiClock(miso) ==
  spi' = CASE spi.state = 0 -> IF sd.start THEN [Divided EXCEPT !.state = 1, !.txr = sd.tx]
                               ELSE Divided
           [] spi.state = 1 -> IF spi.fall THEN Aligned ELSE Divided
           [] spi.state = 2 -> Exchange(miso)
           [] spi.state = 3 -> [Divided EXCEPT !.state = 0]
===============================================================================
