-------------------------------- MODULE SdCard --------------------------------
(***************************************************************************)
(* The path of sys_sd_read and sys_sd_write: the byte store of CM.v with   *)
(* the device bus set to RAM and SD card, which raises dev_start_signal    *)
(* for one cycle and stalls (wfi_dev) until the controller pulses sdwd or  *)
(* sdrd; MAR and RAM, which address_progression walks through the block;   *)
(* the controller and its engine (SdController); and, outside, the card,   *)
(* which is modelled as far as the controller uses it.                     *)
(*                                                                         *)
(* Blocks are numbered from 0 and addressed by their number.  The card     *)
(* follows cs and sclk: it samples mosi on a rising edge, moves miso on a  *)
(* falling one, and lets 0 or more bytes pass before it answers.           *)
(***************************************************************************)
EXTENDS SdController

CONSTANTS
  RamTop,      \* addresses of RAM are 0 .. RamTop - 1
  Ram,         \* RAM when a program first uses the card
  Unwritten,   \* addresses RAM.v takes no write at: 4 * 1795 to 4 * 1799
  Blocks,      \* blocks of the card are 0 .. Blocks - 1
  Disk,        \* the card's contents at power-up
  Buffers,     \* addresses a program passes to the calls
  Delays,      \* how many bytes a card may let pass before an answer
  Busy,        \* how many bytes it may be busy after it accepted a block
  MaxPolls     \* how often it may answer ACMD 41 with "not yet"

VARIABLES
  host,        \* the processor in a sys_sd call, with MAR and SAR
  ram, rdata,  \* RAM and the output register of its port
  card         \* the SD card

vars == <<sd, spi, host, ram, rdata, card>>

Block == [1 .. BlockLen -> Byte]
Address == 0 .. RamTop - 1
BlockNo == 0 .. Blocks - 1

ASSUME CardAssumption ==
  /\ Ram \in [Address -> Byte] /\ Disk \in [BlockNo -> Block]
  /\ \A a \in Buffers : a \in Nat /\ a + BlockLen < RamTop
  /\ Blocks \in Nat /\ Blocks \div 65536 < 65536      \* 32-bit block numbers
  /\ RamTop \in Nat
  /\ Delays \subseteq Nat /\ Busy \subseteq Nat /\ MaxPolls \in Nat

-----------------------------------------------------------------------------
(* The processor and RAM.                                                  *)

dev_start_signal == host.pc = "start"
wfi_dev == host.pc = "stalled"
dev_stop_signal == IF host.call = "write" THEN sd.sdwd ELSE sd.sdrd

InProgram(mar) ==
  [pc |-> "program", call |-> "write", mar |-> mar, inc |-> FALSE, buf |-> 0, sar |-> 0,
   ram |-> Ram, disk |-> Disk]

\* The registers MAR and SAR are loaded; the store's pulse comes next.
Call ==
  \E c \in {"write", "read"}, a \in Buffers, b \in BlockNo :
    host' = [host EXCEPT !.pc = "start", !.call = c, !.mar = a, !.buf = a, !.sar = b,
                         !.ram = ram, !.disk = card.disk]

\* MAR counts one cycle after address_progression.
Walk(h) ==
  [h EXCEPT !.inc = sd.address_progression,
            !.mar = IF ~sd.address_progression /\ host.inc THEN @ + 1 ELSE @]

Host(calls) ==
  CASE host.pc = "program" -> (IF calls THEN Call ELSE UNCHANGED host)
    [] host.pc = "start" -> ~calls /\ host' = Walk([host EXCEPT !.pc = "stalled"])
    [] host.pc = "stalled" ->
         ~calls /\ host' = Walk([host EXCEPT !.pc = IF dev_stop_signal THEN "done" ELSE @])
    [] host.pc = "done" -> ~calls /\ host' = InProgram(0)

sdevbyte == host.call = "read" /\ sd.address_progression

\* Mutant: RAM takes a write at every address.
MemoryTakesAll ==
  /\ ram' = IF sdevbyte THEN [ram EXCEPT ![host.mar] = sd.SDC_DEV] ELSE ram
  /\ rdata' = ram[host.mar]

\* A write at one of the Unwritten addresses is suppressed.
Memory ==
  /\ ram' = IF sdevbyte /\ host.mar \notin Unwritten
            THEN [ram EXCEPT ![host.mar] = sd.SDC_DEV] ELSE ram
  /\ rdata' = ram[host.mar]

-----------------------------------------------------------------------------
(* The card.  While it has something in queue it does not look at what it  *)
(* hears; otherwise it wants a command, a start token or a block's data.   *)

CardInit(polls) ==
  [mode |-> "native", app |-> FALSE, want |-> "command", heard |-> <<>>, queue |-> <<>>,
   bits |-> 0, in |-> 0, out |-> Filler, miso |-> 1, block |-> 0, polls |-> polls,
   refused |-> FALSE, disk |-> Disk]

Fill(n) == [i \in 1 .. n |-> Filler]
R1 == IF card.mode = "ready" THEN 0 ELSE 1

Addressed(frame) == frame[2] * 16777216 + frame[3] * 65536 + frame[4] * 256 + frame[5]

\* The answer to the command in frame, and the card after it.
Answer(frame, d) ==
  CASE frame[1] = 64 ->
         [card EXCEPT !.mode = "idle", !.app = FALSE, !.queue = Fill(d) \o <<1>>]
    [] frame[1] = 72 -> [card EXCEPT !.app = FALSE, !.queue = Fill(d) \o <<R1, 0, 0, 1, 170>>]
    [] frame[1] = 119 -> [card EXCEPT !.app = TRUE, !.queue = Fill(d) \o <<R1>>]
    [] frame[1] = 105 /\ card.app /\ card.polls > 0 ->
         [card EXCEPT !.app = FALSE, !.polls = @ - 1, !.queue = Fill(d) \o <<1>>]
    [] frame[1] = 105 /\ card.app /\ card.polls = 0 ->
         [card EXCEPT !.app = FALSE, !.mode = "ready", !.queue = Fill(d) \o <<0>>]
    [] frame[1] = 88 /\ card.mode = "ready" ->
         [card EXCEPT !.app = FALSE, !.want = "token", !.block = Addressed(frame),
                      !.queue = Fill(d) \o <<0>>]
    [] frame[1] = 81 /\ card.mode = "ready" ->
         [card EXCEPT !.app = FALSE,
           !.queue = Fill(d) \o <<0>> \o Fill(d) \o <<StartToken>>
                     \o card.disk[Addressed(frame)] \o <<0, 0>>]
    [] OTHER -> [card EXCEPT !.app = FALSE, !.queue = Fill(d) \o <<R1 + 4>>]

\* A block is accepted, with a time to program it, or it is refused.
Take(data, accepts, busy) ==
  IF accepts
  THEN [card EXCEPT !.disk[card.block] = data, !.want = "command",
                    !.queue = <<229>> \o [i \in 1 .. busy |-> 0]]
  ELSE [card EXCEPT !.refused = TRUE, !.want = "command", !.queue = <<235>>]

\* The card with a byte it has heard, before it drops what was heard.
Hear(b) ==
  LET heard == Append(card.heard, b)
      Keep == [card EXCEPT !.heard = heard]
      Drop(c) == [c EXCEPT !.heard = <<>>]
  IN  IF card.queue # <<>> THEN {card}
      ELSE CASE card.want = "command" ->
                  IF card.heard = <<>> /\ b \div 64 # 1 THEN {card}
                  ELSE IF Len(heard) < 6 THEN {Keep}
                  ELSE {Drop(Answer(heard, d)) : d \in Delays}
             [] card.want = "token" ->
                  {IF b = StartToken THEN [card EXCEPT !.want = "data"] ELSE card}
             [] card.want = "data" ->
                  IF Len(heard) < BlockLen + 2 THEN {Keep}
                  ELSE {Drop(Take(SubSeq(heard, 1, BlockLen), ok, n)) :
                          ok \in BOOLEAN, n \in Busy}

\* A byte is complete: the next one to send is the head of the queue.
Queued(c) ==
  [c EXCEPT !.bits = 0, !.in = 0, !.out = IF c.queue = <<>> THEN Filler ELSE Head(c.queue),
            !.queue = IF @ = <<>> THEN @ ELSE Tail(@)]

SclkRises == ~spi.sclk /\ spi'.sclk
SclkFalls == spi.sclk /\ ~spi'.sclk

Card ==
  LET in == 2 * card.in + spi.mosi
  IN  IF sd.cs_en
      THEN card' = [card EXCEPT !.bits = 0, !.in = 0, !.heard = <<>>, !.queue = <<>>,
                                !.out = Filler, !.miso = 1]
      ELSE IF SclkFalls THEN card' = [card EXCEPT !.miso = Bit(card.out, 7 - card.bits)]
      ELSE IF SclkRises /\ card.bits < 7
      THEN card' = [card EXCEPT !.bits = @ + 1, !.in = in]
      ELSE IF SclkRises THEN card' \in {Queued(c) : c \in Hear(in)}
      ELSE card' = card

-----------------------------------------------------------------------------
Init ==
  /\ sd = SdInit /\ spi = SpiInit /\ card \in {CardInit(polls) : polls \in 0 .. MaxPolls}
  /\ ram = Ram /\ rdata = 0
  /\ host = InProgram(0)

Tick(calls) ==
  /\ SdClock(dev_start_signal /\ host.call = "write", dev_start_signal /\ host.call = "read",
             host.sar, rdata)
  /\ SpiClock(card.miso)
  /\ Card
  /\ Host(calls)
  /\ Memory

Next == \E calls \in BOOLEAN : Tick(calls)

\* The clock runs; a program need not call.
Spec == Init /\ [][Next]_vars /\ WF_vars(Tick(FALSE))

-----------------------------------------------------------------------------
(* Properties                                                              *)

Transferring == sd.write # 0 \/ sd.read # 0

\* Controller and card agree on where a byte begins and which one was sent:
\* whenever the engine rests with the card selected, the card has seen a whole
\* number of bytes (clk_div, sclk and bit_cnt, SPISDCONTROLLER.v:1085-1150).
InStep == spi.state \in {0, 3} /\ ~sd.cs_en => card.bits = 0

\* A processor that goes on after sys_sd_write left the block in the card, and
\* after sys_sd_read has it in RAM: the same bytes in the same order from the
\* address it passed, and nothing else changed on either side.  RAM keeps the
\* bytes it takes no write at (RAM.v:32868-32872).  A card that refused the
\* block is never taken for one that stored it.
Moved(a) == a - host.buf + 1
InBuffer(a) == a \in host.buf .. host.buf + BlockLen - 1
BlockCopied ==
  host.pc = "done" =>
    IF host.call = "write"
    THEN /\ ram = host.ram
         /\ card.disk = [host.disk EXCEPT ![host.sar] =
                           [i \in 1 .. BlockLen |-> ram[host.buf + i - 1]]]
    ELSE /\ card.disk = host.disk
         /\ \A a \in Address :
              ram[a] = IF InBuffer(a) /\ a \notin Unwritten
                       THEN card.disk[host.sar][Moved(a)] ELSE host.ram[a]

\* Every card gets initialised, however long it takes over an answer and however
\* often it says "not yet": the documentation has the controller send ACMD 41 and
\* then "Send 0xFFs until you get 0x00 back" (Architecture Documentation.txt:
\* 213-214).  The code gives up on an answer after six bytes (init_state 9), so
\* this holds of cards that answer within six and fails of slower ones.
InitEnds == <>sd.ready

\* A transfer that started ends and the stalled processor goes on, unless the
\* card refused the block.
TransferEnds == wfi_dev /\ Transferring ~> host.pc = "done" \/ card.refused
===============================================================================
