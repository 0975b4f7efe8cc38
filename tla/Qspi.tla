--------------------------------- MODULE Qspi ---------------------------------
(***************************************************************************)
(* The path from the cache to the PSRAM chip, one clock edge at a time:    *)
(* QSPI_CONTROLLER (Soft Core/SPIRAMCONTROLLER.v), which turns a burst     *)
(* request into bytes; QSPI_ENGINE (Soft Core/SPIRAMENGINE.v), which turns *)
(* a byte into clocked bits or nibbles; and the chip, as the behavioural   *)
(* model Soft Core/SPIRAM.v describes it.  SPI.v wires the three together. *)
(*                                                                         *)
(* Bytes are pairs of nibbles, high first; an address is three bytes.  The *)
(* caller raises start_fsm for one cycle when busy is low, offers a byte   *)
(* of write data a cycle after each byte_received, and collects read data. *)
(***************************************************************************)
EXTENDS Integers, Sequences, FiniteSets

CONSTANTS
  PwrUpCycles,   \* power-up delay (13000)
  CsGap,         \* CS_GAP (7): CS# stays high at least CsGap + 1 cycles
  MemSize,       \* bytes of the chip (the model aliases higher addresses)
  WrapLen,       \* wrap boundary of a burst (1024)
  BurstLen,      \* bytes of a burst (cache_word_length)
  Starts,        \* addresses a caller uses
  WriteData,     \* byte sequences a caller writes
  Image,         \* the chip's memory at power-up
  MaxAge         \* bound: the chip's timing counter saturates here

ASSUME SizeAssumption ==
  /\ PwrUpCycles \in Nat /\ CsGap \in Nat /\ MaxAge \in Nat
  /\ MaxAge > CsGap
  /\ WrapLen \in Nat \ {0} /\ MemSize \in Nat \ {0} /\ MemSize % WrapLen = 0
  /\ MemSize <= 16777216                 \* 24-bit addresses
  /\ BurstLen \in 1 .. 63 /\ BurstLen <= WrapLen

Nibble == 0 .. 15
Byte == Nibble \X Nibble
Z == 16                                    \* a bus line nobody drives
ASSUME DataAssumption ==
  /\ WriteData \subseteq [1 .. BurstLen -> Byte]
  /\ Image \in [0 .. MemSize - 1 -> Byte]
  /\ Starts \subseteq 0 .. MemSize - 1

\* Command bytes: EBh, 38h, 35h, 66h and 99h.
ReadQuad == <<14, 11>>
WriteQuad == <<3, 8>>
EnterQpi == <<3, 5>>
ResetEnable == <<6, 6>>
Reset == <<9, 9>>

InitCmd(i) == <<ResetEnable, Reset, EnterQpi>>[i + 1]
\* Plausible bugs, each of which one of the properties must notice, here and
\* below: every one stands before the definition it is a mutation of.
DummyBytesOneShort == 2

LastInit == 2
AddrBytes == 3
DummyBytes == 3

VARIABLES
  ctl,    \* registers of QSPI_CONTROLLER
  eng,    \* registers of QSPI_ENGINE
  dev,    \* the chip
  call    \* the caller: its strobe, request and the bytes moved so far

vars == <<ctl, eng, dev, call>>

Bit(byte, k) == (byte[IF k >= 4 THEN 1 ELSE 2] \div <<1, 2, 4, 8>>[(k % 4) + 1]) % 2
AddressBytes(a) ==
  << <<(a \div 1048576) % 16, (a \div 65536) % 16>>,
     <<(a \div 4096) % 16, (a \div 256) % 16>>, <<(a \div 16) % 16, a % 16>> >>

-----------------------------------------------------------------------------
(* QSPI_CONTROLLER *)

CtlInit ==
  [state |-> "STARTUP", intra |-> 0, cnt |-> 0, wait |-> 0, left |-> 0, init |-> 0,
   sh |-> <<>>, cmd |-> ReadQuad, addr |-> 0, busy |-> TRUE,
   byte |-> <<0, 0>>, start |-> FALSE, op_en |-> FALSE, quad |-> FALSE, cs |-> TRUE,
   clk_en |-> FALSE, out |-> <<0, 0>>, ready |-> FALSE, received |-> FALSE]

Idled == [ctl EXCEPT !.ready = FALSE, !.received = FALSE]   \* strobes default low
Launch(c, byte) == [c EXCEPT !.byte = byte, !.start = TRUE, !.intra = 1]
Enter(c, state) == [c EXCEPT !.state = state, !.intra = 0]

\* The power-up delay, then the three commands, each with its own CS# pulse.
Startup ==
  CASE ctl.intra = 0 ->
         IF ctl.cnt = PwrUpCycles
         THEN [Idled EXCEPT !.quad = FALSE, !.clk_en = TRUE, !.cnt = 0, !.intra = 1]
         ELSE [Idled EXCEPT !.busy = TRUE, !.cnt = @ + 1]
    [] ctl.intra = 1 ->
         [Idled EXCEPT !.cs = FALSE, !.op_en = TRUE, !.byte = InitCmd(ctl.init), !.intra = 2]
    [] ctl.intra = 2 -> [Idled EXCEPT !.start = TRUE, !.intra = 3]
    [] ctl.intra = 3 ->
         IF eng.done
         THEN [Idled EXCEPT !.start = FALSE, !.cs = TRUE, !.op_en = FALSE, !.wait = 0,
                            !.intra = 4]
         ELSE Idled
    [] ctl.intra = 4 ->
         IF ctl.wait # CsGap THEN [Idled EXCEPT !.wait = @ + 1]
         ELSE IF ctl.init = LastInit THEN [Enter(Idled, "IDLE") EXCEPT !.quad = TRUE, !.busy = FALSE]
         ELSE [Idled EXCEPT !.init = @ + 1, !.intra = 1]

Accept(start_fsm, command, address) ==
  IF start_fsm
  THEN [Idled EXCEPT !.cmd = command, !.addr = address, !.busy = TRUE,
                     !.state = "ASSERT_CS"]
  ELSE [Idled EXCEPT !.busy = FALSE]

AssertCs == [Enter(Idled, "SEND_COMMAND") EXCEPT !.cs = FALSE, !.op_en = TRUE]

SendCommand ==
  IF ctl.intra = 0 THEN Launch(Idled, ctl.cmd)
  ELSE IF eng.done
  THEN [Enter(Idled, "SEND_ADDRESS") EXCEPT !.start = FALSE, !.sh = AddressBytes(ctl.addr),
                                            !.left = AddrBytes]
  ELSE Idled

AfterAddressStillDriving ==
  IF ctl.cmd = ReadQuad THEN [Enter(Idled, "DUMMY_CYCLES") EXCEPT !.left = DummyBytes]
  ELSE [Enter(Idled, "WRITE_DATA") EXCEPT !.left = BurstLen]

AfterAddress ==
  IF ctl.cmd = ReadQuad
  THEN [Enter(Idled, "DUMMY_CYCLES") EXCEPT !.op_en = FALSE, !.left = DummyBytes]
  ELSE [Enter(Idled, "WRITE_DATA") EXCEPT !.left = BurstLen]

SendAddress ==
  IF ctl.intra = 0 THEN Launch(Idled, Head(ctl.sh))
  ELSE IF eng.done
  THEN [(IF ctl.left = 1 THEN AfterAddress
         ELSE [Idled EXCEPT !.left = @ - 1, !.intra = 0])
        EXCEPT !.start = FALSE, !.sh = Tail(ctl.sh)]
  ELSE Idled

DummyCycles ==
  IF ctl.intra = 0 THEN [Idled EXCEPT !.start = TRUE, !.intra = 1]
  ELSE IF eng.done
  THEN [(IF ctl.left = 1 THEN [Enter(Idled, "READ_DATA") EXCEPT !.left = BurstLen]
         ELSE [Idled EXCEPT !.left = @ - 1, !.intra = 0]) EXCEPT !.start = FALSE]
  ELSE Idled

DeassertStaleWait(c) == Enter(c, "DEASSERT_CS")
Deassert(c) == [Enter(c, "DEASSERT_CS") EXCEPT !.wait = 0]

SendData(byte) ==
  CASE ctl.intra = 0 -> Launch(Idled, byte)
    [] ctl.intra = 1 ->
         IF eng.done
         THEN [(IF ctl.left = 1 THEN Deassert(Idled)
                ELSE [Idled EXCEPT !.left = @ - 1, !.intra = 2])
               EXCEPT !.start = FALSE, !.received = TRUE]
         ELSE Idled
    [] ctl.intra = 2 -> [Idled EXCEPT !.intra = 0]       \* let in_byte settle

ReadData ==
  CASE ctl.intra = 0 -> [Idled EXCEPT !.start = TRUE, !.intra = 1]
    [] ctl.intra = 1 ->
         IF eng.done THEN [Idled EXCEPT !.start = FALSE, !.intra = 2] ELSE Idled
    [] ctl.intra = 2 ->
         [(IF ctl.left = 1 THEN Deassert(Idled)
           ELSE [Idled EXCEPT !.left = @ - 1, !.intra = 0])
          EXCEPT !.out = eng.in, !.ready = TRUE]

DeassertCs ==
  IF ctl.wait = CsGap
  THEN [Enter(Idled, "IDLE") EXCEPT !.op_en = FALSE, !.cs = TRUE, !.busy = FALSE]
  ELSE [Idled EXCEPT !.op_en = FALSE, !.cs = TRUE, !.wait = @ + 1]

Controller(start_fsm, command, address, in_byte) ==
  ctl' = CASE ctl.state = "STARTUP" -> Startup
           [] ctl.state = "IDLE" -> Accept(start_fsm, command, address)
           [] ctl.state = "ASSERT_CS" -> AssertCs
           [] ctl.state = "SEND_COMMAND" -> SendCommand
           [] ctl.state = "SEND_ADDRESS" -> SendAddress
           [] ctl.state = "DUMMY_CYCLES" -> DummyCycles
           [] ctl.state = "WRITE_DATA" -> SendData(in_byte)
           [] ctl.state = "READ_DATA" -> ReadData
           [] ctl.state = "DEASSERT_CS" -> DeassertCs

-----------------------------------------------------------------------------
(* QSPI_ENGINE: a transfer starts on a rising edge of start, drives on the *)
(* falling edge of sclk and samples on the rising one.                     *)

EngInit ==
  [txfer |-> "IDLE", sclk |-> FALSE, cnt |-> 0, done |-> FALSE, start_d |-> FALSE,
   so |-> 12, in |-> <<0, 0>>, sh |-> <<0, 0>>]

Bus == IF ctl.op_en THEN eng.so ELSE dev.drive

Ticked == [eng EXCEPT !.done = FALSE, !.start_d = ctl.start]
Finished(e) == [e EXCEPT !.txfer = "IDLE", !.done = TRUE]
Serial(bit) == 12 + bit                       \* /HOLD and /WP held high

Begin ==
  IF ctl.quad
  THEN [Ticked EXCEPT !.sclk = FALSE, !.sh = ctl.byte, !.cnt = 1, !.txfer = "NIB_TXFER",
                      !.so = IF ctl.op_en THEN ctl.byte[1] ELSE @]
  ELSE [Ticked EXCEPT !.sclk = FALSE, !.sh = ctl.byte, !.cnt = 7, !.txfer = "BIT_TXFER",
                      !.so = IF ctl.op_en THEN Serial(Bit(ctl.byte, 7)) ELSE @]

Toggled == [Ticked EXCEPT !.sclk = ~@]

BitTransfer ==
  IF ~eng.sclk THEN Toggled
  ELSE IF eng.cnt = 0 THEN Finished(Toggled)
  ELSE [Toggled EXCEPT !.cnt = @ - 1, !.so = Serial(Bit(eng.sh, eng.cnt - 1))]

Send ==
  IF ~eng.sclk THEN Toggled
  ELSE IF eng.cnt = 0 THEN Finished(Toggled)
  ELSE [Toggled EXCEPT !.cnt = @ - 1, !.so = eng.sh[2]]

Receive ==
  IF eng.sclk THEN Toggled
  ELSE IF eng.cnt = 0 THEN [Finished(Toggled) EXCEPT !.in[2] = Bus]
  ELSE [Toggled EXCEPT !.cnt = @ - 1, !.in[1] = Bus]

Engine ==
  eng' = CASE eng.txfer = "IDLE" ->
                IF ctl.start /\ ~eng.start_d /\ ctl.clk_en
                THEN Begin ELSE [Ticked EXCEPT !.sclk = FALSE]
           [] eng.txfer = "BIT_TXFER" -> BitTransfer
           [] eng.txfer = "NIB_TXFER" -> IF ctl.op_en THEN Send ELSE Receive

-----------------------------------------------------------------------------
(* The chip.  It follows cs_n and sclk, so it moves in the same step.      *)

DevInit ==
  [state |-> "IDLE", shift |-> <<>>, qpi |-> FALSE, rst_en |-> FALSE, write |-> FALSE,
   addr |-> 0, clks |-> 0, hi |-> 0, half |-> FALSE, drive |-> Z, mem |-> Image,
   age |-> MaxAge]

NextAddr(a) == (a \div WrapLen) * WrapLen + ((a + 1) % WrapLen)

AddrOf(n) ==
  (1048576 * n[1] + 65536 * n[2] + 4096 * n[3] + 256 * n[4] + 16 * n[5] + n[6]) % MemSize
CmdOf(s) ==
  IF dev.qpi THEN s
  ELSE <<8 * s[1] + 4 * s[2] + 2 * s[3] + s[4], 8 * s[5] + 4 * s[6] + 2 * s[7] + s[8]>>

\* decode
Decoded(cmd) ==
  [dev EXCEPT
    !.shift = <<>>, !.clks = 0,
    !.write = (cmd = WriteQuad),
    !.state = IF cmd \in {ReadQuad, WriteQuad} /\ dev.qpi THEN "ADDR" ELSE "DONE",
    !.qpi = IF cmd = EnterQpi THEN TRUE
            ELSE IF cmd = Reset /\ dev.rst_en THEN FALSE ELSE @,
    !.rst_en = (cmd = ResetEnable)]

Sample(sio) ==
  LET bits == Append(dev.shift, IF dev.qpi THEN sio ELSE sio % 2)
  IN  CASE dev.state = "CMD" ->
             IF Len(bits) = (IF dev.qpi THEN 2 ELSE 8) THEN Decoded(CmdOf(bits))
             ELSE [dev EXCEPT !.shift = bits]
        [] dev.state = "ADDR" ->
             IF Len(bits) = 2 * AddrBytes
             THEN [dev EXCEPT !.addr = AddrOf(bits), !.shift = <<>>, !.half = FALSE,
                              !.state = IF dev.write THEN "WRITE" ELSE "DUMMY"]
             ELSE [dev EXCEPT !.shift = bits]
        [] dev.state = "DUMMY" ->
             IF dev.clks + 1 = 6 THEN [dev EXCEPT !.clks = 6, !.state = "READ", !.half = FALSE]
             ELSE [dev EXCEPT !.clks = @ + 1]
        [] dev.state = "WRITE" ->
             IF dev.half
             THEN [dev EXCEPT !.mem[dev.addr] = <<dev.hi, sio>>, !.half = FALSE,
                              !.addr = NextAddr(@)]
             ELSE [dev EXCEPT !.hi = sio, !.half = TRUE]
        [] OTHER -> dev

Drive ==
  IF dev.state # "READ" THEN dev
  ELSE IF dev.half
  THEN [dev EXCEPT !.drive = dev.mem[dev.addr][2], !.half = FALSE, !.addr = NextAddr(@)]
  ELSE [dev EXCEPT !.drive = dev.mem[dev.addr][1], !.half = TRUE]

CsFalls == ctl.cs /\ ~ctl'.cs
CsRises == ~ctl.cs /\ ctl'.cs
SclkRises == ~eng.sclk /\ eng'.sclk
SclkFalls == eng.sclk /\ ~eng'.sclk
Older(age) == IF age < MaxAge THEN age + 1 ELSE age

Device ==
  dev' = IF CsFalls THEN [dev EXCEPT !.state = "CMD", !.shift = <<>>, !.clks = 0, !.age = 0]
         ELSE IF CsRises THEN [dev EXCEPT !.state = "IDLE", !.drive = Z, !.age = 0]
         ELSE [(IF ctl.cs THEN dev ELSE IF SclkRises THEN Sample(IF ctl'.op_en THEN eng'.so ELSE dev.drive)
                ELSE IF SclkFalls THEN Drive ELSE dev) EXCEPT !.age = Older(@)]

-----------------------------------------------------------------------------
(* The caller *)

NoCall ==
  [busy |-> FALSE, start |-> FALSE, cmd |-> ReadQuad, addr |-> 0,
   data |-> [i \in 1 .. BurstLen |-> <<0, 0>>], sent |-> 0, got |-> <<>>, before |-> Image]

Calling(cmd, addr, data) ==
  [NoCall EXCEPT !.busy = TRUE, !.start = TRUE, !.cmd = cmd, !.addr = addr, !.data = data,
                 !.before = dev.mem]

\* busy has come and gone
Ended == call.busy /\ ~call.start /\ ~ctl.busy

Caller ==
  \/ /\ ~call.busy /\ UNCHANGED call
  \/ /\ ~call.busy /\ ~ctl.busy
     /\ \E addr \in Starts :
          \/ call' = Calling(ReadQuad, addr, NoCall.data)
          \/ \E data \in WriteData : call' = Calling(WriteQuad, addr, data)
  \/ /\ call.busy /\ ~Ended
     /\ call' = [call EXCEPT !.start = FALSE,
                             !.sent = IF ctl.received THEN @ + 1 ELSE @,
                             !.got = IF ctl.ready THEN Append(@, ctl.out) ELSE @]
  \/ /\ Ended /\ call' = NoCall

-----------------------------------------------------------------------------
Init == ctl = CtlInit /\ eng = EngInit /\ dev = DevInit /\ call = NoCall

InByte == call.data[IF call.sent < BurstLen THEN call.sent + 1 ELSE BurstLen]

Next ==
  /\ Controller(call.start, call.cmd, call.addr, InByte)
  /\ Engine
  /\ Device
  /\ Caller

Spec == Init /\ [][Next]_vars

-----------------------------------------------------------------------------
(* Properties *)

\* The address of byte i of a burst: bursts run on inside the wrap boundary.
Place(addr, i) == (addr \div WrapLen) * WrapLen + ((addr + i - 1) % WrapLen)

\* A burst that ended moved exactly the bytes asked for: a write left the
\* caller's bytes at consecutive addresses and touched no other, a read changed
\* nothing and returned what is stored there (WRITE_DATA and READ_DATA against
\* the alignment of address, dummy and data clocks on the bus).
BurstExact ==
  Ended =>
    IF call.cmd = WriteQuad
    THEN /\ \A i \in 1 .. BurstLen : dev.mem[Place(call.addr, i)] = call.data[i]
         /\ \A a \in 0 .. MemSize - 1 :
              a \notin {Place(call.addr, i) : i \in 1 .. BurstLen} =>
                dev.mem[a] = call.before[a]
         /\ call.sent = BurstLen
    ELSE /\ dev.mem = call.before
         /\ call.got = [i \in 1 .. BurstLen |-> dev.mem[Place(call.addr, i)]]

\* Controller and chip never drive the bus together: op_en is released before
\* the dummy clocks end and not taken again before CS# has gone high.
NoContention == ~(ctl.op_en /\ dev.drive # Z)

MaxLow == 640     \* tCEM: 8 us at 80 MHz

\* CS# moves only with sclk parked low, stays high for the gap of CS_GAP and is
\* never low for longer than tCEM allows (SPIRAM.v:50-51).
ChipTiming ==
  [][/\ CsFalls => dev.age > CsGap
     /\ CsRises => dev.age < MaxLow
     /\ CsFalls \/ CsRises => ~eng.sclk /\ ~eng'.sclk]_vars
==============================================================================
