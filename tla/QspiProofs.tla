----------------------------- MODULE QspiProofs -----------------------------
(***************************************************************************)
(* Controller and chip never drive the bus together, and every burst moves *)
(* exactly the bytes asked for: for every memory, burst length, wrap       *)
(* boundary and caller's data.  The first invariant follows the clock      *)
(* edges: how many nibbles of the command and of the address the chip has  *)
(* sampled is what the controller's and the engine's state say it is, so   *)
(* the chip can start to answer only after op_en is released.  The second  *)
(* one adds the values: what is in the shift registers, in the chip's      *)
(* address and memory and in the caller's hands after each of those edges. *)
(* The third part bounds the chip's timing counter: every transfer takes a *)
(* fixed number of edges, so CS# stays high and low as long as asked for.  *)
(***************************************************************************)
EXTENDS Qspi, TLAPS, SequenceTheorems

CtlFields ==
  {"state", "intra", "cnt", "wait", "left", "init", "sh", "cmd", "addr", "busy", "byte",
   "start", "op_en", "quad", "cs", "clk_en", "out", "ready", "received"}
EngFields == {"txfer", "sclk", "cnt", "done", "start_d", "so", "in", "sh"}
DevFields ==
  {"state", "shift", "qpi", "rst_en", "write", "addr", "clks", "hi", "half", "drive", "mem",
   "age"}
CallFields == {"busy", "start", "cmd", "addr", "data", "sent", "got", "before"}

Commands == {ReadQuad, WriteQuad}
Transfers == {"SEND_COMMAND", "SEND_ADDRESS", "DUMMY_CYCLES", "WRITE_DATA", "READ_DATA"}
CtlStates == Transfers \cup {"STARTUP", "IDLE", "ASSERT_CS", "DEASSERT_CS"}

\* The controller has handed the engine a byte and waits for done.
Waiting ==
  \/ ctl.state = "STARTUP" /\ ctl.intra = 3
  \/ ctl.state \in Transfers /\ ctl.intra = 1

CtlType ==
  /\ DOMAIN ctl = CtlFields
  /\ ctl.state \in CtlStates /\ ctl.cmd \in Commands
  /\ ctl.op_en \in BOOLEAN /\ ctl.cs \in BOOLEAN
  /\ ctl.start \in BOOLEAN
\* start is high exactly while the controller waits.
CtlStart ==
  /\ ctl.start <=> Waiting
  /\ (ctl.quad = TRUE) <=> (ctl.state # "STARTUP")
\* Which lines each state holds, and the step it can be at.
CtlLines ==
  /\ ctl.state = "STARTUP" =>
       /\ ctl.intra \in 0 .. 4
       /\ ctl.op_en <=> ctl.intra \in {2, 3}
       /\ ctl.cs <=> ~ctl.op_en
  /\ ctl.state \in {"IDLE", "ASSERT_CS"} => ctl.cs /\ ~ctl.op_en /\ ctl.intra = 0
  /\ ctl.state \in Transfers => ~ctl.cs /\ ctl.intra \in 0 .. 2
  /\ ctl.state \in {"SEND_COMMAND", "SEND_ADDRESS", "DUMMY_CYCLES"} => ctl.intra \in 0 .. 1
  /\ ctl.state \in {"SEND_COMMAND", "SEND_ADDRESS", "WRITE_DATA"} => ctl.op_en
  /\ ctl.state \in {"DUMMY_CYCLES", "READ_DATA"} => ~ctl.op_en
  /\ ctl.state = "DEASSERT_CS" => ctl.intra = 0 /\ (ctl.op_en => ~ctl.cs)
\* What the byte in hand is.
CtlData ==
  /\ ctl.state = "STARTUP" => ctl.init \in 0 .. LastInit
  /\ ctl.state = "STARTUP" /\ ctl.intra \in {2, 3} => ctl.byte \in Byte
  /\ ctl.state = "SEND_COMMAND" /\ ctl.intra = 1 => ctl.byte = ctl.cmd
  /\ ctl.state = "SEND_ADDRESS" => ctl.left \in 1 .. AddrBytes
  /\ ctl.state = "WRITE_DATA" => ctl.cmd = WriteQuad
  /\ ctl.state = "DEASSERT_CS" /\ ctl.op_en => ctl.cmd = WriteQuad
CtlInv == CtlType /\ CtlStart /\ CtlLines /\ CtlData

EngType ==
  /\ DOMAIN eng = EngFields
  /\ eng.txfer \in {"IDLE", "BIT_TXFER", "NIB_TXFER"}
  /\ eng.sclk \in BOOLEAN /\ eng.done \in BOOLEAN /\ eng.start_d \in BOOLEAN
\* A transfer runs, and done shows, only while the controller waits.
EngTurn ==
  /\ eng.txfer # "IDLE" => ctl.start /\ eng.start_d /\ ~eng.done
  /\ eng.done => ctl.start /\ eng.start_d
  /\ eng.txfer = "BIT_TXFER" => ctl.state = "STARTUP" /\ eng.cnt \in 0 .. 7 /\ eng.sh \in Byte
  /\ eng.txfer = "NIB_TXFER" => ctl.state # "STARTUP" /\ eng.cnt \in 0 .. 1
\* What the engine drives: a bit in SPI mode, the command's nibbles in turn.
EngData ==
  /\ eng.txfer = "NIB_TXFER" /\ ctl.state = "SEND_COMMAND" =>
       eng.sh = ctl.cmd /\ eng.so = ctl.cmd[2 - eng.cnt]
  /\ ctl.state = "STARTUP" => eng.so \in {12, 13}
EngInv == EngType /\ EngTurn /\ EngData

\* Rising edges of sclk in the byte under way, for a byte sent as two nibbles.
Rises ==
  IF eng.done THEN 2
  ELSE IF eng.txfer = "IDLE" THEN 0
  ELSE (1 - eng.cnt) + (IF eng.sclk THEN 1 ELSE 0)
AddressNibbles == 2 * (AddrBytes - ctl.left) + Rises

\* The chip takes no command in this selection: it decoded one that moves no
\* data, or it still collects bits in SPI mode.
Deaf == dev.state = "DONE" \/ (dev.state = "CMD" /\ ~dev.qpi)
Resetting ==
  \/ Deaf
  \/ dev.state = "CMD" /\ dev.shift \in {<<>>, <<12>>, <<13>>}
InCommand ==
  IF Rises = 2
  THEN dev.state = "ADDR" /\ dev.shift = <<>> /\ dev.write = (ctl.cmd = WriteQuad)
  ELSE dev.state = "CMD" /\ dev.shift = (IF Rises = 0 THEN <<>> ELSE <<ctl.cmd[1]>>)
Holds(shift, n) == shift = [i \in 1 .. n |-> shift[i]] /\ Len(shift) = n
InAddress ==
  IF AddressNibbles = 2 * AddrBytes
  THEN dev.state = IF ctl.cmd = WriteQuad THEN "WRITE" ELSE "DUMMY"
  ELSE /\ dev.state = "ADDR" /\ Holds(dev.shift, AddressNibbles)
       /\ dev.write = (ctl.cmd = WriteQuad)

Aligned ==
  /\ ctl.state = "STARTUP" => Resetting
  /\ ctl.state = "SEND_COMMAND" => Deaf \/ InCommand
  /\ ctl.state = "SEND_ADDRESS" => Deaf \/ InAddress
  /\ ctl.state \in {"WRITE_DATA", "DEASSERT_CS"} => Deaf \/ dev.state = "WRITE"

DevType ==
  /\ DOMAIN dev = DevFields
  /\ dev.qpi \in BOOLEAN
DrivesInRead == dev.drive # Z => ~ctl.cs /\ dev.state = "READ"
DevInv == DevType /\ DrivesInRead /\ (ctl.op_en => Aligned)

CallInv == DOMAIN call = CallFields /\ call.start \in BOOLEAN /\ call.cmd \in Commands

BInv == CtlInv /\ EngInv /\ DevInv /\ CallInv

\* What an edge leaves in the controller's own state and on its lines.
Becomes(state, intra, start, cs, op_en) ==
  /\ DOMAIN ctl' = CtlFields
  /\ ctl'.state = state /\ ctl'.intra = intra
  /\ ctl'.start = start /\ ctl'.cs = cs /\ ctl'.op_en = op_en
  /\ (ctl'.quad = TRUE) <=> (state # "STARTUP")
  /\ ctl'.cmd \in Commands
Selected(state, intra, start, op_en) ==
  Becomes(state, intra, start, FALSE, op_en) /\ ctl'.cmd = ctl.cmd
\* Waiting for done: nothing the engine or the chip looks at moves.
Held ==
  /\ ctl.start /\ ~eng.done
  /\ Becomes(ctl.state, ctl.intra, TRUE, ctl.cs, ctl.op_en)
  /\ ctl'.cmd = ctl.cmd /\ ctl'.byte = ctl.byte /\ ctl'.left = ctl.left

StartupStep ==
  \/ Held
  \/ Becomes("STARTUP", 0, FALSE, TRUE, FALSE) /\ ctl.intra = 0
  \/ Becomes("STARTUP", 1, FALSE, TRUE, FALSE) /\ ctl.intra \in {0, 4}
  \/ Becomes("STARTUP", 2, FALSE, FALSE, TRUE) /\ ctl.intra = 1 /\ ctl'.byte \in Byte
  \/ Becomes("STARTUP", 3, TRUE, FALSE, TRUE) /\ ctl.intra = 2 /\ ctl'.byte = ctl.byte
  \/ Becomes("STARTUP", 4, FALSE, TRUE, FALSE) /\ ctl.intra = 3 /\ eng.done
  \/ Becomes("STARTUP", 4, FALSE, TRUE, FALSE) /\ ctl.intra = 4
  \/ Becomes("IDLE", 0, FALSE, TRUE, FALSE) /\ ctl.intra = 4

CommandStep ==
  \/ Held
  \/ ctl.intra = 0 /\ Selected("SEND_COMMAND", 1, TRUE, TRUE) /\ ctl'.byte = ctl.cmd
  \/ /\ ctl.intra = 1 /\ eng.done
     /\ Selected("SEND_ADDRESS", 0, FALSE, TRUE) /\ ctl'.left = AddrBytes

AddressStep ==
  \/ Held
  \/ ctl.intra = 0 /\ Selected("SEND_ADDRESS", 1, TRUE, TRUE) /\ ctl'.left = ctl.left
  \/ /\ ctl.intra = 1 /\ eng.done /\ ctl.left # 1
     /\ Selected("SEND_ADDRESS", 0, FALSE, TRUE) /\ ctl'.left = ctl.left - 1
  \/ /\ ctl.intra = 1 /\ eng.done /\ ctl.left = 1
     /\ \/ ctl.cmd = ReadQuad /\ Selected("DUMMY_CYCLES", 0, FALSE, FALSE)
        \/ ctl.cmd = WriteQuad /\ Selected("WRITE_DATA", 0, FALSE, TRUE)

WriteStep ==
  \/ Held
  \/ ctl.intra = 0 /\ Selected("WRITE_DATA", 1, TRUE, TRUE)
  \/ ctl.intra = 1 /\ eng.done /\ Selected("WRITE_DATA", 2, FALSE, TRUE)
  \/ ctl.intra = 1 /\ eng.done /\ Selected("DEASSERT_CS", 0, FALSE, TRUE)
  \/ ctl.intra = 2 /\ Selected("WRITE_DATA", 0, FALSE, TRUE)

DummyStep ==
  \/ Held
  \/ ctl.intra = 0 /\ Selected("DUMMY_CYCLES", 1, TRUE, FALSE)
  \/ ctl.intra = 1 /\ eng.done /\ Selected("DUMMY_CYCLES", 0, FALSE, FALSE)
  \/ ctl.intra = 1 /\ eng.done /\ Selected("READ_DATA", 0, FALSE, FALSE)

ReadStep ==
  \/ Held
  \/ ctl.intra = 0 /\ Selected("READ_DATA", 1, TRUE, FALSE)
  \/ ctl.intra = 1 /\ eng.done /\ Selected("READ_DATA", 2, FALSE, FALSE)
  \/ ctl.intra = 2 /\ Selected("READ_DATA", 0, FALSE, FALSE)
  \/ ctl.intra = 2 /\ Selected("DEASSERT_CS", 0, FALSE, FALSE)

\* One edge of the controller, state by state.
Edge ==
  \/ ctl.state = "STARTUP" /\ StartupStep /\ ctl'.init \in 0 .. LastInit
  \/ /\ ctl.state = "IDLE"
     /\ Becomes("IDLE", 0, FALSE, TRUE, FALSE) \/ Becomes("ASSERT_CS", 0, FALSE, TRUE, FALSE)
  \/ ctl.state = "ASSERT_CS" /\ Selected("SEND_COMMAND", 0, FALSE, TRUE)
  \/ ctl.state = "SEND_COMMAND" /\ CommandStep
  \/ ctl.state = "SEND_ADDRESS" /\ AddressStep
  \/ ctl.state = "DUMMY_CYCLES" /\ DummyStep
  \/ ctl.state = "WRITE_DATA" /\ WriteStep
  \/ ctl.state = "READ_DATA" /\ ReadStep
  \/ /\ ctl.state = "DEASSERT_CS"
     /\ \/ Becomes("IDLE", 0, FALSE, TRUE, FALSE)
        \/ Becomes("DEASSERT_CS", 0, FALSE, TRUE, FALSE)

LEMMA StartupMoves ==
  ASSUME CtlInv, ctl.state = "STARTUP", ctl' = Startup
  PROVE  StartupStep /\ ctl'.init \in 0 .. LastInit
<1>1. ctl.init \in 0 .. LastInit => InitCmd(ctl.init) \in Byte
  BY DEF LastInit, InitCmd, ResetEnable, Reset, EnterQpi, Byte, Nibble
<1>2. CASE ctl.intra = 0
  BY <1>1, <1>2 DEF Startup, Held, StartupStep, Enter, LastInit, Becomes, CtlFields, CtlInv,
     CtlType, CtlStart, CtlLines, CtlData, Waiting, Idled, Transfers
<1>3. CASE ctl.intra = 1
  <2>1. ctl' = [Idled EXCEPT !.cs = FALSE, !.op_en = TRUE, !.byte = InitCmd(ctl.init), !.intra = 2]
    BY <1>3 DEF Startup
  <2> QED
    BY <1>1, <1>3, <2>1 DEF StartupStep, Held, Becomes, CtlFields, CtlInv, CtlType, CtlStart,
       CtlLines, CtlData, Waiting, Idled, Transfers
<1>4. CASE ctl.intra = 2
  <2>1. ctl' = [Idled EXCEPT !.start = TRUE, !.intra = 3]
    BY <1>4 DEF Startup
  <2> QED
    BY <1>1, <1>4, <2>1 DEF StartupStep, Held, Becomes, CtlFields, CtlInv, CtlType, CtlStart,
       CtlLines, CtlData, Waiting, Idled, Transfers
<1>5. CASE ctl.intra = 3
  <2>1. CASE eng.done
    <3>1. ctl' = [Idled EXCEPT !.start = FALSE, !.cs = TRUE, !.op_en = FALSE, !.wait = 0,
                               !.intra = 4]
      BY <1>5, <2>1 DEF Startup
    <3> QED
      BY <1>5, <2>1, <3>1 DEF StartupStep, Becomes, CtlFields, CtlInv, CtlType, CtlStart,
         CtlLines, CtlData, Waiting, Idled, Transfers
  <2>2. CASE ~eng.done
    <3>1. ctl' = Idled
      BY <1>5, <2>2 DEF Startup
    <3> QED
      BY <1>5, <2>2, <3>1 DEF StartupStep, Held, Becomes, CtlFields, CtlInv, CtlType, CtlStart,
         CtlLines, CtlData, Waiting, Idled, Transfers
  <2> QED
    BY <2>1, <2>2
<1>6. CASE ctl.intra = 4
  BY <1>1, <1>6 DEF Startup, Held, StartupStep, Enter, LastInit, Becomes, CtlFields, CtlInv,
     CtlType, CtlStart, CtlLines, CtlData, Waiting, Idled, Transfers
<1> QED
  BY <1>2, <1>3, <1>4, <1>5, <1>6 DEF CtlInv, CtlLines

LEMMA CommandMoves ==
  ASSUME CtlInv, ctl.state = "SEND_COMMAND", ctl' = SendCommand
  PROVE  CommandStep
<1>1. CASE ctl.intra = 0
  BY <1>1 DEF CommandStep, Held, Selected, SendCommand, Enter, Launch, Becomes, CtlFields,
     CtlInv, CtlType, CtlStart, CtlLines, CtlData, Waiting, Idled, Transfers
<1>2. CASE ctl.intra = 1
  BY <1>2 DEF CommandStep, Held, Selected, SendCommand, Enter, Launch, Becomes, CtlFields,
     CtlInv, CtlType, CtlStart, CtlLines, CtlData, Waiting, Idled, Transfers
<1>3. CASE ctl.intra = 2
  BY <1>3 DEF CommandStep, Held, Selected, SendCommand, Enter, Launch, Becomes, CtlFields,
     CtlInv, CtlType, CtlStart, CtlLines, CtlData, Waiting, Idled, Transfers
<1> QED
  BY <1>1, <1>2, <1>3 DEF CtlInv, CtlLines, Transfers

LEMMA AddressMoves ==
  ASSUME CtlInv, ctl.state = "SEND_ADDRESS", ctl' = SendAddress
  PROVE  AddressStep
<1>1. CASE ctl.intra = 0
  BY <1>1 DEF AddressStep, Held, Selected, SendAddress, AfterAddress, Enter, Launch, Commands,
     AddrBytes, Becomes, CtlFields, CtlInv, CtlType, CtlStart, CtlLines, CtlData, Waiting,
     Idled, Transfers
<1>2. CASE ctl.intra = 1
  BY <1>2 DEF AddressStep, Held, Selected, SendAddress, AfterAddress, Enter, Launch, Commands,
     AddrBytes, Becomes, CtlFields, CtlInv, CtlType, CtlStart, CtlLines, CtlData, Waiting,
     Idled, Transfers
<1>3. CASE ctl.intra = 2
  BY <1>3 DEF AddressStep, Held, Selected, SendAddress, AfterAddress, Enter, Launch, Commands,
     AddrBytes, Becomes, CtlFields, CtlInv, CtlType, CtlStart, CtlLines, CtlData, Waiting,
     Idled, Transfers
<1> QED
  BY <1>1, <1>2, <1>3 DEF CtlInv, CtlLines, Transfers

LEMMA WriteMoves ==
  ASSUME CtlInv, ctl.state = "WRITE_DATA", NEW b, ctl' = SendData(b)
  PROVE  WriteStep
<1>1. CASE ctl.intra = 0
  <2>1. ctl' = Launch(Idled, b)
    BY <1>1 DEF SendData
  <2> QED
    BY <1>1, <2>1 DEF WriteStep, Selected, Launch, Becomes, CtlFields, CtlInv, CtlType,
       CtlStart, CtlLines, CtlData, Waiting, Idled, Transfers
<1>2. CASE ctl.intra = 1
  BY <1>2 DEF WriteStep, Held, Selected, SendData, Deassert, Enter, Launch, Becomes, CtlFields,
     CtlInv, CtlType, CtlStart, CtlLines, CtlData, Waiting, Idled, Transfers
<1>3. CASE ctl.intra = 2
  <2>1. ctl' = [Idled EXCEPT !.intra = 0]
    BY <1>3 DEF SendData
  <2> QED
    BY <1>3, <2>1 DEF WriteStep, Selected, Becomes, CtlFields, CtlInv, CtlType, CtlStart,
       CtlLines, CtlData, Waiting, Idled, Transfers
<1> QED
  BY <1>1, <1>2, <1>3 DEF CtlInv, CtlLines, Transfers

LEMMA DummyMoves ==
  ASSUME CtlInv, ctl.state = "DUMMY_CYCLES", ctl' = DummyCycles
  PROVE  DummyStep
<1>1. CASE ctl.intra = 0
  BY <1>1 DEF DummyStep, Held, Selected, DummyCycles, Enter, Becomes, CtlFields, CtlInv,
     CtlType, CtlStart, CtlLines, CtlData, Waiting, Idled, Transfers
<1>2. CASE ctl.intra = 1
  BY <1>2 DEF DummyStep, Held, Selected, DummyCycles, Enter, Becomes, CtlFields, CtlInv,
     CtlType, CtlStart, CtlLines, CtlData, Waiting, Idled, Transfers
<1>3. CASE ctl.intra = 2
  BY <1>3 DEF DummyStep, Held, Selected, DummyCycles, Enter, Becomes, CtlFields, CtlInv,
     CtlType, CtlStart, CtlLines, CtlData, Waiting, Idled, Transfers
<1> QED
  BY <1>1, <1>2, <1>3 DEF CtlInv, CtlLines, Transfers

LEMMA ReadMoves ==
  ASSUME CtlInv, ctl.state = "READ_DATA", ctl' = ReadData
  PROVE  ReadStep
<1>1. CASE ctl.intra = 0
  <2>1. ctl' = [Idled EXCEPT !.start = TRUE, !.intra = 1]
    BY <1>1 DEF ReadData
  <2> QED
    BY <1>1, <2>1 DEF ReadStep, Selected, Becomes, CtlFields, CtlInv, CtlType, CtlStart,
       CtlLines, CtlData, Waiting, Idled, Transfers
<1>2. CASE ctl.intra = 1
  BY <1>2 DEF ReadStep, Held, Selected, ReadData, Deassert, Enter, Becomes, CtlFields, CtlInv,
     CtlType, CtlStart, CtlLines, CtlData, Waiting, Idled, Transfers
<1>3. CASE ctl.intra = 2
  <2>1. CASE ctl.left = 1
    <3>1. ctl' = [Deassert(Idled) EXCEPT !.out = eng.in, !.ready = TRUE]
      BY <1>3, <2>1 DEF ReadData
    <3> QED
      BY <1>3, <3>1 DEF ReadStep, Selected, Deassert, Enter, Becomes, CtlFields, CtlInv,
         CtlType, CtlStart, CtlLines, CtlData, Waiting, Idled, Transfers
  <2>2. CASE ctl.left # 1
    <3>1. ctl' = [[Idled EXCEPT !.left = @ - 1, !.intra = 0] EXCEPT !.out = eng.in, !.ready = TRUE]
      BY <1>3, <2>2 DEF ReadData
    <3> QED
      BY <1>3, <3>1 DEF ReadStep, Selected, Becomes, CtlFields, CtlInv, CtlType, CtlStart,
         CtlLines, CtlData, Waiting, Idled, Transfers
  <2> QED
    BY <2>1, <2>2
<1> QED
  BY <1>1, <1>2, <1>3 DEF CtlInv, CtlLines, Transfers

LEMMA ControllerMoves ==
  ASSUME CtlInv, NEW s \in BOOLEAN, NEW c \in Commands, NEW a, NEW b, Controller(s, c, a, b)
  PROVE  Edge
<1>1. CASE ctl.state = "STARTUP"
  <2>1. ctl' = Startup
    BY <1>1 DEF Controller
  <2> QED
    BY <1>1, <2>1, StartupMoves DEF Edge
<1>2. CASE ctl.state = "IDLE"
  <2>1. ctl' = Accept(s, c, a)
    BY <1>2 DEF Controller
  <2> QED
    BY <1>2, <2>1 DEF Edge, Accept, Becomes, CtlFields, CtlInv, CtlType, CtlStart, CtlLines,
       CtlData, Waiting, Idled, Transfers
<1>3. CASE ctl.state = "ASSERT_CS"
  <2>1. ctl' = AssertCs
    BY <1>3 DEF Controller
  <2> QED
    BY <1>3, <2>1 DEF Edge, Selected, AssertCs, Enter, Becomes, CtlFields, CtlInv, CtlType,
       CtlStart, CtlLines, CtlData, Waiting, Idled, Transfers
<1>4. CASE ctl.state = "SEND_COMMAND"
  <2>1. ctl' = SendCommand
    BY <1>4 DEF Controller
  <2> QED
    BY <1>4, <2>1, CommandMoves DEF Edge
<1>5. CASE ctl.state = "SEND_ADDRESS"
  <2>1. ctl' = SendAddress
    BY <1>5 DEF Controller
  <2> QED
    BY <1>5, <2>1, AddressMoves DEF Edge
<1>6. CASE ctl.state = "DUMMY_CYCLES"
  <2>1. ctl' = DummyCycles
    BY <1>6 DEF Controller
  <2> QED
    BY <1>6, <2>1, DummyMoves DEF Edge
<1>7. CASE ctl.state = "WRITE_DATA"
  <2>1. ctl' = SendData(b)
    BY <1>7 DEF Controller
  <2> QED
    BY <1>7, <2>1, WriteMoves DEF Edge
<1>8. CASE ctl.state = "READ_DATA"
  <2>1. ctl' = ReadData
    BY <1>8 DEF Controller
  <2> QED
    BY <1>8, <2>1, ReadMoves DEF Edge
<1>9. CASE ctl.state = "DEASSERT_CS"
  <2>1. ctl' = DeassertCs
    BY <1>9 DEF Controller
  <2> QED
    BY <1>9, <2>1 DEF Edge, DeassertCs, Enter, Becomes, CtlFields, CtlInv, CtlType, CtlStart,
       CtlLines, CtlData, Waiting, Idled, Transfers
<1> QED
  BY <1>1, <1>2, <1>3, <1>4, <1>5, <1>6, <1>7, <1>8, <1>9 DEF CtlInv, CtlType, CtlStates,
     Transfers

LEMMA CtlStep == ASSUME CtlInv, Edge PROVE CtlInv'
<1> USE DEF CtlInv, CtlType, CtlStart, Becomes, Held, Selected, Waiting, Transfers, CtlStates
<1>1. CASE ctl.state = "STARTUP"
  <2>1. CtlType'
    <3>1. DOMAIN ctl' = CtlFields /\ ctl'.cmd \in Commands /\ ctl'.state \in {"STARTUP", "IDLE"}
      BY <1>1 DEF Edge, StartupStep
    <3>2. ctl'.op_en \in BOOLEAN /\ ctl'.cs \in BOOLEAN /\ ctl'.start \in BOOLEAN
      BY <1>1 DEF Edge, StartupStep
    <3> QED
      BY <3>1, <3>2
  <2>2. CtlStart'
    BY <1>1 DEF Edge, StartupStep, CtlLines
  <2>3. CtlLines'
    BY <1>1 DEF Edge, StartupStep, CtlLines
  <2>4. CtlData'
    BY <1>1 DEF Edge, StartupStep, CtlLines, CtlData, AddrBytes
  <2> QED
    BY <2>1, <2>2, <2>3, <2>4
<1>2. CASE ctl.state = "IDLE"
  <2>1. CtlType'
    BY <1>2 DEF Edge, CtlLines
  <2>2. CtlStart'
    BY <1>2 DEF Edge, CtlLines
  <2>3. CtlLines'
    BY <1>2 DEF Edge, CtlLines
  <2>4. CtlData'
    BY <1>2 DEF Edge, CtlLines, CtlData, AddrBytes
  <2> QED
    BY <2>1, <2>2, <2>3, <2>4
<1>3. CASE ctl.state = "ASSERT_CS"
  <2>1. CtlType'
    BY <1>3 DEF Edge, CtlLines
  <2>2. CtlStart'
    BY <1>3 DEF Edge, CtlLines
  <2>3. CtlLines'
    BY <1>3 DEF Edge, CtlLines
  <2>4. CtlData'
    BY <1>3 DEF Edge, CtlLines, CtlData, AddrBytes
  <2> QED
    BY <2>1, <2>2, <2>3, <2>4
<1>4. CASE ctl.state = "SEND_COMMAND"
  <2>1. CtlType'
    BY <1>4 DEF Edge, CommandStep, CtlLines
  <2>2. CtlStart'
    BY <1>4 DEF Edge, CommandStep, CtlLines
  <2>3. CtlLines'
    BY <1>4 DEF Edge, CommandStep, CtlLines
  <2>4. CtlData'
    BY <1>4 DEF Edge, CommandStep, CtlLines, CtlData, AddrBytes
  <2> QED
    BY <2>1, <2>2, <2>3, <2>4
<1>5. CASE ctl.state = "SEND_ADDRESS"
  <2>1. CtlType'
    BY <1>5 DEF Edge, AddressStep, CtlLines
  <2>2. CtlStart'
    BY <1>5 DEF Edge, AddressStep, CtlLines
  <2>3. CtlLines'
    BY <1>5 DEF Edge, AddressStep, CtlLines
  <2>4. CtlData'
    BY <1>5 DEF Edge, AddressStep, CtlLines, CtlData, AddrBytes
  <2> QED
    BY <2>1, <2>2, <2>3, <2>4
<1>6. CASE ctl.state = "DUMMY_CYCLES"
  <2>1. CtlType'
    BY <1>6 DEF Edge, DummyStep, CtlLines
  <2>2. CtlStart'
    BY <1>6 DEF Edge, DummyStep, CtlLines
  <2>3. CtlLines'
    BY <1>6 DEF Edge, DummyStep, CtlLines
  <2>4. CtlData'
    BY <1>6 DEF Edge, DummyStep, CtlLines, CtlData, AddrBytes
  <2> QED
    BY <2>1, <2>2, <2>3, <2>4
<1>7. CASE ctl.state = "WRITE_DATA"
  <2>1. CtlType'
    BY <1>7 DEF Edge, WriteStep, CtlLines
  <2>2. CtlStart'
    BY <1>7 DEF Edge, WriteStep, CtlLines
  <2>3. CtlLines'
    BY <1>7 DEF Edge, WriteStep, CtlLines
  <2>4. CtlData'
    BY <1>7 DEF Edge, WriteStep, CtlLines, CtlData, AddrBytes
  <2> QED
    BY <2>1, <2>2, <2>3, <2>4
<1>8. CASE ctl.state = "READ_DATA"
  <2>1. CtlType'
    BY <1>8 DEF Edge, ReadStep, CtlLines
  <2>2. CtlStart'
    BY <1>8 DEF Edge, ReadStep, CtlLines
  <2>3. CtlLines'
    BY <1>8 DEF Edge, ReadStep, CtlLines
  <2>4. CtlData'
    BY <1>8 DEF Edge, ReadStep, CtlLines, CtlData, AddrBytes
  <2> QED
    BY <2>1, <2>2, <2>3, <2>4
<1>9. CASE ctl.state = "DEASSERT_CS"
  <2>1. CtlType'
    BY <1>9 DEF Edge, CtlLines
  <2>2. CtlStart'
    BY <1>9 DEF Edge, CtlLines
  <2>3. CtlLines'
    BY <1>9 DEF Edge, CtlLines
  <2>4. CtlData'
    BY <1>9 DEF Edge, CtlLines, CtlData, AddrBytes
  <2> QED
    BY <2>1, <2>2, <2>3, <2>4
<1> QED
  BY <1>1, <1>2, <1>3, <1>4, <1>5, <1>6, <1>7, <1>8, <1>9

\* A byte in hand is held until the engine is done with it.
LEMMA Waits == ASSUME CtlInv, Edge, ctl.start, ~eng.done PROVE Held
<1>1. CASE ctl.state = "STARTUP"
  <2>1. ctl.intra = 3
    BY <1>1 DEF CtlInv, CtlStart, Waiting, Transfers
  <2>2. StartupStep
    BY <1>1 DEF Edge
  <2> QED
    BY <2>1, <2>2 DEF StartupStep, Becomes
<1>2. CASE ctl.state # "STARTUP"
  <2>1. ctl.state \in Transfers /\ ctl.intra = 1
    BY <1>2 DEF CtlInv, CtlStart, Waiting
  <2>2. CommandStep \/ AddressStep \/ DummyStep \/ WriteStep \/ ReadStep
    BY <2>1 DEF Transfers, Edge
  <2> QED
    BY <2>1, <2>2 DEF CommandStep, AddressStep, DummyStep, WriteStep, ReadStep, Selected,
       Becomes
<1> QED
  BY <1>1, <1>2

\* Start-up is left once and for all.
LEMMA StaysOutOfReset == ASSUME CtlInv, Edge, ctl'.state = "STARTUP" PROVE ctl.state = "STARTUP"
BY DEF Edge, Held, Becomes, Selected, CommandStep, AddressStep, DummyStep, WriteStep, ReadStep

LEMMA BitRange == ASSUME NEW byte \in Byte, NEW k \in 0 .. 7 PROVE Bit(byte, k) \in {0, 1}
<1>1. \A n \in Int : n % 2 \in {0, 1}
  OBVIOUS
<1>2. <<1, 2, 4, 8>>[(k % 4) + 1] \in {1, 2, 4, 8}
  OBVIOUS
<1>3. byte[IF k >= 4 THEN 1 ELSE 2] \in 0 .. 15
  BY DEF Byte, Nibble
<1>4. byte[IF k >= 4 THEN 1 ELSE 2] \div <<1, 2, 4, 8>>[(k % 4) + 1] \in Int
  BY <1>2, <1>3
<1> QED
  BY <1>1, <1>4 DEF Bit

\* What an edge leaves in the engine.
Turns(txfer, sclk, cnt, done, so, sh) ==
  /\ DOMAIN eng' = EngFields
  /\ eng'.txfer = txfer /\ eng'.sclk = sclk /\ eng'.cnt = cnt /\ eng'.done = done
  /\ eng'.so = so /\ eng'.sh = sh /\ eng'.start_d = ctl.start
BeginStep ==
  /\ eng.txfer = "IDLE" /\ ctl.start /\ ~eng.start_d
  /\ \/ /\ ctl.quad /\ ctl.op_en
        /\ Turns("NIB_TXFER", FALSE, 1, FALSE, ctl.byte[1], ctl.byte)
     \/ /\ ctl.quad /\ ~ctl.op_en
        /\ Turns("NIB_TXFER", FALSE, 1, FALSE, eng.so, ctl.byte)
     \/ /\ ~ctl.quad /\ ctl.op_en
        /\ Turns("BIT_TXFER", FALSE, 7, FALSE, Serial(Bit(ctl.byte, 7)), ctl.byte)
     \/ /\ ~ctl.quad /\ ~ctl.op_en
        /\ Turns("BIT_TXFER", FALSE, 7, FALSE, eng.so, ctl.byte)
BitStep ==
  /\ eng.txfer = "BIT_TXFER"
  /\ \/ ~eng.sclk /\ Turns("BIT_TXFER", TRUE, eng.cnt, FALSE, eng.so, eng.sh)
     \/ /\ eng.sclk /\ eng.cnt = 0
        /\ Turns("IDLE", FALSE, eng.cnt, TRUE, eng.so, eng.sh)
     \/ /\ eng.sclk /\ eng.cnt # 0
        /\ Turns("BIT_TXFER", FALSE, eng.cnt - 1, FALSE, Serial(Bit(eng.sh, eng.cnt - 1)), eng.sh)
SendStep ==
  /\ eng.txfer = "NIB_TXFER" /\ ctl.op_en
  /\ \/ ~eng.sclk /\ Turns("NIB_TXFER", TRUE, eng.cnt, FALSE, eng.so, eng.sh)
     \/ /\ eng.sclk /\ eng.cnt = 0
        /\ Turns("IDLE", FALSE, eng.cnt, TRUE, eng.so, eng.sh)
     \/ /\ eng.sclk /\ eng.cnt # 0
        /\ Turns("NIB_TXFER", FALSE, eng.cnt - 1, FALSE, eng.sh[2], eng.sh)
ReceiveStep ==
  /\ eng.txfer = "NIB_TXFER" /\ ~ctl.op_en
  /\ \/ eng.sclk /\ Turns("NIB_TXFER", FALSE, eng.cnt, FALSE, eng.so, eng.sh)
     \/ ~eng.sclk /\ eng.cnt = 0 /\ Turns("IDLE", TRUE, eng.cnt, TRUE, eng.so, eng.sh)
     \/ ~eng.sclk /\ eng.cnt # 0 /\ Turns("NIB_TXFER", TRUE, eng.cnt - 1, FALSE, eng.so, eng.sh)
EngineEdge ==
  \/ eng.txfer = "IDLE" /\ Turns("IDLE", FALSE, eng.cnt, FALSE, eng.so, eng.sh)
  \/ BeginStep \/ BitStep \/ SendStep \/ ReceiveStep

LEMMA EngineMoves == ASSUME CtlInv, EngInv, Engine PROVE EngineEdge
<1> USE DEF EngInv, EngType, EngFields, Turns, Ticked, Toggled, Finished
<1>1. CASE eng.txfer = "IDLE"
  <2>1. CASE ctl.start /\ ~eng.start_d /\ ctl.clk_en
    <3>1. eng' = Begin
      BY <1>1, <2>1 DEF Engine
    <3> QED
      BY <1>1, <2>1, <3>1 DEF EngineEdge, BeginStep, Begin
  <2>2. CASE ~(ctl.start /\ ~eng.start_d /\ ctl.clk_en)
    <3>1. eng' = [Ticked EXCEPT !.sclk = FALSE]
      BY <1>1, <2>2 DEF Engine
    <3> QED
      BY <1>1, <3>1 DEF EngineEdge
  <2> QED
    BY <2>1, <2>2
<1>2. CASE eng.txfer = "BIT_TXFER"
  <2>1. eng' = BitTransfer
    BY <1>2 DEF Engine
  <2> QED
    BY <1>2, <2>1 DEF EngineEdge, BitStep, BitTransfer
<1>3. CASE eng.txfer = "NIB_TXFER" /\ ctl.op_en
  <2>1. eng' = Send
    BY <1>3 DEF Engine
  <2> QED
    BY <1>3, <2>1 DEF EngineEdge, SendStep, Send
<1>4. CASE eng.txfer = "NIB_TXFER" /\ ~ctl.op_en
  <2>1. eng' = Receive
    BY <1>4 DEF Engine
  <2> QED
    BY <1>4, <2>1 DEF EngineEdge, ReceiveStep, Receive
<1> QED
  BY <1>1, <1>2, <1>3, <1>4 DEF EngInv

LEMMA EngStep == ASSUME CtlInv, Edge, EngInv, EngineEdge PROVE EngInv'
<1>1. EngType'
  BY DEF EngineEdge, BeginStep, BitStep, SendStep, ReceiveStep, Turns, EngInv, EngType, CtlInv,
         CtlType
<1>2. CASE eng.txfer = "IDLE" /\ Turns("IDLE", FALSE, eng.cnt, FALSE, eng.so, eng.sh)
  <2>1. EngTurn'
    BY <1>2 DEF EngTurn, Turns
  <2>2. EngData'
    BY <1>2, StaysOutOfReset DEF EngInv, EngData, Turns
  <2> QED
    BY <1>1, <2>1, <2>2 DEF EngInv
<1>3. CASE ~(eng.txfer = "IDLE" /\ Turns("IDLE", FALSE, eng.cnt, FALSE, eng.so, eng.sh))
  <2>1. BeginStep \/ BitStep \/ SendStep \/ ReceiveStep
    BY <1>3 DEF EngineEdge
  <2>2. ctl.start /\ ~eng.done
    BY <2>1 DEF BeginStep, BitStep, SendStep, ReceiveStep, EngInv, EngTurn
  <2>3. Held
    BY <2>2, Waits
  <2>4. ctl'.start /\ ctl'.state = ctl.state /\ ctl'.cmd = ctl.cmd
    BY <2>3 DEF Held, Becomes
  <2>5. /\ ctl.state = "STARTUP" => ctl.byte \in Byte /\ ctl.op_en /\ ~ctl.quad
        /\ ctl.state # "STARTUP" => ctl.quad
        /\ ctl.state = "SEND_COMMAND" => ctl.byte = ctl.cmd /\ ctl.op_en
    BY <2>2 DEF CtlInv, CtlStart, Waiting, CtlLines, CtlData
  <2>6. CASE BeginStep /\ ctl.quad
    <3>1. /\ eng'.txfer = "NIB_TXFER" /\ eng'.cnt = 1 /\ eng'.sh = ctl.byte
          /\ eng'.start_d /\ ~eng'.done /\ (ctl.op_en => eng'.so = ctl.byte[1])
      BY <2>2, <2>6 DEF BeginStep, Turns
    <3>2. EngTurn'
      BY <3>1, <2>4, <2>5, <2>6 DEF EngTurn
    <3>3. EngData'
      BY <3>1, <2>4, <2>5, <2>6 DEF EngData
    <3> QED
      BY <1>1, <3>2, <3>3 DEF EngInv
  <2>7. CASE BeginStep /\ ~ctl.quad
    <3>1. /\ eng'.txfer = "BIT_TXFER" /\ eng'.cnt = 7 /\ eng'.sh = ctl.byte
          /\ eng'.start_d /\ ~eng'.done /\ (ctl.op_en => eng'.so = Serial(Bit(ctl.byte, 7)))
      BY <2>2, <2>7 DEF BeginStep, Turns
    <3>2. EngTurn'
      BY <3>1, <2>4, <2>5, <2>7 DEF EngTurn
    <3>3. Bit(ctl.byte, 7) \in {0, 1}
      BY <2>5, <2>7, BitRange
    <3>4. EngData'
      BY <3>1, <3>3, <2>4, <2>5, <2>7 DEF EngData, Serial
    <3> QED
      BY <1>1, <3>2, <3>4 DEF EngInv
  <2>8. CASE BitStep
    <3>1. /\ ctl.state = "STARTUP" /\ eng.cnt \in 0 .. 7 /\ eng.sh \in Byte
          /\ eng.so \in {12, 13}
      BY <2>8 DEF BitStep, EngInv, EngTurn, EngData
    <3>2. eng.cnt # 0 => Bit(eng.sh, eng.cnt - 1) \in {0, 1}
      BY <3>1, BitRange
    <3>3. /\ eng'.start_d /\ eng'.sh = eng.sh
          /\ \/ eng'.so = eng.so
             \/ eng.cnt # 0 /\ eng'.so = Serial(Bit(eng.sh, eng.cnt - 1))
      BY <2>2, <2>8 DEF BitStep, Turns
    <3>4. \/ eng'.txfer = "BIT_TXFER" /\ ~eng'.done /\ eng'.cnt \in 0 .. 7
          \/ eng'.txfer = "IDLE"
      BY <2>8, <3>1 DEF BitStep, Turns
    <3>5. EngTurn'
      BY <3>1, <3>3, <3>4, <2>4 DEF EngTurn
    <3>6. EngData'
      BY <3>1, <3>2, <3>3, <3>4, <2>4 DEF EngData, Serial
    <3> QED
      BY <1>1, <3>5, <3>6 DEF EngInv
  <2>9. CASE SendStep \/ ReceiveStep
    <3>1. ctl.state # "STARTUP" /\ eng.cnt \in 0 .. 1
      BY <2>9 DEF SendStep, ReceiveStep, EngInv, EngTurn
    <3>2. eng'.start_d /\ eng'.sh = eng.sh
      BY <2>2, <2>9 DEF SendStep, ReceiveStep, Turns
    <3>3. \/ eng'.txfer = "NIB_TXFER" /\ ~eng'.done /\ eng'.cnt \in 0 .. 1
          \/ eng'.txfer = "IDLE"
      BY <2>9, <3>1 DEF SendStep, ReceiveStep, Turns
    <3>4. EngTurn'
      BY <3>1, <3>2, <3>3, <2>4 DEF EngTurn
    <3>5. CASE ctl.state = "SEND_COMMAND" /\ eng'.txfer = "NIB_TXFER"
      <4>1. SendStep /\ eng.sh = ctl.cmd /\ eng.so = ctl.cmd[2 - eng.cnt]
        BY <2>5, <2>9, <3>5 DEF SendStep, ReceiveStep, EngInv, EngData
      <4>2. eng'.so = ctl.cmd[2 - eng'.cnt]
        BY <3>1, <3>5, <4>1 DEF SendStep, Turns
      <4> QED
        BY <1>1, <3>1, <3>2, <3>4, <4>1, <4>2, <2>4 DEF EngInv, EngData
    <3>6. CASE ~(ctl.state = "SEND_COMMAND" /\ eng'.txfer = "NIB_TXFER")
      BY <1>1, <3>1, <3>4, <3>6, <2>4 DEF EngInv, EngData
    <3> QED
      BY <3>5, <3>6
  <2> QED
    BY <2>1, <2>6, <2>7, <2>8, <2>9
<1> QED
  BY <1>2, <1>3

\* What an edge leaves in the chip.
Shows(state, shift, qpi, write, drive) ==
  /\ DOMAIN dev' = DevFields
  /\ dev'.state = state /\ dev'.shift = shift /\ dev'.qpi = qpi /\ dev'.write = write
  /\ dev'.drive = drive
Bits(sio) == Append(dev.shift, IF dev.qpi THEN sio ELSE sio % 2)
SampleStep(sio) ==
  \/ /\ dev.state = "CMD" /\ ~dev.qpi
     /\ \/ \E shift : Shows("CMD", shift, FALSE, dev.write, dev.drive)
        \/ \E qpi \in BOOLEAN : \E write : Shows("DONE", <<>>, qpi, write, dev.drive)
  \/ /\ dev.state = "CMD" /\ dev.qpi /\ Len(Bits(sio)) # 2
     /\ Shows("CMD", Bits(sio), TRUE, dev.write, dev.drive)
  \/ /\ dev.state = "CMD" /\ dev.qpi /\ Len(Bits(sio)) = 2 /\ Bits(sio) \in Commands
     /\ \E qpi \in BOOLEAN :
          Shows("ADDR", <<>>, qpi, Bits(sio) = WriteQuad, dev.drive)
  \/ /\ dev.state = "CMD" /\ dev.qpi /\ Len(Bits(sio)) = 2 /\ Bits(sio) \notin Commands
     /\ \E qpi \in BOOLEAN : \E write : Shows("DONE", <<>>, qpi, write, dev.drive)
  \/ /\ dev.state = "ADDR" /\ Len(Bits(sio)) # 2 * AddrBytes
     /\ Shows("ADDR", Bits(sio), dev.qpi, dev.write, dev.drive)
  \/ /\ dev.state = "ADDR" /\ Len(Bits(sio)) = 2 * AddrBytes
     /\ Shows(IF dev.write THEN "WRITE" ELSE "DUMMY", <<>>, dev.qpi, dev.write, dev.drive)
  \/ /\ dev.state = "DUMMY"
     /\ \E state \in {"DUMMY", "READ"} :
          Shows(state, dev.shift, dev.qpi, dev.write, dev.drive)
  \/ /\ dev.state \notin {"CMD", "ADDR", "DUMMY"}
     /\ Shows(dev.state, dev.shift, dev.qpi, dev.write, dev.drive)

Still == Shows(dev.state, dev.shift, dev.qpi, dev.write, dev.drive)
DeviceEdge ==
  \/ CsFalls /\ Shows("CMD", <<>>, dev.qpi, dev.write, dev.drive)
  \/ CsRises /\ Shows("IDLE", dev.shift, dev.qpi, dev.write, Z)
  \/ /\ ~CsFalls /\ ~CsRises
     /\ \/ Still /\ (ctl.cs \/ ~SclkRises)
        \/ /\ ~ctl.cs /\ ~SclkRises /\ dev.state = "READ"
           /\ \E drive : Shows("READ", dev.shift, dev.qpi, dev.write, drive)
        \/ ~ctl.cs /\ SclkRises /\ SampleStep(IF ctl'.op_en THEN eng'.so ELSE dev.drive)

LEMMA SampleMoves ==
  ASSUME DevType, NEW sio, NEW age, dev' = [Sample(sio) EXCEPT !.age = age]
  PROVE  SampleStep(sio)
<1> DEFINE bits == Append(dev.shift, IF dev.qpi THEN sio ELSE sio % 2)
<1> USE DEF DevType, DevFields, Shows
<1>1. CASE dev.state = "CMD" /\ Len(bits) # (IF dev.qpi THEN 2 ELSE 8)
  <2>1. Sample(sio) = [dev EXCEPT !.shift = bits]
    BY <1>1 DEF Sample
  <2>2. Shows("CMD", bits, dev.qpi, dev.write, dev.drive)
    BY <1>1, <2>1
  <2> QED
    BY <1>1, <2>2 DEF SampleStep, Bits
<1>2. CASE dev.state = "CMD" /\ Len(bits) = (IF dev.qpi THEN 2 ELSE 8)
  <2>1. Sample(sio) = Decoded(CmdOf(bits))
    BY <1>2 DEF Sample
  <2>2. /\ DOMAIN dev' = DevFields /\ dev'.shift = <<>> /\ dev'.drive = dev.drive
        /\ dev'.write = (CmdOf(bits) = WriteQuad) /\ dev'.qpi \in BOOLEAN
        /\ dev'.state = IF CmdOf(bits) \in {ReadQuad, WriteQuad} /\ dev.qpi THEN "ADDR"
                        ELSE "DONE"
    BY <2>1 DEF Decoded
  <2>3. dev.qpi => CmdOf(bits) = bits
    BY DEF CmdOf
  <2> QED
    BY <1>2, <2>2, <2>3 DEF SampleStep, Bits, Commands
<1>3. CASE dev.state = "ADDR" /\ Len(bits) = 2 * AddrBytes
  <2>1. Sample(sio) = [dev EXCEPT !.addr = AddrOf(bits), !.shift = <<>>, !.half = FALSE,
                              !.state = IF dev.write THEN "WRITE" ELSE "DUMMY"]
    BY <1>3 DEF Sample
  <2> QED
    BY <1>3, <2>1 DEF SampleStep, Bits
<1>4. CASE dev.state = "ADDR" /\ Len(bits) # 2 * AddrBytes
  <2>1. Sample(sio) = [dev EXCEPT !.shift = bits]
    BY <1>4 DEF Sample
  <2> QED
    BY <1>4, <2>1 DEF SampleStep, Bits
<1>5. CASE dev.state = "DUMMY"
  <2>1. Sample(sio) = IF dev.clks + 1 = 6
                      THEN [dev EXCEPT !.clks = 6, !.state = "READ", !.half = FALSE]
                      ELSE [dev EXCEPT !.clks = @ + 1]
    BY <1>5 DEF Sample
  <2> QED
    BY <1>5, <2>1 DEF SampleStep
<1>6. CASE dev.state = "WRITE"
  <2>1. Sample(sio) = IF dev.half
             THEN [dev EXCEPT !.mem[dev.addr] = <<dev.hi, sio>>, !.half = FALSE,
                              !.addr = NextAddr(@)]
             ELSE [dev EXCEPT !.hi = sio, !.half = TRUE]
    BY <1>6 DEF Sample
  <2> QED
    BY <1>6, <2>1 DEF SampleStep
<1>7. CASE dev.state \notin {"CMD", "ADDR", "DUMMY", "WRITE"}
  <2>1. Sample(sio) = dev
    BY <1>7 DEF Sample
  <2> QED
    BY <1>7, <2>1 DEF SampleStep
<1> QED
  BY <1>1, <1>2, <1>3, <1>4, <1>5, <1>6, <1>7

LEMMA DeviceMoves == ASSUME DevType, Device PROVE DeviceEdge
<1> USE DEF DevType, DevFields, Shows
<1>1. CASE CsFalls
  BY <1>1 DEF Device, DeviceEdge
<1>2. CASE ~CsFalls /\ CsRises
  BY <1>2 DEF Device, DeviceEdge
<1>3. CASE ~CsFalls /\ ~CsRises /\ ~ctl.cs /\ SclkRises
  <2>1. dev' = [Sample(IF ctl'.op_en THEN eng'.so ELSE dev.drive) EXCEPT !.age = Older(@)]
    BY <1>3 DEF Device
  <2> QED
    BY <1>3, <2>1, SampleMoves DEF DeviceEdge
<1>4. CASE ~CsFalls /\ ~CsRises /\ ~ctl.cs /\ ~SclkRises /\ SclkFalls
  <2>1. dev' = [Drive EXCEPT !.age = Older(@)]
    BY <1>4 DEF Device
  <2> QED
    BY <1>4, <2>1 DEF DeviceEdge, Still, Drive
<1>5. CASE ~CsFalls /\ ~CsRises /\ (ctl.cs \/ (~SclkRises /\ ~SclkFalls))
  <2>1. dev' = [dev EXCEPT !.age = Older(@)]
    BY <1>5 DEF Device
  <2> QED
    BY <1>5, <2>1 DEF DeviceEdge, Still
<1> QED
  BY <1>1, <1>2, <1>3, <1>4, <1>5

\* Outside a byte under way the engine is idle, and no edge of sclk rises.
LEMMA BetweenBytes ==
  ASSUME CtlInv, EngInv, EngineEdge, ~ctl.start \/ eng.done
  PROVE  Rises' = 0 /\ ~SclkRises
<1>1. eng.txfer = "IDLE" /\ (eng.done => eng.start_d)
  BY DEF EngInv, EngTurn, EngType
<1>2. Turns("IDLE", FALSE, eng.cnt, FALSE, eng.so, eng.sh)
  BY <1>1 DEF EngineEdge, BeginStep, BitStep, SendStep, ReceiveStep, EngInv, EngTurn
<1> QED
  BY <1>2 DEF Turns, Rises, SclkRises

\* Within a byte sent as nibbles each rising edge is counted.
LEMMA WithinByte ==
  ASSUME EngInv, EngineEdge, ctl.start, ~eng.done, ctl.op_en, ctl.quad, ctl.state # "STARTUP"
  PROVE  /\ SclkRises => /\ Rises \in {0, 1} /\ Rises' = Rises + 1 /\ eng'.so = eng.so
                         /\ eng.txfer = "NIB_TXFER" /\ eng.cnt = 1 - Rises
         /\ ~SclkRises => Rises' = Rises
<1> USE DEF Turns, Rises, SclkRises
<1>1. CASE eng.txfer = "IDLE" /\ Turns("IDLE", FALSE, eng.cnt, FALSE, eng.so, eng.sh)
  BY <1>1
<1>2. CASE BeginStep
  <2>1. eng'.txfer = "NIB_TXFER" /\ eng'.cnt = 1 /\ ~eng'.sclk /\ ~eng'.done
    BY <1>2 DEF BeginStep
  <2> QED
    BY <1>2, <2>1 DEF BeginStep
<1>3. CASE SendStep
  <2>1. eng.txfer = "NIB_TXFER" /\ eng.cnt \in 0 .. 1
    BY <1>3 DEF SendStep, EngInv, EngTurn
  <2>2. CASE ~eng.sclk
    <3>1. /\ eng'.txfer = "NIB_TXFER" /\ eng'.sclk /\ eng'.cnt = eng.cnt /\ ~eng'.done
          /\ eng'.so = eng.so
      BY <1>3, <2>2 DEF SendStep
    <3>2. Rises = 1 - eng.cnt /\ Rises' = (1 - eng.cnt) + 1
      BY <2>1, <2>2, <3>1
    <3> QED
      BY <2>1, <2>2, <3>1, <3>2
  <2>3. CASE eng.sclk /\ eng.cnt = 0
    BY <1>3, <2>1, <2>3 DEF SendStep
  <2>4. CASE eng.sclk /\ eng.cnt # 0
    <3>1. eng'.txfer = "NIB_TXFER" /\ ~eng'.sclk /\ eng'.cnt = eng.cnt - 1 /\ ~eng'.done
      BY <1>3, <2>4 DEF SendStep
    <3> QED
      BY <2>1, <2>4, <3>1
  <2> QED
    BY <2>2, <2>3, <2>4
<1>4. ~BitStep /\ ~ReceiveStep
  BY DEF BitStep, ReceiveStep, EngInv, EngTurn
<1> QED
  BY <1>1, <1>2, <1>3, <1>4 DEF EngineEdge

\* op_en is taken only as CS# falls, for a reset command or for a burst.
LEMMA TakesTheBus ==
  ASSUME CtlInv, Edge, ctl'.op_en
  PROVE  \/ /\ CsFalls /\ ~ctl.start
            /\ ctl'.state = "STARTUP" \/ ctl'.state = "SEND_COMMAND"
         \/ ctl.op_en /\ ~ctl.cs /\ ~CsFalls /\ ~CsRises
<1> USE DEF CtlInv, CtlStart, CtlLines, Edge, Waiting, Transfers, Becomes, Held, Selected, CsFalls,
            CsRises
<1>1. CASE ctl.state = "STARTUP"
  BY <1>1 DEF StartupStep
<1>2. CASE ctl.state \in {"IDLE", "ASSERT_CS", "DEASSERT_CS"}
  BY <1>2
<1>3. CASE ctl.state = "SEND_COMMAND"
  BY <1>3 DEF CommandStep
<1>4. CASE ctl.state = "SEND_ADDRESS"
  BY <1>4 DEF AddressStep
<1>5. CASE ctl.state \in {"DUMMY_CYCLES", "READ_DATA"}
  BY <1>5 DEF DummyStep, ReadStep
<1>6. CASE ctl.state = "WRITE_DATA"
  BY <1>6 DEF WriteStep
<1> QED
  BY <1>1, <1>2, <1>3, <1>4, <1>5, <1>6 DEF CtlType, CtlStates

\* The chip drives only when selected and reading.
LEMMA DriveStep ==
  ASSUME CtlInv, CtlInv', DevType, DrivesInRead, DeviceEdge
  PROVE  DevType' /\ DrivesInRead'
<1>1. DevType'
  BY DEF DeviceEdge, Shows, Still, SampleStep, DevType
<1>2. CASE CsFalls
  BY <1>1, <1>2 DEF DeviceEdge, Shows, DrivesInRead, CsFalls, CsRises
<1>3. CASE CsRises
  BY <1>1, <1>3 DEF DeviceEdge, Shows, DrivesInRead, CsFalls, CsRises
<1>4. CASE ~CsFalls /\ ~CsRises
  <2>1. ~ctl.cs => ~ctl'.cs
    BY <1>4 DEF CsRises
  <2>2. CASE Still
    BY <1>1, <2>1, <2>2 DEF Still, Shows, DrivesInRead
  <2>3. CASE ~ctl.cs /\ dev'.state = "READ"
    BY <1>1, <2>1, <2>3 DEF DrivesInRead
  <2>4. CASE ~ctl.cs /\ SampleStep(IF ctl'.op_en THEN eng'.so ELSE dev.drive)
    BY <1>1, <2>1, <2>4 DEF SampleStep, Shows, DrivesInRead
  <2> QED
    BY <1>4, <2>2, <2>3, <2>4 DEF DeviceEdge, Shows
<1> QED
  BY <1>1, <1>2, <1>3, <1>4

LEMMA Pair == ASSUME NEW x, NEW y PROVE Append(<<x>>, y) = <<x, y>> /\ Len(<<x, y>>) = 2
<1>1. /\ Len(Append(<<x>>, y)) = 2
      /\ Append(<<x>>, y)[1] = x /\ Append(<<x>>, y)[2] = y
  OBVIOUS
<1>2. Append(<<x>>, y) \in Seq({x, y}) /\ <<x, y>> \in Seq({x, y}) /\ Len(<<x, y>>) = 2
  OBVIOUS
<1>3. \A i \in 1 .. 2 : Append(<<x>>, y)[i] = <<x, y>>[i]
  BY <1>1
<1> QED
  BY <1>1, <1>2, <1>3, SeqEqual

LEMMA OneMore ==
  ASSUME NEW s, NEW n \in Nat, Holds(s, n), NEW x
  PROVE  Holds(Append(s, x), n + 1)
<1> DEFINE S == {s[i] : i \in 1 .. n} \cup {x}
<1>1. s \in Seq(S) /\ Len(s) = n
  BY DEF Holds
<1>2. Append(s, x) \in Seq(S) /\ Len(Append(s, x)) = n + 1
  BY <1>1, AppendProperties
<1> QED
  BY <1>2 DEF Holds

LEMMA NoneYet == Holds(<<>>, 0)
BY DEF Holds

\* A chip that takes no command stays so, whatever it samples.
LEMMA StaysDeaf == ASSUME Deaf, NEW sio, SampleStep(sio) PROVE Deaf'
BY DEF Deaf, SampleStep, Shows

LEMMA StaysResetting ==
  ASSUME Resetting, NEW sio \in {12, 13}, SampleStep(sio)
  PROVE  Resetting'
<1>1. CASE Deaf
  BY <1>1, StaysDeaf DEF Resetting
<1>2. CASE dev.state = "CMD" /\ dev.qpi /\ dev.shift = <<>>
  <2>1. Bits(sio) = <<sio>> /\ Len(Bits(sio)) # 2
    BY <1>2 DEF Bits
  <2>2. dev'.state = "CMD" /\ dev'.shift = <<sio>>
    BY <1>2, <2>1 DEF SampleStep, Shows
  <2> QED
    BY <2>2 DEF Resetting
<1>3. CASE dev.state = "CMD" /\ dev.qpi /\ dev.shift \in {<<12>>, <<13>>}
  <2>1. Bits(sio) = Append(dev.shift, sio)
    BY <1>3 DEF Bits
  <2>2. Len(Bits(sio)) = 2 /\ Bits(sio)[1] \in {12, 13}
    <3>1. CASE dev.shift = <<12>>
      BY <2>1, <3>1
    <3>2. CASE dev.shift = <<13>>
      BY <2>1, <3>2
    <3> QED
      BY <1>3, <3>1, <3>2
  <2>3. Bits(sio) \notin Commands
    BY <2>2 DEF Commands, ReadQuad, WriteQuad
  <2>4. dev'.state = "DONE"
    BY <1>3, <2>2, <2>3 DEF SampleStep, Shows
  <2> QED
    BY <2>4 DEF Resetting, Deaf
<1> QED
  BY <1>1, <1>2, <1>3 DEF Resetting, Deaf

\* The two nibbles of the command open the address phase, with its direction.
LEMMA CommandSampled ==
  ASSUME CtlInv, InCommand, dev.qpi, Rises \in {0, 1}, NEW sio, sio = ctl.cmd[1 + Rises],
         SampleStep(sio), ctl'.cmd = ctl.cmd, Rises' = Rises + 1
  PROVE  InCommand'
<1>1. CASE Rises = 0
  <2>1. dev.state = "CMD" /\ dev.shift = <<>> /\ sio = ctl.cmd[1]
    BY <1>1 DEF InCommand
  <2>2. Bits(sio) = <<sio>> /\ Len(Bits(sio)) # 2
    BY <2>1 DEF Bits
  <2>3. dev'.state = "CMD" /\ dev'.shift = <<ctl.cmd[1]>>
    BY <2>1, <2>2 DEF SampleStep, Shows
  <2> QED
    BY <1>1, <2>3 DEF InCommand
<1>2. CASE Rises = 1
  <2>1. dev.state = "CMD" /\ dev.shift = <<ctl.cmd[1]>> /\ sio = ctl.cmd[2]
    BY <1>2 DEF InCommand
  <2>4. Bits(sio) = <<ctl.cmd[1], ctl.cmd[2]>> /\ Len(Bits(sio)) = 2
    <3>1. Bits(sio) = Append(<<ctl.cmd[1]>>, ctl.cmd[2])
      BY <2>1 DEF Bits
    <3> QED
      BY <3>1, Pair
  <2>2. Bits(sio) = ctl.cmd /\ ctl.cmd \in Commands
    BY <2>4 DEF CtlInv, CtlType, Commands, ReadQuad, WriteQuad
  <2>3. dev'.state = "ADDR" /\ dev'.shift = <<>> /\ dev'.write = (ctl.cmd = WriteQuad)
    BY <2>1, <2>2, <2>4 DEF SampleStep, Shows
  <2> QED
    BY <1>2, <2>3 DEF InCommand
<1> QED
  BY <1>1, <1>2

\* Each nibble of the address counts, and the sixth opens the data phase.
LEMMA AddressSampled ==
  ASSUME CtlInv, InAddress, ctl.left \in 1 .. AddrBytes, Rises \in {0, 1}, NEW sio,
         SampleStep(sio), ctl'.cmd = ctl.cmd, ctl'.left = ctl.left, Rises' = Rises + 1
  PROVE  InAddress'
<1>1. AddressNibbles \in 0 .. 5 /\ AddressNibbles' = AddressNibbles + 1
  BY DEF AddressNibbles, AddrBytes
<1>2. /\ dev.state = "ADDR" /\ Holds(dev.shift, AddressNibbles)
      /\ dev.write = (ctl.cmd = WriteQuad)
  BY <1>1 DEF InAddress, AddrBytes
<1>3. Holds(Bits(sio), AddressNibbles + 1) /\ Len(Bits(sio)) = AddressNibbles + 1
  BY <1>1, <1>2, OneMore DEF Bits, Holds
<1>4. CASE AddressNibbles = 5
  <2>1. dev'.state = IF dev.write THEN "WRITE" ELSE "DUMMY"
    BY <1>2, <1>3, <1>4 DEF SampleStep, Shows, AddrBytes
  <2>2. dev'.state = IF ctl'.cmd = WriteQuad THEN "WRITE" ELSE "DUMMY"
    BY <1>2, <2>1
  <2> QED
    BY <1>1, <1>2, <1>4, <2>1, <2>2 DEF InAddress, AddrBytes
<1>5. CASE AddressNibbles # 5
  <2>1. dev'.state = "ADDR" /\ dev'.shift = Bits(sio) /\ dev'.write = dev.write
    BY <1>1, <1>2, <1>3, <1>5 DEF SampleStep, Shows, AddrBytes
  <2> QED
    BY <1>1, <1>2, <1>3, <1>5, <2>1 DEF InAddress, AddrBytes
<1> QED
  BY <1>4, <1>5

\* A selection starts with the chip at its first command bit.
LEMMA AlignedAtStart ==
  ASSUME CtlInv, Edge, EngInv, EngineEdge, DeviceEdge, CsFalls, ~ctl.start,
         ctl'.state = "STARTUP" \/ ctl'.state = "SEND_COMMAND"
  PROVE  Aligned'
<1>1. Rises' = 0
  BY BetweenBytes
<1>2. dev'.state = "CMD" /\ dev'.shift = <<>>
  BY DEF DeviceEdge, Shows, CsFalls, CsRises
<1>3. Resetting' /\ InCommand'
  BY <1>1, <1>2 DEF Resetting, InCommand
<1> QED
  BY <1>3 DEF Aligned

\* Between two bytes the chip stands still, and what it has counted is what the
\* controller goes on from.
LEMMA AlignedBetween ==
  ASSUME CtlInv, Edge, EngInv, EngineEdge, DevInv, DeviceEdge, ctl.op_en, ctl'.op_en,
         ~ctl.cs, ~CsFalls, ~CsRises, ~ctl.start \/ eng.done
  PROVE  Aligned'
<1>1. Aligned
  BY DEF DevInv
<1>2. Rises' = 0 /\ ~SclkRises
  BY BetweenBytes
<1>3. Rises = (IF ctl.start THEN 2 ELSE 0)
  BY DEF EngInv, EngType, EngTurn, Rises
<1>4. dev.state # "READ"
  BY <1>1 DEF Aligned, Resetting, Deaf, InCommand, InAddress, CtlInv, CtlLines, CtlType,
     CtlStates, Transfers
<1>5. Still
  BY <1>2, <1>4 DEF DeviceEdge
<1>6. Deaf => Deaf'
  BY <1>5 DEF Still, Shows, Deaf
<1>7. CASE ctl.state = "STARTUP"
  <2>1. ctl'.state = "STARTUP"
    BY <1>7 DEF Edge, StartupStep, Becomes, Held
  <2>2. Resetting'
    BY <1>1, <1>5, <1>7 DEF Aligned, Resetting, Deaf, Still, Shows
  <2> QED
    BY <2>1, <2>2 DEF Aligned
<1>8. CASE ctl.state = "SEND_COMMAND" /\ ctl.start
  <2>1. /\ ctl'.state = "SEND_ADDRESS" /\ ctl'.cmd = ctl.cmd /\ ctl'.left = AddrBytes
    BY <1>8 DEF Edge, CommandStep, Held, Selected, Becomes, CtlInv, CtlStart, Waiting, Transfers
  <2>2. InCommand => InAddress'
    <3>1. AddressNibbles' = 0
      BY <1>2, <2>1 DEF AddressNibbles, AddrBytes
    <3> QED
      BY <1>3, <1>5, <1>8, <2>1, <3>1, NoneYet DEF InCommand, InAddress, Still, Shows, AddrBytes
  <2> QED
    BY <1>1, <1>6, <1>8, <2>1, <2>2 DEF Aligned
<1>9. CASE ctl.state = "SEND_COMMAND" /\ ~ctl.start
  <2>1. ctl'.state = "SEND_COMMAND" /\ ctl'.cmd = ctl.cmd
    BY <1>9 DEF Edge, CommandStep, Held, Selected, Becomes, CtlInv, CtlStart, Waiting, Transfers
  <2>2. InCommand => InCommand'
    BY <1>2, <1>3, <1>5, <1>9, <2>1 DEF InCommand, Still, Shows
  <2> QED
    BY <1>1, <1>6, <1>9, <2>1, <2>2 DEF Aligned
<1>10. CASE ctl.state = "SEND_ADDRESS" /\ ctl'.state = "SEND_ADDRESS"
  <2>1. /\ ctl'.cmd = ctl.cmd
        /\ ctl'.left = (IF ctl.start THEN ctl.left - 1 ELSE ctl.left)
    BY <1>10 DEF Edge, AddressStep, Held, Selected, Becomes, CtlInv, CtlStart, Waiting,
       Transfers
  <2>2. AddressNibbles' = AddressNibbles
    BY <1>2, <1>3, <1>10, <2>1 DEF AddressNibbles, AddrBytes, CtlInv, CtlData
  <2>3. InAddress => InAddress'
    BY <1>5, <2>1, <2>2 DEF InAddress, Still, Shows
  <2> QED
    BY <1>1, <1>6, <1>10, <2>3 DEF Aligned
<1>11. CASE ctl.state = "SEND_ADDRESS" /\ ctl'.state # "SEND_ADDRESS"
  <2>1. /\ ctl.start /\ ctl.left = 1 /\ ctl'.state = "WRITE_DATA" /\ ctl.cmd = WriteQuad
    BY <1>11 DEF Edge, AddressStep, Held, Selected, Becomes, CtlInv, CtlStart, Waiting,
       Transfers
  <2>2. AddressNibbles = 2 * AddrBytes
    BY <1>3, <2>1 DEF AddressNibbles, AddrBytes
  <2>3. InAddress => dev'.state = "WRITE"
    BY <1>5, <2>1, <2>2 DEF InAddress, Still, Shows
  <2> QED
    BY <1>1, <1>6, <1>11, <2>1, <2>3 DEF Aligned
<1>12. CASE ctl.state = "WRITE_DATA"
  <2>1. ctl'.state \in {"WRITE_DATA", "DEASSERT_CS"}
    BY <1>12 DEF Edge, WriteStep, Held, Selected, Becomes
  <2> QED
    BY <1>1, <1>5, <1>6, <1>12, <2>1 DEF Aligned, Still, Shows
<1>13. ctl.state \in {"STARTUP", "SEND_COMMAND", "SEND_ADDRESS", "WRITE_DATA"}
  BY DEF Edge, DummyStep, ReadStep, Becomes, Selected, Held, CtlInv, CtlType, CtlStates,
     Transfers, CtlLines
<1> QED
  BY <1>7, <1>8, <1>9, <1>10, <1>11, <1>12, <1>13

\* Within a byte the chip and the engine count the same edges.
LEMMA AlignedWithin ==
  ASSUME CtlInv, Edge, EngInv, EngInv', EngineEdge, DevInv, DeviceEdge, ctl.op_en, ctl'.op_en,
         ~ctl.cs, ~CsFalls, ~CsRises, ctl.start, ~eng.done
  PROVE  Aligned'
<1>1. Aligned
  BY DEF DevInv
<1>2. Held /\ ctl'.state = ctl.state /\ ctl'.cmd = ctl.cmd /\ ctl'.left = ctl.left
  BY Waits DEF Held, Becomes
<1>3. dev.state # "READ"
  BY <1>1 DEF Aligned, Resetting, Deaf, InCommand, InAddress, CtlInv, CtlLines, CtlType,
     CtlStates, Transfers
<1>4. \/ ~SclkRises /\ Still
      \/ SclkRises /\ SampleStep(eng'.so)
  BY <1>3 DEF DeviceEdge
<1>5. Deaf => Deaf'
  BY <1>4, StaysDeaf DEF Still, Shows, Deaf
<1>6. CASE ctl.state = "STARTUP"
  <2>1. eng'.so \in {12, 13}
    BY <1>2, <1>6 DEF EngInv, EngData
  <2>2. Resetting'
    BY <1>1, <1>4, <1>6, <2>1, StaysResetting DEF Aligned, Resetting, Deaf, Still, Shows
  <2> QED
    BY <1>2, <1>6, <2>2 DEF Aligned
<1>7. CASE ctl.state # "STARTUP"
  <2>1. ctl.quad
    BY <1>7 DEF CtlInv, CtlStart
  <2>2. /\ SclkRises => /\ Rises \in {0, 1} /\ Rises' = Rises + 1 /\ eng'.so = eng.so
                        /\ eng.txfer = "NIB_TXFER" /\ eng.cnt = 1 - Rises
        /\ ~SclkRises => Rises' = Rises
    BY <1>7, <2>1, WithinByte
  <2>3. CASE ctl.state = "SEND_COMMAND"
    <3>1. CASE Deaf
      BY <1>2, <1>5, <2>3, <3>1 DEF Aligned
    <3>2. CASE InCommand /\ ~Deaf /\ ~SclkRises
      BY <1>2, <1>4, <2>2, <2>3, <3>2 DEF Aligned, InCommand, Still, Shows
    <3>3. CASE InCommand /\ ~Deaf /\ SclkRises
      <4>1. dev.qpi
        BY <2>2, <3>3 DEF InCommand, Deaf
      <4>2. eng'.so = ctl.cmd[1 + Rises]
        BY <2>2, <2>3, <3>3 DEF EngInv, EngData
      <4>3. InCommand'
        BY <1>2, <1>4, <2>2, <3>3, <4>1, <4>2, CommandSampled
      <4> QED
        BY <1>2, <2>3, <4>3 DEF Aligned
    <3> QED
      BY <1>1, <2>3, <3>1, <3>2, <3>3 DEF Aligned
  <2>4. CASE ctl.state = "SEND_ADDRESS"
    <3>1. CASE Deaf
      BY <1>2, <1>5, <2>4, <3>1 DEF Aligned
    <3>2. CASE InAddress /\ ~SclkRises
      <4>1. AddressNibbles' = AddressNibbles
        BY <1>2, <2>2, <3>2 DEF AddressNibbles
      <4> QED
        BY <1>2, <1>4, <2>4, <3>2, <4>1 DEF Aligned, InAddress, Still, Shows
    <3>3. CASE InAddress /\ SclkRises
      <4>1. ctl.left \in 1 .. AddrBytes
        BY <2>4 DEF CtlInv, CtlData
      <4>2. InAddress'
        BY <1>2, <1>4, <2>2, <3>3, <4>1, AddressSampled
      <4> QED
        BY <1>2, <2>4, <4>2 DEF Aligned
    <3> QED
      BY <1>1, <2>4, <3>1, <3>2, <3>3 DEF Aligned
  <2>5. CASE ctl.state \in {"WRITE_DATA", "DEASSERT_CS"}
    <3>1. dev.state = "WRITE" => dev'.state = "WRITE"
      BY <1>4 DEF Still, SampleStep, Shows
    <3> QED
      BY <1>1, <1>2, <1>5, <2>5, <3>1 DEF Aligned
  <2>6. ctl.state \in {"SEND_COMMAND", "SEND_ADDRESS", "WRITE_DATA", "DEASSERT_CS"}
    BY <1>7 DEF CtlInv, CtlType, CtlStates, Transfers, CtlLines
  <2> QED
    BY <2>3, <2>4, <2>5, <2>6
<1> QED
  BY <1>6, <1>7

LEMMA BusInit == Init => BInv
<1> SUFFICES ASSUME Init PROVE BInv
  OBVIOUS
<1>1. CtlInv
  BY DEF Init, CtlInit, CtlInv, CtlType, CtlStart, CtlLines, CtlData, CtlFields, CtlStates,
     Transfers,
         Waiting, Commands, LastInit
<1>2. EngInv
  BY DEF Init, EngInit, CtlInit, EngInv, EngType, EngTurn, EngData, EngFields
<1>3. DevInv
  BY DEF Init, DevInit, CtlInit, DevInv, DevType, DrivesInRead, DevFields
<1>4. CallInv
  BY DEF Init, NoCall, CallInv, CallFields, Commands
<1> QED
  BY <1>1, <1>2, <1>3, <1>4 DEF BInv

LEMMA CallStep == ASSUME CallInv, Caller PROVE CallInv'
<1> USE DEF CallInv, CallFields
<1>1. CASE UNCHANGED call
  BY <1>1
<1>2. CASE \E cmd \in Commands : \E addr, data : call' = Calling(cmd, addr, data)
  BY <1>2 DEF Calling, NoCall
<1>3. CASE call' = NoCall
  BY <1>3 DEF NoCall, Commands
<1>4. CASE call' = [call EXCEPT !.start = FALSE,
                             !.sent = IF ctl.received THEN @ + 1 ELSE @,
                             !.got = IF ctl.ready THEN Append(@, ctl.out) ELSE @]
  BY <1>4
<1> QED
  BY <1>1, <1>2, <1>3, <1>4 DEF Caller, Commands

\* The proof's invariant, step by step: the controller, the engine, the chip.
LEMMA BusStep == BInv /\ [Next]_vars => BInv'
<1> SUFFICES ASSUME BInv, [Next]_vars PROVE BInv'
  OBVIOUS
<1>1. CASE Next
  <2>1. Edge /\ EngineEdge /\ DeviceEdge
    BY <1>1, ControllerMoves, EngineMoves, DeviceMoves DEF Next, BInv, CallInv, DevInv
  <2>2. CtlInv' /\ EngInv' /\ CallInv'
    BY <1>1, <2>1, CtlStep, EngStep, CallStep DEF Next, BInv
  <2>3. DevType' /\ DrivesInRead'
    BY <2>1, <2>2, DriveStep DEF BInv, DevInv
  <2>4. ctl'.op_en => Aligned'
    <3> SUFFICES ASSUME ctl'.op_en PROVE Aligned'
      OBVIOUS
    <3>1. CASE CsFalls
      BY <2>1, <3>1, TakesTheBus, AlignedAtStart DEF BInv, CsFalls
    <3>2. CASE ~CsFalls
      <4>1. ctl.op_en /\ ~ctl.cs /\ ~CsRises
        BY <2>1, <3>2, TakesTheBus DEF BInv
      <4> QED
        BY <2>1, <2>2, <3>2, <4>1, AlignedBetween, AlignedWithin DEF BInv
    <3> QED
      BY <3>1, <3>2
  <2> QED
    BY <2>2, <2>3, <2>4 DEF BInv, DevInv
<1>2. CASE UNCHANGED vars
  BY <1>2 DEF vars, BInv, CtlInv, CtlType, CtlStart, CtlLines, CtlData, Waiting, EngInv,
     EngType, EngTurn,
     EngData, DevInv, DevType, DrivesInRead, Aligned, Resetting, Deaf, InCommand, InAddress,
     AddressNibbles, Rises, CallInv
<1> QED
  BY <1>1, <1>2

LEMMA BusSafe == BInv => NoContention
<1> SUFFICES ASSUME BInv, ctl.op_en, dev.drive # Z PROVE FALSE
  BY DEF NoContention
<1>1. dev.state = "READ" /\ Aligned
  BY DEF BInv, DevInv, DrivesInRead
<1> QED
  BY <1>1 DEF BInv, Aligned, Resetting, Deaf, InCommand, InAddress, CtlInv, CtlType, CtlLines,
     CtlStates, Transfers

\* Controller and chip never drive the bus together, whatever the caller asks for
\* and whenever: the engine's edges keep the chip's count of command, address and
\* data nibbles in step with the controller's states (SPIRAMCONTROLLER.v,
\* SPIRAMENGINE.v).
THEOREM BusNeverContended == Spec => []NoContention
<1> QED
  BY BusInit, BusStep, BusSafe, PTL DEF Spec

-----------------------------------------------------------------------------
(* What a burst moves.  The same edges, with the values on them.             *)

\* The strobes are up where a byte has just been handed over, and busy is low
\* in IDLE alone.
CtlStrobes ==
  /\ ctl.busy = (ctl.state # "IDLE")
  /\ ctl.received \in BOOLEAN /\ ctl.ready \in BOOLEAN
  /\ ctl.received => \/ ctl.state = "WRITE_DATA" /\ ctl.intra = 2
                     \/ ctl.state = "DEASSERT_CS" /\ ctl.cmd = WriteQuad
  /\ ctl.ready => \/ ctl.state = "READ_DATA" /\ ctl.intra = 0
                  \/ ctl.state = "DEASSERT_CS" /\ ctl.cmd = ReadQuad
\* How many bytes of its phase the controller has left.
CtlCount ==
  /\ ctl.state = "DUMMY_CYCLES" => ctl.left \in 1 .. DummyBytes
  /\ ctl.state \in {"WRITE_DATA", "READ_DATA"} => ctl.left \in 1 .. BurstLen
  /\ ctl.state \in {"DUMMY_CYCLES", "READ_DATA"} => ctl.cmd = ReadQuad
\* The address bytes still to be sent, and the one in hand.
Unsent(a, left) == SubSeq(AddressBytes(a), AddrBytes - left + 1, AddrBytes)
CtlAddress ==
  ctl.state = "SEND_ADDRESS" =>
    /\ ctl.sh = Unsent(ctl.addr, ctl.left)
    /\ ctl.intra = 1 => ctl.byte = AddressBytes(ctl.addr)[AddrBytes - ctl.left + 1]
\* The reset command in hand.
CtlReset ==
  ctl.state = "STARTUP" /\ ctl.intra \in {2, 3} => ctl.byte = InitCmd(ctl.init)
CtlWord == CtlStrobes /\ CtlCount /\ CtlAddress /\ CtlReset

\* At rest sclk is low; a byte under way is the controller's, and the bit or
\* nibble on the lines is the one its count says.
EngWord ==
  /\ eng.txfer = "IDLE" /\ ~eng.done => ~eng.sclk
  /\ eng.done => eng.sclk = ~ctl.op_en
  /\ eng.txfer = "NIB_TXFER" /\ ~ctl.op_en /\ eng.sclk => eng.cnt = 0
  /\ eng.txfer = "NIB_TXFER" /\ ctl.op_en =>
       eng.sh = ctl.byte /\ eng.so = ctl.byte[2 - eng.cnt]
  /\ eng.txfer = "BIT_TXFER" => eng.sh = ctl.byte /\ eng.so = Serial(Bit(ctl.byte, eng.cnt))
  /\ DOMAIN eng.in = 1 .. 2

\* Rising edges of sclk in the byte under way: one sent as bits, one received.
BitRises ==
  IF eng.done THEN 8
  ELSE IF eng.txfer = "IDLE" THEN 0
  ELSE (7 - eng.cnt) + (IF eng.sclk THEN 1 ELSE 0)
NibblesIn ==
  IF eng.done THEN 2 ELSE IF eng.txfer = "IDLE" THEN 0 ELSE 1 - eng.cnt

\* The chip leaves start-up in QPI mode: only the last of the three commands
\* switches it, and it reads each of them bit by bit.
InReset ==
  IF BitRises = 8 THEN dev.state = "DONE" /\ dev.qpi = (ctl.init = LastInit)
  ELSE /\ dev.state = "CMD" /\ ~dev.qpi
       /\ dev.shift = [j \in 1 .. BitRises |-> Bit(ctl.byte, 8 - j)]
ChipMode ==
  /\ ctl.state # "STARTUP" => dev.qpi
  /\ ctl.state = "STARTUP" =>
       CASE ctl.intra \in {0, 1} -> ~dev.qpi
         [] ctl.intra \in {2, 3} -> InReset
         [] ctl.intra = 4 -> dev.qpi = (ctl.init = LastInit)

\* Command and address as the chip has them.
InBurst == Transfers \cup {"ASSERT_CS", "DEASSERT_CS"}
AddressNibble(a, j) == AddressBytes(a)[(j + 1) \div 2][2 - (j % 2)]
ChipAddress ==
  /\ ctl.state = "SEND_COMMAND" => InCommand /\ dev.clks = 0
  /\ ctl.state = "SEND_ADDRESS" =>
       /\ InAddress /\ dev.clks = 0
       /\ IF AddressNibbles = 2 * AddrBytes THEN dev.addr = ctl.addr /\ dev.half = FALSE
          ELSE dev.shift = [j \in 1 .. AddressNibbles |-> AddressNibble(ctl.addr, j)]

\* The dummy clocks: the sixth ends them, for the chip as for the controller.
DummyRises == 2 * (DummyBytes - ctl.left) + NibblesIn
ChipDummy ==
  ctl.state = "DUMMY_CYCLES" =>
    /\ dev.addr = ctl.addr
    /\ IF DummyRises = 6 THEN dev.state = "READ" /\ dev.half = FALSE
       ELSE dev.state = "DUMMY" /\ dev.clks = DummyRises

\* A write: n bytes are in the chip, one nibble of the next may be.
Written(n) ==
  /\ \A i \in 1 .. n : dev.mem[Place(call.addr, i)] = call.data[i]
  /\ \A a \in 0 .. MemSize - 1 :
       a \notin {Place(call.addr, i) : i \in 1 .. n} => dev.mem[a] = call.before[a]
\* One for a strobe the caller has not answered yet.
Pending(strobe) == IF strobe THEN 1 ELSE 0
BytesIn == BurstLen - ctl.left + (IF Rises = 2 THEN 1 ELSE 0)
ChipWrite ==
  ctl.state = "WRITE_DATA" =>
    /\ ctl.intra = 1 => ctl.byte = call.data[BurstLen - ctl.left + 1]
    /\ dev.state = "WRITE" /\ dev.addr = Place(call.addr, BytesIn + 1)
    /\ dev.half = (Rises = 1) /\ (dev.half => dev.hi = ctl.byte[1])
    /\ Written(BytesIn)
    /\ call.sent = BurstLen - ctl.left - Pending(ctl.received)

\* A read: the chip shows a nibble of the byte under way, or already of the
\* next one; what has been sampled of it is in eng.in.
Asked(k) == dev.mem[Place(call.addr, k)]
LowShown ==
  /\ ctl.intra = 1
  /\ eng.done \/ (eng.txfer = "NIB_TXFER" /\ ~eng.sclk /\ eng.cnt = 0)
ChipRead ==
  ctl.state = "READ_DATA" =>
    LET k == BurstLen - ctl.left + 1
        shown == IF ctl.intra = 2 THEN k + 1 ELSE k
    IN /\ dev.state = "READ"
       /\ IF LowShown
          THEN dev.half = FALSE /\ dev.addr = Place(call.addr, k + 1) /\ dev.drive = Asked(k)[2]
          ELSE dev.half = TRUE /\ dev.addr = Place(call.addr, shown) /\ dev.drive = Asked(shown)[1]
       /\ eng.txfer = "NIB_TXFER" /\ eng.cnt = 0 => eng.in[1] = Asked(k)[1]
       /\ eng.done \/ ctl.intra = 2 => eng.in = Asked(k)
Collected(n) ==
  /\ call.got = [i \in 1 .. n - Pending(ctl.ready) |-> Asked(i)]
  /\ ctl.ready => n >= 1 /\ ctl.out = Asked(n)

\* The caller's side: its request is the controller's until the burst ends.
CallRequest ==
  /\ call.start => call.busy /\ ctl.state = "IDLE"
  /\ ctl.state = "STARTUP" => ~call.busy
  /\ call.busy => /\ call.addr \in Starts
                  /\ call.cmd = WriteQuad => call.data \in WriteData
                  /\ call.before \in [0 .. MemSize - 1 -> Byte]
  /\ ctl.state \in InBurst => call.busy /\ call.cmd = ctl.cmd /\ call.addr = ctl.addr
Opening == {"ASSERT_CS", "SEND_COMMAND", "SEND_ADDRESS", "DUMMY_CYCLES"}
CallMoved ==
  /\ dev.mem \in [0 .. MemSize - 1 -> Byte]
  /\ call.start \/ ctl.state \in Opening => call.sent = 0 /\ call.got = <<>> /\ dev.mem = call.before
  /\ ctl.state = "READ_DATA" => dev.mem = call.before /\ Collected(BurstLen - ctl.left)
  /\ (ctl.state = "DEASSERT_CS" \/ Ended) =>
       IF call.cmd = WriteQuad
       THEN Written(BurstLen) /\ call.sent = BurstLen - Pending(ctl.received)
       ELSE dev.mem = call.before /\ Collected(BurstLen)

WordInv ==
  /\ CtlWord /\ EngWord /\ ChipMode /\ ChipAddress /\ ChipDummy /\ ChipWrite /\ ChipRead
  /\ CallRequest /\ CallMoved

\* What an edge leaves in the controller's registers, state by state, where the
\* engine has been given nothing or is done.
Goes(state, intra, left) == ctl'.state = state /\ ctl'.intra = intra /\ ctl'.left = left
Serves == ctl'.cmd = ctl.cmd /\ ctl'.addr = ctl.addr /\ ctl'.busy = ctl.busy
Quiet == ctl'.received = FALSE /\ ctl'.ready = FALSE
HeldWord ==
  /\ ctl.start /\ ~eng.done /\ Goes(ctl.state, ctl.intra, ctl.left) /\ Serves /\ Quiet
  /\ ctl'.start /\ ctl'.op_en = ctl.op_en /\ ctl'.byte = ctl.byte /\ ctl'.sh = ctl.sh
  /\ ctl'.init = ctl.init
StartupWord ==
  /\ Quiet
  /\ \/ ctl.intra = 0 /\ ctl'.state = "STARTUP" /\ ctl'.intra \in {0, 1}
     \/ /\ ctl.intra = 1 /\ ctl'.state = "STARTUP" /\ ctl'.intra = 2 /\ ctl'.init = ctl.init
        /\ ctl'.byte = InitCmd(ctl.init)
     \/ /\ ctl.intra = 2 /\ ctl'.state = "STARTUP" /\ ctl'.intra = 3 /\ ctl'.init = ctl.init
        /\ ctl'.byte = ctl.byte
     \/ /\ ctl.intra = 3 /\ ctl.start /\ eng.done
        /\ ctl'.state = "STARTUP" /\ ctl'.intra = 4 /\ ctl'.init = ctl.init
     \/ ctl.intra = 4 /\ ctl'.state = "STARTUP" /\ ctl'.intra = 4 /\ ctl'.init = ctl.init
     \/ ctl.intra = 4 /\ ctl.init # LastInit /\ ctl'.state = "STARTUP" /\ ctl'.intra = 1
     \/ ctl.intra = 4 /\ ctl.init = LastInit /\ ctl'.state = "IDLE"
IdleWord(s, c, a) ==
  /\ Quiet
  /\ IF s THEN ctl'.state = "ASSERT_CS" /\ ctl'.busy = TRUE /\ ctl'.cmd = c /\ ctl'.addr = a
     ELSE ctl'.state = "IDLE" /\ ctl'.busy = FALSE
CommandWord ==
  /\ Serves /\ Quiet
  /\ \/ ~ctl.start /\ Goes("SEND_COMMAND", 1, ctl.left) /\ ctl'.byte = ctl.cmd
     \/ /\ ctl.start /\ eng.done /\ Goes("SEND_ADDRESS", 0, AddrBytes)
        /\ ctl'.sh = AddressBytes(ctl.addr)
AddressWord ==
  /\ Serves /\ Quiet
  /\ \/ /\ ~ctl.start /\ Goes("SEND_ADDRESS", 1, ctl.left) /\ ctl'.sh = ctl.sh
        /\ ctl'.byte = Head(ctl.sh)
     \/ /\ ctl.start /\ eng.done /\ ctl.left # 1 /\ Goes("SEND_ADDRESS", 0, ctl.left - 1)
        /\ ctl'.sh = Tail(ctl.sh)
     \/ /\ ctl.start /\ eng.done /\ ctl.left = 1 /\ ctl.cmd = ReadQuad
        /\ Goes("DUMMY_CYCLES", 0, DummyBytes)
     \/ /\ ctl.start /\ eng.done /\ ctl.left = 1 /\ ctl.cmd = WriteQuad
        /\ Goes("WRITE_DATA", 0, BurstLen)
DummyWord ==
  /\ Serves /\ Quiet
  /\ \/ ~ctl.start /\ Goes("DUMMY_CYCLES", 1, ctl.left)
     \/ ctl.start /\ eng.done /\ ctl.left # 1 /\ Goes("DUMMY_CYCLES", 0, ctl.left - 1)
     \/ ctl.start /\ eng.done /\ ctl.left = 1 /\ Goes("READ_DATA", 0, BurstLen)
WriteWord(b) ==
  /\ Serves /\ ctl'.ready = FALSE
  /\ \/ /\ ~ctl.start /\ ctl.intra = 0 /\ Goes("WRITE_DATA", 1, ctl.left) /\ ctl'.byte = b
        /\ ctl'.received = FALSE
     \/ /\ ~ctl.start /\ ctl.intra = 2 /\ Goes("WRITE_DATA", 0, ctl.left) /\ ctl'.received = FALSE
     \/ /\ ctl.start /\ eng.done /\ ctl.left # 1 /\ Goes("WRITE_DATA", 2, ctl.left - 1)
        /\ ctl'.received = TRUE
     \/ /\ ctl.start /\ eng.done /\ ctl.left = 1 /\ Goes("DEASSERT_CS", 0, ctl.left)
        /\ ctl'.received = TRUE
ReadWord ==
  /\ Serves /\ ctl'.received = FALSE
  /\ \/ ~ctl.start /\ ctl.intra = 0 /\ Goes("READ_DATA", 1, ctl.left) /\ ctl'.ready = FALSE
     \/ ctl.start /\ eng.done /\ Goes("READ_DATA", 2, ctl.left) /\ ctl'.ready = FALSE
     \/ /\ ~ctl.start /\ ctl.intra = 2 /\ ctl.left # 1 /\ Goes("READ_DATA", 0, ctl.left - 1)
        /\ ctl'.ready = TRUE /\ ctl'.out = eng.in
     \/ /\ ~ctl.start /\ ctl.intra = 2 /\ ctl.left = 1 /\ Goes("DEASSERT_CS", 0, ctl.left)
        /\ ctl'.ready = TRUE /\ ctl'.out = eng.in
EndWord ==
  /\ Quiet
  /\ \/ ctl'.state = "IDLE" /\ ctl'.busy = FALSE
     \/ ctl'.state = "DEASSERT_CS" /\ Serves
WordEdge(s, c, a, b) ==
  \/ HeldWord
  \/ ctl.state = "STARTUP" /\ StartupWord /\ ctl'.busy = (ctl'.state # "IDLE")
  \/ ctl.state = "IDLE" /\ IdleWord(s, c, a)
  \/ ctl.state = "ASSERT_CS" /\ Serves /\ Quiet /\ ctl'.state = "SEND_COMMAND" /\ ctl'.intra = 0
  \/ ctl.state = "SEND_COMMAND" /\ CommandWord
  \/ ctl.state = "SEND_ADDRESS" /\ AddressWord
  \/ ctl.state = "DUMMY_CYCLES" /\ DummyWord
  \/ ctl.state = "WRITE_DATA" /\ WriteWord(b)
  \/ ctl.state = "READ_DATA" /\ ReadWord
  \/ ctl.state = "DEASSERT_CS" /\ EndWord

LEMMA HeldWords ==
  ASSUME CtlInv, NEW s, NEW c, NEW a, NEW b, Controller(s, c, a, b), ctl.start, ~eng.done
  PROVE  HeldWord
<1>1. ctl' = Idled
  <2>1. CASE ctl.state = "STARTUP"
    BY <2>1 DEF CtlInv, CtlStart, Waiting, Transfers, Controller, Startup
  <2>2. CASE ctl.state \in {"SEND_COMMAND", "SEND_ADDRESS", "DUMMY_CYCLES"}
    BY <2>2 DEF CtlInv, CtlStart, Waiting, Transfers, Controller, SendCommand, SendAddress,
       DummyCycles
  <2>3. CASE ctl.state \in {"WRITE_DATA", "READ_DATA"}
    BY <2>3 DEF CtlInv, CtlStart, Waiting, Transfers, Controller, SendData, ReadData
  <2>4. ctl.state \in Transfers \cup {"STARTUP"}
    BY DEF CtlInv, CtlStart, Waiting
  <2> QED
    BY <2>1, <2>2, <2>3, <2>4 DEF Transfers
<1> QED
  BY <1>1 DEF HeldWord, Goes, Serves, Quiet, Idled, CtlInv, CtlType, CtlFields

LEMMA StartupWords ==
  ASSUME CtlInv, CtlStrobes, ctl.state = "STARTUP", ctl' = Startup, ~ctl.start \/ eng.done
  PROVE  StartupWord /\ ctl'.busy = (ctl'.state # "IDLE")
<1>a. ctl.intra \in 0 .. 4
  BY DEF CtlInv, CtlLines
<1>0. ctl.busy = TRUE /\ (ctl.intra = 3 => ctl.start)
  BY DEF CtlStrobes, CtlInv, CtlStart, Waiting
<1> USE DEF StartupWord, Quiet, Idled, CtlInv, CtlType, CtlFields
<1>1. CASE ctl.intra = 0 /\ ctl.cnt = PwrUpCycles
  <2>1. ctl' = [Idled EXCEPT !.quad = FALSE, !.clk_en = TRUE, !.cnt = 0, !.intra = 1]
    BY <1>1 DEF Startup
  <2> QED
    BY <1>0, <1>1, <2>1
<1>6. CASE ctl.intra = 0 /\ ctl.cnt # PwrUpCycles
  <2>1. ctl' = [Idled EXCEPT !.busy = TRUE, !.cnt = @ + 1]
    BY <1>6 DEF Startup
  <2> QED
    BY <1>0, <1>6, <2>1
<1>2. CASE ctl.intra = 1
  <2>1. ctl' = [Idled EXCEPT !.cs = FALSE, !.op_en = TRUE, !.byte = InitCmd(ctl.init), !.intra = 2]
    BY <1>2 DEF Startup
  <2> QED
    BY <1>0, <1>2, <2>1
<1>3. CASE ctl.intra = 2
  <2>1. ctl' = [Idled EXCEPT !.start = TRUE, !.intra = 3]
    BY <1>3 DEF Startup
  <2> QED
    BY <1>0, <1>3, <2>1
<1>4. CASE ctl.intra = 3
  <2>1. ctl' = [Idled EXCEPT !.start = FALSE, !.cs = TRUE, !.op_en = FALSE, !.wait = 0, !.intra = 4]
    BY <1>0, <1>4 DEF Startup
  <2> QED
    BY <1>0, <1>4, <2>1
<1>5. CASE ctl.intra = 4 /\ ctl.wait # CsGap
  <2>1. ctl' = [Idled EXCEPT !.wait = @ + 1]
    BY <1>5 DEF Startup
  <2> QED
    BY <1>0, <1>5, <2>1
<1>7. CASE ctl.intra = 4 /\ ctl.wait = CsGap /\ ctl.init = LastInit
  <2>1. ctl' = [Enter(Idled, "IDLE") EXCEPT !.quad = TRUE, !.busy = FALSE]
    BY <1>7 DEF Startup
  <2> QED
    BY <1>0, <1>7, <2>1 DEF Enter
<1>8. CASE ctl.intra = 4 /\ ctl.wait = CsGap /\ ctl.init # LastInit
  <2>1. ctl' = [Idled EXCEPT !.init = @ + 1, !.intra = 1]
    BY <1>8 DEF Startup
  <2> QED
    BY <1>0, <1>8, <2>1
<1> HIDE DEF StartupWord, Quiet, Idled, CtlInv, CtlType, CtlFields
<1> QED
  BY <1>a, <1>1, <1>2, <1>3, <1>4, <1>5, <1>6, <1>7, <1>8

LEMMA OpeningWords ==
  ASSUME CtlInv, ctl.state \in {"SEND_COMMAND", "SEND_ADDRESS", "DUMMY_CYCLES"},
         ~ctl.start \/ eng.done, NEW s, NEW c, NEW a, NEW b, Controller(s, c, a, b)
  PROVE  /\ ctl.state = "SEND_COMMAND" => CommandWord
         /\ ctl.state = "SEND_ADDRESS" => AddressWord
         /\ ctl.state = "DUMMY_CYCLES" => DummyWord
<1> USE DEF Goes, Serves, Quiet, Idled, Enter, Launch, CtlInv, CtlType, CtlFields
<1>1. ctl.intra = (IF ctl.start THEN 1 ELSE 0)
  BY DEF CtlStart, CtlLines, Waiting, Transfers
<1>2. CASE ctl.state = "SEND_COMMAND"
  <2>1. ctl' = SendCommand
    BY <1>2 DEF Controller
  <2> QED
    BY <1>1, <1>2, <2>1 DEF SendCommand, CommandWord
<1>3. CASE ctl.state = "SEND_ADDRESS"
  <2>1. ctl' = SendAddress
    BY <1>3 DEF Controller
  <2>2. CASE ~ctl.start
    BY <1>1, <1>3, <2>1, <2>2 DEF SendAddress, AddressWord
  <2>3. CASE ctl.start /\ ctl.left # 1
    <3>1. ctl' = [[Idled EXCEPT !.left = @ - 1, !.intra = 0] EXCEPT !.start = FALSE, !.sh = Tail(ctl.sh)]
      BY <1>1, <2>1, <2>3 DEF SendAddress
    <3> QED
      BY <1>1, <1>3, <2>3, <3>1 DEF AddressWord
  <2>4. CASE ctl.start /\ ctl.left = 1
    <3>1. ctl' = [AfterAddress EXCEPT !.start = FALSE, !.sh = Tail(ctl.sh)]
      BY <1>1, <2>1, <2>4 DEF SendAddress
    <3> QED
      BY <1>1, <1>3, <2>4, <3>1 DEF AfterAddress, AddressWord, Commands
  <2> QED
    BY <1>3, <2>2, <2>3, <2>4
<1>4. CASE ctl.state = "DUMMY_CYCLES"
  <2>1. ctl' = DummyCycles
    BY <1>4 DEF Controller
  <2> QED
    BY <1>1, <1>4, <2>1 DEF DummyCycles, DummyWord
<1> QED
  BY <1>2, <1>3, <1>4

LEMMA DataWords ==
  ASSUME CtlInv, ctl.state \in {"WRITE_DATA", "READ_DATA"},
         ~ctl.start \/ eng.done, NEW s, NEW c, NEW a, NEW b, Controller(s, c, a, b)
  PROVE  /\ ctl.state = "WRITE_DATA" => WriteWord(b)
         /\ ctl.state = "READ_DATA" => ReadWord
<1> USE DEF Goes, Serves, Idled, Enter, Launch, Deassert, CtlInv, CtlType, CtlFields
<1>1. ctl.intra \in 0 .. 2 /\ (ctl.start <=> ctl.intra = 1)
  BY DEF CtlStart, CtlLines, Waiting, Transfers
<1>2. CASE ctl.state = "WRITE_DATA"
  <2>1. ctl' = SendData(b)
    BY <1>2 DEF Controller
  <2>2. CASE ctl.intra = 0
    <3>1. ctl' = Launch(Idled, b)
      BY <2>1, <2>2 DEF SendData
    <3> QED
      BY <1>1, <1>2, <2>2, <3>1 DEF WriteWord
  <2>3. CASE ctl.intra = 1 /\ ctl.left = 1
    <3>1. ctl' = [Deassert(Idled) EXCEPT !.start = FALSE, !.received = TRUE]
      BY <1>1, <2>1, <2>3 DEF SendData
    <3> QED
      BY <1>1, <1>2, <2>3, <3>1 DEF WriteWord
  <2>4. CASE ctl.intra = 1 /\ ctl.left # 1
    <3>1. ctl' = [[Idled EXCEPT !.left = @ - 1, !.intra = 2] EXCEPT !.start = FALSE, !.received = TRUE]
      BY <1>1, <2>1, <2>4 DEF SendData
    <3> QED
      BY <1>1, <1>2, <2>4, <3>1 DEF WriteWord
  <2>5. CASE ctl.intra = 2
    <3>1. ctl' = [Idled EXCEPT !.intra = 0]
      BY <2>1, <2>5 DEF SendData
    <3> QED
      BY <1>1, <1>2, <2>5, <3>1 DEF WriteWord
  <2> QED
    BY <1>1, <1>2, <2>2, <2>3, <2>4, <2>5
<1>3. CASE ctl.state = "READ_DATA"
  <2>1. ctl' = ReadData
    BY <1>3 DEF Controller
  <2>2. CASE ctl.intra = 0
    <3>1. ctl' = [Idled EXCEPT !.start = TRUE, !.intra = 1]
      BY <2>1, <2>2 DEF ReadData
    <3> QED
      BY <1>1, <1>3, <2>2, <3>1 DEF ReadWord
  <2>3. CASE ctl.intra = 1
    <3>1. ctl' = [Idled EXCEPT !.start = FALSE, !.intra = 2]
      BY <1>1, <2>1, <2>3 DEF ReadData
    <3> QED
      BY <1>1, <1>3, <2>3, <3>1 DEF ReadWord
  <2>4. CASE ctl.intra = 2 /\ ctl.left = 1
    <3>1. ctl' = [Deassert(Idled) EXCEPT !.out = eng.in, !.ready = TRUE]
      BY <2>1, <2>4 DEF ReadData
    <3> QED
      BY <1>1, <1>3, <2>4, <3>1 DEF ReadWord
  <2>5. CASE ctl.intra = 2 /\ ctl.left # 1
    <3>1. ctl' = [[Idled EXCEPT !.left = @ - 1, !.intra = 0] EXCEPT !.out = eng.in, !.ready = TRUE]
      BY <2>1, <2>5 DEF ReadData
    <3> QED
      BY <1>1, <1>3, <2>5, <3>1 DEF ReadWord
  <2> QED
    BY <1>1, <1>3, <2>2, <2>3, <2>4, <2>5
<1> QED
  BY <1>2, <1>3

LEMMA ControllerWords ==
  ASSUME CtlInv, CtlStrobes, NEW s \in BOOLEAN, NEW c, NEW a, NEW b, Controller(s, c, a, b)
  PROVE  WordEdge(s, c, a, b)
<1>1. CASE ctl.start /\ ~eng.done
  BY <1>1, HeldWords DEF WordEdge
<1>2. CASE ~ctl.start \/ eng.done
  <2> USE DEF WordEdge, Controller
  <2>1. CASE ctl.state = "STARTUP"
    BY <1>2, <2>1, StartupWords
  <2>2. CASE ctl.state = "IDLE"
    BY <2>2 DEF Accept, IdleWord, Quiet, Idled, CtlInv, CtlType, CtlFields
  <2>3. CASE ctl.state = "ASSERT_CS"
    <3>1. ctl' = AssertCs
      BY <2>3
    <3> QED
      BY <2>3, <3>1 DEF AssertCs, Enter, Serves, Quiet, Idled, CtlInv, CtlType, CtlFields
  <2>4. CASE ctl.state \in {"SEND_COMMAND", "SEND_ADDRESS", "DUMMY_CYCLES"}
    BY <1>2, <2>4, OpeningWords
  <2>5. CASE ctl.state \in {"WRITE_DATA", "READ_DATA"}
    BY <1>2, <2>5, DataWords
  <2>6. CASE ctl.state = "DEASSERT_CS"
    BY <2>6 DEF DeassertCs, Enter, EndWord, Serves, Quiet, Idled, CtlInv, CtlType, CtlFields
  <2> QED
    BY <2>1, <2>2, <2>3, <2>4, <2>5, <2>6 DEF CtlInv, CtlType, CtlStates, Transfers
<1> QED
  BY <1>1, <1>2

\* The address is sent from its high byte down.
LEMMA UnsentBytes ==
  ASSUME NEW a, NEW left \in 1 .. AddrBytes
  PROVE  /\ Unsent(a, AddrBytes) = AddressBytes(a)
         /\ Head(Unsent(a, left)) = AddressBytes(a)[AddrBytes - left + 1]
         /\ left # 1 => Tail(Unsent(a, left)) = Unsent(a, left - 1)
<1> DEFINE S == {AddressBytes(a)[i] : i \in 1 .. 3}
<1>1. AddressBytes(a) \in Seq(S) /\ Len(AddressBytes(a)) = 3
  BY DEF AddressBytes
<1> HIDE DEF S
<1>2. \A n \in 1 .. 3 : /\ Unsent(a, n) \in Seq(S) /\ Len(Unsent(a, n)) = n
                        /\ \A i \in 1 .. n : Unsent(a, n)[i] = AddressBytes(a)[3 - n + i]
  BY <1>1 DEF Unsent, AddrBytes
<1>3. Unsent(a, 3) = AddressBytes(a)
  BY <1>1, <1>2, SeqEqual
<1>4. Head(Unsent(a, left)) = AddressBytes(a)[AddrBytes - left + 1]
  BY <1>2 DEF AddrBytes
<1>5. CASE left # 1
  <2>1. /\ Tail(Unsent(a, left)) \in Seq(S) /\ Len(Tail(Unsent(a, left))) = left - 1
        /\ \A i \in 1 .. left - 1 : Tail(Unsent(a, left))[i] = Unsent(a, left)[i + 1]
    <3>2. Unsent(a, left) \in Seq(S) /\ Len(Unsent(a, left)) = left /\ left # 0
      <4>1. left \in 1 .. 3
        BY DEF AddrBytes
      <4>2. Unsent(a, left) \in Seq(S) /\ Len(Unsent(a, left)) = left
        BY <4>1, <1>2, Zenon
      <4> QED
        BY <4>1, <4>2
    <3>1. Unsent(a, left) # <<>>
      BY <3>2
    <3> QED
      BY <3>1, <3>2, HeadTailProperties
  <2>2. /\ Unsent(a, left - 1) \in Seq(S) /\ Len(Unsent(a, left - 1)) = left - 1
        /\ \A i \in 1 .. left - 1 : Unsent(a, left)[i + 1] = Unsent(a, left - 1)[i]
    BY <1>2, <1>5 DEF AddrBytes
  <2>3. Tail(Unsent(a, left)) = Unsent(a, left - 1)
    BY <2>1, <2>2, SeqEqual
  <2> QED
    BY <1>3, <1>4, <2>3 DEF AddrBytes
<1> QED
  BY <1>3, <1>4, <1>5 DEF AddrBytes

LEMMA CtlWordStep ==
  ASSUME CtlInv, CtlInv', CtlWord, BurstLen \in 1 .. 63, NEW s, NEW c, NEW a, NEW b,
         WordEdge(s, c, a, b)
  PROVE  CtlWord'
<1> USE DEF WordEdge, HeldWord, StartupWord, IdleWord, CommandWord, AddressWord, DummyWord,
            WriteWord, ReadWord, EndWord, Goes, Serves, Quiet
<1>1. CtlStrobes'
  <2> USE DEF CtlWord, CtlStrobes
  <2>1. CASE HeldWord
    BY <2>1
  <2>2. CASE ctl.state \in {"STARTUP", "IDLE", "ASSERT_CS", "DEASSERT_CS"} /\ ~HeldWord
    BY <2>2
  <2>3. CASE ctl.state \in {"SEND_COMMAND", "SEND_ADDRESS", "DUMMY_CYCLES"} /\ ~HeldWord
    BY <2>3
  <2>4. CASE ctl.state = "WRITE_DATA" /\ ~HeldWord
    BY <2>4 DEF CtlInv, CtlData
  <2>5. CASE ctl.state = "READ_DATA" /\ ~HeldWord
    BY <2>5 DEF CtlCount
  <2> QED
    BY <2>1, <2>2, <2>3, <2>4, <2>5 DEF CtlInv, CtlType, CtlStates, Transfers
<1>2. CtlCount'
  <2>1. CASE ctl'.state \in {"DUMMY_CYCLES"}
    BY <2>1 DEF CtlWord, CtlCount, DummyBytes, CtlInv, CtlStart, Waiting, Transfers
  <2>2. CASE ctl'.state \in {"READ_DATA", "WRITE_DATA"}
    <3>1. CASE HeldWord
      BY <2>2, <3>1 DEF CtlWord, CtlCount
    <3>2. CASE ctl.state \in {"DUMMY_CYCLES", "SEND_ADDRESS"} /\ ~HeldWord
      BY <2>2, <3>2 DEF CtlWord, CtlCount
    <3>3. CASE ctl.state \in {"WRITE_DATA"} /\ ~HeldWord
      BY <2>2, <3>3 DEF CtlWord, CtlCount
    <3>4. CASE ctl.state \in {"READ_DATA"} /\ ~HeldWord
      BY <2>2, <3>4 DEF CtlWord, CtlCount
    <3> QED
      BY <2>2, <3>1, <3>2, <3>3, <3>4
  <2> QED
    BY <2>1, <2>2 DEF CtlCount
<1>3. CtlAddress'
  <2>1. CASE ctl'.state # "SEND_ADDRESS"
    BY <2>1 DEF CtlAddress
  <2>2. CASE HeldWord /\ ctl'.state = "SEND_ADDRESS"
    BY <2>2 DEF CtlWord, CtlAddress
  <2>3. CASE ctl.state = "SEND_COMMAND" /\ ctl'.state = "SEND_ADDRESS"
    <3>1. /\ ctl'.intra = 0 /\ ctl'.left = AddrBytes /\ ctl'.sh = AddressBytes(ctl.addr)
          /\ ctl'.addr = ctl.addr
      BY <2>3
    <3>2. Unsent(ctl.addr, AddrBytes) = AddressBytes(ctl.addr)
      BY UnsentBytes DEF AddrBytes
    <3> QED
      BY <3>1, <3>2 DEF CtlAddress
  <2>4. CASE ctl.state = "SEND_ADDRESS" /\ ctl'.state = "SEND_ADDRESS" /\ ~HeldWord
    <3>1. ctl.left \in 1 .. AddrBytes /\ ctl.sh = Unsent(ctl.addr, ctl.left)
      BY <2>4 DEF CtlInv, CtlData, CtlWord, CtlAddress
    <3>2. ctl'.addr = ctl.addr
      BY <2>4
    <3>3. \/ /\ ctl'.intra = 1 /\ ctl'.left = ctl.left /\ ctl'.sh = ctl.sh
             /\ ctl'.byte = Head(ctl.sh)
          \/ /\ ctl.left # 1 /\ ctl'.intra = 0 /\ ctl'.left = ctl.left - 1
             /\ ctl'.sh = Tail(ctl.sh)
      BY <2>4
    <3>4. ctl'.sh = Unsent(ctl'.addr, ctl'.left)
      BY <3>1, <3>2, <3>3, UnsentBytes
    <3>5. ctl'.intra = 1 => ctl'.byte = AddressBytes(ctl'.addr)[AddrBytes - ctl'.left + 1]
      BY <3>1, <3>2, <3>3, UnsentBytes
    <3> QED
      BY <3>4, <3>5 DEF CtlAddress
  <2> QED
    BY <2>1, <2>2, <2>3, <2>4
<1>4. CtlReset'
  BY DEF CtlWord, CtlReset, CtlInv, CtlLines
<1> QED
  BY <1>1, <1>2, <1>3, <1>4 DEF CtlWord

\* What the engine has taken from the bus.
Takes(n) == eng'.in = [eng.in EXCEPT ![n] = Bus]
LEMMA NibbleTaken ==
  ASSUME EngInv, Engine
  PROVE  /\ eng.txfer = "NIB_TXFER" /\ ~ctl.op_en /\ ~eng.sclk =>
              Takes(IF eng.cnt = 0 THEN 2 ELSE 1)
         /\ ~(eng.txfer = "NIB_TXFER" /\ ~ctl.op_en /\ ~eng.sclk) => eng'.in = eng.in
<1> USE DEF Takes, EngInv, EngType, EngFields, Ticked, Toggled, Finished
<1>1. CASE eng.txfer = "IDLE"
  <2>1. eng' = Begin \/ eng' = [Ticked EXCEPT !.sclk = FALSE]
    BY <1>1 DEF Engine
  <2> QED
    BY <1>1, <2>1 DEF Begin
<1>2. CASE eng.txfer = "BIT_TXFER"
  <2>1. eng' = BitTransfer
    BY <1>2 DEF Engine
  <2> QED
    BY <1>2, <2>1 DEF BitTransfer
<1>3. CASE eng.txfer = "NIB_TXFER" /\ ctl.op_en
  <2>1. eng' = Send
    BY <1>3 DEF Engine
  <2> QED
    BY <1>3, <2>1 DEF Send
<1>4. CASE eng.txfer = "NIB_TXFER" /\ ~ctl.op_en
  <2>1. eng' = Receive
    BY <1>4 DEF Engine
  <2>2. CASE eng.sclk
    BY <1>4, <2>1, <2>2 DEF Receive
  <2>3. CASE ~eng.sclk /\ eng.cnt = 0
    <3>1. eng' = [Finished(Toggled) EXCEPT !.in[2] = Bus]
      BY <2>1, <2>3 DEF Receive
    <3> QED
      BY <1>4, <2>3, <3>1
  <2>4. CASE ~eng.sclk /\ eng.cnt # 0
    <3>1. eng' = [Toggled EXCEPT !.cnt = @ - 1, !.in[1] = Bus]
      BY <2>1, <2>4 DEF Receive
    <3> QED
      BY <1>4, <2>4, <3>1
  <2> QED
    BY <2>2, <2>3, <2>4
<1> QED
  BY <1>1, <1>2, <1>3, <1>4

LEMMA TakenPair ==
  ASSUME NEW n, Takes(n), DOMAIN eng.in = 1 .. 2
  PROVE  DOMAIN eng'.in = 1 .. 2
BY DEF Takes

LEMMA EngWordStep ==
  ASSUME CtlInv, CtlInv', EngInv, EngInv', EngWord, Engine, EngineEdge, NEW s, NEW c, NEW a, NEW b,
         WordEdge(s, c, a, b)
  PROVE  EngWord'
<1>1. DOMAIN eng'.in = 1 .. 2
  <2>1. DOMAIN eng.in = 1 .. 2
    BY DEF EngWord
  <2> QED
    BY <2>1, NibbleTaken, TakenPair
<1>2. CASE ~ctl.start \/ eng.done
  <2>1. eng.txfer = "IDLE" /\ (eng.done => eng.start_d)
    BY <1>2 DEF EngInv, EngTurn, EngType
  <2>2. Turns("IDLE", FALSE, eng.cnt, FALSE, eng.so, eng.sh)
    BY <1>2, <2>1 DEF EngineEdge, BeginStep, BitStep, SendStep, ReceiveStep, EngInv, EngTurn
  <2> QED
    BY <1>1, <2>2 DEF EngWord, Turns
<1>3. CASE ctl.start /\ ~eng.done
  <2>1. HeldWord
    BY <1>3 DEF WordEdge, StartupWord, IdleWord, CommandWord, AddressWord, DummyWord, WriteWord,
       ReadWord, EndWord, CtlInv, CtlStart, Waiting, Transfers
  <2>2. /\ ctl'.byte = ctl.byte /\ ctl'.op_en = ctl.op_en /\ ctl'.state = ctl.state
    BY <2>1 DEF HeldWord, Goes
  <2>3. ctl.quad = TRUE <=> ctl.state # "STARTUP"
    BY DEF CtlInv, CtlStart
  <2>4. ctl.op_en \in BOOLEAN /\ (ctl.state = "STARTUP" => ctl.op_en)
    BY <1>3 DEF CtlInv, CtlType, CtlStart, CtlLines, Waiting, Transfers
  <2>5. CASE eng.txfer = "IDLE" /\ Turns("IDLE", FALSE, eng.cnt, FALSE, eng.so, eng.sh)
    BY <1>1, <2>5 DEF EngWord, Turns
  <2>6. CASE BeginStep
    <3>1. /\ eng'.txfer # "IDLE" /\ ~eng'.sclk /\ eng'.sh = ctl.byte /\ eng'.done = FALSE
          /\ eng'.txfer = "NIB_TXFER" /\ ctl.op_en => eng'.so = ctl.byte[1] /\ eng'.cnt = 1
          /\ eng'.txfer = "BIT_TXFER" /\ ctl.op_en => eng'.so = Serial(Bit(ctl.byte, 7)) /\ eng'.cnt = 7
          /\ eng'.txfer = "BIT_TXFER" => ctl.op_en
      BY <2>3, <2>4, <2>6 DEF BeginStep, Turns
    <3> QED
      BY <1>1, <2>2, <3>1 DEF EngWord
  <2>7. CASE BitStep
    <3>1. /\ eng.sh = ctl.byte /\ eng.so = Serial(Bit(ctl.byte, eng.cnt)) /\ ctl.state = "STARTUP"
      BY <2>7 DEF BitStep, EngWord, EngInv, EngTurn
    <3>2. eng'.sh = eng.sh
      BY <2>7 DEF BitStep, Turns
    <3>3. \/ eng'.txfer = "BIT_TXFER" /\ eng'.done = FALSE /\ eng'.so = Serial(Bit(eng.sh, eng'.cnt))
          \/ eng'.txfer = "IDLE" /\ eng'.done /\ eng'.sclk = FALSE
      BY <2>7, <3>1 DEF BitStep, Turns
    <3> QED
      BY <1>1, <2>2, <2>4, <3>1, <3>2, <3>3 DEF EngWord
  <2>8. CASE SendStep
    <3>1. /\ eng.sh = ctl.byte /\ eng.so = ctl.byte[2 - eng.cnt] /\ eng.cnt \in 0 .. 1
      BY <2>8 DEF SendStep, EngWord, EngInv, EngTurn
    <3>2. eng'.sh = eng.sh
      BY <2>8 DEF SendStep, Turns
    <3>3. \/ eng'.txfer = "NIB_TXFER" /\ eng'.done = FALSE /\ eng'.so = eng.sh[2 - eng'.cnt]
          \/ eng'.txfer = "IDLE" /\ eng'.done /\ eng'.sclk = FALSE
      BY <2>8, <3>1 DEF SendStep, Turns
    <3> QED
      BY <1>1, <2>2, <2>8, <3>1, <3>2, <3>3 DEF EngWord, SendStep
  <2>9. CASE ReceiveStep
    <3>1. eng.cnt \in 0 .. 1
      BY <2>9 DEF ReceiveStep, EngInv, EngTurn
    <3>2. \/ eng'.txfer = "NIB_TXFER" /\ eng'.done = FALSE /\ (eng'.sclk => eng'.cnt = 0)
          \/ eng'.txfer = "IDLE" /\ eng'.done /\ eng'.sclk = TRUE
      BY <2>9, <3>1 DEF ReceiveStep, Turns
    <3> QED
      BY <1>1, <2>2, <2>4, <2>9, <3>1, <3>2 DEF EngWord, ReceiveStep
  <2> QED
    BY <2>5, <2>6, <2>7, <2>8, <2>9 DEF EngineEdge
<1> QED
  BY <1>2, <1>3

\* Within a byte sent as nibbles the nibble sampled is the one that is due.
LEMMA NibbleSent ==
  ASSUME EngInv, EngWord, EngineEdge, ctl.start, ~eng.done, ctl.op_en, ctl.quad,
         ctl.state # "STARTUP", SclkRises
  PROVE  eng'.so = ctl.byte[1 + Rises]
<1>1. /\ Rises \in {0, 1} /\ eng'.so = eng.so /\ eng.txfer = "NIB_TXFER" /\ eng.cnt = 1 - Rises
  BY WithinByte
<1>2. eng.so = ctl.byte[2 - eng.cnt] /\ 2 - eng.cnt = 1 + Rises
  BY <1>1 DEF EngWord
<1> QED
  BY <1>1, <1>2

\* Within a byte sent bit by bit the bit sampled is the one that is due.
LEMMA BitSent ==
  ASSUME EngInv, EngWord, EngineEdge, ctl.start, ~eng.done, ctl.op_en, ctl.quad # TRUE,
         ctl.state = "STARTUP"
  PROVE  /\ SclkRises => /\ BitRises \in 0 .. 7 /\ BitRises' = BitRises + 1
                         /\ eng'.so = Serial(Bit(ctl.byte, 7 - BitRises))
         /\ ~SclkRises => BitRises' = BitRises
<1> USE DEF Turns, BitRises, SclkRises
<1>1. CASE eng.txfer = "IDLE" /\ Turns("IDLE", FALSE, eng.cnt, FALSE, eng.so, eng.sh)
  BY <1>1
<1>2. CASE BeginStep
  <2>1. eng'.txfer = "BIT_TXFER" /\ eng'.cnt = 7 /\ eng'.sclk = FALSE /\ eng'.done = FALSE
    BY <1>2 DEF BeginStep
  <2> QED
    BY <1>2, <2>1 DEF BeginStep
<1>3. CASE BitStep
  <2>1. /\ eng.txfer = "BIT_TXFER" /\ eng.cnt \in 0 .. 7
        /\ eng.so = Serial(Bit(ctl.byte, eng.cnt))
    BY <1>3 DEF BitStep, EngInv, EngTurn, EngWord
  <2>2. CASE ~eng.sclk
    <3>1. /\ eng'.txfer = "BIT_TXFER" /\ eng'.sclk /\ eng'.cnt = eng.cnt /\ eng'.done = FALSE
          /\ eng'.so = eng.so
      BY <1>3, <2>2 DEF BitStep
    <3>2. BitRises = 7 - eng.cnt /\ BitRises' = (7 - eng.cnt) + 1
      BY <2>1, <2>2, <3>1
    <3>3. eng.cnt = 7 - BitRises
      BY <2>1, <3>2
    <3> QED
      BY <2>1, <2>2, <3>1, <3>2, <3>3
  <2>3. CASE eng.sclk /\ eng.cnt = 0
    BY <1>3, <2>1, <2>3 DEF BitStep
  <2>4. CASE eng.sclk /\ eng.cnt # 0
    <3>1. eng'.txfer = "BIT_TXFER" /\ ~eng'.sclk /\ eng'.cnt = eng.cnt - 1 /\ ~eng'.done
      BY <1>3, <2>4 DEF BitStep
    <3> QED
      BY <2>1, <2>4, <3>1
  <2> QED
    BY <2>2, <2>3, <2>4
<1>4. ~SendStep /\ ~ReceiveStep
  BY DEF SendStep, ReceiveStep, EngInv, EngTurn
<1> QED
  BY <1>1, <1>2, <1>3, <1>4 DEF EngineEdge

\* Within a byte received each rising edge takes the nibble that is due.
LEMMA WithinRead ==
  ASSUME EngInv, EngWord, Engine, EngineEdge, ctl.start, ~eng.done, ~ctl.op_en, ctl.quad,
         ctl.state # "STARTUP"
  PROVE  /\ SclkRises => /\ NibblesIn \in {0, 1} /\ NibblesIn' = NibblesIn + 1
                         /\ Takes(1 + NibblesIn)
                         /\ eng.txfer = "NIB_TXFER" /\ eng.cnt = 1 - NibblesIn
                         /\ (eng'.done <=> NibblesIn = 1) /\ eng'.sclk
         /\ ~SclkRises => NibblesIn' = NibblesIn /\ eng'.done = FALSE /\ eng'.in = eng.in
         /\ SclkFalls => /\ eng.txfer = "NIB_TXFER" /\ eng.cnt = 0
                         /\ eng'.txfer = "NIB_TXFER" /\ eng'.cnt = 0
         /\ ~SclkRises /\ ~SclkFalls =>
              /\ ~eng.sclk /\ ~eng'.sclk /\ eng.txfer = "IDLE"
              /\ eng'.txfer = "NIB_TXFER" => eng'.cnt = 1
<1> USE DEF Turns, NibblesIn, SclkRises, SclkFalls
<1>0. eng.txfer # "NIB_TXFER" => eng'.in = eng.in
  BY NibbleTaken
<1>1. CASE eng.txfer = "IDLE" /\ Turns("IDLE", FALSE, eng.cnt, FALSE, eng.so, eng.sh)
  BY <1>0, <1>1 DEF EngWord
<1>2. CASE BeginStep
  <2>1. eng'.txfer = "NIB_TXFER" /\ eng'.cnt = 1 /\ eng'.sclk = FALSE /\ eng'.done = FALSE
    BY <1>2 DEF BeginStep
  <2> QED
    BY <1>0, <1>2, <2>1 DEF BeginStep, EngWord
<1>3. CASE ReceiveStep
  <2>1. eng.txfer = "NIB_TXFER" /\ eng.cnt \in 0 .. 1
    BY <1>3 DEF ReceiveStep, EngInv, EngTurn
  <2>2. CASE eng.sclk
    <3>1. eng.cnt = 0 /\ eng'.in = eng.in
      BY <2>1, <2>2, NibbleTaken DEF EngWord
    <3> QED
      BY <1>3, <2>1, <2>2, <3>1 DEF ReceiveStep
  <2>3. CASE ~eng.sclk
    <3>1. Takes(IF eng.cnt = 0 THEN 2 ELSE 1)
      BY <2>1, <2>3, NibbleTaken
    <3>2. CASE eng.cnt = 0
      <4>1. eng'.txfer = "IDLE" /\ eng'.done = TRUE /\ eng'.sclk = TRUE
        BY <1>3, <2>1, <2>3, <3>2 DEF ReceiveStep
      <4>2. NibblesIn = 1 /\ NibblesIn' = 2
        BY <2>1, <3>2, <4>1
      <4>3. Takes(1 + NibblesIn)
        <5>1. 1 + NibblesIn = (IF eng.cnt = 0 THEN 2 ELSE 1)
          BY <3>2, <4>2
        <5> HIDE DEF NibblesIn
        <5> QED
          BY <3>1, <5>1
      <4> HIDE DEF NibblesIn
      <4> QED
        BY <2>1, <2>3, <3>2, <4>1, <4>2, <4>3
    <3>3. CASE eng.cnt # 0
      <4>0. eng.cnt = 1
        BY <2>1, <3>3
      <4>1. /\ eng'.txfer = "NIB_TXFER" /\ eng'.done = FALSE /\ eng'.sclk = TRUE
            /\ eng.cnt = 1 /\ eng'.cnt = 0
        <5>1. Turns("NIB_TXFER", TRUE, eng.cnt - 1, FALSE, eng.so, eng.sh)
          <6> HIDE DEF Turns
          <6> QED
            BY <1>3, <2>3, <3>3 DEF ReceiveStep
        <5>2. eng.cnt - 1 = 0
          BY <4>0
        <5> QED
          BY <4>0, <5>1, <5>2
      <4>2. NibblesIn = 0 /\ NibblesIn' = 1
        BY <2>1, <3>3, <4>1
      <4>3. Takes(1 + NibblesIn)
        <5>1. 1 + NibblesIn = (IF eng.cnt = 0 THEN 2 ELSE 1)
          BY <3>3, <4>2
        <5> HIDE DEF NibblesIn
        <5> QED
          BY <3>1, <5>1
      <4> HIDE DEF NibblesIn
      <4> QED
        BY <2>1, <2>3, <3>3, <4>1, <4>2, <4>3
    <3> QED
      BY <3>2, <3>3
  <2> QED
    BY <2>2, <2>3
<1>4. ~SendStep /\ ~BitStep
  BY DEF SendStep, BitStep, EngInv, EngTurn
<1> QED
  BY <1>1, <1>2, <1>3, <1>4 DEF EngineEdge

\* After a byte sclk comes down, if it is not down already.
LEMMA BetweenWords ==
  ASSUME CtlInv, EngInv, EngWord, EngineEdge, Engine, ~ctl.start \/ eng.done
  PROVE  /\ ~SclkRises /\ (SclkFalls <=> eng.done /\ ~ctl.op_en)
         /\ eng'.txfer = "IDLE" /\ eng'.done = FALSE /\ eng'.in = eng.in /\ eng'.sclk = FALSE
         /\ Rises' = 0 /\ NibblesIn' = 0 /\ BitRises' = 0
<1>1. eng.txfer = "IDLE" /\ (eng.done => eng.start_d)
  BY DEF EngInv, EngTurn, EngType
<1>2. Turns("IDLE", FALSE, eng.cnt, FALSE, eng.so, eng.sh)
  BY <1>1 DEF EngineEdge, BeginStep, BitStep, SendStep, ReceiveStep, EngInv, EngTurn
<1>3. eng.sclk <=> eng.done /\ ~ctl.op_en
  BY <1>1 DEF EngWord
<1>4. eng'.in = eng.in
  BY <1>1, NibbleTaken
<1> QED
  BY <1>2, <1>3, <1>4 DEF Turns, Rises, NibblesIn, BitRises, SclkRises, SclkFalls

-----------------------------------------------------------------------------
(* Addresses.                                                                *)

LEMMA Quotient ==
  ASSUME NEW w \in Nat \ {0}, NEW q \in Int, NEW m \in 0 .. w - 1
  PROVE  (w * q + m) \div w = q /\ (w * q + m) % w = m
OBVIOUS

LEMMA Division ==
  ASSUME NEW w \in Nat \ {0}, NEW x \in Nat
  PROVE  /\ x \div w \in Nat /\ x % w \in 0 .. w - 1
         /\ x = w * (x \div w) + (x % w)
OBVIOUS

LEMMA Successor ==
  ASSUME NEW w \in Nat \ {0}, NEW x \in Nat
  PROVE  (x + 1) % w = ((x % w) + 1) % w
<1> DEFINE q == x \div w
<1> DEFINE m == x % w
<1>1. q \in Nat /\ m \in 0 .. w - 1 /\ x = w * q + m
  BY Division
<1> HIDE DEF q, m
<1>2. CASE m + 1 < w
  <2>1. x + 1 = w * q + (m + 1) /\ m + 1 \in 0 .. w - 1
    BY <1>1, <1>2
  <2>2. (x + 1) % w = m + 1
    BY <1>1, <2>1, Quotient
  <2>3. m + 1 = w * 0 + (m + 1)
    BY <1>1
  <2>4. (m + 1) % w = m + 1
    BY <2>1, <2>3, Quotient
  <2> QED
    BY <2>2, <2>4 DEF m
<1>3. CASE m + 1 = w
  <2>1. x + 1 = w * (q + 1) + 0 /\ m + 1 = w * 1 + 0 /\ 0 \in 0 .. w - 1
    BY <1>1, <1>3
  <2>2. (x + 1) % w = 0
    BY <1>1, <2>1, Quotient
  <2>3. (m + 1) % w = 0
    BY <1>1, <2>1, Quotient
  <2> QED
    BY <2>2, <2>3 DEF m
<1> QED
  BY <1>1, <1>2, <1>3

\* A burst starts at its address, and the chip's own step is the burst's.
LEMMA PlaceFirst == ASSUME NEW a \in 0 .. MemSize - 1 PROVE Place(a, 1) = a
<1>1. a + 1 - 1 = a /\ WrapLen \in Nat \ {0} /\ a \in Nat
  BY SizeAssumption
<1>2. a = WrapLen * (a \div WrapLen) + (a % WrapLen) /\ a \div WrapLen \in Nat
  BY <1>1, Division
<1> QED
  BY <1>1, <1>2 DEF Place

LEMMA PlaceSplit ==
  ASSUME NEW a \in 0 .. MemSize - 1, NEW k \in Nat \ {0}
  PROVE  \E q \in Nat, m \in 0 .. WrapLen - 1 :
           /\ q = a \div WrapLen /\ m = (a + k - 1) % WrapLen
           /\ Place(a, k) = WrapLen * q + m
<1> DEFINE q == a \div WrapLen
<1> DEFINE m == (a + k - 1) % WrapLen
<1>1. WrapLen \in Nat \ {0} /\ a \in Nat /\ a + k - 1 \in Nat
  BY SizeAssumption
<1>2. q \in Nat /\ m \in 0 .. WrapLen - 1
  BY <1>1, Division
<1>3. Place(a, k) = q * WrapLen + m
  BY DEF Place
<1> HIDE DEF q, m
<1>4. q * WrapLen = WrapLen * q
  BY <1>1, <1>2
<1> QED
  BY <1>2, <1>3, <1>4 DEF q, m

LEMMA PlaceNext ==
  ASSUME NEW a \in 0 .. MemSize - 1, NEW k \in Nat \ {0}
  PROVE  NextAddr(Place(a, k)) = Place(a, k + 1)
<1> DEFINE x == a + k - 1
<1>0. WrapLen \in Nat \ {0} /\ x \in Nat /\ a + (k + 1) - 1 = x + 1 /\ k + 1 \in Nat \ {0}
  BY SizeAssumption
<1> HIDE DEF x
<1>1. PICK q \in Nat, m \in 0 .. WrapLen - 1 :
        q = a \div WrapLen /\ m = x % WrapLen /\ Place(a, k) = WrapLen * q + m
  BY PlaceSplit DEF x
<1>2. Place(a, k) \div WrapLen = q /\ Place(a, k) % WrapLen = m /\ Place(a, k) \in Nat
  <2>1. WrapLen * q \in Nat
    BY <1>0
  <2>2. Place(a, k) \in Nat
    BY <1>0, <1>1, <2>1
  <2>3. Place(a, k) \div WrapLen = q /\ Place(a, k) % WrapLen = m
    <3>1. (WrapLen * q + m) \div WrapLen = q /\ (WrapLen * q + m) % WrapLen = m
      BY <1>0, Quotient
    <3> QED
      BY <1>1, <3>1
  <2> QED
    BY <2>2, <2>3
<1>3. (Place(a, k) + 1) % WrapLen = (m + 1) % WrapLen
  BY <1>0, <1>2, Successor
<1>4. (x + 1) % WrapLen = (m + 1) % WrapLen
  BY <1>0, <1>1, Successor
<1>5. Place(a, k + 1) = q * WrapLen + ((x + 1) % WrapLen)
  BY <1>0, <1>1 DEF Place
<1>6. NextAddr(Place(a, k)) = q * WrapLen + ((Place(a, k) + 1) % WrapLen)
  BY <1>2 DEF NextAddr
<1> QED
  BY <1>3, <1>4, <1>5, <1>6

LEMMA PlaceRange ==
  ASSUME NEW a \in 0 .. MemSize - 1, NEW k \in Nat \ {0}
  PROVE  Place(a, k) \in 0 .. MemSize - 1
<1>1. /\ WrapLen \in Nat \ {0} /\ MemSize \in Nat \ {0} /\ MemSize % WrapLen = 0 /\ a \in Nat
      /\ a < MemSize
  BY SizeAssumption
<1>2. PICK q \in Nat, m \in 0 .. WrapLen - 1 :
        q = a \div WrapLen /\ Place(a, k) = WrapLen * q + m
  BY PlaceSplit
<1>3. PICK t \in Nat : MemSize = WrapLen * t
  <2>1. MemSize = WrapLen * (MemSize \div WrapLen) + 0 /\ MemSize \div WrapLen \in Nat
    BY <1>1, Division
  <2> QED
    BY <1>1, <2>1
<1>4. WrapLen * q <= a
  BY <1>1, <1>2, Division
<1>5. q < t
  <2> SUFFICES ASSUME t <= q PROVE FALSE
    BY <1>2, <1>3
  <2>1. WrapLen * t <= WrapLen * q
    BY <1>1, <1>2, <1>3
  <2> QED
    BY <1>1, <1>2, <1>3, <1>4, <2>1
<1>6. WrapLen * (q + 1) <= WrapLen * t /\ WrapLen * (q + 1) = WrapLen * q + WrapLen
  BY <1>1, <1>2, <1>3, <1>5
<1> QED
  BY <1>1, <1>2, <1>3, <1>6

\* A burst is no longer than the wrap boundary: its places are distinct.
LEMMA PlacesDiffer ==
  ASSUME NEW a \in 0 .. MemSize - 1, NEW i \in 1 .. BurstLen, NEW j \in 1 .. BurstLen, i # j
  PROVE  Place(a, i) # Place(a, j)
<1>0. WrapLen \in Nat \ {0} /\ BurstLen \in Nat /\ BurstLen <= WrapLen
  BY SizeAssumption
<1>1. ASSUME NEW u \in 1 .. BurstLen, NEW v \in 1 .. BurstLen, u < v, Place(a, u) = Place(a, v)
      PROVE  FALSE
  <2> DEFINE x == a + u - 1
  <2> DEFINE y == a + v - 1
  <2>1. x \in Nat /\ y \in Nat /\ x < y /\ y - x < WrapLen
    BY <1>0, <1>1
  <2>a. u \in Nat \ {0} /\ v \in Nat \ {0}
    BY <1>0
  <2>2. PICK q \in Nat, m \in 0 .. WrapLen - 1 :
          q = a \div WrapLen /\ m = x % WrapLen /\ Place(a, u) = WrapLen * q + m
    BY <2>a, PlaceSplit
  <2>3. PICK p \in Nat, n \in 0 .. WrapLen - 1 :
          p = a \div WrapLen /\ n = y % WrapLen /\ Place(a, v) = WrapLen * p + n
    BY <2>a, PlaceSplit
  <2> HIDE DEF x, y
  <2>4. m = n
    <3>1. q = p
      BY <2>2, <2>3
    <3>2. WrapLen * q + m = WrapLen * q + n
      BY <1>1, <2>2, <2>3, <3>1
    <3>3. WrapLen * q \in Int
      BY <1>0
    <3> QED
      BY <3>2, <3>3
  <2>5. /\ x = WrapLen * (x \div WrapLen) + m /\ x \div WrapLen \in Nat
        /\ y = WrapLen * (y \div WrapLen) + m /\ y \div WrapLen \in Nat
    BY <1>0, <2>1, <2>2, <2>3, <2>4, Division
  <2> DEFINE d == (y \div WrapLen) - (x \div WrapLen)
  <2>6. d \in Int /\ y - x = WrapLen * d
    BY <1>0, <2>1, <2>2, <2>5
  <2> HIDE DEF d
  <2>7. d >= 1
    BY <1>0, <2>1, <2>6
  <2>8. WrapLen * d >= WrapLen
    BY <1>0, <2>6, <2>7
  <2> QED
    BY <1>0, <2>1, <2>6, <2>8
<1> QED
  BY <1>0, <1>1

\* The chip puts the six nibbles together to the address that was sent.
LEMMA AddressDecoded ==
  ASSUME NEW a \in 0 .. MemSize - 1
  PROVE  AddrOf([j \in 1 .. 6 |-> AddressNibble(a, j)]) = a
<1>0. MemSize \in Nat \ {0} /\ MemSize <= 16777216
  BY SizeAssumption, SMT
<1>1. a \in Nat /\ a < 16777216 /\ a < MemSize
  BY <1>0, SMT
<1>2. /\ AddressNibble(a, 1) = (a \div 1048576) % 16 /\ AddressNibble(a, 2) = (a \div 65536) % 16
      /\ AddressNibble(a, 3) = (a \div 4096) % 16 /\ AddressNibble(a, 4) = (a \div 256) % 16
      /\ AddressNibble(a, 5) = (a \div 16) % 16 /\ AddressNibble(a, 6) = a % 16
  BY SMT DEF AddressNibble, AddressBytes
<1>3. 1048576 * ((a \div 1048576) % 16) + 65536 * ((a \div 65536) % 16)
        + 4096 * ((a \div 4096) % 16) + 256 * ((a \div 256) % 16)
        + 16 * ((a \div 16) % 16) + (a % 16) = a
  <2>1. /\ a = 16 * (a \div 16) + (a % 16)
        /\ a \div 16 = 16 * (a \div 256) + ((a \div 16) % 16)
        /\ a \div 256 = 16 * (a \div 4096) + ((a \div 256) % 16)
    BY <1>1, SMT
  <2>2. /\ a \div 4096 = 16 * (a \div 65536) + ((a \div 4096) % 16)
        /\ a \div 65536 = 16 * (a \div 1048576) + ((a \div 65536) % 16)
    BY <1>1, SMT
  <2>3. a \div 1048576 = (a \div 1048576) % 16
    BY <1>1, SMT
  <2>4. /\ a \div 16 \in Int /\ a \div 256 \in Int /\ a \div 4096 \in Int
        /\ a \div 65536 \in Int /\ a \div 1048576 \in Int
        /\ (a \div 1048576) % 16 \in Int /\ (a \div 65536) % 16 \in Int
        /\ (a \div 4096) % 16 \in Int /\ (a \div 256) % 16 \in Int
        /\ (a \div 16) % 16 \in Int /\ a % 16 \in Int
    BY <1>1, SMT
  <2> QED
    BY <1>1, <2>1, <2>2, <2>3, <2>4, SMT
<1>4. a % MemSize = a
  <2>1. a = MemSize * 0 + a
    BY <1>0, <1>1
  <2> QED
    BY <1>0, <2>1, Quotient
<1> QED
  BY <1>2, <1>3, <1>4, SMT DEF AddrOf

-----------------------------------------------------------------------------
(* What an edge leaves in the chip, with the values.                         *)

Chip(state, shift, addr, clks, half) ==
  /\ dev'.state = state /\ dev'.shift = shift /\ dev'.addr = addr /\ dev'.clks = clks
  /\ dev'.half = half
Keeps == dev'.qpi = dev.qpi /\ dev'.mem = dev.mem
Same ==
  /\ Chip(dev.state, dev.shift, dev.addr, dev.clks, dev.half) /\ Keeps
  /\ dev'.drive = dev.drive /\ dev'.hi = dev.hi

LEMMA ChipStill ==
  ASSUME DevType, Device, ~CsFalls, ~CsRises, ~SclkRises, ~SclkFalls \/ dev.state # "READ"
  PROVE  Same
<1>1. dev' = [dev EXCEPT !.age = Older(@)]
  <2>1. Drive = dev \/ ~SclkFalls
    BY DEF Drive
  <2> QED
    BY <2>1 DEF Device
<1> QED
  BY <1>1 DEF Same, Chip, Keeps, DevType, DevFields

LEMMA ChipUnselected ==
  ASSUME DevType, Device, ctl.cs, ~CsFalls
  PROVE  Same
<1>1. dev' = [dev EXCEPT !.age = Older(@)]
  BY DEF Device, CsRises
<1> QED
  BY <1>1 DEF Same, Chip, Keeps, DevType, DevFields

LEMMA ChipSelects ==
  ASSUME DevType, Device, CsFalls
  PROVE  dev'.state = "CMD" /\ dev'.shift = <<>> /\ dev'.clks = 0 /\ Keeps
<1>1. dev' = [dev EXCEPT !.state = "CMD", !.shift = <<>>, !.clks = 0, !.age = 0]
  BY DEF Device
<1> QED
  BY <1>1 DEF Keeps, DevType, DevFields

LEMMA ChipLeaves ==
  ASSUME DevType, Device, CsRises
  PROVE  Keeps
<1>1. dev' = [dev EXCEPT !.state = "IDLE", !.drive = Z, !.age = 0]
  BY DEF Device, CsRises, CsFalls
<1> QED
  BY <1>1 DEF Keeps, DevType, DevFields

\* What the chip does on a rising edge of sclk.
Sampled(sio) == dev' = [Sample(sio) EXCEPT !.age = Older(@)]
LEMMA ChipSamples ==
  ASSUME Device, ~CsFalls, ~CsRises, ~ctl.cs, SclkRises
  PROVE  Sampled(IF ctl'.op_en THEN eng'.so ELSE dev.drive)
BY DEF Device, Sampled

LEMMA SampledStep ==
  ASSUME DevType, NEW sio, Sampled(sio)
  PROVE  SampleStep(sio)
BY SampleMoves DEF Sampled

LEMMA SampledCommand ==
  ASSUME DevType, NEW sio, Sampled(sio), dev.state = "CMD"
  PROVE  /\ Len(Bits(sio)) # (IF dev.qpi THEN 2 ELSE 8) =>
              Chip("CMD", Bits(sio), dev.addr, dev.clks, dev.half) /\ Keeps
         /\ Len(Bits(sio)) = (IF dev.qpi THEN 2 ELSE 8) =>
              LET cmd == CmdOf(Bits(sio)) IN
              /\ dev'.shift = <<>> /\ dev'.clks = 0 /\ dev'.mem = dev.mem
              /\ dev'.state = (IF cmd \in {ReadQuad, WriteQuad} /\ dev.qpi THEN "ADDR" ELSE "DONE")
              /\ cmd = EnterQpi => dev'.qpi = TRUE
              /\ cmd # EnterQpi /\ (cmd # Reset \/ dev.qpi = FALSE) => dev'.qpi = dev.qpi
<1> USE DEF DevType, DevFields, Chip, Keeps
<1>1. CASE Len(Bits(sio)) # (IF dev.qpi THEN 2 ELSE 8)
  <2>1. Sample(sio) = [dev EXCEPT !.shift = Bits(sio)]
    BY <1>1 DEF Sample, Bits
  <2>2. dev' = [[dev EXCEPT !.shift = Bits(sio)] EXCEPT !.age = Older(@)]
    BY <2>1 DEF Sampled
  <2> QED
    BY <1>1, <2>2
<1>2. CASE Len(Bits(sio)) = (IF dev.qpi THEN 2 ELSE 8)
  <2> DEFINE cmd == CmdOf(Bits(sio))
  <2>1. Sample(sio) = Decoded(cmd)
    BY <1>2 DEF Sample, Bits
  <2> HIDE DEF cmd
  <2>2. dev' = [Decoded(cmd) EXCEPT !.age = Older(@)]
    BY <2>1 DEF Sampled
  <2>3. /\ dev'.shift = <<>> /\ dev'.clks = 0 /\ dev'.mem = dev.mem
        /\ dev'.state = (IF cmd \in {ReadQuad, WriteQuad} /\ dev.qpi THEN "ADDR" ELSE "DONE")
        /\ dev'.qpi = (IF cmd = EnterQpi THEN TRUE
                       ELSE IF cmd = Reset /\ dev.rst_en THEN FALSE ELSE dev.qpi)
    BY <2>2 DEF Decoded
  <2> QED
    BY <1>2, <2>3 DEF cmd
<1> QED
  BY <1>1, <1>2

LEMMA SampledAddress ==
  ASSUME DevType, NEW sio, Sampled(sio), dev.state = "ADDR"
  PROVE  /\ Len(Bits(sio)) # 2 * AddrBytes =>
              Chip("ADDR", Bits(sio), dev.addr, dev.clks, dev.half) /\ Keeps
         /\ Len(Bits(sio)) = 2 * AddrBytes =>
              /\ Chip(IF dev.write THEN "WRITE" ELSE "DUMMY", <<>>, AddrOf(Bits(sio)), dev.clks,
                      FALSE)
              /\ Keeps
<1> USE DEF DevType, DevFields, Chip, Keeps
<1>1. CASE Len(Bits(sio)) # 2 * AddrBytes
  <2>1. Sample(sio) = [dev EXCEPT !.shift = Bits(sio)]
    BY <1>1 DEF Sample, Bits
  <2>2. dev' = [[dev EXCEPT !.shift = Bits(sio)] EXCEPT !.age = Older(@)]
    BY <2>1 DEF Sampled
  <2> QED
    BY <1>1, <2>2
<1>2. CASE Len(Bits(sio)) = 2 * AddrBytes
  <2>1. Sample(sio) = [dev EXCEPT !.addr = AddrOf(Bits(sio)), !.shift = <<>>, !.half = FALSE,
                                  !.state = IF dev.write THEN "WRITE" ELSE "DUMMY"]
    BY <1>2 DEF Sample, Bits
  <2>2. dev' = [[dev EXCEPT !.addr = AddrOf(Bits(sio)), !.shift = <<>>, !.half = FALSE,
                            !.state = IF dev.write THEN "WRITE" ELSE "DUMMY"] EXCEPT !.age = Older(@)]
    BY <2>1 DEF Sampled
  <2> QED
    BY <1>2, <2>2
<1> QED
  BY <1>1, <1>2

LEMMA SampledDummy ==
  ASSUME DevType, NEW sio, Sampled(sio), dev.state = "DUMMY"
  PROVE  /\ dev.clks + 1 = 6 => Chip("READ", dev.shift, dev.addr, 6, FALSE)
         /\ dev.clks + 1 # 6 => Chip("DUMMY", dev.shift, dev.addr, dev.clks + 1, dev.half)
         /\ Keeps
<1> USE DEF DevType, DevFields, Chip, Keeps
<1>1. CASE dev.clks + 1 = 6
  <2>1. dev' = [[dev EXCEPT !.clks = 6, !.state = "READ", !.half = FALSE] EXCEPT !.age = Older(@)]
    BY <1>1 DEF Sampled, Sample
  <2> QED
    BY <1>1, <2>1
<1>2. CASE dev.clks + 1 # 6
  <2>1. dev' = [[dev EXCEPT !.clks = @ + 1] EXCEPT !.age = Older(@)]
    BY <1>2 DEF Sampled, Sample
  <2> QED
    BY <1>2, <2>1
<1> QED
  BY <1>1, <1>2

LEMMA SampledWrite ==
  ASSUME DevType, NEW sio, Sampled(sio), dev.state = "WRITE"
  PROVE  /\ dev'.state = "WRITE" /\ dev'.qpi = dev.qpi
         /\ dev.half =>
              /\ dev'.mem = [dev.mem EXCEPT ![dev.addr] = <<dev.hi, sio>>]
              /\ dev'.half = FALSE /\ dev'.addr = NextAddr(dev.addr)
         /\ ~dev.half =>
              dev'.mem = dev.mem /\ dev'.hi = sio /\ dev'.half = TRUE /\ dev'.addr = dev.addr
<1> USE DEF DevType, DevFields
<1>1. CASE dev.half
  <2>1. dev' = [[dev EXCEPT !.mem[dev.addr] = <<dev.hi, sio>>, !.half = FALSE,
                            !.addr = NextAddr(@)] EXCEPT !.age = Older(@)]
    BY <1>1 DEF Sampled, Sample
  <2> QED
    BY <1>1, <2>1
<1>2. CASE ~dev.half
  <2>1. dev' = [[dev EXCEPT !.hi = sio, !.half = TRUE] EXCEPT !.age = Older(@)]
    BY <1>2 DEF Sampled, Sample
  <2> QED
    BY <1>2, <2>1
<1> QED
  BY <1>1, <1>2

LEMMA SampledElse ==
  ASSUME DevType, NEW sio, Sampled(sio), dev.state \notin {"CMD", "ADDR", "DUMMY", "WRITE"}
  PROVE  Same
<1>1. dev' = [dev EXCEPT !.age = Older(@)]
  BY DEF Sampled, Sample
<1> QED
  BY <1>1 DEF Same, Chip, Keeps, DevType, DevFields

\* On a falling edge a chip that reads shows the next nibble.
LEMMA ChipShows ==
  ASSUME DevType, Device, ~CsFalls, ~CsRises, ~ctl.cs, SclkFalls, dev.state = "READ"
  PROVE  /\ dev'.state = "READ" /\ Keeps
         /\ dev.half => /\ dev'.drive = dev.mem[dev.addr][2] /\ dev'.half = FALSE
                        /\ dev'.addr = NextAddr(dev.addr)
         /\ ~dev.half => /\ dev'.drive = dev.mem[dev.addr][1] /\ dev'.half = TRUE
                         /\ dev'.addr = dev.addr
<1> USE DEF DevType, DevFields, Keeps
<1>0. dev' = [Drive EXCEPT !.age = Older(@)]
  BY DEF Device, SclkRises, SclkFalls
<1>1. CASE dev.half
  <2>1. dev' = [[dev EXCEPT !.drive = dev.mem[dev.addr][2], !.half = FALSE, !.addr = NextAddr(@)]
                EXCEPT !.age = Older(@)]
    BY <1>0, <1>1 DEF Drive
  <2> QED
    BY <1>1, <2>1
<1>2. CASE ~dev.half
  <2>1. dev' = [[dev EXCEPT !.drive = dev.mem[dev.addr][1], !.half = TRUE] EXCEPT !.age = Older(@)]
    BY <1>0, <1>2 DEF Drive
  <2> QED
    BY <1>2, <2>1
<1> QED
  BY <1>1, <1>2

-----------------------------------------------------------------------------
(* One clock edge with everything that is known about it.                    *)

Clock ==
  /\ BInv /\ BInv' /\ WordInv /\ CtlWord' /\ EngWord'
  /\ Edge /\ WordEdge(call.start, call.cmd, call.addr, InByte)
  /\ Engine /\ EngineEdge /\ Device /\ Caller

LEMMA WordHeld ==
  ASSUME CtlInv, ctl.start, ~eng.done, NEW s, NEW c, NEW a, NEW b, WordEdge(s, c, a, b)
  PROVE  HeldWord
BY DEF WordEdge, StartupWord, IdleWord, CommandWord, AddressWord, DummyWord, WriteWord,
   ReadWord, EndWord, CtlInv, CtlStart, Waiting, Transfers

\* While a burst runs the caller keeps its request and counts what is handed over.
Served ==
  /\ call'.busy = call.busy /\ call'.start = FALSE /\ call'.cmd = call.cmd
  /\ call'.addr = call.addr /\ call'.data = call.data /\ call'.before = call.before
  /\ call'.sent = (IF ctl.received THEN call.sent + 1 ELSE call.sent)
  /\ call'.got = (IF ctl.ready THEN Append(call.got, ctl.out) ELSE call.got)
LEMMA CallerServed ==
  ASSUME CallInv, Caller, call.busy, ~Ended
  PROVE  Served
<1>1. call' = [call EXCEPT !.start = FALSE,
                             !.sent = IF ctl.received THEN @ + 1 ELSE @,
                             !.got = IF ctl.ready THEN Append(@, ctl.out) ELSE @]
  BY DEF Caller
<1> QED
  BY <1>1 DEF Served, CallInv, CallFields

\* The chip's lines between two states that hold it selected.
LEMMA StaysSelected ==
  ASSUME CtlInv, Edge, CtlInv', ctl.state \in Transfers
  PROVE  ~ctl.cs /\ ~CsFalls /\ ~CsRises
<1>1. ~ctl.cs
  BY DEF CtlInv, CtlLines
<1>2. CASE ctl'.state \in Transfers
  BY <1>1, <1>2 DEF CsFalls, CsRises, CtlInv, CtlLines
<1>3. CASE ctl'.state \notin Transfers
  <2>1. WriteStep \/ ReadStep
    BY <1>3 DEF Edge, CommandStep, AddressStep, DummyStep, Held, Selected, Becomes, Transfers
  <2> QED
    BY <1>1, <1>3, <2>1 DEF WriteStep, ReadStep, Held, Selected, Becomes, CsFalls, CsRises,
       Transfers
<1> QED
  BY <1>1, <1>2, <1>3

\* Eight bits of a start-up command make its two nibbles.
LEMMA CommandDecoded ==
  ASSUME NEW i \in 0 .. LastInit, dev.qpi = FALSE
  PROVE  CmdOf([j \in 1 .. 8 |-> Bit(InitCmd(i), 8 - j)]) = InitCmd(i)
<1> DEFINE b == [j \in 1 .. 8 |-> Bit(InitCmd(i), 8 - j)]
<1>1. /\ b[1] = Bit(InitCmd(i), 7) /\ b[2] = Bit(InitCmd(i), 6) /\ b[3] = Bit(InitCmd(i), 5)
      /\ b[4] = Bit(InitCmd(i), 4) /\ b[5] = Bit(InitCmd(i), 3) /\ b[6] = Bit(InitCmd(i), 2)
      /\ b[7] = Bit(InitCmd(i), 1) /\ b[8] = Bit(InitCmd(i), 0)
  OBVIOUS
<1> HIDE DEF b
<1>2. CmdOf(b) = <<8 * b[1] + 4 * b[2] + 2 * b[3] + b[4], 8 * b[5] + 4 * b[6] + 2 * b[7] + b[8]>>
  BY DEF CmdOf
<1>3. /\ \A n : /\ Bit(n, 7) = (n[1] \div 8) % 2 /\ Bit(n, 6) = (n[1] \div 4) % 2
                /\ Bit(n, 5) = (n[1] \div 2) % 2 /\ Bit(n, 4) = (n[1] \div 1) % 2
      /\ \A n : /\ Bit(n, 3) = (n[2] \div 8) % 2 /\ Bit(n, 2) = (n[2] \div 4) % 2
                /\ Bit(n, 1) = (n[2] \div 2) % 2 /\ Bit(n, 0) = (n[2] \div 1) % 2
  BY DEF Bit
<1>4. CASE InitCmd(i) = <<6, 6>>
  <2>1. InitCmd(i)[1] = 6 /\ InitCmd(i)[2] = 6
    BY <1>4
  <2>2. b[1] = 0 /\ b[2] = 1 /\ b[3] = 1 /\ b[4] = 0
    BY <1>1, <1>3, <2>1
  <2>3. b[5] = 0 /\ b[6] = 1 /\ b[7] = 1 /\ b[8] = 0
    BY <1>1, <1>3, <2>1
  <2> QED
    BY <1>2, <1>4, <2>2, <2>3 DEF b
<1>5. CASE InitCmd(i) = <<9, 9>>
  <2>1. InitCmd(i)[1] = 9 /\ InitCmd(i)[2] = 9
    BY <1>5
  <2>2. b[1] = 1 /\ b[2] = 0 /\ b[3] = 0 /\ b[4] = 1
    BY <1>1, <1>3, <2>1
  <2>3. b[5] = 1 /\ b[6] = 0 /\ b[7] = 0 /\ b[8] = 1
    BY <1>1, <1>3, <2>1
  <2> QED
    BY <1>2, <1>5, <2>2, <2>3 DEF b
<1>6. CASE InitCmd(i) = <<3, 5>>
  <2>1. InitCmd(i)[1] = 3 /\ InitCmd(i)[2] = 5
    BY <1>6
  <2>2. b[1] = 0 /\ b[2] = 0 /\ b[3] = 1 /\ b[4] = 1
    BY <1>1, <1>3, <2>1
  <2>3. b[5] = 0 /\ b[6] = 1 /\ b[7] = 0 /\ b[8] = 1
    BY <1>1, <1>3, <2>1
  <2> QED
    BY <1>2, <1>6, <2>2, <2>3 DEF b
<1>7. InitCmd(i) \in {<<6, 6>>, <<9, 9>>, <<3, 5>>}
  BY DEF InitCmd, LastInit, ResetEnable, Reset, EnterQpi
<1> QED
  BY <1>4, <1>5, <1>6, <1>7 DEF b


LEMMA Extended ==
  ASSUME NEW n \in Nat, NEW f
  PROVE  /\ Append([j \in 1 .. n |-> f[j]], f[n + 1]) = [j \in 1 .. n + 1 |-> f[j]]
         /\ Len([j \in 1 .. n + 1 |-> f[j]]) = n + 1
<1> DEFINE S == {f[j] : j \in 1 .. n + 1}
<1> DEFINE s == [j \in 1 .. n |-> f[j]]
<1> DEFINE t == [j \in 1 .. n + 1 |-> f[j]]
<1>1. s \in Seq(S) /\ Len(s) = n /\ \A j \in 1 .. n : s[j] = f[j]
  <2>1. s \in [1 .. n -> S]
    OBVIOUS
  <2> QED
    BY <2>1, LenProperties, IsASeq
<1>2. t \in Seq(S) /\ Len(t) = n + 1 /\ \A j \in 1 .. n + 1 : t[j] = f[j]
  <2>1. t \in [1 .. n + 1 -> S] /\ n + 1 \in Nat
    OBVIOUS
  <2> QED
    BY <2>1, LenProperties, IsASeq
<1>3. f[n + 1] \in S
  OBVIOUS
<1> HIDE DEF S, s, t
<1>4. /\ Append(s, f[n + 1]) \in Seq(S) /\ Len(Append(s, f[n + 1])) = n + 1
      /\ \A j \in 1 .. n : Append(s, f[n + 1])[j] = s[j]
      /\ Append(s, f[n + 1])[n + 1] = f[n + 1]
  BY <1>1, <1>3, AppendProperties
<1>5. \A j \in 1 .. n + 1 : Append(s, f[n + 1])[j] = t[j]
  BY <1>1, <1>2, <1>4
<1>6. Append(s, f[n + 1]) = t
  BY <1>2, <1>4, <1>5, SeqEqual
<1> QED
  BY <1>2, <1>6 DEF s, t

LEMMA BitsExtended ==
  ASSUME NEW byte, NEW n \in Nat
  PROVE  /\ Append([j \in 1 .. n |-> Bit(byte, 8 - j)], Bit(byte, 7 - n))
              = [j \in 1 .. n + 1 |-> Bit(byte, 8 - j)]
         /\ Len([j \in 1 .. n + 1 |-> Bit(byte, 8 - j)]) = n + 1
<1> DEFINE f == [j \in Nat |-> Bit(byte, 8 - j)]
<1>1. /\ [j \in 1 .. n |-> f[j]] = [j \in 1 .. n |-> Bit(byte, 8 - j)]
      /\ [j \in 1 .. n + 1 |-> f[j]] = [j \in 1 .. n + 1 |-> Bit(byte, 8 - j)]
  OBVIOUS
<1>2. f[n + 1] = Bit(byte, 7 - n)
  <2>1. 8 - (n + 1) = 7 - n /\ n + 1 \in Nat
    OBVIOUS
  <2>2. f[n + 1] = Bit(byte, 8 - (n + 1))
    BY <2>1
  <2> QED
    BY <2>1, <2>2
<1> HIDE DEF f
<1> QED
  BY <1>1, <1>2, Extended

\* One bit of a start-up command.
LEMMA ResetSampled ==
  ASSUME CtlInv, CtlReset, DevType, InReset, ctl.state = "STARTUP", ctl.intra = 3,
         BitRises \in 0 .. 7, BitRises' = BitRises + 1, ctl'.byte = ctl.byte, ctl'.init = ctl.init,
         NEW sio, sio = Serial(Bit(ctl.byte, 7 - BitRises)), Sampled(sio)
  PROVE  InReset'
<1>1. ctl.init \in 0 .. LastInit /\ ctl.byte = InitCmd(ctl.init) /\ ctl.byte \in Byte
  BY DEF CtlInv, CtlData, CtlReset
<1>2. Bit(ctl.byte, 7 - BitRises) \in {0, 1} /\ sio % 2 = Bit(ctl.byte, 7 - BitRises)
  <2>1. Bit(ctl.byte, 7 - BitRises) \in {0, 1}
    BY <1>1, BitRange
  <2> QED
    BY <2>1 DEF Serial
<1>3. /\ dev.state = "CMD" /\ dev.qpi = FALSE
      /\ dev.shift = [j \in 1 .. BitRises |-> Bit(ctl.byte, 8 - j)]
  BY DEF InReset, DevType
<1> DEFINE more == [j \in 1 .. BitRises + 1 |-> Bit(ctl.byte, 8 - j)]
<1>4. Bits(sio) = more /\ Len(Bits(sio)) = BitRises + 1
  <2>1. Bits(sio) = Append(dev.shift, Bit(ctl.byte, 7 - BitRises))
    BY <1>2, <1>3 DEF Bits
  <2>2. BitRises \in Nat
    OBVIOUS
  <2>3. /\ Append([j \in 1 .. BitRises |-> Bit(ctl.byte, 8 - j)], Bit(ctl.byte, 7 - BitRises)) = more
        /\ Len(more) = BitRises + 1
    BY <2>2, BitsExtended, Zenon
  <2> HIDE DEF more
  <2> QED
    BY <1>3, <2>1, <2>3
<1> HIDE DEF more
<1>5. CASE BitRises = 7
  <2>1. CmdOf(Bits(sio)) = ctl.byte
    <3>1. more = [j \in 1 .. 8 |-> Bit(InitCmd(ctl.init), 8 - j)]
      BY <1>1, <1>5 DEF more
    <3>2. CmdOf([j \in 1 .. 8 |-> Bit(InitCmd(ctl.init), 8 - j)]) = InitCmd(ctl.init)
      BY <1>1, <1>3, CommandDecoded
    <3>3. CmdOf(more) = InitCmd(ctl.init)
      BY <3>1, <3>2
    <3> QED
      BY <1>1, <1>4, <3>3
  <2>2. /\ dev'.state = "DONE" /\ (ctl.byte = EnterQpi => dev'.qpi = TRUE)
        /\ (ctl.byte # EnterQpi => dev'.qpi = FALSE)
    <3>0. Len(Bits(sio)) = 8 /\ dev.qpi = FALSE
      BY <1>3, <1>4, <1>5
    <3>1. Len(Bits(sio)) = (IF dev.qpi THEN 2 ELSE 8)
      BY <3>0
    <3> QED
      BY <1>3, <2>1, <3>1, SampledCommand
  <2>3. ctl.byte = EnterQpi <=> ctl.init = LastInit
    BY <1>1 DEF InitCmd, EnterQpi, LastInit, ResetEnable, Reset
  <2>4. dev'.qpi = (ctl'.init = LastInit)
    BY <2>2, <2>3
  <2>5. BitRises' = 8
    BY <1>5
  <2> QED
    BY <2>2, <2>4, <2>5 DEF InReset
<1>6. CASE BitRises # 7
  <2>1. dev'.state = "CMD" /\ dev'.shift = more /\ dev'.qpi = FALSE
    <3>1. Len(Bits(sio)) # (IF dev.qpi THEN 2 ELSE 8)
      BY <1>3, <1>4, <1>6
    <3> QED
      BY <1>3, <1>4, <3>1, SampledCommand DEF Chip, Keeps
  <2>2. BitRises' # 8 /\ more = [j \in 1 .. BitRises' |-> Bit(ctl'.byte, 8 - j)]
    BY <1>6 DEF more
  <2> QED
    BY <2>1, <2>2 DEF InReset
<1> QED
  BY <1>5, <1>6

LEMMA StartupMode ==
  ASSUME Clock, ctl.state = "STARTUP"
  PROVE  ChipMode' /\ dev'.mem = dev.mem
<1> USE DEF Clock, BInv, WordInv
<1>1. CtlInv /\ CtlInv' /\ EngInv /\ EngWord /\ DevType /\ ctl.intra \in 0 .. 4 /\ dev.qpi \in BOOLEAN
  BY DEF DevInv, DevType, CtlInv, CtlLines
<1>2. CASE ctl.intra = 0
  <2>1. ctl.cs /\ ctl'.cs /\ ctl'.state = "STARTUP" /\ ctl'.intra \in {0, 1}
    BY <1>1, <1>2 DEF WordEdge, HeldWord, Goes, StartupWord, CtlInv, CtlStart, CtlLines, Waiting,
       Transfers
  <2>2. Same
    BY <1>1, <2>1, ChipUnselected DEF CsFalls
  <2>3. ~dev.qpi /\ dev'.qpi = dev.qpi /\ dev'.mem = dev.mem
    BY <1>2, <2>2 DEF ChipMode, Same, Keeps
  <2>4. CASE ctl'.intra = 0
    BY <2>1, <2>3, <2>4 DEF ChipMode
  <2>5. CASE ctl'.intra = 1
    BY <2>1, <2>3, <2>5 DEF ChipMode
  <2> QED
    BY <2>1, <2>4, <2>5
<1>3. CASE ctl.intra = 1
  <2>1. /\ ctl'.state = "STARTUP" /\ ctl'.intra = 2
        /\ ~ctl.start
    BY <1>1, <1>3 DEF WordEdge, HeldWord, Goes, StartupWord, CtlInv, CtlStart, CtlLines, Waiting,
       Transfers
  <2>2. CsFalls
    BY <1>1, <1>3, <2>1 DEF CsFalls, CtlInv, CtlLines
  <2>3. BitRises' = 0
    BY <1>1, <2>1, BetweenWords
  <2>4. dev'.state = "CMD" /\ dev'.shift = <<>> /\ Keeps
    BY <1>1, <2>2, ChipSelects
  <2>5. [j \in 1 .. 0 |-> Bit(ctl'.byte, 8 - j)] = <<>>
    OBVIOUS
  <2>6. ~dev'.qpi /\ dev'.mem = dev.mem
    BY <1>3, <2>4 DEF ChipMode, Keeps
  <2> QED
    BY <2>1, <2>3, <2>4, <2>5, <2>6 DEF ChipMode, InReset
<1>4. CASE ctl.intra = 2
  <2>1. /\ ctl'.state = "STARTUP" /\ ctl'.intra = 3 /\ ctl'.init = ctl.init /\ ctl'.byte = ctl.byte
        /\ ~ctl.start
    BY <1>1, <1>4 DEF WordEdge, HeldWord, Goes, StartupWord, CtlInv, CtlStart, CtlLines, Waiting,
       Transfers
  <2>2. ~CsFalls /\ ~CsRises /\ ctl.op_en
    BY <1>1, <1>4, <2>1 DEF CsFalls, CsRises, CtlInv, CtlLines
  <2>3. BitRises' = 0 /\ ~SclkRises /\ ~SclkFalls
    BY <1>1, <2>1, <2>2, BetweenWords
  <2>4. BitRises = 0
    BY <1>1, <2>1 DEF BitRises, EngInv, EngTurn, EngType
  <2>5. Same
    BY <1>1, <2>2, <2>3, ChipStill
  <2> QED
    BY <1>4, <2>1, <2>3, <2>4, <2>5 DEF ChipMode, InReset, Same, Chip, Keeps
<1>5. CASE ctl.intra = 3 /\ ~eng.done
  <2>1. ctl.start /\ HeldWord
    BY <1>1, <1>5, WordHeld DEF CtlInv, CtlStart, Waiting
  <2>2. /\ ctl'.state = "STARTUP" /\ ctl'.intra = 3 /\ ctl'.init = ctl.init /\ ctl'.byte = ctl.byte
    BY <1>5, <2>1 DEF HeldWord, Goes
  <2>3. ~CsFalls /\ ~CsRises /\ ctl.op_en /\ ctl'.op_en /\ ~ctl.cs /\ ctl.quad # TRUE
    BY <1>1, <1>5, <2>2 DEF CsFalls, CsRises, CtlInv, CtlLines, CtlStart
  <2>4. /\ SclkRises => /\ BitRises \in 0 .. 7 /\ BitRises' = BitRises + 1
                         /\ eng'.so = Serial(Bit(ctl.byte, 7 - BitRises))
        /\ ~SclkRises => BitRises' = BitRises
    BY <1>1, <1>5, <2>1, <2>3, BitSent
  <2>5. InReset
    BY <1>5 DEF ChipMode
  <2>6. CASE SclkRises
    <3>1. Sampled(eng'.so)
      BY <2>3, <2>6, ChipSamples
    <3>2. CtlReset
      BY DEF CtlWord
    <3>3. InReset'
      BY <1>1, <1>5, <2>2, <2>4, <2>5, <2>6, <3>1, <3>2, ResetSampled
    <3>4. dev.state = "CMD"
      BY <2>4, <2>5, <2>6 DEF InReset
    <3>5. dev'.mem = dev.mem
      BY <1>1, <3>1, <3>4, SampledCommand DEF Keeps
    <3> QED
      BY <2>2, <3>3, <3>5 DEF ChipMode
  <2>7. CASE ~SclkRises
    <3>1. dev.state # "READ"
      BY <2>5 DEF InReset
    <3>2. Same
      BY <1>1, <2>3, <2>7, <3>1, ChipStill
    <3>3. InReset'
      BY <2>2, <2>4, <2>5, <2>7, <3>2 DEF InReset, Same, Chip, Keeps
    <3> QED
      BY <2>2, <3>2, <3>3 DEF ChipMode, Same, Keeps
  <2> QED
    BY <2>6, <2>7
<1>6. CASE ctl.intra = 3 /\ eng.done
  <2>1. ctl'.state = "STARTUP" /\ ctl'.intra = 4 /\ ctl'.init = ctl.init
    BY <1>1, <1>6 DEF WordEdge, HeldWord, StartupWord
  <2>2. CsRises
    BY <1>1, <1>6, <2>1 DEF CsRises, CtlInv, CtlLines
  <2>3. Keeps
    BY <1>1, <2>2, ChipLeaves
  <2>4. BitRises = 8
    BY <1>6 DEF BitRises
  <2> QED
    BY <1>6, <2>1, <2>3, <2>4 DEF ChipMode, InReset, Keeps
<1>7. CASE ctl.intra = 4
  <2>1. /\ ctl.cs
        /\ \/ ctl'.state = "STARTUP" /\ ctl'.intra = 4 /\ ctl'.init = ctl.init
           \/ ctl.init # LastInit /\ ctl'.state = "STARTUP" /\ ctl'.intra = 1
           \/ ctl.init = LastInit /\ ctl'.state = "IDLE"
    BY <1>1, <1>7 DEF WordEdge, HeldWord, Goes, StartupWord, CtlInv, CtlStart, CtlLines, Waiting,
       Transfers
  <2>2. ctl'.cs
    BY <1>1, <2>1 DEF CtlInv, CtlLines
  <2>3. Same
    BY <1>1, <2>1, <2>2, ChipUnselected DEF CsFalls
  <2>4. dev.qpi = (ctl.init = LastInit)
    BY <1>7 DEF ChipMode
  <2>5. dev'.qpi = dev.qpi /\ dev'.mem = dev.mem
    BY <2>3 DEF Same, Keeps
  <2>6. CASE ctl'.state = "STARTUP" /\ ctl'.intra = 4 /\ ctl'.init = ctl.init
    BY <2>4, <2>5, <2>6 DEF ChipMode
  <2>7. CASE ctl.init # LastInit /\ ctl'.state = "STARTUP" /\ ctl'.intra = 1
    <3>1. ~dev'.qpi /\ ctl'.state = "STARTUP" /\ ctl'.intra = 1
      BY <2>4, <2>5, <2>7
    <3> QED
      BY <2>5, <3>1 DEF ChipMode
  <2>8. CASE ctl.init = LastInit /\ ctl'.state = "IDLE"
    BY <2>4, <2>5, <2>8 DEF ChipMode
  <2> QED
    BY <2>1, <2>6, <2>7, <2>8
<1> QED
  BY <1>1, <1>2, <1>3, <1>4, <1>5, <1>6, <1>7

\* Where the chip is in the burst.
ChipPlace == ChipMode /\ ChipAddress /\ ChipDummy /\ ChipWrite /\ ChipRead

LEMMA BetweenBursts ==
  ASSUME Clock, ctl.state \in {"IDLE", "ASSERT_CS", "DEASSERT_CS"}
  PROVE  ChipPlace' /\ dev'.mem = dev.mem
<1> USE DEF Clock, BInv, WordInv
<1>1. /\ CtlInv /\ CtlInv' /\ EngInv /\ EngWord /\ DevType /\ dev.qpi
      /\ ~ctl.start
  BY DEF DevInv, CtlInv, CtlStart, Waiting, Transfers, ChipMode
<1>2. ~SclkRises /\ (eng.done => ctl.start) /\ Rises' = 0
  BY <1>1, BetweenWords DEF EngInv, EngTurn
<1>3. ~SclkFalls
  BY <1>1, <1>2, BetweenWords
<1>4. CASE ctl.state = "ASSERT_CS"
  <2>1. ctl'.state = "SEND_COMMAND"
    BY <1>4 DEF WordEdge, HeldWord, Goes, CtlInv, CtlStart, Waiting, Transfers
  <2>2. CsFalls
    BY <1>1, <1>4, <2>1 DEF CsFalls, CtlInv, CtlLines, Transfers
  <2>3. dev'.state = "CMD" /\ dev'.shift = <<>> /\ dev'.clks = 0 /\ Keeps
    BY <1>1, <2>2, ChipSelects
  <2>4. InCommand'
    BY <1>2, <2>3 DEF InCommand
  <2> QED
    BY <1>1, <2>1, <2>3, <2>4 DEF ChipPlace, ChipMode, ChipAddress, ChipDummy, ChipWrite, ChipRead,
       Keeps
<1>5. CASE ctl.state \in {"IDLE", "DEASSERT_CS"}
  <2>1. ctl'.state \in {"IDLE", "ASSERT_CS", "DEASSERT_CS"}
    BY <1>1, <1>5 DEF WordEdge, HeldWord, IdleWord, EndWord
  <2>2. Keeps
    <3>1. CASE CsRises
      BY <1>1, <3>1, ChipLeaves
    <3>2. CASE ~CsRises
      <4>1. ~CsFalls
        BY <1>5 DEF Edge, Becomes, CsFalls
      <4> QED
        BY <1>1, <1>2, <1>3, <3>2, <4>1, ChipStill DEF Same
    <3> QED
      BY <3>1, <3>2
  <2> QED
    BY <1>1, <2>1, <2>2 DEF ChipPlace, ChipMode, ChipAddress, ChipDummy, ChipWrite, ChipRead, Keeps
<1> QED
  BY <1>4, <1>5

\* The command's two nibbles, each at its edge.
LEMMA CommandPlace ==
  ASSUME Clock, ctl.state = "SEND_COMMAND"
  PROVE  ChipPlace' /\ dev'.mem = dev.mem
<1> USE DEF Clock, BInv, WordInv
<1>1. /\ CtlInv /\ CtlInv' /\ EngInv /\ EngWord /\ DevType /\ dev.qpi = TRUE
      /\ ~ctl.cs /\ ~CsFalls /\ ~CsRises /\ ctl.op_en /\ ctl.quad = TRUE
      /\ InCommand /\ dev.clks = 0 /\ ctl.cmd \in Commands
  <2>1. ~ctl.cs /\ ~CsFalls /\ ~CsRises
    BY StaysSelected DEF Transfers
  <2>2. dev.qpi = TRUE
    BY DEF ChipMode, DevInv, DevType
  <2> QED
    BY <2>1, <2>2 DEF DevInv, CtlInv, CtlType, CtlStart, CtlLines, Transfers, ChipAddress
<1>2. CASE ctl.start /\ ~eng.done
  <2>1. HeldWord
    BY <1>2, WordHeld
  <2>2. /\ ctl'.state = "SEND_COMMAND" /\ ctl'.cmd = ctl.cmd /\ ctl.byte = ctl.cmd /\ ctl'.op_en
    BY <1>1, <1>2, <2>1 DEF HeldWord, Goes, Serves, CtlInv, CtlStart, CtlData, Waiting, Transfers
  <2>3. /\ SclkRises => /\ Rises \in {0, 1} /\ Rises' = Rises + 1
                        /\ eng'.so = ctl.byte[1 + Rises]
        /\ ~SclkRises => Rises' = Rises
    BY <1>1, <1>2, WithinByte, NibbleSent
  <2>4. CASE SclkRises
    <3>1. Sampled(eng'.so) /\ eng'.so = ctl.cmd[1 + Rises]
      BY <1>1, <2>2, <2>3, <2>4, ChipSamples
    <3>2. InCommand'
      BY <1>1, <2>2, <2>3, <2>4, <3>1, SampledStep, CommandSampled
    <3>3. dev.state = "CMD" /\ dev.shift = (IF Rises = 0 THEN <<>> ELSE <<ctl.cmd[1]>>)
      BY <1>1, <2>3, <2>4 DEF InCommand
    <3>4. dev'.clks = 0 /\ dev'.qpi = TRUE /\ dev'.mem = dev.mem
      <4>1. CASE Rises = 0
        <5>1. Bits(eng'.so) = <<eng'.so>> /\ Len(Bits(eng'.so)) # 2
          BY <1>1, <3>3, <4>1 DEF Bits
        <5> QED
          BY <1>1, <3>1, <3>3, <5>1, SampledCommand DEF Chip, Keeps
      <4>2. CASE Rises = 1
        <5>1. Bits(eng'.so) = <<ctl.cmd[1], ctl.cmd[2]>> /\ Len(Bits(eng'.so)) = 2
          <6>1. Bits(eng'.so) = Append(<<ctl.cmd[1]>>, ctl.cmd[2])
            BY <1>1, <3>1, <3>3, <4>2 DEF Bits
          <6> QED
            BY <6>1, Pair
        <5>2. CmdOf(Bits(eng'.so)) = ctl.cmd
          BY <1>1, <5>1 DEF Commands, ReadQuad, WriteQuad, CmdOf
        <5>3. ctl.cmd # EnterQpi /\ ctl.cmd # Reset
          BY <1>1 DEF Commands, ReadQuad, WriteQuad, EnterQpi, Reset
        <5> QED
          BY <1>1, <3>1, <3>3, <5>1, <5>2, <5>3, SampledCommand
      <4> QED
        BY <2>3, <2>4, <4>1, <4>2
    <3> QED
      BY <2>2, <3>2, <3>4 DEF ChipPlace, ChipMode, ChipAddress, ChipDummy, ChipWrite, ChipRead
  <2>5. CASE ~SclkRises
    <3>1. dev.state # "READ"
      BY <1>1 DEF InCommand
    <3>2. Same
      BY <1>1, <2>5, <3>1, ChipStill
    <3>3. dev'.write = dev.write
      BY <1>1, <2>5, <3>1, DeviceMoves DEF DeviceEdge, Still, Shows
    <3>4. InCommand'
      BY <1>1, <2>2, <2>3, <2>5, <3>2, <3>3 DEF InCommand, Same, Chip
    <3> QED
      BY <1>1, <2>2, <3>2, <3>4 DEF ChipPlace, ChipMode, ChipAddress, ChipDummy, ChipWrite, ChipRead,
         Same, Chip, Keeps
  <2> QED
    BY <2>4, <2>5
<1>3. CASE ~ctl.start \/ eng.done
  <2>1. ~SclkRises /\ ~SclkFalls /\ Rises' = 0
    BY <1>1, <1>3, BetweenWords
  <2>2. dev.state # "READ"
    BY <1>1 DEF InCommand
  <2>3. Same
    BY <1>1, <2>1, <2>2, ChipStill
  <2>4. dev'.write = dev.write
    BY <1>1, <2>1, <2>2, DeviceMoves DEF DeviceEdge, Still, Shows
  <2>5. CASE ~ctl.start
    <3>1. ctl'.state = "SEND_COMMAND" /\ ctl'.cmd = ctl.cmd
      BY <2>5 DEF WordEdge, HeldWord, CommandWord, Goes, Serves
    <3>2. Rises = 0
      BY <1>1, <2>5 DEF Rises, EngInv, EngTurn, EngType
    <3>3. InCommand'
      BY <1>1, <2>1, <2>3, <2>4, <3>1, <3>2 DEF InCommand, Same, Chip
    <3> QED
      BY <1>1, <2>3, <3>1, <3>3 DEF ChipPlace, ChipMode, ChipAddress, ChipDummy, ChipWrite, ChipRead,
         Same, Chip, Keeps
  <2>6. CASE ctl.start /\ eng.done
    <3>1. ctl'.state = "SEND_ADDRESS" /\ ctl'.cmd = ctl.cmd /\ ctl'.left = AddrBytes
      BY <2>6 DEF WordEdge, HeldWord, CommandWord, Goes, Serves
    <3>2. Rises = 2
      BY <2>6 DEF Rises
    <3>3. AddressNibbles' = 0
      BY <2>1, <3>1 DEF AddressNibbles, AddrBytes
    <3>4. InAddress'
      BY <1>1, <2>3, <2>4, <3>1, <3>2, <3>3, NoneYet DEF InCommand, InAddress, Same, Chip, AddrBytes
    <3>5. dev'.shift = [j \in 1 .. AddressNibbles' |-> AddressNibble(ctl'.addr, j)]
      <4>1. dev'.shift = <<>>
        BY <1>1, <2>3, <3>2 DEF InCommand, Same, Chip
      <4>2. [j \in 1 .. 0 |-> AddressNibble(ctl'.addr, j)] = <<>>
        OBVIOUS
      <4> QED
        BY <3>3, <4>1, <4>2
    <3>6. dev'.clks = 0 /\ dev'.qpi = TRUE /\ dev'.mem = dev.mem
      BY <1>1, <2>3 DEF Same, Chip, Keeps
    <3> QED
      BY <3>1, <3>3, <3>4, <3>5, <3>6 DEF ChipPlace, ChipMode, ChipAddress, ChipDummy, ChipWrite, ChipRead,
         AddrBytes
  <2> QED
    BY <1>3, <2>5, <2>6
<1> QED
  BY <1>2, <1>3

\* The caller's request while its burst is on the bus.
LEMMA Requested ==
  ASSUME WordInv, ctl.state \in InBurst
  PROVE  /\ call.busy /\ call.cmd = ctl.cmd /\ call.addr = ctl.addr /\ ~Ended
         /\ call.addr \in 0 .. MemSize - 1
<1>1. ctl.busy = TRUE
  BY DEF WordInv, CtlWord, CtlStrobes, InBurst, Transfers
<1>2. call.busy /\ call.addr \in Starts
  BY DEF WordInv, CallRequest
<1>3. call.addr \in 0 .. MemSize - 1
  BY <1>2, DataAssumption
<1> QED
  BY <1>1, <1>2, <1>3 DEF WordInv, CallRequest, Ended, InBurst, Transfers

LEMMA NibblesExtended ==
  ASSUME NEW a, NEW n \in Nat
  PROVE  /\ Append([j \in 1 .. n |-> AddressNibble(a, j)], AddressNibble(a, n + 1))
              = [j \in 1 .. n + 1 |-> AddressNibble(a, j)]
         /\ Len([j \in 1 .. n + 1 |-> AddressNibble(a, j)]) = n + 1
<1> DEFINE f == [j \in Nat |-> AddressNibble(a, j)]
<1>1. /\ [j \in 1 .. n |-> f[j]] = [j \in 1 .. n |-> AddressNibble(a, j)]
      /\ [j \in 1 .. n + 1 |-> f[j]] = [j \in 1 .. n + 1 |-> AddressNibble(a, j)]
  OBVIOUS
<1>2. f[n + 1] = AddressNibble(a, n + 1)
  OBVIOUS
<1> HIDE DEF f
<1> QED
  BY <1>1, <1>2, Extended

\* One nibble of the address.
LEMMA AddressTaken ==
  ASSUME CtlInv, DevType, dev.qpi = TRUE, ctl.state = "SEND_ADDRESS", ctl.intra = 1,
         InAddress, CtlAddress, ctl.addr \in 0 .. MemSize - 1, ctl.left \in 1 .. AddrBytes,
         Rises \in {0, 1}, Rises' = Rises + 1, ctl'.left = ctl.left, ctl'.addr = ctl.addr,
         AddressNibbles # 2 * AddrBytes =>
           dev.shift = [j \in 1 .. AddressNibbles |-> AddressNibble(ctl.addr, j)],
         NEW sio, sio = ctl.byte[1 + Rises], Sampled(sio)
  PROVE  /\ IF AddressNibbles' = 2 * AddrBytes THEN dev'.addr = ctl'.addr /\ dev'.half = FALSE
            ELSE dev'.shift = [j \in 1 .. AddressNibbles' |-> AddressNibble(ctl'.addr, j)]
         /\ dev'.clks = dev.clks /\ dev'.qpi = dev.qpi /\ dev'.mem = dev.mem
<1> DEFINE n == AddressNibbles
<1> DEFINE more == [j \in 1 .. n + 1 |-> AddressNibble(ctl.addr, j)]
<1>1. n \in 0 .. 5 /\ AddressNibbles' = n + 1 /\ n = 2 * (AddrBytes - ctl.left) + Rises
  BY DEF AddressNibbles, AddrBytes
<1>2. dev.state = "ADDR" /\ dev.shift = [j \in 1 .. n |-> AddressNibble(ctl.addr, j)]
  BY <1>1 DEF InAddress, AddrBytes
<1>3. sio = AddressNibble(ctl.addr, n + 1)
  <2>1. ctl.byte = AddressBytes(ctl.addr)[AddrBytes - ctl.left + 1]
    BY DEF CtlAddress
  <2>2. (n + 2) \div 2 = AddrBytes - ctl.left + 1 /\ 2 - ((n + 1) % 2) = 1 + Rises
    <3> DEFINE d == AddrBytes - ctl.left
    <3>1. d \in 0 .. 2 /\ n = 2 * d + Rises
      BY <1>1 DEF AddrBytes
    <3> HIDE DEF d, n
    <3>2. CASE Rises = 0
      <4>1. n + 2 = 2 * (d + 1) + 0 /\ n + 1 = 2 * d + 1
        BY <3>1, <3>2
      <4> QED
        BY <3>1, <3>2, <4>1 DEF d
    <3>3. CASE Rises = 1
      <4>1. n + 2 = 2 * (d + 1) + 1 /\ n + 1 = 2 * (d + 1) + 0
        BY <3>1, <3>3
      <4>2. (2 * (d + 1) + 1) \div 2 = d + 1 /\ (2 * (d + 1) + 0) % 2 = 0
        BY <3>1, Quotient
      <4>3. (n + 2) \div 2 = d + 1 /\ (n + 1) % 2 = 0
        BY <4>1, <4>2
      <4> QED
        BY <3>1, <3>3, <4>3 DEF d
    <3> QED
      BY <3>2, <3>3
  <2>3. ((n + 1) + 1) \div 2 = AddrBytes - ctl.left + 1
    BY <1>1, <2>2
  <2> QED
    BY <2>1, <2>2, <2>3 DEF AddressNibble
<1> HIDE DEF n
<1>4. Bits(sio) = more /\ Len(Bits(sio)) = n + 1
  <2>1. Bits(sio) = Append(dev.shift, AddressNibble(ctl.addr, n + 1))
    BY <1>3 DEF Bits
  <2>2. n \in Nat
    BY <1>1
  <2>3. /\ Append([j \in 1 .. n |-> AddressNibble(ctl.addr, j)], AddressNibble(ctl.addr, n + 1)) = more
        /\ Len(more) = n + 1
    BY <2>2, NibblesExtended
  <2> HIDE DEF more
  <2> QED
    BY <1>2, <2>1, <2>3
<1> HIDE DEF more
<1>5. CASE n = 5
  <2>1. Len(Bits(sio)) = 2 * AddrBytes /\ AddressNibbles' = 2 * AddrBytes
    BY <1>1, <1>4, <1>5 DEF AddrBytes
  <2>2. AddrOf(Bits(sio)) = ctl.addr
    <3>1. more = [j \in 1 .. 6 |-> AddressNibble(ctl.addr, j)]
      BY <1>5 DEF more
    <3>2. AddrOf([j \in 1 .. 6 |-> AddressNibble(ctl.addr, j)]) = ctl.addr
      BY AddressDecoded
    <3> QED
      BY <1>4, <3>1, <3>2
  <2> QED
    BY <1>2, <2>1, <2>2, SampledAddress DEF Chip, Keeps
<1>6. CASE n # 5
  <2>1. Len(Bits(sio)) # 2 * AddrBytes /\ AddressNibbles' # 2 * AddrBytes
    BY <1>1, <1>4, <1>6 DEF AddrBytes
  <2>2. more = [j \in 1 .. AddressNibbles' |-> AddressNibble(ctl'.addr, j)]
    BY <1>1 DEF more
  <2>3. Chip("ADDR", Bits(sio), dev.addr, dev.clks, dev.half) /\ Keeps
    BY <1>2, <2>1, SampledAddress
  <2> QED
    BY <1>4, <2>1, <2>2, <2>3 DEF Chip, Keeps
<1> QED
  BY <1>5, <1>6

LEMMA NoneWritten ==
  ASSUME dev'.mem = call'.before
  PROVE  Written(0)'
BY DEF Written

\* The address, and what the data phase starts from.
LEMMA AddressPlace ==
  ASSUME Clock, ctl.state = "SEND_ADDRESS"
  PROVE  ChipPlace' /\ dev'.mem = dev.mem
<1>r. ctl.addr \in 0 .. MemSize - 1 /\ call.addr = ctl.addr /\ call.busy /\ ~Ended
  <2>1. WordInv /\ ctl.state \in InBurst
    BY DEF Clock, InBurst, Transfers
  <2> QED
    BY <2>1, Requested
<1> USE DEF Clock, BInv, WordInv
<1>1. /\ CtlInv /\ CtlInv' /\ EngInv /\ EngWord /\ DevType /\ dev.qpi = TRUE
      /\ ~ctl.cs /\ ~CsFalls /\ ~CsRises /\ ctl.op_en /\ ctl.quad = TRUE
      /\ InAddress /\ dev.clks = 0 /\ ctl.cmd \in Commands /\ ctl.left \in 1 .. AddrBytes
  <2>1. ~ctl.cs /\ ~CsFalls /\ ~CsRises
    BY StaysSelected DEF Transfers
  <2>2. dev.qpi = TRUE
    BY DEF ChipMode, DevInv, DevType
  <2> QED
    BY <2>1, <2>2 DEF DevInv, CtlInv, CtlType, CtlStart, CtlLines, CtlData, Transfers, ChipAddress
<1>2. /\ IF AddressNibbles = 2 * AddrBytes THEN dev.addr = ctl.addr /\ dev.half = FALSE
         ELSE dev.shift = [j \in 1 .. AddressNibbles |-> AddressNibble(ctl.addr, j)]
      /\ dev.state # "READ" /\ ctl.addr \in 0 .. MemSize - 1
  <2>1. ctl.addr \in 0 .. MemSize - 1
    BY <1>r
  <2>2. dev.state # "READ"
    BY <1>1 DEF InAddress
  <2> QED
    BY <2>1, <2>2 DEF ChipAddress
<1>a. CtlAddress
  BY DEF CtlWord
<1>3. CASE ctl.start /\ ~eng.done
  <2>1. HeldWord
    BY <1>3, WordHeld
  <2>2. /\ ctl'.state = "SEND_ADDRESS" /\ ctl'.cmd = ctl.cmd /\ ctl'.op_en /\ ctl.intra = 1
        /\ ctl'.left = ctl.left /\ ctl'.addr = ctl.addr
    BY <1>1, <1>3, <2>1 DEF HeldWord, Goes, Serves, CtlInv, CtlStart, CtlData, Waiting, Transfers
  <2>3. /\ SclkRises => /\ Rises \in {0, 1} /\ Rises' = Rises + 1
                        /\ eng'.so = ctl.byte[1 + Rises]
        /\ ~SclkRises => Rises' = Rises
    BY <1>1, <1>3, WithinByte, NibbleSent
  <2>4. CASE SclkRises
    <3>1. Sampled(eng'.so) /\ eng'.so = ctl.byte[1 + Rises]
      BY <1>1, <2>2, <2>3, <2>4, ChipSamples
    <3>2. InAddress'
      BY <1>1, <2>2, <2>3, <2>4, <3>1, SampledStep, AddressSampled
    <3>3. /\ IF AddressNibbles' = 2 * AddrBytes THEN dev'.addr = ctl'.addr /\ dev'.half = FALSE
             ELSE dev'.shift = [j \in 1 .. AddressNibbles' |-> AddressNibble(ctl'.addr, j)]
          /\ dev'.clks = dev.clks /\ dev'.qpi = dev.qpi /\ dev'.mem = dev.mem
      <4>1. AddressNibbles # 2 * AddrBytes =>
              dev.shift = [j \in 1 .. AddressNibbles |-> AddressNibble(ctl.addr, j)]
        BY <1>2
      <4> QED
        BY <1>1, <1>2, <1>a, <2>2, <2>3, <2>4, <3>1, <4>1, AddressTaken
    <3> QED
      BY <1>1, <2>2, <3>2, <3>3 DEF ChipPlace, ChipMode, ChipAddress, ChipDummy, ChipWrite, ChipRead
  <2>5. CASE ~SclkRises
    <3>1. Same
      BY <1>1, <1>2, <2>5, ChipStill
    <3>2. dev'.write = dev.write
      BY <1>1, <1>2, <2>5, DeviceMoves DEF DeviceEdge, Still, Shows
    <3>3. AddressNibbles' = AddressNibbles
      BY <2>2, <2>3, <2>5 DEF AddressNibbles
    <3>4. InAddress'
      BY <1>1, <2>2, <3>1, <3>2, <3>3 DEF InAddress, Same, Chip
    <3>5. dev'.addr = dev.addr /\ dev'.half = dev.half /\ dev'.shift = dev.shift /\ dev'.clks = 0
          /\ dev'.qpi = TRUE /\ dev'.mem = dev.mem
      BY <1>1, <3>1 DEF Same, Chip, Keeps
    <3> QED
      BY <1>2, <2>2, <3>3, <3>4, <3>5 DEF ChipPlace, ChipMode, ChipAddress, ChipDummy, ChipWrite,
         ChipRead
  <2> QED
    BY <2>4, <2>5
<1>4. CASE ~ctl.start \/ eng.done
  <2>1. ~SclkRises /\ ~SclkFalls /\ Rises' = 0 /\ NibblesIn' = 0
    BY <1>1, <1>4, BetweenWords
  <2>2. Same
    BY <1>1, <1>2, <2>1, ChipStill
  <2>3. dev'.write = dev.write
    BY <1>1, <1>2, <2>1, DeviceMoves DEF DeviceEdge, Still, Shows
  <2>4. dev'.addr = dev.addr /\ dev'.half = dev.half /\ dev'.shift = dev.shift /\ dev'.clks = 0
        /\ dev'.qpi = TRUE /\ dev'.mem = dev.mem /\ dev'.state = dev.state
    BY <1>1, <2>2 DEF Same, Chip, Keeps
  <2>5. CASE ctl'.state = "SEND_ADDRESS"
    <3>1. /\ ctl'.cmd = ctl.cmd /\ ctl'.addr = ctl.addr
          /\ ctl'.left = (IF ctl.start THEN ctl.left - 1 ELSE ctl.left)
      BY <1>4, <2>5 DEF WordEdge, HeldWord, AddressWord, Goes, Serves
    <3>2. Rises = (IF ctl.start THEN 2 ELSE 0)
      BY <1>4 DEF Rises, EngInv, EngTurn, EngType
    <3>3. AddressNibbles' = AddressNibbles
      BY <1>1, <2>1, <3>1, <3>2 DEF AddressNibbles, AddrBytes
    <3>4. InAddress'
      BY <1>1, <2>3, <2>4, <3>1, <3>3 DEF InAddress
    <3> QED
      BY <1>2, <2>4, <2>5, <3>1, <3>3, <3>4 DEF ChipPlace, ChipMode, ChipAddress, ChipDummy,
         ChipWrite, ChipRead
  <2>6. CASE ctl'.state # "SEND_ADDRESS"
    <3>1. /\ ctl.start /\ eng.done /\ ctl.left = 1 /\ ctl'.intra = 0
          /\ ctl'.cmd = ctl.cmd /\ ctl'.addr = ctl.addr
          /\ \/ ctl.cmd = ReadQuad /\ ctl'.state = "DUMMY_CYCLES" /\ ctl'.left = DummyBytes
             \/ /\ ctl.cmd = WriteQuad /\ ctl'.state = "WRITE_DATA" /\ ctl'.left = BurstLen
                /\ ctl'.received = FALSE
      BY <1>4, <2>6 DEF WordEdge, HeldWord, AddressWord, Goes, Serves, Quiet
    <3>2. AddressNibbles = 2 * AddrBytes
      BY <3>1 DEF AddressNibbles, AddrBytes, Rises
    <3>3. dev.addr = ctl.addr /\ dev.half = FALSE
      BY <1>2, <3>2
    <3>4. CASE ctl'.state = "DUMMY_CYCLES"
      <4>1. dev.state = "DUMMY"
        BY <1>1, <3>1, <3>2, <3>4 DEF InAddress, ReadQuad, WriteQuad
      <4>2. DummyRises' = 0
        BY <2>1, <3>1, <3>4 DEF DummyRises, DummyBytes
      <4> QED
        BY <2>4, <3>1, <3>3, <3>4, <4>1, <4>2 DEF ChipPlace, ChipMode, ChipAddress, ChipDummy,
           ChipWrite, ChipRead
    <3>5. CASE ctl'.state = "WRITE_DATA"
      <4>1. dev.state = "WRITE"
        BY <1>1, <3>1, <3>2, <3>5 DEF InAddress
      <4>2. BytesIn' = 0
        BY <2>1, <3>1, <3>5, SizeAssumption DEF BytesIn
      <4>3. Served /\ call.addr = ctl.addr
        BY <1>r, CallerServed
      <4>4. call.sent = 0 /\ dev.mem = call.before /\ ctl.received = FALSE
        BY DEF CallMoved, Opening, CtlWord, CtlStrobes
      <4>5. Written(0)'
        BY <2>4, <4>3, <4>4, NoneWritten DEF Served
      <4>6. dev'.addr = Place(call'.addr, 1)
        BY <1>2, <2>4, <3>3, <4>3, PlaceFirst DEF Served
      <4>7. call'.sent = BurstLen - ctl'.left - Pending(ctl'.received)
        <5>1. ctl'.left = BurstLen /\ ctl'.received = FALSE /\ call'.sent = 0
          BY <3>1, <3>5, <4>3, <4>4 DEF Served
        <5>2. Pending(ctl'.received) = 0
          BY <5>1 DEF Pending
        <5>3. BurstLen - BurstLen - 0 = 0
          BY SizeAssumption
        <5> QED
          BY <5>1, <5>2, <5>3
      <4>8. ChipWrite'
        <5>1. (dev'.half = (Rises' = 1)) /\ ~dev'.half
          <6>1. Rises' # 1 /\ dev'.half = FALSE
            BY <2>1, <2>4, <3>3
          <6> QED
            BY <6>1
        <5>2. BytesIn' + 1 = 1
          BY <4>2
        <5> QED
          BY <2>4, <3>1, <4>1, <4>2, <4>5, <4>6, <4>7, <5>1, <5>2 DEF ChipWrite
      <4> QED
        BY <2>4, <3>5, <4>8 DEF ChipPlace, ChipMode, ChipAddress, ChipDummy, ChipRead
    <3> QED
      BY <3>1, <3>4, <3>5
  <2> QED
    BY <2>5, <2>6
<1> QED
  BY <1>3, <1>4

\* The dummy clocks, and the first nibble the chip shows after them.
LEMMA DummyPlace ==
  ASSUME Clock, ctl.state = "DUMMY_CYCLES"
  PROVE  ChipPlace' /\ dev'.mem = dev.mem
<1>r. ctl.addr \in 0 .. MemSize - 1 /\ call.addr = ctl.addr /\ call.busy /\ ~Ended
  <2>1. WordInv /\ ctl.state \in InBurst
    BY DEF Clock, InBurst, Transfers
  <2> QED
    BY <2>1, Requested
<1> USE DEF Clock, BInv, WordInv
<1>1. /\ CtlInv /\ CtlInv' /\ EngInv /\ EngWord /\ DevType /\ dev.qpi = TRUE
      /\ ~ctl.cs /\ ~CsFalls /\ ~CsRises /\ ~ctl.op_en /\ ctl.quad = TRUE
      /\ ctl.left \in 1 .. DummyBytes
  <2>1. ~ctl.cs /\ ~CsFalls /\ ~CsRises
    BY StaysSelected DEF Transfers
  <2>2. dev.qpi = TRUE
    BY DEF ChipMode, DevInv, DevType
  <2> QED
    BY <2>1, <2>2 DEF DevInv, CtlInv, CtlType, CtlStart, CtlLines, Transfers, CtlWord, CtlCount
<1>2. /\ dev.addr = ctl.addr
      /\ IF DummyRises = 6 THEN dev.state = "READ" /\ dev.half = FALSE
         ELSE dev.state = "DUMMY" /\ dev.clks = DummyRises
  BY DEF ChipDummy
<1>3. CASE ctl.start /\ ~eng.done
  <2>1. HeldWord
    BY <1>3, WordHeld
  <2>2. /\ ctl'.state = "DUMMY_CYCLES" /\ ctl'.left = ctl.left /\ ctl'.addr = ctl.addr
    BY <1>1, <1>3, <2>1 DEF HeldWord, Goes, Serves
  <2>3. /\ SclkRises => NibblesIn \in {0, 1} /\ NibblesIn' = NibblesIn + 1
        /\ ~SclkRises => NibblesIn' = NibblesIn
        /\ NibblesIn \in {0, 1}
    <3>1. NibblesIn \in {0, 1}
      BY <1>3 DEF NibblesIn, EngInv, EngTurn, EngType
    <3> QED
      BY <1>1, <1>3, <3>1, WithinRead
  <2>4. DummyRises \in 0 .. 5 /\ DummyRises' = DummyRises + (IF SclkRises THEN 1 ELSE 0)
    BY <1>1, <2>2, <2>3 DEF DummyRises, DummyBytes
  <2>5. dev.state = "DUMMY" /\ dev.clks = DummyRises
    BY <1>2, <2>4
  <2>6. CASE SclkRises
    <3>1. PICK sio : Sampled(sio)
      BY <1>1, <2>6, ChipSamples
    <3>2. CASE DummyRises = 5
      <4>1. Chip("READ", dev.shift, dev.addr, 6, FALSE) /\ Keeps
        <5>1. dev.clks + 1 = 6
          BY <2>5, <3>2
        <5> QED
          BY <1>1, <2>5, <3>1, <5>1, SampledDummy
      <4>2. DummyRises' = 6
        BY <2>4, <2>6, <3>2
      <4> QED
        BY <1>1, <1>2, <2>2, <4>1, <4>2 DEF Chip, Keeps, ChipPlace, ChipMode, ChipAddress, ChipDummy,
           ChipWrite, ChipRead
    <3>3. CASE DummyRises # 5
      <4>1. Chip("DUMMY", dev.shift, dev.addr, dev.clks + 1, dev.half) /\ Keeps
        <5>1. dev.clks + 1 # 6
          BY <2>4, <2>5, <3>3
        <5> QED
          BY <1>1, <2>5, <3>1, <5>1, SampledDummy
      <4>2. DummyRises' # 6 /\ dev'.clks = DummyRises'
        BY <2>4, <2>5, <2>6, <3>3, <4>1 DEF Chip
      <4> QED
        BY <1>1, <1>2, <2>2, <4>1, <4>2 DEF Chip, Keeps, ChipPlace, ChipMode, ChipAddress, ChipDummy,
           ChipWrite, ChipRead
    <3> QED
      BY <3>2, <3>3
  <2>7. CASE ~SclkRises
    <3>1. Same
      BY <1>1, <2>5, <2>7, ChipStill
    <3>2. DummyRises' = DummyRises /\ DummyRises # 6
      BY <2>4, <2>7
    <3> QED
      BY <1>1, <1>2, <2>2, <3>1, <3>2 DEF Same, Chip, Keeps, ChipPlace, ChipMode, ChipAddress,
         ChipDummy, ChipWrite, ChipRead
  <2> QED
    BY <2>6, <2>7
<1>4. CASE ~ctl.start
  <2>1. ~SclkRises /\ ~SclkFalls /\ NibblesIn' = 0 /\ eng'.txfer = "IDLE" /\ eng'.done = FALSE
    BY <1>1, <1>4, BetweenWords DEF EngInv, EngTurn
  <2>2. Same
    BY <1>1, <2>1, ChipStill
  <2>3. ctl'.state = "DUMMY_CYCLES" /\ ctl'.addr = ctl.addr /\ ctl'.left = ctl.left
    BY <1>4 DEF WordEdge, HeldWord, DummyWord, Goes, Serves
  <2>4. NibblesIn = 0
    BY <1>1, <1>4 DEF NibblesIn, EngInv, EngTurn, EngType
  <2>5. DummyRises' = DummyRises
    BY <2>1, <2>3, <2>4 DEF DummyRises
  <2> QED
    BY <1>1, <1>2, <2>2, <2>3, <2>5 DEF Same, Chip, Keeps, ChipPlace, ChipMode, ChipAddress,
       ChipDummy, ChipWrite, ChipRead
<1>5. CASE ctl.start /\ eng.done
  <2>1. ~SclkRises /\ SclkFalls /\ NibblesIn' = 0 /\ eng'.txfer = "IDLE" /\ eng'.done = FALSE
    BY <1>1, <1>5, BetweenWords
  <2>2. NibblesIn = 2
    BY <1>5 DEF NibblesIn
  <2>3. CASE ctl.left # 1
    <3>1. ctl'.state = "DUMMY_CYCLES" /\ ctl'.addr = ctl.addr /\ ctl'.left = ctl.left - 1
      BY <1>5, <2>3 DEF WordEdge, HeldWord, DummyWord, Goes, Serves
    <3>2. DummyRises' = DummyRises /\ DummyRises # 6
      BY <1>1, <2>1, <2>2, <2>3, <3>1 DEF DummyRises, DummyBytes
    <3>3. Same
      BY <1>1, <1>2, <2>1, <3>2, ChipStill
    <3> QED
      BY <1>1, <1>2, <3>1, <3>2, <3>3 DEF Same, Chip, Keeps, ChipPlace, ChipMode, ChipAddress,
         ChipDummy, ChipWrite, ChipRead
  <2>4. CASE ctl.left = 1
    <3>1. ctl'.state = "READ_DATA" /\ ctl'.intra = 0 /\ ctl'.left = BurstLen
      BY <1>5, <2>4 DEF WordEdge, HeldWord, DummyWord, Goes, Serves
    <3>2. DummyRises = 6
      BY <2>2, <2>4 DEF DummyRises, DummyBytes
    <3>3. dev.state = "READ" /\ dev.half = FALSE
      BY <1>2, <3>2
    <3>4. /\ dev'.state = "READ" /\ Keeps /\ dev'.drive = dev.mem[dev.addr][1]
          /\ dev'.half = TRUE /\ dev'.addr = dev.addr
      BY <1>1, <2>1, <3>3, ChipShows
    <3>5. BurstLen - ctl'.left + 1 = 1
      BY <3>1, SizeAssumption
    <3>6. call'.addr = ctl.addr /\ Place(ctl.addr, 1) = ctl.addr
      BY <1>r, CallerServed, PlaceFirst DEF Served
    <3>7. ~LowShown'
      BY <3>1 DEF LowShown
    <3>8. dev'.addr = Place(call'.addr, 1) /\ dev'.drive = Asked(1)'[1]
      BY <1>2, <3>4, <3>6 DEF Asked, Keeps
    <3>9. ChipRead'
      BY <2>1, <3>1, <3>4, <3>5, <3>7, <3>8 DEF ChipRead
    <3> QED
      BY <1>1, <3>1, <3>4, <3>9 DEF Keeps, ChipPlace, ChipMode, ChipAddress, ChipDummy, ChipWrite
  <2> QED
    BY <2>3, <2>4
<1> QED
  BY <1>3, <1>4, <1>5

\* A byte put together from its two nibbles.
LEMMA ByteWhole ==
  ASSUME NEW b \in Byte, NEW s, DOMAIN s = 1 .. 2, s = [j \in 1 .. 2 |-> s[j]], s[1] = b[1], s[2] = b[2]
  PROVE  s = b
<1>1. s = <<s[1], s[2]>>
  OBVIOUS
<1>2. b = <<b[1], b[2]>>
  BY DEF Byte, Nibble
<1> QED
  BY <1>1, <1>2

LEMMA AskedByte ==
  ASSUME dev.mem \in [0 .. MemSize - 1 -> Byte], call.addr \in 0 .. MemSize - 1, NEW k \in Nat \ {0}
  PROVE  Asked(k) \in Byte
BY PlaceRange DEF Asked

\* One byte of a read: the chip shows its nibbles ahead of the edges that take them.
LEMMA ReadPlace ==
  ASSUME Clock, ctl.state = "READ_DATA"
  PROVE  ChipPlace' /\ dev'.mem = dev.mem
<1>r. ctl.addr \in 0 .. MemSize - 1 /\ call.addr = ctl.addr /\ call.busy /\ ~Ended
  <2>1. WordInv /\ ctl.state \in InBurst
    BY DEF Clock, InBurst, Transfers
  <2> QED
    BY <2>1, Requested
<1> USE DEF Clock, BInv, WordInv
<1>1. /\ CtlInv /\ CtlInv' /\ EngInv /\ EngWord /\ DevType /\ dev.qpi = TRUE
      /\ ~ctl.cs /\ ~CsFalls /\ ~CsRises /\ ~ctl.op_en /\ ctl.quad = TRUE
      /\ ctl.left \in 1 .. BurstLen /\ ctl.intra \in 0 .. 2 /\ (ctl.start <=> ctl.intra = 1)
  <2>1. ~ctl.cs /\ ~CsFalls /\ ~CsRises
    BY StaysSelected DEF Transfers
  <2>2. dev.qpi = TRUE
    BY DEF ChipMode, DevInv, DevType
  <2> QED
    BY <2>1, <2>2 DEF DevInv, CtlInv, CtlType, CtlStart, CtlLines, Waiting, Transfers, CtlWord, CtlCount
<1> DEFINE k == BurstLen - ctl.left + 1
<1>2. k \in 1 .. BurstLen /\ k \in Nat \ {0} /\ k + 1 \in Nat \ {0}
  BY <1>1, SizeAssumption
<1>3. /\ dev.state = "READ"
      /\ LowShown => dev.half = FALSE /\ dev.addr = Place(call.addr, k + 1) /\ dev.drive = Asked(k)[2]
      /\ ~LowShown /\ ctl.intra # 2 =>
           dev.half = TRUE /\ dev.addr = Place(call.addr, k) /\ dev.drive = Asked(k)[1]
      /\ ~LowShown /\ ctl.intra = 2 =>
           dev.half = TRUE /\ dev.addr = Place(call.addr, k + 1) /\ dev.drive = Asked(k + 1)[1]
      /\ eng.txfer = "NIB_TXFER" /\ eng.cnt = 0 => eng.in[1] = Asked(k)[1]
      /\ eng.done \/ ctl.intra = 2 => eng.in = Asked(k)
  BY DEF ChipRead
<1>4. dev.mem \in [0 .. MemSize - 1 -> Byte]
  BY DEF CallMoved
<1>5. call'.addr = call.addr
  BY <1>r, CallerServed DEF Served
<1>6. /\ Asked(k) \in Byte /\ NextAddr(Place(call.addr, k)) = Place(call.addr, k + 1)
      /\ Asked(k) = dev.mem[Place(call.addr, k)] /\ Asked(k + 1) = dev.mem[Place(call.addr, k + 1)]
  BY <1>r, <1>2, <1>4, AskedByte, PlaceNext DEF Asked
<1>7. \A n : dev'.mem = dev.mem => Asked(n)' = Asked(n)
  BY <1>5 DEF Asked
<1> HIDE DEF k
<1>8. CASE ctl.start /\ ~eng.done
  <2>1. HeldWord
    BY <1>8, WordHeld
  <2>2. /\ ctl'.state = "READ_DATA" /\ ctl'.left = ctl.left /\ ctl'.intra = 1 /\ ctl.intra = 1
    BY <1>1, <1>8, <2>1 DEF HeldWord, Goes
  <2>3. BurstLen - ctl'.left + 1 = k
    BY <2>2 DEF k
  <2>4. /\ SclkRises => /\ NibblesIn \in {0, 1} /\ NibblesIn' = NibblesIn + 1
                         /\ Takes(1 + NibblesIn)
                         /\ eng.txfer = "NIB_TXFER" /\ eng.cnt = 1 - NibblesIn
                         /\ (eng'.done <=> NibblesIn = 1) /\ eng'.sclk
        /\ ~SclkRises => NibblesIn' = NibblesIn /\ eng'.done = FALSE /\ eng'.in = eng.in
        /\ SclkFalls => /\ eng.txfer = "NIB_TXFER" /\ eng.cnt = 0
                        /\ eng'.txfer = "NIB_TXFER" /\ eng'.cnt = 0
        /\ ~SclkRises /\ ~SclkFalls =>
              /\ ~eng.sclk /\ ~eng'.sclk /\ eng.txfer = "IDLE"
              /\ eng'.txfer = "NIB_TXFER" => eng'.cnt = 1
    BY <1>1, <1>8, <2>2, WithinRead
  <2>5. CASE SclkRises
    <3>1. Same
      <4>1. PICK sio : Sampled(sio)
        BY <1>1, <2>5, ChipSamples
      <4> QED
        BY <1>1, <1>3, <4>1, SampledElse
    <3>2. Bus = dev.drive /\ ~eng.sclk
      BY <1>1, <2>5 DEF Bus, SclkRises
    <3>3. CASE NibblesIn = 0
      <4>1. eng.cnt = 1 /\ eng'.done = FALSE
        BY <2>4, <2>5, <3>3 DEF EngType
      <4>2. ~LowShown /\ dev.drive = Asked(k)[1]
        BY <1>3, <1>8, <2>2, <4>1 DEF LowShown
      <4>3. eng'.in[1] = Asked(k)[1]
        BY <1>1, <2>4, <2>5, <3>2, <3>3, <4>2 DEF Takes, EngWord
      <4>4. ~LowShown'
        BY <2>4, <2>5, <4>1 DEF LowShown
      <4>5. ChipRead'
        BY <1>3, <1>5, <1>7, <2>2, <2>3, <3>1, <4>1, <4>2, <4>3, <4>4 DEF ChipRead, Same, Chip, Keeps
      <4> QED
        BY <1>1, <2>2, <3>1, <4>5 DEF Same, Keeps, ChipPlace, ChipMode, ChipAddress, ChipDummy,
           ChipWrite
    <3>4. CASE NibblesIn = 1
      <4>1. eng.cnt = 0 /\ eng'.done
        BY <2>4, <2>5, <3>4
      <4>2. LowShown /\ dev.drive = Asked(k)[2] /\ eng.in[1] = Asked(k)[1]
        BY <1>3, <2>2, <2>4, <2>5, <3>2, <4>1 DEF LowShown
      <4>3. eng'.in = Asked(k)
        <5>1. eng'.in = [eng.in EXCEPT ![2] = Asked(k)[2]] /\ DOMAIN eng.in = 1 .. 2
          BY <2>4, <2>5, <3>2, <3>4, <4>2 DEF Takes, EngWord
        <5>2. /\ eng'.in = [j \in 1 .. 2 |-> eng'.in[j]] /\ DOMAIN eng'.in = 1 .. 2
              /\ eng'.in[1] = Asked(k)[1] /\ eng'.in[2] = Asked(k)[2]
          BY <4>2, <5>1
        <5> QED
          BY <1>6, <5>2, ByteWhole
      <4>4. LowShown'
        BY <2>2, <4>1 DEF LowShown
      <4>5. ChipRead'
        BY <1>3, <1>5, <1>7, <2>2, <2>3, <3>1, <4>2, <4>3, <4>4 DEF ChipRead, Same, Chip, Keeps
      <4> QED
        BY <1>1, <2>2, <3>1, <4>5 DEF Same, Keeps, ChipPlace, ChipMode, ChipAddress, ChipDummy,
           ChipWrite
    <3> QED
      BY <2>4, <2>5, <3>3, <3>4
  <2>6. CASE SclkFalls
    <3>0. ~SclkRises /\ eng.sclk /\ ~eng'.sclk
      BY <2>6 DEF SclkRises, SclkFalls
    <3>1. ~LowShown /\ LowShown'
      BY <1>8, <2>2, <2>4, <2>6, <3>0 DEF LowShown
    <3>2. /\ dev'.state = "READ" /\ Keeps /\ dev'.drive = dev.mem[dev.addr][2]
          /\ dev'.half = FALSE /\ dev'.addr = NextAddr(dev.addr)
      BY <1>1, <1>3, <2>2, <2>6, <3>1, ChipShows
    <3>3. dev'.drive = Asked(k)[2] /\ dev'.addr = Place(call.addr, k + 1)
      BY <1>3, <1>6, <2>2, <3>1, <3>2
    <3>4. eng'.in[1] = Asked(k)[1] /\ eng'.done = FALSE
      BY <1>3, <2>4, <2>6, <3>0
    <3>5. ChipRead'
      BY <1>5, <1>7, <2>2, <2>3, <3>1, <3>2, <3>3, <3>4 DEF ChipRead, Keeps
    <3> QED
      BY <1>1, <2>2, <3>2, <3>5 DEF Keeps, ChipPlace, ChipMode, ChipAddress, ChipDummy, ChipWrite
  <2>7. CASE ~SclkRises /\ ~SclkFalls
    <3>1. Same
      BY <1>1, <2>7, ChipStill
    <3>2. ~LowShown /\ ~LowShown' /\ eng'.done = FALSE
      BY <1>8, <2>4, <2>7 DEF LowShown
    <3>3. ~(eng'.txfer = "NIB_TXFER" /\ eng'.cnt = 0)
      BY <2>4, <2>7
    <3>4. ChipRead'
      BY <1>3, <1>5, <1>7, <2>2, <2>3, <3>1, <3>2, <3>3 DEF ChipRead, Same, Chip, Keeps
    <3> QED
      BY <1>1, <2>2, <3>1, <3>4 DEF Same, Keeps, ChipPlace, ChipMode, ChipAddress, ChipDummy,
         ChipWrite
  <2> QED
    BY <2>5, <2>6, <2>7
<1>9. CASE ~ctl.start
  <2>1. ~eng.done
    BY <1>9 DEF EngInv, EngTurn
  <2>2. /\ ~SclkRises /\ ~SclkFalls /\ eng'.txfer = "IDLE" /\ eng'.done = FALSE /\ eng'.in = eng.in
    BY <1>1, <1>9, <2>1, BetweenWords
  <2>3. Same
    BY <1>1, <2>2, ChipStill
  <2>4. ~LowShown /\ ~LowShown'
    BY <1>1, <1>9, <2>2 DEF LowShown
  <2>5. CASE ctl.intra = 0
    <3>1. ctl'.state = "READ_DATA" /\ ctl'.left = ctl.left /\ ctl'.intra = 1
      BY <1>9, <2>5 DEF WordEdge, HeldWord, ReadWord, Goes
    <3>2. BurstLen - ctl'.left + 1 = k
      BY <3>1 DEF k
    <3>3. ChipRead'
      BY <1>3, <1>5, <1>7, <2>2, <2>3, <2>4, <2>5, <3>1, <3>2 DEF ChipRead, Same, Chip, Keeps
    <3> QED
      BY <1>1, <2>3, <3>1, <3>3 DEF Same, Keeps, ChipPlace, ChipMode, ChipAddress, ChipDummy, ChipWrite
  <2>6. CASE ctl.intra = 2 /\ ctl.left # 1
    <3>1. ctl'.state = "READ_DATA" /\ ctl'.left = ctl.left - 1 /\ ctl'.intra = 0
      BY <1>9, <2>6 DEF WordEdge, HeldWord, ReadWord, Goes
    <3>2. BurstLen - ctl'.left + 1 = k + 1
      BY <1>1, <3>1, SizeAssumption DEF k
    <3>3. ChipRead'
      BY <1>3, <1>5, <1>7, <2>2, <2>3, <2>4, <2>6, <3>1, <3>2 DEF ChipRead, Same, Chip, Keeps
    <3> QED
      BY <1>1, <2>3, <3>1, <3>3 DEF Same, Keeps, ChipPlace, ChipMode, ChipAddress, ChipDummy, ChipWrite
  <2>7. CASE ctl.intra = 2 /\ ctl.left = 1
    <3>1. ctl'.state = "DEASSERT_CS"
      BY <1>9, <2>7 DEF WordEdge, HeldWord, ReadWord, Goes
    <3> QED
      BY <1>1, <2>3, <3>1 DEF Same, Keeps, ChipPlace, ChipMode, ChipAddress, ChipDummy, ChipWrite,
         ChipRead
  <2> QED
    BY <1>1, <1>9, <2>5, <2>6, <2>7
<1>10. CASE ctl.start /\ eng.done
  <2>1. /\ ~SclkRises /\ SclkFalls /\ eng'.txfer = "IDLE" /\ eng'.done = FALSE /\ eng'.in = eng.in
    BY <1>1, <1>10, BetweenWords
  <2>2. LowShown /\ eng.in = Asked(k)
    BY <1>1, <1>3, <1>10 DEF LowShown
  <2>3. /\ dev'.state = "READ" /\ Keeps /\ dev'.drive = dev.mem[dev.addr][1]
        /\ dev'.half = TRUE /\ dev'.addr = dev.addr
    BY <1>1, <1>3, <2>1, <2>2, ChipShows
  <2>4. ctl'.state = "READ_DATA" /\ ctl'.left = ctl.left /\ ctl'.intra = 2
    BY <1>10 DEF WordEdge, HeldWord, ReadWord, Goes
  <2>5. BurstLen - ctl'.left + 1 = k
    BY <2>4 DEF k
  <2>6. ~LowShown'
    BY <2>4 DEF LowShown
  <2>7. dev'.drive = Asked(k + 1)[1] /\ dev'.addr = Place(call.addr, k + 1)
    BY <1>3, <1>6, <2>2, <2>3
  <2>8. ChipRead'
    BY <1>5, <1>7, <2>1, <2>2, <2>3, <2>4, <2>5, <2>6, <2>7 DEF ChipRead, Keeps
  <2> QED
    BY <1>1, <2>3, <2>4, <2>8 DEF Keeps, ChipPlace, ChipMode, ChipAddress, ChipDummy, ChipWrite
<1> QED
  BY <1>8, <1>9, <1>10

LEMMA ByteNumber ==
  ASSUME NEW n \in 0 .. BurstLen - 1
  PROVE  n + 1 \in 1 .. BurstLen /\ n + 1 \in Nat \ {0}
BY SizeAssumption

\* One byte more in the chip.
LEMMA OneWritten ==
  ASSUME NEW n \in 0 .. BurstLen - 1, Written(n), dev.mem \in [0 .. MemSize - 1 -> Byte],
         call.addr \in 0 .. MemSize - 1, call.data[n + 1] \in Byte,
         call'.addr = call.addr, call'.data = call.data, call'.before = call.before,
         dev'.mem = [dev.mem EXCEPT ![Place(call.addr, n + 1)] = call.data[n + 1]]
  PROVE  Written(n + 1)' /\ dev'.mem \in [0 .. MemSize - 1 -> Byte]
<1> DEFINE p == Place(call.addr, n + 1)
<1>1. n + 1 \in 1 .. BurstLen /\ n + 1 \in Nat \ {0}
  BY ByteNumber
<1>2. p \in 0 .. MemSize - 1
  BY <1>1, PlaceRange
<1>3. \A i \in 1 .. n : Place(call.addr, i) # p /\ Place(call.addr, i) \in 0 .. MemSize - 1
  <2> TAKE i \in 1 .. n
  <2>1. i \in 1 .. BurstLen /\ i # n + 1 /\ i \in Nat \ {0}
    BY <1>1, SizeAssumption
  <2> QED
    BY <1>1, <2>1, PlacesDiffer, PlaceRange
<1> HIDE DEF p
<1>4. /\ dev'.mem \in [0 .. MemSize - 1 -> Byte] /\ dev'.mem[p] = call.data[n + 1]
      /\ \A a \in 0 .. MemSize - 1 : a # p => dev'.mem[a] = dev.mem[a]
  BY <1>2 DEF p
<1>5. \A i \in 1 .. n + 1 : dev'.mem[Place(call.addr, i)] = call.data[i]
  <2> TAKE i \in 1 .. n + 1
  <2>1. CASE i = n + 1
    BY <1>4, <2>1 DEF p
  <2>2. CASE i # n + 1
    <3>1. i \in 1 .. n
      BY <2>2
    <3> QED
      BY <1>3, <1>4, <3>1 DEF Written
  <2> QED
    BY <2>1, <2>2
<1>6. ASSUME NEW a \in 0 .. MemSize - 1, a \notin {Place(call.addr, i) : i \in 1 .. n + 1}
      PROVE  dev'.mem[a] = call.before[a]
  <2>1. a # p
    BY <1>1, <1>6 DEF p
  <2>2. a \notin {Place(call.addr, i) : i \in 1 .. n}
    <3>1. \A i \in 1 .. n : i \in 1 .. n + 1
      OBVIOUS
    <3> QED
      BY <1>6, <3>1
  <2> QED
    BY <1>4, <2>1, <2>2 DEF Written
<1> QED
  BY <1>4, <1>5, <1>6 DEF Written

LEMMA WrittenKept ==
  ASSUME NEW n, Written(n), dev'.mem = dev.mem,
         call'.addr = call.addr, call'.data = call.data, call'.before = call.before
  PROVE  Written(n)'
BY DEF Written

\* One byte of a write: the chip stores it with its second nibble.
LEMMA WritePlace ==
  ASSUME Clock, ctl.state = "WRITE_DATA"
  PROVE  /\ ChipPlace' /\ dev'.mem \in [0 .. MemSize - 1 -> Byte]
         /\ ctl'.state # "WRITE_DATA" =>
              Written(BurstLen)' /\ call'.sent = BurstLen - Pending(ctl'.received)
<1>r. ctl.addr \in 0 .. MemSize - 1 /\ call.addr = ctl.addr /\ call.busy /\ ~Ended
      /\ call.addr \in 0 .. MemSize - 1 /\ call.cmd = ctl.cmd
  <2>1. WordInv /\ ctl.state \in InBurst
    BY DEF Clock, InBurst, Transfers
  <2> QED
    BY <2>1, Requested
<1> USE DEF Clock, BInv, WordInv
<1>1. /\ CtlInv /\ CtlInv' /\ EngInv /\ EngWord /\ DevType /\ dev.qpi = TRUE
      /\ ~ctl.cs /\ ~CsFalls /\ ~CsRises /\ ctl.op_en /\ ctl.quad = TRUE
      /\ ctl.left \in 1 .. BurstLen /\ ctl.intra \in 0 .. 2 /\ (ctl.start <=> ctl.intra = 1)
  <2>1. ~ctl.cs /\ ~CsFalls /\ ~CsRises
    BY StaysSelected DEF Transfers
  <2>2. dev.qpi = TRUE
    BY DEF ChipMode, DevInv, DevType
  <2> QED
    BY <2>1, <2>2 DEF DevInv, CtlInv, CtlType, CtlStart, CtlLines, Waiting, Transfers, CtlWord, CtlCount
<1>n. PICK n \in 0 .. BurstLen - 1 : n = BurstLen - ctl.left
  BY <1>1, SizeAssumption
<1>2. n \in 0 .. BurstLen - 1 /\ n + 1 \in 1 .. BurstLen
  BY SizeAssumption
<1>3. /\ ctl.intra = 1 => ctl.byte = call.data[n + 1]
      /\ dev.state = "WRITE" /\ dev.addr = Place(call.addr, BytesIn + 1)
      /\ dev.half = (Rises = 1) /\ (dev.half => dev.hi = ctl.byte[1])
      /\ Written(BytesIn)
      /\ call.sent = n - Pending(ctl.received)
  BY <1>n DEF ChipWrite
<1>4. dev.mem \in [0 .. MemSize - 1 -> Byte]
  BY DEF CallMoved
<1>5. Served /\ call.data[n + 1] \in Byte
  <2>1. call.data \in WriteData
    BY <1>r DEF CallRequest, CtlInv, CtlData
  <2> QED
    BY <1>r, <1>2, <2>1, CallerServed, DataAssumption
<1>6. ctl.received \in BOOLEAN /\ (ctl.received => ctl.intra = 2) /\ ctl'.received \in BOOLEAN
  BY DEF CtlWord, CtlStrobes
<1>7. CASE ctl.start /\ ~eng.done
  <2>1. HeldWord
    BY <1>7, WordHeld
  <2>2. /\ ctl'.state = "WRITE_DATA" /\ ctl'.left = ctl.left /\ ctl'.intra = 1 /\ ctl.intra = 1
        /\ ctl'.byte = ctl.byte /\ ctl'.received = FALSE /\ ctl'.op_en /\ ctl.received = FALSE
    BY <1>1, <1>6, <1>7, <2>1 DEF HeldWord, Goes, Quiet
  <2>3. BurstLen - ctl'.left = n /\ call'.sent = n /\ Pending(ctl'.received) = 0
    BY <1>2, <1>3, <1>5, <2>2, <1>n DEF Served, Pending
  <2>4. /\ SclkRises => /\ Rises \in {0, 1} /\ Rises' = Rises + 1
                        /\ eng'.so = ctl.byte[1 + Rises]
        /\ ~SclkRises => Rises' = Rises
    BY <1>1, <1>7, WithinByte, NibbleSent
  <2>5. CASE SclkRises /\ Rises = 0
    <3>1. Sampled(eng'.so) /\ eng'.so = ctl.byte[1]
      BY <1>1, <2>2, <2>4, <2>5, ChipSamples
    <3> HIDE DEF Clock
    <3>2. ~dev.half /\ BytesIn = n /\ BytesIn' = n /\ Rises' = 1
      <4>1. Rises' = 1
        BY <2>4, <2>5
      <4>2. BytesIn = n + 0 /\ BytesIn' = n + 0
        BY <2>3, <2>5, <4>1, <1>n DEF BytesIn
      <4>3. Rises # 1
        BY <2>5
      <4>4. ~dev.half
        BY <1>3, <4>3
      <4> QED
        BY <1>2, <4>1, <4>2, <4>4
    <3>3. /\ dev'.state = "WRITE" /\ dev'.qpi = TRUE
          /\ dev'.mem = dev.mem /\ dev'.hi = ctl.byte[1] /\ dev'.half = TRUE /\ dev'.addr = dev.addr
      BY <1>1, <1>3, <3>1, <3>2, SampledWrite
    <3>4. Written(n)'
      BY <1>3, <1>5, <3>2, <3>3, WrittenKept DEF Served
    <3>5. ChipWrite'
      BY <1>3, <1>5, <2>2, <2>3, <3>2, <3>3, <3>4 DEF ChipWrite, Served
    <3> QED
      BY <1>4, <2>2, <3>3, <3>5 DEF ChipPlace, ChipMode, ChipAddress, ChipDummy, ChipRead
  <2>6. CASE SclkRises /\ Rises = 1
    <3>1. Sampled(eng'.so) /\ eng'.so = ctl.byte[2]
      BY <1>1, <2>2, <2>4, <2>6, ChipSamples
    <3> HIDE DEF Clock
    <3>2. dev.half /\ dev.hi = ctl.byte[1] /\ BytesIn = n /\ BytesIn' = n + 1 /\ Rises' = 2
      <4>1. Rises' = 2
        BY <2>4, <2>6
      <4>2. BytesIn = n + 0 /\ BytesIn' = n + 1
        BY <2>3, <2>6, <4>1, <1>n DEF BytesIn
      <4>3. dev.half
        BY <1>3, <2>6
      <4> QED
        BY <1>2, <1>3, <4>1, <4>2, <4>3
    <3>3. /\ dev'.state = "WRITE" /\ dev'.qpi = TRUE
          /\ dev'.mem = [dev.mem EXCEPT ![dev.addr] = <<dev.hi, eng'.so>>]
          /\ dev'.half = FALSE /\ dev'.addr = NextAddr(dev.addr)
      BY <1>1, <1>3, <3>1, <3>2, SampledWrite
    <3>4. <<dev.hi, eng'.so>> = call.data[n + 1]
      <4>1. ctl.byte \in Byte /\ ctl.byte = call.data[n + 1]
        BY <1>3, <1>5, <2>2
      <4> QED
        BY <3>1, <3>2, <4>1 DEF Byte
    <3>5. Written(n + 1)' /\ dev'.mem \in [0 .. MemSize - 1 -> Byte]
      <4>1. dev'.mem = [dev.mem EXCEPT ![Place(call.addr, n + 1)] = call.data[n + 1]]
        BY <1>3, <3>2, <3>3, <3>4
      <4> QED
        BY <1>r, <1>2, <1>3, <1>4, <1>5, <3>2, <4>1, OneWritten DEF Served
    <3>6. dev'.addr = Place(call'.addr, (n + 1) + 1)
      <4>1. n + 1 \in Nat \ {0}
        BY <1>2
      <4> QED
        BY <1>r, <1>3, <1>5, <3>2, <3>3, <4>1, PlaceNext DEF Served
    <3>7. ChipWrite'
      <4>1. dev'.half = (Rises' = 1)
        <5>1. Rises' # 1
          BY <3>2
        <5> QED
          BY <3>3, <5>1
      <4> QED
        BY <1>3, <1>5, <2>2, <2>3, <3>2, <3>3, <3>5, <3>6, <4>1 DEF ChipWrite, Served
    <3> QED
      BY <2>2, <3>3, <3>5, <3>7 DEF ChipPlace, ChipMode, ChipAddress, ChipDummy, ChipRead
  <2>7. CASE ~SclkRises
    <3>1. Same
      BY <1>1, <1>3, <2>7, ChipStill
    <3>2. Rises' = Rises /\ BytesIn' = BytesIn
      BY <2>2, <2>4, <2>7 DEF BytesIn
    <3>3. Written(BytesIn)' 
      <4>1. Written(BytesIn') <=> Written(BytesIn)
        BY <3>2
      <4> QED
        BY <1>3, <1>5, <3>1, <3>2 DEF Same, Keeps, Served, Written
    <3>4. ChipWrite'
      BY <1>3, <1>5, <2>2, <2>3, <3>1, <3>2, <3>3 DEF ChipWrite, Served, Same, Chip
    <3> QED
      BY <1>1, <1>4, <2>2, <3>1, <3>4 DEF Same, Keeps, ChipPlace, ChipMode, ChipAddress, ChipDummy,
         ChipRead
  <2> QED
    BY <2>4, <2>5, <2>6, <2>7
<1>8. CASE ~ctl.start \/ eng.done
  <2>1. ~SclkRises /\ Rises' = 0
    BY <1>1, <1>8, BetweenWords
  <2>2. Same
    BY <1>1, <1>3, <2>1, ChipStill
  <2>3. CASE ~ctl.start
    <3>1. Rises = 0 /\ BytesIn = n
      BY <1>1, <1>2, <2>3, <1>n DEF Rises, EngInv, EngTurn, EngType, BytesIn
    <3>2. /\ ctl'.state = "WRITE_DATA" /\ ctl'.left = ctl.left /\ ctl'.received = FALSE
          /\ \/ ctl.intra = 0 /\ ctl'.intra = 1 /\ ctl'.byte = InByte
             \/ ctl.intra = 2 /\ ctl'.intra = 0
      BY <2>3 DEF WordEdge, HeldWord, WriteWord, Goes
    <3> HIDE DEF Clock
    <3>3. BurstLen - ctl'.left = n /\ BytesIn' = n
      BY <1>2, <2>1, <3>2, <1>n DEF BytesIn
    <3>4. ctl'.intra = 1 => ctl'.byte = call'.data[n + 1]
      <4>1. ctl.intra = 0 => call.sent = n
        BY <1>2, <1>3, <1>6 DEF Pending
      <4>2. ctl'.intra = 1 => ctl.intra = 0 /\ ctl'.byte = InByte
        BY <3>2
      <4>3. call.sent = n => InByte = call.data[n + 1]
        BY <1>2, SizeAssumption DEF InByte
      <4> QED
        BY <1>5, <4>1, <4>2, <4>3 DEF Served
    <3>5. call'.sent = n
      BY <1>2, <1>3, <1>5, <1>6 DEF Served, Pending
    <3>6. Written(n)'
      BY <1>3, <1>5, <2>2, <3>1, WrittenKept DEF Served, Same, Keeps
    <3>7. /\ dev'.half = (Rises' = 1) /\ dev'.half = FALSE
          /\ dev'.state = "WRITE" /\ dev'.addr = Place(call'.addr, n + 1)
      <4>1. Rises # 1 /\ Rises' # 1
        BY <2>1, <3>1
      <4>2. dev.half = FALSE
        BY <1>3, <4>1
      <4> QED
        BY <1>3, <1>5, <2>2, <3>1, <4>1, <4>2 DEF Served, Same, Chip
    <3>8. ChipWrite'
      <4>1. call'.sent = BurstLen - ctl'.left - Pending(ctl'.received)
        BY <1>2, <3>2, <3>3, <3>5 DEF Pending
      <4> QED
        BY <1>2, <2>1, <3>2, <3>3, <3>4, <3>6, <3>7, <4>1 DEF ChipWrite
    <3> QED
      BY <1>1, <1>4, <2>2, <3>2, <3>8 DEF Same, Keeps, ChipPlace, ChipMode, ChipAddress, ChipDummy,
         ChipRead
  <2>4. CASE ctl.start /\ eng.done
    <3>1. Rises = 2 /\ BytesIn = n + 1
      BY <2>4, <1>n DEF Rises, BytesIn
    <3>2. ctl.received = FALSE /\ ctl.intra = 1 /\ ctl'.received = TRUE
      BY <1>1, <1>6, <2>4 DEF WordEdge, HeldWord, WriteWord
    <3>3. call'.sent = n
      BY <1>2, <1>3, <1>5, <3>2 DEF Served, Pending
    <3>4. Written(n + 1)'
      BY <1>3, <1>5, <2>2, <3>1, WrittenKept DEF Served, Same, Keeps
    <3>5. CASE ctl.left # 1
      <4>1. ctl'.state = "WRITE_DATA" /\ ctl'.left = ctl.left - 1 /\ ctl'.intra = 2
        BY <2>4, <3>5 DEF WordEdge, HeldWord, WriteWord, Goes
      <4>2. BurstLen - ctl'.left = n + 1 /\ BytesIn' = n + 1
        BY <1>1, <1>2, <2>1, <4>1, SizeAssumption, <1>n DEF BytesIn
      <4>3. /\ dev'.half = (Rises' = 1) /\ dev'.half = FALSE
            /\ dev'.state = "WRITE" /\ dev'.addr = Place(call'.addr, (n + 1) + 1)
        <5>1. Rises # 1 /\ Rises' # 1
          BY <2>1, <3>1
        <5>2. dev.half = FALSE
          BY <1>3, <5>1
        <5> QED
          BY <1>3, <1>5, <2>2, <3>1, <5>1, <5>2 DEF Served, Same, Chip
      <4>4. ChipWrite'
        <5>1. call'.sent = BurstLen - ctl'.left - Pending(ctl'.received)
          BY <1>2, <3>2, <3>3, <4>2 DEF Pending
        <5> QED
          BY <1>2, <2>1, <3>4, <4>1, <4>2, <4>3, <5>1 DEF ChipWrite
      <4> QED
        BY <1>1, <1>4, <2>2, <4>1, <4>4 DEF Same, Keeps, ChipPlace, ChipMode, ChipAddress, ChipDummy,
           ChipRead
    <3>6. CASE ctl.left = 1
      <4>1. ctl'.state = "DEASSERT_CS"
        BY <2>4, <3>6 DEF WordEdge, HeldWord, WriteWord, Goes
      <4>2. n + 1 = BurstLen
        BY <3>6, SizeAssumption, <1>n
      <4>3. Written(BurstLen)'
        <5>1. \A i \in 1 .. n + 1 : i \in 1 .. BurstLen
          BY <4>2
        <5> QED
          BY <3>4, <4>2 DEF Written
      <4>4. call'.sent = BurstLen - Pending(ctl'.received)
        BY <1>2, <3>2, <3>3, <4>2 DEF Pending
      <4> QED
        BY <1>1, <1>4, <2>2, <4>1, <4>3, <4>4 DEF Same, Keeps, ChipPlace, ChipMode, ChipAddress,
           ChipDummy, ChipRead, ChipWrite
    <3> QED
      BY <3>5, <3>6
  <2> QED
    BY <1>8, <2>3, <2>4
<1> QED
  BY <1>7, <1>8

-----------------------------------------------------------------------------
(* The caller's side of one edge.                                            *)

Rests == ~call.busy /\ call' = call
Asks ==
  /\ ~call.busy /\ ~ctl.busy /\ call'.busy = TRUE /\ call'.start = TRUE /\ call'.addr \in Starts
  /\ call'.cmd = WriteQuad => call'.data \in WriteData
  /\ call'.sent = 0 /\ call'.got = <<>> /\ call'.before = dev.mem
Leaves == Ended /\ call'.busy = FALSE /\ call'.start = FALSE

LEMMA CallerMoves ==
  ASSUME CallInv, Caller
  PROVE  Rests \/ Asks \/ (call.busy /\ ~Ended /\ Served) \/ Leaves
<1>1. CASE ~call.busy /\ UNCHANGED call
  BY <1>1 DEF Rests
<1>2. CASE ~call.busy /\ ~ctl.busy /\ \E addr \in Starts :
             \/ call' = Calling(ReadQuad, addr, NoCall.data)
             \/ \E data \in WriteData : call' = Calling(WriteQuad, addr, data)
  <2>1. PICK addr \in Starts :
          \/ call' = Calling(ReadQuad, addr, NoCall.data)
          \/ \E data \in WriteData : call' = Calling(WriteQuad, addr, data)
    BY <1>2
  <2>2. CASE call' = Calling(ReadQuad, addr, NoCall.data)
    <3>1. ReadQuad # WriteQuad
      BY DEF ReadQuad, WriteQuad
    <3> QED
      BY <1>2, <2>2, <3>1 DEF Asks, Calling, NoCall
  <2>3. CASE \E data \in WriteData : call' = Calling(WriteQuad, addr, data)
    <3>1. PICK data \in WriteData : call' = Calling(WriteQuad, addr, data)
      BY <2>3
    <3> QED
      BY <1>2, <3>1 DEF Asks, Calling, NoCall
  <2> QED
    BY <2>1, <2>2, <2>3
<1>3. CASE call.busy /\ ~Ended
  BY <1>3, CallerServed
<1>4. CASE Ended /\ call' = NoCall
  BY <1>4 DEF Leaves, NoCall
<1> QED
  BY <1>1, <1>2, <1>3, <1>4 DEF Caller

\* Which states follow which, and what a burst keeps.
LEMMA StateMoves ==
  ASSUME CtlInv, CtlStrobes, NEW s, NEW c, NEW a, NEW b, WordEdge(s, c, a, b)
  PROVE  /\ ctl.state = "STARTUP" => ctl'.state \in {"STARTUP", "IDLE"}
         /\ ctl.state = "IDLE" =>
              /\ s => ctl'.state = "ASSERT_CS" /\ ctl'.cmd = c /\ ctl'.addr = a
              /\ ~s => ctl'.state = "IDLE"
         /\ ctl.state \in InBurst =>
              \/ ctl'.state = "IDLE" /\ ctl.state = "DEASSERT_CS"
              \/ ctl'.state \in InBurst /\ ctl'.cmd = ctl.cmd /\ ctl'.addr = ctl.addr
         /\ ctl.state \in InBurst \cup {"IDLE", "STARTUP"}
<1>1. CASE HeldWord
  BY <1>1 DEF HeldWord, Goes, Serves, CtlInv, CtlType, CtlStates, CtlStart, Waiting, InBurst,
     Transfers
<1>2. CASE ~HeldWord
  BY <1>2 DEF WordEdge, StartupWord, IdleWord, CommandWord, AddressWord, DummyWord, WriteWord,
     ReadWord, EndWord, Goes, Serves, InBurst, Transfers, CtlInv, CtlType, CtlStates
<1> QED
  BY <1>1, <1>2

\* The request stands while its burst runs.
LEMMA RequestKept ==
  ASSUME Clock
  PROVE  CallRequest'
<1>1. /\ CtlInv /\ CtlStrobes /\ CallInv /\ CallRequest /\ Caller
      /\ WordEdge(call.start, call.cmd, call.addr, InByte)
      /\ dev.mem \in [0 .. MemSize - 1 -> Byte]
  BY DEF Clock, BInv, WordInv, CtlWord, CallMoved
<1>2. /\ ctl.state = "STARTUP" => ctl'.state \in {"STARTUP", "IDLE"}
      /\ ctl.state = "IDLE" =>
           /\ call.start => ctl'.state = "ASSERT_CS" /\ ctl'.cmd = call.cmd /\ ctl'.addr = call.addr
           /\ ~call.start => ctl'.state = "IDLE"
      /\ ctl.state \in InBurst =>
           \/ ctl'.state = "IDLE" /\ ctl.state = "DEASSERT_CS"
           \/ ctl'.state \in InBurst /\ ctl'.cmd = ctl.cmd /\ ctl'.addr = ctl.addr
      /\ ctl.state \in InBurst \cup {"IDLE", "STARTUP"}
  BY <1>1, StateMoves
<1>3. ctl.busy <=> ctl.state # "IDLE"
  BY <1>1 DEF CtlStrobes
<1>4. CASE Rests
  BY <1>1, <1>2, <1>4 DEF Rests, CallRequest, InBurst, Transfers
<1>5. CASE Asks
  <2>1. ctl.state = "IDLE" /\ ~call.start
    BY <1>1, <1>3, <1>5 DEF Asks, CallRequest
  <2>2. ctl'.state = "IDLE"
    BY <1>2, <2>1
  <2> QED
    BY <1>1, <1>5, <2>2 DEF Asks, CallRequest, InBurst, Transfers
<1>6. CASE call.busy /\ ~Ended /\ Served
  <2>1. ctl.state # "STARTUP" /\ (ctl.state = "IDLE" => call.start)
    BY <1>1, <1>3, <1>6 DEF CallRequest, Ended
  <2> QED
    BY <1>1, <1>2, <1>6, <2>1 DEF Served, CallRequest, InBurst, Transfers
<1>7. CASE Leaves
  <2>1. ctl.state = "IDLE" /\ ~call.start
    BY <1>3, <1>7 DEF Leaves, Ended
  <2> QED
    BY <1>2, <1>7, <2>1 DEF Leaves, CallRequest, InBurst, Transfers
<1> QED
  BY <1>1, <1>4, <1>5, <1>6, <1>7, CallerMoves

\* A byte handed over joins those collected.
LEMMA AskedExtended ==
  ASSUME NEW n \in Nat
  PROVE  Append([i \in 1 .. n |-> Asked(i)], Asked(n + 1)) = [i \in 1 .. n + 1 |-> Asked(i)]
<1> DEFINE f == [i \in Nat |-> Asked(i)]
<1>1. /\ [i \in 1 .. n |-> f[i]] = [i \in 1 .. n |-> Asked(i)]
      /\ [i \in 1 .. n + 1 |-> f[i]] = [i \in 1 .. n + 1 |-> Asked(i)]
  OBVIOUS
<1>2. f[n + 1] = Asked(n + 1)
  OBVIOUS
<1> HIDE DEF f
<1> QED
  BY <1>1, <1>2, Extended

LEMMA CollectedSoFar ==
  ASSUME NEW n \in Nat, Collected(n), Served, ctl.ready \in BOOLEAN, dev'.mem = dev.mem
  PROVE  /\ call'.got = [i \in 1 .. n |-> Asked(i)]
         /\ \A i \in Nat : Asked(i)' = Asked(i)
<1>1. \A i \in Nat : Asked(i)' = Asked(i)
  BY DEF Asked, Served
<1>2. CASE ctl.ready
  <2>1. n >= 1 /\ n - 1 \in Nat /\ (n - 1) + 1 = n
    BY <1>2 DEF Collected
  <2>2. call.got = [i \in 1 .. n - 1 |-> Asked(i)] /\ ctl.out = Asked(n)
    BY <1>2 DEF Collected, Pending
  <2>3. call'.got = Append(call.got, ctl.out)
    BY <1>2 DEF Served
  <2>4. Append([i \in 1 .. n - 1 |-> Asked(i)], Asked((n - 1) + 1)) = [i \in 1 .. (n - 1) + 1 |-> Asked(i)]
    BY <2>1, AskedExtended
  <2> QED
    BY <1>1, <2>1, <2>2, <2>3, <2>4
<1>3. CASE ~ctl.ready
  BY <1>1, <1>3 DEF Collected, Pending, Served
<1> QED
  BY <1>2, <1>3

LEMMA CollectedKept ==
  ASSUME NEW n \in Nat, call'.got = [i \in 1 .. n |-> Asked(i)],
         \A i \in Nat : Asked(i)' = Asked(i)
  PROVE  /\ ctl'.ready = FALSE => Collected(n)'
         /\ ctl'.ready = TRUE /\ ctl'.out = Asked(n + 1) => Collected(n + 1)'
<1>1. call'.got = [i \in 1 .. n |-> Asked(i)']
  OBVIOUS
<1>2. n - 0 = n /\ (n + 1) - 1 = n /\ n + 1 >= 1 /\ n + 1 \in Nat
  OBVIOUS
<1>3. CASE ctl'.ready = FALSE
  BY <1>1, <1>2, <1>3 DEF Collected, Pending
<1>4. CASE ctl'.ready = TRUE
  BY <1>1, <1>2, <1>4 DEF Collected, Pending
<1> QED
  BY <1>3, <1>4

\* The chip at every edge: where it stands, and what its memory may have become.
LEMMA ChipStep ==
  ASSUME Clock
  PROVE  /\ ChipPlace' /\ dev'.mem \in [0 .. MemSize - 1 -> Byte]
         /\ ctl.state # "WRITE_DATA" => dev'.mem = dev.mem
         /\ ctl.state = "WRITE_DATA" /\ ctl'.state # "WRITE_DATA" =>
              Written(BurstLen)' /\ call'.sent = BurstLen - Pending(ctl'.received)
<1>1. /\ ctl.state \in InBurst \cup {"IDLE", "STARTUP"}
      /\ ctl.state = "STARTUP" => ctl'.state \in {"STARTUP", "IDLE"}
  BY StateMoves DEF Clock, BInv, WordInv, CtlWord
<1>2. dev.mem \in [0 .. MemSize - 1 -> Byte]
  BY DEF Clock, WordInv, CallMoved
<1>3. CASE ctl.state = "STARTUP"
  <2>1. ChipMode' /\ dev'.mem = dev.mem
    BY <1>3, StartupMode
  <2> QED
    BY <1>1, <1>2, <1>3, <2>1 DEF ChipPlace, ChipAddress, ChipDummy, ChipWrite, ChipRead
<1>4. CASE ctl.state \in {"IDLE", "ASSERT_CS", "DEASSERT_CS"}
  BY <1>2, <1>4, BetweenBursts
<1>5. CASE ctl.state = "SEND_COMMAND"
  BY <1>2, <1>5, CommandPlace
<1>6. CASE ctl.state = "SEND_ADDRESS"
  BY <1>2, <1>6, AddressPlace
<1>7. CASE ctl.state = "DUMMY_CYCLES"
  BY <1>2, <1>7, DummyPlace
<1>8. CASE ctl.state = "READ_DATA"
  BY <1>2, <1>8, ReadPlace
<1>9. CASE ctl.state = "WRITE_DATA"
  BY <1>9, WritePlace
<1> QED
  BY <1>1, <1>3, <1>4, <1>5, <1>6, <1>7, <1>8, <1>9 DEF InBurst, Transfers

\* No state but IDLE lets a burst end.
LEMMA NotEnded ==
  ASSUME CtlStrobes', ctl'.state # "IDLE"
  PROVE  ~Ended'
BY DEF CtlStrobes, Ended

\* What has been moved when a burst's data begins.
LEMMA OpeningMoved ==
  ASSUME Clock, Served, ~Ended, dev'.mem = dev.mem, dev'.mem \in [0 .. MemSize - 1 -> Byte],
         (ctl.state = "IDLE" /\ call.start) \/ ctl.state \in Opening
  PROVE  CallMoved'
<1>1. /\ CtlInv /\ CtlStrobes /\ CtlStrobes' /\ CallMoved
      /\ WordEdge(call.start, call.cmd, call.addr, InByte)
  BY DEF Clock, BInv, WordInv, CtlWord
<1>2. /\ ctl.received = FALSE /\ ctl.ready = FALSE
      /\ call.sent = 0 /\ call.got = <<>> /\ dev.mem = call.before
  BY <1>1 DEF CtlStrobes, CallMoved, Opening
<1>3. /\ call'.sent = 0 /\ call'.got = <<>> /\ dev'.mem = call'.before /\ call'.start = FALSE
  BY <1>2 DEF Served
<1>4. /\ ctl'.state \in Opening \cup {"READ_DATA", "WRITE_DATA"}
      /\ ctl'.state = "READ_DATA" => ctl'.left = BurstLen /\ ctl'.ready = FALSE
  <2>1. CASE HeldWord
    BY <1>1, <2>1 DEF HeldWord, Goes, CtlInv, CtlStart, Waiting, Opening, Transfers
  <2>2. CASE ~HeldWord
    BY <1>1, <2>2 DEF WordEdge, IdleWord, CommandWord, AddressWord, DummyWord, Goes, Quiet, Opening
  <2> QED
    BY <2>1, <2>2
<1>5. ctl'.state = "READ_DATA" => Collected(BurstLen - ctl.left)'
  <2> SUFFICES ASSUME ctl'.state = "READ_DATA" PROVE Collected(BurstLen - ctl.left)'
    OBVIOUS
  <2>1. BurstLen - ctl'.left = 0 /\ Pending(ctl'.ready) = 0
    BY <1>4, SizeAssumption DEF Pending
  <2>2. [i \in 1 .. 0 - 0 |-> Asked(i)'] = <<>>
    OBVIOUS
  <2> QED
    BY <1>3, <1>4, <2>1, <2>2 DEF Collected
<1>6. ~Ended' /\ ctl'.state # "DEASSERT_CS"
  BY <1>1, <1>4, NotEnded DEF Opening
<1> QED
  BY <1>3, <1>5, <1>6 DEF CallMoved

\* What has been moved while a read's data is.
LEMMA ReadMoved ==
  ASSUME Clock, Served, dev'.mem = dev.mem, dev'.mem \in [0 .. MemSize - 1 -> Byte],
         ctl.state = "READ_DATA", call.cmd = ctl.cmd, call.addr \in 0 .. MemSize - 1
  PROVE  CallMoved'
<1>1. /\ CtlInv /\ CtlStrobes /\ CtlStrobes' /\ CallMoved /\ ctl.ready \in BOOLEAN
      /\ WordEdge(call.start, call.cmd, call.addr, InByte)
      /\ ctl.left \in 1 .. BurstLen /\ ctl.cmd = ReadQuad
      /\ ctl.intra = 2 => eng.in = Asked(BurstLen - ctl.left + 1)
  BY DEF Clock, BInv, WordInv, CtlWord, CtlStrobes, CtlCount, ChipRead
<1>n. PICK n \in 0 .. BurstLen - 1 : n = BurstLen - ctl.left
  BY <1>1, SizeAssumption
<1>2. n \in Nat /\ Collected(n) /\ dev.mem = call.before
  BY <1>1, <1>n, SizeAssumption DEF CallMoved
<1>3. call'.got = [i \in 1 .. n |-> Asked(i)] /\ \A i \in Nat : Asked(i)' = Asked(i)
  BY <1>1, <1>2, CollectedSoFar
<1>4. /\ ctl'.ready = FALSE => Collected(n)'
      /\ ctl'.ready = TRUE /\ ctl'.out = Asked(n + 1) => Collected(n + 1)'
  BY <1>2, <1>3, CollectedKept
<1>5. call'.cmd # WriteQuad /\ dev'.mem = call'.before /\ call'.start = FALSE
  BY <1>1, <1>2 DEF Served, ReadQuad, WriteQuad
<1>6. \/ ctl'.state = "READ_DATA" /\ ctl'.left = ctl.left /\ ctl'.ready = FALSE
      \/ ctl'.state = "READ_DATA" /\ ctl'.left = ctl.left - 1 /\ ctl'.ready = TRUE /\ ctl.intra = 2
         /\ ctl'.out = eng.in
      \/ ctl'.state = "DEASSERT_CS" /\ ctl.left = 1 /\ ctl'.ready = TRUE /\ ctl.intra = 2
         /\ ctl'.out = eng.in
  BY <1>1 DEF WordEdge, HeldWord, ReadWord, Goes, Quiet
<1>7. CASE ctl'.state = "READ_DATA" /\ ctl'.left = ctl.left /\ ctl'.ready = FALSE
  <2>1. Collected(BurstLen - ctl.left)'
    <3>1. BurstLen - ctl'.left = n
      BY <1>n, <1>7
    <3> QED
      BY <1>4, <1>7, <3>1 DEF Collected
  <2> QED
    BY <1>1, <1>5, <1>7, <2>1, NotEnded DEF CallMoved, Opening
<1>8. CASE ctl'.state = "READ_DATA" /\ ctl'.left = ctl.left - 1 /\ ctl'.ready = TRUE
           /\ ctl.intra = 2 /\ ctl'.out = eng.in
  <2>1. Collected(BurstLen - ctl.left)'
    <3>1. BurstLen - ctl'.left = n + 1
      BY <1>1, <1>n, <1>8, SizeAssumption
    <3>2. Collected(n + 1)'
      BY <1>1, <1>n, <1>4, <1>8
    <3> QED
      BY <3>1, <3>2 DEF Collected
  <2> QED
    BY <1>1, <1>5, <1>8, <2>1, NotEnded DEF CallMoved, Opening
<1>9. CASE ctl'.state = "DEASSERT_CS" /\ ctl.left = 1 /\ ctl'.ready = TRUE
           /\ ctl.intra = 2 /\ ctl'.out = eng.in
  <2>1. Collected(BurstLen)'
    <3>1. BurstLen = n + 1
      BY <1>n, <1>9, SizeAssumption
    <3>2. Collected(n + 1)'
      BY <1>1, <1>n, <1>4, <1>9
    <3> QED
      BY <3>1, <3>2 DEF Collected
  <2> QED
    BY <1>1, <1>5, <1>9, <2>1, NotEnded DEF CallMoved, Opening
<1> QED
  BY <1>6, <1>7, <1>8, <1>9

\* The bytes counted while CS# goes up: the last strobe is answered.
LEMMA ClosingMoved ==
  ASSUME Clock, Served, dev'.mem = dev.mem, dev'.mem \in [0 .. MemSize - 1 -> Byte],
         ctl.state = "DEASSERT_CS"
  PROVE  CallMoved'
<1>1. /\ CtlInv /\ CtlStrobes /\ CallMoved /\ ctl.ready \in BOOLEAN /\ ctl.received \in BOOLEAN
      /\ WordEdge(call.start, call.cmd, call.addr, InByte)
  BY DEF Clock, BInv, WordInv, CtlWord, CtlStrobes
<1>2. /\ ctl'.received = FALSE /\ ctl'.ready = FALSE /\ ctl'.state \in {"IDLE", "DEASSERT_CS"}
      /\ call'.start = FALSE /\ call'.cmd = call.cmd
  BY <1>1 DEF WordEdge, HeldWord, EndWord, Quiet, Goes, Served
<1>3. CASE call.cmd = WriteQuad
  <2>1. Written(BurstLen) /\ call.sent = BurstLen - Pending(ctl.received)
    BY <1>1, <1>3 DEF CallMoved
  <2>2. call'.sent = BurstLen - Pending(ctl'.received)
    BY <1>1, <1>2, <2>1, SizeAssumption DEF Served, Pending
  <2>3. Written(BurstLen)'
    BY <2>1 DEF Written, Served
  <2> QED
    BY <1>2, <1>3, <2>2, <2>3 DEF CallMoved, Opening
<1>4. CASE call.cmd # WriteQuad
  <2>1. dev.mem = call.before /\ Collected(BurstLen) /\ BurstLen \in Nat
    BY <1>1, <1>4, SizeAssumption DEF CallMoved
  <2>2. Collected(BurstLen)'
    BY <1>1, <1>2, <2>1, CollectedSoFar, CollectedKept
  <2> QED
    BY <1>2, <1>4, <2>1, <2>2 DEF CallMoved, Opening, Served
<1> QED
  BY <1>3, <1>4

\* The caller's count and the chip's memory agree with the controller's state.
LEMMA MovedKept ==
  ASSUME Clock
  PROVE  CallMoved'
<1>1. /\ dev'.mem \in [0 .. MemSize - 1 -> Byte]
      /\ ctl.state # "WRITE_DATA" => dev'.mem = dev.mem
      /\ ctl.state = "WRITE_DATA" /\ ctl'.state # "WRITE_DATA" =>
           Written(BurstLen)' /\ call'.sent = BurstLen - Pending(ctl'.received)
  BY ChipStep
<1>2. /\ CtlInv /\ CtlStrobes /\ CtlStrobes' /\ CallInv /\ CallRequest /\ Caller /\ WordInv
      /\ WordEdge(call.start, call.cmd, call.addr, InByte)
  BY DEF Clock, BInv, WordInv, CtlWord
<1>3. /\ ctl.state = "STARTUP" => ctl'.state \in {"STARTUP", "IDLE"}
      /\ ctl.state = "IDLE" => (~call.start => ctl'.state = "IDLE")
      /\ ctl.state \in InBurst =>
           \/ ctl'.state = "IDLE" /\ ctl.state = "DEASSERT_CS"
           \/ ctl'.state \in InBurst /\ ctl'.cmd = ctl.cmd /\ ctl'.addr = ctl.addr
      /\ ctl.state \in InBurst \cup {"IDLE", "STARTUP"}
  BY <1>2, StateMoves
<1>4. ctl.busy <=> ctl.state # "IDLE"
  BY <1>2 DEF CtlStrobes
<1>5. CASE ~call.busy \/ Ended
  <2>1. ctl.state \in {"IDLE", "STARTUP"} /\ ~call.start
    BY <1>2, <1>3, <1>4, <1>5 DEF CallRequest, Ended
  <2>2. ctl'.state \in {"IDLE", "STARTUP"} /\ dev'.mem = dev.mem
    BY <1>1, <1>3, <2>1
  <2>3. Rests \/ Asks \/ Leaves
    BY <1>2, <1>5, CallerMoves
  <2>4. ~Ended'
    BY <1>5, <2>1, <2>3 DEF Rests, Asks, Leaves, Ended
  <2>5. call'.start => call'.sent = 0 /\ call'.got = <<>> /\ dev'.mem = call'.before
    BY <2>1, <2>2, <2>3 DEF Rests, Asks, Leaves
  <2> QED
    BY <1>1, <2>2, <2>4, <2>5 DEF CallMoved, Opening
<1>6. CASE call.busy /\ ~Ended
  <2>1. Served /\ ctl.state # "STARTUP" /\ (ctl.state = "IDLE" => call.start)
    BY <1>2, <1>4, <1>6, CallerServed DEF CallRequest, Ended
  <2>2. CASE ctl.state = "IDLE" \/ ctl.state \in Opening
    <3>1. dev'.mem = dev.mem
      BY <1>1, <2>2 DEF Opening
    <3> QED
      BY <1>1, <1>6, <2>1, <2>2, <3>1, OpeningMoved
  <2>3. CASE ctl.state = "READ_DATA"
    <3>1. call.cmd = ctl.cmd /\ call.addr \in 0 .. MemSize - 1 /\ dev'.mem = dev.mem
      BY <1>1, <1>2, <2>3, Requested DEF InBurst, Transfers
    <3> QED
      BY <1>1, <2>1, <2>3, <3>1, ReadMoved
  <2>4. CASE ctl.state = "WRITE_DATA"
    <3>1. ctl'.state \in {"WRITE_DATA", "DEASSERT_CS"}
      BY <1>2, <2>4 DEF WordEdge, HeldWord, WriteWord, Goes
    <3>2. call'.cmd = WriteQuad /\ call'.start = FALSE
      <4>1. call.cmd = ctl.cmd /\ ctl.cmd = WriteQuad
        BY <1>2, <2>4, Requested DEF InBurst, Transfers, CtlInv, CtlData
      <4> QED
        BY <2>1, <4>1 DEF Served
    <3>3. ~Ended'
      BY <1>2, <3>1, NotEnded
    <3> QED
      BY <1>1, <2>4, <3>1, <3>2, <3>3 DEF CallMoved, Opening
  <2>5. CASE ctl.state = "DEASSERT_CS"
    BY <1>1, <2>1, <2>5, ClosingMoved
  <2> QED
    BY <1>3, <2>1, <2>2, <2>3, <2>4, <2>5 DEF InBurst, Opening, Transfers
<1> QED
  BY <1>5, <1>6

LEMMA WordInit == Init => WordInv
<1> SUFFICES ASSUME Init PROVE WordInv
  OBVIOUS
<1>1. /\ ctl.state = "STARTUP" /\ ctl.intra = 0 /\ ctl.busy = TRUE /\ ctl.received = FALSE
      /\ ctl.ready = FALSE
  BY DEF Init, CtlInit
<1>2. eng.txfer = "IDLE" /\ eng.sclk = FALSE /\ eng.done = FALSE /\ DOMAIN eng.in = 1 .. 2
  BY DEF Init, EngInit
<1>3. dev.qpi = FALSE /\ dev.mem = Image
  BY DEF Init, DevInit
<1>4. call.busy = FALSE /\ call.start = FALSE
  BY DEF Init, NoCall
<1>5. CtlWord
  <2>1. ctl.busy = (ctl.state # "IDLE")
    <3>1. ctl.state # "IDLE"
      BY <1>1
    <3> QED
      BY <1>1, <3>1
  <2>2. CtlStrobes
    BY <1>1, <2>1 DEF CtlStrobes
  <2> QED
    BY <1>1, <2>2 DEF CtlWord, CtlCount, CtlAddress, CtlReset
<1>6. EngWord
  BY <1>2 DEF EngWord
<1>7. ChipMode
  BY <1>1, <1>3 DEF ChipMode
<1>8. ChipAddress /\ ChipDummy /\ ChipWrite /\ ChipRead
  BY <1>1 DEF ChipAddress, ChipDummy, ChipWrite, ChipRead
<1>9. CallRequest
  BY <1>1, <1>4 DEF CallRequest, InBurst, Transfers
<1>10. CallMoved
  BY <1>1, <1>3, <1>4, DataAssumption DEF CallMoved, Opening, Ended
<1> QED
  BY <1>5, <1>6, <1>7, <1>8, <1>9, <1>10 DEF WordInv

\* The invariant of the data, one edge at a time.
LEMMA WordStep == BInv /\ WordInv /\ [Next]_vars => WordInv'
<1> SUFFICES ASSUME BInv, WordInv, [Next]_vars PROVE WordInv'
  OBVIOUS
<1>1. CASE Next
  <2>1. /\ CtlInv /\ EngInv /\ CallInv /\ CtlStrobes /\ CtlWord /\ EngWord
        /\ call.start \in BOOLEAN /\ call.cmd \in Commands /\ BurstLen \in 1 .. 63
    BY SizeAssumption DEF BInv, WordInv, CtlWord, CallInv
  <2>2. /\ Controller(call.start, call.cmd, call.addr, InByte) /\ Engine /\ Device /\ Caller
    BY <1>1 DEF Next
  <2>3. BInv' /\ CtlInv' /\ EngInv'
    BY BusStep DEF BInv
  <2>4. Edge /\ EngineEdge
    BY <2>1, <2>2, ControllerMoves, EngineMoves
  <2>5. WordEdge(call.start, call.cmd, call.addr, InByte)
    BY <2>1, <2>2, ControllerWords
  <2>6. CtlWord' /\ EngWord'
    BY <2>1, <2>2, <2>3, <2>4, <2>5, CtlWordStep, EngWordStep
  <2>7. Clock
    BY <2>2, <2>3, <2>4, <2>5, <2>6 DEF Clock
  <2>8. ChipPlace' /\ CallRequest' /\ CallMoved'
    BY <2>7, ChipStep, RequestKept, MovedKept
  <2> QED
    BY <2>6, <2>8 DEF WordInv, ChipPlace
<1>2. CASE UNCHANGED vars
  <2>1. ctl' = ctl /\ eng' = eng /\ dev' = dev /\ call' = call
    BY <1>2 DEF vars
  <2>2. CtlWord' /\ EngWord'
    BY <2>1 DEF WordInv, CtlWord, CtlStrobes, CtlCount, CtlAddress, CtlReset, Unsent, EngWord
  <2>3. ChipMode' /\ ChipAddress' /\ ChipDummy'
    BY <2>1 DEF WordInv, ChipMode, InReset, BitRises, ChipAddress, InCommand, InAddress,
       AddressNibbles, Rises, ChipDummy, DummyRises, NibblesIn
  <2>4. ChipWrite' /\ ChipRead'
    BY <2>1 DEF WordInv, ChipWrite, BytesIn, Rises, Pending, Written, ChipRead, LowShown, Asked
  <2>5. CallRequest' /\ CallMoved'
    BY <2>1 DEF WordInv, CallRequest, CallMoved, Written, Pending, Collected, Asked, Ended
  <2> QED
    BY <2>2, <2>3, <2>4, <2>5 DEF WordInv
<1> QED
  BY <1>1, <1>2

LEMMA WordExact == WordInv => BurstExact
<1> SUFFICES ASSUME WordInv, Ended PROVE
      IF call.cmd = WriteQuad
      THEN /\ \A i \in 1 .. BurstLen : dev.mem[Place(call.addr, i)] = call.data[i]
           /\ \A a \in 0 .. MemSize - 1 :
                a \notin {Place(call.addr, i) : i \in 1 .. BurstLen} => dev.mem[a] = call.before[a]
           /\ call.sent = BurstLen
      ELSE /\ dev.mem = call.before
           /\ call.got = [i \in 1 .. BurstLen |-> dev.mem[Place(call.addr, i)]]
  BY DEF BurstExact
<1>1. ctl.received = FALSE /\ ctl.ready = FALSE
  BY DEF WordInv, CtlWord, CtlStrobes, Ended
<1>2. CASE call.cmd = WriteQuad
  <2>1. Written(BurstLen) /\ call.sent = BurstLen
    BY <1>1, <1>2, SizeAssumption DEF WordInv, CallMoved, Pending
  <2> QED
    BY <1>2, <2>1 DEF Written
<1>3. CASE call.cmd # WriteQuad
  <2>1. dev.mem = call.before /\ Collected(BurstLen)
    BY <1>3 DEF WordInv, CallMoved
  <2>2. BurstLen - Pending(ctl.ready) = BurstLen
    BY <1>1, SizeAssumption DEF Pending
  <2> QED
    BY <1>3, <2>1, <2>2 DEF Collected, Asked
<1> QED
  BY <1>2, <1>3

\* A burst that ended moved exactly the bytes asked for, to and from exactly the
\* addresses asked for, whatever the burst length, the wrap boundary, the memory
\* and the data: address, dummy and data clocks stay aligned from the first edge
\* of CS# to the last (WRITE_DATA and READ_DATA of SPIRAMCONTROLLER.v, the shift
\* registers of SPIRAMENGINE.v, the chip of SPIRAM.v).
THEOREM BurstsExact == Spec => []BurstExact
<1> QED
  BY BusInit, BusStep, WordInit, WordStep, WordExact, PTL DEF Spec
-----------------------------------------------------------------------------
(* How long it takes.  Every state of the controller lasts a fixed number of *)
(* edges, so the chip's timing counter is bounded from below while CS# is    *)
(* high and from above while it is low.                                      *)

\* Edges since the controller handed over the byte under way: a transfer that
\* has been asked for begins at the next edge.
Up == IF eng.sclk THEN 1 ELSE 0
Ticks ==
  IF ~ctl.start THEN 0
  ELSE IF eng.done THEN IF ctl.state = "STARTUP" THEN 18 ELSE IF ctl.op_en THEN 6 ELSE 5
  ELSE IF eng.txfer = "IDLE" THEN 1
  ELSE IF eng.txfer = "BIT_TXFER" THEN 2 + 2 * (7 - eng.cnt) + Up
  ELSE IF ctl.op_en THEN 2 + 2 * (1 - eng.cnt) + Up
  ELSE IF eng.cnt = 1 THEN 2
  ELSE 4 - Up
Prompt ==
  /\ ctl.start /\ eng.txfer = "IDLE" /\ ~eng.done => eng.start_d = FALSE
  /\ ~(ctl.state = "STARTUP" /\ ctl.intra = 0) => ctl.clk_en = TRUE

\* CS# is high: the gap has been waited for.
HighFor ==
  /\ ctl.state = "STARTUP" /\ ctl.intra \in 0 .. 1 => dev.age > CsGap
  /\ ctl.state = "STARTUP" /\ ctl.intra = 4 => ctl.wait \in 0 .. CsGap /\ dev.age >= ctl.wait
  /\ ctl.state = "DEASSERT_CS" =>
       /\ ctl.wait \in 0 .. CsGap
       /\ IF ctl.cs THEN dev.age + 1 >= ctl.wait ELSE ctl.wait = 0
  /\ ctl.state = "IDLE" => dev.age >= CsGap
  /\ ctl.state = "ASSERT_CS" => dev.age > CsGap
\* CS# is low: the bytes sent so far have taken this long at most.
LowFor ==
  /\ ctl.state = "STARTUP" /\ ctl.intra \in 2 .. 3 => dev.age <= Ticks
  /\ ctl.state = "SEND_COMMAND" => dev.age <= Ticks
  /\ ctl.state = "SEND_ADDRESS" => dev.age <= 7 + 7 * (AddrBytes - ctl.left) + Ticks
  /\ ctl.state = "DUMMY_CYCLES" => dev.age <= 28 + 6 * (DummyBytes - ctl.left) + Ticks
  /\ ctl.state = "WRITE_DATA" =>
       dev.age <= 28 + 8 * (BurstLen - ctl.left) + Ticks - (IF ctl.intra = 2 THEN 1 ELSE 0)
  /\ ctl.state = "READ_DATA" =>
       dev.age <= 46 + 7 * (BurstLen - ctl.left) + Ticks + (IF ctl.intra = 2 THEN 6 ELSE 0)
  /\ ctl.state = "DEASSERT_CS" /\ ~ctl.cs => dev.age <= 531
TimeInv == dev.age \in 0 .. MaxAge /\ Prompt /\ HighFor /\ LowFor

\* The gap counter and the clock gate at one edge.
TimeEdge ==
  /\ IF ctl.state = "STARTUP" /\ ctl.intra = 0
     THEN ctl'.state = "STARTUP" /\ (ctl'.intra = 0 \/ (ctl'.intra = 1 /\ ctl'.clk_en = TRUE))
     ELSE ctl'.clk_en = ctl.clk_en
  /\ ctl.state = "STARTUP" /\ ctl.intra = 3 /\ ctl'.intra = 4 => ctl'.wait = 0
  /\ ctl.state = "STARTUP" /\ ctl.intra = 4 =>
       IF ctl'.intra = 4 THEN ctl.wait # CsGap /\ ctl'.wait = ctl.wait + 1 ELSE ctl.wait = CsGap
  /\ ctl.state \in Transfers /\ ctl'.state = "DEASSERT_CS" => ctl'.wait = 0
  /\ ctl.state = "DEASSERT_CS" =>
       /\ ctl'.cs = TRUE
       /\ IF ctl'.state = "DEASSERT_CS" THEN ctl.wait # CsGap /\ ctl'.wait = ctl.wait + 1
          ELSE ctl.wait = CsGap

LEMMA StartupTimes ==
  ASSUME CtlInv, ctl.state = "STARTUP", ctl' = Startup
  PROVE  TimeEdge
<1>a. ctl.intra \in 0 .. 4 /\ DOMAIN ctl = CtlFields
  BY DEF CtlInv, CtlLines, CtlType
<1> USE <1>a
<1>1. CASE ctl.intra = 0
  <2>1. CASE ctl.cnt = PwrUpCycles
    <3>1. ctl' = [Idled EXCEPT !.quad = FALSE, !.clk_en = TRUE, !.cnt = 0, !.intra = 1]
      BY <1>1, <2>1 DEF Startup
    <3> QED
      BY <1>1, <3>1 DEF TimeEdge, Idled, CtlFields, Transfers
  <2>2. CASE ctl.cnt # PwrUpCycles
    <3>1. ctl' = [Idled EXCEPT !.busy = TRUE, !.cnt = @ + 1]
      BY <1>1, <2>2 DEF Startup
    <3> QED
      BY <1>1, <3>1 DEF TimeEdge, Idled, CtlFields, Transfers
  <2> QED
    BY <2>1, <2>2
<1>2. CASE ctl.intra = 1
  <2>1. ctl' = [Idled EXCEPT !.cs = FALSE, !.op_en = TRUE, !.byte = InitCmd(ctl.init), !.intra = 2]
    BY <1>2 DEF Startup
  <2> QED
    BY <1>2, <2>1 DEF TimeEdge, Idled, CtlFields, Transfers
<1>3. CASE ctl.intra = 2
  <2>1. ctl' = [Idled EXCEPT !.start = TRUE, !.intra = 3]
    BY <1>3 DEF Startup
  <2> QED
    BY <1>3, <2>1 DEF TimeEdge, Idled, CtlFields, Transfers
<1>4. CASE ctl.intra = 3
  <2>1. CASE eng.done
    <3>1. ctl' = [Idled EXCEPT !.start = FALSE, !.cs = TRUE, !.op_en = FALSE, !.wait = 0, !.intra = 4]
      BY <1>4, <2>1 DEF Startup
    <3> QED
      BY <1>4, <3>1 DEF TimeEdge, Idled, CtlFields, Transfers
  <2>2. CASE ~eng.done
    <3>1. ctl' = Idled
      BY <1>4, <2>2 DEF Startup
    <3> QED
      BY <1>4, <3>1 DEF TimeEdge, Idled, CtlFields, Transfers
  <2> QED
    BY <2>1, <2>2
<1>5. CASE ctl.intra = 4
  <2>1. CASE ctl.wait # CsGap
    <3>1. ctl' = [Idled EXCEPT !.wait = @ + 1]
      BY <1>5, <2>1 DEF Startup
    <3> QED
      BY <1>5, <2>1, <3>1 DEF TimeEdge, Idled, CtlFields, Transfers
  <2>2. CASE ctl.wait = CsGap /\ ctl.init = LastInit
    <3>1. ctl' = [Enter(Idled, "IDLE") EXCEPT !.quad = TRUE, !.busy = FALSE]
      BY <1>5, <2>2 DEF Startup
    <3> QED
      BY <1>5, <2>2, <3>1 DEF TimeEdge, Idled, Enter, CtlFields, Transfers
  <2>3. CASE ctl.wait = CsGap /\ ctl.init # LastInit
    <3>1. ctl' = [Idled EXCEPT !.init = @ + 1, !.intra = 1]
      BY <1>5, <2>3 DEF Startup
    <3> QED
      BY <1>5, <2>3, <3>1 DEF TimeEdge, Idled, CtlFields, Transfers
  <2> QED
    BY <2>1, <2>2, <2>3
<1> QED
  BY <1>1, <1>2, <1>3, <1>4, <1>5

LEMMA ControllerTimes ==
  ASSUME CtlInv, NEW s, NEW c, NEW a, NEW b, Controller(s, c, a, b)
  PROVE  TimeEdge
<1>a. DOMAIN ctl = CtlFields /\ ctl.state \in CtlStates
  BY DEF CtlInv, CtlType
<1> USE <1>a
<1>1. CASE ctl.state = "STARTUP"
  <2>1. ctl' = Startup
    BY <1>1 DEF Controller
  <2> QED
    BY <1>1, <2>1, StartupTimes
<1>2. CASE ctl.state = "IDLE"
  <2>1. ctl' = Accept(s, c, a)
    BY <1>2 DEF Controller
  <2> QED
    BY <1>2, <2>1 DEF Accept, TimeEdge, Idled, CtlFields, Transfers
<1>3. CASE ctl.state = "ASSERT_CS"
  <2>1. ctl' = AssertCs
    BY <1>3 DEF Controller
  <2> QED
    BY <1>3, <2>1 DEF AssertCs, TimeEdge, Idled, Enter, CtlFields, Transfers
<1>4. CASE ctl.state = "SEND_COMMAND"
  <2>1. ctl' = SendCommand
    BY <1>4 DEF Controller
  <2> QED
    BY <1>4, <2>1 DEF SendCommand, TimeEdge, Idled, Launch, Enter, CtlFields, Transfers
<1>5. CASE ctl.state = "SEND_ADDRESS"
  <2>1. ctl' = SendAddress
    BY <1>5 DEF Controller
  <2>2. CASE ctl.intra = 0
    BY <1>5, <2>1, <2>2 DEF SendAddress, TimeEdge, Idled, Launch, CtlFields, Transfers
  <2>3. CASE ctl.intra # 0 /\ eng.done /\ ctl.left = 1
    <3>1. ctl' = [AfterAddress EXCEPT !.start = FALSE, !.sh = Tail(ctl.sh)]
      BY <2>1, <2>3 DEF SendAddress
    <3> QED
      BY <1>5, <3>1 DEF AfterAddress, TimeEdge, Idled, Enter, CtlFields, Transfers
  <2>4. CASE ctl.intra # 0 /\ eng.done /\ ctl.left # 1
    <3>1. ctl' = [[Idled EXCEPT !.left = @ - 1, !.intra = 0]
                  EXCEPT !.start = FALSE, !.sh = Tail(ctl.sh)]
      BY <2>1, <2>4 DEF SendAddress
    <3> QED
      BY <1>5, <3>1 DEF TimeEdge, Idled, CtlFields, Transfers
  <2>5. CASE ctl.intra # 0 /\ ~eng.done
    BY <1>5, <2>1, <2>5 DEF SendAddress, TimeEdge, Idled, CtlFields, Transfers
  <2> QED
    BY <2>2, <2>3, <2>4, <2>5
<1>6. CASE ctl.state = "DUMMY_CYCLES"
  <2>1. ctl' = DummyCycles
    BY <1>6 DEF Controller
  <2>2. CASE ctl.intra = 0
    BY <1>6, <2>1, <2>2 DEF DummyCycles, TimeEdge, Idled, CtlFields, Transfers
  <2>3. CASE ctl.intra # 0 /\ eng.done /\ ctl.left = 1
    <3>1. ctl' = [[Enter(Idled, "READ_DATA") EXCEPT !.left = BurstLen] EXCEPT !.start = FALSE]
      BY <2>1, <2>3 DEF DummyCycles
    <3> QED
      BY <1>6, <3>1 DEF TimeEdge, Idled, Enter, CtlFields, Transfers
  <2>4. CASE ctl.intra # 0 /\ eng.done /\ ctl.left # 1
    <3>1. ctl' = [[Idled EXCEPT !.left = @ - 1, !.intra = 0] EXCEPT !.start = FALSE]
      BY <2>1, <2>4 DEF DummyCycles
    <3> QED
      BY <1>6, <3>1 DEF TimeEdge, Idled, CtlFields, Transfers
  <2>5. CASE ctl.intra # 0 /\ ~eng.done
    BY <1>6, <2>1, <2>5 DEF DummyCycles, TimeEdge, Idled, CtlFields, Transfers
  <2> QED
    BY <2>2, <2>3, <2>4, <2>5
<1>7. CASE ctl.state = "WRITE_DATA"
  <2>0. ctl' = SendData(b) /\ ctl.intra \in 0 .. 2
    BY <1>7 DEF Controller, CtlInv, CtlLines, Transfers
  <2>1. CASE ctl.intra = 0
    <3>1. ctl' = Launch(Idled, b)
      BY <2>0, <2>1 DEF SendData
    <3> QED
      BY <1>7, <3>1 DEF TimeEdge, Idled, Launch, CtlFields, Transfers
  <2>2. CASE ctl.intra = 1 /\ eng.done /\ ctl.left = 1
    <3>1. ctl' = [Deassert(Idled) EXCEPT !.start = FALSE, !.received = TRUE]
      BY <2>0, <2>2 DEF SendData
    <3> QED
      BY <1>7, <3>1 DEF TimeEdge, Idled, Deassert, Enter, CtlFields, Transfers
  <2>3. CASE ctl.intra = 1 /\ eng.done /\ ctl.left # 1
    <3>1. ctl' = [[Idled EXCEPT !.left = @ - 1, !.intra = 2] EXCEPT !.start = FALSE, !.received = TRUE]
      BY <2>0, <2>3 DEF SendData
    <3> QED
      BY <1>7, <3>1 DEF TimeEdge, Idled, CtlFields, Transfers
  <2>4. CASE ctl.intra = 1 /\ ~eng.done
    <3>1. ctl' = Idled
      BY <2>0, <2>4 DEF SendData
    <3> QED
      BY <1>7, <3>1 DEF TimeEdge, Idled, CtlFields, Transfers
  <2>5. CASE ctl.intra = 2
    <3>1. ctl' = [Idled EXCEPT !.intra = 0]
      BY <2>0, <2>5 DEF SendData
    <3> QED
      BY <1>7, <3>1 DEF TimeEdge, Idled, CtlFields, Transfers
  <2> QED
    BY <2>0, <2>1, <2>2, <2>3, <2>4, <2>5
<1>8. CASE ctl.state = "READ_DATA"
  <2>0. ctl' = ReadData /\ ctl.intra \in 0 .. 2
    BY <1>8 DEF Controller, CtlInv, CtlLines, Transfers
  <2>1. CASE ctl.intra = 0
    <3>1. ctl' = [Idled EXCEPT !.start = TRUE, !.intra = 1]
      BY <2>0, <2>1 DEF ReadData
    <3> QED
      BY <1>8, <3>1 DEF TimeEdge, Idled, CtlFields, Transfers
  <2>2. CASE ctl.intra = 1 /\ eng.done
    <3>1. ctl' = [Idled EXCEPT !.start = FALSE, !.intra = 2]
      BY <2>0, <2>2 DEF ReadData
    <3> QED
      BY <1>8, <3>1 DEF TimeEdge, Idled, CtlFields, Transfers
  <2>3. CASE ctl.intra = 1 /\ ~eng.done
    <3>1. ctl' = Idled
      BY <2>0, <2>3 DEF ReadData
    <3> QED
      BY <1>8, <3>1 DEF TimeEdge, Idled, CtlFields, Transfers
  <2>4. CASE ctl.intra = 2 /\ ctl.left = 1
    <3>1. ctl' = [Deassert(Idled) EXCEPT !.out = eng.in, !.ready = TRUE]
      BY <2>0, <2>4 DEF ReadData
    <3> QED
      BY <1>8, <3>1 DEF TimeEdge, Idled, Deassert, Enter, CtlFields, Transfers
  <2>5. CASE ctl.intra = 2 /\ ctl.left # 1
    <3>1. ctl' = [[Idled EXCEPT !.left = @ - 1, !.intra = 0] EXCEPT !.out = eng.in, !.ready = TRUE]
      BY <2>0, <2>5 DEF ReadData
    <3> QED
      BY <1>8, <3>1 DEF TimeEdge, Idled, CtlFields, Transfers
  <2> QED
    BY <2>0, <2>1, <2>2, <2>3, <2>4, <2>5
<1>9. CASE ctl.state = "DEASSERT_CS"
  <2>1. ctl' = DeassertCs
    BY <1>9 DEF Controller
  <2>2. CASE ctl.wait = CsGap
    <3>1. ctl' = [Enter(Idled, "IDLE") EXCEPT !.op_en = FALSE, !.cs = TRUE, !.busy = FALSE]
      BY <2>1, <2>2 DEF DeassertCs
    <3> QED
      BY <1>9, <2>2, <3>1 DEF TimeEdge, Idled, Enter, CtlFields, Transfers
  <2>3. CASE ctl.wait # CsGap
    <3>1. ctl' = [Idled EXCEPT !.op_en = FALSE, !.cs = TRUE, !.wait = @ + 1]
      BY <2>1, <2>3 DEF DeassertCs
    <3> QED
      BY <1>9, <2>3, <3>1 DEF TimeEdge, Idled, CtlFields, Transfers
  <2> QED
    BY <2>2, <2>3
<1> QED
  BY <1>1, <1>2, <1>3, <1>4, <1>5, <1>6, <1>7, <1>8, <1>9 DEF CtlStates, Transfers

\* Only the edges of CS# set the chip's timing counter back.
LEMMA ChipAges ==
  ASSUME DevType, Device
  PROVE  dev'.age = IF CsFalls \/ CsRises THEN 0 ELSE Older(dev.age)
<1>a. DOMAIN dev = DevFields
  BY DEF DevType
<1>1. \A sio : Sample(sio).age = dev.age /\ "age" \in DOMAIN Sample(sio)
  <2> TAKE sio
  <2>1. \A cmd : Decoded(cmd).age = dev.age /\ "age" \in DOMAIN Decoded(cmd)
    BY <1>a DEF Decoded, DevFields
  <2> QED
    BY <1>a, <2>1 DEF Sample, DevFields
<1>2. Drive.age = dev.age /\ "age" \in DOMAIN Drive
  BY <1>a DEF Drive, DevFields
<1>3. CASE CsFalls
  <2>1. dev' = [dev EXCEPT !.state = "CMD", !.shift = <<>>, !.clks = 0, !.age = 0]
    BY <1>3 DEF Device
  <2> QED
    BY <1>a, <1>3, <2>1 DEF DevFields
<1>4. CASE ~CsFalls /\ CsRises
  <2>1. dev' = [dev EXCEPT !.state = "IDLE", !.drive = Z, !.age = 0]
    BY <1>4 DEF Device
  <2> QED
    BY <1>a, <1>4, <2>1 DEF DevFields
<1>5. CASE ~CsFalls /\ ~CsRises
  <2>1. PICK d : d.age = dev.age /\ "age" \in DOMAIN d /\ dev' = [d EXCEPT !.age = Older(@)]
    <3>1. CASE ctl.cs \/ (~SclkRises /\ ~SclkFalls)
      <4>1. dev' = [dev EXCEPT !.age = Older(@)]
        BY <1>5, <3>1 DEF Device
      <4> QED
        BY <1>a, <4>1 DEF DevFields
    <3>2. CASE ~ctl.cs /\ SclkRises
      <4>1. dev' = [Sample(IF ctl'.op_en THEN eng'.so ELSE dev.drive) EXCEPT !.age = Older(@)]
        BY <1>5, <3>2 DEF Device
      <4> QED
        BY <1>1, <4>1
    <3>3. CASE ~ctl.cs /\ ~SclkRises /\ SclkFalls
      <4>1. dev' = [Drive EXCEPT !.age = Older(@)]
        BY <1>5, <3>3 DEF Device
      <4> QED
        BY <1>2, <4>1
    <3> QED
      BY <3>1, <3>2, <3>3
  <2>2. dev'.age = Older(d.age)
    BY <2>1
  <2> QED
    BY <1>5, <2>1, <2>2
<1> QED
  BY <1>3, <1>4, <1>5

\* The engine's own clock: between bytes nothing, then one tick at each edge.
LEMMA WordBegins ==
  ASSUME CtlInv, EngInv, Engine, ctl.start, eng.txfer = "IDLE", eng.start_d = FALSE, ctl.clk_en = TRUE
  PROVE  BeginStep
<1>1. eng' = Begin
  BY DEF Engine
<1> QED
  BY <1>1 DEF BeginStep, Begin, Turns, Ticked, EngInv, EngType, EngFields

LEMMA TicksBetween ==
  ASSUME CtlInv, EngInv, EngWord, Engine, EngineEdge, ~ctl.start \/ eng.done,
         ctl'.start \in BOOLEAN, ctl'.start => ~ctl.start
  PROVE  /\ Ticks' = IF ctl'.start THEN 1 ELSE 0
         /\ ctl'.start => eng'.start_d = FALSE
<1>1. eng'.txfer = "IDLE" /\ eng'.done = FALSE
  BY BetweenWords
<1>2. ctl'.start => eng'.start_d = FALSE
  <2>1. eng'.start_d = ctl.start /\ ctl.start \in BOOLEAN
    BY DEF EngineEdge, BeginStep, BitStep, SendStep, ReceiveStep, Turns, CtlInv, CtlType
  <2> QED
    BY <2>1
<1> QED
  BY <1>1, <1>2 DEF Ticks

LEMMA TicksWithin ==
  ASSUME CtlInv, EngInv, EngWord, Prompt, Engine, EngineEdge, ctl.start, ~eng.done, HeldWord
  PROVE  /\ Ticks' = Ticks + 1 /\ Ticks \in Nat
         /\ ~(eng'.txfer = "IDLE" /\ ~eng'.done)
<1>1. /\ ctl'.start /\ ctl'.state = ctl.state /\ ctl'.op_en = ctl.op_en
      /\ ctl.start = TRUE /\ ctl.op_en \in BOOLEAN /\ (ctl.quad = TRUE <=> ctl.state # "STARTUP")
  BY DEF HeldWord, Goes, CtlInv, CtlStart, CtlType
<1>2. /\ eng.txfer \in {"IDLE", "BIT_TXFER", "NIB_TXFER"} /\ eng.sclk \in BOOLEAN
      /\ eng.txfer = "BIT_TXFER" => ctl.state = "STARTUP" /\ eng.cnt \in 0 .. 7
      /\ eng.txfer = "NIB_TXFER" => ctl.state # "STARTUP" /\ eng.cnt \in 0 .. 1
      /\ eng.txfer = "NIB_TXFER" /\ ~ctl.op_en /\ eng.sclk => eng.cnt = 0
      /\ ctl.state = "STARTUP" => ctl.op_en
  BY DEF EngInv, EngType, EngTurn, EngWord, CtlInv, CtlStart, CtlLines, Waiting, Transfers
<1>3. CASE eng.txfer = "IDLE"
  <2>1. eng.start_d = FALSE /\ ctl.clk_en = TRUE
    <3>1. ~(ctl.state = "STARTUP" /\ ctl.intra = 0)
      BY DEF CtlInv, CtlStart, Waiting, Transfers
    <3> QED
      BY <1>3, <3>1 DEF Prompt
  <2>2. BeginStep
    BY <1>3, <2>1, WordBegins
  <2>3. /\ eng'.sclk = FALSE /\ eng'.done = FALSE
        /\ IF ctl.state = "STARTUP" THEN eng'.txfer = "BIT_TXFER" /\ eng'.cnt = 7
           ELSE eng'.txfer = "NIB_TXFER" /\ eng'.cnt = 1
    BY <1>1, <2>2 DEF BeginStep, Turns
  <2>4. Ticks = 1
    BY <1>3 DEF Ticks
  <2>5. Ticks' = 2
    BY <1>1, <2>3 DEF Ticks, Up
  <2> QED
    BY <2>3, <2>4, <2>5
<1>4. CASE eng.txfer = "BIT_TXFER"
  <2>1. BitStep
    BY <1>4 DEF EngineEdge, BeginStep, SendStep, ReceiveStep
  <2>2. Ticks = 2 + 2 * (7 - eng.cnt) + Up
    BY <1>4 DEF Ticks
  <2>3. CASE ~eng.sclk
    <3>1. eng'.txfer = "BIT_TXFER" /\ eng'.sclk = TRUE /\ eng'.cnt = eng.cnt /\ eng'.done = FALSE
      BY <2>1, <2>3 DEF BitStep, Turns
    <3>2. Up = 0 /\ Up' = 1
      BY <2>3, <3>1 DEF Up
    <3>3. Ticks' = 2 + 2 * (7 - eng.cnt) + 1
      BY <1>1, <3>1, <3>2 DEF Ticks
    <3> QED
      BY <1>2, <1>4, <2>2, <3>1, <3>2, <3>3
  <2>4. CASE eng.sclk /\ eng.cnt = 0
    <3>1. eng'.done = TRUE
      BY <2>1, <2>4 DEF BitStep, Turns
    <3>2. Ticks' = 18 /\ Ticks = 17
      BY <1>1, <1>2, <1>4, <2>2, <2>4, <3>1 DEF Ticks, Up
    <3> QED
      BY <3>1, <3>2
  <2>5. CASE eng.sclk /\ eng.cnt # 0
    <3>1. eng'.txfer = "BIT_TXFER" /\ eng'.sclk = FALSE /\ eng'.cnt = eng.cnt - 1 /\ eng'.done = FALSE
      BY <2>1, <2>5 DEF BitStep, Turns
    <3>2. Up = 1 /\ Up' = 0
      BY <2>5, <3>1 DEF Up
    <3>3. Ticks' = 2 + 2 * (7 - (eng.cnt - 1)) + 0
      BY <1>1, <3>1, <3>2 DEF Ticks
    <3> QED
      BY <1>2, <1>4, <2>2, <3>1, <3>2, <3>3
  <2> QED
    BY <2>3, <2>4, <2>5
<1>5. CASE eng.txfer = "NIB_TXFER" /\ ctl.op_en
  <2>1. SendStep
    BY <1>5 DEF EngineEdge, BeginStep, BitStep, ReceiveStep
  <2>2. Ticks = 2 + 2 * (1 - eng.cnt) + Up
    BY <1>5 DEF Ticks
  <2>3. CASE ~eng.sclk
    <3>1. eng'.txfer = "NIB_TXFER" /\ eng'.sclk = TRUE /\ eng'.cnt = eng.cnt /\ eng'.done = FALSE
      BY <2>1, <2>3 DEF SendStep, Turns
    <3>2. Up = 0 /\ Up' = 1
      BY <2>3, <3>1 DEF Up
    <3>3. Ticks' = 2 + 2 * (1 - eng.cnt) + 1
      BY <1>1, <1>5, <3>1, <3>2 DEF Ticks
    <3> QED
      BY <1>2, <1>5, <2>2, <3>1, <3>2, <3>3
  <2>4. CASE eng.sclk /\ eng.cnt = 0
    <3>1. eng'.done = TRUE
      BY <2>1, <2>4 DEF SendStep, Turns
    <3>2. Ticks' = 6 /\ Ticks = 5
      BY <1>1, <1>2, <1>5, <2>2, <2>4, <3>1 DEF Ticks, Up
    <3> QED
      BY <3>1, <3>2
  <2>5. CASE eng.sclk /\ eng.cnt # 0
    <3>1. eng'.txfer = "NIB_TXFER" /\ eng'.sclk = FALSE /\ eng'.cnt = eng.cnt - 1 /\ eng'.done = FALSE
      BY <2>1, <2>5 DEF SendStep, Turns
    <3>2. Up = 1 /\ Up' = 0
      BY <2>5, <3>1 DEF Up
    <3>3. Ticks' = 2 + 2 * (1 - (eng.cnt - 1)) + 0
      BY <1>1, <1>5, <3>1, <3>2 DEF Ticks
    <3> QED
      BY <1>2, <1>5, <2>2, <3>1, <3>2, <3>3
  <2> QED
    BY <2>3, <2>4, <2>5
<1>6. CASE eng.txfer = "NIB_TXFER" /\ ~ctl.op_en
  <2>1. ReceiveStep
    BY <1>6 DEF EngineEdge, BeginStep, BitStep, SendStep
  <2>2. Ticks = IF eng.cnt = 1 THEN 2 ELSE 4 - Up
    BY <1>6 DEF Ticks
  <2>3. CASE eng.sclk
    <3>1. /\ eng'.txfer = "NIB_TXFER" /\ eng'.sclk = FALSE /\ eng'.cnt = 0 /\ eng'.done = FALSE
          /\ eng.cnt = 0
      BY <1>2, <1>6, <2>1, <2>3 DEF ReceiveStep, Turns
    <3>2. Up = 1 /\ Up' = 0
      BY <2>3, <3>1 DEF Up
    <3> QED
      BY <1>1, <1>6, <2>2, <3>1, <3>2 DEF Ticks
  <2>4. CASE ~eng.sclk /\ eng.cnt = 0
    <3>1. eng'.done = TRUE /\ Up = 0
      BY <2>1, <2>4 DEF ReceiveStep, Turns, Up
    <3>2. ctl.state # "STARTUP"
      BY <1>2, <1>6
    <3> QED
      BY <1>1, <1>6, <2>2, <2>4, <3>1, <3>2 DEF Ticks
  <2>5. CASE ~eng.sclk /\ eng.cnt # 0
    <3>1. eng'.txfer = "NIB_TXFER" /\ eng'.sclk = TRUE /\ eng'.cnt = 0 /\ eng'.done = FALSE
          /\ eng.cnt = 1
      <4>1. eng.cnt = 1
        BY <1>2, <1>6, <2>5
      <4>2. Turns("NIB_TXFER", TRUE, eng.cnt - 1, FALSE, eng.so, eng.sh)
        BY <2>1, <2>5 DEF ReceiveStep
      <4> QED
        BY <4>1, <4>2 DEF Turns
    <3>2. Up' = 1
      BY <3>1 DEF Up
    <3> QED
      BY <1>1, <1>6, <2>2, <3>1, <3>2 DEF Ticks
  <2> QED
    BY <2>3, <2>4, <2>5
<1> QED
  BY <1>2, <1>3, <1>4, <1>5, <1>6

\* One clock edge, with its times.
TimedEdge ==
  /\ BInv /\ BInv' /\ CtlWord /\ CtlWord' /\ EngWord /\ Prompt /\ TimeEdge
  /\ Edge /\ WordEdge(call.start, call.cmd, call.addr, InByte)
  /\ Engine /\ EngineEdge /\ Device
  /\ dev.age \in 0 .. MaxAge

LEMMA Ages ==
  ASSUME TimedEdge
  PROVE  /\ dev'.age \in 0 .. MaxAge
         /\ CsFalls \/ CsRises => dev'.age = 0
         /\ ~CsFalls /\ ~CsRises => /\ dev'.age <= dev.age + 1
                                    /\ \A n \in 0 .. CsGap : dev.age >= n => dev'.age >= n + 1
<1>1. dev'.age = IF CsFalls \/ CsRises THEN 0 ELSE Older(dev.age)
  BY ChipAges DEF TimedEdge, BInv, DevInv
<1> QED
  BY <1>1, SizeAssumption DEF TimedEdge, Older

LEMMA PromptStep ==
  ASSUME TimedEdge
  PROVE  Prompt'
<1> USE DEF TimedEdge, BInv
<1>1. ctl'.start /\ eng'.txfer = "IDLE" /\ ~eng'.done => eng'.start_d = FALSE
  <2>1. CASE ctl.start /\ ~eng.done
    BY <2>1, WordHeld, TicksWithin
  <2>2. CASE ~ctl.start \/ eng.done
    <3>1. ctl'.start \in BOOLEAN /\ (ctl'.start => ~ctl.start)
      BY <2>2 DEF Edge, StartupStep, CommandStep, AddressStep, DummyStep, WriteStep, ReadStep,
         Held, Selected, Becomes, CtlInv, CtlType, CtlStart, Waiting, Transfers
    <3> QED
      BY <2>2, <3>1, TicksBetween
  <2> QED
    BY <2>1, <2>2
<1>2. ~(ctl'.state = "STARTUP" /\ ctl'.intra = 0) => ctl'.clk_en = TRUE
  BY DEF Prompt, TimeEdge
<1> QED
  BY <1>1, <1>2 DEF Prompt

\* The lines of the chip at the edges of CS#.
LEMMA SelectEdges ==
  ASSUME TimedEdge
  PROVE  /\ CsFalls => \/ ctl.state = "STARTUP" /\ ctl.intra = 1
                       \/ ctl.state = "ASSERT_CS"
         /\ CsRises => \/ ctl.state = "STARTUP" /\ ctl.intra = 3 /\ eng.done
                       \/ ctl.state = "DEASSERT_CS"
         /\ CsFalls \/ CsRises => ~eng.sclk /\ eng'.sclk = FALSE
<1> USE DEF TimedEdge, BInv
<1>1. CsFalls => \/ ctl.state = "STARTUP" /\ ctl.intra = 1
                 \/ ctl.state = "ASSERT_CS"
  BY DEF CsFalls, Edge, StartupStep, CommandStep, AddressStep, DummyStep, WriteStep, ReadStep,
     Held, Selected, Becomes, CtlInv, CtlLines, Transfers
<1>2. CsRises => \/ ctl.state = "STARTUP" /\ ctl.intra = 3 /\ eng.done
                 \/ ctl.state = "DEASSERT_CS"
  <2> SUFFICES ASSUME CsRises PROVE \/ ctl.state = "STARTUP" /\ ctl.intra = 3 /\ eng.done
                                    \/ ctl.state = "DEASSERT_CS"
    OBVIOUS
  <2>1. ctl.state \notin Transfers
    BY StaysSelected
  <2>2. ctl.state \notin {"IDLE", "ASSERT_CS"}
    BY DEF CsRises, CtlInv, CtlLines
  <2>3. CASE ctl.state = "STARTUP"
    <3>1. ctl.intra \in {2, 3} /\ StartupStep
      BY <2>3 DEF CsRises, CtlInv, CtlLines, Edge
    <3>2. ~Held
      BY DEF Held, Becomes, CsRises
    <3>3. ~Becomes("STARTUP", 3, TRUE, FALSE, TRUE)
      BY DEF Becomes, CsRises
    <3>4. ctl.intra \notin {0, 4} /\ ctl.intra # 0 /\ ctl.intra # 1 /\ ctl.intra # 4
      BY <3>1
    <3>5. StartupStep
      BY <3>1
    <3> HIDE DEF TimedEdge, BInv
    <3>6. ctl.intra = 3 /\ eng.done
      BY <3>2, <3>3, <3>4, <3>5, Zenon DEF StartupStep
    <3> QED
      BY <2>3, <3>6
  <2> QED
    BY <2>1, <2>2, <2>3 DEF CtlInv, CtlType, CtlStates
<1>3. CsFalls \/ CsRises => ~eng.sclk /\ eng'.sclk = FALSE
  <2> SUFFICES ASSUME CsFalls \/ CsRises PROVE ~eng.sclk /\ eng'.sclk = FALSE
    OBVIOUS
  <2>1. ~ctl.start \/ (ctl.start /\ eng.done /\ ctl.op_en)
    BY <1>1, <1>2 DEF CtlInv, CtlStart, CtlLines, Waiting, Transfers
  <2>2. eng'.sclk = FALSE
    BY <2>1, BetweenWords
  <2>3. ~eng.sclk
    BY <2>1 DEF EngInv, EngTurn, EngType, EngWord
  <2> QED
    BY <2>2, <2>3
<1> QED
  BY <1>1, <1>2, <1>3

LEMMA HighStep ==
  ASSUME TimedEdge, HighFor
  PROVE  HighFor'
<1>0. /\ CtlInv /\ CtlInv' /\ Edge /\ TimeEdge /\ CsGap \in Nat /\ MaxAge \in Nat
      /\ dev.age \in 0 .. MaxAge /\ dev'.age \in 0 .. MaxAge
      /\ WordEdge(call.start, call.cmd, call.addr, InByte)
  BY Ages, SizeAssumption DEF TimedEdge, BInv
<1>1. /\ CsFalls \/ CsRises => dev'.age = 0
      /\ ~CsFalls /\ ~CsRises => \A n \in 0 .. CsGap : dev.age >= n => dev'.age >= n + 1
      /\ CsFalls => (ctl.state = "STARTUP" /\ ctl.intra = 1) \/ ctl.state = "ASSERT_CS"
      /\ CsRises => (ctl.state = "STARTUP" /\ ctl.intra = 3) \/ ctl.state = "DEASSERT_CS"
  BY Ages, SelectEdges
<1>2. CASE ctl.state = "STARTUP" /\ ctl.intra = 0
  <2>1. ctl'.state = "STARTUP" /\ ctl'.intra \in 0 .. 1
    BY <1>0, <1>2 DEF TimeEdge
  <2>2. dev'.age >= CsGap + 1
    <3>1. ~CsFalls /\ ~CsRises /\ CsGap \in 0 .. CsGap /\ dev.age >= CsGap
      BY <1>0, <1>1, <1>2 DEF HighFor
    <3> QED
      BY <1>1, <3>1
  <2> QED
    BY <1>0, <2>1, <2>2 DEF HighFor
<1>3. CASE ctl.state = "STARTUP" /\ ctl.intra \in 1 .. 3
  <2>1. /\ ctl'.state = "STARTUP" /\ ctl'.intra \in 2 .. 4 /\ (ctl'.intra = 4 => ctl.intra = 3)
    <3>1. StartupStep
      BY <1>0, <1>3 DEF Edge
    <3>2. Held => ctl.intra = 3
      BY <1>0, <1>3 DEF Held, CtlInv, CtlStart, Waiting, Transfers
    <3> QED
      BY <1>3, <3>1, <3>2 DEF StartupStep, Held, Becomes
  <2>2. ctl'.intra = 4 => ctl'.wait = 0
    BY <1>0, <1>3, <2>1 DEF TimeEdge
  <2> QED
    BY <1>0, <2>1, <2>2 DEF HighFor
<1>4. CASE ctl.state = "STARTUP" /\ ctl.intra = 4
  <2>1. \/ ctl'.state = "STARTUP" /\ ctl'.intra = 4 /\ ctl.wait # CsGap /\ ctl'.wait = ctl.wait + 1
        \/ ctl'.state = "STARTUP" /\ ctl'.intra = 1 /\ ctl.wait = CsGap
        \/ ctl'.state = "IDLE" /\ ctl'.intra = 0 /\ ctl.wait = CsGap
    BY <1>0, <1>4 DEF TimeEdge, Edge, StartupStep, Held, Becomes, CtlInv, CtlStart, Waiting,
       Transfers
  <2>2. ctl.wait \in 0 .. CsGap /\ dev'.age >= ctl.wait + 1
    <3>1. ~CsFalls /\ ~CsRises /\ ctl.wait \in 0 .. CsGap /\ dev.age >= ctl.wait
      BY <1>0, <1>1, <1>4 DEF HighFor
    <3> QED
      BY <1>1, <3>1
  <2> QED
    BY <1>0, <2>1, <2>2 DEF HighFor
<1>5. CASE ctl.state = "IDLE"
  <2>1. ctl'.state \in {"IDLE", "ASSERT_CS"}
    BY <1>0, <1>5 DEF Edge, Becomes
  <2>2. dev'.age >= CsGap + 1
    <3>1. ~CsFalls /\ ~CsRises /\ CsGap \in 0 .. CsGap /\ dev.age >= CsGap
      BY <1>0, <1>1, <1>5 DEF HighFor
    <3> QED
      BY <1>1, <3>1
  <2> QED
    BY <1>0, <2>1, <2>2 DEF HighFor
<1>6. CASE ctl.state = "ASSERT_CS" \/ ctl.state \in Transfers
  <2>1. /\ ctl'.state \in Transfers \cup {"DEASSERT_CS"}
        /\ ctl'.state = "DEASSERT_CS" => ctl.state \in Transfers /\ ctl'.cs = FALSE
    BY <1>0, <1>6 DEF Edge, CommandStep, AddressStep, DummyStep, WriteStep, ReadStep, Held, Selected,
       Becomes, Transfers, CtlInv, CtlLines
  <2>2. ctl'.state = "DEASSERT_CS" => ctl'.wait = 0
    BY <1>0, <2>1 DEF TimeEdge
  <2> QED
    BY <1>0, <2>1, <2>2 DEF HighFor, Transfers
<1>7. CASE ctl.state = "DEASSERT_CS"
  <2>1. /\ ctl'.cs = TRUE /\ ctl'.state \in {"IDLE", "DEASSERT_CS"}
        /\ IF ctl'.state = "DEASSERT_CS" THEN ctl.wait # CsGap /\ ctl'.wait = ctl.wait + 1
           ELSE ctl.wait = CsGap
    BY <1>0, <1>7 DEF TimeEdge, Edge, Becomes
  <2>2. ctl.wait \in 0 .. CsGap /\ (IF ctl.cs THEN dev.age + 1 >= ctl.wait ELSE ctl.wait = 0)
    BY <1>7 DEF HighFor
  <2>3. dev'.age >= ctl.wait
    <3>1. CASE ctl.cs /\ ctl.wait # 0
      <4>1. ~CsFalls /\ ~CsRises
        BY <2>1, <3>1 DEF CsFalls, CsRises
      <4>2. ctl.wait - 1 \in 0 .. CsGap /\ dev.age >= ctl.wait - 1
        BY <1>0, <2>2, <3>1
      <4>3. dev'.age >= (ctl.wait - 1) + 1
        BY <1>1, <4>1, <4>2
      <4> QED
        BY <2>2, <4>3
    <3>2. CASE ctl.wait = 0
      BY <1>0, <3>2
    <3> QED
      BY <2>2, <3>1, <3>2
  <2> QED
    BY <1>0, <2>1, <2>2, <2>3 DEF HighFor
<1> QED
  BY <1>0, <1>2, <1>3, <1>4, <1>5, <1>6, <1>7 DEF CtlInv, CtlType, CtlStates, CtlLines

\* A byte takes as many edges in each state as its handshake needs.
LEMMA LowStep ==
  ASSUME TimedEdge, LowFor
  PROVE  LowFor'
<1>0. /\ CtlInv /\ CtlInv' /\ EngInv /\ CtlWord /\ Edge
      /\ WordEdge(call.start, call.cmd, call.addr, InByte)
      /\ dev.age \in Nat /\ dev'.age \in Nat /\ BurstLen \in 1 .. 63
      /\ CsFalls \/ CsRises => dev'.age = 0
      /\ ~CsFalls /\ ~CsRises => dev'.age <= dev.age + 1
  BY Ages, SizeAssumption DEF TimedEdge, BInv
<1>1. /\ ctl.state = "SEND_ADDRESS" => ctl.left \in 1 .. AddrBytes
      /\ ctl.state = "DUMMY_CYCLES" => ctl.left \in 1 .. DummyBytes
      /\ ctl.state \in {"WRITE_DATA", "READ_DATA"} => ctl.left \in 1 .. BurstLen
      /\ ctl.start <=> Waiting
      /\ ctl.state = "STARTUP" => ctl.op_en = (ctl.intra \in {2, 3})
      /\ ctl.state \in {"SEND_COMMAND", "SEND_ADDRESS", "WRITE_DATA"} => ctl.op_en
      /\ ctl.state \in {"DUMMY_CYCLES", "READ_DATA"} => ~ctl.op_en
      /\ ctl.state \in {"SEND_COMMAND", "SEND_ADDRESS", "DUMMY_CYCLES"} => ctl.intra \in 0 .. 1
      /\ ctl.state \in {"WRITE_DATA", "READ_DATA"} => ctl.intra \in 0 .. 2
  BY <1>0 DEF CtlInv, CtlType, CtlStart, CtlLines, CtlData, CtlWord, CtlCount, Transfers
<1>2. CASE ctl.start /\ ~eng.done
  <2>1. HeldWord
    BY <1>0, <1>2, WordHeld
  <2>2. Ticks' = Ticks + 1 /\ Ticks \in Nat
    BY <1>2, <2>1, TicksWithin DEF TimedEdge, BInv
  <2>3. ctl'.state = ctl.state /\ ctl'.intra = ctl.intra /\ ctl'.left = ctl.left
    BY <2>1 DEF HeldWord, Goes
  <2>4. ctl.state \in Transfers \/ (ctl.state = "STARTUP" /\ ctl.intra = 3)
    BY <1>1, <1>2 DEF Waiting
  <2>5. ~CsFalls /\ ~CsRises
    BY <1>2, <2>4, SelectEdges DEF Transfers
  <2>6. dev'.age <= dev.age + 1
    BY <1>0, <2>5
  <2>7. CASE ctl.state \in {"STARTUP", "SEND_COMMAND"}
    BY <1>0, <2>2, <2>3, <2>4, <2>6, <2>7 DEF LowFor, Transfers
  <2>8. CASE ctl.state = "SEND_ADDRESS"
    BY <1>0, <1>1, <2>2, <2>3, <2>6, <2>8 DEF LowFor, AddrBytes
  <2>9. CASE ctl.state = "DUMMY_CYCLES"
    BY <1>0, <1>1, <2>2, <2>3, <2>6, <2>9 DEF LowFor, DummyBytes
  <2>10. CASE ctl.state = "WRITE_DATA"
    BY <1>0, <1>1, <2>2, <2>3, <2>6, <2>10 DEF LowFor
  <2>11. CASE ctl.state = "READ_DATA"
    BY <1>0, <1>1, <2>2, <2>3, <2>6, <2>11 DEF LowFor
  <2> QED
    BY <2>4, <2>7, <2>8, <2>9, <2>10, <2>11 DEF Transfers
<1>3. CASE ~ctl.start \/ eng.done
  <2>1. /\ Ticks' = (IF ctl'.start THEN 1 ELSE 0)
        /\ ~ctl.start => Ticks = 0
        /\ ctl.start => Ticks = (IF ctl.state = "STARTUP" THEN 18 ELSE IF ctl.op_en THEN 6 ELSE 5)
    <3>1. ctl'.start \in BOOLEAN /\ (ctl'.start => ~ctl.start)
      BY <1>0, <1>3 DEF Edge, StartupStep, CommandStep, AddressStep, DummyStep, WriteStep, ReadStep,
         Held, Selected, Becomes, CtlInv, CtlType, CtlStart, Waiting, Transfers
    <3>2. Ticks' = (IF ctl'.start THEN 1 ELSE 0)
      BY <1>3, <3>1, TicksBetween DEF TimedEdge, BInv
    <3> QED
      BY <1>3, <3>2 DEF Ticks
  <2>2. ctl'.start <=> Waiting'
    BY <1>0 DEF CtlInv, CtlStart
  <2>a. CASE ctl.state = "STARTUP"
    <3>1. CASE ctl'.state = "STARTUP" /\ ctl'.intra = 2
      <4>1. ctl.intra = 1 /\ ctl.cs /\ ~ctl'.cs
        BY <1>0, <1>1, <2>a, <3>1 DEF Edge, StartupStep, Held, Becomes, CtlInv, CtlStart, CtlLines,
           Waiting, Transfers
      <4> QED
        BY <1>0, <2>1, <3>1, <4>1 DEF LowFor, CsFalls
    <3>2. CASE ctl'.state = "STARTUP" /\ ctl'.intra = 3
      <4>1. ctl.intra = 2 /\ ctl'.start
        BY <1>0, <1>1, <1>3, <2>a, <2>2, <3>2 DEF WordEdge, HeldWord, StartupWord, Waiting, CtlInv,
           CtlLines
      <4>2. ~ctl.start /\ ~CsFalls /\ ~CsRises
        BY <1>1, <2>a, <4>1, SelectEdges DEF Waiting, Transfers
      <4> QED
        BY <1>0, <2>1, <2>a, <3>2, <4>1, <4>2 DEF LowFor
    <3>3. CASE ctl'.state = "IDLE" \/ ctl'.intra \notin 2 .. 3
      <4>1. ctl'.state \in {"STARTUP", "IDLE"}
        BY <1>0, <2>a DEF WordEdge, HeldWord, StartupWord, Goes
      <4> QED
        BY <3>3, <4>1 DEF LowFor
    <3>4. ctl'.state \in {"STARTUP", "IDLE"}
      BY <1>0, <2>a DEF WordEdge, HeldWord, StartupWord, Goes
    <3> QED
      BY <1>0, <3>1, <3>2, <3>3, <3>4
  <2>b. CASE ctl.state \in {"IDLE", "DEASSERT_CS"}
    <3>1. ctl'.state \in {"IDLE", "ASSERT_CS"} \/ (ctl'.state = "DEASSERT_CS" /\ ctl'.cs)
      BY <1>0, <2>b DEF Edge, Becomes
    <3> QED
      BY <3>1 DEF LowFor
  <2>c. CASE ctl.state = "ASSERT_CS"
    <3>1. ctl'.state = "SEND_COMMAND" /\ ctl.cs /\ ~ctl'.cs /\ ~ctl'.start
      BY <1>0, <2>c DEF Edge, Selected, Becomes, CtlInv, CtlLines
    <3> QED
      BY <1>0, <2>1, <3>1 DEF LowFor, CsFalls
  <2>d. CASE ctl.state \in Transfers
    <3>1. dev'.age <= dev.age + 1
      BY <1>0, <2>d, SelectEdges DEF Transfers
    <3>2. CASE ctl.state = "SEND_COMMAND"
      <4>1. \/ ctl'.state = "SEND_COMMAND" /\ ~ctl.start /\ ctl'.start
            \/ ctl'.state = "SEND_ADDRESS" /\ ctl'.left = AddrBytes /\ ctl.start /\ ~ctl'.start
        BY <1>0, <1>3, <2>2, <3>2 DEF WordEdge, HeldWord, CommandWord, Goes, Waiting, Transfers
      <4> QED
        BY <1>0, <1>1, <2>1, <3>1, <3>2, <4>1 DEF LowFor, AddrBytes
    <3>3. CASE ctl.state = "SEND_ADDRESS"
      <4>1. \/ ctl'.state = "SEND_ADDRESS" /\ ctl'.left = ctl.left /\ ~ctl.start /\ ctl'.start
            \/ ctl'.state = "SEND_ADDRESS" /\ ctl'.left = ctl.left - 1 /\ ctl.start /\ ~ctl'.start
            \/ /\ ctl'.state = "DUMMY_CYCLES" /\ ctl.left = 1 /\ ctl'.left = DummyBytes
               /\ ctl.start /\ ~ctl'.start
            \/ /\ ctl'.state = "WRITE_DATA" /\ ctl'.intra = 0 /\ ctl.left = 1
               /\ ctl'.left = BurstLen /\ ctl.start /\ ~ctl'.start
        BY <1>0, <1>3, <2>2, <3>3 DEF WordEdge, HeldWord, AddressWord, Goes, Waiting, Transfers
      <4>2. dev.age <= 7 + 7 * (3 - ctl.left) + Ticks
        BY <3>3 DEF LowFor, AddrBytes
      <4> QED
        BY <1>0, <1>1, <2>1, <3>1, <3>3, <4>1, <4>2 DEF LowFor, AddrBytes, DummyBytes
    <3>4. CASE ctl.state = "DUMMY_CYCLES"
      <4>1. \/ ctl'.state = "DUMMY_CYCLES" /\ ctl'.left = ctl.left /\ ~ctl.start /\ ctl'.start
            \/ ctl'.state = "DUMMY_CYCLES" /\ ctl'.left = ctl.left - 1 /\ ctl.start /\ ~ctl'.start
            \/ /\ ctl'.state = "READ_DATA" /\ ctl'.intra = 0 /\ ctl.left = 1
               /\ ctl'.left = BurstLen /\ ctl.start /\ ~ctl'.start
        BY <1>0, <1>3, <2>2, <3>4 DEF WordEdge, HeldWord, DummyWord, Goes, Waiting, Transfers
      <4>2. dev.age <= 28 + 6 * (3 - ctl.left) + Ticks
        BY <3>4 DEF LowFor, DummyBytes
      <4> QED
        BY <1>0, <1>1, <2>1, <3>1, <3>4, <4>1, <4>2 DEF LowFor, DummyBytes
    <3>5. CASE ctl.state = "WRITE_DATA"
      <4>1. \/ /\ ctl'.state = "WRITE_DATA" /\ ctl'.left = ctl.left /\ ~ctl.start /\ ctl'.start
               /\ ctl.intra = 0 /\ ctl'.intra = 1
            \/ /\ ctl'.state = "WRITE_DATA" /\ ctl'.left = ctl.left /\ ~ctl.start /\ ~ctl'.start
               /\ ctl.intra = 2 /\ ctl'.intra = 0
            \/ /\ ctl'.state = "WRITE_DATA" /\ ctl'.left = ctl.left - 1 /\ ctl.start /\ ~ctl'.start
               /\ ctl'.intra = 2
            \/ ctl'.state = "DEASSERT_CS" /\ ctl.left = 1 /\ ctl.start
        BY <1>0, <1>3, <2>2, <3>5 DEF WordEdge, HeldWord, WriteWord, Goes, Waiting, Transfers
      <4>2. /\ dev.age <= 28 + 8 * (BurstLen - ctl.left) + Ticks - (IF ctl.intra = 2 THEN 1 ELSE 0)
            /\ ctl.start => ctl.intra = 1
        BY <1>1, <3>5 DEF LowFor, Waiting
      <4> QED
        BY <1>0, <1>1, <2>1, <3>1, <3>5, <4>1, <4>2 DEF LowFor
    <3>6. CASE ctl.state = "READ_DATA"
      <4>1. \/ /\ ctl'.state = "READ_DATA" /\ ctl'.left = ctl.left /\ ~ctl.start /\ ctl'.start
               /\ ctl.intra = 0 /\ ctl'.intra = 1
            \/ /\ ctl'.state = "READ_DATA" /\ ctl'.left = ctl.left /\ ctl.start /\ ~ctl'.start
               /\ ctl'.intra = 2
            \/ /\ ctl'.state = "READ_DATA" /\ ctl'.left = ctl.left - 1 /\ ~ctl.start /\ ~ctl'.start
               /\ ctl.intra = 2 /\ ctl'.intra = 0
            \/ ctl'.state = "DEASSERT_CS" /\ ctl.left = 1 /\ ~ctl.start /\ ctl.intra = 2
        BY <1>0, <1>3, <2>2, <3>6 DEF WordEdge, HeldWord, ReadWord, Goes, Waiting, Transfers
      <4>2. /\ dev.age <= 46 + 7 * (BurstLen - ctl.left) + Ticks + (IF ctl.intra = 2 THEN 6 ELSE 0)
            /\ ctl.start => ctl.intra = 1
        BY <1>1, <3>6 DEF LowFor, Waiting
      <4> QED
        BY <1>0, <1>1, <2>1, <3>1, <3>6, <4>1, <4>2 DEF LowFor
    <3> QED
      BY <2>d, <3>2, <3>3, <3>4, <3>5, <3>6 DEF Transfers
  <2> QED
    BY <1>0, <2>a, <2>b, <2>c, <2>d DEF CtlInv, CtlType, CtlStates
<1> QED
  BY <1>2, <1>3

LEMMA TimeInit == Init => TimeInv
<1> SUFFICES ASSUME Init PROVE TimeInv
  OBVIOUS
<1>1. ctl.state = "STARTUP" /\ ctl.intra = 0 /\ ctl.start = FALSE
  BY DEF Init, CtlInit
<1>2. dev.age = MaxAge
  BY DEF Init, DevInit
<1>3. Prompt
  BY <1>1 DEF Prompt
<1>4. HighFor /\ LowFor
  BY <1>1, <1>2, SizeAssumption DEF HighFor, LowFor
<1> QED
  BY <1>2, <1>3, <1>4, SizeAssumption DEF TimeInv

LEMMA TimeEdges ==
  ASSUME BInv, WordInv, TimeInv, Next
  PROVE  TimedEdge
<1>1. /\ CtlInv /\ EngInv /\ CallInv /\ CtlStrobes /\ CtlWord /\ EngWord
      /\ call.start \in BOOLEAN /\ call.cmd \in Commands /\ BurstLen \in 1 .. 63
  BY SizeAssumption DEF BInv, WordInv, CtlWord, CallInv
<1>2. Controller(call.start, call.cmd, call.addr, InByte) /\ Engine /\ Device
  BY DEF Next
<1>3. BInv' /\ WordInv'
  BY BusStep, WordStep
<1>4. CtlWord'
  BY <1>3 DEF WordInv
<1>5. Edge /\ EngineEdge /\ TimeEdge
  BY <1>1, <1>2, ControllerMoves, EngineMoves, ControllerTimes
<1>6. WordEdge(call.start, call.cmd, call.addr, InByte)
  BY <1>1, <1>2, ControllerWords
<1> QED
  BY <1>1, <1>2, <1>3, <1>4, <1>5, <1>6 DEF TimedEdge, TimeInv

LEMMA TimeStep == BInv /\ WordInv /\ TimeInv /\ [Next]_vars => TimeInv'
<1> SUFFICES ASSUME BInv, WordInv, TimeInv, [Next]_vars PROVE TimeInv'
  OBVIOUS
<1>1. CASE Next
  <2>1. TimedEdge
    BY <1>1, TimeEdges
  <2> QED
    BY <2>1, Ages, PromptStep, HighStep, LowStep DEF TimeInv
<1>2. CASE UNCHANGED vars
  BY <1>2 DEF vars, TimeInv, Prompt, HighFor, LowFor, Ticks, Up
<1> QED
  BY <1>1, <1>2

LEMMA OnTime ==
  BInv /\ WordInv /\ TimeInv /\ [Next]_vars =>
    [/\ CsFalls => dev.age > CsGap
     /\ CsRises => dev.age < MaxLow
     /\ CsFalls \/ CsRises => ~eng.sclk /\ ~eng'.sclk]_vars
<1> SUFFICES ASSUME BInv, WordInv, TimeInv, Next
             PROVE  /\ CsFalls => dev.age > CsGap
                    /\ CsRises => dev.age < MaxLow
                    /\ CsFalls \/ CsRises => ~eng.sclk /\ ~eng'.sclk
  OBVIOUS
<1>1. TimedEdge /\ HighFor /\ LowFor /\ CtlInv
  BY TimeEdges DEF TimeInv, BInv
<1>2. CsFalls => dev.age > CsGap
  BY <1>1, SelectEdges DEF HighFor
<1>3. CsRises => dev.age < MaxLow
  <2> SUFFICES ASSUME CsRises PROVE dev.age < MaxLow
    OBVIOUS
  <2>1. CASE ctl.state = "STARTUP" /\ ctl.intra = 3 /\ eng.done
    <3>1. ctl.start
      BY <1>1, <2>1 DEF CtlInv, CtlStart, Waiting
    <3>2. Ticks = 18
      BY <2>1, <3>1 DEF Ticks
    <3> QED
      BY <1>1, <2>1, <3>2 DEF LowFor, MaxLow, TimedEdge
  <2>2. CASE ctl.state = "DEASSERT_CS"
    <3>1. ~ctl.cs
      BY DEF CsRises
    <3> QED
      BY <1>1, <2>2, <3>1 DEF LowFor, MaxLow, TimedEdge
  <2> QED
    BY <1>1, <2>1, <2>2, SelectEdges
<1>4. CsFalls \/ CsRises => ~eng.sclk /\ ~eng'.sclk
  BY <1>1, SelectEdges
<1> QED
  BY <1>2, <1>3, <1>4

\* CS# moves only with sclk parked low, stays high for longer than the gap and
\* is never low for tCEM, for every gap and every burst up to the 63 bytes that
\* the length field holds (CS_GAP and DEASSERT_CS of SPIRAMCONTROLLER.v, the
\* limits of SPIRAM.v).
THEOREM ChipTimed == Spec => ChipTiming
<1> QED
  BY BusInit, BusStep, WordInit, WordStep, TimeInit, TimeStep, OnTime, PTL DEF Spec, ChipTiming
=============================================================================
