------------------------------ MODULE CacheQspi ------------------------------
(***************************************************************************)
(* The cache in front of the real memory path: CACHE.v, the controller,    *)
(* the engine and the chip, on one clock.  No source file wires the cache  *)
(* to the controller yet; the wiring here is the one their ports suggest   *)
(* (in_bytes to in_byte, byte_received to bytes_received, out_byte to      *)
(* out_bytes, busy to busy_w, 38h and the victim's address while the cache *)
(* writes back, EBh and the request's otherwise), and start_fsm from the   *)
(* two start strobes.                                                      *)
(*                                                                         *)
(* The controller looks at start_fsm in IDLE only, and after a burst it    *)
(* spends CS_GAP + 1 cycles in DEASSERT_CS.  The cache strobes             *)
(* retrieve_start a few cycles after the last byte of a write-back, inside *)
(* that gap.  So the strobe has to be kept until busy goes low: that is    *)
(* the register owed.  Without it the refill after a write-back never      *)
(* starts and the cache waits in INSTALL_LINE for ever.                    *)
(*                                                                         *)
(* The controller takes 24 of the 25 bits of qspi_address: the chip has    *)
(* half the lines the cache can name.                                      *)
(***************************************************************************)
EXTENDS Integers, Sequences, FiniteSets

CONSTANTS
  Tag, QspiTags, Index, Words, Lanes,  \* the cache's geometry
  ChipTags,                            \* tags the controller's 24 bits tell apart (2^10)
  Requests, None,                      \* what the processor asks, as in CacheSystem
  PwrUpCycles, CsGap, MaxAge,          \* the controller's delays
  Image                                \* the chip's memory at power-up

VARIABLES
  cache_state, accessed_data, at, victim_tag, tag_ram, valid, dirty, data_ram, read, fill,
  wb, in_bytes, ram_write_start, retrieve_start,      \* CACHE.v
  ctl, eng, dev,                                      \* controller, engine, chip
  ddc, cpu,                                           \* the processor
  owed                                                \* a start strobe not yet accepted

LineBytes == Words * Lanes
MemSize == ChipTags * Cardinality(Index) * LineBytes
ByteValue == 0 .. 255

Q == INSTANCE Qspi WITH
  call <- 0, WrapLen <- MemSize, BurstLen <- LineBytes, Starts <- 0 .. MemSize - 1,
  WriteData <- {}

FromPair(p) == 16 * p[1] + p[2]
ToPair(b) == <<b \div 16, b % 16>>

C == INSTANCE Cache WITH Byte <- ByteValue

vars == <<C!cacheVars, ctl, eng, dev, ddc, cpu, owed>>

\* Both widths are powers of two.
ASSUME ChipAssumption == ChipTags \in Nat \ {0} /\ QspiTags % ChipTags = 0

LineAddress(line) == (line.tag * Cardinality(Index) + line.idx) * LineBytes
ControllerAddress(address) == address % MemSize

-----------------------------------------------------------------------------
StartFsmDirect == ram_write_start \/ retrieve_start    \* a bare wire
StartFsm == StartFsmDirect \/ owed

Asked == IF cpu = None THEN CHOOSE r \in Requests : ~r.store ELSE cpu

CpuClock ==
  IF cpu = None
  THEN \/ UNCHANGED <<cpu, ddc>>
       \/ cpu' \in Requests /\ ddc' = TRUE
  ELSE /\ cpu' = IF C!CacheDone THEN None ELSE cpu
       /\ ddc' = (ddc /\ ctl.busy)

Init ==
  /\ C!CacheInit
  /\ ctl = Q!CtlInit /\ eng = Q!EngInit /\ dev = Q!DevInit
  /\ ddc = FALSE /\ cpu = None /\ owed = FALSE

Next ==
  /\ C!CacheClock(ddc, ctl.busy, Asked.address, Asked.store, Asked.n, Asked.data,
                  ctl.ready, FromPair(ctl.out), ctl.received)
  /\ Q!Controller(StartFsm, IF C!WbOwns THEN Q!WriteQuad ELSE Q!ReadQuad,
                  ControllerAddress(LineAddress(C!QspiLine)), ToPair(in_bytes))
  /\ Q!Engine
  /\ Q!Device
  /\ CpuClock
  /\ owed' = (StartFsm /\ ctl.busy)

Spec == Init /\ [][Next]_vars /\ WF_vars(Next)

-----------------------------------------------------------------------------
(* Properties *)

\* The memory the processor sees: a byte the cache holds, or the chip's.
Refilling == cache_state \in {"REFILL_LINE", "RETRIEVE_WAIT", "INSTALL_LINE"}
ChipTag(t) == t % ChipTags
ChipPlace == [tag : 0 .. ChipTags - 1, idx : Index, word : C!Word, bits : C!Lane]
Holds(a) ==
  valid[a.idx] /\ ChipTag(tag_ram[a.idx]) = a.tag /\ ~(Refilling /\ a.idx = at.idx)
ChipByte(a) ==
  FromPair(dev.mem[LineAddress(a) + a.word * Lanes + a.bits])

AsByteRequest(r) ==
  IF r = None THEN None
  ELSE [store |-> r.store, data |-> r.data,
        places |-> [i \in DOMAIN r.data |->
                      [r.address EXCEPT !.tag = ChipTag(@), !.bits = @ + i]]]

Memory == INSTANCE ByteMemory WITH
  Address <- ChipPlace, Byte <- ByteValue,
  Requests <- {AsByteRequest(r) : r \in Requests},
  memory <- [a \in ChipPlace |-> IF Holds(a) THEN data_ram[a.idx][a.word][a.bits]
                                 ELSE ChipByte(a)],
  request <- AsByteRequest(cpu),
  reply <- IF C!CacheDone THEN IF cpu.store THEN cpu.data ELSE C!LoadBytes(cpu.n) ELSE None

\* Loads and stores of the processor are those of one memory of bytes, the chip's,
\* down to the nibbles on the bus; addresses equal in the bits the chip gets are
\* one address.
ImplementsMemory == Memory!Spec

\* Every request is answered, through write-back, CS# gap and refill.
RequestServed == (cpu # None) ~> C!CacheDone
==============================================================================
