----------------------------- MODULE CacheSystem -----------------------------
(***************************************************************************)
(* The cache between a processor and a memory that transfers lines a byte  *)
(* at a time.  Neither side is connected in the sources yet (CM.v has no   *)
(* cache port, RISCV.v instantiates an older cache): both are modelled     *)
(* from the handshakes CACHE.v expects and CACHETestbench.v exercises.     *)
(*                                                                         *)
(* The processor raises ddc with a request, lowers it on the first edge    *)
(* with busy_w low, and holds address and store data until cache_done.     *)
(* The memory is told to start by a one-cycle pulse, needs Lead cycles     *)
(* before its first byte, and moves each byte after any delay.             *)
(***************************************************************************)
EXTENDS Cache, FiniteSets, Sequences

CONSTANTS
  Requests,  \* [store, n (bytes), address, data]: naturally aligned
  Image,     \* the memory at power-up: a byte for each place
  Lead,      \* least cycles from a start pulse to the first byte written
  None

\* The write-back engine shows its first byte three edges after its pulse; the
\* controller spends at least CS#, command and address on it before that.
ASSUME LeadAssumption == Lead \in Nat /\ Lead >= 2
ASSUME RequestAssumption ==
  \A r \in Requests :
    /\ r.store \in BOOLEAN
    /\ r.n \in 1 .. Lanes
    /\ r.address \in Address
    /\ r.address.bits % r.n = 0 /\ r.address.bits + r.n <= Lanes
    /\ r.data \in [0 .. r.n - 1 -> Byte]

\* The places of the memory: the addresses that qspi_address tells apart.
QspiTag == 0 .. QspiTags - 1
QspiAddress == [tag : QspiTag, idx : Index, word : Word, bits : Lane]

ASSUME MemoryAssumption == Image \in [QspiAddress -> Byte]

VARIABLES
  ddc,       \* the request strobe
  cpu,       \* the request the processor holds, or None
  mem,       \* the memory behind the cache
  link,      \* the transfer under way: operation, line, bytes done, byte held, delay
  ready, out_bytes, received   \* out_bytes_ready, out_bytes, bytes_received

vars == <<cacheVars, ddc, cpu, mem, link, ready, out_bytes, received>>

LineBytes == Words * Lanes
BytePlace(line, k) ==
  [tag |-> line.tag, idx |-> line.idx, word |-> k \div Lanes, bits |-> k % Lanes]

Quiet == [op |-> "idle", line |-> [tag |-> 0, idx |-> 0], n |-> 0, held |-> None, wait |-> 0]

-----------------------------------------------------------------------------
(* The processor *)

CpuClock(busy_w) ==
  IF cpu = None
  THEN \/ UNCHANGED <<cpu, ddc>>
       \/ cpu' \in Requests /\ ddc' = TRUE
  ELSE /\ cpu' = IF CacheDone THEN None ELSE cpu
       /\ ddc' = (ddc /\ busy_w)

Asked == IF cpu = None
         THEN [store |-> FALSE, n |-> 1, data |-> [i \in {0} |-> 0],
               address |-> [tag |-> 0, idx |-> 0, word |-> 0, bits |-> 0]]
         ELSE cpu

-----------------------------------------------------------------------------
(* The memory.  move says that the byte in hand may go in this cycle.      *)

Last == link.n = LineBytes - 1

MemoryClock(move) ==
  /\ ready' = (link.op = "read" /\ link.wait = 0 /\ move)
  /\ received' = (link.op = "write" /\ link.held # None /\ move)
  /\ out_bytes' = IF ready' THEN mem[BytePlace(link.line, link.n)] ELSE out_bytes
  /\ mem' = IF received' THEN [mem EXCEPT ![BytePlace(link.line, link.n)] = link.held] ELSE mem
  /\ link' =
       CASE link.op = "idle" ->
              IF ram_write_start \/ retrieve_start
              THEN [Quiet EXCEPT !.op = IF ram_write_start THEN "write" ELSE "read",
                                 !.line = QspiLine, !.wait = Lead]
              ELSE link
         [] link.op # "idle" /\ link.wait > 0 -> [link EXCEPT !.wait = @ - 1]
         [] link.op # "idle" /\ link.wait = 0 /\ ~move -> link
         [] link.op = "read" /\ link.wait = 0 /\ move ->
              IF Last THEN Quiet ELSE [link EXCEPT !.n = @ + 1]
         [] link.op = "write" /\ link.wait = 0 /\ move /\ link.held = None ->
              [link EXCEPT !.held = in_bytes]
         [] link.op = "write" /\ link.wait = 0 /\ move /\ link.held # None ->
              IF Last THEN Quiet
              ELSE [link EXCEPT !.n = @ + 1, !.held = None, !.wait = 1]

-----------------------------------------------------------------------------
Init ==
  /\ CacheInit
  /\ ddc = FALSE /\ cpu = None
  /\ mem = Image
  /\ link = Quiet
  /\ ready = FALSE /\ out_bytes = 0 /\ received = FALSE

Tick(busy_w, move) ==
  /\ CacheClock(ddc, busy_w, Asked.address, Asked.store, Asked.n, Asked.data,
                ready, out_bytes, received)
  /\ CpuClock(busy_w)
  /\ MemoryClock(move)

Next == \E busy_w, move \in BOOLEAN : Tick(busy_w, move)

\* The clock runs, busy_w does not stay high for ever and neither does a byte
\* stay under way for ever.
Fairness ==
  /\ WF_vars(\E move \in BOOLEAN : Tick(FALSE, move))
  /\ WF_vars(\E busy_w \in BOOLEAN : Tick(busy_w, TRUE))

Spec == Init /\ [][Next]_vars /\ Fairness

-----------------------------------------------------------------------------
(* Properties *)

Link == [op : {"idle", "read", "write"}, line : [tag : QspiTag, idx : Index],
         n : 0 .. LineBytes - 1, held : Byte \cup {None}, wait : 0 .. Lead + 1]

TypeOK ==
  /\ CacheTypeOK
  /\ ddc \in BOOLEAN
  /\ cpu \in Requests \cup {None}
  /\ mem \in [QspiAddress -> Byte]
  /\ link \in Link
  /\ ready \in BOOLEAN /\ out_bytes \in Byte /\ received \in BOOLEAN

Refilling == cache_state \in {"REFILL_LINE", "RETRIEVE_WAIT", "INSTALL_LINE"}

\* The cache holds the bytes of place a (and not a line being replaced).
Holds(a) ==
  valid[a.idx] /\ WireTag(tag_ram[a.idx]) = a.tag /\ ~(Refilling /\ a.idx = at.idx)
CachedByte(a) == data_ram[a.idx][a.word][a.bits]
ByteAt(a) == IF Holds(a) THEN CachedByte(a) ELSE mem[a]
Answer == IF CacheDone THEN IF cpu.store THEN cpu.data ELSE LoadBytes(cpu.n) ELSE None

\* CACHE.v:220-224, "the CPU, the refill engine and the write-back engine never
\* touch the arrays in the same cycle": the refill engine writes only while a
\* line is installed, the write-back engine runs only in WRITE_BACK, and there
\* is at most one of the two.
OneOwner ==
  /\ fill.on \/ fill.we => cache_state \in {"RETRIEVE_WAIT", "INSTALL_LINE"}
  /\ wb.state # 0 \/ ram_write_start => cache_state = "WRITE_BACK"

\* The memory the processor sees: a byte the cache holds, or the one behind it.
\* Addresses that differ above the wires of qspi_address name the same byte.
Places(r) ==
  [i \in DOMAIN r.data |-> [r.address EXCEPT !.tag = WireTag(@), !.bits = @ + i]]
AsByteRequest(r) ==
  IF r = None THEN None
  ELSE [store |-> r.store, places |-> Places(r), data |-> r.data]

\* None is no request and no reply.
ASSUME NoneAssumption ==
  /\ None \notin Byte
  /\ \A r \in Requests : r # None /\ AsByteRequest(r) # None
  /\ \A n \in 1 .. Lanes : None \notin [0 .. n - 1 -> Byte]

Memory == INSTANCE ByteMemory WITH
  Address <- QspiAddress,
  Requests <- {AsByteRequest(r) : r \in Requests},
  memory <- [a \in QspiAddress |-> ByteAt(a)],
  request <- AsByteRequest(cpu),
  reply <- Answer

\* Loads and stores through the cache, with its write-backs and refills, are
\* those of one memory of bytes, one for each place.  Lines whose tags differ
\* above the wires are one line of the memory, and so share its bytes: a direct
\* mapped cache has room for one of them, and the write-back of one comes before
\* the refill of the next.
ImplementsMemory == Memory!Spec

\* Every request is answered by cache_done, whatever delays the memory and
\* busy_w put in its way.
RequestServed == (cpu # None) ~> CacheDone
==============================================================================
