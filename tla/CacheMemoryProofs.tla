-------------------------- MODULE CacheMemoryProofs --------------------------
(***************************************************************************)
(* CacheSystem implements ByteMemory: loads and stores through the cache,  *)
(* with its write-backs and refills, are those of one memory of bytes, for *)
(* every geometry, every set of requests and every timing of processor and *)
(* memory.  The invariant says, in each state of the cache, which bytes of *)
(* a line are where: in the array, behind the cache, or on their way.      *)
(***************************************************************************)
EXTENDS CacheProofs

USE GeometryAssumption, PowerUpAssumption DEF Word, Lane

-----------------------------------------------------------------------------
(* The invariant.                                                          *)

\* The place in the memory of a byte of the line of a tag.
Spot(t, idx, w, b) == [tag |-> WireTag(t), idx |-> idx, word |-> w, bits |-> b]
Here == [tag |-> WireTag(at.tag), idx |-> at.idx]
Victim == [tag |-> WireTag(victim_tag), idx |-> at.idx]
Line == data_ram[at.idx]

\* Bytes of a line in the order they are moved.
Before(v, a, w, b) == v < w \/ (v = w /\ a < b)
LastByte(w, b) == w = Words - 1 /\ b = Lanes - 1
Moving(op, line, n, held, wait) ==
  [op |-> op, line |-> line, n |-> n, held |-> held, wait |-> wait]

\* The processor waits from its request to cache_done; the request is latched.
Held ==
  /\ cache_state = "IDLE" => (ddc <=> cpu # None)
  /\ cache_state # "IDLE" => ~ddc /\ cpu # None /\ at = cpu.address

\* A valid line that is not dirty is the one behind the cache.
Same(i) ==
  \A w \in Word, b \in Lane : data_ram[i][w][b] = mem[Spot(tag_ram[i], i, w, b)]
Clean ==
  \A i \in Index :
    /\ dirty[i] => valid[i]
    /\ valid[i] /\ ~dirty[i] /\ ~(Refilling /\ i = at.idx) => Same(i)

\* What has been read from the arrays when it is looked at.
Looked ==
  read.tag = tag_ram[at.idx] /\ read.valid = valid[at.idx] /\ read.dirty = dirty[at.idx]
Seen ==
  /\ cache_state = "ACCESS" /\ accessed_data => Looked /\ read.word = Line[at.word]
  /\ cache_state = "MISS" => Looked
  /\ cache_state = "MERGE" => valid[at.idx] /\ tag_ram[at.idx] = at.tag /\ cpu.store

\* Between transfers.
Rests == link = Quiet /\ ~ready /\ ~received /\ ~retrieve_start
Resting == cache_state \notin {"WRITE_BACK", "RETRIEVE_WAIT", "INSTALL_LINE"} => Rests

\* A write-back: the bytes before (w, b) are behind the cache.
Written(w, b) ==
  \A v \in Word, a \in Lane :
    Before(v, a, w, b) => mem[Spot(victim_tag, at.idx, v, a)] = Line[v][a]
Starting ==
  ram_write_start /\ wb.state = 0 /\ ~wb.done /\ link = Quiet /\ ~received
Priming ==
  /\ ~ram_write_start /\ wb.state \in {1, 2} /\ ~wb.done /\ wb.bits = 0 /\ ~received
  /\ link = Moving("write", Victim, 0, None, Lead + 1 - wb.state)
  /\ wb.state = 1 => wb.word = 0
  /\ wb.state = 2 => wb.word = NextWord(0) /\ read.word = Line[0]
\* The engine presents byte b of word w and has the word after it in sight.
Presents(w, b) ==
  /\ wb.word = NextWord(w) /\ (b # 0 => read.word = Line[wb.word])
  /\ in_bytes = Line[w][b]
  /\ \A l \in Lane : l + b < Lanes => wb.shift[l] = Line[w][l + b]
Gone(w, b) ==
  /\ mem[Spot(victim_tag, at.idx, w, b)] = Line[w][b]
  /\ link = IF LastByte(w, b) THEN Quiet
            ELSE Moving("write", Victim, w * Lanes + b + 1, None, 1)
Going(w, b) ==
  /\ link = Moving("write", Victim, w * Lanes + b, link.held, link.wait)
  /\ link.held = None \/ (link.held = in_bytes /\ link.wait = 0)
  /\ link.wait \in Nat
Sending ==
  /\ ~ram_write_start /\ wb.state = 3 /\ ~wb.done
  /\ \E w \in Word :
       /\ Presents(w, wb.bits) /\ Written(w, wb.bits)
       /\ IF received THEN Gone(w, wb.bits) ELSE Going(w, wb.bits)
Sent ==
  /\ ~ram_write_start /\ wb.state = 0 /\ wb.done /\ link = Quiet /\ ~received
  /\ Written(Words, 0)
WritingBack ==
  cache_state = "WRITE_BACK" =>
    /\ victim_tag = tag_ram[at.idx] /\ dirty[at.idx] /\ ~ready /\ ~retrieve_start
    /\ Starting \/ Priming \/ Sending \/ Sent

\* A refill: the words before fill.ptr are in the array, (w, b) comes next.
Installed(w) ==
  \A v \in Word, a \in Lane : v < w => Line[v][a] = mem[Spot(at.tag, at.idx, v, a)]
Filled(w, b) ==
  \A a \in Lane : a < b => fill.word[a] = mem[Spot(at.tag, at.idx, w, a)]
Coming(n) == link = Moving("read", Here, n, None, link.wait) /\ link.wait \in Nat
Due(w, b) ==
  IF ready
  THEN /\ out_bytes = mem[Spot(at.tag, at.idx, w, b)]
       /\ IF LastByte(w, b) THEN link = Quiet ELSE Coming(w * Lanes + b + 1)
  ELSE Coming(w * Lanes + b)
Asking ==
  /\ link = Quiet /\ ~ready /\ retrieve_start
  /\ fill.on /\ ~fill.we /\ ~fill.done /\ fill.ptr = 0 /\ fill.bits = 0
Filling ==
  /\ fill.on /\ ~fill.we /\ ~fill.done
  /\ Installed(fill.ptr) /\ Filled(fill.ptr, fill.bits) /\ Due(fill.ptr, fill.bits)
Storing ==
  /\ fill.on /\ fill.we /\ ~fill.done /\ fill.bits = 0
  /\ Installed(fill.ptr) /\ Filled(fill.ptr, Lanes)
  /\ IF fill.ptr = Words - 1 THEN link = Quiet /\ ~ready ELSE Due(fill.ptr + 1, 0)
Complete ==
  /\ ~fill.on /\ ~fill.we /\ fill.done /\ link = Quiet /\ ~ready
  /\ Installed(Words)
Refills ==
  /\ Refilling => ~received
  /\ cache_state = "RETRIEVE_WAIT" => Asking
  /\ cache_state = "INSTALL_LINE" =>
       ~retrieve_start /\ (Filling \/ Storing \/ Complete)

LineInv == Held /\ Clean /\ Seen /\ Resting /\ WritingBack /\ Refills

-----------------------------------------------------------------------------
(* The places of a line.                                                   *)

LEMMA Quotient ==
  ASSUME NEW l \in Nat \ {0}, NEW w \in Nat, NEW b \in 0 .. l - 1
  PROVE  (w * l + b) \div l = w /\ (w * l + b) % l = b
<1> DEFINE x == w * l + b
           q == x \div l
           r == x % l
<1>1. x \in Nat
  BY SMT
<1>2. q \in Nat /\ r \in 0 .. l - 1 /\ x = l * q + r
  BY <1>1, SMT
<1>3. CASE q < w
  <2>1. PICK d \in Nat : w = q + 1 + d
    <3>1. w - q - 1 \in Nat /\ w = q + 1 + (w - q - 1)
      BY <1>2, <1>3
    <3>2. QED BY <3>1
  <2>2. w * l = q * l + l + d * l /\ d * l \in Nat
    BY <1>2, <2>1, SMT
  <2>3. x >= l * q + l
    BY <1>2, <2>2, SMT
  <2> HIDE DEF x, q, r
  <2>4. QED
    BY <1>2, <2>3, SMT
<1>4. CASE q > w
  <2>1. PICK d \in Nat : q = w + 1 + d
    <3>1. q - w - 1 \in Nat /\ q = w + 1 + (q - w - 1)
      BY <1>2, <1>4
    <3>2. QED BY <3>1
  <2>2. l * q = w * l + l + d * l /\ d * l \in Nat
    BY <1>2, <2>1, SMT
  <2>3. l * q > x
    BY <1>2, <2>2, SMT
  <2> HIDE DEF x, q, r
  <2>4. QED
    BY <1>2, <2>3, SMT
<1>5. CASE q = w
  <2>1. x = l * w + r
    BY <1>2, <1>5
  <2>2. l * w = w * l
    OBVIOUS
  <2>3. r = b
    <3>1. x = w * l + b
      OBVIOUS
    <3>2. w * l \in Nat
      OBVIOUS
    <3> HIDE DEF x, r
    <3>3. QED BY <2>1, <2>2, <3>1, <3>2, <1>2
  <2>4. QED BY <1>5, <2>3
<1>6. QED
  <2> HIDE DEF q
  <2>1. QED BY <1>2, <1>3, <1>4, <1>5

LEMMA SpotType ==
  ASSUME NEW t \in Tag, NEW i \in Index, NEW w \in Word, NEW b \in Lane
  PROVE  Spot(t, i, w, b) \in QspiAddress
BY WireTagType DEF Spot, QspiAddress

LEMMA Place ==
  ASSUME NEW t, NEW i, NEW w \in Word, NEW b \in Lane
  PROVE  BytePlace([tag |-> WireTag(t), idx |-> i], w * Lanes + b) = Spot(t, i, w, b)
<1>1. Lanes \in Nat \ {0} /\ w \in Nat /\ b \in 0 .. Lanes - 1
  OBVIOUS
<1>2. (w * Lanes + b) \div Lanes = w /\ (w * Lanes + b) % Lanes = b
  BY <1>1, Quotient
<1>3. QED
  BY <1>2 DEF BytePlace, Spot

\* The last byte of a line is the last lane of its last word.
LEMMA LastPlace ==
  ASSUME NEW w \in Word, NEW b \in Lane
  PROVE  (w * Lanes + b = LineBytes - 1) <=> LastByte(w, b)
<1>1. Lanes \in Nat \ {0} /\ Words \in Nat \ {0} /\ w \in Nat /\ b \in Nat /\ w < Words
      /\ b < Lanes
  OBVIOUS
<1>2. w * Lanes \in Nat /\ Words * Lanes \in Nat
  BY <1>1, SMT
<1>3. CASE w = Words - 1
  <2>1. w * Lanes = Words * Lanes - Lanes
    BY <1>1, <1>3, SMT
  <2>2. QED
    BY <1>1, <1>2, <1>3, <2>1 DEF LastByte, LineBytes
<1>4. CASE w # Words - 1
  <2>1. PICK d \in Nat : Words = w + 2 + d
    <3>1. Words - w - 2 \in Nat /\ Words = w + 2 + (Words - w - 2)
      BY <1>1, <1>4
    <3>2. QED BY <3>1
  <2>2. Words * Lanes = w * Lanes + 2 * Lanes + d * Lanes /\ d * Lanes \in Nat
    BY <1>1, <2>1, SMT
  <2>3. QED
    BY <1>1, <1>2, <1>4, <2>2 DEF LastByte, LineBytes
<1>5. QED BY <1>3, <1>4

\* After the last lane of a word comes the first of the next.
LEMMA NextPlace ==
  ASSUME NEW w \in Word
  PROVE  w * Lanes + (Lanes - 1) + 1 = (w + 1) * Lanes + 0
<1>1. Lanes \in Nat /\ w \in Nat
  OBVIOUS
<1>2. QED
  BY <1>1, SMT

LEMMA NextWordIs ==
  ASSUME NEW w \in Word
  PROVE  NextWord(w) = IF w = Words - 1 THEN 0 ELSE w + 1
<1>1. CASE w = Words - 1
  <2>1. w + 1 = Words /\ Words % Words = 0
    BY <1>1
  <2>2. QED BY <1>1, <2>1 DEF NextWord
<1>2. CASE w # Words - 1
  <2>1. w + 1 \in 0 .. Words - 1
    BY <1>2
  <2>2. (w + 1) % Words = w + 1
    BY <2>1
  <2>3. QED BY <1>2, <2>2 DEF NextWord
<1>3. QED BY <1>1, <1>2

\* What comes before the next byte is what came before this one, and this one.
LEMMA BeforeNextByte ==
  ASSUME NEW w \in Word, NEW b \in Lane, NEW v \in Word, NEW a \in Lane, b < Lanes - 1
  PROVE  Before(v, a, w, b + 1) <=> Before(v, a, w, b) \/ (v = w /\ a = b)
BY DEF Before

LEMMA BeforeNextWord ==
  ASSUME NEW w \in Word, NEW v \in Word, NEW a \in Lane
  PROVE  Before(v, a, w + 1, 0) <=> Before(v, a, w, Lanes - 1) \/ (v = w /\ a = Lanes - 1)
BY DEF Before

-----------------------------------------------------------------------------
(* What one clock edge does, block by block.                               *)

LEMMA FillMore ==
  ASSUME FillEngine(ready, out_bytes)
  PROVE  /\ fill'.word = IF fill.on /\ ready
                         THEN [fill.word EXCEPT ![fill.bits] = out_bytes] ELSE fill.word
         /\ fill'.ptr = IF fill.we THEN NextWord(fill.ptr)
                        ELSE IF cache_state = "REFILL_LINE" THEN 0 ELSE fill.ptr
BY DEF FillEngine

LEMMA WbMore ==
  ASSUME WriteBackEngine(received)
  PROVE  LET taken == wb.state = 3 /\ received
             wordOut == taken /\ wb.bits = Lanes - 1
             lineOut == wordOut /\ wb.word = 0
             next == wordOut /\ ~lineOut
             load == wb.state = 2 \/ next
         IN  /\ wb'.done = lineOut
             /\ wb'.word = IF wb.state = 0 /\ ram_write_start THEN 0
                           ELSE IF wb.state = 1 THEN NextWord(0)
                           ELSE IF next THEN NextWord(wb.word) ELSE wb.word
             /\ wb'.bits = IF (wb.state = 0 /\ ram_write_start) \/ wordOut THEN 0
                           ELSE IF taken THEN wb.bits + 1 ELSE wb.bits
             /\ wb'.shift = IF load THEN read.word
                            ELSE IF taken /\ ~wordOut THEN Shifted(wb.shift) ELSE wb.shift
             /\ in_bytes' = IF load THEN read.word[0]
                            ELSE IF taken /\ ~wordOut THEN wb.shift[1] ELSE in_bytes
<1>1. wb'.done = (((wb.state = 3 /\ received) /\ wb.bits = Lanes - 1) /\ wb.word = 0)
  BY DEF WriteBackEngine
<1>2. wb'.word = IF wb.state = 0 /\ ram_write_start THEN 0
                 ELSE IF wb.state = 1 THEN NextWord(0)
                 ELSE IF ((wb.state = 3 /\ received) /\ wb.bits = Lanes - 1)
                         /\ ~(((wb.state = 3 /\ received) /\ wb.bits = Lanes - 1) /\ wb.word = 0)
                      THEN NextWord(wb.word) ELSE wb.word
  BY DEF WriteBackEngine
<1>3. wb'.bits = IF (wb.state = 0 /\ ram_write_start)
                    \/ ((wb.state = 3 /\ received) /\ wb.bits = Lanes - 1) THEN 0
                 ELSE IF wb.state = 3 /\ received THEN wb.bits + 1 ELSE wb.bits
  BY DEF WriteBackEngine
<1>4. wb'.shift = IF wb.state = 2 \/ (((wb.state = 3 /\ received) /\ wb.bits = Lanes - 1)
                         /\ ~(((wb.state = 3 /\ received) /\ wb.bits = Lanes - 1) /\ wb.word = 0))
                  THEN read.word
                  ELSE IF (wb.state = 3 /\ received)
                          /\ ~((wb.state = 3 /\ received) /\ wb.bits = Lanes - 1)
                       THEN Shifted(wb.shift) ELSE wb.shift
  BY DEF WriteBackEngine
<1>5. in_bytes' = IF wb.state = 2 \/ (((wb.state = 3 /\ received) /\ wb.bits = Lanes - 1)
                         /\ ~(((wb.state = 3 /\ received) /\ wb.bits = Lanes - 1) /\ wb.word = 0))
                  THEN read.word[0]
                  ELSE IF (wb.state = 3 /\ received)
                          /\ ~((wb.state = 3 /\ received) /\ wb.bits = Lanes - 1)
                       THEN wb.shift[1] ELSE in_bytes
  BY DEF WriteBackEngine
<1>6. QED
  BY <1>1, <1>2, <1>3, <1>4, <1>5, Zenon

LEMMA ReadFields ==
  ASSUME ReadPort
  PROVE  /\ read'.tag = tag_ram[at.idx] /\ read'.valid = valid[at.idx]
         /\ read'.dirty = dirty[at.idx]
         /\ CpuOwns \/ WbOwns \/ cache_state = "RETRIEVE_WAIT" => read'.word = Line[RamWord]
BY DEF ReadPort, Line

\* The processor's side of an edge.
LEMMA CpuEdge ==
  ASSUME NEW busy \in BOOLEAN, NEW move \in BOOLEAN, Tick(busy, move), TypeOK, LineInv,
         cache_state # "IDLE"
  PROVE  /\ at' = at /\ ~ddc'
         /\ cache_state # "FINISH" => cpu' = cpu
         /\ cache_state = "FINISH" => cpu' = None
         /\ Asked = cpu /\ cpu \in Requests /\ at = cpu.address
<1>1. ~ddc /\ cpu # None /\ at = cpu.address
  BY DEF LineInv, Held
<1>2. at' = at
  BY DEF Tick, CacheClock, AddressLatch
<1>3. ~ddc' /\ cpu' = IF CacheDone THEN None ELSE cpu
  BY <1>1 DEF Tick, CpuClock
<1>4. QED
  BY <1>1, <1>2, <1>3 DEF CacheDone, Asked, TypeOK

\* Outside INSTALL_LINE and MERGE the arrays keep their contents.
LEMMA ArraysKept ==
  ASSUME NEW busy \in BOOLEAN, NEW move \in BOOLEAN, Tick(busy, move), Turns,
         cache_state \notin {"INSTALL_LINE", "MERGE"}
  PROVE  UNCHANGED <<tag_ram, valid, dirty, data_ram>>
<1>1. ~fill.we
  BY DEF Turns, RefillTurn
<1>2. QED
  BY <1>1 DEF Tick, CacheClock, TagArray, LineStatus, DataArray, TagWe, StoreLands

\* A memory with nothing to do and no pulse does nothing.
LEMMA MemoryRests ==
  ASSUME NEW move \in BOOLEAN, MemoryClock(move), link = Quiet, ~ram_write_start,
         ~retrieve_start
  PROVE  link' = Quiet /\ ~ready' /\ ~received' /\ mem' = mem
<1>1. link.op = "idle"
  BY DEF Quiet
<1>2. QED
  BY <1>1 DEF MemoryClock

\* Outside the transfers nothing moves.
LEMMA RestEdge ==
  ASSUME NEW busy \in BOOLEAN, NEW move \in BOOLEAN, Tick(busy, move), TypeOK, Turns, LineInv,
         cache_state \notin {"WRITE_BACK", "RETRIEVE_WAIT", "INSTALL_LINE"}
  PROVE  /\ link' = Quiet /\ ~ready' /\ ~received' /\ mem' = mem
         /\ retrieve_start' <=> cache_state = "REFILL_LINE"
<1>1. Rests
  BY DEF LineInv, Resting
<1>2. ~ram_write_start
  BY DEF Turns, WriteBackTurn
<1>3. MemoryClock(move)
  BY DEF Tick
<1>4. link' = Quiet /\ ~ready' /\ ~received' /\ mem' = mem
  BY <1>1, <1>2, <1>3, MemoryRests DEF Rests
<1>5. retrieve_start' <=> cache_state = "REFILL_LINE"
  BY <1>1 DEF Rests, Tick, CacheClock, Strobes
<1>6. QED
  BY <1>4, <1>5

LEMMA CleanKept ==
  ASSUME Clean, mem' = mem, UNCHANGED <<tag_ram, valid, dirty, data_ram>>,
         Refilling => Refilling' /\ at' = at
  PROVE  Clean'
BY DEF Clean, Same

-----------------------------------------------------------------------------
(* The invariant through the states that move no line.                     *)

LEMMA IdleStep ==
  ASSUME NEW busy \in BOOLEAN, NEW move \in BOOLEAN, Tick(busy, move), TypeOK, Turns, LineInv,
         cache_state = "IDLE"
  PROVE  LineInv'
<1>1. cache_state' = IF ddc /\ ~busy THEN "ACCESS" ELSE "IDLE"
  BY DEF Tick, CacheClock, MainFsm
<1>2. Held'
  <2>1. ddc <=> cpu # None
    BY DEF LineInv, Held
  <2>2. CASE ddc
    <3>1. cpu' = cpu /\ ddc' = busy /\ at' = cpu.address
      BY <2>1, <2>2 DEF Tick, CacheClock, CpuClock, CacheDone, AddressLatch, Asked
    <3>2. QED BY <1>1, <2>1, <2>2, <3>1 DEF Held
  <2>3. CASE ~ddc
    <3>1. \/ cpu' = None /\ ~ddc'
          \/ cpu' # None /\ ddc'
      BY <2>1, <2>3, NoneAssumption DEF Tick, CpuClock
    <3>2. QED BY <1>1, <2>3, <3>1 DEF Held
  <2>4. QED BY <2>2, <2>3
<1>3. Clean'
  <2>1. Clean
    BY DEF LineInv
  <2>2. QED BY <2>1, ArraysKept, RestEdge, CleanKept DEF Refilling
<1>4. Seen'
  BY <1>1 DEF Seen, Tick, CacheClock, Strobes
<1>5. Resting'
  BY RestEdge DEF Resting, Rests
<1>6. WritingBack' /\ Refills'
  BY <1>1, RestEdge DEF WritingBack, Refills, Refilling
<1>7. QED
  BY <1>2, <1>3, <1>4, <1>5, <1>6 DEF LineInv

\* The states in which a request waits and no line moves.
LEMMA StillStep ==
  ASSUME NEW busy \in BOOLEAN, NEW move \in BOOLEAN, Tick(busy, move), TypeOK, Turns, LineInv,
         cache_state \in {"ACCESS", "ACCESS2", "FINISH"}
  PROVE  LineInv'
<1>1. cache_state' =
        CASE cache_state = "ACCESS" -> IF ~accessed_data THEN "ACCESS"
                                       ELSE IF ~Hit THEN "MISS"
                                       ELSE IF Asked.store THEN "MERGE" ELSE "FINISH"
          [] cache_state = "ACCESS2" -> "ACCESS"
          [] cache_state = "FINISH" -> "IDLE"
  BY DEF Tick, CacheClock, MainFsm
<1>2. Held /\ Clean /\ Seen
  BY DEF LineInv
<1>3. Held'
  BY <1>1, <1>2, CpuEdge DEF Held
<1>4. UNCHANGED <<tag_ram, valid, dirty, data_ram>>
  BY ArraysKept
<1>5. Clean'
  BY <1>2, <1>4, RestEdge, CleanKept DEF Refilling
<1>6. Seen'
  <2>1. CASE cache_state # "ACCESS"
    <3>1. ~accessed_data'
      BY <2>1 DEF Tick, CacheClock, Strobes
    <3>2. QED BY <1>1, <2>1, <3>1 DEF Seen
  <2>2. CASE cache_state = "ACCESS"
    <3>1. read'.tag = tag_ram[at.idx] /\ read'.valid = valid[at.idx]
          /\ read'.dirty = dirty[at.idx] /\ read'.word = data_ram[at.idx][at.word]
      BY <2>2, ReadFields DEF Tick, CacheClock, CpuOwns, RamWord, Line
    <3>2. Looked' /\ read'.word = Line'[at.word]
      BY <1>4, <3>1, CpuEdge, <2>2 DEF Looked, Line
    <3>3. cache_state' = "MERGE" => valid[at.idx] /\ tag_ram[at.idx] = at.tag /\ cpu.store
      BY <1>1, <1>2, <2>2, CpuEdge DEF Seen, Looked, Hit
    <3>4. QED BY <1>4, <2>2, <3>2, <3>3, CpuEdge DEF Seen
  <2>3. QED BY <2>1, <2>2
<1>7. Resting'
  BY RestEdge DEF Resting, Rests
<1>8. WritingBack' /\ Refills'
  BY <1>1, RestEdge DEF WritingBack, Refills, Refilling
<1>9. QED
  BY <1>3, <1>5, <1>6, <1>7, <1>8 DEF LineInv

LEMMA MissStep ==
  ASSUME NEW busy \in BOOLEAN, NEW move \in BOOLEAN, Tick(busy, move), TypeOK, Turns, LineInv,
         cache_state = "MISS"
  PROVE  LineInv'
<1>1. cache_state' = IF read.dirty THEN "WRITE_BACK" ELSE "REFILL_LINE"
  BY DEF Tick, CacheClock, MainFsm
<1>2. Held /\ Clean /\ Looked
  BY DEF LineInv, Seen
<1>3. Held'
  BY <1>1, <1>2, CpuEdge DEF Held
<1>4. UNCHANGED <<tag_ram, valid, dirty, data_ram>>
  BY ArraysKept
<1>5. Clean'
  BY <1>2, <1>4, RestEdge, CleanKept DEF Refilling
<1>6. Seen'
  BY <1>1 DEF Seen
<1>7. Resting'
  BY RestEdge DEF Resting, Rests
<1>8. WritingBack'
  <2> SUFFICES ASSUME read.dirty PROVE WritingBack'
    BY <1>1 DEF WritingBack
  <2>1. victim_tag' = tag_ram[at.idx] /\ dirty[at.idx]
    BY <1>2 DEF Looked, Tick, CacheClock, TagArray
  <2>2. ram_write_start'
    BY DEF Tick, CacheClock, Strobes
  <2>3. wb.state = 0 /\ ~ram_write_start
    BY DEF Turns, WriteBackTurn
  <2>4. wb'.state = 0 /\ ~wb'.done
    BY <2>3, WbFields DEF Tick, CacheClock
  <2>5. Starting'
    BY <2>2, <2>4, RestEdge DEF Starting
  <2>6. QED
    BY <1>4, <2>1, <2>5, RestEdge, CpuEdge DEF WritingBack
<1>9. Refills'
  BY <1>1, RestEdge DEF Refills
<1>10. QED
  BY <1>3, <1>5, <1>6, <1>7, <1>8, <1>9 DEF LineInv

LEMMA AskStep ==
  ASSUME NEW busy \in BOOLEAN, NEW move \in BOOLEAN, Tick(busy, move), TypeOK, Turns, LineInv,
         cache_state = "REFILL_LINE"
  PROVE  LineInv'
<1>1. cache_state' = "RETRIEVE_WAIT"
  BY DEF Tick, CacheClock, MainFsm
<1>2. Held /\ Clean
  BY DEF LineInv
<1>3. Held'
  BY <1>1, <1>2, CpuEdge DEF Held
<1>4. UNCHANGED <<tag_ram, valid, dirty, data_ram>>
  BY ArraysKept
<1>5. Clean'
  BY <1>1, <1>2, <1>4, RestEdge, CpuEdge, CleanKept DEF Refilling
<1>6. Seen' /\ Resting' /\ WritingBack'
  BY <1>1 DEF Seen, Resting, WritingBack
<1>7. Refills'
  <2>1. ~fill.on /\ ~fill.we
    BY DEF Turns, RefillTurn
  <2>2. fill'.on /\ ~fill'.we /\ ~fill'.done /\ fill'.ptr = 0 /\ fill'.bits = 0
    BY <2>1, FillFields, FillMore DEF Tick, CacheClock
  <2>3. Asking'
    BY <2>2, RestEdge DEF Asking
  <2>4. QED
    BY <1>1, <2>3, RestEdge DEF Refills
<1>8. QED
  BY <1>3, <1>5, <1>6, <1>7 DEF LineInv

LEMMA MergeStep ==
  ASSUME NEW busy \in BOOLEAN, NEW move \in BOOLEAN, Tick(busy, move), TypeOK, Turns, LineInv,
         cache_state = "MERGE"
  PROVE  LineInv'
<1>1. cache_state' = "FINISH"
  BY DEF Tick, CacheClock, MainFsm
<1>2. Held /\ Clean /\ Seen
  BY DEF LineInv
<1>3. Held'
  BY <1>1, <1>2, CpuEdge DEF Held
<1>4. Clean'
  <2>1. valid[at.idx] /\ cpu.store /\ Asked = cpu /\ at.idx \in Index
    BY <1>2, CpuEdge DEF Seen, TypeOK, CacheTypeOK, Address
  <2>2. valid' = valid /\ tag_ram' = tag_ram
    BY DEF Tick, CacheClock, TagArray, LineStatus, TagWe
  <2>3. dirty' = [dirty EXCEPT ![at.idx] = TRUE]
    BY <2>1 DEF Tick, CacheClock, LineStatus, TagWe, StoreLands
  <2>4. data_ram' = [data_ram EXCEPT ![at.idx][RamWord] = Merged(Asked.n, Asked.data)]
    BY <2>1 DEF Tick, CacheClock, DataArray, StoreLands
  <2>5. mem' = mem
    BY RestEdge
  <2>6. dirty \in [Index -> BOOLEAN] /\ data_ram \in [Index -> [Word -> Data]]
    BY DEF TypeOK, CacheTypeOK
  <2>7. ASSUME NEW i \in Index, i # at.idx
        PROVE  dirty'[i] = dirty[i] /\ data_ram'[i] = data_ram[i]
    BY <2>3, <2>4, <2>6, <2>7
  <2>8. ASSUME NEW i \in Index
        PROVE  /\ dirty'[i] => valid'[i]
               /\ valid'[i] /\ ~dirty'[i] /\ ~(Refilling' /\ i = at'.idx) => Same(i)'
    <3>1. CASE i = at.idx
      <4>1. dirty'[i] /\ valid'[i]
        BY <2>1, <2>2, <2>3, <2>6, <3>1
      <4>2. QED BY <4>1
    <3>2. CASE i # at.idx
      <4>1. dirty[i] => valid[i]
        BY <1>2 DEF Clean
      <4>2. valid[i] /\ ~dirty[i] => Same(i)
        BY <1>2, <3>2 DEF Clean
      <4>3. Same(i) => Same(i)'
        BY <2>2, <2>5, <2>7, <3>2 DEF Same
      <4>4. QED
        BY <2>2, <2>7, <3>2, <4>1, <4>2, <4>3
    <3>3. QED BY <3>1, <3>2
  <2>9. QED BY <2>8 DEF Clean
<1>5. Seen' /\ WritingBack'
  BY <1>1 DEF Seen, WritingBack
<1>6. Resting' /\ Refills'
  BY <1>1, RestEdge DEF Resting, Rests, Refills, Refilling
<1>7. QED
  BY <1>3, <1>4, <1>5, <1>6 DEF LineInv

-----------------------------------------------------------------------------
(* The invariant through a write-back.                                     *)

\* Where the memory stands after an edge without a byte in hand.
LEMMA WriteWaits ==
  ASSUME NEW move \in BOOLEAN, MemoryClock(move), NEW line, NEW n, NEW wait \in Nat \ {0},
         link = Moving("write", line, n, None, wait)
  PROVE  link' = Moving("write", line, n, None, wait - 1) /\ ~received' /\ ~ready' /\ mem' = mem
<1>1. link.op = "write" /\ link.wait = wait /\ link.held = None
  BY DEF Moving
<1>2. link' = [link EXCEPT !.wait = @ - 1]
  BY <1>1 DEF MemoryClock
<1>3. QED
  BY <1>1, <1>2 DEF MemoryClock, Moving

\* The byte in hand goes in, or the memory goes on waiting for it.
LEMMA WriteMoves ==
  ASSUME NEW move \in BOOLEAN, MemoryClock(move), TypeOK, NEW w \in Word, NEW b \in Lane,
         Going(w, b), in_bytes' = in_bytes, in_bytes = Line[w][b], UNCHANGED <<victim_tag, at, data_ram>>
  PROVE  /\ ~ready'
         /\ \/ ~received' /\ mem' = mem /\ Going(w, b)'
            \/ /\ received' /\ Gone(w, b)'
               /\ mem' = [mem EXCEPT ![Spot(victim_tag, at.idx, w, b)] = in_bytes]
<1>1. /\ link = Moving("write", Victim, w * Lanes + b, link.held, link.wait)
      /\ link.held = None \/ (link.held = in_bytes /\ link.wait = 0)
      /\ link.wait \in Nat
  BY DEF Going
<1>2. link.op = "write" /\ link.line = Victim /\ link.n = w * Lanes + b
  BY <1>1 DEF Moving
<1>3. BytePlace(link.line, link.n) = Spot(victim_tag, at.idx, w, b)
  BY <1>2, Place DEF Victim
<1>4. Victim' = Victim /\ Line' = Line
  BY DEF Victim, Line
<1>5. in_bytes # None
  BY NoneAssumption DEF TypeOK, CacheTypeOK
<1>6. ~ready'
  BY <1>2 DEF MemoryClock
<1>7. CASE link.wait > 0
  <2>0. link.held = None /\ link.op # "idle" /\ link.op # "read"
    BY <1>1, <1>2, <1>7
  <2>1. link.held = None /\ link' = [link EXCEPT !.wait = @ - 1] /\ ~received' /\ mem' = mem
    <3>1. ~received' /\ mem' = mem
      BY <2>0 DEF MemoryClock
    <3>2. link' = [link EXCEPT !.wait = @ - 1]
      BY <1>7, <2>0 DEF MemoryClock
    <3>3. QED BY <2>0, <3>1, <3>2
  <2>2. link' = Moving("write", Victim, w * Lanes + b, None, link.wait - 1)
    BY <1>1, <2>1 DEF Moving
  <2>3. link'.held = None /\ link'.wait = link.wait - 1 /\ link'.wait \in Nat
    BY <1>1, <1>7, <2>2 DEF Moving
  <2>4. Going(w, b)'
    BY <1>4, <2>2, <2>3 DEF Going
  <2>5. QED BY <1>6, <2>1, <2>4
<1>8. CASE link.wait = 0 /\ ~move
  <2>1. link' = link /\ ~received' /\ mem' = mem
    BY <1>1, <1>2, <1>8 DEF MemoryClock
  <2>2. Going(w, b)'
    BY <1>1, <1>4, <2>1 DEF Going
  <2>3. QED BY <1>6, <2>1, <2>2
<1>9. CASE link.wait = 0 /\ move /\ link.held = None
  <2>1. link' = [link EXCEPT !.held = in_bytes] /\ ~received' /\ mem' = mem
    <3>1. ~received' /\ mem' = mem
      BY <1>9 DEF MemoryClock
    <3>2. link' = [link EXCEPT !.held = in_bytes]
      BY <1>2, <1>9 DEF MemoryClock
    <3>3. QED BY <3>1, <3>2
  <2>2. link' = Moving("write", Victim, w * Lanes + b, in_bytes, 0)
    BY <1>1, <1>9, <2>1 DEF Moving
  <2>3. link'.held = in_bytes' /\ link'.wait = 0
    BY <2>2 DEF Moving
  <2>4. Going(w, b)'
    BY <1>4, <2>2, <2>3 DEF Going
  <2>5. QED BY <1>6, <2>1, <2>4
<1>10. CASE link.wait = 0 /\ move /\ link.held # None
  <2>1. link.held = in_bytes
    BY <1>1, <1>10
  <2>2. received'
    BY <1>2, <1>10 DEF MemoryClock
  <2>3. mem' = [mem EXCEPT ![Spot(victim_tag, at.idx, w, b)] = in_bytes]
    BY <1>3, <2>1, <2>2 DEF MemoryClock
  <2>4. link' = IF Last THEN Quiet ELSE [link EXCEPT !.n = @ + 1, !.held = None, !.wait = 1]
    BY <1>2, <1>10 DEF MemoryClock
  <2>5. Last <=> LastByte(w, b)
    BY <1>2, LastPlace DEF Last
  <2>6. link' = IF LastByte(w, b) THEN Quiet
                ELSE Moving("write", Victim, w * Lanes + b + 1, None, 1)
    <3>1. CASE Last
      BY <2>4, <2>5, <3>1
    <3>2. CASE ~Last
      <4>1. link' = [link EXCEPT !.n = @ + 1, !.held = None, !.wait = 1]
        BY <2>4, <3>2
      <4>2. link' = Moving("write", Victim, w * Lanes + b + 1, None, 1)
        <5> DEFINE n == w * Lanes + b
        <5>1. link = Moving("write", Victim, n, link.held, link.wait)
          BY <1>1
        <5> HIDE DEF n
        <5>2. PICK held, wait : link = Moving("write", Victim, n, held, wait)
          BY <5>1
        <5>3. link' = [Moving("write", Victim, n, held, wait)
                         EXCEPT !.n = n + 1, !.held = None, !.wait = 1]
          <6>1. link.n = n
            BY <5>2 DEF Moving
          <6>2. QED BY <4>1, <5>2, <6>1
        <5>4. link' = Moving("write", Victim, n + 1, None, 1)
          BY <5>3 DEF Moving
        <5>5. QED BY <5>4 DEF n
      <4>3. QED BY <2>5, <3>2, <4>2
    <3>3. QED BY <3>1, <3>2
  <2>7. Spot(victim_tag, at.idx, w, b) \in QspiAddress
    BY SpotType DEF TypeOK, CacheTypeOK, Address
  <2>8. mem'[Spot(victim_tag, at.idx, w, b)] = Line[w][b]
    BY <2>3, <2>7 DEF TypeOK
  <2>9. Gone(w, b)'
    BY <1>4, <2>6, <2>8 DEF Gone
  <2>10. QED BY <1>6, <2>2, <2>3, <2>9
<1>11. QED
  BY <1>1, <1>7, <1>8, <1>9, <1>10

LEMMA WriteBackEdge ==
  ASSUME NEW busy \in BOOLEAN, NEW move \in BOOLEAN, Tick(busy, move), TypeOK, Turns, LineInv,
         cache_state = "WRITE_BACK"
  PROVE  /\ cache_state' = IF wb.done THEN "REFILL_LINE" ELSE "WRITE_BACK"
         /\ UNCHANGED <<at, cpu, victim_tag, tag_ram, valid, dirty, data_ram>>
         /\ ~ddc' /\ ~ram_write_start' /\ ~retrieve_start' /\ ~ready'
         /\ read'.word = Line[wb.word]
         /\ Line' = Line /\ Victim' = Victim
<1>1. cache_state' = IF wb.done THEN "REFILL_LINE" ELSE "WRITE_BACK"
  BY DEF Tick, CacheClock, MainFsm
<1>2. at' = at /\ cpu' = cpu /\ ~ddc'
  BY CpuEdge
<1>3. UNCHANGED <<tag_ram, valid, dirty, data_ram>>
  BY ArraysKept
<1>4. victim_tag' = victim_tag
  BY DEF Tick, CacheClock, TagArray
<1>5. ~ram_write_start' /\ ~retrieve_start'
  BY DEF Tick, CacheClock, Strobes, WbOwns, LineInv, WritingBack
<1>6. read'.word = Line[wb.word]
  BY ReadFields DEF Tick, CacheClock, WbOwns, CpuOwns, RamWord
<1>7. link.op # "read"
  BY DEF LineInv, WritingBack, Starting, Priming, Sending, Sent, Going, Gone, Moving, Quiet
<1>8. ~ready'
  BY <1>7 DEF Tick, MemoryClock
<1>9. QED
  BY <1>1, <1>2, <1>3, <1>4, <1>5, <1>6, <1>8 DEF Line, Victim

LEMMA StartingStep ==
  ASSUME NEW busy \in BOOLEAN, NEW move \in BOOLEAN, Tick(busy, move), TypeOK, Turns, LineInv,
         cache_state = "WRITE_BACK", Starting
  PROVE  Priming' /\ mem' = mem
<1>1. wb'.state = 1 /\ wb'.word = 0 /\ wb'.bits = 0 /\ ~wb'.done
  BY WbFields, WbMore DEF Starting, Tick, CacheClock
<1>2. link.op = "idle" /\ ram_write_start
  BY DEF Starting, Quiet
<1>3. link' = [Quiet EXCEPT !.op = "write", !.line = QspiLine, !.wait = Lead]
  BY <1>2 DEF Tick, MemoryClock
<1>4. QspiLine = Victim
  BY DEF QspiLine, Victim, WbOwns
<1>5. link' = Moving("write", Victim, 0, None, Lead)
  BY <1>3, <1>4 DEF Quiet, Moving
<1>6. ~received' /\ mem' = mem
  BY <1>2 DEF Tick, MemoryClock
<1>7. Lead = Lead + 1 - 1
  BY LeadAssumption
<1>8. QED
  BY <1>1, <1>5, <1>6, <1>7, WriteBackEdge DEF Priming

LEMMA PrimingStep ==
  ASSUME NEW busy \in BOOLEAN, NEW move \in BOOLEAN, Tick(busy, move), TypeOK, Turns, LineInv,
         cache_state = "WRITE_BACK", Priming
  PROVE  (Priming \/ Sending)' /\ mem' = mem
<1>1. Lead + 1 - wb.state \in Nat \ {0} /\ wb.state \in {1, 2}
  BY LeadAssumption DEF Priming
<1>2. /\ link' = Moving("write", Victim, 0, None, Lead + 1 - wb.state - 1)
      /\ ~received' /\ mem' = mem
  <2>1. PICK wait : wait = Lead + 1 - wb.state
    OBVIOUS
  <2>2. link = Moving("write", Victim, 0, None, wait) /\ wait \in Nat \ {0}
    BY <1>1, <2>1 DEF Priming
  <2>3. MemoryClock(move)
    BY DEF Tick
  <2>4. link' = Moving("write", Victim, 0, None, wait - 1) /\ ~received' /\ mem' = mem
    BY <2>2, <2>3, WriteWaits
  <2>5. wait - 1 = Lead + 1 - wb.state - 1
    BY <1>1, <2>1, LeadAssumption
  <2>6. QED BY <2>4, <2>5, Zenon
<1>3. wb'.bits = 0 /\ wb'.state = wb.state + 1 /\ ~wb'.done
  BY <1>1, WbFields, WbMore DEF Priming, Tick, CacheClock
<1>4. CASE wb.state = 1
  <2>1. wb'.word = NextWord(0) /\ read'.word = Line[0]
    BY <1>4, WbMore, WriteBackEdge DEF Priming, Tick, CacheClock
  <2>2. link' = Moving("write", Victim, 0, None, Lead + 1 - wb'.state)
    <3>1. Lead + 1 - wb.state - 1 = Lead + 1 - wb'.state
      BY <1>1, <1>3, <1>4, LeadAssumption
    <3>2. QED BY <1>2, <3>1
  <2>3. Priming'
    BY <1>2, <1>3, <1>4, <2>1, <2>2, WriteBackEdge DEF Priming
  <2>4. QED BY <1>2, <2>3
<1>5. CASE wb.state = 2
  <2>1. wb'.word = NextWord(0) /\ wb'.shift = Line[0] /\ in_bytes' = Line[0][0]
    BY <1>5, WbMore DEF Priming, Tick, CacheClock
  <2>2. 0 * Lanes + 0 = 0 /\ Lead + 1 - wb.state - 1 \in Nat
    BY <1>5, LeadAssumption
  <2>3. Going(0, 0)'
    BY <1>2, <2>2, WriteBackEdge DEF Going, Moving
  <2>4. Presents(0, 0)'
    BY <2>1, WriteBackEdge DEF Presents
  <2>5. Written(0, 0)'
    BY DEF Written, Before
  <2>6. Sending'
    <3>1. wb'.state = 3 /\ 0 \in Word
      BY <1>3, <1>5
    <3>2. QED
      BY <1>2, <1>3, <2>3, <2>4, <2>5, <3>1, WriteBackEdge DEF Sending
  <2>7. QED BY <1>2, <2>6
<1>6. QED BY <1>1, <1>4, <1>5

\* The memory has not yet taken the byte that the engine presents.
LEMMA OfferStep ==
  ASSUME NEW busy \in BOOLEAN, NEW move \in BOOLEAN, Tick(busy, move), TypeOK, Turns, LineInv,
         cache_state = "WRITE_BACK", Sending, ~received
  PROVE  /\ Sending'
         /\ \/ mem' = mem
            \/ \E w \in Word, b \in Lane :
                 mem' = [mem EXCEPT ![Spot(victim_tag, at.idx, w, b)] = Line[w][b]]
<1>1. wb.state = 3 /\ ~wb.done /\ wb.bits \in Lane
  BY DEF Sending, TypeOK, CacheTypeOK, WriteBack
<1>2. PICK w \in Word : Presents(w, wb.bits) /\ Written(w, wb.bits) /\ Going(w, wb.bits)
  BY DEF Sending
<1>3. in_bytes = Line[w][wb.bits]
  BY <1>2 DEF Presents
<1>4. wb'.state = 3 /\ wb'.word = wb.word /\ wb'.bits = wb.bits /\ wb'.shift = wb.shift
      /\ ~wb'.done /\ in_bytes' = in_bytes
  <2>1. WriteBackEngine(received)
    BY DEF Tick, CacheClock
  <2>2. ~wb'.done /\ wb'.word = wb.word /\ wb'.bits = wb.bits
    <3>1. ~wb'.done
      BY <1>1, <2>1, WbMore
    <3>2. wb'.word = wb.word
      BY <1>1, <2>1, WbMore
    <3>3. wb'.bits = wb.bits
      BY <1>1, <2>1, WbMore
    <3>4. QED BY <3>1, <3>2, <3>3
  <2>3. wb'.shift = wb.shift /\ in_bytes' = in_bytes
    BY <1>1, <2>1, WbMore
  <2>4. wb'.state = 3
    BY <1>1, <2>1, <2>2, WbFields
  <2>5. QED BY <2>2, <2>3, <2>4
<1>5. Presents(w, wb.bits)'
  BY <1>2, <1>4, WriteBackEdge DEF Presents
<1>6. \/ ~received' /\ mem' = mem /\ Going(w, wb.bits)'
      \/ /\ received' /\ Gone(w, wb.bits)'
         /\ mem' = [mem EXCEPT ![Spot(victim_tag, at.idx, w, wb.bits)] = in_bytes]
  <2>1. PICK b : b = wb.bits
    OBVIOUS
  <2>2. b \in Lane /\ Going(w, b) /\ in_bytes = Line[w][b]
    BY <1>1, <1>2, <1>3, <2>1
  <2>3. UNCHANGED <<victim_tag, at, data_ram>>
    BY WriteBackEdge
  <2>4. \/ ~received' /\ mem' = mem /\ Going(w, b)'
        \/ /\ received' /\ Gone(w, b)'
           /\ mem' = [mem EXCEPT ![Spot(victim_tag, at.idx, w, b)] = in_bytes]
    BY <1>4, <2>2, <2>3, WriteMoves DEF Tick
  <2>5. QED BY <1>4, <2>1, <2>4
<1>7. Written(w, wb.bits)'
  <2> SUFFICES ASSUME NEW v \in Word, NEW a \in Lane, Before(v, a, w, wb.bits)'
               PROVE  mem'[Spot(victim_tag, at.idx, v, a)'] = Line'[v][a]
    BY DEF Written
  <2>1. Before(v, a, w, wb.bits)
    BY <1>4 DEF Before
  <2>2. mem[Spot(victim_tag, at.idx, v, a)] = Line[v][a]
    BY <1>2, <2>1 DEF Written
  <2>3. Spot(victim_tag, at.idx, v, a) # Spot(victim_tag, at.idx, w, wb.bits)
    BY <1>1, <2>1 DEF Spot, Before
  <2>4. mem'[Spot(victim_tag, at.idx, v, a)] = mem[Spot(victim_tag, at.idx, v, a)]
    <3>1. Spot(victim_tag, at.idx, v, a) \in QspiAddress
      BY SpotType DEF Address, TypeOK, CacheTypeOK
    <3>2. QED BY <1>6, <2>3, <3>1 DEF TypeOK
  <2>5. QED
    BY <2>2, <2>4, WriteBackEdge DEF Spot
<1>8. Sending'
  <2>1. IF received' THEN Gone(w, wb.bits)' ELSE Going(w, wb.bits)'
    BY <1>6
  <2>2. QED
    BY <1>4, <1>5, <1>7, <2>1, WriteBackEdge DEF Sending
<1>9. QED
  BY <1>1, <1>3, <1>6, <1>8

\* The memory has taken byte (w, b): the engine turns to the next one.
LEMMA TakenStep ==
  ASSUME NEW busy \in BOOLEAN, NEW move \in BOOLEAN, Tick(busy, move), TypeOK, Turns, LineInv,
         cache_state = "WRITE_BACK", Sending, received
  PROVE  (Sending \/ Sent)' /\ mem' = mem
<1>1. wb.state = 3 /\ ~wb.done /\ wb.bits \in Lane /\ ~ram_write_start /\ ~retrieve_start
  BY DEF Sending, TypeOK, CacheTypeOK, WriteBack, LineInv, WritingBack
<1>2. PICK w \in Word : Presents(w, wb.bits) /\ Written(w, wb.bits) /\ Gone(w, wb.bits)
  BY DEF Sending
<1>3. PICK b \in Lane : b = wb.bits
  BY <1>1
<1>4. Presents(w, b) /\ Written(w, b) /\ Gone(w, b)
  BY <1>2, <1>3
<1>5. WriteBackEngine(received) /\ MemoryClock(move)
  BY DEF Tick, CacheClock
<1>6. wb.word = IF w = Words - 1 THEN 0 ELSE w + 1
  BY <1>4, NextWordIs DEF Presents
<1>7. link.held = None
  BY <1>4 DEF Gone, Quiet, Moving
<1>8. ~received' /\ mem' = mem
  BY <1>5, <1>7 DEF MemoryClock
<1>9. Written(w, b)'
  BY <1>4, <1>8, WriteBackEdge DEF Written, Spot
<1>10. mem'[Spot(victim_tag, at.idx, w, b)] = Line[w][b]
  BY <1>4, <1>8 DEF Gone
<1>11. ~LastByte(w, b) => link' = Moving("write", Victim, w * Lanes + b + 1, None, 0)
  <2> SUFFICES ASSUME ~LastByte(w, b)
               PROVE  link' = Moving("write", Victim, w * Lanes + b + 1, None, 0)
    OBVIOUS
  <2>1. PICK n : n = w * Lanes + b + 1
    OBVIOUS
  <2>2. link = Moving("write", Victim, n, None, 1)
    BY <1>4, <2>1 DEF Gone
  <2>3. link' = Moving("write", Victim, n, None, 1 - 1)
    BY <1>5, <2>2, WriteWaits
  <2>4. 1 - 1 = 0
    OBVIOUS
  <2>5. QED BY <2>1, <2>3, <2>4
<1>12. CASE b # Lanes - 1
  <2>1. wb'.bits = b + 1 /\ b + 1 \in Lane /\ b + 1 # 0
    BY <1>1, <1>3, <1>5, <1>12, WbMore
  <2>2. ~wb'.done /\ wb'.word = wb.word
    <3>1. ~wb'.done
      BY <1>1, <1>3, <1>5, <1>12, WbMore
    <3>2. wb'.word = wb.word
      BY <1>1, <1>3, <1>5, <1>12, WbMore
    <3>3. QED BY <3>1, <3>2
  <2>3. wb'.shift = Shifted(wb.shift) /\ in_bytes' = wb.shift[1]
    BY <1>1, <1>3, <1>5, <1>12, WbMore
  <2>4. wb'.state = 3
    BY <1>1, <1>5, <2>2, WbFields
  <2>5. \A l \in Lane : l + b < Lanes => wb.shift[l] = Line[w][l + b]
    BY <1>4 DEF Presents
  <2>6. \A l \in Lane : l + (b + 1) < Lanes => wb'.shift[l] = Line[w][l + (b + 1)]
    <3> SUFFICES ASSUME NEW l \in Lane, l + (b + 1) < Lanes
                 PROVE  wb'.shift[l] = Line[w][l + (b + 1)]
      OBVIOUS
    <3>1. l # Lanes - 1 /\ l + 1 \in Lane /\ (l + 1) + b < Lanes /\ (l + 1) + b = l + (b + 1)
      OBVIOUS
    <3>2. wb'.shift[l] = wb.shift[l + 1]
      BY <2>3, <3>1 DEF Shifted
    <3>3. QED BY <2>5, <3>1, <3>2
  <2>7. in_bytes' = Line[w][b + 1]
    <3>1. 1 \in Lane /\ 1 + b < Lanes /\ 1 + b = b + 1
      BY <1>12
    <3>2. QED BY <2>3, <2>5, <3>1
  <2>8. Presents(w, b + 1)'
    <3>1. wb'.word = NextWord(w)
      BY <1>4, <2>2 DEF Presents
    <3>2. read'.word = Line[wb'.word]
      BY <2>2, WriteBackEdge
    <3>3. QED BY <2>6, <2>7, <3>1, <3>2, WriteBackEdge DEF Presents
  <2>9. Written(w, b + 1)'
    <3> SUFFICES ASSUME NEW v \in Word, NEW a \in Lane, Before(v, a, w, b + 1)
                 PROVE  mem'[Spot(victim_tag, at.idx, v, a)] = Line[v][a]
      BY WriteBackEdge DEF Written, Before, Spot
    <3>1. Before(v, a, w, b) \/ (v = w /\ a = b)
      BY <1>12, BeforeNextByte
    <3>2. CASE Before(v, a, w, b)
      BY <1>4, <1>8, <3>2 DEF Written
    <3>3. CASE v = w /\ a = b
      BY <1>10, <3>3
    <3>4. QED BY <3>1, <3>2, <3>3
  <2>10. Going(w, b + 1)'
    <3>1. ~LastByte(w, b)
      BY <1>12 DEF LastByte
    <3>2. w * Lanes + b + 1 = w * Lanes + (b + 1)
      <4>1. w * Lanes \in Nat
        OBVIOUS
      <4>2. QED BY <4>1
    <3>3. link' = Moving("write", Victim, w * Lanes + (b + 1), None, 0)
      BY <1>11, <3>1, <3>2
    <3>4. QED BY <3>3, WriteBackEdge DEF Going, Moving
  <2>11. Sending'
    BY <1>8, <2>1, <2>2, <2>4, <2>8, <2>9, <2>10, WriteBackEdge DEF Sending
  <2>12. QED BY <1>8, <2>11
<1>13. CASE b = Lanes - 1 /\ w # Words - 1
  <2>1. b # 0 /\ wb.word = w + 1 /\ w + 1 # 0 /\ w + 1 \in Word
    BY <1>6, <1>13
  <2>2. wb'.bits = 0 /\ ~wb'.done
    BY <1>1, <1>3, <1>5, <1>13, <2>1, WbMore
  <2>3. wb'.word = NextWord(w + 1)
    BY <1>1, <1>3, <1>5, <1>13, <2>1, WbMore
  <2>4. wb'.shift = read.word /\ in_bytes' = read.word[0]
    BY <1>1, <1>3, <1>5, <1>13, <2>1, WbMore
  <2>5. wb'.state = 3
    BY <1>1, <1>5, <2>2, WbFields
  <2>6. read.word = Line[w + 1]
    BY <1>4, <2>1 DEF Presents
  <2>7. Presents(w + 1, 0)'
    BY <2>3, <2>4, <2>6, WriteBackEdge DEF Presents
  <2>8. Written(w + 1, 0)'
    <3> SUFFICES ASSUME NEW v \in Word, NEW a \in Lane, Before(v, a, w + 1, 0)
                 PROVE  mem'[Spot(victim_tag, at.idx, v, a)] = Line[v][a]
      BY WriteBackEdge DEF Written, Before, Spot
    <3>1. Before(v, a, w, b) \/ (v = w /\ a = b)
      BY <1>13, BeforeNextWord
    <3>2. CASE Before(v, a, w, b)
      BY <1>4, <1>8, <3>2 DEF Written
    <3>3. CASE v = w /\ a = b
      BY <1>10, <3>3
    <3>4. QED BY <3>1, <3>2, <3>3
  <2>9. Going(w + 1, 0)'
    <3>1. ~LastByte(w, b)
      BY <1>13 DEF LastByte
    <3>2. w * Lanes + b + 1 = (w + 1) * Lanes + 0
      BY <1>13, NextPlace
    <3>3. link' = Moving("write", Victim, (w + 1) * Lanes + 0, None, 0)
      BY <1>11, <3>1, <3>2
    <3>4. QED BY <3>3, WriteBackEdge DEF Going, Moving
  <2>10. Sending'
    BY <1>8, <2>1, <2>2, <2>5, <2>7, <2>8, <2>9, WriteBackEdge DEF Sending
  <2>11. QED BY <1>8, <2>10
<1>14. CASE b = Lanes - 1 /\ w = Words - 1
  <2>1. wb.word = 0
    BY <1>6, <1>14
  <2>2. wb'.done
    BY <1>1, <1>3, <1>5, <1>14, <2>1, WbMore
  <2>3. wb'.state = 0
    BY <1>1, <1>5, <2>2, WbFields
  <2>4. link = Quiet
    BY <1>4, <1>14 DEF Gone, LastByte
  <2>5. link' = Quiet
    BY <1>1, <1>5, <2>4, MemoryRests
  <2>6. Written(Words, 0)'
    <3> SUFFICES ASSUME NEW v \in Word, NEW a \in Lane
                 PROVE  mem'[Spot(victim_tag, at.idx, v, a)] = Line[v][a]
      BY WriteBackEdge DEF Written, Before, Spot
    <3>1. Before(v, a, w, b) \/ (v = w /\ a = b)
      BY <1>14 DEF Before
    <3>2. CASE Before(v, a, w, b)
      BY <1>4, <1>8, <3>2 DEF Written
    <3>3. CASE v = w /\ a = b
      BY <1>10, <3>3
    <3>4. QED BY <3>1, <3>2, <3>3
  <2>7. Sent'
    BY <1>8, <2>2, <2>3, <2>5, <2>6, WriteBackEdge DEF Sent
  <2>8. QED BY <1>8, <2>7
<1>15. QED BY <1>12, <1>13, <1>14

\* What a write-back does to the memory: at most one byte, and the right one.
Delivers ==
  \/ mem' = mem
  \/ \E w \in Word, b \in Lane :
       mem' = [mem EXCEPT ![Spot(victim_tag, at.idx, w, b)] = Line[w][b]]

LEMMA WriteBackLine ==
  ASSUME NEW busy \in BOOLEAN, NEW move \in BOOLEAN, Tick(busy, move), TypeOK, Turns, LineInv,
         cache_state = "WRITE_BACK", ~wb.done
  PROVE  Delivers /\ (Starting \/ Priming \/ Sending \/ Sent)'
<1>1. CASE Starting
  BY <1>1, StartingStep DEF Delivers
<1>2. CASE Priming
  BY <1>2, PrimingStep DEF Delivers
<1>3. CASE Sending /\ ~received
  BY <1>3, OfferStep DEF Delivers
<1>4. CASE Sending /\ received
  BY <1>4, TakenStep DEF Delivers
<1>5. QED
  BY <1>1, <1>2, <1>3, <1>4 DEF LineInv, WritingBack, Sent

LEMMA WriteBackLineStep ==
  ASSUME NEW busy \in BOOLEAN, NEW move \in BOOLEAN, Tick(busy, move), TypeOK, Turns, LineInv,
         cache_state = "WRITE_BACK"
  PROVE  LineInv'
<1>1. Held /\ Clean /\ WritingBack
  BY DEF LineInv
<1>2. Held'
  BY <1>1, WriteBackEdge DEF Held
<1>3. Seen'
  BY WriteBackEdge DEF Seen
<1>4. dirty[at.idx]
  BY <1>1 DEF WritingBack
<1>5. CASE wb.done
  <2>1. Sent
    BY <1>1, <1>5 DEF WritingBack, Starting, Priming, Sending
  <2>2. link = Quiet /\ ~ram_write_start /\ ~retrieve_start
    BY <1>1, <2>1 DEF WritingBack, Sent
  <2>3. link' = Quiet /\ ~ready' /\ ~received' /\ mem' = mem
    BY <2>2, MemoryRests DEF Tick
  <2>4. Clean'
    BY <1>1, <2>3, WriteBackEdge, CleanKept DEF Refilling
  <2>5. Resting'
    BY <2>3, WriteBackEdge DEF Resting, Rests
  <2>6. WritingBack' /\ Refills'
    BY <1>5, <2>3, WriteBackEdge DEF WritingBack, Refills
  <2>7. QED
    BY <1>2, <1>3, <2>4, <2>5, <2>6 DEF LineInv
<1>6. CASE ~wb.done
  <2>1. Delivers /\ (Starting \/ Priming \/ Sending \/ Sent)'
    BY <1>6, WriteBackLine
  <2>2. Clean'
    <3> SUFFICES ASSUME NEW i \in Index
                 PROVE  /\ dirty'[i] => valid'[i]
                        /\ valid'[i] /\ ~dirty'[i] => Same(i)'
      BY DEF Clean
    <3>1. dirty' = dirty /\ valid' = valid /\ ~Refilling
      BY WriteBackEdge DEF Refilling
    <3>2. dirty[i] => valid[i]
      BY <1>1 DEF Clean
    <3>3. ASSUME valid[i], ~dirty[i] PROVE Same(i)'
      <4>1. Same(i) /\ i # at.idx
        BY <1>1, <1>4, <3>1, <3>3 DEF Clean
      <4> SUFFICES ASSUME NEW w \in Word, NEW b \in Lane
                   PROVE  data_ram'[i][w][b] = mem'[Spot(tag_ram'[i], i, w, b)]
        BY DEF Same
      <4>2. Spot(tag_ram[i], i, w, b) \in QspiAddress
        BY SpotType DEF TypeOK, CacheTypeOK
      <4>3. ASSUME NEW v \in Word, NEW a \in Lane
            PROVE  Spot(tag_ram[i], i, w, b) # Spot(victim_tag, at.idx, v, a)
        BY <4>1 DEF Spot
      <4>4. mem'[Spot(tag_ram[i], i, w, b)] = mem[Spot(tag_ram[i], i, w, b)]
        BY <2>1, <4>2, <4>3 DEF Delivers, TypeOK
      <4>5. QED
        BY <4>1, <4>4, WriteBackEdge DEF Same
    <3>4. QED BY <3>1, <3>2, <3>3
  <2>3. Resting' /\ Refills'
    BY <1>6, WriteBackEdge DEF Resting, Refills, Refilling
  <2>4. WritingBack'
    BY <1>1, <2>1, WriteBackEdge DEF WritingBack
  <2>5. QED
    BY <1>2, <1>3, <2>2, <2>3, <2>4 DEF LineInv
<1>7. QED BY <1>5, <1>6

-----------------------------------------------------------------------------
(* The invariant through a refill.                                         *)

\* The memory brings byte (w, b), or goes on looking for it.
LEMMA ReadMoves ==
  ASSUME NEW move \in BOOLEAN, MemoryClock(move), TypeOK, NEW w \in Word, NEW b \in Lane,
         Coming(w * Lanes + b), at' = at, mem' = mem
  PROVE  Due(w, b)'
<1>1. PICK n, wait \in Nat : n = w * Lanes + b /\ link = Moving("read", Here, n, None, wait)
  BY DEF Coming
<1>2. link.op = "read" /\ link.line = Here /\ link.n = n /\ link.wait = wait
  BY <1>1 DEF Moving
<1>3. BytePlace(link.line, link.n) = Spot(at.tag, at.idx, w, b)
  BY <1>1, <1>2, Place DEF Here
<1>4. Here' = Here
  BY DEF Here
<1>5. CASE wait > 0
  <2>1. ~ready' /\ link' = [link EXCEPT !.wait = @ - 1]
    <3>1. link.op # "idle" /\ link.wait > 0
      BY <1>2, <1>5
    <3>2. link' = [link EXCEPT !.wait = @ - 1]
      BY <3>1 DEF MemoryClock
    <3>3. ~ready'
      <4>1. link.wait # 0
        BY <1>2, <1>5
      <4>2. QED BY <4>1 DEF MemoryClock
    <3>4. QED BY <3>2, <3>3
  <2>2. link' = Moving("read", Here, n, None, wait - 1)
    BY <1>1, <2>1 DEF Moving
  <2>3. Coming(n)'
    <3>1. wait - 1 \in Nat /\ link'.wait = wait - 1
      BY <1>5, <2>2 DEF Moving
    <3>2. QED BY <1>4, <2>2, <3>1 DEF Coming
  <2>4. QED BY <1>1, <2>1, <2>3 DEF Due, Coming
<1>6. CASE wait = 0 /\ ~move
  <2>1. ~ready' /\ link' = link
    BY <1>2, <1>6 DEF MemoryClock
  <2>2. Coming(w * Lanes + b)'
    BY <1>4, <2>1 DEF Coming
  <2>3. QED BY <2>1, <2>2 DEF Due
<1>7. CASE wait = 0 /\ move
  <2>1. ready'
    BY <1>2, <1>7 DEF MemoryClock
  <2>2. out_bytes' = mem[Spot(at.tag, at.idx, w, b)]
    BY <1>3, <2>1 DEF MemoryClock
  <2>3. link' = IF Last THEN Quiet ELSE [link EXCEPT !.n = @ + 1]
    BY <1>2, <1>7 DEF MemoryClock
  <2>4. Last <=> LastByte(w, b)
    BY <1>1, <1>2, LastPlace DEF Last
  <2>5. CASE Last
    <3>1. link' = Quiet
      BY <2>3, <2>5
    <3>2. QED BY <2>1, <2>2, <2>4, <2>5, <3>1 DEF Due, Spot
  <2>6. CASE ~Last
    <3>1. link' = [link EXCEPT !.n = @ + 1]
      BY <2>3, <2>6
    <3>2. link' = Moving("read", Here, n + 1, None, wait)
      BY <1>1, <3>1 DEF Moving
    <3>3. link'.wait \in Nat
      BY <1>7, <3>2 DEF Moving
    <3>4. Coming(n + 1)'
      BY <1>4, <3>2, <3>3 DEF Coming, Moving
    <3>5. Coming(w * Lanes + b + 1)'
      BY <1>1, <3>4 DEF Coming
    <3>6. QED BY <2>1, <2>2, <2>4, <2>6, <3>5 DEF Due, Spot
  <2>7. QED BY <2>5, <2>6
<1>8. QED
  BY <1>5, <1>6, <1>7

LEMMA RefillEdge ==
  ASSUME NEW busy \in BOOLEAN, NEW move \in BOOLEAN, Tick(busy, move), TypeOK, Turns, LineInv,
         cache_state \in {"RETRIEVE_WAIT", "INSTALL_LINE"}
  PROVE  /\ at' = at /\ cpu' = cpu /\ ~ddc'
         /\ mem' = mem /\ ~received' /\ ~ram_write_start /\ ~retrieve_start'
         /\ Here' = Here
<1>1. at' = at /\ cpu' = cpu /\ ~ddc'
  BY CpuEdge
<1>2. link.op # "write"
  BY DEF LineInv, Refills, Asking, Filling, Storing, Complete, Due, Coming, Moving, Quiet
<1>3. ~received' /\ mem' = mem
  BY <1>2 DEF Tick, MemoryClock
<1>4. ~ram_write_start
  BY DEF Turns, WriteBackTurn
<1>5. ~retrieve_start'
  BY DEF Tick, CacheClock, Strobes, LineInv, Refills
<1>6. QED
  BY <1>1, <1>3, <1>4, <1>5 DEF Here

LEMMA AskedStep ==
  ASSUME NEW busy \in BOOLEAN, NEW move \in BOOLEAN, Tick(busy, move), TypeOK, Turns, LineInv,
         cache_state = "RETRIEVE_WAIT"
  PROVE  LineInv'
<1>1. cache_state' = "INSTALL_LINE"
  BY DEF Tick, CacheClock, MainFsm
<1>2. Held /\ Clean /\ Asking
  BY DEF LineInv, Refills
<1>3. Held'
  BY <1>1, <1>2, RefillEdge DEF Held
<1>4. Clean'
  BY <1>1, <1>2, ArraysKept, RefillEdge, CleanKept DEF Refilling
<1>5. Seen' /\ Resting' /\ WritingBack'
  BY <1>1 DEF Seen, Resting, WritingBack
<1>6. Refills'
  <2>1. link.op = "idle" /\ retrieve_start /\ ~ready
    BY <1>2 DEF Asking, Quiet
  <2>2. link' = [Quiet EXCEPT !.op = "read", !.line = QspiLine, !.wait = Lead] /\ ~ready'
    BY <2>1, RefillEdge DEF Tick, MemoryClock
  <2>3. QspiLine = Here
    BY DEF QspiLine, Here, WbOwns
  <2>4. link' = Moving("read", Here, 0, None, Lead)
    BY <2>2, <2>3 DEF Quiet, Moving
  <2>5. Coming(0 * Lanes + 0)'
    <3>1. 0 * Lanes + 0 = 0
      OBVIOUS
    <3>2. link'.wait = Lead /\ Lead \in Nat
      BY <2>4, LeadAssumption DEF Moving
    <3>3. QED BY <2>4, <3>1, <3>2, RefillEdge DEF Coming
  <2>6. fill'.on /\ ~fill'.we /\ ~fill'.done /\ fill'.ptr = 0 /\ fill'.bits = 0
    BY <1>2, FillFields, FillMore DEF Asking, Tick, CacheClock
  <2>7. Filling'
    BY <2>2, <2>5, <2>6 DEF Filling, Installed, Filled, Due
  <2>8. QED
    BY <1>1, <2>7, RefillEdge DEF Refills
<1>7. QED
  BY <1>3, <1>4, <1>5, <1>6 DEF LineInv

\* The line being installed is not looked at: the others keep Clean.
LEMMA CleanElsewhere ==
  ASSUME Clean, mem' = mem, UNCHANGED <<tag_ram, valid, dirty>>, Refilling, Refilling',
         at' = at, \A i \in Index : i # at.idx => data_ram'[i] = data_ram[i]
  PROVE  Clean'
BY DEF Clean, Same

LEMMA FillingStep ==
  ASSUME NEW busy \in BOOLEAN, NEW move \in BOOLEAN, Tick(busy, move), TypeOK, Turns, LineInv,
         cache_state = "INSTALL_LINE", Filling
  PROVE  /\ UNCHANGED <<tag_ram, valid, dirty, data_ram>>
         /\ (Filling \/ Storing)'
<1>1. fill.on /\ ~fill.we /\ ~fill.done /\ fill.ptr \in Word /\ fill.bits \in Lane
      /\ fill.word \in Data
  BY DEF Filling, TypeOK, CacheTypeOK, Fill
<1>2. UNCHANGED <<tag_ram, valid, dirty, data_ram>>
  BY <1>1 DEF Tick, CacheClock, TagArray, LineStatus, DataArray, TagWe, StoreLands
<1>3. PICK w \in Word, b \in Lane : w = fill.ptr /\ b = fill.bits
  BY <1>1
<1>4. Installed(w) /\ Filled(w, b) /\ Due(w, b)
  BY <1>3 DEF Filling
<1>5. FillEngine(ready, out_bytes) /\ MemoryClock(move)
  BY DEF Tick, CacheClock
<1>6. fill'.on /\ ~fill'.done /\ fill'.ptr = w
  BY <1>1, <1>3, <1>5, FillFields, FillMore
<1>7. Installed(w)'
  BY <1>2, <1>4, RefillEdge DEF Installed, Line
<1>8. CASE ~ready
  <2>1. fill'.word = fill.word /\ fill'.bits = b /\ ~fill'.we
    BY <1>3, <1>5, <1>8, FillFields, FillMore
  <2>2. Filled(w, b)'
    BY <1>4, <2>1, RefillEdge DEF Filled
  <2>3. Coming(w * Lanes + b)
    BY <1>4, <1>8 DEF Due
  <2>4. Due(w, b)'
    BY <1>5, <2>3, ReadMoves, RefillEdge
  <2>5. Filling'
    BY <1>6, <1>7, <2>1, <2>2, <2>4 DEF Filling, Installed, Filled, Due
  <2>6. QED BY <1>2, <2>5
<1>9. CASE ready
  <2>1. out_bytes = mem[Spot(at.tag, at.idx, w, b)]
    BY <1>4, <1>9 DEF Due
  <2>2. fill'.word = [fill.word EXCEPT ![b] = out_bytes]
    BY <1>1, <1>3, <1>5, <1>9, FillMore
  <2>3. \A a \in Lane : a < b + 1 => fill'.word[a] = mem[Spot(at.tag, at.idx, w, a)]
    <3> SUFFICES ASSUME NEW a \in Lane, a < b + 1
                 PROVE  fill'.word[a] = mem[Spot(at.tag, at.idx, w, a)]
      OBVIOUS
    <3>1. CASE a = b
      BY <1>1, <2>1, <2>2, <3>1 DEF Data
    <3>2. CASE a < b
      BY <1>1, <1>4, <2>2, <3>2 DEF Data, Filled
    <3>3. QED BY <3>1, <3>2
  <2>4. fill'.we = (b = Lanes - 1) /\ fill'.bits = (b + 1) % Lanes
    BY <1>1, <1>3, <1>5, <1>9, FillFields
  <2>5. CASE b # Lanes - 1
    <3>1. b + 1 \in Lane /\ (b + 1) % Lanes = b + 1 /\ ~LastByte(w, b)
      <4>1. b + 1 \in 0 .. Lanes - 1
        BY <2>5
      <4>2. (b + 1) % Lanes = b + 1
        BY <4>1
      <4>3. QED BY <2>5, <4>1, <4>2 DEF LastByte
    <3>2. fill'.bits = b + 1 /\ ~fill'.we
      BY <2>4, <2>5, <3>1
    <3>3. Filled(w, b + 1)'
      BY <2>3, RefillEdge DEF Filled
    <3>4. Coming(w * Lanes + b + 1)
      BY <1>4, <1>9, <3>1 DEF Due
    <3>5. w * Lanes + b + 1 = w * Lanes + (b + 1)
      <4>1. w * Lanes \in Nat
        OBVIOUS
      <4>2. QED BY <4>1
    <3>6. Due(w, b + 1)'
      <4>1. Coming(w * Lanes + (b + 1))
        BY <3>4, <3>5
      <4>2. QED BY <1>5, <3>1, <4>1, ReadMoves, RefillEdge
    <3>7. Filling'
      BY <1>6, <1>7, <3>2, <3>3, <3>6 DEF Filling, Installed, Filled, Due
    <3>8. QED BY <1>2, <3>7
  <2>6. CASE b = Lanes - 1
    <3>1. fill'.we /\ fill'.bits = 0
      <4>1. b + 1 = Lanes /\ Lanes % Lanes = 0
        BY <2>6
      <4>2. QED BY <2>4, <2>6, <4>1
    <3>2. Filled(w, Lanes)'
      <4>1. b + 1 = Lanes
        BY <2>6
      <4>2. QED BY <2>3, <4>1, RefillEdge DEF Filled
    <3>3. CASE w = Words - 1
      <4>1. link = Quiet /\ ~retrieve_start
        BY <1>4, <1>9, <2>6, <3>3 DEF Due, LastByte, LineInv, Refills
      <4>2. link' = Quiet /\ ~ready'
        BY <1>5, <4>1, MemoryRests, RefillEdge
      <4>3. Storing'
        BY <1>6, <1>7, <3>1, <3>2, <3>3, <4>2 DEF Storing, Installed, Filled
      <4>4. QED BY <1>2, <4>3
    <3>4. CASE w # Words - 1
      <4>1. Coming(w * Lanes + b + 1)
        BY <1>4, <1>9, <3>4 DEF Due, LastByte
      <4>2. w * Lanes + b + 1 = (w + 1) * Lanes + 0
        BY <2>6, NextPlace
      <4>3. Coming((w + 1) * Lanes + 0)
        BY <4>1, <4>2
      <4>4. w + 1 \in Word /\ 0 \in Lane
        BY <3>4
      <4>5. Due(w + 1, 0)'
        BY <1>5, <4>3, <4>4, ReadMoves, RefillEdge
      <4>6. Storing'
        BY <1>6, <1>7, <3>1, <3>2, <3>4, <4>5 DEF Storing, Installed, Filled, Due
      <4>7. QED BY <1>2, <4>6
    <3>5. QED BY <3>3, <3>4
  <2>7. QED BY <2>5, <2>6
<1>10. QED BY <1>8, <1>9

LEMMA StoringStep ==
  ASSUME NEW busy \in BOOLEAN, NEW move \in BOOLEAN, Tick(busy, move), TypeOK, Turns, LineInv,
         cache_state = "INSTALL_LINE", Storing
  PROVE  /\ UNCHANGED <<tag_ram, valid, dirty>>
         /\ \A i \in Index : i # at.idx => data_ram'[i] = data_ram[i]
         /\ (Filling \/ Complete)'
<1>1. fill.on /\ fill.we /\ ~fill.done /\ fill.bits = 0 /\ fill.ptr \in Word
      /\ fill.word \in Data /\ at.idx \in Index /\ data_ram \in [Index -> [Word -> Data]]
  BY DEF Storing, TypeOK, CacheTypeOK, Fill, Address
<1>2. UNCHANGED <<tag_ram, valid, dirty>>
  BY <1>1 DEF Tick, CacheClock, TagArray, LineStatus, TagWe, StoreLands
<1>3. PICK w \in Word : w = fill.ptr
  BY <1>1
<1>4. Installed(w) /\ Filled(w, Lanes)
  BY <1>3 DEF Storing
<1>5. FillEngine(ready, out_bytes) /\ MemoryClock(move)
  BY DEF Tick, CacheClock
<1>6. data_ram' = [data_ram EXCEPT ![at.idx][w] = fill.word]
  BY <1>1, <1>3 DEF Tick, CacheClock, DataArray, StoreLands, RamWord, CpuOwns, WbOwns
<1>7. Line' = [Line EXCEPT ![w] = fill.word] /\ Line \in [Word -> Data]
      /\ \A i \in Index : i # at.idx => data_ram'[i] = data_ram[i]
  BY <1>1, <1>6, RefillEdge DEF Line
<1>8. \A v \in Word, a \in Lane : v < w + 1 => Line'[v][a] = mem[Spot(at.tag, at.idx, v, a)]
  <2> SUFFICES ASSUME NEW v \in Word, NEW a \in Lane, v < w + 1
               PROVE  Line'[v][a] = mem[Spot(at.tag, at.idx, v, a)]
    OBVIOUS
  <2>1. CASE v = w
    BY <1>4, <1>7, <2>1 DEF Filled
  <2>2. CASE v < w
    BY <1>4, <1>7, <2>2 DEF Installed
  <2>3. QED BY <2>1, <2>2
<1>9. NextWord(w) = IF w = Words - 1 THEN 0 ELSE w + 1
  BY NextWordIs
<1>10. fill'.ptr = NextWord(w)
  BY <1>1, <1>3, <1>5, FillMore
<1>11. ~fill'.we
  <2>1. fill.bits # Lanes - 1
    BY <1>1
  <2>2. QED BY <1>5, <2>1, FillFields
<1>12. fill'.on = (w # Words - 1) /\ fill'.done = (w = Words - 1)
  BY <1>1, <1>3, <1>5, FillFields DEF LastWord
<1>13. CASE w = Words - 1
  <2>1. link = Quiet /\ ~ready /\ ~retrieve_start
    BY <1>3, <1>13 DEF Storing, LineInv, Refills
  <2>2. link' = Quiet /\ ~ready'
    BY <1>5, <2>1, MemoryRests, RefillEdge
  <2>3. Installed(Words)'
    BY <1>8, <1>13, RefillEdge DEF Installed, Spot
  <2>4. Complete'
    BY <1>11, <1>12, <1>13, <2>2, <2>3 DEF Complete
  <2>5. QED BY <1>2, <1>7, <2>4
<1>14. CASE w # Words - 1
  <2>1. Due(w + 1, 0) /\ w + 1 \in Word
    BY <1>3, <1>14 DEF Storing
  <2>2. fill'.ptr = w + 1 /\ fill'.on /\ ~fill'.done
    BY <1>9, <1>10, <1>12, <1>14
  <2>3. Installed(w + 1)'
    BY <1>8, RefillEdge DEF Installed, Spot
  <2>4. CASE ~ready
    <3>1. fill'.bits = 0 /\ fill'.word = fill.word
      BY <1>1, <1>5, <2>4, FillFields, FillMore
    <3>2. Filled(w + 1, 0)'
      BY DEF Filled
    <3>3. Due(w + 1, 0)'
      <4>1. Coming((w + 1) * Lanes + 0) /\ 0 \in Lane
        BY <2>1, <2>4 DEF Due
      <4>2. QED BY <1>5, <2>1, <4>1, ReadMoves, RefillEdge
    <3>4. Filling'
      BY <1>11, <2>2, <2>3, <3>1, <3>2, <3>3 DEF Filling, Installed, Filled, Due
    <3>5. QED BY <1>2, <1>7, <3>4
  <2>5. CASE ready
    <3>1. fill'.bits = 1
      <4>1. (0 + 1) % Lanes = 1
        OBVIOUS
      <4>2. QED BY <1>1, <1>5, <2>5, <4>1, FillFields
    <3>2. fill'.word = [fill.word EXCEPT ![0] = out_bytes]
      BY <1>1, <1>5, <2>5, FillMore
    <3>3. out_bytes = mem[Spot(at.tag, at.idx, w + 1, 0)]
      BY <2>1, <2>5 DEF Due
    <3>4. Filled(w + 1, 1)'
      <4> SUFFICES ASSUME NEW a \in Lane, a < 1
                   PROVE  fill'.word[a] = mem'[Spot(at.tag, at.idx, w + 1, a)]
        BY RefillEdge DEF Filled, Spot
      <4>1. a = 0
        OBVIOUS
      <4>2. QED BY <1>1, <3>2, <3>3, <4>1, RefillEdge DEF Data
    <3>5. ~LastByte(w + 1, 0)
      BY DEF LastByte
    <3>6. Coming((w + 1) * Lanes + 0 + 1)
      BY <2>1, <2>5, <3>5 DEF Due
    <3>7. (w + 1) * Lanes + 0 + 1 = (w + 1) * Lanes + 1
      <4>1. (w + 1) * Lanes \in Nat
        OBVIOUS
      <4>2. QED BY <4>1
    <3>8. Due(w + 1, 1)'
      <4>1. Coming((w + 1) * Lanes + 1) /\ 1 \in Lane
        BY <3>6, <3>7
      <4>2. QED BY <1>5, <2>1, <4>1, ReadMoves, RefillEdge
    <3>9. Filling'
      BY <1>11, <2>2, <2>3, <3>1, <3>4, <3>8 DEF Filling, Installed, Filled, Due
    <3>10. QED BY <1>2, <1>7, <3>9
  <2>6. QED BY <2>4, <2>5
<1>15. QED BY <1>13, <1>14

LEMMA InstallStep ==
  ASSUME NEW busy \in BOOLEAN, NEW move \in BOOLEAN, Tick(busy, move), TypeOK, Turns, LineInv,
         cache_state = "INSTALL_LINE"
  PROVE  LineInv'
<1>1. Held /\ Clean /\ (Filling \/ Storing \/ Complete) /\ ~retrieve_start
  BY DEF LineInv, Refills
<1>2. cache_state' = IF fill.done THEN "ACCESS2" ELSE "INSTALL_LINE"
  BY DEF Tick, CacheClock, MainFsm, TagWe
<1>3. Held'
  BY <1>1, <1>2, RefillEdge DEF Held
<1>4. Seen' /\ WritingBack'
  BY <1>2 DEF Seen, WritingBack
<1>5. CASE Filling \/ Storing
  <2>1. cache_state' = "INSTALL_LINE"
    BY <1>2, <1>5 DEF Filling, Storing
  <2>2. Clean' /\ (Filling \/ Storing \/ Complete)'
    <3>1. Refilling /\ Refilling' /\ mem' = mem /\ at' = at
      BY <2>1, RefillEdge DEF Refilling
    <3>2. CASE Filling
      BY <1>1, <3>1, <3>2, FillingStep, CleanKept
    <3>3. CASE Storing
      BY <1>1, <3>1, <3>3, StoringStep, CleanElsewhere
    <3>4. QED BY <1>5, <3>2, <3>3
  <2>3. Resting'
    BY <2>1 DEF Resting
  <2>4. Refills'
    BY <2>1, <2>2, RefillEdge DEF Refills
  <2>5. QED
    BY <1>3, <1>4, <2>2, <2>3, <2>4 DEF LineInv
<1>6. CASE Complete
  <2>1. cache_state' = "ACCESS2" /\ fill.done /\ ~fill.we
    BY <1>2, <1>6 DEF Complete
  <2>2. link' = Quiet /\ ~ready'
    BY <1>1, <1>6, MemoryRests, RefillEdge DEF Complete, Tick
  <2>3. Resting'
    BY <2>2, RefillEdge DEF Resting, Rests
  <2>4. Refills'
    BY <2>1 DEF Refills, Refilling
  <2>5. Clean'
    <3>1. /\ tag_ram' = [tag_ram EXCEPT ![at.idx] = at.tag]
          /\ valid' = [valid EXCEPT ![at.idx] = TRUE]
          /\ dirty' = [dirty EXCEPT ![at.idx] = FALSE]
          /\ data_ram' = data_ram
      BY <2>1 DEF Tick, CacheClock, TagArray, LineStatus, DataArray, TagWe, StoreLands
    <3>2. at.idx \in Index /\ tag_ram \in [Index -> Tag] /\ valid \in [Index -> BOOLEAN]
          /\ dirty \in [Index -> BOOLEAN]
      BY DEF TypeOK, CacheTypeOK, Address
    <3>3. mem' = mem
      BY RefillEdge
    <3> SUFFICES ASSUME NEW i \in Index
                 PROVE  /\ dirty'[i] => valid'[i]
                        /\ valid'[i] /\ ~dirty'[i] => Same(i)'
      BY DEF Clean
    <3>4. CASE i = at.idx
      <4>1. ~dirty'[i] /\ tag_ram'[i] = at.tag
        BY <3>1, <3>2, <3>4
      <4>2. \A v \in Word, a \in Lane : data_ram[i][v][a] = mem[Spot(at.tag, i, v, a)]
        BY <1>6, <3>4 DEF Complete, Installed, Line
      <4>3. Same(i)'
        BY <3>1, <3>3, <4>1, <4>2 DEF Same
      <4>4. QED BY <4>1, <4>3
    <3>5. CASE i # at.idx
      <4>1. dirty'[i] = dirty[i] /\ valid'[i] = valid[i] /\ tag_ram'[i] = tag_ram[i]
        BY <3>1, <3>2, <3>5
      <4>2. dirty[i] => valid[i]
        BY <1>1 DEF Clean
      <4>3. valid[i] /\ ~dirty[i] => Same(i)
        BY <1>1, <3>5 DEF Clean
      <4>4. Same(i) => Same(i)'
        BY <3>1, <3>3, <4>1 DEF Same
      <4>5. QED BY <4>1, <4>2, <4>3, <4>4
    <3>6. QED BY <3>4, <3>5
  <2>6. QED
    BY <1>3, <1>4, <2>3, <2>4, <2>5 DEF LineInv
<1>7. QED BY <1>1, <1>5, <1>6

-----------------------------------------------------------------------------
LEMMA InitLine == Init => LineInv
<1> SUFFICES ASSUME Init PROVE LineInv
  OBVIOUS
<1>1. Held /\ Seen
  BY DEF Init, CacheInit, Held, Seen
<1>2. Clean
  BY DEF Init, CacheInit, Clean
<1>3. Resting /\ WritingBack /\ Refills
  BY DEF Init, CacheInit, Resting, Rests, WritingBack, Refills, Refilling
<1>4. QED BY <1>1, <1>2, <1>3 DEF LineInv

LEMMA TickLine ==
  ASSUME NEW busy \in BOOLEAN, NEW move \in BOOLEAN, Tick(busy, move), TypeOK, Turns, LineInv
  PROVE  LineInv'
<1>1. cache_state \in States
  BY DEF TypeOK, CacheTypeOK
<1>2. CASE cache_state = "IDLE"
  BY <1>2, IdleStep
<1>3. CASE cache_state \in {"ACCESS", "ACCESS2", "FINISH"}
  BY <1>3, StillStep
<1>4. CASE cache_state = "MISS"
  BY <1>4, MissStep
<1>5. CASE cache_state = "WRITE_BACK"
  BY <1>5, WriteBackLineStep
<1>6. CASE cache_state = "REFILL_LINE"
  BY <1>6, AskStep
<1>7. CASE cache_state = "RETRIEVE_WAIT"
  BY <1>7, AskedStep
<1>8. CASE cache_state = "INSTALL_LINE"
  BY <1>8, InstallStep
<1>9. CASE cache_state = "MERGE"
  BY <1>9, MergeStep
<1>10. QED
  BY <1>1, <1>2, <1>3, <1>4, <1>5, <1>6, <1>7, <1>8, <1>9 DEF States

LEMMA NextLine == TypeOK /\ Turns /\ LineInv /\ [Next]_vars => LineInv'
<1> SUFFICES ASSUME TypeOK, Turns, LineInv, [Next]_vars PROVE LineInv'
  OBVIOUS
<1>1. CASE UNCHANGED vars
  <2> USE <1>1 DEF vars, cacheVars
  <2>1. Held' /\ Seen'
    BY DEF LineInv, Held, Seen, Looked, Line
  <2>2. Clean'
    BY CleanKept DEF LineInv, Refilling
  <2>3. Resting'
    BY DEF LineInv, Resting, Rests
  <2>4. WritingBack'
    BY DEF LineInv, WritingBack, Starting, Priming, Sending, Sent, Presents, Written, Gone,
           Going, Line, Victim
  <2>5. Refills'
    BY DEF LineInv, Refills, Refilling, Asking, Filling, Storing, Complete, Installed, Filled,
           Due, Coming, Line, Here
  <2>6. QED
    BY <2>1, <2>2, <2>3, <2>4, <2>5 DEF LineInv
<1>2. QED
  BY <1>1, TickLine DEF Next

-----------------------------------------------------------------------------
(* What the processor sees.                                                *)

SInv == TypeOK /\ Turns /\ LineInv

LEMMA AddressIs ==
  ASSUME NEW a \in QspiAddress
  PROVE  /\ a = Spot(a.tag, a.idx, a.word, a.bits)
         /\ a.tag \in QspiTag /\ a.idx \in Index /\ a.word \in Word /\ a.bits \in Lane
<1>1. a.tag \in QspiTag /\ a.idx \in Index /\ a.word \in Word /\ a.bits \in Lane
  BY DEF QspiAddress
<1>2. WireTag(a.tag) = a.tag
  BY <1>1, WireTagWhole
<1>3. QED
  BY <1>1, <1>2 DEF QspiAddress, Spot

\* Every tag that the wires carry as that of a place names its byte.
LEMMA SpotAt ==
  ASSUME NEW a \in QspiAddress, NEW t, a.tag = WireTag(t)
  PROVE  Spot(t, a.idx, a.word, a.bits) = a
BY DEF QspiAddress, Spot

\* Outside a refill, and with the arrays as they were, a byte is where it was.
LEMMA ByteKept ==
  ASSUME UNCHANGED <<tag_ram, valid, data_ram>>, mem' = mem, ~Refilling, ~Refilling',
         NEW a
  PROVE  ByteAt(a)' = ByteAt(a)
BY DEF ByteAt, Holds, CachedByte

LEMMA LineOut ==
  ASSUME UNCHANGED <<tag_ram, valid, data_ram>>, mem' = mem, at' = at,
         ~Refilling, Refilling', NEW a \in QspiAddress,
         valid[at.idx] => Same(at.idx)
  PROVE  ByteAt(a)' = ByteAt(a)
<1>1. a = Spot(a.tag, a.idx, a.word, a.bits) /\ a.word \in Word /\ a.bits \in Lane
  BY AddressIs
<1>2. CASE a.idx # at.idx
  BY <1>2 DEF ByteAt, Holds, CachedByte
<1>3. CASE a.idx = at.idx
  <2>1. ByteAt(a)' = mem[a]
    BY <1>3 DEF ByteAt, Holds
  <2>2. Holds(a) => CachedByte(a) = mem[a]
    <3> SUFFICES ASSUME Holds(a) PROVE CachedByte(a) = mem[a]
      OBVIOUS
    <3>1. valid[at.idx] /\ WireTag(tag_ram[at.idx]) = a.tag
      BY <1>3 DEF Holds
    <3>2. data_ram[at.idx][a.word][a.bits] = mem[Spot(tag_ram[at.idx], at.idx, a.word, a.bits)]
      BY <1>1, <3>1 DEF Same
    <3>3. QED BY <1>3, <3>1, <3>2, SpotAt DEF CachedByte
  <2>3. QED BY <2>1, <2>2 DEF ByteAt
<1>4. QED BY <1>2, <1>3

LEMMA ByteInRefill ==
  ASSUME UNCHANGED <<tag_ram, valid>>, mem' = mem, at' = at, Refilling, Refilling',
         \A i \in Index : i # at.idx => data_ram'[i] = data_ram[i], NEW a \in QspiAddress
  PROVE  ByteAt(a)' = ByteAt(a)
<1>1. a.idx \in Index
  BY AddressIs
<1>2. QED
  BY <1>1 DEF ByteAt, Holds, CachedByte

LEMMA ByteInstalled ==
  ASSUME tag_ram' = [tag_ram EXCEPT ![at.idx] = at.tag],
         valid' = [valid EXCEPT ![at.idx] = TRUE], data_ram' = data_ram, mem' = mem, at' = at,
         Refilling, ~Refilling', Installed(Words), TypeOK, NEW a \in QspiAddress
  PROVE  ByteAt(a)' = ByteAt(a)
<1>1. a = Spot(a.tag, a.idx, a.word, a.bits) /\ a.word \in Word /\ a.bits \in Lane
      /\ a.idx \in Index
  BY AddressIs
<1>2. at.idx \in Index /\ tag_ram \in [Index -> Tag] /\ valid \in [Index -> BOOLEAN]
  BY DEF TypeOK, CacheTypeOK, Address
<1>3. CASE a.idx # at.idx
  <2>1. tag_ram'[a.idx] = tag_ram[a.idx] /\ valid'[a.idx] = valid[a.idx]
    BY <1>1, <1>2, <1>3
  <2>2. QED BY <1>3, <2>1 DEF ByteAt, Holds, CachedByte
<1>4. CASE a.idx = at.idx
  <2>1. ByteAt(a) = mem[a]
    BY <1>4 DEF ByteAt, Holds
  <2>2. Holds(a)' <=> a.tag = WireTag(at.tag)
    BY <1>2, <1>4 DEF Holds
  <2>3. a.tag = WireTag(at.tag) => CachedByte(a)' = mem[a]
    <3> SUFFICES ASSUME a.tag = WireTag(at.tag) PROVE CachedByte(a)' = mem[a]
      OBVIOUS
    <3>1. data_ram[at.idx][a.word][a.bits] = mem[Spot(at.tag, at.idx, a.word, a.bits)]
      BY <1>1 DEF Installed, Line
    <3>2. QED BY <1>4, <3>1, SpotAt DEF CachedByte
  <2>4. QED BY <2>1, <2>2, <2>3 DEF ByteAt
<1>5. QED BY <1>3, <1>4

LEMMA ByteDelivered ==
  ASSUME UNCHANGED <<tag_ram, valid, data_ram>>, ~Refilling, ~Refilling', Delivers, TypeOK,
         valid[at.idx], tag_ram[at.idx] = victim_tag, NEW a \in QspiAddress
  PROVE  ByteAt(a)' = ByteAt(a)
<1>1. Holds(a)' = Holds(a) /\ CachedByte(a)' = CachedByte(a)
  BY DEF Holds, CachedByte
<1>2. ~Holds(a) => mem'[a] = mem[a]
  <2> SUFFICES ASSUME ~Holds(a) PROVE mem'[a] = mem[a]
    OBVIOUS
  <2>1. ASSUME NEW w \in Word, NEW b \in Lane PROVE a # Spot(victim_tag, at.idx, w, b)
    BY DEF Holds, Spot
  <2>2. QED BY <2>1 DEF Delivers, TypeOK
<1>3. QED BY <1>1, <1>2 DEF ByteAt

\* Write-backs, refills and the wait of the processor change no byte it sees.
LEMMA BytesStay ==
  ASSUME NEW busy \in BOOLEAN, NEW move \in BOOLEAN, Tick(busy, move), SInv,
         cache_state # "MERGE", NEW a \in QspiAddress
  PROVE  ByteAt(a)' = ByteAt(a)
<1>1. TypeOK /\ Turns /\ LineInv /\ cache_state \in States
  BY DEF SInv, TypeOK, CacheTypeOK
<1>2. Clean /\ Seen /\ WritingBack /\ Refills
  BY <1>1 DEF LineInv
<1>3. CASE cache_state \in {"IDLE", "ACCESS", "ACCESS2", "FINISH"}
  <2>1. ~Refilling /\ ~Refilling'
    BY <1>3 DEF Refilling, Tick, CacheClock, MainFsm
  <2>2. QED BY <1>1, <1>3, <2>1, ArraysKept, RestEdge, ByteKept
<1>4. CASE cache_state = "MISS" /\ read.dirty
  <2>1. ~Refilling /\ ~Refilling'
    BY <1>4 DEF Refilling, Tick, CacheClock, MainFsm
  <2>2. QED BY <1>1, <1>4, <2>1, ArraysKept, RestEdge, ByteKept
<1>5. CASE cache_state = "MISS" /\ ~read.dirty
  <2>1. ~Refilling /\ Refilling'
    BY <1>5 DEF Refilling, Tick, CacheClock, MainFsm
  <2>2. at.idx \in Index /\ ~dirty[at.idx]
    BY <1>1, <1>2, <1>5 DEF Seen, Looked, TypeOK, CacheTypeOK, Address
  <2>3. valid[at.idx] => Same(at.idx)
    BY <1>2, <2>1, <2>2 DEF Clean
  <2>4. QED BY <1>1, <1>5, <2>1, <2>3, ArraysKept, RestEdge, CpuEdge, LineOut
<1>6. CASE cache_state = "WRITE_BACK" /\ ~wb.done
  <2>1. ~Refilling /\ ~Refilling'
    BY <1>1, <1>6, WriteBackEdge DEF Refilling
  <2>2. valid[at.idx] /\ tag_ram[at.idx] = victim_tag
    BY <1>1, <1>2, <1>6 DEF WritingBack, Clean, TypeOK, CacheTypeOK, Address
  <2>3. Delivers
    BY <1>1, <1>6, WriteBackLine
  <2>4. QED BY <1>1, <1>6, <2>1, <2>2, <2>3, WriteBackEdge, ByteDelivered
<1>7. CASE cache_state = "WRITE_BACK" /\ wb.done
  <2>1. ~Refilling /\ Refilling'
    BY <1>1, <1>7, WriteBackEdge DEF Refilling
  <2>2. Sent /\ tag_ram[at.idx] = victim_tag /\ ~retrieve_start
    BY <1>2, <1>7 DEF WritingBack, Starting, Priming, Sending
  <2>3. mem' = mem
    BY <2>2, MemoryRests DEF Sent, Tick
  <2>4. Same(at.idx)
    BY <2>2 DEF Sent, Written, Before, Same, Line
  <2>5. QED BY <1>1, <1>7, <2>1, <2>3, <2>4, WriteBackEdge, LineOut
<1>8. CASE cache_state = "REFILL_LINE"
  <2>1. Refilling /\ Refilling'
    BY <1>8 DEF Refilling, Tick, CacheClock, MainFsm
  <2>2. QED BY <1>1, <1>8, <2>1, ArraysKept, RestEdge, CpuEdge, ByteInRefill
<1>9. CASE cache_state = "RETRIEVE_WAIT"
  <2>1. Refilling /\ Refilling'
    BY <1>9 DEF Refilling, Tick, CacheClock, MainFsm
  <2>2. QED BY <1>1, <1>9, <2>1, ArraysKept, RefillEdge, ByteInRefill
<1>10. CASE cache_state = "INSTALL_LINE" /\ (Filling \/ Storing)
  <2>1. Refilling /\ Refilling'
    BY <1>10 DEF Refilling, Filling, Storing, Tick, CacheClock, MainFsm, TagWe
  <2>2. CASE Filling
    BY <1>1, <1>10, <2>1, <2>2, FillingStep, RefillEdge, ByteInRefill
  <2>3. CASE Storing
    BY <1>1, <1>10, <2>1, <2>3, StoringStep, RefillEdge, ByteInRefill
  <2>4. QED BY <1>10, <2>2, <2>3
<1>11. CASE cache_state = "INSTALL_LINE" /\ Complete
  <2>1. Refilling /\ ~Refilling'
    BY <1>11 DEF Refilling, Complete, Tick, CacheClock, MainFsm, TagWe
  <2>2. /\ tag_ram' = [tag_ram EXCEPT ![at.idx] = at.tag]
        /\ valid' = [valid EXCEPT ![at.idx] = TRUE]
        /\ data_ram' = data_ram
    BY <1>11 DEF Complete, Tick, CacheClock, TagArray, LineStatus, DataArray, TagWe, StoreLands
  <2>3. Installed(Words)
    BY <1>11 DEF Complete
  <2>4. QED BY <1>1, <1>11, <2>1, <2>2, <2>3, RefillEdge, ByteInstalled
<1>12. QED
  BY <1>1, <1>2, <1>3, <1>4, <1>5, <1>6, <1>7, <1>8, <1>9, <1>10, <1>11 DEF States, Refills

-----------------------------------------------------------------------------
(* The requests.                                                           *)

\* The lanes a store drives are the n lanes from its address on.
LEMMA StoreLanesAre ==
  ASSUME NEW n \in Nat \ {0}, NEW p \in Nat, p % n = 0, NEW l \in Nat
  PROVE  /\ l \div n = p \div n => l - p \in 0 .. n - 1
         /\ \A i \in 0 .. n - 1 : (p + i) \div n = p \div n /\ (p + i) % n = i
<1>1. PICK q \in Nat : q = p \div n
  OBVIOUS
<1>2. p = (n * q) + (p % n)
  BY <1>1
<1>3. n * q = q * n /\ q * n \in Nat
  OBVIOUS
<1>4. p = q * n
  BY <1>2, <1>3
<1>5. ASSUME NEW i \in 0 .. n - 1
      PROVE  (p + i) \div n = p \div n /\ (p + i) % n = i
  <2>1. (q * n + i) \div n = q /\ (q * n + i) % n = i
    BY Quotient
  <2>2. QED BY <1>1, <1>4, <2>1
<1>6. ASSUME l \div n = p \div n PROVE l - p \in 0 .. n - 1
  <2>1. PICK r \in 0 .. n - 1 : r = l % n
    BY ModBound
  <2>2. l = (n * (l \div n)) + (l % n)
    OBVIOUS
  <2>3. l = n * q + r
    BY <1>1, <1>6, <2>1, <2>2
  <2>4. QED BY <1>3, <1>4, <2>1, <2>3
<1>7. QED BY <1>5, <1>6

LEMMA RequestParts ==
  ASSUME NEW r \in Requests
  PROVE  /\ r.n \in 1 .. Lanes /\ r.address \in Address /\ DOMAIN r.data = 0 .. r.n - 1
         /\ AsByteRequest(r).store = r.store /\ AsByteRequest(r).data = r.data
         /\ DOMAIN AsByteRequest(r).places = 0 .. r.n - 1
         /\ \A i \in 0 .. r.n - 1 :
              /\ r.address.bits + i \in Lane
              /\ AsByteRequest(r).places[i] =
                   Spot(r.address.tag, r.address.idx, r.address.word, r.address.bits + i)
<1>1. r.n \in 1 .. Lanes /\ r.address \in Address /\ DOMAIN r.data = 0 .. r.n - 1
      /\ r.address.bits + r.n <= Lanes /\ r # None
  BY RequestAssumption, NoneAssumption
<1>2. r.address.bits \in Lane
  BY <1>1 DEF Address
<1>3. AsByteRequest(r) = [store |-> r.store, places |-> Places(r), data |-> r.data]
  BY <1>1 DEF AsByteRequest
<1>4. ASSUME NEW i \in 0 .. r.n - 1
      PROVE  /\ r.address.bits + i \in Lane
             /\ [r.address EXCEPT !.tag = WireTag(@), !.bits = @ + i] =
                  Spot(r.address.tag, r.address.idx, r.address.word, r.address.bits + i)
  <2>1. r.address.bits + i \in Lane
    BY <1>1, <1>2
  <2>2. ASSUME NEW x \in Address, NEW t, NEW b
        PROVE  [x EXCEPT !.tag = t, !.bits = b]
                 = [tag |-> t, idx |-> x.idx, word |-> x.word, bits |-> b]
    <3>1. [x EXCEPT !.tag = t, !.bits = b] = [[x EXCEPT !.tag = t] EXCEPT !.bits = b]
      BY DEF Address
    <3>2. [x EXCEPT !.tag = t] = [tag |-> t, idx |-> x.idx, word |-> x.word, bits |-> x.bits]
      BY DEF Address
    <3>3. PICK y : y = [tag |-> t, idx |-> x.idx, word |-> x.word, bits |-> x.bits]
      OBVIOUS
    <3>4. [y EXCEPT !.bits = b] = [tag |-> t, idx |-> x.idx, word |-> x.word, bits |-> b]
      BY <3>3
    <3>5. QED BY <3>1, <3>2, <3>3, <3>4, Zenon
  <2>3. [r.address EXCEPT !.tag = WireTag(r.address.tag), !.bits = r.address.bits + i]
          = [tag |-> WireTag(r.address.tag), idx |-> r.address.idx, word |-> r.address.word,
             bits |-> r.address.bits + i]
    BY <1>1, <2>2, Zenon
  <2>4. QED BY <2>1, <2>3 DEF Spot
<1>5. DOMAIN Places(r) = 0 .. r.n - 1
  BY <1>1 DEF Places
<1>6. \A i \in 0 .. r.n - 1 : Places(r)[i] = [r.address EXCEPT !.tag = WireTag(@), !.bits = @ + i]
  BY <1>1 DEF Places
<1>7. /\ AsByteRequest(r).store = r.store /\ AsByteRequest(r).data = r.data
      /\ AsByteRequest(r).places = Places(r)
  BY <1>3
<1>8. QED
  BY <1>1, <1>4, <1>5, <1>6, <1>7

\* A processor in a state other than IDLE and FINISH asks and gets nothing.
LEMMA NotDone == ASSUME ~CacheDone PROVE Answer = None
BY DEF Answer

LEMMA AnswerIs ==
  SInv /\ CacheDone =>
    Answer # None /\ Answer = IF cpu.store THEN cpu.data ELSE LoadBytes(cpu.n)
<1> SUFFICES ASSUME SInv, CacheDone
             PROVE  Answer # None /\ Answer = IF cpu.store THEN cpu.data ELSE LoadBytes(cpu.n)
  OBVIOUS
<1>0. TypeOK /\ Held
  BY DEF SInv, LineInv
<1>1. cpu \in Requests
  BY <1>0 DEF TypeOK, Held, CacheDone
<1>2. cpu.n \in 1 .. Lanes /\ cpu.data \in [0 .. cpu.n - 1 -> Byte] /\ at = cpu.address
  BY <1>1, RequestAssumption, <1>0 DEF Held, CacheDone
<1>3. LoadBytes(cpu.n) \in [0 .. cpu.n - 1 -> Byte]
  <2>1. \A i \in 0 .. cpu.n - 1 : at.bits + i \in Lane
    BY <1>1, <1>2, RequestParts
  <2>2. read.word \in [Lane -> Byte]
    BY <1>0 DEF TypeOK, CacheTypeOK, Outputs, Data
  <2>3. QED BY <2>1, <2>2 DEF LoadBytes
<1>4. None \notin [0 .. cpu.n - 1 -> Byte]
  BY <1>2, NoneAssumption
<1>5. Answer = IF cpu.store THEN cpu.data ELSE LoadBytes(cpu.n)
  BY DEF Answer
<1>6. QED
  BY <1>2, <1>3, <1>4, <1>5

\* A load is answered with the bytes at its places.
LEMMA LoadServed ==
  ASSUME NEW busy \in BOOLEAN, NEW move \in BOOLEAN, Tick(busy, move), SInv, SInv',
         cache_state = "ACCESS", CacheDone'
  PROVE  Memory!Serve
<1>1. TypeOK /\ Turns /\ LineInv /\ TypeOK' /\ Held'
  BY DEF SInv, LineInv
<1>2. accessed_data /\ Hit /\ ~Asked.store
  BY DEF Tick, CacheClock, MainFsm, CacheDone
<1>3. Asked = cpu /\ cpu \in Requests /\ at = cpu.address /\ cpu' = cpu /\ at' = at
  BY <1>1, CpuEdge
<1>4. valid[at.idx] /\ tag_ram[at.idx] = at.tag
  BY <1>1, <1>2 DEF LineInv, Seen, Looked, Hit
<1>5. read'.word = Line[at.word]
  BY ReadFields DEF Tick, CacheClock, CpuOwns, RamWord
<1>6. Answer' = LoadBytes(cpu.n)' /\ Answer' # None
  <2>1. (Answer # None /\ Answer = IF cpu.store THEN cpu.data ELSE LoadBytes(cpu.n))'
    BY AnswerIs, PTL
  <2>2. ~cpu'.store
    BY <1>2, <1>3
  <2>3. QED BY <2>1, <2>2
<1>7. ASSUME NEW i \in 0 .. cpu.n - 1
      PROVE  [a \in QspiAddress |-> ByteAt(a)][AsByteRequest(cpu).places[i]]
               = read'.word[at'.bits + i]
  <2>1. AsByteRequest(cpu).places[i] = Spot(at.tag, at.idx, at.word, at.bits + i)
        /\ at.bits + i \in Lane
    BY <1>3, RequestParts
  <2>2. PICK a : a = Spot(at.tag, at.idx, at.word, at.bits + i)
    OBVIOUS
  <2>3. a \in QspiAddress /\ a.tag = WireTag(at.tag) /\ a.idx = at.idx /\ a.word = at.word
        /\ a.bits = at.bits + i
    <3>1. at.tag \in Tag /\ at.idx \in Index /\ at.word \in Word
      BY <1>1 DEF Address, TypeOK, CacheTypeOK
    <3>2. Spot(at.tag, at.idx, at.word, at.bits + i) \in QspiAddress
      BY <2>1, <3>1, SpotType
    <3>3. QED BY <2>2, <3>2 DEF Spot
  <2>4. ByteAt(a) = data_ram[at.idx][at.word][at.bits + i]
    BY <1>4, <2>3 DEF ByteAt, Holds, CachedByte, Refilling
  <2>5. QED
    BY <1>3, <1>5, <2>1, <2>2, <2>3, <2>4 DEF Line
<1>8. LoadBytes(cpu.n)' = [i \in 0 .. cpu.n - 1 |-> read'.word[at'.bits + i]]
  BY <1>3 DEF LoadBytes
<1>9. Answer' = Memory!Bytes(AsByteRequest(cpu))
  <2>1. DOMAIN AsByteRequest(cpu).places = 0 .. cpu.n - 1
    BY <1>3, RequestParts
  <2>2. QED BY <1>6, <1>7, <1>8, <2>1 DEF Memory!Bytes
<1>10. AsByteRequest(cpu).store = cpu.store /\ AsByteRequest(cpu) # None /\ ~cpu.store
  BY <1>2, <1>3, RequestParts, NoneAssumption
<1>11. [a \in QspiAddress |-> ByteAt(a)]' = [a \in QspiAddress |-> ByteAt(a)]
  <2>1. \A a \in QspiAddress : ByteAt(a)' = ByteAt(a)
    BY BytesStay
  <2>2. QED BY <2>1
<1>12. Answer = None
  BY NotDone DEF CacheDone
<1>13. AsByteRequest(cpu)' = AsByteRequest(cpu)
  BY <1>3 DEF AsByteRequest, Places
<1>14. QED
  BY <1>9, <1>10, <1>11, <1>12, <1>13 DEF Memory!Serve

\* A store changes the bytes at its places and no other.
LEMMA StoredByte ==
  ASSUME NEW busy \in BOOLEAN, NEW move \in BOOLEAN, Tick(busy, move), SInv,
         cache_state = "MERGE", NEW a \in QspiAddress
  PROVE  /\ \A i \in 0 .. cpu.n - 1 :
              AsByteRequest(cpu).places[i] = a => ByteAt(a)' = cpu.data[i]
         /\ (\A i \in 0 .. cpu.n - 1 : AsByteRequest(cpu).places[i] # a) => ByteAt(a)' = ByteAt(a)
<1>1. TypeOK /\ Turns /\ LineInv
  BY DEF SInv
<1>2. Asked = cpu /\ cpu \in Requests /\ at = cpu.address /\ cpu' = cpu /\ at' = at
  BY <1>1, CpuEdge
<1>3. valid[at.idx] /\ tag_ram[at.idx] = at.tag /\ cpu.store
  BY <1>1 DEF LineInv, Seen
<1>4. valid' = valid /\ tag_ram' = tag_ram /\ mem' = mem /\ ~Refilling /\ ~Refilling'
  BY <1>1, RestEdge DEF Tick, CacheClock, TagArray, LineStatus, TagWe, MainFsm, Refilling
<1>5. at.idx \in Index /\ at.word \in Word /\ at.bits \in Lane /\ at.bits \in Nat
      /\ data_ram \in [Index -> [Word -> Data]]
  BY <1>1 DEF TypeOK, CacheTypeOK, Address
<1>6. data_ram' = [data_ram EXCEPT ![at.idx][at.word] = Merged(cpu.n, cpu.data)]
  BY <1>2, <1>3 DEF Tick, CacheClock, DataArray, StoreLands, RamWord, CpuOwns
<1>7. cpu.n \in Nat \ {0} /\ at.bits % cpu.n = 0
  BY <1>2, RequestAssumption
<1>8. a = Spot(a.tag, a.idx, a.word, a.bits) /\ a.idx \in Index
      /\ a.word \in Word /\ a.bits \in Lane
  BY AddressIs
<1>9. Holds(a)' <=> Holds(a)
  BY <1>4 DEF Holds
<1> DEFINE line == a.tag = WireTag(at.tag) /\ a.idx = at.idx /\ a.word = at.word
<1>10. ASSUME line
       PROVE  /\ ByteAt(a)' = Merged(cpu.n, cpu.data)[a.bits]
              /\ ByteAt(a) = data_ram[at.idx][at.word][a.bits]
  <2>1. Holds(a)
    BY <1>3, <1>4, <1>10 DEF Holds
  <2>2. ByteAt(a)' = data_ram'[at.idx][at.word][a.bits]
    BY <1>9, <1>10, <2>1 DEF ByteAt, CachedByte
  <2>3. data_ram'[at.idx][at.word] = Merged(cpu.n, cpu.data)
    BY <1>5, <1>6
  <2>4. QED BY <1>10, <2>1, <2>2, <2>3 DEF ByteAt, CachedByte
<1>11. ASSUME ~line PROVE ByteAt(a)' = ByteAt(a)
  <2>1. Holds(a) => CachedByte(a)' = CachedByte(a)
    <3> SUFFICES ASSUME Holds(a) PROVE CachedByte(a)' = CachedByte(a)
      OBVIOUS
    <3>1. a.idx # at.idx \/ a.word # at.word
      BY <1>3, <1>11 DEF Holds
    <3>2. data_ram'[a.idx][a.word] = data_ram[a.idx][a.word]
      BY <1>5, <1>6, <1>8, <3>1
    <3>3. QED BY <3>2 DEF CachedByte
  <2>2. QED BY <1>4, <1>9, <2>1 DEF ByteAt
<1>12. ASSUME NEW i \in 0 .. cpu.n - 1, AsByteRequest(cpu).places[i] = a
       PROVE  ByteAt(a)' = cpu.data[i]
  <2>1. a = Spot(at.tag, at.idx, at.word, at.bits + i) /\ at.bits + i \in Lane
    BY <1>2, <1>12, RequestParts
  <2>2. line /\ a.bits = at.bits + i
    BY <2>1 DEF Spot
  <2>3. (at.bits + i) \div cpu.n = at.bits \div cpu.n /\ (at.bits + i) % cpu.n = i
    BY <1>5, <1>7, StoreLanesAre
  <2>4. Merged(cpu.n, cpu.data)[a.bits] = cpu.data[i]
    BY <1>8, <2>2, <2>3 DEF Merged, StoreLanes
  <2>5. QED BY <1>10, <2>2, <2>4
<1>13. ASSUME \A i \in 0 .. cpu.n - 1 : AsByteRequest(cpu).places[i] # a
       PROVE  ByteAt(a)' = ByteAt(a)
  <2>1. CASE ~line
    BY <1>11, <2>1
  <2>2. CASE line
    <3>1. a.bits \div cpu.n # at.bits \div cpu.n
      <4> SUFFICES ASSUME a.bits \div cpu.n = at.bits \div cpu.n PROVE FALSE
        OBVIOUS
      <4>1. a.bits - at.bits \in 0 .. cpu.n - 1
        <5>1. a.bits \in Nat
          BY <1>8
        <5>2. QED BY <1>5, <1>7, <5>1, StoreLanesAre
      <4>2. PICK i \in 0 .. cpu.n - 1 : i = a.bits - at.bits
        BY <4>1
      <4>3. at.bits + i = a.bits
        BY <1>5, <1>8, <4>2
      <4>4. AsByteRequest(cpu).places[i] = Spot(at.tag, at.idx, at.word, a.bits)
        BY <1>2, <4>3, RequestParts
      <4>5. QED BY <1>13, <2>2, <4>2, <4>4, SpotAt
    <3>2. Merged(cpu.n, cpu.data)[a.bits] = data_ram[at.idx][RamWord][a.bits]
      BY <1>8, <3>1 DEF Merged, StoreLanes
    <3>3. RamWord = at.word
      BY DEF RamWord, CpuOwns
    <3>4. QED BY <1>10, <2>2, <3>2, <3>3
  <2>3. QED BY <2>1, <2>2
<1>14. QED BY <1>12, <1>13

LEMMA StoreServed ==
  ASSUME NEW busy \in BOOLEAN, NEW move \in BOOLEAN, Tick(busy, move), SInv, SInv',
         cache_state = "MERGE"
  PROVE  Memory!Serve
<1>1. TypeOK /\ Turns /\ LineInv
  BY DEF SInv
<1>2. cpu \in Requests /\ cpu' = cpu /\ cpu.store
  BY <1>1, CpuEdge DEF LineInv, Seen
<1>3. CacheDone'
  BY DEF Tick, CacheClock, MainFsm, CacheDone
<1>4. Answer' = cpu.data
  <2>1. (Answer = IF cpu.store THEN cpu.data ELSE LoadBytes(cpu.n))'
    BY <1>3, AnswerIs, PTL
  <2>2. QED BY <1>2, <2>1
<1>5. AsByteRequest(cpu).store /\ AsByteRequest(cpu) # None /\ AsByteRequest(cpu).data = cpu.data
      /\ DOMAIN AsByteRequest(cpu).places = 0 .. cpu.n - 1
  BY <1>2, RequestParts, NoneAssumption
<1>6. ASSUME NEW a \in QspiAddress
      PROVE  ByteAt(a)' = IF \E i \in 0 .. cpu.n - 1 : AsByteRequest(cpu).places[i] = a
                          THEN cpu.data[CHOOSE i \in 0 .. cpu.n - 1 :
                                          AsByteRequest(cpu).places[i] = a]
                          ELSE ByteAt(a)
  <2>1. CASE \E i \in 0 .. cpu.n - 1 : AsByteRequest(cpu).places[i] = a
    <3>1. PICK j : j = CHOOSE i \in 0 .. cpu.n - 1 : AsByteRequest(cpu).places[i] = a
      OBVIOUS
    <3>2. j \in 0 .. cpu.n - 1 /\ AsByteRequest(cpu).places[j] = a
      BY <2>1, <3>1
    <3>3. ByteAt(a)' = cpu.data[j]
      BY <3>2, StoredByte
    <3>4. QED BY <2>1, <3>1, <3>3
  <2>2. CASE \A i \in 0 .. cpu.n - 1 : AsByteRequest(cpu).places[i] # a
    BY <2>2, StoredByte
  <2>3. QED BY <2>1, <2>2
<1>7. [a \in QspiAddress |-> ByteAt(a)]' = Memory!Stored(AsByteRequest(cpu))
  BY <1>5, <1>6 DEF Memory!Stored
<1>8. Answer = None
  BY NotDone DEF CacheDone
<1>9. AsByteRequest(cpu)' = AsByteRequest(cpu)
  BY <1>2 DEF AsByteRequest, Places
<1>10. QED
  BY <1>4, <1>5, <1>7, <1>8, <1>9 DEF Memory!Serve

LEMMA MemoryTick ==
  ASSUME NEW busy \in BOOLEAN, NEW move \in BOOLEAN, Tick(busy, move), SInv, SInv'
  PROVE  [Memory!Next]_(Memory!vars)
<1>1. TypeOK /\ Turns /\ LineInv /\ cache_state \in States
  BY DEF SInv, TypeOK, CacheTypeOK
<1>2. ASSUME cache_state # "MERGE"
      PROVE  [a \in QspiAddress |-> ByteAt(a)]' = [a \in QspiAddress |-> ByteAt(a)]
  <2>1. \A a \in QspiAddress : ByteAt(a)' = ByteAt(a)
    BY <1>2, BytesStay
  <2>2. QED BY <2>1
<1>3. CASE cache_state = "IDLE"
  <2>1. Answer = None /\ Answer' = None
    BY <1>3 DEF Answer, CacheDone, Tick, CacheClock, MainFsm
  <2>2. cpu' = cpu \/ (cpu = None /\ cpu' \in Requests)
    BY <1>3 DEF Tick, CpuClock, CacheDone
  <2>3. CASE cpu' = cpu
    <3>1. AsByteRequest(cpu)' = AsByteRequest(cpu)
      BY <2>3 DEF AsByteRequest, Places
    <3>2. QED BY <1>2, <1>3, <2>1, <3>1 DEF Memory!vars
  <2>4. CASE cpu = None /\ cpu' \in Requests
    <3>1. AsByteRequest(cpu) = None
      BY <2>4 DEF AsByteRequest
    <3>2. AsByteRequest(cpu)' \in {AsByteRequest(r) : r \in Requests}
      BY <2>4 DEF AsByteRequest, Places
    <3>3. Memory!Ask
      BY <1>2, <1>3, <2>1, <3>1, <3>2 DEF Memory!Ask
    <3>4. QED BY <3>3 DEF Memory!Next
  <2>5. QED BY <2>2, <2>3, <2>4
<1>4. CASE cache_state = "MERGE"
  BY <1>4, StoreServed DEF Memory!Next
<1>5. CASE cache_state = "ACCESS" /\ CacheDone'
  BY <1>5, LoadServed DEF Memory!Next
<1>6. CASE cache_state = "FINISH"
  <2>1. Answer # None
    BY <1>6, AnswerIs DEF CacheDone
  <2>2. Answer' = None /\ AsByteRequest(cpu)' = None
    BY <1>1, <1>6, CpuEdge DEF Answer, CacheDone, AsByteRequest, Tick, CacheClock, MainFsm
  <2>3. Memory!Release
    BY <1>2, <1>6, <2>1, <2>2 DEF Memory!Release
  <2>4. QED BY <2>3 DEF Memory!Next
<1>7. CASE cache_state \notin {"IDLE", "MERGE", "FINISH"} /\ ~CacheDone'
  <2>1. cpu' = cpu
    BY <1>1, <1>7, CpuEdge
  <2>2. AsByteRequest(cpu)' = AsByteRequest(cpu)
    BY <2>1 DEF AsByteRequest, Places
  <2>3. Answer = None /\ Answer' = None
    BY <1>7 DEF Answer, CacheDone
  <2>4. QED BY <1>2, <1>7, <2>2, <2>3 DEF Memory!vars
<1>8. CacheDone' => cache_state \in {"ACCESS", "MERGE"}
  BY <1>1 DEF CacheDone, Tick, CacheClock, MainFsm, States
<1>9. QED
  BY <1>1, <1>3, <1>4, <1>5, <1>6, <1>7, <1>8

LEMMA InitMemory ==
  ASSUME Init, TypeOK
  PROVE  Memory!Init
<1>1. cpu = None /\ ~CacheDone
  BY DEF Init, CacheInit, CacheDone
<1>2. AsByteRequest(cpu) = None /\ Answer = None
  BY <1>1 DEF AsByteRequest, Answer
<1>3. ASSUME NEW a \in QspiAddress PROVE ByteAt(a) \in Byte
  <2>1. ~Holds(a)
    BY AddressIs DEF Init, CacheInit, Holds
  <2>2. QED BY <2>1 DEF ByteAt, TypeOK
<1>4. QED
  BY <1>2, <1>3 DEF Memory!Init

\* Loads and stores through the cache, whatever it writes back and refills and
\* however long memory and processor take, are those of one memory of bytes
\* (CACHE.v): for every geometry, one in which lines of several tags are one line
\* of the memory behind the wires included, and every set of naturally aligned
\* requests.
THEOREM MemoryImplemented == Spec => ImplementsMemory
<1>1. Init => SInv
  BY InitType, InitTurns, InitLine DEF SInv
<1>2. SInv /\ [Next]_vars => SInv'
  BY NextType, NextTurns, NextLine DEF SInv
<1>3. Init /\ SInv => Memory!Init
  BY InitMemory DEF SInv
<1>4. SInv /\ SInv' /\ [Next]_vars => [Memory!Next]_(Memory!vars)
  <2> SUFFICES ASSUME SInv, SInv', [Next]_vars PROVE [Memory!Next]_(Memory!vars)
    OBVIOUS
  <2>1. CASE UNCHANGED vars
    BY <2>1 DEF vars, cacheVars, Memory!vars, ByteAt, Holds, CachedByte, Refilling,
                AsByteRequest, Places, Answer, CacheDone, LoadBytes
  <2>2. QED BY <2>1, MemoryTick DEF Next
<1>5. QED
  BY <1>1, <1>2, <1>3, <1>4, PTL DEF Spec, ImplementsMemory, Memory!Spec
==============================================================================
