----------------------------- MODULE CacheProofs -----------------------------
(***************************************************************************)
(* Proofs about CacheSystem: types, and the claim of CACHE.v:220-224 that  *)
(* one port suffices because the processor, the refill engine and the      *)
(* write-back engine take turns, for every geometry, every set of requests *)
(* and every timing of memory and processor.                               *)
(***************************************************************************)
EXTENDS CacheSystem, TLAPS

USE GeometryAssumption, PowerUpAssumption DEF Word, Lane

LEMMA ModBound ==
  ASSUME NEW a \in Nat, NEW b \in Nat \ {0}
  PROVE  a % b \in 0 .. b - 1
OBVIOUS

LEMMA DivBound ==
  ASSUME NEW w \in Nat \ {0}, NEW l \in Nat \ {0}, NEW k \in 0 .. w * l - 1
  PROVE  k \div l \in 0 .. w - 1
<1> DEFINE q == k \div l
<1>1. q \in Int /\ k = (l * q) + (k % l) /\ 0 <= k % l /\ k % l < l
  OBVIOUS
<1>2. q >= 0
  BY <1>1
<1> HIDE DEF q
<1>3. q < w
  <2> SUFFICES ASSUME q >= w PROVE FALSE
    BY <1>1, <1>2
  <2>1. l * q >= l * w
    BY <1>1
  <2>2. k >= l * w
    BY <2>1, <1>1
  <2>3. l * w = w * l
    OBVIOUS
  <2>4. QED BY <2>2, <2>3
<1>4. QED
  BY <1>1, <1>2, <1>3 DEF q

LEMMA LineBytesPositive == LineBytes \in Nat \ {0}
<1>1. ASSUME NEW w \in Nat \ {0}, NEW l \in Nat \ {0} PROVE w * l \in Nat \ {0}
  OBVIOUS
<1>2. QED
  BY <1>1 DEF LineBytes

LEMMA NextWordType == ASSUME NEW w \in Word PROVE NextWord(w) \in Word
BY ModBound DEF NextWord

-----------------------------------------------------------------------------
(* Types *)

LEMMA AskedType ==
  ASSUME TypeOK
  PROVE  /\ Asked.store \in BOOLEAN
         /\ Asked.n \in 1 .. Lanes
         /\ Asked.address \in Address
         /\ Asked.data \in [0 .. Asked.n - 1 -> Byte]
<1>1. CASE cpu = None
  BY <1>1 DEF Asked, Address
<1>2. CASE cpu # None
  <2>1. cpu \in Requests
    BY <1>2 DEF TypeOK
  <2>2. QED
    BY <1>2, <2>1, RequestAssumption DEF Asked
<1>3. QED BY <1>1, <1>2

LEMMA InitType == Init => TypeOK
<1> SUFFICES ASSUME Init PROVE TypeOK
  OBVIOUS
<1> USE DEF Init, CacheInit
<1>1. Blank \in Data
  BY DEF Blank, Data
<1>2. CacheTypeOK
  <2>1. data_ram \in [Index -> [Word -> Data]]
    BY <1>1
  <2>2. read \in Outputs
    BY <1>1 DEF Outputs
  <2>3. fill \in Fill
    BY <1>1 DEF Fill
  <2>4. wb \in WriteBack
    BY <1>1 DEF WriteBack
  <2>5. at \in Address /\ cache_state \in States
    BY DEF Address, States
  <2>6. /\ tag_ram \in [Index -> Tag]
        /\ valid \in [Index -> BOOLEAN]
        /\ dirty \in [Index -> BOOLEAN]
    OBVIOUS
  <2>7. accessed_data \in BOOLEAN /\ victim_tag \in Tag /\ in_bytes \in Byte
        /\ ram_write_start \in BOOLEAN /\ retrieve_start \in BOOLEAN
    OBVIOUS
  <2> HIDE DEF Init, CacheInit
  <2>8. QED
    BY <2>1, <2>2, <2>3, <2>4, <2>5, <2>6, <2>7 DEF CacheTypeOK
<1>3. 0 \in 0 .. LineBytes - 1
  BY LineBytesPositive
<1>4. link \in Link
  BY <1>3, LeadAssumption, WireAssumption DEF Link, Quiet, QspiTag
<1>5. QED
  BY <1>2, <1>4, MemoryAssumption DEF TypeOK

LEMMA RamWordType == ASSUME CacheTypeOK PROVE RamWord \in Word
BY DEF CacheTypeOK, RamWord, Address, Fill, WriteBack

LEMMA PortType ==
  ASSUME CacheTypeOK
  PROVE  data_ram[at.idx][RamWord] \in Data
<1>1. at.idx \in Index
  BY DEF CacheTypeOK, Address
<1>2. QED
  BY <1>1, RamWordType DEF CacheTypeOK

LEMMA MergedType ==
  ASSUME CacheTypeOK, NEW n \in 1 .. Lanes, NEW data \in [0 .. n - 1 -> Byte]
  PROVE  Merged(n, data) \in Data
<1>1. ASSUME NEW l \in Lane PROVE data[l % n] \in Byte
  <2>1. l % n \in 0 .. n - 1
    BY ModBound
  <2>2. QED BY <2>1
<1>2. QED
  BY <1>1, PortType DEF Merged, Data

LEMMA ArraysType ==
  ASSUME TypeOK, Asked.n \in 1 .. Lanes, Asked.data \in [0 .. Asked.n - 1 -> Byte],
         TagArray, LineStatus(Asked.store), DataArray(Asked.store, Asked.n, Asked.data),
         ReadPort
  PROVE  /\ tag_ram' \in [Index -> Tag] /\ victim_tag' \in Tag
         /\ valid' \in [Index -> BOOLEAN] /\ dirty' \in [Index -> BOOLEAN]
         /\ data_ram' \in [Index -> [Word -> Data]]
         /\ read' \in Outputs
<1>1. CacheTypeOK /\ at.idx \in Index /\ at.tag \in Tag
  BY DEF TypeOK, CacheTypeOK, Address
<1>2. tag_ram' \in [Index -> Tag] /\ victim_tag' \in Tag
  BY <1>1 DEF TagArray, CacheTypeOK, Outputs
<1>3. valid' \in [Index -> BOOLEAN] /\ dirty' \in [Index -> BOOLEAN]
  BY <1>1 DEF LineStatus, CacheTypeOK
<1>4. data_ram' \in [Index -> [Word -> Data]]
  <2>1. Merged(Asked.n, Asked.data) \in Data /\ fill.word \in Data /\ RamWord \in Word
    BY <1>1, MergedType, RamWordType DEF CacheTypeOK, Fill
  <2>2. QED
    BY <1>1, <2>1 DEF DataArray, CacheTypeOK
<1>5. read' \in Outputs
  <2>1. data_ram[at.idx][RamWord] \in Data /\ read.word \in Data
    BY <1>1, PortType DEF CacheTypeOK, Outputs
  <2>2. QED
    BY <1>1, <2>1 DEF ReadPort, CacheTypeOK, Outputs
<1>6. QED
  BY <1>2, <1>3, <1>4, <1>5

LEMMA FillType ==
  ASSUME CacheTypeOK, out_bytes \in Byte, FillEngine(ready, out_bytes)
  PROVE  fill' \in Fill
<1>1. fill.word \in Data /\ fill.ptr \in Word /\ fill.bits \in Lane
      /\ fill.we \in BOOLEAN /\ fill.on \in BOOLEAN /\ fill.done \in BOOLEAN
  BY DEF CacheTypeOK, Fill
<1>2. [fill.word EXCEPT ![fill.bits] = out_bytes] \in Data
  BY <1>1 DEF Data
<1>3. (fill.bits + 1) % Lanes \in Lane
  <2>1. fill.bits + 1 \in Nat
    BY <1>1
  <2>2. QED BY <2>1, ModBound
<1>4. NextWord(fill.ptr) \in Word
  BY <1>1, NextWordType
<1>5. PICK word \in Data, bits \in Lane, ptr \in Word, we \in BOOLEAN, on \in BOOLEAN,
           done \in BOOLEAN :
        fill' = [word |-> word, bits |-> bits, we |-> we, ptr |-> ptr, on |-> on, done |-> done]
  <2> DEFINE take == fill.on /\ ready
             begin == cache_state = "REFILL_LINE"
             word == IF take THEN [fill.word EXCEPT ![fill.bits] = out_bytes] ELSE fill.word
             bits == IF take THEN (fill.bits + 1) % Lanes ELSE IF begin THEN 0 ELSE fill.bits
             we == take /\ fill.bits = Lanes - 1
             ptr == IF fill.we THEN NextWord(fill.ptr) ELSE IF begin THEN 0 ELSE fill.ptr
             on == IF fill.we /\ LastWord THEN FALSE ELSE begin \/ fill.on
             done == IF begin THEN FALSE ELSE (fill.we /\ LastWord) \/ fill.done
  <2>1. fill' = [word |-> word, bits |-> bits, we |-> we, ptr |-> ptr, on |-> on, done |-> done]
    BY Zenon DEF FillEngine
  <2>2. word \in Data
    BY <1>1, <1>2
  <2>3. bits \in Lane
    BY <1>1, <1>3
  <2>4. ptr \in Word
    BY <1>1, <1>4
  <2>5. we \in BOOLEAN /\ on \in BOOLEAN /\ done \in BOOLEAN
    BY <1>1
  <2> HIDE DEF word, bits, we, ptr, on, done
  <2>6. QED
    BY <2>1, <2>2, <2>3, <2>4, <2>5
<1>6. QED
  BY <1>5 DEF Fill

LEMMA WriteBackType ==
  ASSUME CacheTypeOK, WriteBackEngine(received)
  PROVE  wb' \in WriteBack /\ in_bytes' \in Byte
<1>1. wb.state \in 0 .. 3 /\ wb.word \in Word /\ wb.bits \in Lane /\ wb.shift \in Data
      /\ in_bytes \in Byte /\ read.word \in Data
  BY DEF CacheTypeOK, WriteBack, Outputs
<1>2. read.word[0] \in Byte /\ wb.shift[1] \in Byte
  BY <1>1 DEF Data
<1>3. Shifted(wb.shift) \in Data
  BY <1>1 DEF Shifted, Data
<1>4. NextWord(wb.word) \in Word /\ NextWord(0) \in Word /\ 0 \in Word
  BY <1>1, NextWordType
<1> DEFINE begin == wb.state = 0 /\ ram_write_start
           taken == wb.state = 3 /\ received
           wordOut == taken /\ wb.bits = Lanes - 1
           lineOut == wordOut /\ wb.word = 0
           next == wordOut /\ ~lineOut
           load == wb.state = 2 \/ next
           state == IF begin THEN 1 ELSE IF wb.state \in {1, 2} THEN wb.state + 1
                    ELSE IF lineOut THEN 0 ELSE wb.state
           word == IF begin THEN 0 ELSE IF wb.state = 1 THEN NextWord(0)
                   ELSE IF next THEN NextWord(wb.word) ELSE wb.word
           bits == IF begin \/ wordOut THEN 0
                   ELSE IF taken THEN wb.bits + 1 ELSE wb.bits
           shift == IF load THEN read.word
                    ELSE IF taken /\ ~wordOut THEN Shifted(wb.shift) ELSE wb.shift
           done == lineOut
<1>5. wb' = [state |-> state, word |-> word, bits |-> bits, shift |-> shift, done |-> done]
  BY Zenon DEF WriteBackEngine
<1>6. state \in 0 .. 3
  BY <1>1
<1>7. word \in Word
  BY <1>1, <1>4
<1>8. bits \in Lane
  BY <1>1
<1>9. shift \in Data
  BY <1>1, <1>3
<1>10. done \in BOOLEAN
  OBVIOUS
<1>11. wb' \in WriteBack
  <2> HIDE DEF state, word, bits, shift, done
  <2>1. QED
    BY <1>5, <1>6, <1>7, <1>8, <1>9, <1>10 DEF WriteBack
<1>12. in_bytes' \in Byte
  BY <1>1, <1>2 DEF WriteBackEngine
<1>13. QED
  BY <1>11, <1>12

LEMMA FsmType ==
  ASSUME CacheTypeOK, NEW busy \in BOOLEAN, MainFsm(ddc, busy, Asked.store), Strobes
  PROVE  /\ cache_state' \in States
         /\ accessed_data' \in BOOLEAN
         /\ ram_write_start' \in BOOLEAN /\ retrieve_start' \in BOOLEAN
<1>1. cache_state' \in States
  BY DEF MainFsm, CacheTypeOK, States
<1>2. QED
  BY <1>1 DEF Strobes, CacheTypeOK

LEMMA WireTagType == ASSUME NEW t \in Tag PROVE WireTag(t) \in QspiTag
<1>1. ASSUME NEW y \in Nat, NEW m \in Nat \ {0} PROVE y % m \in 0 .. m - 1
  OBVIOUS
<1>2. QED
  BY <1>1, WireAssumption DEF WireTag, QspiTag

\* A tag that the wires carry whole.
LEMMA WireTagWhole == ASSUME NEW t \in QspiTag PROVE WireTag(t) = t
<1>1. ASSUME NEW m \in Nat \ {0}, NEW y \in 0 .. m - 1 PROVE y % m = y
  OBVIOUS
<1>2. QED
  BY <1>1, WireAssumption DEF WireTag, QspiTag

LEMMA QspiLineType ==
  ASSUME CacheTypeOK
  PROVE  QspiLine \in [tag : QspiTag, idx : Index]
<1>1. at.tag \in Tag /\ at.idx \in Index /\ victim_tag \in Tag
  BY DEF CacheTypeOK, Address
<1>2. WireTag(at.tag) \in QspiTag /\ WireTag(victim_tag) \in QspiTag
  BY <1>1, WireTagType
<1>3. QED
  BY <1>1, <1>2 DEF QspiLine

LEMMA BytePlaceType ==
  ASSUME NEW line \in [tag : QspiTag, idx : Index], NEW k \in 0 .. LineBytes - 1
  PROVE  BytePlace(line, k) \in QspiAddress
<1>1. k \div Lanes \in Word
  BY DivBound DEF LineBytes
<1>2. k % Lanes \in Lane
  BY ModBound DEF LineBytes
<1>3. QED
  BY <1>1, <1>2 DEF BytePlace, QspiAddress

LEMMA MemoryType ==
  ASSUME TypeOK, NEW move \in BOOLEAN, MemoryClock(move)
  PROVE  /\ ready' \in BOOLEAN /\ received' \in BOOLEAN /\ out_bytes' \in Byte
         /\ mem' \in [QspiAddress -> Byte] /\ link' \in Link
<1>1. link \in Link /\ link.line \in [tag : QspiTag, idx : Index] /\ link.n \in 0 .. LineBytes - 1
      /\ link.held \in Byte \cup {None} /\ link.wait \in 0 .. Lead + 1
      /\ link.op \in {"idle", "read", "write"}
  BY DEF TypeOK, Link
<1>2. BytePlace(link.line, link.n) \in QspiAddress
  BY <1>1, BytePlaceType
<1>3. out_bytes' \in Byte
  BY <1>2 DEF MemoryClock, TypeOK
<1>4. mem' \in [QspiAddress -> Byte]
  BY <1>1, <1>2 DEF MemoryClock, TypeOK
<1>5. link' \in Link
  <2>1. QspiLine \in [tag : QspiTag, idx : Index]
    BY QspiLineType DEF TypeOK
  <2>2. Quiet \in Link /\ Lead \in 0 .. Lead + 1 /\ 1 \in 0 .. Lead + 1
    <3>1. 0 \in 0 .. LineBytes - 1
      BY LineBytesPositive
    <3>2. QED BY <3>1, LeadAssumption, WireAssumption DEF Quiet, Link, QspiTag
  <2>3. in_bytes \in Byte
    BY DEF TypeOK, CacheTypeOK
  <2>4. ~Last => link.n + 1 \in 0 .. LineBytes - 1
    BY <1>1, LineBytesPositive DEF Last
  <2>5. CASE link.op = "idle"
    BY <1>1, <2>1, <2>2, <2>5 DEF MemoryClock, Link
  <2>6. CASE link.op # "idle" /\ link.wait > 0
    BY <1>1, <2>6, LeadAssumption DEF MemoryClock, Link
  <2>7. CASE link.op # "idle" /\ link.wait = 0 /\ ~move
    BY <1>1, <2>7 DEF MemoryClock
  <2>8. CASE link.op = "read" /\ link.wait = 0 /\ move
    BY <1>1, <2>2, <2>4, <2>8 DEF MemoryClock, Link
  <2>9. CASE link.op = "write" /\ link.wait = 0 /\ move /\ link.held = None
    BY <1>1, <2>3, <2>9 DEF MemoryClock, Link
  <2>10. CASE link.op = "write" /\ link.wait = 0 /\ move /\ link.held # None
    <3>1. \/ link' = Quiet
          \/ ~Last /\ link' = [link EXCEPT !.n = @ + 1, !.held = None, !.wait = 1]
      BY <2>10 DEF MemoryClock
    <3>2. QED
      BY <1>1, <2>2, <2>4, <3>1 DEF Link
  <2>11. QED
    BY <1>1, <2>5, <2>6, <2>7, <2>8, <2>9, <2>10, LeadAssumption
<1>6. ready' \in BOOLEAN /\ received' \in BOOLEAN
  BY DEF MemoryClock
<1>7. QED
  BY <1>3, <1>4, <1>5, <1>6

LEMMA NextType == TypeOK /\ [Next]_vars => TypeOK'
<1> SUFFICES ASSUME TypeOK, [Next]_vars PROVE TypeOK'
  OBVIOUS
<1>1. CASE UNCHANGED vars
  BY <1>1 DEF vars, cacheVars, TypeOK, CacheTypeOK
<1>2. ASSUME NEW busy \in BOOLEAN, NEW move \in BOOLEAN, Tick(busy, move)
      PROVE  TypeOK'
  <2>1. CacheTypeOK /\ out_bytes \in Byte /\ ddc \in BOOLEAN /\ cpu \in Requests \cup {None}
    BY DEF TypeOK
  <2>2. Asked.n \in 1 .. Lanes /\ Asked.data \in [0 .. Asked.n - 1 -> Byte]
        /\ Asked.address \in Address
    BY AskedType
  <2>3. at' \in Address
    BY <1>2, <2>1, <2>2 DEF Tick, CacheClock, AddressLatch, CacheTypeOK
  <2>4. /\ tag_ram' \in [Index -> Tag] /\ victim_tag' \in Tag
        /\ valid' \in [Index -> BOOLEAN] /\ dirty' \in [Index -> BOOLEAN]
        /\ data_ram' \in [Index -> [Word -> Data]]
        /\ read' \in Outputs
    BY <1>2, <2>2, ArraysType DEF Tick, CacheClock
  <2>5. fill' \in Fill
    BY <1>2, <2>1, FillType DEF Tick, CacheClock
  <2>6. wb' \in WriteBack /\ in_bytes' \in Byte
    BY <1>2, <2>1, WriteBackType DEF Tick, CacheClock
  <2>7. /\ cache_state' \in States
        /\ accessed_data' \in BOOLEAN
        /\ ram_write_start' \in BOOLEAN /\ retrieve_start' \in BOOLEAN
    BY <1>2, <2>1, FsmType DEF Tick, CacheClock
  <2>8. CacheTypeOK'
    BY <2>3, <2>4, <2>5, <2>6, <2>7 DEF CacheTypeOK
  <2>9. cpu' \in Requests \cup {None} /\ ddc' \in BOOLEAN
    BY <1>2, <2>1 DEF Tick, CpuClock
  <2>10. QED
    BY <1>2, <2>8, <2>9, MemoryType DEF Tick, TypeOK
<1>3. QED
  BY <1>1, <1>2 DEF Next

\* Registers, arrays and the transfer keep their types, for every geometry.
THEOREM TypeCorrect == Spec => []TypeOK
BY InitType, NextType, PTL DEF Spec

-----------------------------------------------------------------------------
(* The engines take turns.  The claim itself is not inductive: leaving     *)
(* INSTALL_LINE is safe only because refill_done goes up together with     *)
(* filling going down, and leaving WRITE_BACK only because ram_write_done  *)
(* comes from a write-back engine that has stopped and was not restarted.  *)

RefillTurn ==
  /\ fill.on \/ fill.we => cache_state \in {"RETRIEVE_WAIT", "INSTALL_LINE"}
  /\ fill.we => fill.bits = 0
  /\ cache_state = "RETRIEVE_WAIT" => fill.on /\ ~fill.we /\ ~fill.done
  /\ cache_state = "INSTALL_LINE" /\ fill.done => ~fill.on /\ ~fill.we

WriteBackTurn ==
  /\ wb.state # 0 \/ ram_write_start \/ wb.done => cache_state = "WRITE_BACK"
  /\ ram_write_start => wb.state = 0 /\ ~wb.done
  /\ wb.done => wb.state = 0

Turns == RefillTurn /\ WriteBackTurn

LEMMA InitTurns == Init => Turns
BY DEF Init, CacheInit, Turns, RefillTurn, WriteBackTurn

LEMMA FillFields ==
  ASSUME FillEngine(ready, out_bytes)
  PROVE  /\ fill'.bits = IF fill.on /\ ready THEN (fill.bits + 1) % Lanes
                         ELSE IF cache_state = "REFILL_LINE" THEN 0 ELSE fill.bits
         /\ fill'.we = (fill.on /\ ready /\ fill.bits = Lanes - 1)
         /\ fill'.on = IF fill.we /\ LastWord THEN FALSE
                       ELSE cache_state = "REFILL_LINE" \/ fill.on
         /\ fill'.done = IF cache_state = "REFILL_LINE" THEN FALSE
                         ELSE (fill.we /\ LastWord) \/ fill.done
BY DEF FillEngine

LEMMA WbFields ==
  ASSUME WriteBackEngine(received)
  PROVE  /\ wb'.state = IF wb.state = 0 /\ ram_write_start THEN 1
                        ELSE IF wb.state \in {1, 2} THEN wb.state + 1
                        ELSE IF wb'.done THEN 0 ELSE wb.state
         /\ wb'.done => wb.state = 3
BY DEF WriteBackEngine

LEMMA RefillStep ==
  ASSUME CacheTypeOK, RefillTurn, NEW busy \in BOOLEAN, NEW store \in BOOLEAN,
         MainFsm(ddc, busy, store), FillEngine(ready, out_bytes)
  PROVE  RefillTurn'
<1>1. cache_state \in States /\ fill.bits \in Lane
      /\ fill.we \in BOOLEAN /\ fill.on \in BOOLEAN /\ fill.done \in BOOLEAN
  BY DEF CacheTypeOK, Fill
<1>2. fill'.we => fill'.bits = 0
  <2>1. Lanes % Lanes = 0
    BY ModBound
  <2>2. SUFFICES ASSUME fill'.we PROVE fill'.bits = 0
    OBVIOUS
  <2>3. fill.on /\ ready /\ fill.bits = Lanes - 1
    BY <2>2, FillFields
  <2>4. fill'.bits = (fill.bits + 1) % Lanes
    BY <2>3, FillFields
  <2>5. fill.bits + 1 = Lanes
    BY <2>3
  <2>6. QED
    BY <2>1, <2>4, <2>5
<1>3. CASE cache_state = "REFILL_LINE"
  <2>1. ~fill.on /\ ~fill.we
    BY <1>3 DEF RefillTurn
  <2>2. cache_state' = "RETRIEVE_WAIT"
    BY <1>3 DEF MainFsm
  <2>3. fill'.on /\ ~fill'.we /\ ~fill'.done
    BY <1>3, <2>1, FillFields
  <2>4. QED
    BY <1>2, <2>2, <2>3 DEF RefillTurn
<1>4. CASE cache_state = "RETRIEVE_WAIT"
  <2>1. fill.on /\ ~fill.we /\ ~fill.done
    BY <1>4 DEF RefillTurn
  <2>2. cache_state' = "INSTALL_LINE"
    BY <1>4 DEF MainFsm
  <2>3. ~fill'.done
    BY <1>4, <2>1, FillFields
  <2>4. QED
    BY <1>2, <2>2, <2>3 DEF RefillTurn
<1>5. CASE cache_state = "INSTALL_LINE" /\ fill.done
  <2>1. ~fill.on /\ ~fill.we
    BY <1>5 DEF RefillTurn
  <2>2. cache_state' = "ACCESS2"
    BY <1>5 DEF MainFsm, TagWe
  <2>3. ~fill'.on /\ ~fill'.we
    BY <1>5, <2>1, FillFields
  <2>4. QED
    BY <1>2, <2>2, <2>3 DEF RefillTurn
<1>6. CASE cache_state = "INSTALL_LINE" /\ ~fill.done
  <2>1. cache_state' = "INSTALL_LINE"
    BY <1>6 DEF MainFsm, TagWe
  <2>2. fill'.done => ~fill'.on
    BY <1>6, FillFields
  <2>3. fill'.done => ~fill'.we
    \* the word that completes the line was complete a cycle ago
    <3>1. fill'.done => fill.we
      BY <1>6, FillFields
    <3>2. fill.we => fill.bits # Lanes - 1
      BY <1>1 DEF RefillTurn
    <3>3. QED BY <3>1, <3>2, FillFields
  <2>4. QED
    BY <1>2, <2>1, <2>2, <2>3 DEF RefillTurn
<1>7. CASE cache_state \notin {"REFILL_LINE", "RETRIEVE_WAIT", "INSTALL_LINE"}
  <2>1. ~fill.on /\ ~fill.we
    BY <1>7 DEF RefillTurn
  <2>2. cache_state' \notin {"RETRIEVE_WAIT", "INSTALL_LINE"}
    BY <1>1, <1>7 DEF MainFsm, States
  <2>3. ~fill'.on /\ ~fill'.we
    BY <1>7, <2>1, FillFields
  <2>4. QED
    BY <1>2, <2>2, <2>3 DEF RefillTurn
<1>8. QED
  BY <1>3, <1>4, <1>5, <1>6, <1>7

LEMMA WriteBackStep ==
  ASSUME CacheTypeOK, WriteBackTurn, NEW busy \in BOOLEAN, NEW store \in BOOLEAN,
         MainFsm(ddc, busy, store), Strobes, WriteBackEngine(received)
  PROVE  WriteBackTurn'
<1>1. cache_state \in States /\ wb.state \in 0 .. 3 /\ wb.done \in BOOLEAN
      /\ ram_write_start \in BOOLEAN
  BY DEF CacheTypeOK, WriteBack
<1>2. CASE cache_state = "WRITE_BACK" /\ wb.done
  <2>1. wb.state = 0 /\ ~ram_write_start
    BY <1>2 DEF WriteBackTurn
  <2>2. wb'.state = 0 /\ ~wb'.done
    BY <1>2, <2>1, WbFields
  <2>3. ~ram_write_start'
    BY <1>2 DEF Strobes, WbOwns
  <2>4. QED
    BY <2>2, <2>3 DEF WriteBackTurn
<1>3. CASE cache_state = "WRITE_BACK" /\ ~wb.done
  <2>1. cache_state' = "WRITE_BACK" /\ ~ram_write_start'
    BY <1>3 DEF MainFsm, Strobes, WbOwns
  <2>2. wb'.done => wb'.state = 0
    BY <1>1, WbFields
  <2>3. QED
    BY <2>1, <2>2 DEF WriteBackTurn
<1>4. CASE cache_state # "WRITE_BACK"
  <2>1. wb.state = 0 /\ ~ram_write_start /\ ~wb.done
    BY <1>1, <1>4 DEF WriteBackTurn
  <2>2. wb'.state = 0 /\ ~wb'.done
    BY <2>1, WbFields
  <2>3. ram_write_start' => cache_state' = "WRITE_BACK"
    BY <1>4, <2>1 DEF MainFsm, Strobes, WbOwns
  <2>4. QED
    BY <2>2, <2>3 DEF WriteBackTurn
<1>5. QED
  BY <1>2, <1>3, <1>4

LEMMA NextTurns == TypeOK /\ Turns /\ [Next]_vars => Turns'
<1> SUFFICES ASSUME TypeOK, Turns, [Next]_vars PROVE Turns'
  OBVIOUS
<1>1. CASE UNCHANGED vars
  BY <1>1 DEF vars, cacheVars, Turns, RefillTurn, WriteBackTurn
<1>2. ASSUME NEW busy \in BOOLEAN, NEW move \in BOOLEAN, Tick(busy, move)
      PROVE  Turns'
  <2>1. CacheTypeOK /\ Asked.store \in BOOLEAN
    BY AskedType DEF TypeOK
  <2>2. RefillTurn'
    BY <1>2, <2>1, RefillStep DEF Tick, CacheClock, Turns
  <2>3. WriteBackTurn'
    BY <1>2, <2>1, WriteBackStep DEF Tick, CacheClock, Turns
  <2>4. QED
    BY <2>2, <2>3 DEF Turns
<1>3. QED
  BY <1>1, <1>2 DEF Next

\* The refill engine writes the arrays only while a line is installed, the
\* write-back engine runs only in WRITE_BACK: never both, and never while the
\* processor owns the port, whatever the timing of memory and processor.
THEOREM EnginesTakeTurns == Spec => []OneOwner
<1>1. Init => TypeOK /\ Turns
  BY InitType, InitTurns
<1>2. TypeOK /\ Turns /\ [Next]_vars => (TypeOK /\ Turns)'
  BY NextType, NextTurns
<1>3. TypeOK /\ Turns => OneOwner
  BY DEF Turns, RefillTurn, WriteBackTurn, OneOwner
<1>4. QED
  BY <1>1, <1>2, <1>3, PTL DEF Spec
==============================================================================
