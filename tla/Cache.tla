-------------------------------- MODULE Cache --------------------------------
(***************************************************************************)
(* The write-back data cache of the soft core (Soft Core/CACHE.v): direct  *)
(* mapped, one line per index, one port on the data array.  Every register *)
(* of the module is a variable or a field of one; every always block is an *)
(* operator that gives its registers their next value; CacheClock is one   *)
(* positive edge of clk, on which all blocks read the old values.          *)
(*                                                                         *)
(* Widths are parameters.  A word is a function from byte lanes to bytes,  *)
(* an address its fields.  Sign extension (CACHE_REGS), the boot ROM and   *)
(* the device-bus wires are left out: they hold no state of a transaction. *)
(***************************************************************************)
EXTENDS Integers

CONSTANTS
  Tag,       \* tag values (18 bits)
  QspiTags,  \* how many of them the 25 wires of qspi_address tell apart (2^11)
  Index,     \* line numbers (512)
  Words,     \* words in a line (8)
  Lanes,     \* bytes in a word (4)
  Byte

ASSUME GeometryAssumption == Words \in Nat \ {0} /\ Lanes \in Nat \ {0, 1}
ASSUME WireAssumption == Tag \subseteq Nat /\ QspiTags \in Nat \ {0}
ASSUME PowerUpAssumption == 0 \in Tag /\ 0 \in Index /\ 0 \in Byte

Word == 0 .. Words - 1
Lane == 0 .. Lanes - 1
Address == [tag : Tag, idx : Index, word : Word, bits : Lane]
Data == [Lane -> Byte]

States == {"IDLE", "ACCESS", "MISS", "WRITE_BACK", "REFILL_LINE", "RETRIEVE_WAIT",
           "INSTALL_LINE", "ACCESS2", "MERGE", "FINISH"}

Fill == [word : Data, ptr : Word, bits : Lane, we : BOOLEAN, on : BOOLEAN, done : BOOLEAN]
WriteBack == [state : 0 .. 3, word : Word, bits : Lane, shift : Data, done : BOOLEAN]
Outputs == [tag : Tag, valid : BOOLEAN, dirty : BOOLEAN, word : Data]

VARIABLES
  cache_state,
  accessed_data,    \* the arrays have been read for the latched address
  at,               \* tag_r, idx_r, word_r, bits_r
  victim_tag,
  tag_ram, valid, dirty, data_ram,
  read,             \* output registers of the arrays: tag_do, valid_do, dirty_do, dram_do
  fill,             \* fill_word, fill_word_ptr, fill_bits, fill_we, filling, refill_done
  wb,               \* write_state, wb_word, wb_bits, wb_shift, ram_write_done
  in_bytes, ram_write_start, retrieve_start   \* to the memory controller

cacheVars == <<cache_state, accessed_data, at, victim_tag, tag_ram, valid, dirty,
               data_ram, read, fill, wb, in_bytes, ram_write_start, retrieve_start>>

Blank == [l \in Lane |-> 0]

CacheInit ==
  /\ cache_state = "IDLE"
  /\ accessed_data = FALSE
  /\ at = [tag |-> 0, idx |-> 0, word |-> 0, bits |-> 0]
  /\ victim_tag = 0
  /\ tag_ram = [i \in Index |-> 0]
  /\ valid = [i \in Index |-> FALSE]
  /\ dirty = [i \in Index |-> FALSE]
  /\ data_ram = [i \in Index |-> [w \in Word |-> Blank]]
  /\ read = [tag |-> 0, valid |-> FALSE, dirty |-> FALSE, word |-> Blank]
  /\ fill = [word |-> Blank, ptr |-> 0, bits |-> 0, we |-> FALSE, on |-> FALSE, done |-> FALSE]
  /\ wb = [state |-> 0, word |-> 0, bits |-> 0, shift |-> Blank, done |-> FALSE]
  /\ in_bytes = 0
  /\ ram_write_start = FALSE
  /\ retrieve_start = FALSE

CacheTypeOK ==
  /\ cache_state \in States
  /\ accessed_data \in BOOLEAN
  /\ at \in Address
  /\ victim_tag \in Tag
  /\ tag_ram \in [Index -> Tag]
  /\ valid \in [Index -> BOOLEAN]
  /\ dirty \in [Index -> BOOLEAN]
  /\ data_ram \in [Index -> [Word -> Data]]
  /\ read \in Outputs
  /\ fill \in Fill
  /\ wb \in WriteBack
  /\ in_bytes \in Byte
  /\ ram_write_start \in BOOLEAN
  /\ retrieve_start \in BOOLEAN

-----------------------------------------------------------------------------
(* Wires.  A definition that stands before another and differs from it by  *)
(* a plausible bug is there for the properties to notice.                  *)
(*                                                                         *)
(* A store of n bytes drives the aligned group of n lanes that the address *)
(* falls in; srr8, srr16 and srr32 are n = 1, 2 and 4.                     *)

StoreLanes(n) == {l \in Lane : l \div n = at.bits \div n}

WbOwns == cache_state = "WRITE_BACK"
CpuOwns == cache_state \in {"ACCESS", "MERGE"}
Hit == read.valid /\ read.tag = at.tag
TagWeOnFirstWord == cache_state = "INSTALL_LINE" /\ (fill.done \/ fill.we)
TagWe == cache_state = "INSTALL_LINE" /\ fill.done
StoreLands(store) == cache_state = "MERGE" /\ store
NextWordWide(w) == (w + 1) % (2 * Words)
NextWord(w) == (w + 1) % Words
LastWordOffByOne == fill.ptr = Words
LastWord == fill.ptr = Words - 1
RamWord == IF CpuOwns THEN at.word ELSE IF WbOwns THEN wb.word ELSE fill.ptr

CacheDone == cache_state = "FINISH"
LoadBytes(n) == [i \in 0 .. n - 1 |-> read.word[at.bits + i]]

\* qspi_address is 25 bits wide, fill_address and wb_address are 32: the upper
\* bits of the tag are dropped.
WireTag(t) == t % QspiTags
QspiLineOfRequest == [tag |-> WireTag(at.tag), idx |-> at.idx]
QspiLine == [tag |-> WireTag(IF WbOwns THEN victim_tag ELSE at.tag), idx |-> at.idx]

-----------------------------------------------------------------------------
(* The always blocks *)

AddressLatch(ddc, address) ==
  at' = IF cache_state = "IDLE" /\ ddc THEN address ELSE at

TagArray ==
  /\ tag_ram' = IF TagWe THEN [tag_ram EXCEPT ![at.idx] = at.tag] ELSE tag_ram
  /\ victim_tag' = IF cache_state = "MISS" THEN read.tag ELSE victim_tag

LineStatus(store) ==
  /\ valid' = IF TagWe THEN [valid EXCEPT ![at.idx] = TRUE] ELSE valid
  /\ dirty' = IF TagWe THEN [dirty EXCEPT ![at.idx] = FALSE]
              ELSE IF StoreLands(store) THEN [dirty EXCEPT ![at.idx] = TRUE]
              ELSE dirty

Merged(n, data) ==
  [l \in Lane |-> IF l \in StoreLanes(n) THEN data[l % n]
                  ELSE data_ram[at.idx][RamWord][l]]

DataArray(store, n, data) ==
  data_ram' = IF StoreLands(store)
              THEN [data_ram EXCEPT ![at.idx][RamWord] = Merged(n, data)]
              ELSE IF fill.we /\ cache_state # "MERGE"
              THEN [data_ram EXCEPT ![at.idx][RamWord] = fill.word]
              ELSE data_ram

ReadPort ==
  read' = [tag |-> tag_ram[at.idx], valid |-> valid[at.idx], dirty |-> dirty[at.idx],
           word |-> IF CpuOwns \/ WbOwns \/ cache_state = "RETRIEVE_WAIT"
                    THEN data_ram[at.idx][RamWord] ELSE read.word]

MainFsm(ddc, busy_w, store) ==
  cache_state' =
    CASE cache_state = "IDLE" -> IF ddc /\ ~busy_w THEN "ACCESS" ELSE "IDLE"
      [] cache_state = "ACCESS" -> IF ~accessed_data THEN "ACCESS"
                                   ELSE IF ~Hit THEN "MISS"
                                   ELSE IF store THEN "MERGE" ELSE "FINISH"
      [] cache_state = "MISS" -> IF read.dirty THEN "WRITE_BACK" ELSE "REFILL_LINE"
      [] cache_state = "WRITE_BACK" -> IF wb.done THEN "REFILL_LINE" ELSE "WRITE_BACK"
      [] cache_state = "REFILL_LINE" -> "RETRIEVE_WAIT"
      [] cache_state = "RETRIEVE_WAIT" -> "INSTALL_LINE"
      [] cache_state = "INSTALL_LINE" -> IF TagWe THEN "ACCESS2" ELSE "INSTALL_LINE"
      [] cache_state = "ACCESS2" -> "ACCESS"
      [] cache_state = "MERGE" -> "FINISH"
      [] cache_state = "FINISH" -> "IDLE"

Strobes ==
  /\ accessed_data' = (cache_state = "ACCESS")
  /\ ram_write_start' = IF cache_state = "MISS" /\ read.dirty THEN TRUE
                        ELSE IF WbOwns THEN FALSE ELSE ram_write_start
  /\ retrieve_start' = IF cache_state = "REFILL_LINE" THEN TRUE
                       ELSE IF cache_state = "RETRIEVE_WAIT" THEN FALSE
                       ELSE retrieve_start

\* A byte arrives: it goes to its lane, and the last lane completes a word.
FillEngine(ready, byte) ==
  LET take == fill.on /\ ready
      begin == cache_state = "REFILL_LINE"
  IN  fill' =
        [word |-> IF take THEN [fill.word EXCEPT ![fill.bits] = byte] ELSE fill.word,
         bits |-> IF take THEN (fill.bits + 1) % Lanes ELSE IF begin THEN 0 ELSE fill.bits,
         we |-> take /\ fill.bits = Lanes - 1,
         ptr |-> IF fill.we THEN NextWord(fill.ptr) ELSE IF begin THEN 0 ELSE fill.ptr,
         on |-> IF fill.we /\ LastWord THEN FALSE ELSE begin \/ fill.on,
         done |-> IF begin THEN FALSE ELSE (fill.we /\ LastWord) \/ fill.done]

Shifted(word) == [l \in Lane |-> IF l = Lanes - 1 THEN 0 ELSE word[l + 1]]

\* A byte was taken: present the next one, reading a word ahead of the shifter.
WriteBackEngine(received) ==
  LET begin == wb.state = 0 /\ ram_write_start
      taken == wb.state = 3 /\ received
      wordOut == taken /\ wb.bits = Lanes - 1
      lineOut == wordOut /\ wb.word = 0
      next == wordOut /\ ~lineOut
      load == wb.state = 2 \/ next
  IN  /\ wb' =
           [state |-> IF begin THEN 1 ELSE IF wb.state \in {1, 2} THEN wb.state + 1
                      ELSE IF lineOut THEN 0 ELSE wb.state,
            word |-> IF begin THEN 0 ELSE IF wb.state = 1 THEN NextWord(0)
                     ELSE IF next THEN NextWord(wb.word) ELSE wb.word,
            bits |-> IF begin \/ wordOut THEN 0
                     ELSE IF taken THEN wb.bits + 1 ELSE wb.bits,
            shift |-> IF load THEN read.word
                      ELSE IF taken /\ ~wordOut THEN Shifted(wb.shift) ELSE wb.shift,
            done |-> lineOut]
      /\ in_bytes' = IF load THEN read.word[0]
                     ELSE IF taken /\ ~wordOut THEN wb.shift[1] ELSE in_bytes

-----------------------------------------------------------------------------
(* One clock edge, with the inputs of the processor and of the memory.     *)

CacheClock(ddc, busy_w, address, store, n, data, ready, byte, received) ==
  /\ AddressLatch(ddc, address)
  /\ TagArray
  /\ LineStatus(store)
  /\ DataArray(store, n, data)
  /\ ReadPort
  /\ MainFsm(ddc, busy_w, store)
  /\ Strobes
  /\ FillEngine(ready, byte)
  /\ WriteBackEngine(received)
==============================================================================
