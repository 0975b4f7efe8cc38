# MRV32 verification

MRV32 is a small computer on an FPGA: an RV32IM soft core in Verilog
(`Soft Core/`), a kernel in C and assembly (`OS/`) and programs that run on it
(`Kilo/`, `TinyBasicLike/`). This directory holds its TLA+ models, the TLC
configurations that check them on small instances, and proofs that TLAPS checks
for every value of the constants.

Parse with `tlasany M.tla`, check with `tlc -config X.cfg M`, prove with
`tlapm M.tla`. `PROJECT.json` lists runs, theorems, mutations, and the source
lines behind every definition.

## 1. Inventory

| component | state | operations | what makes it correct |
|---|---|---|---|
| kernel files (`boot.c`, `sysopen.c`, `sysclose.c`, `sysread.c`, `syswrite.c`) | `dir_table`, `global_fd_table`, the RAM the files lie in | open, close, read, write | tables stay well formed; files do not overwrite each other or the kernel; a read returns what was written |
| programs (`sysexecve.c`, `backtoshell.S`, `shell.c`, `sysdispatch.c`) | the running program, its registers | exec, exit, dispatch | the same tables whoever calls |
| terminal handlers (`read_handler.S`, `write_handler.S`) | `a4`, `a5`, `a6` in a loop around `wfi` | raw read, canonical read, write | every character typed is returned once; every byte written is sent |
| UART (`UART.v`) | receiver, 32-entry FIFO, `rx_pending`, transmitter | receive, push, pop, acknowledge, send | no character lost but by overrun; request and FIFO agree |
| trap unit, control matrix (`TU.v`, `CM.v`) | `wfi_irq`, `wfi_dev`, `T`, trap sequences | sleep, stall, wake, trap | a sleeper is woken; a stall ends |
| data cache (`CACHE.v`) | tag, valid, dirty and data arrays; three state machines | load, store, refill, write-back | the processor sees one memory of bytes |
| QSPI path (`SPIRAMCONTROLLER.v`, `SPIRAMENGINE.v`, `SPI.v`) | two state machines, shift registers, CS#, clock | power-up, burst read, burst write | the right bytes at the right addresses, one driver of the bus |
| PSRAM chip (`SPIRAM.v`) | mode, address, memory | the commands of the part | what the controller assumes of it |
| SD path (`SPISDCONTROLLER.v`, `SPISDENGINE.v`, `sys_sd_*.S`) | state machine, byte counts, clock divider, shift position; `MAR` and RAM walk along | initialise, read block, write block | a block arrives whole where it belongs; a stall ends |
| ALU (`ALU.v`) | divider registers | RV32I and RV32M operations | quotient and remainder of every pair of words in the cycles an instruction has |
| registers, RAM, top level (`CSR.v`, `PC.v`, `MAR.v`, `SAR.v`, `IR.v`, `REGS.v`, `RAM.v`, `RISCV.v`) | one register each | load | wiring |
| libraries (`minilib.c`, `rv32i_stdlib.h`) | the heap's blocks | malloc, free, realloc; arithmetic, string, memory and number functions | blocks stay whole; each function is what its name says, at the corner values too |
| Kilo (`kilo_mini.c`) | rows with their cached colours, cursor and window, the shadow of the screen, search, counter of warnings | keys, search, open, save, refresh, quit | the text changes as the key says; the terminal shows the window; nothing unsaved is lost unasked |
| TinyBasic (`TinyBasicLike.c`, `target_riscv.c`) | the program's bytes, variables, stack of frames, place in the program, file | type a line, run a statement, edit, save, load | the bytes are a table of lines; expressions have their values; frames and program keep to their space |

**How they interact.** A program executes `ecall`; the trap unit saves the
program counter and jumps to `trap_entry.S`, which saves the registers and
calls `sys_dispatch`. The kernel's file calls work on RAM. Its terminal calls
enter the handlers, which sleep in `wfi` until `UART.v` raises a request; the
trap unit answers with `rxack` and loads `rxvec`, and a byte store with the
device bus selected moves the character. Sending a byte sets `wfi_dev` until
the UART is done. The cache, its QSPI path and the SD path exist as modules
with handshakes and testbenches; the core's load and store path does not use
the cache yet. Kilo and TinyBasic are programs: they read keys and lines from
the terminal, keep their text in memory of their own, and save it through the
kernel's file calls.

**What is hard.** The kernel itself is sequential: a call runs to its end in
the trap handler. Its hazards are long sequences of legal calls: descriptors
left open over an exit, two descriptors of one file, a full directory, a file
that grows into its neighbour. So are the programs': state cached in one place
and changed in another (a row's colours, the shadow of the screen, `idx`, a
frame's line after the program was edited), and limits reached after a long
way. The hardware is concurrent: every register moves
at every clock edge, and pulses one cycle long meet state machines that may be
looking elsewhere (an acknowledge meets a push, a start strobe meets a gap, a
request meets the `wfi` that waits for it). `PROJECT.json` lists each hazard at
its line, with the properties that would notice it going wrong or the reason
none does.

## 2. Modules and the code they model

```
FileStore <--implements-- KernelFilesDiscipline --extends--> KernelFiles
                          DisciplineProofs --extends--> KernelFilesProofs
ByteMemory <--implements-- CacheSystem --extends--> Cache    CacheProofs
                           CacheMemoryProofs --extends--> CacheProofs
ByteMemory <--implements-- CacheQspi --instances--> Cache, Qspi   QspiProofs (about Qspi)
Console --extends--> Uart                                    ConsoleProofs
SdCard --extends--> SdController                             SdProofs
TextBuffer <--implements-- Kilo                              KiloProofs
ProgramListing <--implements-- Basic --extends--> BasicExpr
Library --extends--> Heap, MiniLib, Divider --extends--> SoftMath
```

A module named `XProofs` extends the module it is about, and `MCX` is the small
instance of X.

### KernelFiles

One action per system call: `SysOpen`, `SysClose`, `SysRead`, `SysWrite`,
`SysExecve`, `SysExit`. `dir` is `dir_table`, `fds` the descriptor table, `mem`
the RAM, `running` the program, `result` what the caller gets back. A call is
one action because nothing interrupts the kernel: `rxvec` is taken inside
`read_handler` only. Every early return is a disjunct (`OpenFails`, `BadFd`,
the descriptor that cannot be allocated after the entry was made).

Abstractions: names are model values, `dir_search`'s first match is `Found`; a
program is the calls it makes. `close` is called with numbers inside the table
only (the code does not check); terminal counts are at least 1 (the handlers test
the count after the first byte, so a count of 0 never ends). Names fit an entry's
`name[32]`: the copy in `create_new_entry` has no bound, and what a longer name
overwrites is not modelled.

`MemTop` is the number of bytes of RAM. An address above it is the one that is
left when `RAM.v` drops the upper bits of the word number (`Cell`), so that a
write past the top comes round to the kernel's image. `file_write` stops at
nothing; the model bounds how far files reach (`Reach`, which may lie above
`MemTop`) and the counts (`MaxCount`). A write that changes a byte of the image
leads to `running = Lost`, and there the model stops: what a kernel that has been
written over does next is not known. `NoClobbering` is what the documentation
claims, `KernelReachedOnlyPastTop` what holds of the kernel's own bytes.

`KernelFilesDiscipline` states what programs must do to keep their files apart
- one descriptor of a file at a time, and writes that end before the next file
begins and within RAM - and shows that under it the calls implement `FileStore`: named byte
sequences with handles, without addresses.

### Cache, CacheSystem, CacheQspi

`Cache` has the registers of `CACHE.v` and one operator per block that assigns
them; `CacheClock` is a clock edge. A word is `Lanes` bytes, a line `Words`
words (4 and 8 in the code), an address a record of the four fields
`cache_address` is split into. A tag has 18 bits, of which `qspi_address`, 25 bits
wide, carries the low 11: `WireTag` is what is left, `QspiTags` how many tags the
wires tell apart. Lines whose tags differ only above are one line of the memory -
the testbench's 0x2000 and 0x40002000 are such a pair - and `ImplementsMemory` is
about the memory's bytes, one for each address the wires can name; each request
of the processor is translated to those (`Places`). It holds although the tags
differ in the cache, since both lines have one index and only one of them is in
the cache at a time. `CacheSystem` adds a processor that follows the
handshake of `CACHETestbench.v` (hold `ddc` until `busy_w` is low, hold the
request until `cache_done`) and a memory that takes any time for each byte.
`CacheQspi` replaces this memory by the real controller, engine and chip. The
controller takes 24 bits of the address (`ControllerAddress`), so the chip tells
half as many tags apart (`ChipTags`), and the memory implemented is the chip's.

No source wires the cache to the controller. The bare wiring of their ports
stops for ever: the controller samples `start_fsm` in IDLE only, and after a
write-back it is still in its CS# gap when the cache pulses `retrieve_start`.
`CacheQspi` therefore keeps the strobe in a register of its own, `owed`, which
is marked external; whoever connects the two needs one.

Left out: the boot ROM and the device port.

### Qspi

`ctl` holds the registers of `SPIRAMCONTROLLER.v`, `eng` those of
`SPIRAMENGINE.v`, `dev` the chip of `SPIRAM.v`; all move in one step per clock
edge. Bytes are pairs of nibbles, and the bus carries nibbles or the value `Z`.
An address goes out as three bytes, as in the code; the checked chips are so small
that the upper two are zero, the proofs have all of them.
The chip's commands that the controller never sends, and reset after power-up,
are left out.

### Uart, Console

`Uart` has the receiver (`rcv`), the FIFO with `rx_pending` (`fifo`) and the
transmitter (`snd`) of `UART.v`, with the number of clocks per bit, bits per
character and FIFO entries as constants. `Console` adds `wfi_irq` and
`wfi_dev` of `CM.v`, `rxack` of `TU.v`, the two handler loops, and a terminal
that presses keys whenever the line is free and displays what is sent. Each
step is a clock cycle; `cpu.pc` names the places of the processor that matter,
and between them it takes as many cycles as it likes.

### SdCard

`SdController` has the registers of `SPISDCONTROLLER.v` (`sd`) and of the engine
(`spi`; `SPISDENGINE.v` holds the same text again). The states that send
fillers, a command, or wait for an answer repeat the same few lines in the code;
`Fillers` and `Command` are those lines once, and each state says what its
answer does. `SdCard` puts the rest of the path around it: the processor in
`sys_sd_read` or `sys_sd_write` (`host`: one cycle of `dev_start_signal`, then
`wfi_dev` until `sdwd` or `sdrd`), `MAR` with its delayed count, the RAM port
with its output register, and a card that follows `cs` and `sclk` only.

`RAM.v` suppresses a write whose address is one of 7180, 7184, 7188, 7192 and 7196
(lines 32868 to 32872). They are `Unwritten`, any set of addresses: a block read
over one of them leaves its byte as it was, and `BlockCopied` says so.

The card is external. It may let bytes pass before each answer, say "not yet" to
ACMD 41, be busy after a block, or refuse one; it answers every read. It stands
for a card that is ready for ever once it is ready. The four address bytes of a
command are the block's number (`Addressing`), which the card puts together again
(`Addressed`). Block numbers have 32 bits, as `SAR` has; `CardAssumption` says so.

A program may call at any time, also before `ready_state` is set. Such a call is
lost and the processor stalls for ever, since `sdws` and `sdrs` last one cycle;
the model has these states, and `TransferEnds` speaks of transfers that began.
`address_progression` has no initial value in the code; FPGA registers start at
0, and so does the model's. `clk_on`, `rst_reg`, CMD 58 and
`next_read_address` are never used in the code and left out.

The filler counts differ from the appendix of `Architecture Documentation.txt`
(7 bytes in place of 6 after CMD 0, 1 in place of 3 between CMD 55 and ACMD 41,
5 in place of 4 before CMD 17), since `cnt` is compared before it is raised and
not always reset. The model follows the code.

### Kilo

`E` is `struct editorConfig`. A handler of the code is an operator from one
value of `E` to the next; `main`'s loop - read a key, handle it, refresh - is
`Next`, with one action per kind of key (`KeyInsert`, `KeyEnter`, `KeyErase`,
`KeyMove`, `KeySave`, `KeyFind`, `KeyQuit`) and those of the search, which
reads keys in a loop of its own (`FindKey`, `FindEnter`). `Inputs` are the byte
strings a terminal sends up to the byte that completes a key, escape sequences
that are no key included.

Each row has its text (`chars`), its cached colours (`hl`) and whether a
comment is open behind it (`hl_oc`); `render` is a function of `chars`.
`screen` and `cursor` are what the terminal shows: what `editorRefreshScreen`
sends is applied to them, differences and erases, against the code's shadow of
the screen. A saved file is what the kernel's write was given.

Where the code reads or writes outside its arrays, `E.wild` is set, the mode
becomes "wild", and the model stops: nothing can be said of what follows. One
way there is a cursor off the screen, and `CursorInPlace` states how it
gets there; others are in the highlighter, which counts in the rendered line
where it should count in the text. Opening reads the file byte by byte and cuts
a line at `LineBuf` characters.

The highlighter's classes are comment, string, number and the rest. A number is
among them since what follows it matters: a '.' behind one is no separator, so
that in `1.//` no comment begins.

Left out: the texts of the message and status rows and the time a message stays;
the colours of keywords and unprintable bytes, which choose a colour and nothing
else; the paths taken when an allocation fails; a write that stores less than it
was given, which `file_write` never does; `editorSelectSyntaxHighlight`'s choice
by file name (`HasSyntax` is a constant).

`TextBuffer` is what an editor promises: lines, a place, and keys that act
there. Kilo implements it with the sum of window and cursor as the place.

### Basic, BasicExpr

`prog` is the program's bytes, cell by cell: two cells of line number, the
length, the text, its end. `TakeLine` is the code between reading a line and
executing it: number, search, deletion, and the loop that shuffles the bytes
behind the line up through the space in which the new text itself is waiting.
Each statement of `loop` is an action (`Goto`, `For`, `NextFor`, `Return`,
`Save`, ...), and each question the program asks (`Answer`, `InputLine`). `ctl`
holds the mode, the place in the program (`current_line`, `txtpos`) and the
stack of FOR and GOSUB frames; `mem` is the variables' space with the letters
and the arrays; `file` and `load` are the file and the reading of it, which
feeds lines to the prompt as if they were typed.

A cell is a digit, a letter, a mark or a whole keyword: `scantable`'s match of
a keyword is one cell, and a blank is kept only between two numbers. `Byte` is
the number of values of a byte, so that lengths and halves of line numbers wrap
where they do in the code; `Width` is the width of a value.

`BasicExpr` has the descent `expression`, `expr1` ... `expr4` as the rows of
one recursive function; its bitwise operators come from the Bitwise module. A
shift is by the whole second operand, read without a sign, as SLL and SRA by
register are (`ALU.v:140-150`): nothing, or the sign, is left beyond the width.

INPUT keeps the variables it has read names of in a table of 20 and tests their
number against the table's size in bytes; one variable too many (`InputVars`) is
written behind it, and the mode is "wild".

In mode "wild" the code has written where it must not, in mode "stale" it would
execute what is no text of the program any more; the model stops in both.
`StaleOnlyAfterEdit` states how "stale" comes about.

`ProgramListing` is what a BASIC promises of the program being typed: a table
of lines by number with a range that can be locked.

Left out: strings and character constants inside expressions; the target's
timers, random numbers and the check for a break key; the statements the
target's build leaves out; the wording of messages.

### Heap, MiniLib, SoftMath, Divider, Library

`Heap` is `minilib.c`'s allocator: `mem` the arena in cells of eight bytes, and
one action each for malloc, free and realloc by any owner, with the first-fit
walk, the split and the joining with the block behind as the code has them. An
owner fills what it got with its own name, so a header in the wrong place or two
blocks over one another show. `MiniLib` has the string and memory functions and
`vsnprintf`'s buffer, `SoftMath` the arithmetic of `rv32i_stdlib.h` and the
conversions of numbers.

`Divider` is the processor's divider in `ALU.v`: its registers edge by edge, for
the 34 cycles `CM.v` holds a DIV, DIVU, REM or REMU, with the corner cases that
are answered without dividing. It is compared with what RV32M defines (`Answer`),
except for a negative number divided by zero, where it is wrong; so is `isqrt` of
the largest word. `ArithmeticExact` leaves both out (section 5).

A request to the allocator is a number of cells, small beside a word: `ALIGN8`
adds 7 without a test, so that the last seven sizes below 2^32 become 0 and get a
block without room. That wrap is not modelled; Kilo's requests are far below.

`Library` brings them together: the allocator is its state machine, and the
functions are compared with their definitions in its initial state.

`src/Kilo/rv32i_stdlib.h` and `src/TinyBasicLike/rv32i_stdlib.h` have the same
functions as `src/OS/rv32i_stdlib.h`, which is the one `PROJECT.json` names; they
lack its types and a few one-line wrappers.

## 3. Runs

Every run is named in `PROJECT.json`; each property of each passing run has a
mutation of the code that violates it.

| run | states | shows |
|---|---|---|
| `kernel_tables` | 180,860 | Directory and descriptor table stay well formed under all call sequences on three directory entries and two file descriptors; RAM below the first file changes only by a write past the top of RAM that comes round. |
| `kernel_clobber` | violated | A file that grows overwrites the next one (first finding). |
| `kernel_discipline` | 9,616 | Programs that keep to the discipline keep files apart, never read past an end, and see `FileStore`. |
| `cache_lines` | 154,073 | Cache and memory are `ByteMemory` for every timing, with tags the address wires do not tell apart among them; the engines take turns; every request is answered. |
| `qspi_bursts` | 168,911 | From power-up through bursts of a whole line: bytes land where they should, also across the wrap; one driver at a time; CS# moves with the clock parked and within the chip's times. |
| `cache_qspi` | 137,210 | The cache on the real controller, engine and chip is `ByteMemory`, one byte for each address of the chip, and answers every request. |
| `console_cycles` | 712,920 | Frames are heard once and sent whole, in both directions at once; the FIFO is the unread input; request, acknowledge and `wfi` meet in every order without a lost wakeup; a sleeper with characters waiting is served and a transmission releases the processor. |
| `sd_blocks` | 219,392 | Initialisation ends, blocks are copied whole in both directions but for the addresses RAM takes no write at, controller and card stay in step, transfers end. |
| `sd_slow` | violated | A card that takes six bytes over its answers is never initialised (second finding). |
| `kilo` | 124,328 | Under any sequence of keys the text is `TextBuffer`'s, the terminal shows the window and its cursor the character it stands on, a clean text is the file's, nothing is lit after a search, quitting is confirmed, and the cursor leaves the screen in three known ways only. |
| `basic` | 111,310 | The program's bytes are `ProgramListing`; what is saved is the range asked for, as long as the program's line numbers fit a byte (no line is left out between two even if they do not), and is read back; frames stay off the variables; control leaves the program only after an edit; expressions of two operators have their trees' values. |
| `library` | 20,834 | Heap blocks stay whole; soft arithmetic, the divider, conversions and string functions agree with their definitions on all small words and texts, but for a negative number divided by zero and the root of the largest word (section 5). |

### Bounds

* Kernel: a boot file at address 2, three directory entries for four names and
  five descriptors (two beyond the terminal's): directory and table both fill
  up, two descriptors meet on one file, files touch each other and the top of
  memory. RAM has four bytes and files reach two beyond, so that writes of up to
  two bytes come round to both bytes of the image, in `kernel_tables`; five in
  `kernel_discipline`, whose writes end within RAM (opening and closing the boot file cuts it to
  nothing, which leaves room for a byte in each of three files). The gap of 12
  bytes is 1. `SYMMETRY` exchanges the three names that `boot` does not use. `VIEW
  LiveState` drops `result`, `call`, which program runs and the stale fields of
  closed descriptors, which no later step reads; every property is about the rest
  or about single steps.
* Cache: three tags compete for each of two lines, two of them one tag on the
  wires (`QspiTags` 2), so each access can miss, evict and write back, and a
  write-back can be of the bytes that the refill fetches next; two words of two
  bytes give every pointer a first, a middle and a last value. Each byte starts
  with a value of its own. On the chip the tags are 0, 1, 2 and 5, of which the
  cache's wires tell four apart and the controller's two.
* Qspi: the real line of 32 bytes and the real gap of 7 cycles, on a chip of two
  lines that wraps at its end, at one aligned address and one whose burst meets
  the wrap in its middle; three power-up cycles in place of 13000.
* Console: a FIFO of two entries fills and wraps; a bit lasts 4 clocks (about 4167
  in the code), the least that keeps the receiver's half-bit wait
  (`UartAssumption`); characters have two bits, so that there is a first and a
  last one, and two values that differ when bits are lost or swapped; calls of
  one or two characters, so that a loop goes round.
* SD: blocks of three bytes, each byte of RAM and card with a value of its own;
  two blocks; a buffer with a byte on either side and an unwritten address as its
  second byte; half periods of three and two
  clocks before and after initialisation (200 and 16 in the code); delays of no
  and of five bytes, the most the controller waits after ACMD 41.
* Kilo: a window of two lines by three columns, tabs of four and a line buffer
  of six, on four initial files: none, a line wider than the window ended by
  CR and NL whose `//` stands behind `1.`, a comment left open before a tab, and
  tabs with half a comment.
  Every key can come at any time; after two changes of the text (`MaxEdits`) no
  more are made, while moving, searching (for one character), saving and
  quitting go on without bound. One warning before a quit in place of three;
  runs of two blanks count as long (8 in the code).
* Basic: a byte has 16 values, so that a line number wraps at 256, two numbers
  share a low byte, and a line of more than 12 cells has no length; 34 cells of
  program fill up; four words of stack with ten spare, as 32 have 68; values of 16
  bits; arrays of two by two; a table of two variables for INPUT. Eight programs
  at the start - loops left, nested and entered again, calls without end, INPUT,
  numbers that need two bytes - and up to three of some thirty lines typed
  (`MaxTyped`), among them every command that edits, saves or loads. The trees of
  `ExpressionsMeanTheirTrees` have one or two operators of every level (`>`, `<=`,
  `OR` and `MOD` among them), shift counts below zero and beyond the width, and
  the smallest number by one and minus one.
* Library: a heap of eight cells, three owners and requests of up to four, so
  that blocks are met too small, just right and worth a split, with neighbours
  on both sides. Words of eight bits have every carry, sign and zero case of
  thirty-two; strings of up to three of two letters overlap themselves; areas in
  four cells overlap, touch or lie apart; a buffer of six holds, just holds and
  cuts what two conversions print.

`CHECK_DEADLOCK FALSE` stands in `kilo` and `basic` only: a program that has
quit, or that went wild, does nothing more.

### Fairness

* `CacheSystem`: the clock runs, `busy_w` does not stay high for ever and a byte
  is not under way for ever. Nothing is assumed of the processor: it need not
  ask.
* `CacheQspi`: the clock runs (`WF_vars(Next)`); all delays are the circuits' own.
* `Console`: in a handler, the clock runs and an instruction ends
  (`WF_vars(cpu.pc # "program" /\ Tick(FALSE, FALSE))`). Nobody needs press a
  key, so "a reader gets a character" is claimed only once the FIFO holds one.
* `SdCard`: the clock runs (`WF_vars(Tick(FALSE))`). A program need not call, and
  the card's delays are finite choices, not fairness.
* Kernel, `Qspi`, Kilo, Basic and the heap are specified by safety alone: each of
  their steps is a call, a burst, a key or a line that nobody owes them.

### Findings

1. `Architecture Documentation.txt:125` says the file table allows "executing and
   retrieving programs and files and creating new ones without clobbering
   existing ones". `create_new_entry` puts a new file 12 bytes after the
   *current* end of the one before and `file_write` has no bound, so a file that
   grows overwrites the next: run `kernel_clobber`. `kernel_discipline` shows
   which behaviour of programs avoids it.
2. `Architecture Documentation.txt:213-214` has the controller send ACMD 41 and
   "Send 0xFFs until you get 0x00 back". `SPISDCONTROLLER.v:533` sends six at
   most and starts over at CMD 55. A card that answers later is ready by then and
   says 00 to CMD 55, for whose 01 the controller waits for ever: run `sd_slow`.

## 4. Proofs

| theorem | says |
|---|---|
| `TypeCorrect` (`KernelFilesProofs`) | The kernel's tables keep their types under every sequence of system calls, for every number of descriptors and files. |
| `DirectoryCorrect` (`KernelFilesProofs`) | The used entries of the directory are a prefix with distinct names that starts above the kernel image, for every table size. |
| `FdTableCorrect` (`KernelFilesProofs`) | Every open descriptor refers to a used entry and the terminal's three stay the terminal's, for every table size. |
| `KernelImageSafe` (`KernelFilesProofs`) | A byte of RAM below the first program changes only by a file write that runs past the top of RAM and comes round to it, for every memory size, however far files reach, and every sequence of calls until then. |
| `TypeCorrect` (`CacheProofs`) | Registers and arrays of the cache keep their widths, for every geometry of tags, lines, words and lanes. |
| `EnginesTakeTurns` (`CacheProofs`) | The refill engine and the write-back engine never run at the same time or outside their own states, for every line length. |
| `FilesStayApart` (`DisciplineProofs`) | Programs that keep to the discipline never let two files share a byte, for every memory, table size and sequence of calls. |
| `EveryEndIsFound` (`DisciplineProofs`) | Under the discipline no descriptor passes the end of its file, so `file_read`'s test for equality finds it. |
| `StoreImplemented` (`DisciplineProofs`) | Under the discipline every system call is a step of `FileStore` or changes nothing a program sees, for every memory, table size and sequence of calls. |
| `MemoryImplemented` (`CacheMemoryProofs`) | Loads and stores through the cache are those of one memory of bytes (`ByteMemory`), whatever it writes back and refills, for every geometry, set of aligned requests and timing of memory and processor; addresses that the wires do not tell apart are one byte. |
| `RequestsCorrect` (`ConsoleProofs`) | The receive request is there when a sleeper has a character waiting, and whoever wakes finds one, for every FIFO depth, bit time and character width. |
| `FramesHeard` (`ConsoleProofs`) | The receiver keeps step with every frame on the line and is back in time for the next start bit, for every bit time and character width. |
| `NothingLost` (`ConsoleProofs`) | The FIFO holds the characters typed and not yet read, in order and unchanged, through every meeting of a push and a pop, for every depth, width and bit time. |
| `ByteSent` (`ConsoleProofs`) | The processor goes on after a store to the port only when the terminal has sampled every bit of the byte and the line is idle, for every width and bit time. |
| `BusNeverContended` (`QspiProofs`) | The QSPI controller and the chip never drive the bus together, for every memory, wrap boundary, burst length, gap and request. |
| `BurstsExact` (`QspiProofs`) | A completed read hands over the memory's bytes and a completed write stores the caller's, wrapped where the chip wraps and nothing else changed, for every memory, burst length, wrap boundary and data. |
| `ChipTimed` (`QspiProofs`) | CS# moves only with the clock parked, stays high longer than the gap and is never low for tCEM, for every gap and every burst of up to 63 bytes. |
| `BytesInStep` (`SdProofs`) | The selected card has seen a whole number of bytes whenever the engine rests, for every clock divider, start-up time, block length, program and card. |
| `BlocksCopied` (`SdProofs`) | A processor that goes on after `sys_sd_write` has its block in the card, after `sys_sd_read` in RAM, byte for byte and with nothing else changed, but for the addresses RAM takes no write at, which keep what they held, for every divider, block length, buffer, 32-bit block number, contents, and card, slow, busy or refusing. |
| `QuitsAreConfirmed` (`KiloProofs`) | Kilo leaves an unsaved text only after all its warnings in a row, for every text, window and set of keys. |
| `WindowShown` (`KiloProofs`) | After every key, in a search or not, the terminal shows the window cell by cell although only differences and erases are sent, for every screen, text and length of a run worth an erase. |

**KernelFilesProofs.** The invariant is `IInv == TypeOK /\ DirectoryWellFormed /\
FdTableWellFormed`. Types alone are not inductive: `sysclose` stores through the
descriptor's entry pointer, which must be a directory index, and
`create_new_entry` reads `dir_table[j-1]`, which must exist and be used. So the
used entries must be a prefix that is never empty (boot's files are never
removed), and open descriptors must point into it. One lemma per call shows that
`IInv` is kept. `KernelImageSafe` follows from `IInv`: a write goes from its
file's start plus a position upwards, and no file starts below boot's first one,
so a byte below it can only be met by way of the top of RAM. What the theorem does
not say is that nothing gets there: `file_write` has no bound, and a program that
writes enough does. It says that no placement of files, stale descriptor or full
table is another way, and how far a write has to run. Assumptions:
`CapacityAssumption`, `ImageAssumption` and `BootAssumption`, which `boot.c` meets
with Basic at 8000 and Kilo at 48000.

**CacheProofs.** `TypeCorrect` goes register by register, from the geometry
assumptions. `OneOwner` is not inductive; `Turns == RefillTurn /\ WriteBackTurn`
is: it relates each engine's counters to the state of the main machine, so that
the last word of a line is the only place where either hands over. It is proved
for every line length, lane count and timing.

**DisciplineProofs.** The invariant is `DInv == IInv /\ Neighbours /\
OneDescriptor /\ PositionWithinSize`. `ExtentsDisjoint` speaks of all pairs of
files, but what a call keeps is that each file ends before the *next* one begins
(`Neighbours`); the pairs follow because starts and sizes only add up along the
table. `Neighbours` alone is not kept by `sysclose`, which makes a file's size
its descriptor's position: the position must lie within the size
(`PositionWithinSize`), and for that no second descriptor may have moved the
size in between (`OneDescriptor`, which is what the discipline gives).

`StoreImplemented` is the step simulation of `FileStore` under the mapping that
`KernelFilesDiscipline` gives. Contents and handles of the abstract store are
functions of the tables and of RAM, so the work is to show what each call leaves
alone: a write changes the bytes of its own extent only, which no other file
shares (`ExtentsDisjoint`); a new entry or a file cut short changes no byte; and
`exec` and `exit` change the running program only. `AbsentAssumption` says that
the value that stands for a missing file is no file's contents, and a conjunct of
`BootAssumption` that boot's files lie within memory.

**CacheMemoryProofs.** `ByteMemory` has one byte per address; the cache has it in
up to three places. `SInv == TypeOK /\ Turns /\ LineInv` says where. The byte of a
place is the array's if a valid line with its tag on the wires is there and
memory's otherwise; a valid line that is not dirty is the one behind the cache
(`Clean`), so that it may be dropped. During a write-back the bytes before the one
presented are in memory already (`Written`), and the one presented, with those
behind it in the shift register, is the array's (`Presents`). During a refill the
words before the pointer are installed, the word being collected is right so far,
and the byte on its way is the next one (`Installed`, `Filled`, `Due`). `Seen`
says that what was read from the arrays is not stale when the main machine looks
at it. Each block of `CacheClock` moves one of these; a step is a load or store of
`ByteMemory` where `cache_done` rises, and a stutter elsewhere. Assumptions: a
request is aligned within its word (`RequestAssumption`), `None` is no request
(`NoneAssumption`), and a byte is written at the earliest two cycles after the
start pulse (`LeadAssumption`): the write-back engine shows its first byte three
edges after the pulse, and the controller spends longer than that on CS#, command
and address. An earlier write would store what the engine has not yet shown.

**ConsoleProofs.** `RequestInv == Pointers /\ Registers /\ Requests`. Request and
FIFO agree everywhere but between the trap unit's acknowledge, which withdraws
the request, and the pop it leads to; there the FIFO still holds the character
the sleeper was woken for. `Requests` says which places of the processor lie
between the two, and that the strobe's edge detector is off when it gets there.
The lemmas `Between`, `Successor` and `Moves` are the arithmetic of pointers
that wrap at twice the depth.
`FramesHeard` needs more than the receiver: `RxInv` says for each of its states how
many cycles of the frame have passed on the keyboard's side (`Sampled`: half a bit
for the start bit, a bit for each one after it) and that the bits shifted in are
the character's first ones (`Received`). So every bit is sampled in its middle, and
the receiver is idle before the next frame can begin. `NothingLost` adds `Stored`,
the FIFO's slots between the pointers are the characters typed and not yet read,
and a push stores what `Received` says. `ByteSent` is the same argument the other
way: `TxInv` says how far the frame has come on the terminal's side in each state of
the transmitter, while the processor is stalled.

**QspiProofs.** `NoContention` speaks of two lines; what keeps it is that the chip
and the controller agree how far a command has come. `BInv == CtlInv /\ EngInv /\
DevInv /\ CallInv` says so edge by edge: `start` is high exactly while the
controller waits for `done`, the engine shifts only then, and the nibbles of
command and address the chip has sampled are the rising edges of the bytes sent
so far (`Rises`, `AddressNibbles`). So the chip of a read is in its dummy clocks no
earlier than the sixth address nibble, after which `op_en` is released. A chip
still in SPI mode, or one already reset into QPI during start-up, could misread a
command; the proof shows that whatever it reads then moves no data (`Deaf`,
`Resetting`): the serial lines hold /WP and /HOLD high, so as nibbles they are 12
or 13, and neither begins a read or a write. The `...Moves` lemmas say what an edge
leaves in each part, the `...Step` lemmas that the invariant survives it; between
two bytes (`AlignedBetween`) and within one (`AlignedWithin`) are the two halves
of the argument. It uses no assumption on the constants.

`BurstsExact` adds the values. `WordInv` says what each edge leaves in the
registers: the nibbles of the byte under way in the engine (`EngWord`), the
address in the chip as far as it has been shifted in (`ChipAddress`), the dummy
clocks passed (`ChipDummy`), and for the data which byte of the burst the chip
stands at, in which half of it, and what is in its memory and in the caller's
hands by then (`ChipWrite`, `ChipRead`, `CallMoved`). Writing and reading differ
by half a byte: a chip that reads shows a nibble before it is sampled, so
it has left the byte when the engine has its second nibble (`LowShown`), and after
the last byte its address is one too far, which nobody looks at. `Written` and
`Collected` allow for a strobe that the caller has not answered yet. The address
goes through as three bytes and six nibbles (`AddressBytes`, `AddrOf`), which is
where `MemSize <= 2^24` is needed; that a burst is no longer than the wrap
boundary is needed for its places to be distinct.

`ChipTimed` counts edges. `Ticks` is the number of edges since the controller
handed a byte over, read off the engine's registers; a byte takes 18 edges in SPI,
6 as a command's and 5 from the dummy clocks on. `LowFor` adds up the
bytes before it to bound the chip's counter from above while CS# is low, `HighFor`
bounds it from below while it is high. With a length field of six bits a
burst of 63 bytes stays at 531 of the 640 edges allowed (`SizeAssumption`).

**SdProofs.** `InStep` counts bits on the card's side that the controller never
looks at. `StepInv == CtlInv /\ Rested /\ EngInv /\ CardShape(card) /\ Together`
joins the three. `Together` says for each state of the engine how many rising
edges the selected card has seen of the byte under way, which depends on whether
the engine has taken notice of the last one (`spi.rise`). That needs `Edges`:
`rise` and `fall` last one cycle and the clock does not turn in it, since the
divider counts at least one (`SdAssumption`). Selecting the card while a byte is
under way would break it, so `Rested` says that the controller is idle, with its
clock high, wherever it selects the card; and `CtlInv`, which has the place in
each routine, that `start` is high for one cycle only (`StartFalls`), so no byte
begins after the last one is awaited. The lemmas go routine by routine
(`...Moves`, `...Step`), as the code does; nothing is assumed of the card's
answers, their delays or the program's calls.

`BlockCopied` speaks of the end of a call, and the bytes are on the way for
thousands of edges before. `CopyInv` follows them, in layers that each rest on
those before:

* `PaceInv`: a byte is under way exactly where the controller awaits one, and it is
  the byte the controller holds in `tx`. One exception is part of it: after a block
  the card refuses, `write_state` 3 waits for a byte nobody sends (`Hung`).
* `ByteTypes`, `BitInv`: of the byte under way, the upper bits are in the other
  side's shift register, the next one on the line. With `Together` a byte arrives
  whole, and an edge is one of three (`EdgeKinds`): a byte is finished, nothing
  happens, or the controller goes on while the card stands still.
* `CardPlace`: what the card has made of the bytes so far and which bytes it will
  send, place by place of the routines. A card that has granted a command has a 0 in
  its queue and behind it what was asked for; one that has not never sends a 0
  (`Grants`). A read's token is found however many fillers come before it
  (`TokenFrom`), a write's block is judged by the byte behind its check (`Judged`).
* `Pulses`, `HostPlace`: `MAR` counts a cycle late and the RAM port answers a
  cycle late, so the walk through the buffer is half a step ahead or behind at
  each place (`WriteWalk`, `ReadWalk`); `Loaded(n)` says that n bytes of the block
  are in RAM and every other byte is as it was, those RAM takes no write at
  included.

Every part was checked by TLC on the configuration of `sd_blocks` before it was
proved. `CardAssumption` is used for the buffer's room in RAM, the four bytes of a
block number and the types of contents; no bound is set on delays and busy times.

**KiloProofs.** `QuitInv` says that warnings given and warnings left add up to
`QuitTimes` while a key is awaited. In a search they do not, since the count
starts again only when the search has ended; the proof uses that no Ctrl-Q is
handled meanwhile. `ScreenInv` adds to `TerminalShowsWindow` that the shadow is the
window as well: what is on the terminal is then right wherever nothing is sent.
`SentMakesRow` is the argument for one row - a cell left out is one that does not
differ, a cell erased one wanted blank - and holds whatever the rows contain, so
nothing need be known of how they are rendered and coloured. `RefreshShows` lifts
it to the screen, also for the first refresh and Ctrl-L, which rely on no shadow.

Only model-checked: the liveness properties, which are out of the prover's reach
(as is `ENABLED`); the remaining refinements (`CacheQspi`'s, whose memory is a
circuit, Kilo's and Basic's); and the rest of Kilo (`CleanMeansOnDisk`,
`NoMatchLeftLit`, `CursorInPlace`), where rows are read, rendered and coloured by
folds and recursive functions over the text. About `Basic` nothing can be proved:
its bitwise operators are recursive ones, and so is most of what `Library`
compares - what a recursive definition computes for every input is out of reach as
well.

## 5. Not modelled, and why

* **The ALU beyond its divider, boot ROM, instruction decoding, CSR file,
  register file.** Combinational or one register each.
* **Trap sequences** (`ecall`, `mret`, `sret`, `trap_entry.S`): one thread, no
  nesting; only the receive interrupt interleaves with anything, and `Console`
  has it.
* **Argument splitting in `sysexecve.c`**: a function of its string, planned.
* **Kilo's and the heap's last resorts**: what Kilo does when an allocation fails,
  and the wrap of `ALIGN8` for requests next to 2^32.
* **A file name longer than 31 characters**, which overruns the directory entry.
* **Cache: ROM and device bus port.** No source drives them yet.
* **PSRAM commands that the controller never sends**; **reset after power-up.**
* **Kilo's message and status rows, keyword colours; TinyBasic's
  character constants, timers, random numbers and break check; the printf front
  ends and the wrappers of the system calls in `minilib.c`; character classes.**
  Wording, layout, or one expression each.
* **Shell line editing, `crt0.S`, build scripts, images, constraints,
  testbenches** other than the cache's: no state of their own that outlives a
  call, or not part of the running system.

Met on the way, in no run's property, because one would only repeat the line:

* `ALU.v:239-248`: a negative number divided by zero has the quotient 1 and its
  magnitude as remainder, since the signs are put back after the corner case too.
  RV32M defines -1 and the number itself, and `README.txt:5` names the instruction
  set RV32IM. `ArithmeticExact` excludes it (`NegativeByZero`).
* `rv32i_stdlib.h:258`: `isqrt`, "Integer square root (floor)", adds 1 first and is
  0 for the largest word. `ArithmeticExact` excludes it.
* `TinyBasicLike.c:3113`: SAVE compares the low byte of each line's number with the
  last one asked for, so `SAVE 1 2` also writes line 257, although line 179 says
  "a range of lines". In the model, and in the states of `basic` (line 17, with
  bytes of 16 values); `SavedIsTheRange` excludes it.
* `TinyBasicLike.c:2426`: INPUT compares its count of variables with the size of
  their table in bytes, so a 21st one is written behind it.
* `ALU.v:136-146`: SLL, SRL and SRA by a register shift by the whole register (as
  `BasicExpr` has it), and `CM.v:437` and `CM.v:470` extend the immediates of ORI
  and ANDI with zeros rather than with their sign.
* `minilib.c:184`: `free` joins a block with the one behind it only, so that a
  long session fragments the heap.
* `kilo_mini.c:603`: deleting a row raises the `idx` of the rows behind it where
  it should lower it; the highlighter reads `idx` to find the row before.
* `sysclose.c:9` indexes the table before any check of the number;
  `write_handler.S:17` and `read_handler.S:30` take a count of 0 for 2^32.

## 6. Plan

In this order:

1. **exec's argument splitting**: a function over short strings against a
   reference definition, with the array's bound.
2. **Trap unit and control matrix**: the `ecall`, `mret` and interrupt sequences
   with the program counter and CSRs, composed with `Console`.
3. **Device bus**: the multiplexers of `RISCV.v` with their latched control
   signals, for the three device pairs in use.

To prove next: `CleanMeansOnDisk` of `Kilo`, with the rows of the text as an
opaque value, and that `CacheQspi`'s circuit is the memory `CacheMemoryProofs`
assumes, from `BurstsExact` and `ChipTimed`.
