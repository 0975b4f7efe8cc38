------------------------------ MODULE Console ------------------------------
(***************************************************************************)
(* The console: the serial port of module Uart, the processor's two ways   *)
(* of waiting for it (CM.v: wfi_irq for the wfi instruction, wfi_dev for a *)
(* byte being sent), the trap unit that turns a receive request into a     *)
(* jump to rxvec (TU.v), the kernel's loops on top (read_handler.S and     *)
(* write_handler.S) and, outside, a terminal that types and displays.      *)
(*                                                                         *)
(* Every step is one clock cycle.  The processor's own instruction times   *)
(* are abstracted: between the events that matter it may take any number   *)
(* of cycles.  The places cpu.pc names are                                 *)
(*   program   not in a handler                                            *)
(*   wfi       executing wfi, wfi_irq not yet set                          *)
(*   asleep    wfi_irq is set: decode is frozen                            *)
(*   woken     wfi_irq has just been cleared                               *)
(*   select    read_handler.S:10-12, up to the sdevram strobe              *)
(*   strobe    the one cycle with sdevram set: the byte goes to RAM        *)
(*   test      read_handler.S:13-27 or write_handler.S:10-12, up to the    *)
(*             dev_start_signal pulse                                      *)
(*   start     the one cycle with dev_start_signal set                     *)
(*   stalled   wfi_dev is set                                              *)
(*   resume    wfi_dev has been cleared                                    *)
(* so wfi_irq, wfi_dev, sdevram and dev_start_signal are functions of pc.  *)
(***************************************************************************)
EXTENDS Uart, Sequences

CONSTANTS
    Keys,           \* the characters typed and written
    CR,             \* the character that ends a canonical read (13)
    MaxCount        \* bound on the count of one read or write

VARIABLES
    rxack,          \* TU.v: rxack and scspcrxint, which move together
    cpu,            \* the processor: its place and the handler's registers
    typed,          \* the terminal's keyboard: the frame on the rx line
    screen,         \* the terminal's display: the frame on the tx line
    unread          \* history: characters accepted and not yet read

vars == <<rcv, fifo, snd, rxack, cpu, typed, screen, unread>>

ASSUME ConsoleAssumption ==
    Keys \subseteq Char /\ CR \in Char /\ MaxCount \in Nat \ {0}

Period == TotalTicks + 1
FrameEnd == Period * (DataBits + 2) - 1

\* The handler's registers mean nothing outside it: they are left at zero.
InProgram == [pc |-> "program", call |-> "raw", left |-> 0, byte |-> Zero]

Init ==
    /\ UartInit
    /\ rxack = FALSE
    /\ cpu = InProgram
    /\ typed = [char |-> Zero, t |-> 0, busy |-> FALSE, heard |-> TRUE]
    /\ screen = [t |-> 0, right |-> 0]
    /\ unread = <<>>

\* The lines between processor and UART, in each place of a handler.
wfi_irq == cpu.pc = "asleep"
wfi_dev == cpu.pc = "stalled"
sdevram == cpu.pc = "strobe"
dev_start_signal == cpu.pc = "start"

-----------------------------------------------------------------------------
(* The terminal, which is outside the system.                              *)

\* The level of the rx line: start bit, data bits, stop bit, or idle.
rx ==
    LET k == typed.t \div Period
    IN IF ~typed.busy \/ k = DataBits + 1 THEN 1
       ELSE IF k = 0 THEN 0 ELSE typed.char[k - 1]

Hearing == typed.heard \/ rcv.rxstate = 4

\* A frame runs to its end; then, or while idle, a key may be pressed.
Keyboard(press) ==
    IF typed.busy /\ typed.t < FrameEnd
    THEN ~press /\ typed' = [typed EXCEPT !.t = @ + 1, !.heard = Hearing]
    ELSE \/ /\ ~press
            /\ typed' = [char |-> Zero, t |-> 0, busy |-> FALSE,
                          heard |-> Hearing]
         \/ press /\ \E c \in Keys :
              typed' = [char |-> c, t |-> 0, busy |-> TRUE, heard |-> FALSE]

\* The display samples each bit of a frame in its middle; right counts the data
\* bits it got as the processor meant them since the processor's last store.
Display ==
    LET k == screen.t \div Period
        sampling == screen.t % Period = Period \div 2 /\ k \in 1 .. DataBits
    IN screen' =
         [t |-> IF screen.t = 0 THEN 1 - snd.tx
                ELSE IF screen.t = FrameEnd - 1 THEN 0 ELSE screen.t + 1,
          right |-> IF dev_start_signal THEN 0
                    ELSE IF sampling /\ snd.tx = cpu.byte[k - 1] THEN screen.right + 1
                    ELSE screen.right]

-----------------------------------------------------------------------------
(* The processor and the handlers.                                         *)

Goto(place) == cpu' = [cpu EXCEPT !.pc = place]

\* sysread and syswrite on a terminal descriptor enter a handler; a raw read
\* does not count.
Call ==
    \E n \in 1 .. MaxCount :
      \/ cpu' = [cpu EXCEPT !.pc = "wfi", !.call = "raw"]
      \/ cpu' = [cpu EXCEPT !.pc = "wfi", !.call = "canonical", !.left = n]
      \/ \E c \in Keys :
           cpu' = [pc |-> "test", call |-> "write", left |-> n, byte |-> c]

\* An interrupt request takes the processor out of wfi ...
Asleep == Goto(IF fifo.rx_pending THEN "woken" ELSE "asleep")

\* ... and the trap unit's pulse loads rxvec; without it wfi is run again.
Woken == Goto(IF rxack THEN "select" ELSE "wfi")

Strobe == cpu' = [cpu EXCEPT !.pc = "test", !.byte = UART_DEV]

\* A raw read returns its character; a carriage return ends a canonical one.
Test ==
    IF cpu.call = "raw" \/ (cpu.call = "canonical" /\ cpu.byte = CR)
    THEN cpu' = InProgram ELSE Goto("start")

Stalled == Goto(IF tx_finished THEN "resume" ELSE "stalled")

\* The byte is out: return, or go round the handler's loop.
Resume ==
    IF cpu.left = 1
    THEN cpu' = InProgram
    ELSE IF cpu.call = "canonical"
         THEN cpu' = [cpu EXCEPT !.pc = "wfi", !.left = @ - 1, !.byte = Zero]
         ELSE \E c \in Keys : cpu' = [cpu EXCEPT !.pc = "test",
                                                 !.left = @ - 1, !.byte = c]

\* Places the processor stays in for as many cycles as its instructions take.
Busy == {"program", "wfi", "select", "test", "resume"}

Processor(hold) ==
    \/ hold /\ cpu.pc \in Busy /\ UNCHANGED cpu
    \/ /\ ~hold
       /\ \/ cpu.pc = "program" /\ Call
          \/ cpu.pc = "wfi" /\ Goto("asleep")
          \/ cpu.pc = "select" /\ Goto("strobe")
          \/ cpu.pc = "test" /\ Test
          \/ cpu.pc = "resume" /\ Resume
    \/ cpu.pc = "asleep" /\ Asleep
    \/ cpu.pc = "woken" /\ Woken
    \/ cpu.pc = "strobe" /\ Strobe
    \/ cpu.pc = "start" /\ Goto("stalled")
    \/ cpu.pc = "stalled" /\ Stalled

TrapUnit == fifo.rx_pending /\ wfi_irq

-----------------------------------------------------------------------------
Accepted == IF RxPush THEN <<typed.char>> ELSE <<>>

Tick(hold, press) ==
    /\ Processor(hold)
    /\ Keyboard(press)
    /\ Display
    /\ rcv' = Receive(rx)
    /\ fifo' = Buffer(sdevram, rxack)
    /\ snd' = Send(dev_start_signal, cpu.byte)
    /\ rxack' = TrapUnit
    /\ unread' = (IF RxPop(sdevram) THEN Tail(unread) ELSE unread) \o Accepted

Next == \E hold, press \in BOOLEAN : Tick(hold, press)

\* The clock runs and an instruction of a handler takes a finite number of
\* cycles.  Nobody need ever press a key, and a program need never call.
Fairness == WF_vars(cpu.pc # "program" /\ Tick(FALSE, FALSE))

Spec == Init /\ [][Next]_vars
FairSpec == Spec /\ Fairness

-----------------------------------------------------------------------------
(* Properties.                                                             *)

\* The FIFO holds exactly the characters the terminal typed and the program
\* has not read, oldest first, across every wrap of its pointers; what an
\* overrun drops is the newest character and nothing else (UART.v:35-46,
\* 217-230).
Contents == [i \in 1 .. FifoCnt |-> fifo.inbuffer[(fifo.rptr + i - 1) % Depth]]
FifoHoldsWhatWasTyped == Contents = unread

\* The receiver turns each frame on the line into one character: none is
\* missed when frames follow each other without a gap, and no level inside a
\* frame is taken for another start bit (UART.v:232-293).
EveryFrameHeardOnce ==
    /\ rcv.rxstate = 4 => typed.busy /\ ~typed.heard
    /\ ~typed.busy => typed.heard
    /\ typed.busy /\ typed.t = 0 => rcv.rxstate \in {0, 1}

\* A request stands for characters: a processor in wfi with characters in the
\* FIFO has a request, whatever was acknowledged, pushed or popped in the same
\* cycle as the request before it, so that no wake-up is lost; and one that
\* wakes finds a character when the handler's sb strobes the FIFO, so that no
\* byte is read twice (UART.v:201-215, TU.v:107-117, CM.v:132-136).
RequestMeansCharacter ==
    /\ wfi_irq /\ ~FifoEmpty => fifo.rx_pending
    /\ fifo.rx_pending => ~FifoEmpty
    /\ cpu.pc \in {"woken", "select", "strobe"} => ~FifoEmpty

\* The store that sends a byte is over only when the terminal has that byte,
\* whole and unchanged: the processor is held over exactly one frame
\* (UART.v:133-190, CM.v:143-146, 1782-1813).
SentWhenResumed ==
    cpu.pc = "resume" => screen.t = 0 /\ screen.right = DataBits

\* No processor waits for what has come: a reader asleep with characters
\* waiting gets one, and the stall behind a transmission ends, whatever the rx
\* line does meanwhile: the start pulse is never lost (UART.v:109-112).
WaitsEnd ==
    (wfi_irq /\ ~FifoEmpty) \/ wfi_dev ~> sdevram \/ cpu.pc = "resume"
=============================================================================
