-------------------------------- MODULE Uart --------------------------------
(***************************************************************************)
(* The serial port (Soft Core/UART.v), clock cycle by clock cycle: the     *)
(* receiver that samples the rx line, the receive FIFO with the interrupt  *)
(* request in front of it, and the transmitter with its latched start.     *)
(* One operator per always block, giving the registers after the edge as a *)
(* function of the registers before it and of the input wires.             *)
(***************************************************************************)
EXTENDS Integers

CONSTANTS
    Depth,          \* characters the receive FIFO holds (32 in UART.v)
    DataBits,       \* bits of a character (8 in UART.v)
    TotalTicks,     \* totalticks: a bit lasts TotalTicks + 1 cycles
    HalfTicks       \* halftotalticks: from the start edge to mid-bit

ASSUME UartAssumption ==
    /\ Depth \in Nat \ {0} /\ DataBits \in Nat \ {0}
    /\ HalfTicks \in Nat /\ TotalTicks \in Nat \ {0}
    /\ HalfTicks + 2 <= TotalTicks

VARIABLES
    rcv,            \* the receiver's state machine
    fifo,           \* the receive FIFO, its pointers and its flags
    snd             \* the transmitter

Bit == {0, 1}
Char == [0 .. DataBits - 1 -> Bit]

Zero == [b \in 0 .. DataBits - 1 |-> 0]

UartInit ==
    /\ rcv = [rxstate |-> 0, interbitcount |-> 0, rxbitcnt |-> 0,
              rxbusy |-> FALSE, MEM_IN |-> Zero]
    /\ fifo = [inbuffer |-> [i \in 0 .. Depth - 1 |-> Zero],
               wptr |-> 0, rptr |-> 0, rx_pending |-> FALSE,
               rx_overrun |-> FALSE, sdevram_d |-> FALSE]
    /\ snd = [tx_req |-> FALSE, txstate |-> 0, txbaudcnt |-> 0,
              txbitcnt |-> 0, tx |-> 1]

-----------------------------------------------------------------------------
(* The receiver.  A start bit is confirmed half a bit after its edge, each *)
(* data bit is sampled one bit time after the sample before it, and the    *)
(* stop bit is waited for but not looked at.                               *)

BitTimeOver == rcv.interbitcount = TotalTicks
Later == [rcv EXCEPT !.interbitcount = @ + 1]

StartEdge(rx) ==
    IF rx = 0 /\ ~rcv.rxbusy
    THEN [rcv EXCEPT !.rxbusy = TRUE, !.rxstate = 1, !.interbitcount = 0]
    ELSE rcv

StartBit(rx) ==
    CASE rcv.interbitcount # HalfTicks -> Later
      [] rcv.interbitcount = HalfTicks /\ rx = 0 ->
           [rcv EXCEPT !.rxstate = 2, !.interbitcount = 0, !.rxbitcnt = 0]
      [] OTHER -> [rcv EXCEPT !.rxstate = 0, !.rxbusy = FALSE]

\* Mutant: the receiver counts one data bit too many.
LastDataBitLate == rcv.rxbitcnt = DataBits

LastDataBit == rcv.rxbitcnt = DataBits - 1

DataBit(rx) ==
    IF BitTimeOver
    THEN [rcv EXCEPT !.MEM_IN[rcv.rxbitcnt] = rx, !.interbitcount = 0,
                     !.rxbitcnt = @ + 1,
                     !.rxstate = IF LastDataBit THEN 3 ELSE 2]
    ELSE Later

StopBit ==
    IF BitTimeOver THEN [rcv EXCEPT !.rxstate = 4, !.interbitcount = 0]
    ELSE Later

Receive(rx) ==
    CASE rcv.rxstate = 0 -> StartEdge(rx)
      [] rcv.rxstate = 1 -> StartBit(rx)
      [] rcv.rxstate = 2 -> DataBit(rx)
      [] rcv.rxstate = 3 -> StopBit
      [] rcv.rxstate = 4 -> [rcv EXCEPT !.rxstate = 0, !.rxbusy = FALSE]

-----------------------------------------------------------------------------
(* The receive FIFO.  wptr and rptr carry one bit more than an index.      *)

\* Mutant: the pointers are compared without their extra bit.
CountModDepth == (fifo.wptr - fifo.rptr) % Depth

FifoCnt == (fifo.wptr - fifo.rptr) % (2 * Depth)
FifoEmpty == fifo.wptr = fifo.rptr
FifoFull == FifoCnt = Depth
UART_DEV == fifo.inbuffer[fifo.rptr % Depth]

RxPush == rcv.rxstate = 4 /\ ~FifoFull
RxPop(sdevram) == sdevram /\ ~fifo.sdevram_d /\ ~FifoEmpty

\* Mutant: a pop counts the character it takes as one that remains.
PendingAfterLast(sdevram, rxack) ==
    CASE RxPop(sdevram) -> FifoCnt > 0 \/ RxPush
      [] RxPush /\ ~RxPop(sdevram) -> TRUE
      [] OTHER -> fifo.rx_pending /\ ~rxack

\* rx_pending after the edge: a pop first, then a push, then the acknowledge.
Pending(sdevram, rxack) ==
    CASE RxPop(sdevram) -> FifoCnt > 1 \/ RxPush
      [] RxPush /\ ~RxPop(sdevram) -> TRUE
      [] OTHER -> fifo.rx_pending /\ ~rxack

Buffer(sdevram, rxack) ==
    [inbuffer |-> IF RxPush
                  THEN [fifo.inbuffer EXCEPT ![fifo.wptr % Depth] = rcv.MEM_IN]
                  ELSE fifo.inbuffer,
     wptr |-> IF RxPush THEN (fifo.wptr + 1) % (2 * Depth) ELSE fifo.wptr,
     rptr |-> IF RxPop(sdevram) THEN (fifo.rptr + 1) % (2 * Depth)
              ELSE fifo.rptr,
     rx_pending |-> Pending(sdevram, rxack),
     rx_overrun |-> fifo.rx_overrun \/ (rcv.rxstate = 4 /\ FifoFull),
     sdevram_d |-> sdevram]

-----------------------------------------------------------------------------
(* The transmitter.                                                        *)

tx_finished == snd.txstate = 4

\* Mutant: the start is not latched and waits for a quiet rx line.
StartUnlatched(tx_start) == tx_start /\ ~rcv.rxbusy

\* The latched start: set by the pulse, cleared once the start bit is out.
TxReq(tx_start) == tx_start \/ (snd.tx_req /\ snd.txstate # 1)

BitOver == snd.txbaudcnt = TotalTicks

\* Mutant: the last data bit is left out.
LastBitOffByOne == snd.txbitcnt >= DataBits - 2

LastBit == snd.txbitcnt = DataBits - 1

Send(tx_start, DEV_UART) ==
    LET s == [snd EXCEPT !.tx_req = TxReq(tx_start)]
        Next(state, level) ==
            [s EXCEPT !.txbaudcnt = 0, !.txstate = state, !.tx = level]
        Wait == [s EXCEPT !.txbaudcnt = @ + 1]
    IN CASE snd.txstate = 0 ->
              IF snd.tx_req
              THEN [s EXCEPT !.tx = 0, !.txstate = 1, !.txbitcnt = 0,
                             !.txbaudcnt = 0]
              ELSE s
         [] snd.txstate \in 1 .. 3 /\ ~BitOver -> Wait
         [] snd.txstate = 1 /\ BitOver ->
              [s EXCEPT !.txbaudcnt = 0, !.tx = DEV_UART[snd.txbitcnt],
                        !.txstate = IF LastBit THEN 2 ELSE 1,
                        !.txbitcnt = IF LastBit THEN 0 ELSE @ + 1]
         [] snd.txstate = 2 /\ BitOver -> Next(3, 1)
         [] snd.txstate = 3 /\ BitOver -> Next(4, snd.tx)
         [] snd.txstate = 4 -> [s EXCEPT !.txstate = 0]
=============================================================================
