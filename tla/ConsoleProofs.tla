---------------------------- MODULE ConsoleProofs ----------------------------
(***************************************************************************)
(* Proofs about Console, for every FIFO depth, character width, bit time   *)
(* and meeting of push, pop and acknowledge: the receive request and the   *)
(* FIFO agree, every frame on the line is heard, the FIFO holds what was   *)
(* typed, and a store to the port ends when its byte has been sent.        *)
(***************************************************************************)
EXTENDS Console, SequenceTheorems, TLAPS

-----------------------------------------------------------------------------
(* Counting with pointers that wrap at M: the differences modulo M of       *)
(* UART.v:37-46.                                                           *)

LEMMA Between ==
    ASSUME NEW M \in Nat \ {0}, NEW w \in 0 .. M - 1, NEW r \in 0 .. M - 1
    PROVE  (w - r) % M = IF w < r THEN w - r + M ELSE w - r
<1>1. CASE w < r
    BY <1>1, SMT
<1>2. CASE w >= r
    BY <1>2, SMT
<1> QED
    BY <1>1, <1>2

LEMMA Successor ==
    ASSUME NEW M \in Nat \ {0}, NEW p \in 0 .. M - 1
    PROVE  (p + 1) % M = IF p + 1 = M THEN 0 ELSE p + 1
<1>1. CASE p + 1 = M
    BY <1>1, SMT
<1>2. CASE p + 1 < M
    BY <1>2, SMT
<1> QED
    BY <1>1, <1>2

\* A push moves w and a pop moves r, each one place.
LEMMA Moves ==
    ASSUME NEW D \in Nat \ {0}, NEW M \in Nat \ {0}, M = 2 * D,
           NEW w \in 0 .. M - 1, NEW r \in 0 .. M - 1,
           NEW push \in BOOLEAN, NEW pop \in BOOLEAN,
           NEW c, c = IF w < r THEN w - r + M ELSE w - r,
           c <= D, push => c # D, pop => w # r,
           NEW v, v = IF push THEN (IF w + 1 = M THEN 0 ELSE w + 1) ELSE w,
           NEW s, s = IF pop THEN (IF r + 1 = M THEN 0 ELSE r + 1) ELSE r
    PROVE  /\ v \in 0 .. M - 1 /\ s \in 0 .. M - 1
           /\ (v - s) % M <= D
           /\ c \in Nat /\ (c = 0 <=> w = r)
           /\ ~pop => (v = s <=> w = r /\ ~push)
           /\ pop => (v = s <=> c = 1 /\ ~push)
<1>1. v \in 0 .. M - 1 /\ s \in 0 .. M - 1
    OBVIOUS
<1>2. (v - s) % M = IF v < s THEN v - s + M ELSE v - s
    BY ONLY M \in Nat \ {0}, <1>1, Between
<1>3. (v - s) % M <= D
    BY <1>2
<1>4. c \in Nat /\ (c = 0 <=> w = r)
    OBVIOUS
<1>5. /\ ~pop => (v = s <=> w = r /\ ~push)
      /\ pop => (v = s <=> c = 1 /\ ~push)
    OBVIOUS
<1> QED
    BY <1>1, <1>3, <1>4, <1>5

-----------------------------------------------------------------------------
(* The invariant.                                                          *)

\* The pointers, and the registers of the processor that every step keeps.
Pointers ==
    /\ fifo.wptr \in 0 .. 2 * Depth - 1
    /\ fifo.rptr \in 0 .. 2 * Depth - 1
    /\ FifoCnt <= Depth
    /\ fifo.rx_pending \in BOOLEAN
    /\ fifo.sdevram_d \in BOOLEAN

Places ==
    {"program", "wfi", "asleep", "woken", "select", "strobe", "test",
     "start", "stalled", "resume"}

Registers ==
    /\ cpu = [pc |-> cpu.pc, call |-> cpu.call, left |-> cpu.left,
              byte |-> cpu.byte]
    /\ cpu.pc \in Places
    /\ rxack \in BOOLEAN

\* The request stands for the FIFO's contents everywhere but between the
\* acknowledge and the pop it leads to; there the character is still in.
Requests ==
    /\ rxack <=> cpu.pc = "woken"
    /\ cpu.pc = "strobe" => ~fifo.sdevram_d
    /\ cpu.pc \in {"woken", "select", "strobe"} => ~FifoEmpty
    /\ fifo.rx_pending => ~FifoEmpty
    /\ cpu.pc \notin {"select", "strobe"} => (fifo.rx_pending <=> ~FifoEmpty)

RequestInv == Pointers /\ Registers /\ Requests

\* Where the processor can be a cycle later, and that it gets to the strobe
\* through select only, and there after an acknowledge only.
LEMMA Steps ==
    ASSUME Registers, NEW hold \in BOOLEAN, Processor(hold)
    PROVE  /\ cpu' = [pc |-> cpu'.pc, call |-> cpu'.call, left |-> cpu'.left,
                      byte |-> cpu'.byte]
           /\ cpu'.pc \in Places
           /\ cpu'.pc = "strobe" => cpu.pc = "select"
           /\ cpu'.pc = "select" => cpu.pc = "select" \/ (cpu.pc = "woken" /\ rxack)
           /\ cpu'.pc = "woken" <=> cpu.pc = "asleep" /\ fifo.rx_pending
           /\ cpu.pc = "select" => cpu'.pc \in {"select", "strobe"}
           /\ cpu.pc = "strobe" => cpu'.pc = "test"
           /\ cpu.pc = "woken" /\ rxack => cpu'.pc = "select"
<1> DEFINE Shape(c) == c = [pc |-> c.pc, call |-> c.call, left |-> c.left,
                            byte |-> c.byte]
<1>1. ASSUME NEW p PROVE Goto(p) => Shape(cpu') /\ cpu'.pc = p
    BY DEF Registers, Goto
<1>2. CASE UNCHANGED cpu /\ cpu.pc \in Busy
    BY <1>2 DEF Registers, Places, Busy
<1>3. CASE cpu.pc = "program" /\ Call
    <2>1. Shape(cpu') /\ cpu'.pc \in {"wfi", "test"}
        <3>1. PICK n \in 1 .. MaxCount :
                \/ cpu' = [cpu EXCEPT !.pc = "wfi", !.call = "raw"]
                \/ cpu' = [cpu EXCEPT !.pc = "wfi", !.call = "canonical", !.left = n]
                \/ \E c \in Keys :
                     cpu' = [pc |-> "test", call |-> "write", left |-> n, byte |-> c]
            BY <1>3 DEF Call
        <3>2. CASE cpu' = [cpu EXCEPT !.pc = "wfi", !.call = "raw"]
            BY <3>2 DEF Registers
        <3>3. CASE cpu' = [cpu EXCEPT !.pc = "wfi", !.call = "canonical", !.left = n]
            BY <3>3 DEF Registers
        <3>4. CASE \E c \in Keys :
                     cpu' = [pc |-> "test", call |-> "write", left |-> n, byte |-> c]
            BY <3>4
        <3> QED
            BY <3>1, <3>2, <3>3, <3>4
    <2> QED
        BY <1>3, <2>1 DEF Places
<1>4. CASE cpu.pc = "wfi" /\ Goto("asleep")
    BY <1>1, <1>4 DEF Places
<1>5. CASE cpu.pc = "select" /\ Goto("strobe")
    BY <1>1, <1>5 DEF Places
<1>6. CASE cpu.pc = "test" /\ Test
    <2>1. cpu' = InProgram \/ Goto("start")
        BY <1>6 DEF Test
    <2> QED
        BY <1>1, <1>6, <2>1 DEF Places, InProgram
<1>7. CASE cpu.pc = "resume" /\ Resume
    <2>1. Shape(cpu') /\ cpu'.pc \in {"program", "wfi", "test"}
        <3>1. ASSUME NEW p, NEW l, NEW b,
                     cpu' = [cpu EXCEPT !.pc = p, !.left = l, !.byte = b]
              PROVE  Shape(cpu') /\ cpu'.pc = p
            BY <3>1 DEF Registers
        <3>2. CASE cpu.left = 1
            BY <1>7, <3>2 DEF Resume, InProgram
        <3>3. CASE cpu.left # 1 /\ cpu.call = "canonical"
            <4>1. cpu' = [cpu EXCEPT !.pc = "wfi", !.left = @ - 1, !.byte = Zero]
                BY <1>7, <3>3 DEF Resume
            <4> QED
                BY <3>1, <4>1
        <3>4. CASE cpu.left # 1 /\ cpu.call # "canonical"
            <4>1. PICK c \in Keys :
                    cpu' = [cpu EXCEPT !.pc = "test", !.left = @ - 1, !.byte = c]
                BY <1>7, <3>4 DEF Resume
            <4> QED
                BY <3>1, <4>1
        <3> QED
            BY <3>2, <3>3, <3>4
    <2> QED
        BY <1>7, <2>1 DEF Places
<1>8. CASE cpu.pc = "asleep" /\ Asleep
    BY <1>1, <1>8 DEF Places, Asleep
<1>9. CASE cpu.pc = "woken" /\ Woken
    BY <1>1, <1>9 DEF Places, Woken
<1>10. CASE cpu.pc = "strobe" /\ Strobe
    BY <1>10 DEF Registers, Places, Strobe
<1>11. CASE cpu.pc = "start" /\ Goto("stalled")
    BY <1>1, <1>11 DEF Places
<1>12. CASE cpu.pc = "stalled" /\ Stalled
    BY <1>1, <1>12 DEF Places, Stalled
<1> QED
    BY <1>2, <1>3, <1>4, <1>5, <1>6, <1>7, <1>8, <1>9, <1>10, <1>11, <1>12
    DEF Processor

LEMMA RequestInit ==
    ASSUME Init
    PROVE  RequestInv
<1>1. Depth \in Nat \ {0}
    BY UartAssumption
<1>2. /\ fifo.wptr = 0 /\ fifo.rptr = 0
      /\ fifo.rx_pending = FALSE /\ fifo.sdevram_d = FALSE
    BY DEF Init, UartInit
<1>3. FifoCnt = 0
    BY <1>1, <1>2, Between DEF FifoCnt
<1>4. Pointers
    <2>1. 0 \in 0 .. 2 * Depth - 1 /\ 0 <= Depth
        BY <1>1
    <2> QED
        BY <1>2, <1>3, <2>1 DEF Pointers
<1>5. Registers /\ Requests
    BY <1>2 DEF Init, InProgram, Registers, Requests, Places, FifoEmpty
<1> QED
    BY <1>4, <1>5 DEF RequestInv

\* What a clock edge does to the FIFO, counted in characters.
LEMMA FifoSteps ==
    ASSUME Pointers, fifo' = Buffer(sdevram, rxack)
    PROVE  /\ Pointers'
           /\ fifo'.sdevram_d = sdevram
           /\ fifo'.rx_pending = Pending(sdevram, rxack)
           /\ FifoCnt \in Nat /\ (FifoCnt = 0 <=> FifoEmpty)
           /\ ~RxPop(sdevram) => (FifoEmpty' <=> FifoEmpty /\ ~RxPush)
           /\ RxPop(sdevram) => (FifoEmpty' <=> FifoCnt = 1 /\ ~RxPush)
<1>1. Depth \in Nat \ {0}
    BY UartAssumption
<1>2. /\ fifo'.wptr = IF RxPush THEN (fifo.wptr + 1) % (2 * Depth) ELSE fifo.wptr
      /\ fifo'.rptr = IF RxPop(sdevram) THEN (fifo.rptr + 1) % (2 * Depth)
                      ELSE fifo.rptr
      /\ fifo'.sdevram_d = sdevram
      /\ fifo'.rx_pending = Pending(sdevram, rxack)
    BY DEF Buffer
<1>3. /\ fifo.wptr \in 0 .. 2 * Depth - 1
      /\ fifo.rptr \in 0 .. 2 * Depth - 1
      /\ FifoCnt <= Depth
    BY DEF Pointers
<1>4. /\ RxPush \in BOOLEAN /\ (RxPush => FifoCnt # Depth)
      /\ RxPop(sdevram) \in BOOLEAN
      /\ RxPop(sdevram) => fifo.wptr # fifo.rptr
    BY DEF RxPush, FifoFull, RxPop, FifoEmpty, sdevram
<1>5. /\ FifoEmpty <=> fifo.wptr = fifo.rptr
      /\ FifoEmpty' <=> fifo'.wptr = fifo'.rptr
    BY DEF FifoEmpty
<1>6. /\ fifo'.wptr \in 0 .. 2 * Depth - 1
      /\ fifo'.rptr \in 0 .. 2 * Depth - 1
      /\ FifoCnt' <= Depth
      /\ FifoCnt \in Nat /\ (FifoCnt = 0 <=> fifo.wptr = fifo.rptr)
      /\ ~RxPop(sdevram) =>
           (fifo'.wptr = fifo'.rptr <=> fifo.wptr = fifo.rptr /\ ~RxPush)
      /\ RxPop(sdevram) =>
           (fifo'.wptr = fifo'.rptr <=> FifoCnt = 1 /\ ~RxPush)
    <2> DEFINE M == 2 * Depth
               w == fifo.wptr
               r == fifo.rptr
               v == fifo'.wptr
               s == fifo'.rptr
               push == RxPush
               pop == RxPop(sdevram)
               c == FifoCnt
    <2>1. M \in Nat \ {0} /\ M = 2 * Depth
        BY <1>1
    <2>2. w \in 0 .. M - 1 /\ r \in 0 .. M - 1 /\ c <= Depth
        BY <1>3
    <2>3. /\ push \in BOOLEAN /\ (push => c # Depth)
          /\ pop \in BOOLEAN /\ (pop => w # r)
        BY <1>4
    <2>4. v = IF push THEN (w + 1) % M ELSE w
        BY <1>2
    <2>5. s = IF pop THEN (r + 1) % M ELSE r
        BY <1>2
    <2>6. c = (w - r) % M /\ c' = (v - s) % M
        BY DEF FifoCnt
    <2> DEFINE d == c'
    <2> HIDE DEF M, w, r, v, s, push, pop, c, d
    <2>7. (w + 1) % M = IF w + 1 = M THEN 0 ELSE w + 1
        BY ONLY <2>1, <2>2, Successor
    <2>8. (r + 1) % M = IF r + 1 = M THEN 0 ELSE r + 1
        BY ONLY <2>1, <2>2, Successor
    <2>9. (w - r) % M = IF w < r THEN w - r + M ELSE w - r
        BY ONLY <2>1, <2>2, Between
    <2>10. /\ c = IF w < r THEN w - r + M ELSE w - r
           /\ v = IF push THEN (IF w + 1 = M THEN 0 ELSE w + 1) ELSE w
           /\ s = IF pop THEN (IF r + 1 = M THEN 0 ELSE r + 1) ELSE r
        BY <2>4, <2>5, <2>6, <2>7, <2>8, <2>9, Zenon
    <2>11. /\ v \in 0 .. M - 1 /\ s \in 0 .. M - 1
           /\ (v - s) % M <= Depth
           /\ c \in Nat /\ (c = 0 <=> w = r)
           /\ ~pop => (v = s <=> w = r /\ ~push)
           /\ pop => (v = s <=> c = 1 /\ ~push)
        BY <1>1, <2>1, <2>2, <2>3, <2>10, Moves
    <2> QED
        BY <2>6, <2>11 DEF M, w, r, v, s, push, pop, c, d
<1>7. sdevram \in BOOLEAN /\ Pending(sdevram, rxack) \in BOOLEAN
    BY <1>4 DEF sdevram, Pending, Pointers
<1> QED
    BY <1>2, <1>5, <1>6, <1>7 DEF Pointers

LEMMA RequestStep ==
    ASSUME RequestInv, [Next]_vars
    PROVE  RequestInv'
<1>1. CASE UNCHANGED vars
    BY <1>1 DEF vars, RequestInv, Pointers, Registers, Requests, FifoCnt,
        FifoEmpty
<1>2. CASE Next
    <2>1. PICK hold \in BOOLEAN, press \in BOOLEAN : Tick(hold, press)
        BY <1>2 DEF Next
    <2>2. Processor(hold) /\ fifo' = Buffer(sdevram, rxack) /\ rxack' = TrapUnit
        BY <2>1 DEF Tick
    <2>3. Pointers /\ Registers /\ Requests
        BY DEF RequestInv
    <2>4. /\ Pointers'
          /\ fifo'.sdevram_d = sdevram
          /\ fifo'.rx_pending = Pending(sdevram, rxack)
          /\ FifoCnt \in Nat /\ (FifoCnt = 0 <=> FifoEmpty)
          /\ ~RxPop(sdevram) => (FifoEmpty' <=> FifoEmpty /\ ~RxPush)
          /\ RxPop(sdevram) => (FifoEmpty' <=> FifoCnt = 1 /\ ~RxPush)
        BY <2>2, <2>3, FifoSteps
    <2>5. /\ cpu' = [pc |-> cpu'.pc, call |-> cpu'.call, left |-> cpu'.left,
                     byte |-> cpu'.byte]
          /\ cpu'.pc \in Places
          /\ cpu'.pc = "strobe" => cpu.pc = "select"
          /\ cpu'.pc = "select" => cpu.pc = "select" \/ (cpu.pc = "woken" /\ rxack)
          /\ cpu'.pc = "woken" <=> cpu.pc = "asleep" /\ fifo.rx_pending
          /\ cpu.pc = "select" => cpu'.pc \in {"select", "strobe"}
          /\ cpu.pc = "strobe" => cpu'.pc = "test"
          /\ cpu.pc = "woken" /\ rxack => cpu'.pc = "select"
        BY <2>2, <2>3, Steps
    <2>6. rxack' = (fifo.rx_pending /\ cpu.pc = "asleep")
        BY <2>2 DEF TrapUnit, wfi_irq
    <2>7. Registers'
        BY <2>3, <2>5, <2>6 DEF Registers, Pointers
    <2>8. Requests'
        <3>1. CASE cpu.pc = "strobe"
            <4>1. RxPop(sdevram)
                BY <2>3, <3>1 DEF RxPop, sdevram, Requests
            <4>2. fifo'.rx_pending <=> FifoCnt > 1 \/ RxPush
                BY <2>4, <4>1 DEF Pending
            <4>3. FifoCnt \in Nat /\ FifoCnt # 0
                <5>1. ~FifoEmpty
                    BY <4>1 DEF RxPop
                <5> QED
                    BY <2>4, <5>1
            <4>4. FifoEmpty' <=> ~fifo'.rx_pending
                BY <2>4, <4>1, <4>2, <4>3
            <4>5. cpu'.pc = "test" /\ ~rxack'
                BY <2>5, <2>6, <3>1
            <4> QED
                BY <4>4, <4>5 DEF Requests
        <3>2. CASE cpu.pc # "strobe"
            <4>1. ~RxPop(sdevram) /\ ~sdevram
                BY <3>2 DEF RxPop, sdevram
            <4>2. FifoEmpty' <=> FifoEmpty /\ ~RxPush
                BY <2>4, <4>1
            <4>3. fifo'.rx_pending <=> RxPush \/ (fifo.rx_pending /\ ~rxack)
                BY <2>4, <4>1 DEF Pending
            <4>4. fifo'.sdevram_d = FALSE
                BY <2>4, <4>1 DEF sdevram
            <4>5. CASE cpu.pc = "woken"
                <5>1. rxack /\ ~FifoEmpty /\ cpu'.pc = "select"
                    BY <2>3, <2>5, <4>5 DEF Requests
                <5>2. ~rxack' /\ ~FifoEmpty'
                    BY <2>6, <4>2, <4>5, <5>1
                <5> QED
                    BY <4>4, <5>1, <5>2 DEF Requests
            <4>6. CASE cpu.pc = "select"
                <5>1. ~FifoEmpty' /\ ~rxack' /\ cpu'.pc # "woken"
                    BY <2>3, <2>5, <2>6, <4>2, <4>6 DEF Requests
                <5>2. cpu'.pc \in {"select", "strobe"}
                    BY <2>5, <4>6
                <5> QED
                    BY <4>4, <5>1, <5>2 DEF Requests
            <4>7. CASE cpu.pc \notin {"woken", "select"}
                <5>1. ~rxack /\ (fifo.rx_pending <=> ~FifoEmpty)
                    BY <2>3, <3>2, <4>7 DEF Requests
                <5>2. fifo'.rx_pending <=> ~FifoEmpty'
                    BY <4>2, <4>3, <5>1
                <5>3. cpu'.pc \notin {"select", "strobe"}
                    BY <2>5, <4>7
                <5>4. rxack' <=> cpu'.pc = "woken"
                    BY <2>5, <2>6
                <5>5. cpu'.pc = "woken" => ~FifoEmpty'
                    BY <2>5, <4>2, <5>1
                <5> QED
                    BY <5>2, <5>3, <5>4, <5>5 DEF Requests
            <4> QED
                BY <4>5, <4>6, <4>7
        <3> QED
            BY <3>1, <3>2
    <2> QED
        BY <2>4, <2>7, <2>8 DEF RequestInv
<1> QED
    BY <1>1, <1>2

\* No wake-up is lost and none is for nothing: a sleeper with characters in
\* the FIFO has a request, and a processor on its way to the strobe finds a
\* character there, for every FIFO depth, bit time, width and timing
\* (UART.v:201-215, TU.v:107-117, CM.v:132-136).
THEOREM RequestsCorrect == Spec => []RequestMeansCharacter
<1>1. Init => RequestInv
    BY RequestInit
<1>2. RequestInv /\ [Next]_vars => RequestInv'
    BY RequestStep
<1>3. RequestInv => RequestMeansCharacter
    BY DEF RequestInv, Requests, RequestMeansCharacter, wfi_irq
<1> QED
    BY <1>1, <1>2, <1>3, PTL DEF Spec

-----------------------------------------------------------------------------
(* The receiver and the frame on the line.                                 *)

\* Where in the frame the receiver confirms the start bit, and where bit k of
\* the character is sampled: half a bit and a little into each bit.
Sampled(k) == HalfTicks + 2 + k * Period

Received(n) == \A b \in 0 .. n - 1 : rcv.MEM_IN[b] = typed.char[b]

RxTypes ==
    /\ rcv \in [rxstate : 0 .. 4, interbitcount : Nat, rxbitcnt : Nat,
                rxbusy : BOOLEAN, MEM_IN : Char]
    /\ typed \in [char : Char, t : 0 .. FrameEnd, busy : BOOLEAN, heard : BOOLEAN]
    /\ rcv.rxbusy <=> rcv.rxstate # 0

\* In every state of the receiver, how far the frame it hears has come.
RxPlace ==
    /\ rcv.rxstate = 0 =>
         \/ ~typed.busy /\ typed.heard
         \/ typed.busy /\ ~typed.heard /\ typed.t = 0
         \/ typed.busy /\ typed.heard /\ typed.t > Sampled(DataBits + 1)
    /\ rcv.rxstate # 0 => typed.busy /\ ~typed.heard
    /\ rcv.rxstate = 1 => /\ rcv.interbitcount <= HalfTicks
                          /\ typed.t = 1 + rcv.interbitcount
    /\ rcv.rxstate = 2 => /\ rcv.interbitcount <= TotalTicks
                          /\ rcv.rxbitcnt < DataBits
                          /\ typed.t = Sampled(rcv.rxbitcnt) + rcv.interbitcount
                          /\ Received(rcv.rxbitcnt)
    /\ rcv.rxstate = 3 => /\ rcv.interbitcount <= TotalTicks
                          /\ typed.t = Sampled(DataBits) + rcv.interbitcount
                          /\ Received(DataBits)
    /\ rcv.rxstate = 4 => /\ typed.t = Sampled(DataBits + 1)
                          /\ Received(DataBits)

RxInv == RxTypes /\ RxPlace

-----------------------------------------------------------------------------
(* The transmitter, the display and the processor that waits.              *)

Quiet == snd.txstate = 0 /\ ~snd.tx_req /\ snd.tx = 1 /\ screen.t = 0

\* Data bits the display has sampled u cycles into the k-th bit of a frame.
Shown(k, u) == IF k = 0 THEN 0 ELSE IF u > Period \div 2 THEN k ELSE k - 1

TxShape ==
    snd = [tx_req |-> snd.tx_req, txstate |-> snd.txstate, txbaudcnt |-> snd.txbaudcnt,
           txbitcnt |-> snd.txbitcnt, tx |-> snd.tx]

\* In every state of the transmitter, how far the frame it sends has come.
TxPlace ==
    LET u == snd.txbaudcnt
        c == snd.txbitcnt
    IN  /\ snd.txstate \in 0 .. 4
        /\ snd.txstate = 0 =>
             snd.tx_req /\ snd.tx = 1 /\ screen.t = 0 /\ screen.right = 0
        /\ snd.txstate = 1 =>
             /\ c \in 0 .. DataBits - 1 /\ u \in 0 .. TotalTicks
             /\ snd.tx = IF c = 0 THEN 0 ELSE cpu.byte[c - 1]
             /\ screen.t = c * Period + u /\ screen.right = Shown(c, u)
        /\ snd.txstate = 2 =>
             /\ u \in 0 .. TotalTicks /\ snd.tx = cpu.byte[DataBits - 1]
             /\ screen.t = DataBits * Period + u /\ screen.right = Shown(DataBits, u)
        /\ snd.txstate = 3 =>
             /\ u \in 0 .. TotalTicks /\ snd.tx = 1 /\ screen.right = DataBits
             /\ screen.t = IF u = TotalTicks THEN 0 ELSE (DataBits + 1) * Period + u
        /\ snd.txstate = 4 => snd.tx = 1 /\ screen.t = 0 /\ screen.right = DataBits
        /\ snd.txstate \in 2 .. 4 => ~snd.tx_req

TxInv ==
    /\ TxShape
    /\ cpu.pc # "stalled" => Quiet
    /\ cpu.pc = "stalled" => TxPlace
    /\ cpu.pc = "resume" => screen.right = DataBits

-----------------------------------------------------------------------------
(* Frames are divided into bit times.                                      *)

LEMMA Quotient ==
    ASSUME NEW P \in Nat \ {0}, NEW k \in Nat, NEW u \in 0 .. P - 1
    PROVE  (k * P + u) \div P = k /\ (k * P + u) % P = u
<1> DEFINE x == k * P + u
           q == x \div P
           r == x % P
<1>1. x \in Nat
    BY SMT
<1>2. q \in Nat /\ r \in 0 .. P - 1 /\ x = P * q + r
    BY <1>1, SMT
<1>3. CASE q < k
    <2>1. PICK d \in Nat : k = q + 1 + d
        <3>1. k - q - 1 \in Nat /\ k = q + 1 + (k - q - 1)
            BY <1>2, <1>3
        <3> QED
            BY <3>1
    <2>2. k * P = q * P + P + d * P /\ d * P \in Nat
        BY <1>2, <2>1, SMT
    <2>3. x >= P * q + P
        BY <1>2, <2>2, SMT
    <2> HIDE DEF x, q, r
    <2> QED
        BY <1>2, <2>3, SMT
<1>4. CASE q > k
    <2>1. PICK d \in Nat : q = k + 1 + d
        <3>1. q - k - 1 \in Nat /\ q = k + 1 + (q - k - 1)
            BY <1>2, <1>4
        <3> QED
            BY <3>1
    <2>2. P * q = k * P + P + d * P /\ d * P \in Nat
        BY <1>2, <2>1, SMT
    <2>3. P * q >= k * P + P /\ k * P \in Nat
        BY <1>2, <2>2, SMT
    <2>4. x = k * P + u
        OBVIOUS
    <2> HIDE DEF x, q, r
    <2> QED
        BY <1>2, <2>3, <2>4, SMT
<1>5. CASE q = k
    <2>1. P * q = k * P /\ k * P \in Nat
        BY <1>5, SMT
    <2>2. r = u
        <3>1. x = k * P + u
            OBVIOUS
        <3> HIDE DEF x, q, r
        <3> QED
            BY <1>2, <2>1, <3>1, SMT
    <2> QED
        BY <1>5, <2>2
<1> QED
    BY <1>2, <1>3, <1>4, <1>5

LEMMA Times ==
    /\ Period \in Nat \ {0} /\ Period = TotalTicks + 1
    /\ FrameEnd \in Nat
    /\ Sampled(0) = HalfTicks + 2
    /\ \A k \in Nat : Sampled(k) \in Nat /\ Sampled(k + 1) = Sampled(k) + Period
    /\ \A k \in 0 .. DataBits : Sampled(k) + TotalTicks < FrameEnd
    /\ Sampled(DataBits + 1) \in Nat /\ Sampled(DataBits + 1) <= FrameEnd
    /\ HalfTicks + 1 < FrameEnd /\ 0 < FrameEnd
<1>1. /\ DataBits \in Nat \ {0} /\ HalfTicks \in Nat
      /\ TotalTicks \in Nat \ {0} /\ HalfTicks + 2 <= TotalTicks
    BY UartAssumption
<1>2. Period \in Nat \ {0} /\ Period = TotalTicks + 1
    BY <1>1 DEF Period
<1>3. FrameEnd = DataBits * Period + Period + Period - 1 /\ DataBits * Period \in Nat
    BY <1>1, <1>2, SMT DEF FrameEnd
<1>4. FrameEnd \in Nat
    BY <1>2, <1>3
<1>5. Sampled(0) = HalfTicks + 2
    BY <1>1, <1>2 DEF Sampled
<1>6. ASSUME NEW k \in Nat
      PROVE  Sampled(k) \in Nat /\ Sampled(k + 1) = Sampled(k) + Period
    <2>1. k * Period \in Nat /\ (k + 1) * Period = k * Period + Period
        BY <1>2, SMT
    <2> QED
        BY <1>1, <1>2, <2>1 DEF Sampled
<1>7. ASSUME NEW k \in 0 .. DataBits
      PROVE  Sampled(k) + TotalTicks < FrameEnd
    <2>1. PICK d \in Nat : DataBits = k + d
        <3>1. DataBits - k \in Nat /\ DataBits = k + (DataBits - k)
            BY <1>1
        <3> QED
            BY <3>1
    <2>2. /\ DataBits * Period = k * Period + d * Period
          /\ k * Period \in Nat /\ d * Period \in Nat
        BY <1>1, <1>2, <2>1, SMT
    <2> QED
        BY <1>1, <1>2, <1>3, <2>2 DEF Sampled
<1>8. Sampled(DataBits + 1) \in Nat /\ Sampled(DataBits + 1) <= FrameEnd
    <2>1. (DataBits + 1) * Period = DataBits * Period + Period
        BY <1>1, <1>2, SMT
    <2> QED
        BY <1>1, <1>2, <1>3, <2>1 DEF Sampled
<1>9. HalfTicks + 1 < FrameEnd /\ 0 < FrameEnd
    BY <1>1, <1>2, <1>3
<1> QED
    BY <1>2, <1>4, <1>5, <1>6, <1>7, <1>8, <1>9

\* The level of the line u cycles into bit k of a frame.
LEMMA LineAt ==
    ASSUME typed.busy, NEW k \in Nat, NEW u \in 0 .. Period - 1, typed.t = k * Period + u
    PROVE  rx = IF k = DataBits + 1 THEN 1 ELSE IF k = 0 THEN 0 ELSE typed.char[k - 1]
<1>1. Period \in Nat \ {0}
    BY Times
<1>2. typed.t \div Period = k
    BY <1>1, Quotient
<1> QED
    BY <1>2 DEF rx

\* What the receiver sees at the moments it looks.
LEMMA LineLevels ==
    ASSUME RxInv
    PROVE  /\ rcv.rxstate = 0 /\ typed.heard => rx = 1
           /\ rcv.rxstate = 0 /\ ~typed.heard => rx = 0
           /\ rcv.rxstate = 1 => rx = 0
           /\ rcv.rxstate = 2 /\ BitTimeOver => rx = typed.char[rcv.rxbitcnt]
<1>0. /\ DataBits \in Nat \ {0} /\ HalfTicks \in Nat
      /\ TotalTicks \in Nat \ {0} /\ HalfTicks + 2 <= TotalTicks
    BY UartAssumption
<1>1. Period \in Nat \ {0} /\ Period = TotalTicks + 1
    BY Times
<1>2. CASE rcv.rxstate = 0 /\ ~typed.busy
    BY <1>2 DEF rx, RxInv, RxPlace
<1>3. CASE rcv.rxstate = 0 /\ typed.busy /\ ~typed.heard
    <2>1. typed.t = 0 * Period + 0 /\ 0 \in 0 .. Period - 1
        BY <1>1, <1>3 DEF RxInv, RxPlace
    <2>2. rx = 0
        BY <1>0, <1>3, <2>1, LineAt
    <2> QED
        BY <1>3, <2>2
<1>4. CASE rcv.rxstate = 0 /\ typed.busy /\ typed.heard
    <2> DEFINE k == DataBits + 1
               u == typed.t - k * Period
    <2>1. typed.t > Sampled(k) /\ typed.t \in Nat /\ typed.t <= FrameEnd
        BY <1>4, Times DEF RxInv, RxPlace, RxTypes
    <2>2. /\ k * Period \in Nat /\ Sampled(k) = HalfTicks + 2 + k * Period
          /\ FrameEnd = k * Period + Period - 1
        BY <1>0, <1>1, SMT DEF Sampled, FrameEnd
    <2>3. u \in 0 .. Period - 1 /\ typed.t = k * Period + u
        BY <1>0, <1>1, <2>1, <2>2
    <2>4. k \in Nat /\ k = DataBits + 1
        BY <1>0
    <2> HIDE DEF k, u
    <2>5. rx = 1
        BY <1>4, <2>3, <2>4, LineAt
    <2> QED
        BY <1>4, <2>5
<1>5. CASE rcv.rxstate = 1
    <2> DEFINE u == 1 + rcv.interbitcount
    <2>1. /\ typed.busy /\ typed.t = 0 * Period + u
          /\ u \in 0 .. Period - 1
        BY <1>0, <1>1, <1>5 DEF RxInv, RxPlace, RxTypes
    <2> HIDE DEF u
    <2>2. rx = 0
        BY <1>0, <2>1, LineAt
    <2> QED
        BY <1>5, <2>2
<1>6. CASE rcv.rxstate = 2 /\ BitTimeOver
    <2> DEFINE k == rcv.rxbitcnt + 1
               u == HalfTicks + 1
    <2>1. /\ typed.busy /\ rcv.rxbitcnt \in Nat /\ rcv.rxbitcnt < DataBits
          /\ typed.t = Sampled(rcv.rxbitcnt) + TotalTicks
        BY <1>6 DEF RxInv, RxPlace, RxTypes, BitTimeOver
    <2>2. k * Period = rcv.rxbitcnt * Period + Period /\ rcv.rxbitcnt * Period \in Nat
        BY <1>1, <2>1, SMT
    <2>3. typed.t = k * Period + u
        BY <1>0, <1>1, <2>1, <2>2 DEF Sampled
    <2>4. /\ k \in Nat /\ u \in 0 .. Period - 1
          /\ k # DataBits + 1 /\ k # 0 /\ k - 1 = rcv.rxbitcnt
        BY <1>0, <1>1, <2>1
    <2> HIDE DEF k, u
    <2>5. rx = typed.char[rcv.rxbitcnt]
        BY <2>1, <2>3, <2>4, LineAt
    <2> QED
        BY <1>6, <2>5
<1> QED
    BY <1>2, <1>3, <1>4, <1>5, <1>6 DEF RxInv, RxPlace, RxTypes

-----------------------------------------------------------------------------
(* The receiver keeps step with the frame.                                 *)

LEMMA RxInit ==
    ASSUME Init
    PROVE  RxInv
<1>1. Zero \in Char
    BY DEF Zero, Char, Bit
<1>2. 0 \in 0 .. FrameEnd
    BY Times
<1> QED
    BY <1>1, <1>2 DEF Init, UartInit, RxInv, RxTypes, RxPlace

\* The keyboard, in a frame and at its end.
LEMMA KeyboardSteps ==
    ASSUME RxTypes, NEW press \in BOOLEAN, Keyboard(press)
    PROVE  /\ typed' \in [char : Char, t : 0 .. FrameEnd, busy : BOOLEAN, heard : BOOLEAN]
           /\ typed.busy /\ typed.t < FrameEnd =>
                /\ typed'.char = typed.char /\ typed'.t = typed.t + 1
                /\ typed'.busy /\ (typed'.heard <=> Hearing)
           /\ ~(typed.busy /\ typed.t < FrameEnd) =>
                \/ ~typed'.busy /\ (typed'.heard <=> Hearing)
                \/ typed'.busy /\ ~typed'.heard /\ typed'.t = 0
<1>0. FrameEnd \in Nat /\ 0 \in 0 .. FrameEnd /\ Hearing \in BOOLEAN
    BY Times DEF Hearing, RxTypes
<1>1. CASE typed.busy /\ typed.t < FrameEnd
    <2>1. typed' = [typed EXCEPT !.t = @ + 1, !.heard = Hearing]
        BY <1>1 DEF Keyboard
    <2>2. typed.t + 1 \in 0 .. FrameEnd
        BY <1>0, <1>1 DEF RxTypes
    <2> HIDE DEF Hearing
    <2> QED
        BY <1>0, <1>1, <2>1, <2>2 DEF RxTypes
<1>2. CASE ~(typed.busy /\ typed.t < FrameEnd)
    <2>1. CASE typed' = [char |-> Zero, t |-> 0, busy |-> FALSE, heard |-> Hearing]
        <3>1. Zero \in Char
            BY DEF Zero, Char, Bit
        <3> QED
            BY <1>0, <1>2, <2>1, <3>1
    <2>2. CASE \E c \in Keys :
                 typed' = [char |-> c, t |-> 0, busy |-> TRUE, heard |-> FALSE]
        BY <1>0, <1>2, <2>2, ConsoleAssumption
    <2> QED
        BY <1>2, <2>1, <2>2 DEF Keyboard
<1> QED
    BY <1>1, <1>2

Receiver(state, count, bits, mem) ==
    [rxstate |-> state, interbitcount |-> count, rxbitcnt |-> bits,
     rxbusy |-> IF state = 0 THEN FALSE ELSE TRUE, MEM_IN |-> mem]

LEMMA ReceiverTypes ==
    ASSUME NEW state \in 0 .. 4, NEW count \in Nat, NEW bits \in Nat,
           NEW mem \in Char, rcv' = Receiver(state, count, bits, mem),
           typed' \in [char : Char, t : 0 .. FrameEnd, busy : BOOLEAN, heard : BOOLEAN]
    PROVE  /\ RxTypes'
           /\ rcv'.rxstate = state /\ rcv'.interbitcount = count
           /\ rcv'.rxbitcnt = bits /\ rcv'.MEM_IN = mem
<1>1. rcv' \in [rxstate : 0 .. 4, interbitcount : Nat, rxbitcnt : Nat,
                rxbusy : BOOLEAN, MEM_IN : Char]
    BY DEF Receiver
<1>2. /\ rcv'.rxstate = state /\ rcv'.interbitcount = count
      /\ rcv'.rxbitcnt = bits /\ rcv'.MEM_IN = mem /\ (rcv'.rxbusy <=> state # 0)
    BY DEF Receiver
<1>3. rcv'.rxbusy <=> rcv'.rxstate # 0
    BY <1>2
<1> QED
    BY <1>1, <1>2, <1>3 DEF RxTypes

\* The receiver, state by state.
LEMMA ReceiveSteps ==
    ASSUME RxTypes, rcv' = Receive(rx)
    PROVE  /\ rcv.rxstate = 0 /\ rx = 1 => rcv' = rcv
           /\ rcv.rxstate = 0 /\ rx = 0 =>
                rcv' = Receiver(1, 0, rcv.rxbitcnt, rcv.MEM_IN)
           /\ rcv.rxstate = 1 /\ rcv.interbitcount # HalfTicks =>
                rcv' = Receiver(1, rcv.interbitcount + 1, rcv.rxbitcnt, rcv.MEM_IN)
           /\ rcv.rxstate = 1 /\ rcv.interbitcount = HalfTicks /\ rx = 0 =>
                rcv' = Receiver(2, 0, 0, rcv.MEM_IN)
           /\ rcv.rxstate \in {2, 3} /\ ~BitTimeOver =>
                rcv' = Receiver(rcv.rxstate, rcv.interbitcount + 1, rcv.rxbitcnt, rcv.MEM_IN)
           /\ rcv.rxstate = 2 /\ BitTimeOver =>
                rcv' = Receiver(IF LastDataBit THEN 3 ELSE 2, 0, rcv.rxbitcnt + 1,
                                [rcv.MEM_IN EXCEPT ![rcv.rxbitcnt] = rx])
           /\ rcv.rxstate = 3 /\ BitTimeOver =>
                rcv' = Receiver(4, 0, rcv.rxbitcnt, rcv.MEM_IN)
           /\ rcv.rxstate = 4 =>
                rcv' = Receiver(0, rcv.interbitcount, rcv.rxbitcnt, rcv.MEM_IN)
<1>0. /\ rcv \in [rxstate : 0 .. 4, interbitcount : Nat, rxbitcnt : Nat,
                  rxbusy : BOOLEAN, MEM_IN : Char]
      /\ rcv.rxstate # 0 => rcv.rxbusy = TRUE
    BY DEF RxTypes
<1>1. CASE rcv.rxstate = 0
    <2>1. rcv' = StartEdge(rx) /\ ~rcv.rxbusy
        BY <1>1 DEF Receive, RxTypes
    <2>2. rx = 1 => rcv' = rcv
        BY <2>1 DEF StartEdge
    <2>3. ASSUME rx = 0 PROVE rcv' = Receiver(1, 0, rcv.rxbitcnt, rcv.MEM_IN)
        <3> DEFINE s == 1
        <3>1. rcv' = [rcv EXCEPT !.rxbusy = TRUE, !.rxstate = s, !.interbitcount = 0]
            BY <2>1, <2>3 DEF StartEdge
        <3>2. s # 0
            OBVIOUS
        <3> HIDE DEF s
        <3>3. rcv' = Receiver(s, 0, rcv.rxbitcnt, rcv.MEM_IN)
            BY <1>0, <3>1, <3>2 DEF Receiver
        <3> QED
            BY <3>3 DEF s
    <2> QED
        BY <1>1, <2>2, <2>3
<1>2. ASSUME rcv.rxstate # 0, rcv' = Later
      PROVE  rcv' = Receiver(rcv.rxstate, rcv.interbitcount + 1, rcv.rxbitcnt, rcv.MEM_IN)
    <2>1. rcv' = [rcv EXCEPT !.interbitcount = @ + 1] /\ rcv.rxbusy = TRUE
        BY <1>0, <1>2 DEF Later
    <2> QED
        BY <1>0, <1>2, <2>1 DEF Receiver
<1>3. CASE rcv.rxstate = 1
    <2>1. rcv' = StartBit(rx)
        BY <1>3 DEF Receive
    <2>2. rcv.interbitcount # HalfTicks => rcv' = Later
        BY <2>1 DEF StartBit
    <2>3. ASSUME rcv.interbitcount = HalfTicks, rx = 0
          PROVE  rcv' = Receiver(2, 0, 0, rcv.MEM_IN)
        <3> DEFINE s == 2
        <3>1. /\ rcv' = [rcv EXCEPT !.rxstate = s, !.interbitcount = 0, !.rxbitcnt = 0]
              /\ rcv.rxbusy = TRUE
            BY <1>0, <1>3, <2>1, <2>3 DEF StartBit
        <3>2. s # 0
            OBVIOUS
        <3> HIDE DEF s
        <3>3. rcv' = Receiver(s, 0, 0, rcv.MEM_IN)
            BY <1>0, <3>1, <3>2 DEF Receiver
        <3> QED
            BY <3>3 DEF s
    <2> QED
        BY <1>2, <1>3, <2>2, <2>3
<1>4. CASE rcv.rxstate = 2
    <2>1. rcv' = DataBit(rx)
        BY <1>4 DEF Receive
    <2>2. ~BitTimeOver => rcv' = Later
        BY <2>1 DEF DataBit
    <2>3. ASSUME BitTimeOver
          PROVE  rcv' = Receiver(IF LastDataBit THEN 3 ELSE 2, 0, rcv.rxbitcnt + 1,
                                 [rcv.MEM_IN EXCEPT ![rcv.rxbitcnt] = rx])
        <3> DEFINE s == IF LastDataBit THEN 3 ELSE 2
        <3>1. /\ rcv' = [rcv EXCEPT !.MEM_IN[rcv.rxbitcnt] = rx, !.interbitcount = 0,
                                    !.rxbitcnt = @ + 1, !.rxstate = s]
              /\ rcv.rxbusy = TRUE
            BY <1>0, <1>4, <2>1, <2>3 DEF DataBit
        <3>2. s # 0
            BY DEF s
        <3> HIDE DEF s
        <3>3. rcv' = Receiver(s, 0, rcv.rxbitcnt + 1, [rcv.MEM_IN EXCEPT ![rcv.rxbitcnt] = rx])
            BY <1>0, <3>1, <3>2 DEF Receiver
        <3> QED
            BY <3>3 DEF s
    <2> QED
        BY <1>2, <1>4, <2>2, <2>3
<1>5. CASE rcv.rxstate = 3
    <2>1. rcv' = StopBit
        BY <1>5 DEF Receive
    <2>2. ~BitTimeOver => rcv' = Later
        BY <2>1 DEF StopBit
    <2>3. ASSUME BitTimeOver
          PROVE  rcv' = Receiver(4, 0, rcv.rxbitcnt, rcv.MEM_IN)
        <3> DEFINE s == 4
        <3>1. rcv' = [rcv EXCEPT !.rxstate = s, !.interbitcount = 0] /\ rcv.rxbusy = TRUE
            BY <1>0, <1>5, <2>1, <2>3 DEF StopBit
        <3>2. s # 0
            OBVIOUS
        <3> HIDE DEF s
        <3>3. rcv' = Receiver(s, 0, rcv.rxbitcnt, rcv.MEM_IN)
            BY <1>0, <3>1, <3>2 DEF Receiver
        <3> QED
            BY <3>3 DEF s
    <2> QED
        BY <1>2, <1>5, <2>2, <2>3
<1>6. CASE rcv.rxstate = 4
    <2>1. rcv' = [rcv EXCEPT !.rxstate = 0, !.rxbusy = FALSE]
        BY <1>6 DEF Receive
    <2>2. rcv' = Receiver(0, rcv.interbitcount, rcv.rxbitcnt, rcv.MEM_IN)
        BY <1>0, <2>1 DEF Receiver
    <2> QED
        BY <1>6, <2>2
<1> QED
    BY <1>0, <1>1, <1>3, <1>4, <1>5, <1>6

LEMMA RxTick ==
    ASSUME RxInv, NEW press \in BOOLEAN, Keyboard(press), rcv' = Receive(rx)
    PROVE  RxInv'
<1> USE DEF RxInv
<1>0. /\ DataBits \in Nat \ {0} /\ HalfTicks \in Nat
      /\ TotalTicks \in Nat \ {0} /\ HalfTicks + 2 <= TotalTicks
    BY UartAssumption
<1>1. /\ typed' \in [char : Char, t : 0 .. FrameEnd, busy : BOOLEAN, heard : BOOLEAN]
      /\ typed.busy /\ typed.t < FrameEnd =>
           /\ typed'.char = typed.char /\ typed'.t = typed.t + 1
           /\ typed'.busy /\ (typed'.heard <=> Hearing)
      /\ ~(typed.busy /\ typed.t < FrameEnd) =>
           \/ ~typed'.busy /\ (typed'.heard <=> Hearing)
           \/ typed'.busy /\ ~typed'.heard /\ typed'.t = 0
    BY KeyboardSteps
<1>2. Hearing <=> typed.heard \/ rcv.rxstate = 4
    BY DEF Hearing
<1>r. /\ rcv.interbitcount \in Nat /\ rcv.rxbitcnt \in Nat /\ rcv.MEM_IN \in Char
      /\ typed.char \in Char /\ typed.t \in Nat /\ rcv.rxstate \in 0 .. 4
    BY Times DEF RxTypes
<1>3. CASE rcv.rxstate = 0 /\ ~typed.busy
    <2>1. rcv' = rcv /\ typed.heard
        BY <1>3, LineLevels, ReceiveSteps DEF RxPlace
    <2> QED
        BY <1>1, <1>2, <1>3, <2>1 DEF RxPlace, RxTypes
<1>4. CASE rcv.rxstate = 0 /\ typed.busy /\ ~typed.heard
    <2>1. rcv' = Receiver(1, 0, rcv.rxbitcnt, rcv.MEM_IN)
        BY <1>4, LineLevels, ReceiveSteps
    <2>2. typed.t = 0 /\ typed.t < FrameEnd
        BY <1>4, Times DEF RxPlace
    <2>3. typed'.busy /\ ~typed'.heard /\ typed'.t = 1
        BY <1>1, <1>2, <1>4, <2>2
    <2>4. RxTypes' /\ rcv'.rxstate = 1 /\ rcv'.interbitcount = 0
        BY <1>1, <2>1, <1>r, ReceiverTypes
    <2>5. RxPlace'
        BY <1>0, <1>r, <2>3, <2>4 DEF RxPlace
    <2> QED
        BY <2>4, <2>5
<1>5. CASE rcv.rxstate = 0 /\ typed.busy /\ typed.heard
    <2>1. rcv' = rcv
        BY <1>5, LineLevels, ReceiveSteps
    <2>2. typed.t > Sampled(DataBits + 1) /\ Sampled(DataBits + 1) \in Nat
        BY <1>5, Times DEF RxPlace
    <2>3. typed.t < FrameEnd => typed'.t > Sampled(DataBits + 1)
        BY <1>r, <1>1, <1>5, <2>2
    <2> QED
        BY <1>1, <1>2, <1>5, <2>1, <2>3 DEF RxPlace, RxTypes
<1>6. CASE rcv.rxstate = 1
    <2>1. typed.busy /\ ~typed.heard /\ typed.t = 1 + rcv.interbitcount
          /\ rcv.interbitcount <= HalfTicks
        BY <1>6 DEF RxPlace
    <2>2. typed.t < FrameEnd
        BY <1>0, <1>r, <2>1, Times
    <2>3. typed'.busy /\ ~typed'.heard /\ typed'.t = typed.t + 1
        BY <1>1, <1>2, <1>6, <2>1, <2>2
    <2>4. CASE rcv.interbitcount # HalfTicks
        <3>1. rcv' = Receiver(1, rcv.interbitcount + 1, rcv.rxbitcnt, rcv.MEM_IN)
            BY <1>6, <2>4, ReceiveSteps
        <3>2. RxTypes' /\ rcv'.rxstate = 1 /\ rcv'.interbitcount = rcv.interbitcount + 1
            BY <1>1, <3>1, <1>r, ReceiverTypes
        <3>3. typed'.t = 1 + (rcv.interbitcount + 1) /\ rcv.interbitcount + 1 <= HalfTicks
            BY <1>0, <1>r, <2>1, <2>3, <2>4
        <3>4. RxPlace'
            BY <2>3, <3>2, <3>3 DEF RxPlace
        <3> QED
            BY <3>2, <3>4
    <2>5. CASE rcv.interbitcount = HalfTicks
        <3>1. rcv' = Receiver(2, 0, 0, rcv.MEM_IN)
            BY <1>6, <2>5, LineLevels, ReceiveSteps
        <3>2. typed'.t = Sampled(0)
            BY <1>0, <1>r, <2>1, <2>3, <2>5, Times
        <3>3. Received(0)'
            BY DEF Received
        <3>4. /\ rcv'.rxstate = 2 /\ rcv'.interbitcount = 0 /\ rcv'.rxbitcnt = 0
              /\ RxTypes'
            BY <1>1, <3>1, <1>r, ReceiverTypes
        <3>5. Sampled(0) \in Nat
            BY Times
        <3>6. RxPlace'
            BY <1>0, <1>r, <2>3, <3>2, <3>3, <3>4, <3>5 DEF RxPlace
        <3> QED
            BY <3>4, <3>6
    <2> QED
        BY <2>4, <2>5
<1>7. CASE rcv.rxstate = 2
    <2> DEFINE b == rcv.rxbitcnt
    <2>1. /\ typed.busy /\ ~typed.heard /\ typed.t = Sampled(b) + rcv.interbitcount
          /\ rcv.interbitcount <= TotalTicks /\ b \in 0 .. DataBits - 1
          /\ Received(b)
        BY <1>0, <1>r, <1>7 DEF RxPlace
    <2>2. Sampled(b) \in Nat /\ Sampled(b + 1) = Sampled(b) + Period /\ Period = TotalTicks + 1
        BY <2>1, Times
    <2>3. typed.t < FrameEnd
        <3>1. Sampled(b) + TotalTicks < FrameEnd
            BY <1>0, <1>r, <2>1, Times
        <3>2. FrameEnd \in Nat
            BY Times
        <3> HIDE DEF Sampled, b
        <3> QED
            BY <1>0, <1>r, <2>1, <2>2, <3>1, <3>2
    <2>4. /\ typed'.busy /\ ~typed'.heard /\ typed'.t = typed.t + 1
          /\ typed'.char = typed.char
        BY <1>1, <1>2, <1>7, <2>1, <2>3
    <2>5. CASE ~BitTimeOver
        <3>1. rcv' = Receiver(2, rcv.interbitcount + 1, b, rcv.MEM_IN)
            BY <1>7, <2>5, ReceiveSteps
        <3>2. /\ rcv'.rxstate = 2 /\ rcv'.interbitcount = rcv.interbitcount + 1
              /\ rcv'.rxbitcnt = b /\ rcv'.MEM_IN = rcv.MEM_IN
              /\ RxTypes'
            BY <1>1, <3>1, <1>r, ReceiverTypes
        <3>3. Received(b)' /\ rcv.interbitcount + 1 <= TotalTicks
            BY <1>0, <1>r, <2>1, <2>4, <2>5, <3>2 DEF Received, BitTimeOver
        <3>4. typed'.t = Sampled(b) + (rcv.interbitcount + 1)
            BY <1>r, <2>1, <2>2, <2>4
        <3>5. \A k \in 0 .. b - 1 : rcv'.MEM_IN[k] = typed'.char[k]
            BY <2>1, <2>4, <3>2 DEF Received
        <3>6. Received(rcv.rxbitcnt)'
            BY <3>2, <3>5 DEF Received
        <3>7. rcv'.rxbitcnt < DataBits /\ typed'.t = Sampled(rcv.rxbitcnt)' + rcv'.interbitcount
            BY <1>0, <2>1, <3>2, <3>4 DEF Sampled, Period
        <3>8. RxPlace'
            BY <2>4, <3>2, <3>3, <3>6, <3>7 DEF RxPlace
        <3> QED
            BY <3>2, <3>8
    <2>6. CASE BitTimeOver
        <3>1. rcv' = Receiver(IF LastDataBit THEN 3 ELSE 2, 0, b + 1,
                              [rcv.MEM_IN EXCEPT ![b] = typed.char[b]])
            BY <1>7, <2>6, LineLevels, ReceiveSteps
        <3>2. typed.char[b] \in Bit
            BY <1>r, <2>1 DEF Char
        <3>3. [rcv.MEM_IN EXCEPT ![b] = typed.char[b]] \in Char
            BY <1>r, <2>1, <3>2 DEF Char
        <3>4. (IF LastDataBit THEN 3 ELSE 2) \in 0 .. 4 /\ (IF LastDataBit THEN 3 ELSE 2) # 0
            OBVIOUS
        <3>5. /\ rcv'.rxstate = (IF LastDataBit THEN 3 ELSE 2) /\ rcv'.interbitcount = 0
              /\ rcv'.rxbitcnt = b + 1 /\ rcv'.MEM_IN = [rcv.MEM_IN EXCEPT ![b] = typed.char[b]]
              /\ RxTypes'
            BY <1>1, <2>1, <3>1, <3>3, <3>4, <1>r, ReceiverTypes
        <3>6. \A k \in 0 .. b : rcv'.MEM_IN[k] = typed'.char[k]
            <4>1. rcv.MEM_IN \in [0 .. DataBits - 1 -> Bit]
                BY <1>r DEF Char
            <4>2. \A k \in 0 .. b - 1 : rcv.MEM_IN[k] = typed.char[k]
                BY <2>1 DEF Received
            <4>3. \A k \in 0 .. b : k \in 0 .. DataBits - 1 /\ (k = b \/ k \in 0 .. b - 1)
                BY <1>0, <2>1
            <4>4. b \in 0 .. DataBits - 1 /\ rcv'.MEM_IN = [rcv.MEM_IN EXCEPT ![b] = typed.char[b]]
                BY <2>1, <3>5
            <4> HIDE DEF b
            <4>5. rcv'.MEM_IN[b] = typed.char[b]
                BY <4>1, <4>4
            <4>6. \A k \in 0 .. DataBits - 1 : k # b => rcv'.MEM_IN[k] = rcv.MEM_IN[k]
                BY <4>1, <4>4
            <4> QED
                BY <2>4, <4>2, <4>3, <4>5, <4>6
        <3>7. typed'.t = Sampled(b + 1)
            BY <1>0, <1>r, <2>1, <2>2, <2>4, <2>6 DEF BitTimeOver
        <3>8. Sampled(b + 1) \in Nat
            BY <2>1, Times
        <3>9. CASE LastDataBit
            <4>1. b + 1 = DataBits
                BY <1>0, <1>r, <2>1, <3>9 DEF LastDataBit
            <4>2. Received(DataBits)'
                BY <2>1, <3>6, <4>1 DEF Received
            <4>3. RxPlace'
                BY <1>0, <1>r, <2>4, <3>5, <3>7, <3>8, <3>9, <4>1, <4>2 DEF RxPlace
            <4> QED
                BY <3>5, <4>3
        <3>10. CASE ~LastDataBit
            <4>1. b + 1 < DataBits /\ b + 1 - 1 = b
                BY <1>0, <1>r, <2>1, <3>10 DEF LastDataBit
            <4>2. Received(rcv.rxbitcnt)'
                BY <2>1, <3>5, <3>6, <4>1 DEF Received
            <4>3. RxPlace'
                BY <1>0, <1>r, <2>4, <3>5, <3>7, <3>8, <3>10, <4>1, <4>2 DEF RxPlace
            <4> QED
                BY <3>5, <4>3
        <3> QED
            BY <3>9, <3>10
    <2> QED
        BY <2>5, <2>6
<1>8. CASE rcv.rxstate = 3
    <2>1. /\ typed.busy /\ ~typed.heard /\ typed.t = Sampled(DataBits) + rcv.interbitcount
          /\ rcv.interbitcount <= TotalTicks /\ Received(DataBits)
        BY <1>8 DEF RxPlace
    <2>2. /\ Sampled(DataBits) \in Nat /\ Sampled(DataBits + 1) = Sampled(DataBits) + Period
          /\ Period = TotalTicks + 1 /\ Sampled(DataBits) + TotalTicks < FrameEnd
          /\ FrameEnd \in Nat
        BY <1>0, <1>r, Times
    <2> HIDE DEF Sampled
    <2>3. typed.t < FrameEnd
        BY <1>0, <1>r, <2>1, <2>2
    <2>4. /\ typed'.busy /\ ~typed'.heard /\ typed'.t = typed.t + 1
          /\ typed'.char = typed.char
        BY <1>1, <1>2, <1>8, <2>1, <2>3
    <2>5. CASE ~BitTimeOver
        <3>1. rcv' = Receiver(3, rcv.interbitcount + 1, rcv.rxbitcnt, rcv.MEM_IN)
            BY <1>8, <2>5, ReceiveSteps
        <3>2. /\ rcv'.rxstate = 3 /\ rcv'.interbitcount = rcv.interbitcount + 1
              /\ rcv'.MEM_IN = rcv.MEM_IN /\ RxTypes'
            BY <1>1, <3>1, <1>r, ReceiverTypes
        <3>3. Received(DataBits)' /\ rcv.interbitcount + 1 <= TotalTicks
            BY <1>0, <1>r, <2>1, <2>4, <2>5, <3>2 DEF Received, BitTimeOver
        <3>4. typed'.t = Sampled(DataBits) + (rcv.interbitcount + 1)
            BY <1>r, <2>1, <2>2, <2>4
        <3>5. RxPlace'
            BY <2>4, <3>2, <3>3, <3>4 DEF RxPlace
        <3> QED
            BY <3>2, <3>5
    <2>6. CASE BitTimeOver
        <3>1. rcv' = Receiver(4, 0, rcv.rxbitcnt, rcv.MEM_IN)
            BY <1>8, <2>6, ReceiveSteps
        <3>2. rcv'.rxstate = 4 /\ rcv'.MEM_IN = rcv.MEM_IN /\ RxTypes'
            BY <1>1, <3>1, <1>r, ReceiverTypes
        <3>3. Received(DataBits)'
            BY <2>1, <2>4, <3>2 DEF Received
        <3>4. typed'.t = Sampled(DataBits + 1)
            BY <1>0, <1>r, <2>1, <2>2, <2>4, <2>6 DEF BitTimeOver
        <3>5. RxPlace'
            BY <2>4, <3>2, <3>3, <3>4 DEF RxPlace
        <3> QED
            BY <3>2, <3>5
    <2> QED
        BY <2>5, <2>6
<1>9. CASE rcv.rxstate = 4
    <2>1. rcv' = Receiver(0, rcv.interbitcount, rcv.rxbitcnt, rcv.MEM_IN)
        BY <1>9, ReceiveSteps
    <2>2. typed.busy /\ typed.t = Sampled(DataBits + 1) /\ Sampled(DataBits + 1) \in Nat
        BY <1>9, Times DEF RxPlace
    <2> HIDE DEF Sampled
    <2>3. rcv'.rxstate = 0 /\ RxTypes'
        BY <1>1, <2>1, <1>r, ReceiverTypes
    <2>4. Hearing
        BY <1>2, <1>9
    <2>5. typed.t < FrameEnd => typed'.t > Sampled(DataBits + 1)
        BY <1>r, <1>1, <2>2
    <2>6. RxPlace'
        BY <1>1, <2>2, <2>3, <2>4, <2>5 DEF RxPlace
    <2> QED
        BY <2>3, <2>6
<1> QED
    BY <1>r, <1>3, <1>4, <1>5, <1>6, <1>7, <1>8, <1>9 DEF RxTypes

LEMMA RxStep ==
    ASSUME RxInv, [Next]_vars
    PROVE  RxInv'
<1>1. CASE UNCHANGED vars
    BY <1>1 DEF vars, RxInv, RxTypes, RxPlace, Received
<1>2. CASE Next
    BY <1>2, RxTick DEF Next, Tick
<1> QED
    BY <1>1, <1>2

\* Each frame on the line becomes one character, for every bit time, half bit
\* time and width: the receiver is back in its idle state when the next start
\* bit can come, and no earlier than inside the stop bit (UART.v:232-293).
THEOREM FramesHeard == Spec => []EveryFrameHeardOnce
<1>1. Init => RxInv
    BY RxInit
<1>2. RxInv /\ [Next]_vars => RxInv'
    BY RxStep
<1>3. RxInv => EveryFrameHeardOnce
    <2> SUFFICES ASSUME RxInv PROVE EveryFrameHeardOnce
        OBVIOUS
    <2>1. typed.busy /\ typed.t = 0 => rcv.rxstate \notin {2, 3, 4}
        <3>1. ASSUME NEW k \in Nat PROVE Sampled(k) > 0
            <4>1. HalfTicks \in Nat /\ Period \in Nat
                BY UartAssumption, Times
            <4>2. k * Period \in Nat
                BY <4>1, SMT
            <4> QED
                BY <4>1, <4>2 DEF Sampled
        <3>2. DataBits \in Nat /\ rcv.rxbitcnt \in Nat /\ rcv.interbitcount \in Nat
            BY UartAssumption DEF RxInv, RxTypes
        <3>3. Sampled(rcv.rxbitcnt) > 0 /\ Sampled(DataBits) > 0 /\ Sampled(DataBits + 1) > 0
            BY <3>1, <3>2
        <3>4. /\ Sampled(rcv.rxbitcnt) \in Nat /\ Sampled(DataBits) \in Nat
              /\ Sampled(DataBits + 1) \in Nat
            BY <3>2, Times
        <3> HIDE DEF Sampled
        <3> QED
            BY <3>2, <3>3, <3>4 DEF RxInv, RxPlace
    <2> QED
        BY <2>1 DEF RxInv, RxTypes, RxPlace, EveryFrameHeardOnce
<1> QED
    BY <1>1, <1>2, <1>3, PTL DEF Spec

-----------------------------------------------------------------------------
(* What the FIFO holds.                                                    *)

LEMMA Remainder ==
    ASSUME NEW D \in Nat \ {0}, NEW x \in 0 .. 4 * D - 1
    PROVE  x % D = IF x < D THEN x ELSE IF x < 2 * D THEN x - D
                   ELSE IF x < 3 * D THEN x - 2 * D ELSE x - 3 * D
<1>1. ASSUME NEW k \in 0 .. 3, k * D <= x, x < k * D + D
      PROVE  x % D = x - k * D
    <2> DEFINE u == x - k * D
    <2>1. k * D \in Nat
        BY SMT
    <2>2. u \in 0 .. D - 1 /\ x = k * D + u
        BY <1>1, <2>1, SMT
    <2> HIDE DEF u
    <2>3. (k * D + u) % D = u
        BY <2>2, Quotient
    <2> QED
        BY <2>2, <2>3 DEF u
<1>2. CASE x < D
    <2>1. 0 * D = 0
        OBVIOUS
    <2> QED
        BY <1>1, <1>2, <2>1
<1>3. CASE D <= x /\ x < 2 * D
    <2>1. 1 * D = D
        OBVIOUS
    <2> QED
        BY <1>1, <1>3, <2>1
<1>4. CASE 2 * D <= x /\ x < 3 * D
    BY <1>1, <1>4
<1>5. CASE 3 * D <= x
    BY <1>1, <1>5
<1> QED
    BY <1>2, <1>3, <1>4, <1>5

\* A count c of characters and pointers w and r that move to v and s.
Moving(D, M, w, r, push, pop, c, v, s) ==
    /\ D \in Nat \ {0} /\ M \in Nat \ {0} /\ M = 2 * D
    /\ w \in 0 .. M - 1 /\ r \in 0 .. M - 1
    /\ push \in {0, 1} /\ pop \in {0, 1}
    /\ c = IF w < r THEN w - r + M ELSE w - r
    /\ c <= D /\ (push = 1 => c # D) /\ (pop = 1 => w # r)
    /\ v = IF push = 1 THEN (IF w + 1 = M THEN 0 ELSE w + 1) ELSE w
    /\ s = IF pop = 1 THEN (IF r + 1 = M THEN 0 ELSE r + 1) ELSE r

\* The new count, and the places of the characters modulo the depth.
Placed(D, M, w, r, push, pop, c, v, s) ==
    /\ (v - s) % M = c + push - pop
    /\ \A j \in 0 .. c - 1 : push = 1 => (r + j) % D # w % D
    /\ \A j \in 0 .. D - 1 : (s + j) % D = (r + pop + j) % D
    /\ (r + c) % D = w % D
    /\ w % D \in 0 .. D - 1

LEMMA Slots ==
    ASSUME NEW D, NEW M, NEW w, NEW r, NEW push, NEW pop, NEW c, NEW v, NEW s,
           Moving(D, M, w, r, push, pop, c, v, s)
    PROVE  Placed(D, M, w, r, push, pop, c, v, s)
<1> SUFFICES
        ASSUME D \in Nat \ {0}, M \in Nat \ {0}, M = 2 * D,
               w \in 0 .. M - 1, r \in 0 .. M - 1,
               push \in {0, 1}, pop \in {0, 1},
               c = IF w < r THEN w - r + M ELSE w - r,
               c <= D, push = 1 => c # D, pop = 1 => w # r,
               v = IF push = 1 THEN (IF w + 1 = M THEN 0 ELSE w + 1) ELSE w,
               s = IF pop = 1 THEN (IF r + 1 = M THEN 0 ELSE r + 1) ELSE r
        PROVE  /\ (v - s) % M = c + push - pop
               /\ \A j \in 0 .. c - 1 : push = 1 => (r + j) % D # w % D
               /\ \A j \in 0 .. D - 1 : (s + j) % D = (r + pop + j) % D
               /\ (r + c) % D = w % D
               /\ w % D \in 0 .. D - 1
    BY DEF Moving, Placed
<1>1. v \in 0 .. M - 1 /\ s \in 0 .. M - 1 /\ c \in 0 .. D
    OBVIOUS
<1>2. (v - s) % M = IF v < s THEN v - s + M ELSE v - s
    BY ONLY M \in Nat \ {0}, <1>1, Between
<1>3. (v - s) % M = c + push - pop
    BY <1>1, <1>2
<1> DEFINE Mod(x) == IF x < D THEN x ELSE IF x < 2 * D THEN x - D
                     ELSE IF x < 3 * D THEN x - 2 * D ELSE x - 3 * D
<1>4. \A x \in 0 .. 4 * D - 1 : x % D = Mod(x)
    BY ONLY D \in Nat \ {0}, Remainder
<1>5. ASSUME NEW j \in 0 .. c - 1, push = 1
      PROVE  (r + j) % D # w % D
    <2>1. r + j \in 0 .. 4 * D - 1 /\ w \in 0 .. 4 * D - 1
        BY <1>1
    <2>2. (r + j) % D = Mod(r + j) /\ w % D = Mod(w)
        BY ONLY <1>4, <2>1
    <2>3. Mod(r + j) # Mod(w)
        BY <1>1, <1>5
    <2> QED
        BY ONLY <2>2, <2>3
<1>6. ASSUME NEW j \in 0 .. D - 1
      PROVE  (s + j) % D = (r + pop + j) % D
    <2>1. s + j \in 0 .. 4 * D - 1 /\ r + pop + j \in 0 .. 4 * D - 1
        BY <1>1
    <2>2. (s + j) % D = Mod(s + j) /\ (r + pop + j) % D = Mod(r + pop + j)
        BY ONLY <1>4, <2>1
    <2>3. Mod(s + j) = Mod(r + pop + j)
        BY <1>1
    <2> QED
        BY ONLY <2>2, <2>3
<1>7. (r + c) % D = w % D /\ w % D \in 0 .. D - 1
    <2>1. r + c \in 0 .. 4 * D - 1 /\ w \in 0 .. 4 * D - 1
        BY <1>1
    <2>2. (r + c) % D = Mod(r + c) /\ w % D = Mod(w)
        BY ONLY <1>4, <2>1
    <2>3. Mod(r + c) = Mod(w) /\ Mod(w) \in 0 .. D - 1
        BY <1>1
    <2> QED
        BY ONLY <2>2, <2>3
<1> QED
    BY <1>3, <1>5, <1>6, <1>7

Stored ==
    /\ fifo.inbuffer \in [0 .. Depth - 1 -> Char]
    /\ Contents = unread

LEMMA ContentsTyped ==
    ASSUME Pointers, fifo.inbuffer \in [0 .. Depth - 1 -> Char]
    PROVE  /\ FifoCnt \in 0 .. Depth
           /\ Contents \in Seq(Char) /\ Len(Contents) = FifoCnt
           /\ \A i \in 1 .. FifoCnt :
                Contents[i] = fifo.inbuffer[(fifo.rptr + i - 1) % Depth]
<1>1. Depth \in Nat \ {0}
    BY UartAssumption
<1>2. FifoCnt \in 0 .. Depth
    <2>1. FifoCnt \in Nat
        BY <1>1, Between DEF FifoCnt, Pointers
    <2> QED
        BY <1>1, <2>1 DEF Pointers
<1>3. ASSUME NEW i \in 1 .. FifoCnt
      PROVE  fifo.inbuffer[(fifo.rptr + i - 1) % Depth] \in Char
    <2>1. fifo.rptr + i - 1 \in Int
        BY <1>2 DEF Pointers
    <2>2. (fifo.rptr + i - 1) % Depth \in 0 .. Depth - 1
        BY <1>1, <2>1, SMT
    <2> QED
        BY <2>2
<1>4. Contents \in [1 .. FifoCnt -> Char]
    BY <1>3 DEF Contents
<1>5. Contents \in Seq(Char)
    BY <1>2, <1>4, SeqDef
<1>6. Len(Contents) = FifoCnt
    <2>1. DOMAIN Contents = 1 .. Len(Contents) /\ Len(Contents) \in Nat
        BY <1>5, LenProperties
    <2>2. DOMAIN Contents = 1 .. FifoCnt
        BY <1>4
    <2>3. FifoCnt \in Nat
        BY <1>2
    <2>4. ASSUME NEW m \in Nat, NEW n \in Nat, 1 .. m = 1 .. n PROVE m = n
        BY <2>4
    <2> QED
        BY ONLY <2>1, <2>2, <2>3, <2>4
<1>7. \A i \in 1 .. FifoCnt :
        Contents[i] = fifo.inbuffer[(fifo.rptr + i - 1) % Depth]
    BY DEF Contents
<1> QED
    BY <1>2, <1>5, <1>6, <1>7

\* A queue after a pop and a push, and what that does to its elements.
After(u, pop, x, push) ==
    (IF pop = 1 THEN Tail(u) ELSE u) \o (IF push = 1 THEN <<x>> ELSE <<>>)

Advanced(u, pop, x, push, t) ==
    /\ Len(t) = Len(u) - pop + push
    /\ \A i \in 1 .. Len(u) - pop : t[i] = u[i + pop]
    /\ push = 1 => t[Len(u) - pop + 1] = x

LEMMA Shifted ==
    ASSUME NEW S, NEW u \in Seq(S), NEW x \in S, NEW pop \in {0, 1}, NEW push \in {0, 1},
           pop = 1 => Len(u) # 0
    PROVE  /\ After(u, pop, x, push) \in Seq(S)
           /\ Advanced(u, pop, x, push, After(u, pop, x, push))
<1> DEFINE t == After(u, pop, x, push)
<1> DEFINE front == IF pop = 1 THEN Tail(u) ELSE u
           back == IF push = 1 THEN <<x>> ELSE <<>>
<1>0. Len(u) \in Nat
    BY LenProperties
<1>1. /\ front \in Seq(S) /\ Len(front) = Len(u) - pop
      /\ \A i \in 1 .. Len(u) - pop : front[i] = u[i + pop]
    <2>1. CASE pop = 1
        <3>1. u # <<>>
            BY <2>1, EmptySeq
        <3>2. /\ Tail(u) \in Seq(S) /\ Len(Tail(u)) = Len(u) - 1
              /\ \A i \in 1 .. Len(Tail(u)) : Tail(u)[i] = u[i + 1]
            BY <3>1, HeadTailProperties
        <3>3. front = Tail(u)
            BY <2>1
        <3> HIDE DEF front
        <3> QED
            BY <2>1, <3>2, <3>3
    <2>2. CASE pop = 0
        <3>1. front = u
            BY <2>2
        <3> HIDE DEF front
        <3> QED
            BY <1>0, <2>2, <3>1
    <2> QED
        BY <2>1, <2>2
<1>2. back \in Seq(S) /\ Len(back) = push /\ (push = 1 => back[1] = x)
    <2>1. CASE push = 1
        BY <2>1
    <2>2. CASE push = 0
        BY <2>2, EmptySeq
    <2> QED
        BY <2>1, <2>2
<1>3. t = front \o back
    BY DEF After
<1> HIDE DEF front, back, t
<1>4. /\ t \in Seq(S) /\ Len(t) = Len(front) + Len(back)
      /\ \A i \in 1 .. Len(front) + Len(back) :
           t[i] = IF i <= Len(front) THEN front[i] ELSE back[i - Len(front)]
    <2>1. /\ front \o back \in Seq(S) /\ Len(front \o back) = Len(front) + Len(back)
          /\ \A i \in 1 .. Len(front) + Len(back) :
               (front \o back)[i] = IF i <= Len(front) THEN front[i] ELSE back[i - Len(front)]
        BY ONLY <1>1, <1>2, ConcatProperties
    <2> QED
        BY ONLY <1>3, <2>1
<1>n. Len(front) = Len(u) - pop /\ Len(back) = push /\ Len(u) - pop \in Nat
    <2>1. Len(front) \in Nat
        BY <1>1, LenProperties
    <2> QED
        BY <1>1, <1>2, <2>1
<1>5. Len(t) = Len(u) - pop + push
    BY <1>1, <1>2, <1>4
<1>6. ASSUME NEW i \in 1 .. Len(u) - pop
      PROVE  t[i] = u[i + pop]
    <2>1. /\ i \in 1 .. Len(front) + Len(back) /\ i <= Len(front)
          /\ front[i] = u[i + pop]
        BY <1>1, <1>n
    <2> QED
        BY ONLY <1>4, <2>1
<1>7. ASSUME push = 1 PROVE t[Len(u) - pop + 1] = x
    <2> DEFINE n == Len(u) - pop
    <2>1. n \in Nat /\ Len(front) = n /\ Len(back) = 1
        BY <1>7, <1>n
    <2> HIDE DEF n
    <2> DEFINE e == n + 1
    <2>3. e \in 1 .. Len(front) + Len(back) /\ ~(e <= Len(front)) /\ e - Len(front) = 1
        BY ONLY <2>1
    <2> HIDE DEF e
    <2>4. t[e] = back[e - Len(front)]
        BY ONLY <1>4, <2>3
    <2>5. t[e] = back[1]
        BY ONLY <2>3, <2>4
    <2> QED
        BY <1>2, <1>7, <2>5 DEF e, n
<1> QED
    BY <1>4, <1>5, <1>6, <1>7 DEF Advanced, t

\* A character that is pushed is the one that was typed.
LEMMA PushedWhole ==
    ASSUME RxInv, rcv.rxstate = 4
    PROVE  rcv.MEM_IN = typed.char /\ typed.char \in Char
<1>1. rcv.MEM_IN \in Char /\ typed.char \in Char
    BY DEF RxInv, RxTypes
<1>2. \A b \in 0 .. DataBits - 1 : rcv.MEM_IN[b] = typed.char[b]
    BY DEF RxInv, RxPlace, Received
<1> DEFINE m == rcv.MEM_IN
           x == typed.char
<1>3. m \in [0 .. DataBits - 1 -> Bit] /\ x \in [0 .. DataBits - 1 -> Bit]
    BY <1>1 DEF Char
<1>4. \A b \in 0 .. DataBits - 1 : m[b] = x[b]
    BY <1>2
<1> HIDE DEF m, x
<1>5. m = x
    <2>1. m = [b \in 0 .. DataBits - 1 |-> m[b]]
        BY ONLY <1>3
    <2>2. x = [b \in 0 .. DataBits - 1 |-> x[b]]
        BY ONLY <1>3
    <2>3. [b \in 0 .. DataBits - 1 |-> m[b]] = [b \in 0 .. DataBits - 1 |-> x[b]]
        BY ONLY <1>4
    <2> QED
        BY ONLY <2>1, <2>2, <2>3
<1> QED
    BY <1>1, <1>5 DEF m, x

LEMMA StoredInit ==
    ASSUME Init
    PROVE  Stored
<1>1. Zero \in Char
    BY DEF Zero, Char, Bit
<1>2. fifo.inbuffer \in [0 .. Depth - 1 -> Char] /\ unread = <<>>
    BY <1>1 DEF Init, UartInit
<1>3. FifoCnt = 0
    <2>1. Depth \in Nat \ {0}
        BY UartAssumption
    <2> QED
        BY <2>1, Between DEF Init, UartInit, FifoCnt
<1>4. Contents \in Seq(Char) /\ Len(Contents) = 0
    BY <1>2, <1>3, RequestInit, ContentsTyped DEF RequestInv
<1>5. Contents = <<>>
    BY <1>4, EmptySeq
<1> QED
    BY <1>2, <1>5 DEF Stored

LEMMA StoredTick ==
    ASSUME Pointers, Pointers', RxInv, Stored, fifo' = Buffer(sdevram, rxack),
           unread' = (IF RxPop(sdevram) THEN Tail(unread) ELSE unread) \o Accepted
    PROVE  Stored'
<1> DEFINE pop == IF RxPop(sdevram) THEN 1 ELSE 0
           push == IF RxPush THEN 1 ELSE 0
           w == fifo.wptr
           r == fifo.rptr
           v == fifo'.wptr
           s == fifo'.rptr
           c == FifoCnt
           d == FifoCnt'
           M == 2 * Depth
           old == fifo.inbuffer
           new == fifo'.inbuffer
           x == typed.char
<1>1. Depth \in Nat \ {0} /\ M \in Nat \ {0} /\ M = 2 * Depth
    BY UartAssumption
<1>2. /\ w \in 0 .. M - 1 /\ r \in 0 .. M - 1 /\ c <= Depth
      /\ v \in 0 .. M - 1 /\ s \in 0 .. M - 1
    BY DEF Pointers
<1>3. x \in Char
    BY DEF RxInv, RxTypes
<1>4. /\ old \in [0 .. Depth - 1 -> Char]
      /\ c \in 0 .. Depth
      /\ unread \in Seq(Char) /\ Len(unread) = c
      /\ \A i \in 1 .. c : unread[i] = old[(r + i - 1) % Depth]
    BY ContentsTyped DEF Stored
<1>5. new = IF push = 1 THEN [old EXCEPT ![w % Depth] = x] ELSE old
    <2>1. CASE RxPush
        <3>1. rcv.MEM_IN = x
            BY <2>1, PushedWhole DEF RxPush
        <3> QED
            BY <2>1, <3>1 DEF Buffer
    <2>2. CASE ~RxPush
        BY <2>2 DEF Buffer
    <2> QED
        BY <2>1, <2>2
<1>6. /\ v = IF push = 1 THEN (w + 1) % M ELSE w
      /\ s = IF pop = 1 THEN (r + 1) % M ELSE r
    BY DEF Buffer
<1>7. c = (w - r) % M /\ d = (v - s) % M
    BY DEF FifoCnt
<1>8. unread' = (IF pop = 1 THEN Tail(unread) ELSE unread)
                  \o (IF push = 1 THEN <<x>> ELSE <<>>)
    <2>1. (pop = 1 <=> RxPop(sdevram)) /\ (push = 1 <=> RxPush)
        OBVIOUS
    <2> HIDE DEF pop, push
    <2>2. Accepted = IF push = 1 THEN <<x>> ELSE <<>>
        BY <2>1 DEF Accepted
    <2>3. (IF RxPop(sdevram) THEN Tail(unread) ELSE unread) =
            IF pop = 1 THEN Tail(unread) ELSE unread
        BY <2>1
    <2> QED
        BY <2>2, <2>3
<1>9. /\ push \in {0, 1} /\ (push = 1 => c # Depth)
      /\ pop \in {0, 1} /\ (pop = 1 => w # r)
    BY DEF RxPush, FifoFull, RxPop, FifoEmpty
<1> DEFINE t == unread'
<1> HIDE DEF pop, push, w, r, v, s, c, d, M, old, new, x, t
<1>10. /\ (w - r) % M = IF w < r THEN w - r + M ELSE w - r
       /\ (w + 1) % M = IF w + 1 = M THEN 0 ELSE w + 1
       /\ (r + 1) % M = IF r + 1 = M THEN 0 ELSE r + 1
    BY ONLY <1>1, <1>2, Between, Successor
<1>11. /\ c = IF w < r THEN w - r + M ELSE w - r
       /\ v = IF push = 1 THEN (IF w + 1 = M THEN 0 ELSE w + 1) ELSE w
       /\ s = IF pop = 1 THEN (IF r + 1 = M THEN 0 ELSE r + 1) ELSE r
    BY <1>6, <1>7, <1>10, Zenon
<1>12. /\ d = c + push - pop
       /\ \A j \in 0 .. c - 1 : push = 1 => (r + j) % Depth # w % Depth
       /\ \A j \in 0 .. Depth - 1 : (s + j) % Depth = (r + pop + j) % Depth
       /\ (r + c) % Depth = w % Depth
       /\ w % Depth \in 0 .. Depth - 1
    <2>1. Moving(Depth, M, w, r, push, pop, c, v, s)
        BY ONLY <1>1, <1>2, <1>9, <1>11 DEF Moving
    <2>2. Placed(Depth, M, w, r, push, pop, c, v, s)
        BY ONLY <2>1, Slots
    <2> QED
        BY ONLY <1>7, <2>2 DEF Placed
<1>13. new \in [0 .. Depth - 1 -> Char]
    BY <1>3, <1>4, <1>5, <1>12
<1>14. pop = 1 => c # 0
    BY <1>1, <1>2, <1>9, <1>11
<1>15. /\ t \in Seq(Char) /\ Len(t) = c - pop + push
       /\ \A i \in 1 .. c - pop : t[i] = unread[i + pop]
       /\ push = 1 => t[c - pop + 1] = x
    <2>1. t = After(unread, pop, x, push)
        BY <1>8 DEF t, After
    <2>2. /\ x \in Char /\ unread \in Seq(Char) /\ pop \in {0, 1} /\ push \in {0, 1}
          /\ pop = 1 => Len(unread) # 0
        BY <1>3, <1>4, <1>9, <1>14
    <2>3. t \in Seq(Char) /\ Advanced(unread, pop, x, push, t)
        BY ONLY <2>1, <2>2, Shifted
    <2>4. Len(unread) = c
        BY <1>4
    <2> QED
        BY ONLY <2>3, <2>4 DEF Advanced
<1>16. ASSUME NEW i \in 1 .. d
       PROVE  t[i] = new[(s + i - 1) % Depth]
    <2>1. /\ i - 1 \in 0 .. Depth - 1 /\ s + (i - 1) = s + i - 1
          /\ r + pop + (i - 1) \in Int
        BY <1>1, <1>2, <1>4, <1>9, <1>12
    <2>2. (s + i - 1) % Depth = (r + pop + (i - 1)) % Depth
        BY ONLY <1>12, <2>1
    <2>3. CASE i <= c - pop
        <3> DEFINE j == pop + (i - 1)
        <3>1. /\ j \in 0 .. c - 1 /\ r + j = r + pop + (i - 1)
              /\ i + pop \in 1 .. c /\ r + (i + pop) - 1 = r + j
            BY <1>2, <1>4, <1>9, <2>3
        <3>2. t[i] = unread[i + pop]
            BY <1>15, <2>3
        <3>3. unread[i + pop] = old[(r + j) % Depth]
            BY <1>4, <3>1
        <3>4. push = 1 => (r + j) % Depth # w % Depth
            BY <1>12, <3>1
        <3>5. (r + j) % Depth \in 0 .. Depth - 1
            <4>1. r + j \in Int
                BY <1>2, <3>1
            <4> HIDE DEF j
            <4> QED
                BY <1>1, <4>1, SMT
        <3> DEFINE k == (r + j) % Depth
        <3>6. new[k] = old[k]
            <4> HIDE DEF k
            <4>1. k \in 0 .. Depth - 1 /\ (push = 1 => k # w % Depth)
                BY <3>4, <3>5 DEF k
            <4> QED
                BY <1>4, <1>5, <4>1
        <3>7. (s + i - 1) % Depth = k
            BY <2>2, <3>1
        <3> QED
            BY <3>2, <3>3, <3>6, <3>7
    <2>4. CASE i > c - pop
        <3>1. push = 1 /\ i = c - pop + 1 /\ r + pop + (i - 1) = r + c
            BY <1>2, <1>4, <1>9, <1>12, <2>4
        <3>2. t[i] = x
            BY <1>15, <3>1
        <3>3. (s + i - 1) % Depth = w % Depth
            BY <1>12, <2>2, <3>1
        <3>4. new[w % Depth] = x
            BY <1>4, <1>5, <1>12, <3>1
        <3> QED
            BY <3>2, <3>3, <3>4
    <2> QED
        BY <1>4, <1>9, <2>3, <2>4
<1>17. /\ Contents' \in Seq(Char) /\ Len(Contents') = d
       /\ \A i \in 1 .. d : Contents'[i] = new[(s + i - 1) % Depth]
    <2>1. Pointers /\ fifo.inbuffer \in [0 .. Depth - 1 -> Char] =>
            /\ FifoCnt \in 0 .. Depth
            /\ Contents \in Seq(Char) /\ Len(Contents) = FifoCnt
            /\ \A i \in 1 .. FifoCnt :
                 Contents[i] = fifo.inbuffer[(fifo.rptr + i - 1) % Depth]
        BY ContentsTyped
    <2>2. (Pointers /\ fifo.inbuffer \in [0 .. Depth - 1 -> Char] =>
            /\ FifoCnt \in 0 .. Depth
            /\ Contents \in Seq(Char) /\ Len(Contents) = FifoCnt
            /\ \A i \in 1 .. FifoCnt :
                 Contents[i] = fifo.inbuffer[(fifo.rptr + i - 1) % Depth])'
        BY ContentsTyped, PTL
    <2> QED
        BY <1>13, <2>2 DEF new, d, s
<1>18. Contents' = t
    <2>1. Len(Contents') = Len(t)
        BY <1>4, <1>9, <1>12, <1>15, <1>17
    <2> DEFINE q == Contents'
    <2> HIDE DEF q
    <2>2. q \in Seq(Char) /\ Len(q) = Len(t) /\ \A i \in 1 .. Len(q) : q[i] = t[i]
        BY <1>16, <1>17, <2>1 DEF q
    <2>3. q = t
        BY <1>15, <2>2, SeqEqual
    <2> QED
        BY <2>3 DEF q
<1> QED
    BY <1>13, <1>18 DEF Stored, new, t

\* The FIFO is a queue of the characters typed and not yet read: the pointer
\* arithmetic modulo twice the depth never loses, repeats or reorders one, for
\* every depth, character width, bit time and meeting of a push with a pop
\* (UART.v:35-46, 217-230).
THEOREM NothingLost == Spec => []FifoHoldsWhatWasTyped
<1> DEFINE Inv == RequestInv /\ RxInv /\ Stored
<1>1. Init => Inv
    BY RequestInit, RxInit, StoredInit
<1>2. Inv /\ [Next]_vars => Inv'
    <2> SUFFICES ASSUME Inv, [Next]_vars PROVE Inv'
        OBVIOUS
    <2>1. RequestInv' /\ RxInv'
        BY RequestStep, RxStep
    <2>2. Stored'
        <3>1. CASE UNCHANGED vars
            BY <3>1 DEF vars, Stored, Contents, FifoCnt
        <3>2. CASE Next
            <4>1. /\ fifo' = Buffer(sdevram, rxack)
                  /\ unread' = (IF RxPop(sdevram) THEN Tail(unread) ELSE unread) \o Accepted
                BY <3>2 DEF Next, Tick
            <4> QED
                BY <2>1, <4>1, StoredTick DEF RequestInv
        <3> QED
            BY <3>1, <3>2
    <2> QED
        BY <2>1, <2>2
<1>3. Inv => FifoHoldsWhatWasTyped
    BY DEF Stored, FifoHoldsWhatWasTyped
<1> QED
    BY <1>1, <1>2, <1>3, PTL DEF Spec

-----------------------------------------------------------------------------
(* A byte being sent.                                                      *)

Sender(req, state, count, bits, level) ==
    [tx_req |-> req, txstate |-> state, txbaudcnt |-> count, txbitcnt |-> bits,
     tx |-> level]

\* The transmitter, state by state.
LEMMA SendSteps ==
    ASSUME TxShape, NEW start, NEW byte, snd' = Send(start, byte)
    PROVE  /\ snd.txstate = 0 /\ ~snd.tx_req =>
                snd' = Sender(TxReq(start), 0, snd.txbaudcnt, snd.txbitcnt, snd.tx)
           /\ snd.txstate = 0 /\ snd.tx_req => snd' = Sender(TxReq(start), 1, 0, 0, 0)
           /\ snd.txstate \in 1 .. 3 /\ ~BitOver =>
                snd' = Sender(TxReq(start), snd.txstate, snd.txbaudcnt + 1,
                              snd.txbitcnt, snd.tx)
           /\ snd.txstate = 1 /\ BitOver =>
                snd' = Sender(TxReq(start), IF LastBit THEN 2 ELSE 1, 0,
                              IF LastBit THEN 0 ELSE snd.txbitcnt + 1, byte[snd.txbitcnt])
           /\ snd.txstate = 2 /\ BitOver =>
                snd' = Sender(TxReq(start), 3, 0, snd.txbitcnt, 1)
           /\ snd.txstate = 3 /\ BitOver =>
                snd' = Sender(TxReq(start), 4, 0, snd.txbitcnt, snd.tx)
           /\ snd.txstate = 4 =>
                snd' = Sender(TxReq(start), 0, snd.txbaudcnt, snd.txbitcnt, snd.tx)
<1> DEFINE s == [snd EXCEPT !.tx_req = TxReq(start)]
<1>1. s = Sender(TxReq(start), snd.txstate, snd.txbaudcnt, snd.txbitcnt, snd.tx)
    BY DEF TxShape, Sender
<1> HIDE DEF s
<1>2. CASE snd.txstate = 0
    <2>1. ~snd.tx_req => snd' = s
        BY <1>2 DEF Send, s
    <2>2. ASSUME snd.tx_req PROVE snd' = Sender(TxReq(start), 1, 0, 0, 0)
        <3>1. snd' = [s EXCEPT !.tx = 0, !.txstate = 1, !.txbitcnt = 0, !.txbaudcnt = 0]
            BY <1>2, <2>2 DEF Send, s
        <3> QED
            BY <1>1, <3>1 DEF Sender
    <2> QED
        BY <1>1, <1>2, <2>1, <2>2
<1>3. ASSUME snd.txstate \in 1 .. 3, ~BitOver
      PROVE  snd' = Sender(TxReq(start), snd.txstate, snd.txbaudcnt + 1,
                           snd.txbitcnt, snd.tx)
    <2>1. snd' = [s EXCEPT !.txbaudcnt = @ + 1]
        BY <1>3 DEF Send, s
    <2> QED
        BY <1>1, <2>1 DEF Sender
<1>4. ASSUME snd.txstate = 1, BitOver
      PROVE  snd' = Sender(TxReq(start), IF LastBit THEN 2 ELSE 1, 0,
                           IF LastBit THEN 0 ELSE snd.txbitcnt + 1, byte[snd.txbitcnt])
    <2>1. snd' = [s EXCEPT !.txbaudcnt = 0, !.tx = byte[snd.txbitcnt],
                           !.txstate = IF LastBit THEN 2 ELSE 1,
                           !.txbitcnt = IF LastBit THEN 0 ELSE @ + 1]
        BY <1>4 DEF Send, s
    <2> QED
        BY <1>1, <2>1 DEF Sender
<1>5. ASSUME NEW state, NEW level,
             snd' = [s EXCEPT !.txbaudcnt = 0, !.txstate = state, !.tx = level]
      PROVE  snd' = Sender(TxReq(start), state, 0, snd.txbitcnt, level)
    BY <1>1, <1>5 DEF Sender
<1>6. ASSUME snd.txstate = 2, BitOver
      PROVE  snd' = Sender(TxReq(start), 3, 0, snd.txbitcnt, 1)
    <2>1. snd' = [s EXCEPT !.txbaudcnt = 0, !.txstate = 3, !.tx = 1]
        BY <1>6 DEF Send, s
    <2> QED
        BY <1>5, <2>1
<1>7. ASSUME snd.txstate = 3, BitOver
      PROVE  snd' = Sender(TxReq(start), 4, 0, snd.txbitcnt, snd.tx)
    <2>1. snd' = [s EXCEPT !.txbaudcnt = 0, !.txstate = 4, !.tx = snd.tx]
        BY <1>7 DEF Send, s
    <2> QED
        BY <1>5, <2>1
<1>8. ASSUME snd.txstate = 4
      PROVE  snd' = Sender(TxReq(start), 0, snd.txbaudcnt, snd.txbitcnt, snd.tx)
    <2>1. snd' = [s EXCEPT !.txstate = 0]
        BY <1>8 DEF Send, s
    <2> QED
        BY <1>1, <2>1 DEF Sender
<1> QED
    BY <1>2, <1>3, <1>4, <1>6, <1>7, <1>8

\* The display u cycles into the k-th bit of a frame.
LEMMA DisplaySteps ==
    ASSUME Display, NEW k \in Nat, NEW u \in 0 .. Period - 1,
           screen.t = k * Period + u
    PROVE  /\ screen'.t = IF screen.t = 0 THEN 1 - snd.tx
                          ELSE IF screen.t = FrameEnd - 1 THEN 0 ELSE screen.t + 1
           /\ dev_start_signal => screen'.right = 0
           /\ ~dev_start_signal /\ u = Period \div 2 /\ k \in 1 .. DataBits
                /\ snd.tx = cpu.byte[k - 1] => screen'.right = screen.right + 1
           /\ ~dev_start_signal /\ ~(u = Period \div 2 /\ k \in 1 .. DataBits)
                => screen'.right = screen.right
<1>1. Period \in Nat \ {0}
    BY Times
<1>2. screen.t \div Period = k /\ screen.t % Period = u
    BY <1>1, Quotient
<1> QED
    BY <1>2 DEF Display

\* The processor around the stall.
LEMMA StallSteps ==
    ASSUME Registers, NEW hold \in BOOLEAN, Processor(hold)
    PROVE  /\ cpu'.pc = "stalled" =>
                cpu.pc = "start" \/ (cpu.pc = "stalled" /\ ~tx_finished)
           /\ cpu'.pc = "resume" =>
                cpu.pc = "resume" \/ (cpu.pc = "stalled" /\ tx_finished)
           /\ cpu.pc = "start" => cpu'.pc = "stalled"
           /\ cpu.pc = "stalled" => cpu'.byte = cpu.byte /\ cpu'.pc \in {"stalled", "resume"}
           /\ cpu.pc = "stalled" /\ ~tx_finished => cpu'.pc = "stalled"
<1>1. ASSUME NEW p PROVE Goto(p) => cpu'.pc = p /\ cpu'.byte = cpu.byte
    BY DEF Registers, Goto
<1>2. CASE UNCHANGED cpu /\ cpu.pc \in Busy
    BY <1>2 DEF Busy
<1>3. CASE cpu.pc = "program" /\ Call
    <2>1. cpu'.pc \in {"wfi", "test"}
        <3>1. PICK n \in 1 .. MaxCount :
                \/ cpu' = [cpu EXCEPT !.pc = "wfi", !.call = "raw"]
                \/ cpu' = [cpu EXCEPT !.pc = "wfi", !.call = "canonical", !.left = n]
                \/ \E c \in Keys :
                     cpu' = [pc |-> "test", call |-> "write", left |-> n, byte |-> c]
            BY <1>3 DEF Call
        <3>2. CASE cpu' = [cpu EXCEPT !.pc = "wfi", !.call = "raw"]
            BY <3>2 DEF Registers
        <3>3. CASE cpu' = [cpu EXCEPT !.pc = "wfi", !.call = "canonical", !.left = n]
            BY <3>3 DEF Registers
        <3>4. CASE \E c \in Keys :
                     cpu' = [pc |-> "test", call |-> "write", left |-> n, byte |-> c]
            BY <3>4
        <3> QED
            BY <3>1, <3>2, <3>3, <3>4
    <2> QED
        BY <1>3, <2>1
<1>4. CASE cpu.pc = "wfi" /\ Goto("asleep")
    BY <1>1, <1>4
<1>5. CASE cpu.pc = "select" /\ Goto("strobe")
    BY <1>1, <1>5
<1>6. CASE cpu.pc = "test" /\ Test
    <2>1. cpu' = InProgram \/ Goto("start")
        BY <1>6 DEF Test
    <2> QED
        BY <1>1, <1>6, <2>1 DEF InProgram
<1>7. CASE cpu.pc = "resume" /\ Resume
    <2>1. cpu.pc = "resume" /\ cpu'.pc # "stalled"
        <3>1. ASSUME NEW p, NEW l, NEW b,
                     cpu' = [cpu EXCEPT !.pc = p, !.left = l, !.byte = b]
              PROVE  cpu'.pc = p
            BY <3>1 DEF Registers
        <3>2. CASE cpu.left = 1
            BY <1>7, <3>2 DEF Resume, InProgram
        <3>3. CASE cpu.left # 1 /\ cpu.call = "canonical"
            <4>1. cpu' = [cpu EXCEPT !.pc = "wfi", !.left = @ - 1, !.byte = Zero]
                BY <1>7, <3>3 DEF Resume
            <4> QED
                BY <1>7, <3>1, <4>1
        <3>4. CASE cpu.left # 1 /\ cpu.call # "canonical"
            <4>1. PICK c \in Keys :
                    cpu' = [cpu EXCEPT !.pc = "test", !.left = @ - 1, !.byte = c]
                BY <1>7, <3>4 DEF Resume
            <4> QED
                BY <1>7, <3>1, <4>1
        <3> QED
            BY <3>2, <3>3, <3>4
    <2> QED
        BY <2>1
<1>8. CASE cpu.pc = "asleep" /\ Asleep
    BY <1>1, <1>8 DEF Asleep
<1>9. CASE cpu.pc = "woken" /\ Woken
    BY <1>1, <1>9 DEF Woken
<1>10. CASE cpu.pc = "strobe" /\ Strobe
    BY <1>10 DEF Registers, Strobe
<1>11. CASE cpu.pc = "start" /\ Goto("stalled")
    BY <1>1, <1>11
<1>12. CASE cpu.pc = "stalled" /\ Stalled
    BY <1>1, <1>12 DEF Stalled
<1> QED
    BY <1>2, <1>3, <1>4, <1>5, <1>6, <1>7, <1>8, <1>9, <1>10, <1>11, <1>12
    DEF Processor

LEMMA TxInit ==
    ASSUME Init
    PROVE  TxInv
BY DEF Init, UartInit, InProgram, TxInv, TxShape, Quiet

LEMMA SenderFields ==
    ASSUME NEW req, NEW state, NEW count, NEW bits, NEW level,
           snd' = Sender(req, state, count, bits, level)
    PROVE  /\ TxShape' /\ snd'.tx_req = req /\ snd'.txstate = state
           /\ snd'.txbaudcnt = count /\ snd'.txbitcnt = bits /\ snd'.tx = level
    BY DEF Sender, TxShape

\* The bits of a frame lie end to end.
LEMMA BitTimes ==
    ASSUME NEW P \in Nat \ {0}, NEW D \in Nat, NEW c \in 0 .. D
    PROVE  /\ c * P \in Nat /\ (c + 1) * P = c * P + P
           /\ c # 0 => c * P >= P
           /\ (D + 1) * P \in Nat /\ (D + 1) * P >= c * P + P
<1>1. c * P \in Nat /\ (c + 1) * P = c * P + P
    BY SMT
<1>2. ASSUME c # 0 PROVE c * P >= P
    <2>1. PICK d \in Nat : c = d + 1
        <3>1. c - 1 \in Nat /\ c = (c - 1) + 1
            BY <1>2
        <3> QED
            BY <3>1
    <2>2. c * P = d * P + P /\ d * P \in Nat
        BY <2>1, SMT
    <2> QED
        BY <2>2
<1>3. (D + 1) * P \in Nat /\ (D + 1) * P >= c * P + P
    <2>1. PICK d \in Nat : D = c + d
        <3>1. D - c \in Nat /\ D = c + (D - c)
            OBVIOUS
        <3> QED
            BY <3>1
    <2>2. (D + 1) * P = c * P + d * P + P /\ d * P \in Nat
        BY <2>1, SMT
    <2> QED
        BY <1>1, <2>2
<1> QED
    BY <1>1, <1>2, <1>3

\* A byte is not being sent, and the store may start it.
LEMMA TxQuiet ==
    ASSUME TxShape, Quiet, Registers, cpu.pc # "stalled",
           cpu.pc = "resume" => screen.right = DataBits,
           NEW hold \in BOOLEAN, Processor(hold), Display,
           snd' = Send(dev_start_signal, cpu.byte)
    PROVE  TxInv'
<1>0. Period \in Nat \ {0} /\ DataBits \in Nat \ {0}
    BY Times, UartAssumption
<1>1. snd' = Sender(TxReq(dev_start_signal), 0, snd.txbaudcnt, snd.txbitcnt, snd.tx)
    BY SendSteps DEF Quiet, dev_start_signal
<1>2. TxShape' /\ snd'.txstate = 0 /\ snd'.tx = 1 /\ (snd'.tx_req <=> dev_start_signal)
    <2>1. TxReq(dev_start_signal) <=> dev_start_signal
        BY DEF Quiet, TxReq
    <2>2. TxShape'
        BY <1>1, SenderFields
    <2>3. snd'.txstate = 0 /\ snd'.tx = snd.tx /\ snd'.tx_req = TxReq(dev_start_signal)
        BY <1>1, SenderFields
    <2> QED
        BY <2>1, <2>2, <2>3 DEF Quiet
<1>3. /\ screen'.t = 0
      /\ dev_start_signal => screen'.right = 0
      /\ ~dev_start_signal => screen'.right = screen.right
    <2>1. screen.t = 0 * Period + 0 /\ 0 \in 0 .. Period - 1 /\ ~(0 \in 1 .. DataBits)
        BY <1>0 DEF Quiet
    <2>2. 0 \in Nat
        OBVIOUS
    <2> QED
        BY <2>1, <2>2, DisplaySteps DEF Quiet
<1>4. CASE cpu.pc = "start"
    <2>1. cpu'.pc = "stalled" /\ dev_start_signal
        BY <1>4, StallSteps DEF dev_start_signal
    <2> QED
        <3>0. /\ snd'.tx_req /\ snd'.txstate = 0 /\ snd'.tx = 1
              /\ screen'.t = 0 /\ screen'.right = 0
            BY <1>2, <1>3, <2>1
        <3>1. TxPlace'
            BY ONLY <3>0 DEF TxPlace
        <3> QED
            BY <1>2, <2>1, <3>1 DEF TxInv
<1>5. CASE cpu.pc # "start"
    <2>1. /\ cpu'.pc # "stalled" /\ ~dev_start_signal
          /\ cpu'.pc = "resume" => cpu.pc = "resume"
        BY <1>5, StallSteps DEF dev_start_signal
    <2> QED
        BY <1>2, <1>3, <2>1 DEF TxInv, Quiet
<1> QED
    BY <1>4, <1>5

\* The frame goes on: a cycle within a bit, and from each bit to the next.
LEMMA TxStalled ==
    ASSUME TxShape, TxPlace, Registers, cpu.pc = "stalled",
           NEW hold \in BOOLEAN, Processor(hold), Display,
           snd' = Send(dev_start_signal, cpu.byte)
    PROVE  TxInv'
<1> DEFINE P == Period
           H == Period \div 2
           u == snd.txbaudcnt
           c == snd.txbitcnt
           x == cpu.byte
<1>0. /\ DataBits \in Nat \ {0} /\ TotalTicks \in Nat \ {0} /\ TotalTicks >= 2
      /\ P \in Nat \ {0} /\ P = TotalTicks + 1
      /\ H \in Nat /\ H < TotalTicks
    <2>1. TotalTicks \in Nat \ {0} /\ TotalTicks >= 2 /\ P \in Nat \ {0} /\ P = TotalTicks + 1
        BY UartAssumption, Times
    <2>2. H \in Nat /\ H < TotalTicks
        BY <2>1, SMT
    <2> QED
        BY <2>1, <2>2, UartAssumption
<1>1. ~dev_start_signal /\ cpu'.byte = x
    BY StallSteps DEF dev_start_signal
<1>2. TxReq(dev_start_signal) <=> snd.tx_req /\ snd.txstate # 1
    BY <1>1 DEF TxReq
<1>3. FrameEnd = (DataBits + 1) * P + TotalTicks
    <2>1. (DataBits + 2) * Period = (DataBits + 1) * Period + Period
        BY <1>0, SMT
    <2>2. (DataBits + 1) * Period \in Nat
        BY <1>0, SMT
    <2> QED
        BY <1>0, <2>1, <2>2 DEF FrameEnd
<1>4. /\ snd.txstate \in 0 .. 4
      /\ snd.txstate # 4 => cpu'.pc = "stalled"
      /\ snd.txstate = 4 => cpu'.pc = "resume"
    BY StallSteps DEF TxPlace, tx_finished
<1>5. CASE snd.txstate = 0
    <2>1. snd.tx_req /\ snd.tx = 1 /\ screen.t = 0 /\ screen.right = 0
        BY <1>5 DEF TxPlace
    <2>2. snd' = Sender(TxReq(dev_start_signal), 1, 0, 0, 0)
        BY <1>1, <1>5, <2>1, SendSteps
    <2>3. screen'.t = 0 /\ screen'.right = 0
        <3>1. screen.t = 0 * Period + 0 /\ 0 \in 0 .. Period - 1 /\ ~(0 \in 1 .. DataBits)
            BY <1>0, <2>1
        <3>2. 0 \in Nat
            OBVIOUS
        <3> QED
            BY <1>1, <2>1, <3>1, <3>2, DisplaySteps
    <2>4. /\ TxShape' /\ snd'.txstate = 1 /\ snd'.tx = 0
          /\ snd'.txbaudcnt = 0 /\ snd'.txbitcnt = 0
        <3>1. TxShape'
            BY <2>2, SenderFields
        <3>2. /\ snd'.tx_req = TxReq(dev_start_signal)
              /\ snd'.txstate = 1
              /\ snd'.txbaudcnt = 0
              /\ snd'.txbitcnt = 0
              /\ snd'.tx = 0
            BY <2>2, SenderFields
        <3> QED
            BY <3>1, <3>2
    <2>5. 0 * Period + 0 = 0 /\ 0 \in 0 .. DataBits - 1 /\ 0 \in 0 .. TotalTicks
        BY <1>0
    <2>6. TxPlace'
        BY <2>3, <2>4, <2>5 DEF TxPlace, Shown
    <2> QED
        BY <1>4, <1>5, <2>4, <2>6 DEF TxInv
<1>6. CASE snd.txstate = 1
    <2>0. /\ c \in 0 .. DataBits /\ c \in Nat /\ u \in 0 .. Period - 1
          /\ c # 0 <=> c \in 1 .. DataBits
          /\ c + 1 # 0 /\ c + 1 - 1 = c /\ 0 \in 0 .. TotalTicks
          /\ u # TotalTicks => u + 1 \in 0 .. TotalTicks
          /\ c # DataBits - 1 => c + 1 \in 0 .. DataBits - 1
          /\ c = DataBits - 1 => c + 1 = DataBits
        <3>1. c \in 0 .. DataBits - 1 /\ u \in 0 .. TotalTicks /\ P = Period
            BY <1>6 DEF TxPlace
        <3> HIDE DEF c, u, P
        <3> QED
            BY <1>0, <3>1
    <2>1. /\ c \in 0 .. DataBits - 1 /\ u \in 0 .. TotalTicks
          /\ snd.tx = IF c = 0 THEN 0 ELSE x[c - 1]
          /\ screen.t = c * P + u /\ screen.right = Shown(c, u)
        BY <1>6 DEF TxPlace
    <2>2. screen'.t = c * P + u + 1
        <3>1. /\ c * P \in Nat /\ (c # 0 => c * P >= P)
              /\ (DataBits + 1) * P \in Nat /\ (DataBits + 1) * P >= c * P + P
            BY <1>0, <2>0, <2>1, BitTimes
        <3>2. screen.t = 0 => snd.tx = 0
            BY <1>0, <2>1, <3>1
        <3>3. screen.t # FrameEnd - 1
            BY <1>0, <1>3, <2>1, <3>1
        <3>4. screen'.t = IF screen.t = 0 THEN 1 - snd.tx
                          ELSE IF screen.t = FrameEnd - 1 THEN 0 ELSE screen.t + 1
            BY <2>0, <2>1, DisplaySteps
        <3> QED
            BY <2>1, <3>1, <3>2, <3>3, <3>4
    <2>3. screen'.right = Shown(c, u + 1)
        <3>1. CASE c = 0
            <4>1. screen'.right = screen.right
                BY <1>1, <2>0, <2>1, <3>1, DisplaySteps
            <4> QED
                BY <2>1, <3>1, <4>1 DEF Shown
        <3>2. CASE c # 0 /\ u = H
            <4>1. c \in Nat /\ c \in 1 .. DataBits /\ snd.tx = x[c - 1]
                BY <1>0, <2>1, <3>2
            <4>2. u \in 0 .. Period - 1
                BY <1>0, <2>1
            <4>3. screen'.right = screen.right + 1
                BY <1>1, <2>1, <3>2, <4>1, <4>2, DisplaySteps
            <4> QED
                BY <1>0, <2>1, <3>2, <4>1, <4>3 DEF Shown
        <3>3. CASE c # 0 /\ u # H
            <4>1. screen'.right = screen.right
                BY <1>1, <2>0, <2>1, <3>3, DisplaySteps
            <4>2. u + 1 > H <=> u > H
                BY <1>0, <2>1, <3>3
            <4> QED
                BY <2>1, <4>1, <4>2 DEF Shown
        <3> QED
            BY <3>1, <3>2, <3>3
    <2>4. CASE ~BitOver
        <3>1. snd' = Sender(TxReq(dev_start_signal), 1, u + 1, c, snd.tx)
            BY <1>1, <1>6, <2>4, SendSteps
        <3>2. /\ TxShape' /\ snd'.txstate = 1 /\ snd'.tx = snd.tx
              /\ snd'.txbaudcnt = u + 1 /\ snd'.txbitcnt = c
            <4>1. TxShape'
                BY <3>1, SenderFields
            <4>2. /\ snd'.tx_req = TxReq(dev_start_signal)
                  /\ snd'.txstate = 1
                  /\ snd'.txbaudcnt = u + 1
                  /\ snd'.txbitcnt = c
                  /\ snd'.tx = snd.tx
                BY <3>1, SenderFields
            <4> QED
                BY <4>1, <4>2
        <3>3. u + 1 \in 0 .. TotalTicks
            BY <2>0, <2>4 DEF BitOver
        <3>4. screen'.t = c * P + (u + 1)
            <4>1. c * P \in Int
                BY <1>0, <2>1, SMT
            <4> QED
                BY <2>1, <2>2, <4>1
        <3>5. TxPlace'
            BY <1>1, <2>1, <2>3, <3>2, <3>3, <3>4 DEF TxPlace, Shown, Period
        <3> QED
            BY <1>4, <1>6, <3>2, <3>5 DEF TxInv
    <2>5. CASE BitOver
        <3>1. snd' = Sender(TxReq(dev_start_signal), IF LastBit THEN 2 ELSE 1, 0,
                            IF LastBit THEN 0 ELSE c + 1, x[c])
            BY <1>1, <1>6, <2>5, SendSteps
        <3>2. /\ TxShape' /\ snd'.txstate = (IF LastBit THEN 2 ELSE 1) /\ snd'.tx = x[c]
              /\ snd'.txbaudcnt = 0 /\ snd'.txbitcnt = (IF LastBit THEN 0 ELSE c + 1)
              /\ ~snd'.tx_req
            <4>1. TxShape'
                BY <3>1, SenderFields
            <4>2. /\ snd'.tx_req = TxReq(dev_start_signal)
                  /\ snd'.txstate = (IF LastBit THEN 2 ELSE 1)
                  /\ snd'.txbaudcnt = 0
                  /\ snd'.txbitcnt = (IF LastBit THEN 0 ELSE c + 1)
                  /\ snd'.tx = x[c]
                BY <3>1, SenderFields
            <4> QED
                BY <1>2, <1>6, <4>1, <4>2
        <3>3. u = TotalTicks
            BY <2>5 DEF BitOver
        <3>4. screen'.t = (c + 1) * P + 0
            <4>1. (c + 1) * P = c * P + P /\ c * P \in Nat
                BY <1>0, <2>1, SMT
            <4> QED
                BY <1>0, <2>2, <3>3, <4>1
        <3>5. screen'.right = Shown(c + 1, 0)
            BY <1>0, <2>1, <2>3, <3>3 DEF Shown
        <3>6. 0 \in 0 .. TotalTicks /\ c + 1 # 0 /\ c + 1 - 1 = c
            BY <2>0
        <3>7. CASE LastBit
            <4>1. c + 1 = DataBits /\ c = DataBits - 1
                BY <1>0, <2>1, <3>7 DEF LastBit
            <4>2. TxPlace'
                BY <1>1, <3>2, <3>4, <3>5, <3>6, <3>7, <4>1 DEF TxPlace, Shown, Period
            <4> QED
                BY <1>4, <1>6, <3>2, <4>2 DEF TxInv
        <3>8. CASE ~LastBit
            <4>1. c + 1 \in 0 .. DataBits - 1
                BY <2>0, <3>8 DEF LastBit
            <4> DEFINE d == c + 1
            <4>2. /\ snd'.txstate = 1 /\ snd'.txbitcnt = d /\ snd'.txbaudcnt = 0
                  /\ d \in 0 .. DataBits - 1 /\ 0 \in 0 .. TotalTicks
                  /\ screen'.t = d * P + 0 /\ screen'.right = Shown(d, 0)
                BY <3>2, <3>4, <3>5, <3>6, <3>8, <4>1
            <4>3. snd'.tx = IF d = 0 THEN 0 ELSE cpu'.byte[d - 1]
                <5>0. c \in Nat
                    BY <2>0
                <5> HIDE DEF c
                <5>1. d # 0 /\ d - 1 = c
                    BY <5>0
                <5> HIDE DEF d
                <5>2. snd'.tx = x[c] /\ cpu'.byte = x
                    BY <1>1, <3>2
                <5> QED
                    BY <5>1, <5>2
            <4> HIDE DEF d
            <4>4. TxPlace'
                BY <4>2, <4>3 DEF TxPlace, Shown, Period
            <4> QED
                BY <1>4, <1>6, <3>2, <4>4 DEF TxInv
        <3> QED
            BY <3>7, <3>8
    <2> QED
        BY <2>4, <2>5
<1>7. CASE snd.txstate = 2
    <2>1. /\ u \in 0 .. TotalTicks /\ snd.tx = x[DataBits - 1] /\ ~snd.tx_req
          /\ screen.t = DataBits * P + u /\ screen.right = Shown(DataBits, u)
        BY <1>7 DEF TxPlace
    <2>2. /\ DataBits * P \in Nat /\ DataBits * P >= P
          /\ (DataBits + 1) * P = DataBits * P + P
        <3>1. /\ DataBits * P \in Nat /\ (DataBits + 1) * P = DataBits * P + P
              /\ DataBits * P = (DataBits - 1) * P + P /\ (DataBits - 1) * P \in Nat
            <4>1. DataBits - 1 \in Nat
                BY <1>0
            <4> QED
                BY <1>0, <4>1, SMT
        <3> QED
            BY <1>0, <3>1
    <2>3. screen'.t = DataBits * P + u + 1
        <3>1. screen.t # 0 /\ screen.t # FrameEnd - 1
            BY <1>0, <1>3, <2>1, <2>2
        <3>2. DataBits \in Nat /\ u \in 0 .. Period - 1 /\ screen.t = DataBits * Period + u
            BY <1>0, <2>1
        <3>3. screen'.t = IF screen.t = 0 THEN 1 - snd.tx
                          ELSE IF screen.t = FrameEnd - 1 THEN 0 ELSE screen.t + 1
            BY <3>2, DisplaySteps
        <3> QED
            BY <2>1, <3>1, <3>3
    <2>4. screen'.right = Shown(DataBits, u + 1)
        <3>1. DataBits \in Nat /\ DataBits \in 1 .. DataBits /\ u \in 0 .. Period - 1
            BY <1>0, <2>1
        <3>2. CASE u = H
            <4>1. screen'.right = screen.right + 1
                BY <1>1, <2>1, <3>1, <3>2, DisplaySteps
            <4> QED
                BY <1>0, <2>1, <3>2, <4>1 DEF Shown
        <3>3. CASE u # H
            <4>1. screen'.right = screen.right
                BY <1>1, <2>1, <3>1, <3>3, DisplaySteps
            <4>2. u + 1 > H <=> u > H
                BY <1>0, <2>1, <3>3
            <4> QED
                BY <2>1, <4>1, <4>2 DEF Shown
        <3> QED
            BY <3>2, <3>3
    <2>5. CASE ~BitOver
        <3>1. snd' = Sender(TxReq(dev_start_signal), 2, u + 1, c, snd.tx)
            BY <1>1, <1>7, <2>5, SendSteps
        <3>2. /\ TxShape' /\ snd'.txstate = 2 /\ snd'.tx = snd.tx
              /\ snd'.txbaudcnt = u + 1 /\ ~snd'.tx_req
            <4>1. TxShape'
                BY <3>1, SenderFields
            <4>2. /\ snd'.tx_req = TxReq(dev_start_signal)
                  /\ snd'.txstate = 2
                  /\ snd'.txbaudcnt = u + 1
                  /\ snd'.txbitcnt = c
                  /\ snd'.tx = snd.tx
                BY <3>1, SenderFields
            <4> QED
                BY <1>2, <2>1, <4>1, <4>2
        <3>3. u + 1 \in 0 .. TotalTicks /\ screen'.t = DataBits * P + (u + 1)
            BY <1>0, <2>1, <2>2, <2>3, <2>5 DEF BitOver
        <3>4. TxPlace'
            BY <1>1, <2>1, <2>4, <3>2, <3>3 DEF TxPlace, Shown, Period
        <3> QED
            BY <1>4, <1>7, <3>2, <3>4 DEF TxInv
    <2>6. CASE BitOver
        <3>1. snd' = Sender(TxReq(dev_start_signal), 3, 0, c, 1)
            BY <1>1, <1>7, <2>6, SendSteps
        <3>2. /\ TxShape' /\ snd'.txstate = 3 /\ snd'.tx = 1
              /\ snd'.txbaudcnt = 0 /\ ~snd'.tx_req
            <4>1. TxShape'
                BY <3>1, SenderFields
            <4>2. /\ snd'.tx_req = TxReq(dev_start_signal)
                  /\ snd'.txstate = 3
                  /\ snd'.txbaudcnt = 0
                  /\ snd'.txbitcnt = c
                  /\ snd'.tx = 1
                BY <3>1, SenderFields
            <4> QED
                BY <1>2, <2>1, <4>1, <4>2
        <3>3. /\ u = TotalTicks /\ 0 \in 0 .. TotalTicks /\ 0 # TotalTicks
              /\ screen'.t = (DataBits + 1) * P + 0
            BY <1>0, <2>2, <2>3, <2>6 DEF BitOver
        <3>4. screen'.right = DataBits
            BY <1>0, <2>4, <3>3 DEF Shown
        <3>5. TxPlace'
            BY <3>2, <3>3, <3>4 DEF TxPlace, Period
        <3> QED
            BY <1>4, <1>7, <3>2, <3>5 DEF TxInv
    <2> QED
        BY <2>5, <2>6
<1>8. CASE snd.txstate = 3
    <2>1. /\ u \in 0 .. TotalTicks /\ snd.tx = 1 /\ screen.right = DataBits /\ ~snd.tx_req
          /\ screen.t = IF u = TotalTicks THEN 0 ELSE (DataBits + 1) * P + u
        BY <1>8 DEF TxPlace
    <2>2. (DataBits + 1) * P \in Nat /\ (DataBits + 1) * P > 0
        <3>1. (DataBits + 1) * P = DataBits * P + P /\ DataBits * P \in Nat
            BY <1>0, SMT
        <3> QED
            BY <1>0, <3>1
    <2>3. CASE ~BitOver
        <3>1. snd' = Sender(TxReq(dev_start_signal), 3, u + 1, c, snd.tx)
            BY <1>1, <1>8, <2>3, SendSteps
        <3>2. /\ TxShape' /\ snd'.txstate = 3 /\ snd'.tx = 1
              /\ snd'.txbaudcnt = u + 1 /\ ~snd'.tx_req
            <4>1. TxShape'
                BY <3>1, SenderFields
            <4>2. /\ snd'.tx_req = TxReq(dev_start_signal)
                  /\ snd'.txstate = 3
                  /\ snd'.txbaudcnt = u + 1
                  /\ snd'.txbitcnt = c
                  /\ snd'.tx = snd.tx
                BY <3>1, SenderFields
            <4> QED
                BY <1>2, <2>1, <4>1, <4>2
        <3>3. u # TotalTicks /\ u + 1 \in 0 .. TotalTicks /\ screen.t = (DataBits + 1) * P + u
            BY <1>0, <2>1, <2>3 DEF BitOver
        <3>4. /\ DataBits + 1 \in Nat /\ ~(DataBits + 1 \in 1 .. DataBits)
              /\ u \in 0 .. Period - 1
            BY <1>0, <2>1
        <3>5. /\ screen'.t = (IF screen.t = 0 THEN 1 - snd.tx
                              ELSE IF screen.t = FrameEnd - 1 THEN 0 ELSE screen.t + 1)
              /\ screen'.right = screen.right
            BY <1>1, <3>3, <3>4, DisplaySteps
        <3>6. screen'.t = IF u + 1 = TotalTicks THEN 0 ELSE (DataBits + 1) * P + (u + 1)
            <4> DEFINE q == (DataBits + 1) * P
            <4>1. /\ q \in Nat /\ q > 0 /\ u \in 0 .. TotalTicks /\ u # TotalTicks
                  /\ screen.t = q + u /\ FrameEnd = q + TotalTicks /\ TotalTicks \in Nat
                BY <1>0, <1>3, <2>1, <2>2, <3>3
            <4> HIDE DEF q, u
            <4>2. /\ screen.t # 0 /\ (screen.t = FrameEnd - 1 <=> u + 1 = TotalTicks)
                  /\ screen.t + 1 = q + (u + 1)
                BY ONLY <4>1
            <4> QED
                BY ONLY <3>5, <4>2 DEF q
        <3>7. TxPlace'
            BY <2>1, <3>2, <3>3, <3>5, <3>6 DEF TxPlace, Period
        <3> QED
            BY <1>4, <1>8, <3>2, <3>7 DEF TxInv
    <2>4. CASE BitOver
        <3>1. snd' = Sender(TxReq(dev_start_signal), 4, 0, c, snd.tx)
            BY <1>1, <1>8, <2>4, SendSteps
        <3>2. TxShape' /\ snd'.txstate = 4 /\ snd'.tx = 1 /\ ~snd'.tx_req
            <4>1. TxShape'
                BY <3>1, SenderFields
            <4>2. /\ snd'.tx_req = TxReq(dev_start_signal)
                  /\ snd'.txstate = 4
                  /\ snd'.txbaudcnt = 0
                  /\ snd'.txbitcnt = c
                  /\ snd'.tx = snd.tx
                BY <3>1, SenderFields
            <4> QED
                BY <1>2, <2>1, <4>1, <4>2
        <3>3. screen.t = 0 /\ screen.t = 0 * Period + 0
            BY <1>0, <2>1, <2>4 DEF BitOver
        <3>4. 0 \in Nat /\ 0 \in 0 .. Period - 1 /\ ~(0 \in 1 .. DataBits)
            BY <1>0
        <3>5. screen'.t = 0 /\ screen'.right = DataBits
            BY <1>1, <2>1, <3>3, <3>4, DisplaySteps
        <3>6. TxPlace'
            BY <3>2, <3>5 DEF TxPlace
        <3> QED
            BY <1>4, <1>8, <3>2, <3>6 DEF TxInv
    <2> QED
        BY <2>3, <2>4
<1>9. CASE snd.txstate = 4
    <2>1. snd.tx = 1 /\ screen.t = 0 /\ screen.right = DataBits /\ ~snd.tx_req
        BY <1>9 DEF TxPlace
    <2>2. snd' = Sender(TxReq(dev_start_signal), 0, u, c, snd.tx)
        BY <1>1, <1>9, SendSteps
    <2>3. TxShape' /\ snd'.txstate = 0 /\ snd'.tx = 1 /\ ~snd'.tx_req
        <3>1. TxShape'
            BY <2>2, SenderFields
        <3>2. /\ snd'.tx_req = TxReq(dev_start_signal)
              /\ snd'.txstate = 0
              /\ snd'.txbaudcnt = u
              /\ snd'.txbitcnt = c
              /\ snd'.tx = snd.tx
            BY <2>2, SenderFields
        <3> QED
            BY <1>2, <2>1, <3>1, <3>2
    <2>4. /\ screen.t = 0 * Period + 0
          /\ 0 \in Nat /\ 0 \in 0 .. Period - 1 /\ ~(0 \in 1 .. DataBits)
        BY <1>0, <2>1
    <2>5. screen'.t = 0 /\ screen'.right = DataBits
        BY <1>1, <2>1, <2>4, DisplaySteps
    <2> QED
        BY <1>4, <1>9, <2>3, <2>5 DEF TxInv, Quiet
<1> QED
    BY <1>4, <1>5, <1>6, <1>7, <1>8, <1>9

LEMMA TxStep ==
    ASSUME RequestInv, TxInv, [Next]_vars
    PROVE  TxInv'
<1>1. CASE UNCHANGED vars
    BY <1>1 DEF vars, TxInv, TxShape, TxPlace, Quiet, Shown
<1>2. CASE Next
    <2>1. PICK hold \in BOOLEAN : \E press \in BOOLEAN : Tick(hold, press)
        BY <1>2 DEF Next
    <2>2. Processor(hold) /\ Display /\ snd' = Send(dev_start_signal, cpu.byte)
        BY <2>1 DEF Tick
    <2>3. Registers
        BY DEF RequestInv
    <2>4. cpu.pc # "stalled" => TxInv'
        BY <2>2, <2>3, TxQuiet DEF TxInv
    <2>5. cpu.pc = "stalled" => TxInv'
        BY <2>2, <2>3, TxStalled DEF TxInv
    <2> QED
        BY <2>4, <2>5
<1> QED
    BY <1>1, <1>2

\* The store is over when the frame is, and the frame carried the byte: for every
\* width and bit time the display has had each data bit, sampled in its middle,
\* when the stall ends, and the line is idle for the next (UART.v:133-190).
THEOREM ByteSent == Spec => []SentWhenResumed
<1> DEFINE Inv == RequestInv /\ TxInv
<1>1. Init => Inv
    BY RequestInit, TxInit
<1>2. Inv /\ [Next]_vars => Inv'
    BY RequestStep, TxStep
<1>3. Inv => SentWhenResumed
    BY DEF TxInv, Quiet, SentWhenResumed
<1> QED
    BY <1>1, <1>2, <1>3, PTL DEF Spec
=============================================================================
