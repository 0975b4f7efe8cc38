-------------------------------- MODULE Basic --------------------------------
(***************************************************************************)
(* The TinyBasicLike interpreter (loop and its helpers in                   *)
(* src/TinyBasicLike/TinyBasicLike.c, the target in target_riscv.c): the    *)
(* program in memory and the shuffling that edits it, statements, the       *)
(* stack of FOR and GOSUB frames, INPUT, SAVE and LOAD.                     *)
(*                                                                         *)
(* An address counts the cells from t_program on; the text being typed      *)
(* stands two cells behind the program.  One step is one line read, one     *)
(* question answered or one statement executed.  In mode "wild" the code    *)
(* has written where it must not, in mode "stale" it would execute what     *)
(* is no text any more; the model stops there.                              *)
(***************************************************************************)
EXTENDS BasicExpr, FiniteSets, SequencesExt

CONSTANTS
  Byte,          \* the values of a byte (256); a LINENUM has two
  VarsBegin,     \* the address of the variables: the end of the program space
  StackUnits,    \* STACK_SIZE in words (32)
  Slack,         \* the words of the variables' space no variable uses (68)
  InputVars,     \* the entries of INPUT's table (20)
  Typed,         \* the lines that may be typed, without their NL
  Files,         \* what the file may hold at the start: NoFile or cells
  Programs,      \* the lines typed before the start
  Strays,        \* what memory outside the variables may read as
  MaxTyped       \* bound: lines typed in a behaviour

ASSUME BasicConstants ==
  /\ {Byte, VarsBegin, StackUnits, Slack, InputVars, MaxTyped} \subseteq Nat
  /\ Byte > 10 /\ VarsBegin > 8

NoLine == -1
NoFile == <<"no file">>
FileWord == "\"f\""                       \* a file name in quotes
BEYOND_VALID_LINENUM == Byte * Byte - 1
Unlocked == <<BEYOND_VALID_LINENUM, BEYOND_VALID_LINENUM>>

VARIABLES
  prog,          \* the cells from program_start to program_end
  buf,           \* the text behind the program, its NL included
  lock,          \* <<lockrangestart, lockrangeend>>
  ctl,           \* [mode, cur, pos, stack]: current_line, txtpos, the frames; and a
                 \* ghost, edited: the program changed since the last warm start
  want,          \* INPUT: the addresses and how many have their value
  err,           \* expression_error is set
  mem, ports,    \* the variables' cells, the ports
  file, load,    \* the file, and what is still to be read of it
  typed          \* lines typed so far (bounded by MaxTyped)

data == <<mem, ports>>
store == <<file, load>>
vars == <<prog, buf, lock, ctl, want, err, data, store, typed>>

-----------------------------------------------------------------------------
(* The program: a chain of lines of [low byte, high byte, length, text, NL] *)

LineNum(p, a) == p[a + 1] + Byte * p[a + 2]
LineLen(p, a) == p[a + 3]
TextOf(p, a) == SubSeq(p, a + 4, a + LineLen(p, a) - 1)
Starts(p) ==
  LET from[a \in Nat] == IF a >= Len(p) THEN {} ELSE {a} \union from[a + LineLen(p, a)]
  IN from[0]

(* The first line whose number is not below n, or the program's end.        *)
findlineAfter(p, n) ==
  LET from[a \in Nat] ==
        IF a = Len(p) \/ LineNum(p, a) > n THEN a ELSE from[a + LineLen(p, a)]
  IN from[0]
findline(p, n) ==
  LET from[a \in Nat] ==
        IF a = Len(p) \/ LineNum(p, a) >= n THEN a ELSE from[a + LineLen(p, a)]
  IN from[0]

Listing(p) ==
  [n \in {LineNum(p, a) : a \in Starts(p)} |->
     TextOf(p, CHOOSE a \in Starts(p) : LineNum(p, a) = n)]

(* Deleting a line moves what follows it down.                              *)
Closed(m) ==
  LET gap == m.cells[m.start + 2]
  IN [m EXCEPT !.end = @ - gap,
               !.cells = [a \in DOMAIN @ |->
                            IF a >= m.start /\ a < m.end - gap THEN @[a + gap] ELSE @[a]]]

(* One shuffle of an insertion: as much of the new line as the free space   *)
(* before it holds goes in, what follows moving up first.                   *)
Shuffle(m) ==
  LET space == IF m.txt - m.end > m.left THEN m.left ELSE m.txt - m.end
      up == [a \in DOMAIN m.cells |-> IF a >= m.start + space /\ a < m.end + space
                                        THEN m.cells[a - space] ELSE m.cells[a]]
  IN IF m.left = 0 THEN m
     ELSE [cells |-> [a \in DOMAIN up |-> IF a >= m.start /\ a < m.start + space
                                            THEN up[m.txt + a - m.start] ELSE up[a]],
           start |-> m.start + space, end |-> m.end + space,
           txt |-> m.txt + space, left |-> m.left - space]

(* The program after line n with this text (its NL included) has been typed: *)
(* the line waits at the end of the program space, a header before it.      *)
Merged(p, n, text) ==
  LET len == Len(text) + 3
      line == <<n % Byte, n \div Byte, len>> \o text
      start == findline(p, n)
      m == [cells |-> [a \in 0 .. VarsBegin - 1 |->
                         IF a >= VarsBegin - len THEN line[a - VarsBegin + len + 1]
                         ELSE IF a < Len(p) THEN p[a + 1] ELSE "junk"],
            start |-> start, end |-> Len(p), txt |-> VarsBegin - len, left |-> len]
      open == IF start # Len(p) /\ LineNum(p, start) = n THEN Closed(m) ELSE m
      after[k \in 0 .. len] == IF k = 0 THEN open ELSE Shuffle(after[k - 1])
      done == IF text = <<NL>> THEN open ELSE after[len]
  IN [i \in 1 .. done.end |-> done.cells[i - 1]]

(* getln: what of a line fits, the last cell being kept for the shuffling.  *)
(* The limit is tested by equality, so that it never holds when the text    *)
(* begins behind it: the line then runs into the variables.                 *)
Kept(p, line) ==
  LET room == VarsBegin - 2 - (Len(p) + 2)
  IN IF room >= 0 /\ Len(line) > room THEN SubSeq(line, 1, room) ELSE line
Overruns(p, line) == Len(p) + 2 + Len(Kept(p, line)) >= VarsBegin

(* The line being executed and the texts a position may stand in.           *)
Text == [a \in 0 .. 2 * VarsBegin |->
           IF a < Len(prog) THEN prog[a + 1]
           ELSE IF a - Len(prog) - 2 \in 0 .. Len(buf) - 1 THEN buf[a - Len(prog) - 1]
           ELSE "junk"]
Readable(a) ==
  \/ a - Len(prog) - 2 \in 0 .. Len(buf) - 1
  \/ \E s \in Starts(prog) : a >= s + 3 /\ a < s + LineLen(prog, s)

-----------------------------------------------------------------------------
(* Where control goes: the labels of loop *)

(* A frame of a FOR is 5 words, one of a GOSUB 3; RETURN takes 3 words off  *)
(* the stack whatever lies there, which can leave 2 words of a FOR.         *)
Words(f) == CASE f.kind = "for" -> 5 [] f.kind = "gosub" -> 3 [] OTHER -> 2
Used(stack) == FoldLeft(LAMBDA n, f : n + Words(f), 0, stack)
Torn == [kind |-> "torn"]
(* The test adds the frame's size where it should subtract it.              *)
FullNever(stack, words) == FALSE
Full(stack, words) == Used(stack) > StackUnits + words

Prompt(c) == [c EXCEPT !.mode = "prompt"]
Warm == [mode |-> "prompt", cur |-> NoLine, pos |-> 0, stack |-> <<>>, edited |-> FALSE]
Ends(mode) == [ctl EXCEPT !.mode = mode]

execline(c, a) ==
  IF a = Len(prog) THEN Warm
  ELSE IF a \notin Starts(prog) THEN Ends("stale")
  ELSE [c EXCEPT !.mode = "run", !.cur = a, !.pos = a + 3]
execnextlineText(c) ==
  IF c.cur = NoLine THEN Prompt(c)
  ELSE IF c.cur \notin Starts(prog) THEN Ends("stale")
  ELSE execline(c, c.cur + LineLen(prog, c.cur) - 3)
execnextline(c) ==
  IF c.cur = NoLine THEN Prompt(c)
  ELSE IF c.cur \notin Starts(prog) THEN Ends("stale")
  ELSE execline(c, c.cur + LineLen(prog, c.cur))
run_next_statement(c, p) ==
  LET q == IF Text[p] = ":" THEN p + 1 ELSE p
  IN IF ~Readable(p) THEN Ends("stale")
     ELSE IF Text[q] = NL THEN execnextline(c)
     ELSE [c EXCEPT !.mode = "run", !.pos = q]

Here == IF ctl.cur = NoLine THEN -1 ELSE LineNum(prog, ctl.cur)
Env(stray) == [mem |-> mem, ports |-> ports, here |-> Here, stray |-> stray]
(* What is read as an expression at each position, the variables being m.    *)
Memories == [DOMAIN mem -> Int]
Values(stray) ==
  [m \in Memories |->
     LET read == Parse(Text, [Env(stray) EXCEPT !.mem = m]) IN [p \in Nat |-> read["expression", p, 0]]]
EndOfStatement(p) == Text[p] \in {NL, ":"}

(* CalcAddressOfVariable does nothing while expression_error is still set   *)
(* from an earlier statement: -1 is its null pointer.                       *)
Addresses(stray) ==
  LET read == Parse(Text, Env(stray))
  IN [p \in Nat |->
        LET r == read["address", p, 0]
        IN IF err THEN [value |-> -1, at |-> p, ok |-> TRUE]
           ELSE IF r.ok THEN r ELSE [r EXCEPT !.value = -1]]

At(words) == ctl.mode = "run" /\ Text[ctl.pos] \in words
Arg == ctl.pos + 1

-----------------------------------------------------------------------------
(* Lines *)

(* A line is read from the stream: a file's last line may lack its NL.      *)
FirstLine(chars) ==
  LET ends == {i \in 1 .. Len(chars) : chars[i] = NL}
      e == IF ends = {} THEN Len(chars) + 1 ELSE CHOOSE i \in ends : \A j \in ends : i <= j
  IN [line |-> SubSeq(chars, 1, e - 1), rest |-> SubSeq(chars, e + 1, Len(chars)),
      last |-> ends = {}]

ignore_blanks(text, from) == CHOOSE p \in from .. Len(text) :
                              text[p] # " " /\ \A q \in from .. p - 1 : text[q] = " "

Idle == [on |-> FALSE, chars |-> <<>>, base |-> <<>>, lost |-> FALSE]

ReadLine(line) ==
  \/ /\ load.on
     /\ line = FirstLine(load.chars).line
     /\ load' = IF FirstLine(load.chars).last THEN Idle
                ELSE [load EXCEPT !.chars = FirstLine(@).rest, !.lost = @ \/ Kept(prog, line) # line]
     /\ UNCHANGED typed
  \/ /\ ~load.on /\ typed < MaxTyped
     /\ line \in Typed
     /\ typed' = typed + 1 /\ UNCHANGED load

(* What is typed lies over what was: an INPUT or a FOR typed directly looks *)
(* behind the new text, where the copy that every command leaves at the end *)
(* of the program space may lie too.  Where an edit left its text, something *)
(* else stands.                                                             *)
Remembered ==
  \/ ctl.mode = "input" /\ ctl.cur = NoLine
  \/ \E i \in 1 .. Len(ctl.stack) : ctl.stack[i].kind # "torn" /\ ctl.stack[i].pos >= Len(prog)
Over(text) ==
  LET copied(i) == Len(prog) + 1 + i - (VarsBegin - Len(text)) + 1
      was == [i \in 1 .. Len(buf) |-> IF ctl.mode = "prompt" /\ copied(i) \in 1 .. Len(text)
                                         THEN text[copied(i)] ELSE buf[i]]
  IN IF Remembered THEN text \o SubSeq(was, Len(text) + 1, Len(was)) ELSE text
Forgotten(stack) ==
  [i \in 1 .. Len(stack) |->
     IF stack[i].kind # "torn" /\ stack[i].pos >= Len(prog) THEN [stack[i] EXCEPT !.pos = -1]
                                                            ELSE stack[i]]

(* A line that starts with a number edits the program, unless it is locked; *)
(* the number is cut to 16 bits.  Any other line is executed at once.       *)
TakeLine ==
  /\ ctl.mode = "prompt"
  /\ \E line \in Typed \union {FirstLine(load.chars).line} :
       LET text == Append(Kept(prog, line), NL)
           number == testnum(text, 1)
           n == number.value % (Byte * Byte)
           rest == SubSeq(text, ignore_blanks(text, number.at), Len(text))
       IN /\ ReadLine(line)
          /\ IF Overruns(prog, line)
               THEN ctl' = Ends("wild") /\ UNCHANGED <<prog, buf>>
             ELSE IF n = 0 \/ n = BEYOND_VALID_LINENUM \/ (n >= lock[1] /\ n <= lock[2])
               THEN /\ buf' = Over(text)
                    /\ ctl' = IF n > 0 \/ text = <<NL>> THEN ctl
                              ELSE [ctl EXCEPT !.mode = "run", !.pos = Len(prog) + 2]
                    /\ UNCHANGED prog
             ELSE IF Len(rest) + 3 >= Byte
               THEN ctl' = Ends("wild") /\ UNCHANGED <<prog, buf>>
             ELSE /\ buf' = text
                  /\ prog' = Merged(prog, n, rest)
                  /\ ctl' = [ctl EXCEPT !.edited = TRUE, !.stack = Forgotten(@)]
  /\ UNCHANGED <<lock, want, err, data, file>>

(* AreYouSure.                                                              *)
AnswerMerging(yes) ==
  /\ ctl.mode \in {"new?", "load?", "bye?", "exit?"}
  /\ prog' = IF yes /\ ctl.mode # "load?" THEN <<>> ELSE prog
  /\ lock' = IF yes /\ ctl.mode # "load?" THEN Unlocked ELSE lock
  /\ load' = IF yes /\ ctl.mode = "load?"
               THEN [Idle EXCEPT !.on = TRUE, !.chars = file] ELSE load
  /\ ctl' = CASE ctl.mode = "new?" ->
                     [ctl EXCEPT !.mode = "prompt", !.edited = @ \/ yes,
                                 !.stack = IF yes THEN Forgotten(@) ELSE @]
              [] ctl.mode \in {"load?", "bye?"} /\ (yes \/ ctl.mode = "load?") -> Warm
              [] yes -> Ends("off")
              [] OTHER -> Prompt(ctl)
  /\ UNCHANGED <<buf, want, err, data, file, typed>>
Answer(yes) ==
  /\ ctl.mode \in {"new?", "load?", "bye?", "exit?"}
  /\ prog' = IF yes THEN <<>> ELSE prog
  /\ lock' = IF yes /\ ctl.mode # "load?" THEN Unlocked ELSE lock
  /\ load' = IF yes /\ ctl.mode = "load?"
               THEN [Idle EXCEPT !.on = TRUE, !.chars = file] ELSE load
  /\ ctl' = CASE ctl.mode = "new?" ->
                     [ctl EXCEPT !.mode = "prompt", !.edited = @ \/ yes,
                                 !.stack = IF yes THEN Forgotten(@) ELSE @]
              [] ctl.mode \in {"load?", "bye?"} /\ (yes \/ ctl.mode = "load?") -> Warm
              [] yes -> Ends("off")
              [] OTHER -> Prompt(ctl)
  /\ UNCHANGED <<buf, want, err, data, file, typed>>

-----------------------------------------------------------------------------
(* Statements that move control *)

Rem ==
  /\ At({"REM", "\\"})
  /\ ctl' = execnextline(ctl)
  /\ UNCHANGED <<prog, buf, lock, want, err, data, store, typed>>

(* The condition is kept in a short int.                                    *)
If(value) ==
  /\ At({"IF"})
  /\ LET r == value[Arg]
     IN /\ err' = ~r.ok
        /\ ctl' = IF ~r.ok \/ Text[r.at] = NL THEN Prompt(ctl)
                  ELSE IF r.value % 2 ^ (Width \div 2) # 0 THEN [ctl EXCEPT !.pos = r.at]
                  ELSE execnextline(ctl)
  /\ UNCHANGED <<prog, buf, lock, want, data, store, typed>>

(* GOTO and GOSUB go to the line, or to the next one there is.              *)
Goto(value) ==
  /\ At({"GOTO", "GOSUB"})
  /\ LET r == value[Arg]
         to == findline(prog, r.value % (Byte * Byte))
         frame == [kind |-> "gosub", cur |-> ctl.cur, pos |-> r.at]
     IN /\ err' = ~r.ok
        /\ ctl' = IF ~r.ok \/ Text[r.at] # NL THEN Prompt(ctl)
                  ELSE IF At({"GOTO"}) THEN execline(ctl, to)
                  ELSE IF Full(ctl.stack, 3) THEN Warm
                  ELSE execline([ctl EXCEPT !.stack = Append(@, frame)], to)
  /\ UNCHANGED <<prog, buf, lock, want, data, store, typed>>

(* The frame wanted is looked for from the top; words of a torn frame read  *)
(* as anything: mostly "the stack is stuffed", which starts afresh.          *)
Innermost(wanted) ==
  LET hits == wanted \union {i \in DOMAIN ctl.stack : ctl.stack[i].kind = "torn"}
  IN IF hits = {} THEN 0 ELSE CHOOSE i \in hits : \A j \in hits : i >= j

(* RETURN finds its frame below open FORs, yet takes words off the top.      *)
Popped(stack, i) ==
  IF Last(stack).kind = "for" THEN Append(Front(stack), Torn) ELSE Front(stack)

Return ==
  /\ At({"RETURN"})
  /\ LET i == Innermost({i \in DOMAIN ctl.stack : ctl.stack[i].kind = "gosub"})
         f == ctl.stack[i]
     IN \/ i = 0 /\ ctl' = Prompt(ctl)
        \/ i > 0 /\ f.kind = "torn" /\ ctl' \in {Warm, Ends("wild")}
        \/ /\ i > 0 /\ f.kind = "gosub"
           /\ ctl' = run_next_statement([ctl EXCEPT !.cur = f.cur, !.stack = Popped(@, i)], f.pos)
  /\ UNCHANGED <<prog, buf, lock, want, err, data, store, typed>>

For(value, address) ==
  /\ At({"FOR"})
  /\ LET p == Arg
         a == address[p]
         from == value[p + 2]
         to == value[from.at + 1]
         by == value[to.at + 1]
         stepped == Text[to.at] = "STEP"
         end == IF stepped THEN by.at ELSE to.at
         parts == <<from, to>> \o (IF stepped THEN <<by>> ELSE <<>>)
         begun == Member(Letters, Text[p]) /\ Text[p + 1] # "(" /\ ~err /\ Text[p + 1] = "="
         whole == begun /\ from.ok /\ Text[from.at] = "TO" /\ to.ok /\ (stepped => by.ok)
         frame == [kind |-> "for", var |-> Text[p], last |-> to.value,
                   step |-> IF stepped THEN by.value ELSE 1, cur |-> ctl.cur, pos |-> end]
         fits == whole /\ Text[end] = NL /\ ~Full(ctl.stack, 5)
     IN /\ err' = IF ~begun THEN err
                  ELSE ~from.ok \/ (Text[from.at] = "TO" /\ (~to.ok \/ (stepped /\ ~by.ok)))
        /\ mem' = IF fits THEN [mem EXCEPT ![a.value] = from.value] ELSE mem
        /\ ctl' = IF fits THEN run_next_statement([ctl EXCEPT !.stack = Append(@, frame)], end)
                  ELSE IF (Member(Letters, Text[p]) /\ Text[p + 1] = "(")
                          \/ (whole /\ Text[end] = NL) THEN Warm
                  ELSE Prompt(ctl)
  /\ UNCHANGED <<prog, buf, lock, want, ports, store, typed>>

NextFor(address) ==
  /\ At({"NEXT"})
  /\ LET p == Arg
         i == Innermost({i \in DOMAIN ctl.stack :
                          ctl.stack[i].kind = "for" /\ ctl.stack[i].var = Text[p]})
         f == ctl.stack[i]
         a == address[p].value
         v == Wrap(mem[a] + f.step)
         again == (f.step > 0 /\ v <= f.last) \/ (f.step < 0 /\ v >= f.last)
     IN IF ~Member(Letters, Text[p]) \/ ~EndOfStatement(p + 1) \/ i = 0
          THEN ctl' = Prompt(ctl) /\ UNCHANGED mem
        ELSE IF f.kind = "torn" THEN ctl' \in {Warm, Ends("wild")} /\ UNCHANGED mem
        ELSE IF err THEN ctl' = Ends("wild") /\ UNCHANGED mem
        ELSE /\ mem' = [mem EXCEPT ![a] = v]
             /\ ctl' = IF again THEN run_next_statement([ctl EXCEPT !.cur = f.cur], f.pos)
                       ELSE run_next_statement([ctl EXCEPT !.stack = SubSeq(@, 1, i - 1)], p + 1)
  /\ UNCHANGED <<prog, buf, lock, want, err, ports, store, typed>>

Run ==
  /\ At({"RUN"})
  /\ ctl' = execline(ctl, 0)
  /\ UNCHANGED <<prog, buf, lock, want, err, data, store, typed>>

End ==
  /\ At({"END", "STOP"})
  /\ ctl' = IF Text[Arg] # NL THEN Prompt(ctl) ELSE Warm
  /\ UNCHANGED <<prog, buf, lock, want, err, data, store, typed>>

(* Words that stop with "Sorry", or are not implemented.                    *)
Refuse ==
  /\ At({"TONE", "BEEP", "FLSAVE", "CHAIN", "AWRITE", "DWRITE"})
  /\ ctl' = IF At({"TONE", "BEEP", "FLSAVE"}) THEN Warm ELSE Prompt(ctl)
  /\ UNCHANGED <<prog, buf, lock, want, err, data, store, typed>>

Bye ==
  /\ At({"BYE", "EXIT"})
  /\ ctl' = IF ctl.cur # NoLine THEN Warm
            ELSE IF prog # <<>> THEN Ends(IF At({"BYE"}) THEN "bye?" ELSE "exit?")
            ELSE IF At({"BYE"}) THEN Warm ELSE Ends("off")
  /\ lock' = IF ctl.cur = NoLine /\ prog = <<>> THEN Unlocked ELSE lock
  /\ UNCHANGED <<prog, buf, want, err, data, store, typed>>

New ==
  /\ At({"NEW"})
  /\ ctl' = IF Text[Arg] = NL /\ prog # <<>> THEN Ends("new?") ELSE Prompt(ctl)
  /\ UNCHANGED <<prog, buf, lock, want, err, data, store, typed>>

-----------------------------------------------------------------------------
(* Statements that change data *)

(* Successive elements of an array after the first, and whether one of them *)
(* lies outside the variables' space.                                       *)
Elements(p0, addr0, m0, values) ==
  LET from[p \in Nat, a \in Int, m \in Memories] ==
        LET r == values[m][p + 1]
        IN IF Text[p] # "," THEN [at |-> p, mem |-> m, ok |-> TRUE, wild |-> FALSE]
           ELSE IF Text[p + 1] = "," THEN from[p + 1, a + 1, m]
           ELSE IF ~r.ok THEN [at |-> r.at, mem |-> m, ok |-> FALSE, wild |-> FALSE]
           ELSE IF a + 1 \notin DOMAIN mem
             THEN [at |-> r.at, mem |-> m, ok |-> TRUE, wild |-> TRUE]
           ELSE from[r.at, a + 1, [m EXCEPT ![a + 1] = r.value]]
  IN from[p0, addr0, m0]

(* t_WritePort is called with its arguments in the other order: the value   *)
(* chooses the port, which gets the index of the port that was named.       *)
PortBits(i) == IF i < 3 THEN Width \div 4 ELSE Width \div 2
WritePort(value, index) ==
  IF index \in 0 .. 6 THEN [ports EXCEPT ![Ports[index + 1]] = value % 2 ^ PortBits(index)]
                      ELSE ports

Targets == {"LET"} \union {Letters[i] : i \in 1 .. Len(Letters)} \union {Ports[i] : i \in 1 .. 7}

(* What is no keyword is an assignment.  The values are stored before the   *)
(* end of the statement is looked at.                                       *)
Assignment(values, address) ==
  /\ At(Targets)
  /\ LET p == IF At({"LET"}) THEN Arg ELSE ctl.pos
         port == Member(Ports, Text[p])
         a == IF port THEN [value |-> 0, at |-> p + 1] ELSE address[p]
         r == values[mem][a.at + 1]
         begun == (port \/ (Member(Letters, Text[p]) /\ a.value # -1)) /\ Text[a.at] = "="
         first == [mem EXCEPT ![a.value] = r.value]
         more == IF Text[r.at] = "," /\ Text[p] \in {"X", "Y", "Z"}
                   THEN Elements(r.at, a.value, first, values)
                 ELSE [at |-> r.at, mem |-> first, ok |-> TRUE, wild |-> FALSE]
     IN IF ~begun \/ ~r.ok
          THEN /\ ctl' = Prompt(ctl)
               /\ err' = IF ~begun THEN err \/ (Member(Letters, Text[p]) /\ ~address[p].ok) ELSE TRUE
               /\ UNCHANGED data
        ELSE IF port
          THEN /\ ports' = WritePort(IndexOf(Ports, Text[p]), r.value)
               /\ ctl' = IF EndOfStatement(r.at) THEN run_next_statement(ctl, r.at) ELSE Prompt(ctl)
               /\ err' = FALSE /\ UNCHANGED mem
        ELSE IF a.value \notin DOMAIN mem \/ more.wild
          THEN ctl' = Ends("wild") /\ UNCHANGED <<data, err>>
        ELSE /\ mem' = more.mem
             /\ err' = ~more.ok
             /\ ctl' = IF more.ok /\ EndOfStatement(more.at) THEN run_next_statement(ctl, more.at)
                       ELSE Prompt(ctl)
             /\ UNCHANGED ports
  /\ UNCHANGED <<prog, buf, lock, want, store, typed>>

(* The code stores through a pointer it has not set.                        *)
Poke(value) ==
  /\ At({"POKE"})
  /\ LET r == value[Arg]
     IN err' = ~r.ok /\ ctl' = IF r.ok THEN Ends("wild") ELSE Prompt(ctl)
  /\ UNCHANGED <<prog, buf, lock, want, data, store, typed>>

(* Expressions and quoted strings, each printed, until the statement ends.  *)
PrintItems(value) ==
  /\ At({"PRINT", "?", "PRINTX", "?X", "PRINTA", "?A"})
  /\ LET item[p \in Nat, e \in BOOLEAN] ==
           LET quoted == Text[p] = FileWord
               r == IF quoted THEN Yields(0, p + 1) ELSE value[p]
               q == IF Text[r.at] \in {",", ";"} THEN r.at + 1 ELSE r.at
           IN IF EndOfStatement(p) THEN [at |-> p, ok |-> TRUE, err |-> e]
              ELSE IF ~r.ok THEN [at |-> r.at, ok |-> FALSE, err |-> TRUE]
              ELSE item[q, quoted /\ e]
         end == item[Arg, err]
     IN /\ err' = end.err
        /\ ctl' = IF end.ok THEN run_next_statement(ctl, end.at) ELSE Prompt(ctl)
  /\ UNCHANGED <<prog, buf, lock, want, data, store, typed>>

(* Statements of which only the argument matters here, and those without.   *)
Evaluate(value) ==
  /\ At({"OUTCHAR", "RSEED", "TIMERRATE"})
  /\ LET r == value[Arg]
     IN err' = ~r.ok /\ ctl' = IF r.ok THEN run_next_statement(ctl, r.at) ELSE Prompt(ctl)
  /\ UNCHANGED <<prog, buf, lock, want, data, store, typed>>
Timer(address) ==
  /\ At({"ADDTIMER", "DELTIMER"})
  /\ LET a == address[Arg]
     IN IF Member(Letters, Text[Arg])
          THEN err' = (err \/ ~a.ok) /\ ctl' = run_next_statement(ctl, a.at)
          ELSE ctl' = run_next_statement(ctl, Arg) /\ UNCHANGED err
  /\ UNCHANGED <<prog, buf, lock, want, data, store, typed>>
Report ==
  /\ At({"MEM", "LOCK?", "WORDS", "FILES", "TEST"})
  /\ ctl' = run_next_statement(ctl, Arg)
  /\ UNCHANGED <<prog, buf, lock, want, err, data, store, typed>>

(* INPUT first collects the addresses of its variables.  While               *)
(* expression_error is set it does not move on, and fills its table beyond   *)
(* the end; so does a variable more than the table has room for, since the   *)
(* test counts bytes (sizeof(vars)) and comes too late.                     *)
Input(address) ==
  /\ At({"INPUT"})
  /\ LET collect[p \in Nat, addrs \in Seq(Int)] ==
           LET a == address[p]
               q == IF Text[a.at] = "," THEN a.at + 1 ELSE a.at
               Found(list) == [at |-> q, addrs |-> list, err |-> ~a.ok,
                               wild |-> ~a.ok /\ Member(Letters, Text[q])]
           IN IF ~Member(Letters, Text[p])
                THEN [at |-> p, addrs |-> <<>>, err |-> FALSE, wild |-> FALSE]
              ELSE IF Len(addrs) = InputVars
                THEN [at |-> p, addrs |-> <<>>, err |-> FALSE, wild |-> TRUE]
              ELSE IF EndOfStatement(q) THEN Found(Append(addrs, a.value))
              ELSE IF ~a.ok THEN Found(<<>>)
              ELSE collect[q, Append(addrs, a.value)]
         all == IF err THEN [at |-> Arg, addrs |-> <<>>, err |-> TRUE,
                             wild |-> Member(Letters, Text[Arg])]
                ELSE collect[Arg, <<>>]
     IN /\ err' = all.err
        /\ want' = IF all.addrs = <<>> THEN want ELSE [addrs |-> all.addrs, n |-> 0]
        /\ ctl' = IF all.wild THEN Ends("wild")
                  ELSE IF all.addrs = <<>> THEN Prompt(ctl)
                  ELSE [ctl EXCEPT !.mode = "input", !.pos = all.at]
  /\ UNCHANGED <<prog, buf, lock, data, store, typed>>

(* A line of values for it.  A value that does not parse asks again; more    *)
(* values than variables go to addresses never set.                         *)
InputLine(stray) ==
  /\ ctl.mode = "input"
  /\ \E line \in Typed :
       LET text == Append(Kept(prog, line), NL)
           cells == [a \in 0 .. 2 * VarsBegin |->
                       IF a \in 1 .. Len(text) THEN text[a] ELSE "junk"]
           nvars == Len(want.addrs)
           value[p \in Nat, n \in Nat, m \in Memories] ==
             LET r == Expression(cells, [Env(stray) EXCEPT !.mem = m], p)
             IN IF cells[p] = NL THEN [n |-> n, mem |-> m, ok |-> TRUE, wild |-> FALSE]
                ELSE IF ~r.ok THEN [n |-> n, mem |-> m, ok |-> FALSE, wild |-> FALSE]
                ELSE IF n >= nvars \/ want.addrs[n + 1] \notin DOMAIN mem
                  THEN [n |-> n, mem |-> m, ok |-> TRUE, wild |-> TRUE]
                ELSE value[IF cells[r.at] = "," THEN r.at + 1 ELSE r.at, n + 1,
                           [m EXCEPT ![want.addrs[n + 1]] = r.value]]
           Given(got) ==
             IF Overruns(prog, line) \/ got.wild
               THEN ctl' = Ends("wild") /\ UNCHANGED <<buf, want, err, mem>>
             ELSE /\ buf' = Over(text) /\ mem' = got.mem /\ want' = [want EXCEPT !.n = got.n]
                  /\ err' = IF text = <<NL>> THEN err ELSE ~got.ok
                  /\ ctl' = IF got.n < nvars \/ ~got.ok THEN ctl ELSE [ctl EXCEPT !.mode = "resume"]
       IN typed < MaxTyped /\ typed' = typed + 1 /\ Given(value[1, want.n, mem])
  /\ UNCHANGED <<prog, lock, ports, load, file>>
Resume ==
  /\ ctl.mode = "resume"
  /\ ctl' = run_next_statement(ctl, ctl.pos)
  /\ UNCHANGED <<prog, buf, lock, want, err, data, store, typed>>

-----------------------------------------------------------------------------
(* The lock, listing, and files *)

Unlock ==
  /\ At({"UNLOCK"})
  /\ lock' = Unlocked
  /\ ctl' = run_next_statement(ctl, Arg)
  /\ UNCHANGED <<prog, buf, want, err, data, store, typed>>

LockLines(value) ==
  /\ At({"LOCK"})
  /\ LET Starts0(p) == Member(Digits, Text[p]) /\ Text[p] # "0"
         b == IF Starts0(Arg) THEN value[Arg] ELSE Yields(1, Arg)
         e == IF Text[b.at] = "," /\ Starts0(b.at + 1) THEN value[b.at + 1]
              ELSE [value |-> BEYOND_VALID_LINENUM, ok |-> TRUE,
                    at |-> IF Text[b.at] = "," THEN b.at + 1 ELSE b.at]
         good == b.ok /\ e.ok
                 /\ (Text[b.at] = "," => Starts0(b.at + 1) \/ Text[b.at + 1] = NL)
         Cut(n) == n % (Byte * Byte)
     IN IF prog = <<>> THEN ctl' = run_next_statement(ctl, Arg) /\ UNCHANGED <<lock, err>>
        ELSE /\ err' = (~b.ok \/ ~e.ok)
             /\ lock' = IF good THEN <<Cut(b.value), Cut(e.value)>> ELSE lock
             /\ ctl' = IF good THEN run_next_statement(ctl, e.at) ELSE Prompt(ctl)
  /\ UNCHANGED <<prog, buf, want, data, store, typed>>

(* The range of LIST and SAVE: none, a line, "a-" or "a b".                  *)
LineRange(p) ==
  LET Cut(n) == n % (Byte * Byte)
      a == testnum(Text, p)
      sep == IF Text[a.at] = " " THEN a.at + 1 ELSE a.at
      b == testnum(Text, sep)
      first == Cut(a.value)
      last == IF first = 0 \/ Text[sep] = "-" THEN BEYOND_VALID_LINENUM
              ELSE IF Text[a.at] = NL THEN first ELSE Cut(b.value)
      at == IF first = 0 THEN a.at
            ELSE IF Text[sep] = "-" THEN sep + 1
            ELSE IF Text[a.at] = NL THEN a.at ELSE b.at
  IN [first |-> first, last |-> last, at |-> at, ok |-> last # 0 /\ first <= last]

List ==
  /\ At({"LIST"})
  /\ LET r == LineRange(Arg)
     IN ctl' = IF r.ok /\ Text[r.at] = NL THEN Warm ELSE Prompt(ctl)
  /\ UNCHANGED <<prog, buf, lock, want, err, data, store, typed>>

(* printnum and printline: the number, a blank, the text.                   *)
Decimal(n) ==
  LET d[k \in Nat] == IF k < 10 THEN << Digits[k + 1] >> ELSE Append(d[k \div 10], Digits[(k % 10) + 1])
  IN d[n]
printline(p, a) == Decimal(LineNum(p, a)) \o <<" ">> \o TextOf(p, a) \o <<NL>>

(* The lines from the first on, as long as the LOW BYTE of their number is   *)
(* not above the last's number.                                             *)
PrintedBelow(p, r) ==
  LET from[a \in Nat] == IF a = Len(p) \/ p[a + 1] >= r.last THEN <<>>
                         ELSE printline(p, a) \o from[a + LineLen(p, a)]
  IN from[findline(p, r.first)]
Printed(p, r) ==
  LET from[a \in Nat] == IF a = Len(p) \/ p[a + 1] > r.last THEN <<>>
                         ELSE printline(p, a) \o from[a + LineLen(p, a)]
  IN from[findline(p, r.first)]

Save ==
  /\ At({"SAVE"})
  /\ LET r == LineRange(Arg)
     IN IF ~r.ok \/ Text[r.at] # FileWord
          THEN /\ ctl' = Prompt(ctl) /\ UNCHANGED file
               /\ err' = IF r.ok /\ Text[r.at] # NL THEN TRUE ELSE err
        ELSE /\ err' = FALSE /\ ctl' = Warm
             /\ file' \in {Printed(prog, r), file}        \* or opening it fails
  /\ UNCHANGED <<prog, buf, lock, want, data, load, typed>>

(* LOAD erases the program when asked to; MERGE adds to it.  The lock stays. *)
Load ==
  /\ At({"LOAD", "MERGE"})
  /\ err' = (Text[Arg] # FileWord)
  /\ \/ (Text[Arg] # FileWord \/ file = NoFile) /\ ctl' = Prompt(ctl) /\ UNCHANGED load
     \/ /\ Text[Arg] = FileWord /\ file # NoFile
        /\ IF At({"LOAD"}) /\ prog # <<>>
             THEN ctl' = Ends("load?") /\ UNCHANGED load
             ELSE /\ ctl' = Warm
                  /\ load' = [Idle EXCEPT !.on = TRUE, !.chars = file, !.base = prog]
  /\ UNCHANGED <<prog, buf, lock, want, data, file, typed>>

Delete ==
  /\ At({"DELETE"})
  /\ err' = IF Text[Arg] = NL THEN err ELSE Text[Arg] # FileWord
  /\ ctl' = IF Text[Arg] = FileWord THEN run_next_statement(ctl, Arg + 1) ELSE Prompt(ctl)
  /\ UNCHANGED <<prog, buf, lock, want, data, store, typed>>

(* What is neither a keyword nor an assignment: "How?".                      *)
Keywords ==
  {"REM", "\\", "IF", "GOTO", "GOSUB", "RETURN", "FOR", "NEXT", "RUN", "END", "STOP", "TONE", "BEEP",
   "FLSAVE", "CHAIN", "AWRITE", "DWRITE", "BYE", "EXIT", "NEW", "POKE", "PRINT", "?", "PRINTX",
   "?X", "PRINTA", "?A", "OUTCHAR", "RSEED", "TIMERRATE", "MEM", "LOCK?", "WORDS", "FILES", "TEST",
   "INPUT", "UNLOCK", "LOCK", "LIST", "SAVE", "LOAD", "MERGE", "DELETE", "ADDTIMER", "DELTIMER"}

Unknown ==
  /\ ctl.mode = "run" /\ Text[ctl.pos] \notin Keywords \union Targets
  /\ ctl' = Prompt(ctl)
  /\ UNCHANGED <<prog, buf, lock, want, err, data, store, typed>>

Init ==
  /\ \E lines \in Programs :
       prog = FoldLeft(LAMBDA p, line :
                         LET text == Append(line, NL)
                             number == testnum(text, 1)
                         IN Merged(p, number.value, SubSeq(text, number.at, Len(text))),
                       <<>>, lines)
  /\ buf = <<>> /\ lock = Unlocked /\ ctl = Warm
  /\ want = [addrs |-> <<>>, n |-> 0] /\ err = FALSE
  /\ mem = [i \in 0 .. VarCells - 1 |-> 0]
  /\ ports = [i \in {Ports[k] : k \in 1 .. 7} |-> 0]
  /\ file \in Files /\ load = Idle
  /\ typed = 0

Statement(stray) ==
  LET value == Values(stray)[mem]
      address == Addresses(stray)
  IN \/ Rem \/ If(value) \/ Goto(value) \/ Return \/ For(value, address) \/ NextFor(address)
     \/ Run \/ End \/ Refuse \/ Bye \/ New \/ Assignment(Values(stray), address) \/ Poke(value)
     \/ PrintItems(value) \/ Evaluate(value) \/ Timer(address) \/ Report \/ Input(address)
     \/ InputLine(stray) \/ Resume \/ Unlock \/ LockLines(value) \/ List \/ Save \/ Load
     \/ Delete \/ Unknown

Next ==
  TakeLine \/ (\E yes \in BOOLEAN : Answer(yes)) \/ (\E stray \in Strays : Statement(stray))

Spec == Init /\ [][Next]_vars

-----------------------------------------------------------------------------
(* What the interpreter promises *)

(* The shuffling of bytes edits a table of lines, and nothing else does:     *)
(* what TakeLine does to prog through findline, the deletion and the         *)
(* insertion loops of loop() implements ProgramListing, the lock included.   *)
Program == INSTANCE ProgramListing WITH
             lines <- Listing(prog), locked <- lock, entered <- buf,
             asking <- ctl.mode = "input",
             Limit <- Byte * Byte, Ending <- NL
ImplementsListing == Program!Spec

(* Reading back what SAVE wrote gives the lines it was given: unless a line  *)
(* did not fit or was locked, a finished LOAD leaves the table of the file's *)
(* lines, and a MERGE that table over the one there was.                     *)
FileLines(chars) ==
  LET ends == {0} \union {i \in 1 .. Len(chars) : chars[i] = NL}
      Line(e) == SubSeq(chars, e + 1, CHOOSE x \in ends : x > e /\ \A y \in ends : y > e => x <= y)
      all == {Line(e) : e \in ends \ {Len(chars)}}
  IN [n \in {Program!NumberOf(line) : line \in all} |->
        Program!Behind(CHOOSE line \in all : Program!NumberOf(line) = n)]
LoadRestoresSaved ==
  [][ (load.on /\ ~load'.on /\ ~load.lost /\ lock = Unlocked /\ ctl'.mode # "wild") =>
        LET new == FileLines(file) IN Listing(prog') = new @@ Listing(load.base) ]_vars

(* SAVE writes the program's lines from the first one asked for on, none     *)
(* left out between two, and those of the range alone as long as every       *)
(* number of the program fits into the byte it compares.                     *)
SavedIsTheRange ==
  [][ (At({"SAVE"}) /\ file' # file) =>
        LET r == LineRange(Arg)
            all == Listing(prog)
            UpTo(last) == [n \in {n \in DOMAIN all : r.first <= n /\ n <= last} |-> all[n]]
        IN /\ \E last \in DOMAIN all \union {0} : FileLines(file') = UpTo(last)
           /\ (\A n \in DOMAIN all : n < Byte) => FileLines(file') = UpTo(r.last) ]_vars

(* expression() to expr4() give every tree of two operators its value, with *)
(* no more brackets than their order of calls asks for, and report every    *)
(* division by zero.                                                        *)
ExpressionsMeanTheirTrees == ctl = Warm /\ typed = 0 => TreesMean

(* Frames do not reach the variables although the test for a full stack has  *)
(* the wrong sign: the words below STACK_SIZE that it gives away are unused. *)
FramesClearOfVariables == Used(ctl.stack) <= StackUnits + Slack

(* Control leaves the text of the program only when the program was edited   *)
(* with a line or a frame still open, which "What?" and "How?" leave behind. *)
StaleOnlyAfterEdit == ctl.mode = "stale" => ctl.edited
=============================================================================
