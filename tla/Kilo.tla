-------------------------------- MODULE Kilo --------------------------------
(***************************************************************************)
(* The Kilo editor (src/Kilo/kilo_mini.c): the rows of the file with their *)
(* cached highlighting, the cursor and the window on them, search, opening *)
(* and saving, the decoding of keys and the differential screen update.    *)
(*                                                                         *)
(* E is the code's struct editorConfig.  A handler is an operator from one *)
(* value of E to the next; main's loop reads a key and refreshes the       *)
(* screen.  row->render follows row->chars, row->hl and row->hl_oc can be  *)
(* stale.  Keywords choose a colour and nothing else: their cells count as *)
(* "normal", and so do unprintable bytes, of which CR is the only one.     *)
(* An allocation that fails is not modelled.                               *)
(*                                                                         *)
(* A wild access (outside E.row, or outside a row's buffers) sets E.wild:  *)
(* the model stops there, since nothing can be said of what follows.  A    *)
(* stale slot of E.row that is still allocated reads as either value.      *)
(***************************************************************************)
EXTENDS Integers, Sequences, SequencesExt, TLC

CONSTANTS
  Rows, Cols,    \* E.screenrows and E.screencols (22 and 80)
  TabStop,       \* 8
  LineBuf,       \* sizeof linebuf in editorOpen (256)
  BlankRun,      \* the run of blanks worth an erase (8)
  QuitTimes,     \* KILO_QUIT_TIMES (3)
  HasSyntax,     \* the file name has a C extension
  Files,         \* what the disk may hold at the start: NoFile or characters
  Inputs,        \* the byte strings the terminal sends up to a key's last byte
  Printable,     \* the characters that are typed
  MaxEdits,      \* bound: changes of the text in a behaviour
  MaxQuery       \* bound: length of a search string (KILO_QUERY_LEN, 256)

NoFile == <<"no file">>
TAB == "\t"
NL == "\n"
CR == "\r"
NUL == "\\0"

ASSUME KiloConstants ==
  /\ Rows \in Nat \ {0} /\ Cols \in Nat \ {0} /\ TabStop \in Nat \ {0, 1}
  /\ LineBuf \in Nat \ {0} /\ BlankRun \in Nat \ {0} /\ QuitTimes \in Nat
  /\ HasSyntax \in BOOLEAN /\ MaxEdits \in Nat /\ MaxQuery \in Nat

VARIABLES
  E,             \* [row, cx, cy, rowoff, coloff, dirty, wild]
  mode,          \* "open", "edit", "find", "exit" or "wild"
  find,          \* editorFind's locals
  quit_times,    \* editorProcessKeypress's static counter
  disk,          \* the file on the RAM file system
  fb,            \* [ready, shadow]: what the editor believes is shown
  screen,        \* what the terminal shows
  cursor,        \* where the terminal's cursor is
  edits,         \* how often the text has changed (bounded by MaxEdits)
  quits          \* ghost: Ctrl-Qs since any other key

vars == <<E, mode, find, quit_times, disk, fb, screen, cursor, edits, quits>>

-----------------------------------------------------------------------------
(* Rows *)

NumRows(e) == Len(e.row)
RowAt(e, r) == e.row[r + 1]
SizeOf(e, r) == Len(RowAt(e, r).chars)
FileRow(e) == e.rowoff + e.cy
FileCol(e) == e.coloff + e.cx
Spaces(n) == [i \in 1 .. n |-> " "]

(* A tab is one blank and then blanks until idx + 1 is a multiple of eight. *)
TabEnd(idx) == CHOOSE m \in idx + 1 .. idx + TabStop : (m + 1) % TabStop = 0
Render(chars) ==
  FoldLeft(LAMBDA out, ch :
             IF ch = TAB THEN out \o Spaces(TabEnd(Len(out)) - Len(out)) ELSE Append(out, ch),
           <<>>, chars)

is_separator(ch) == ch \in {NUL, " ", TAB, CR, NL, ",", ".", "(", ")", "+", "-", "/",
                            "*", "=", "~", "%", "[", "]", ";"}

Digits == {"0", "1", "2", "3", "4", "5", "6", "7", "8", "9"}

OpenComment(row) ==
  LET r == row.render
      n == Len(row.hl)
  IN /\ n > 0
     /\ row.hl[n] = "ml"
     /\ n >= 2 => ~(r[n - 1] = "*" /\ r[n] = "/")

(* The classes of one rendered line, `open' telling that it starts inside a *)
(* comment.  `early' is the return at a // comment, `over' an access outside *)
(* the buffers: the // branch clears size - i bytes with i counted in the   *)
(* rendered line, and a backslash ending a string skips the terminator.     *)
(* `num' says that the cell before is of a number: a point after it belongs *)
(* to the number, and is no separator then.                                 *)
Classes(chars, r, open) ==
  LET n == Len(r)
      At(i) == IF i <= n THEN r[i] ELSE NUL
      first == CHOOSE i \in 1 .. n + 1 :
                 At(i) \notin {" ", NL, CR} /\ \A j \in 1 .. i - 1 : At(j) \in {" ", NL, CR}
      With(cs, rest) == [rest EXCEPT !.hl = cs \o @]
      scan[i \in 1 .. n + 2, com \in BOOLEAN, str \in {"", "'", "\""}, sep \in BOOLEAN,
           num \in BOOLEAN] ==
        CASE i = n + 2 -> [hl |-> <<>>, early |-> FALSE, over |-> TRUE]
          [] At(i) = NUL -> [hl |-> [k \in 1 .. n + 1 - i |-> "normal"],
                             early |-> FALSE, over |-> FALSE]
          [] sep /\ At(i) = "/" /\ At(i + 1) = "/" ->
               [hl |-> [k \in 1 .. n + 1 - i |->
                         IF k + i - 1 <= Len(chars) THEN "comment" ELSE "normal"],
                early |-> TRUE, over |-> i - 1 > Len(chars)]
          [] com /\ At(i) = "*" /\ At(i + 1) = "/" ->
               With(<<"ml", "ml">>, scan[i + 2, FALSE, str, TRUE, FALSE])
          [] com -> With(<<"ml">>, scan[i + 1, TRUE, str, FALSE, FALSE])
          [] At(i) = "/" /\ At(i + 1) = "*" ->
               With(<<"ml", "ml">>, scan[i + 2, TRUE, str, FALSE, FALSE])
          [] str # "" /\ At(i) = "\\" ->
               With(<<"string", "string">>, scan[i + 2, com, str, FALSE, FALSE])
          [] str # "" ->
               With(<<"string">>, scan[i + 1, com, IF At(i) = str THEN "" ELSE str, sep, FALSE])
          [] At(i) \in {"'", "\""} -> With(<<"string">>, scan[i + 1, com, At(i), FALSE, FALSE])
          [] (At(i) \in Digits /\ (sep \/ num)) \/ (At(i) = "." /\ num) ->
               With(<<"number">>, scan[i + 1, com, "", FALSE, TRUE])
          [] OTHER -> With(<<"normal">>, scan[i + 1, com, "",
                                              At(i) # CR /\ is_separator(At(i)), FALSE])
      rest == scan[first, open, "", TRUE, FALSE]
  IN [rest EXCEPT !.hl = SubSeq([k \in 1 .. first - 1 |-> "normal"] \o @, 1, n)]

(* editorUpdateSyntax of the row at position p, and of the rows it calls    *)
(* itself for, found through row->idx.  n is E.numrows at the call; junk is *)
(* what a stale slot of E.row reads as.                                     *)
UpdateSyntax(e, p, n, junk) ==
  LET Above(rows, i) == IF i <= 0 THEN FALSE
                        ELSE IF i <= Len(rows) THEN OpenComment(rows[i]) ELSE junk
      Visit(st, q) ==
        IF q # st.next THEN st
        ELSE LET row == st.row[q + 1]
                 c == IF HasSyntax THEN Classes(row.chars, row.render, Above(st.row, row.idx))
                      ELSE [hl |-> [k \in 1 .. Len(row.render) |-> "normal"],
                            early |-> TRUE, over |-> FALSE]
                 new == [row EXCEPT !.hl = c.hl]
                 oc == OpenComment(new)
             IN IF c.over THEN [st EXCEPT !.row[q + 1] = new, !.wild = TRUE, !.next = -1]
                ELSE IF c.early THEN [st EXCEPT !.row[q + 1] = new, !.next = -1]
                ELSE [st EXCEPT !.row[q + 1] = [new EXCEPT !.oc = oc],
                                !.next = IF row.oc # oc /\ row.idx + 1 < n
                                           THEN row.idx + 1 ELSE -1]
      end == FoldLeft(Visit, [row |-> e.row, next |-> p, wild |-> e.wild],
                      [k \in 1 .. Len(e.row) - p |-> p + k - 1])
  IN [e EXCEPT !.row = end.row, !.wild = end.wild]

UpdateRow(e, p, n, junk) ==
  UpdateSyntax([e EXCEPT !.row[p + 1].render = Render(e.row[p + 1].chars)], p, n, junk)

(* What such a slot may read as; only an index off its position leads there. *)
Stale(e) == IF \A i \in 1 .. NumRows(e) : e.row[i].idx = i - 1 THEN {FALSE} ELSE BOOLEAN

(* The new row is highlighted while E.numrows still has its old value.      *)
InsertRow(e, at, s, junk) ==
  IF at > NumRows(e) THEN e
  ELSE LET new == [chars |-> s, render |-> <<>>, idx |-> at, hl |-> <<>>, oc |-> FALSE]
           below == [k \in 1 .. NumRows(e) - at |->
                       [e.row[at + k] EXCEPT !.idx = @ + 1]]
       IN [UpdateRow([e EXCEPT !.row = SubSeq(@, 1, at) \o <<new>> \o below],
                     at, NumRows(e), junk) EXCEPT !.dirty = TRUE]

(* The rows that move up have their index raised, not lowered.              *)
DelRow(e, at) ==
  IF at >= NumRows(e) THEN e
  ELSE [e EXCEPT !.dirty = TRUE,
                 !.row = SubSeq(@, 1, at)
                         \o [k \in 1 .. NumRows(e) - at - 1 |->
                               [@[at + 1 + k] EXCEPT !.idx = @ + 1]]]

SetChars(e, r, s, junk) ==
  [UpdateRow([e EXCEPT !.row[r + 1].chars = s], r, NumRows(e), junk) EXCEPT !.dirty = TRUE]

RowInsertChar(e, r, at, ch, junk) ==
  LET s == RowAt(e, r).chars
  IN SetChars(e, r, IF at > Len(s) THEN s \o Spaces(at - Len(s)) \o <<ch>>
                    ELSE SubSeq(s, 1, at) \o <<ch>> \o SubSeq(s, at + 1, Len(s)), junk)

RowAppendStringOver(e, r, s, junk) == SetChars(e, r, s, junk)
RowAppendString(e, r, s, junk) == SetChars(e, r, RowAt(e, r).chars \o s, junk)

(* The row is updated before its size is: once with the terminator in it.   *)
RowDelChar(e, r, at, junk) ==
  LET s == RowAt(e, r).chars
      left == SubSeq(s, 1, at) \o SubSeq(s, at + 2, Len(s))
  IN IF Len(s) <= at THEN e
     ELSE [SetChars(e, r, Append(left, NUL), junk) EXCEPT !.row[r + 1].chars = left]

-----------------------------------------------------------------------------
(* Editing at the cursor *)

AdvanceLate(e) ==
  IF e.cx = Cols THEN [e EXCEPT !.coloff = @ + 1] ELSE [e EXCEPT !.cx = @ + 1]
Advance(e) ==
  IF e.cx = Cols - 1 THEN [e EXCEPT !.coloff = @ + 1] ELSE [e EXCEPT !.cx = @ + 1]
Down(e) ==
  IF e.cy = Rows - 1 THEN [e EXCEPT !.rowoff = @ + 1] ELSE [e EXCEPT !.cy = @ + 1]

InsertChar(e, ch, junk) ==
  LET r == FileRow(e)
      some == FoldLeft(LAMBDA x, k : InsertRow(x, NumRows(x), <<>>, junk), e,
                       [k \in 1 .. (IF r < NumRows(e) THEN 0 ELSE r + 1 - NumRows(e)) |-> k])
  IN Advance(RowInsertChar(some, r, FileCol(e), ch, junk))

InsertNewline(e, junk) ==
  LET r == FileRow(e)
      s == RowAt(e, r).chars
      c == IF FileCol(e) >= Len(s) THEN Len(s) ELSE FileCol(e)
      Cut(x) == UpdateRow([x EXCEPT !.row[r + 1].chars = SubSeq(@, 1, c)], r, NumRows(x), junk)
      e1 == IF r = NumRows(e) \/ c = 0 THEN InsertRow(e, r, <<>>, junk)
            ELSE Cut(InsertRow(e, r + 1, SubSeq(s, c + 1, Len(s)), junk))
  IN IF r > NumRows(e) THEN e ELSE [Down(e1) EXCEPT !.cx = 0, !.coloff = 0]

DelChar(e, junk) ==
  LET r == FileRow(e)
      c == FileCol(e)
      above == SizeOf(e, r - 1)
      joined == DelRow(RowAppendString(e, r - 1, RowAt(e, r).chars, junk), r)
      up == IF e.cy = 0 THEN [joined EXCEPT !.rowoff = @ - 1] ELSE [joined EXCEPT !.cy = @ - 1]
      shift == IF above >= Cols THEN Cols - above + 1 ELSE 0
      erased == RowDelChar(e, r, c - 1, junk)
      left == IF e.cx = 0 /\ e.coloff # 0 THEN [erased EXCEPT !.coloff = @ - 1]
                                          ELSE [erased EXCEPT !.cx = @ - 1]
  IN IF r >= NumRows(e) \/ (c = 0 /\ r = 0) THEN e
     ELSE IF c = 0 THEN [up EXCEPT !.cx = above - shift, !.coloff = @ + shift]
     ELSE [UpdateRow(left, r, NumRows(left), junk) EXCEPT !.dirty = TRUE]

(* The arrow keys.  ARROW_LEFT takes cy below zero when the window has been *)
(* scrolled; the size it reads beyond the last row is clipped at the end.   *)
MoveCursor(e, key) ==
  LET r == FileRow(e)
      size == IF r < NumRows(e) THEN SizeOf(e, r) ELSE 0
      before == IF r - 1 < NumRows(e) THEN SizeOf(e, r - 1) ELSE 0
      moved ==
        CASE key = "left" /\ e.cx # 0 -> [e EXCEPT !.cx = @ - 1]
          [] key = "left" /\ e.coloff # 0 -> [e EXCEPT !.coloff = @ - 1]
          [] key = "left" /\ r > 0 ->
               [e EXCEPT !.cy = @ - 1,
                         !.cx = IF before > Cols - 1 THEN Cols - 1 ELSE before,
                         !.coloff = IF before > Cols - 1 THEN before - Cols + 1 ELSE @]
          [] key = "right" /\ r < NumRows(e) /\ FileCol(e) < size -> Advance(e)
          [] key = "right" /\ r < NumRows(e) /\ FileCol(e) = size ->
               Down([e EXCEPT !.cx = 0, !.coloff = 0])
          [] key = "up" /\ e.cy # 0 -> [e EXCEPT !.cy = @ - 1]
          [] key = "up" /\ e.rowoff # 0 -> [e EXCEPT !.rowoff = @ - 1]
          [] key = "down" /\ r < NumRows(e) -> Down(e)
          [] OTHER -> e
      q == FileRow(moved)
      len == IF q < NumRows(e) THEN SizeOf(e, q) ELSE 0
      back == moved.cx - (FileCol(moved) - len)
  IN IF q < 0 THEN [e EXCEPT !.wild = TRUE]
     ELSE IF FileCol(moved) <= len THEN moved
     ELSE IF back < 0 THEN [moved EXCEPT !.cx = 0, !.coloff = @ + back]
     ELSE [moved EXCEPT !.cx = back]

Page(e, key) ==
  FoldLeft(LAMBDA x, k : IF x.wild THEN x ELSE MoveCursor(x, key),
           [e EXCEPT !.cy = IF key = "up" THEN 0 ELSE Rows - 1], [k \in 1 .. Rows |-> k])

-----------------------------------------------------------------------------
(* Files *)

(* editorOpen reads a byte at a time: a line ends at NL, a CR before it goes, *)
(* and what does not fit into linebuf is dropped.                            *)
Load(content) ==
  LET Byte(st, ch) ==
        IF ch = NL
          THEN [line |-> <<>>,
                lines |-> Append(st.lines, IF st.line # <<>> /\ Last(st.line) = CR
                                             THEN Front(st.line) ELSE st.line)]
        ELSE IF Len(st.line) < LineBuf - 1 THEN [st EXCEPT !.line = Append(@, ch)]
        ELSE st
      end == FoldLeft(Byte, [line |-> <<>>, lines |-> <<>>], content)
  IN IF end.line = <<>> THEN end.lines ELSE Append(end.lines, end.line)

RowsToString(e) == FoldLeft(LAMBDA s, r : Append(s \o r.chars, NL), <<>>, e.row)

Blanked == [row |-> <<>>, cx |-> 0, cy |-> 0, rowoff |-> 0, coloff |-> 0,
            dirty |-> FALSE, wild |-> FALSE]

Open(content) ==
  [FoldLeft(LAMBDA e, s : InsertRow(e, NumRows(e), s, FALSE),
            Blanked, IF content = NoFile THEN <<>> ELSE Load(content)) EXCEPT !.dirty = FALSE]

-----------------------------------------------------------------------------
(* Search *)

NoFind == [query |-> <<>>, last |-> -1, hlline |-> -1, hl |-> <<>>]

Occurrences(text, q) ==
  {k \in 0 .. Len(text) - Len(q) : SubSeq(text, k + 1, k + Len(q)) = q}

RestoreHl(e, f) == IF f.hl = <<>> THEN e ELSE [e EXCEPT !.row[f.hlline + 1].hl = f.hl]

(* One key of the search loop; the result is a pair of E and the locals.    *)
Search(e, f, key) ==
  LET query == IF key \in {"del", "ctrl_h", "backspace"}
                 THEN (IF f.query = <<>> THEN <<>> ELSE Front(f.query))
               ELSE IF key \in Printable THEN Append(f.query, key) ELSE f.query
      last == IF key \in {"del", "ctrl_h", "backspace"} \union Printable THEN -1 ELSE f.last
      step == IF last = -1 \/ key \in {"right", "down"} THEN 1
              ELSE IF key \in {"left", "up"} THEN -1 ELSE 0
      Line(i) == (last + step * i) % NumRows(e)
      Offsets(i) == Occurrences(RowAt(e, Line(i)).render, query)
      hits == {i \in 1 .. NumRows(e) : Offsets(i) # {}}
      first == CHOOSE i \in hits : \A j \in hits : i <= j
      line == Line(first)
      offset == CHOOSE k \in Offsets(first) : \A j \in Offsets(first) : k <= j
      plain == RestoreHl(e, f)
      hl == RowAt(plain, line).hl
      lit == [k \in 1 .. Len(hl) |-> IF k \in offset + 1 .. offset + Len(query)
                                      THEN "match" ELSE hl[k]]
      over == IF offset > Cols THEN offset - Cols ELSE 0
  IN IF step = 0 THEN <<e, f>>
     ELSE IF hits = {} THEN <<plain, [f EXCEPT !.query = query, !.last = last, !.hl = <<>>]>>
     ELSE << [plain EXCEPT !.row[line + 1].hl = lit, !.cy = 0, !.rowoff = line,
                           !.cx = offset - over, !.coloff = over],
             [query |-> query, last |-> line, hlline |-> line, hl |-> hl] >>

-----------------------------------------------------------------------------
(* The screen: Rows lines of text and the status line, as cells of a        *)
(* character and a colour.  The status line has a cell for each of its ends. *)

Lines == 0 .. Rows
Blank == <<" ", "normal">>
Clear == [y \in Lines |-> [x \in 1 .. Cols |-> Blank]]
Junk == [y \in Lines |-> [x \in 1 .. Cols |-> <<"?", "?">>]]

(* fbRenderRow.                                                             *)
RenderRow(e, y) ==
  LET r == e.rowoff + y
      text == RowAt(e, r).render
      Edge(x) == IF NumRows(e) = 0 /\ y = Rows \div 3 THEN "Kilo editor" ELSE "~"
  IN [x \in 1 .. Cols |->
        IF y = Rows
          THEN << IF x = 1 THEN ToString(<<NumRows(e), e.dirty>>)
               ELSE IF x = Cols THEN ToString(<<FileRow(e) + 1, NumRows(e)>>) ELSE " ", "reverse" >>
        ELSE IF r >= NumRows(e) THEN (IF x = 1 THEN <<Edge(x), "normal">> ELSE Blank)
        ELSE IF e.coloff + x <= Len(text)
          THEN << text[e.coloff + x], RowAt(e, r).hl[e.coloff + x] >>
        ELSE Blank]

(* The columns from which on a row is blank, the first of them blank_from.  *)
BlankTailByChar(want) == {x \in 1 .. Cols : \A z \in x .. Cols : want[z][1] = " "}
BlankTail(want) == {x \in 1 .. Cols : \A z \in x .. Cols : want[z] = Blank}

(* What is sent to make a row believed to be `shadow' the row wanted: the    *)
(* cells from the first to the last that differ, a long run of blanks at    *)
(* the end as an erase from where the cursor stands to the end of the line. *)
Sent(want, shadow) ==
  LET differ == {x \in 1 .. Cols : want[x] # shadow[x]}
      tail == BlankTail(want)
      erase == \E x \in tail, z \in differ : x <= z /\ z - x + 1 >= BlankRun
      erased == IF erase THEN tail ELSE {}
      sent == {x \in 1 .. Cols : /\ \E y \in differ : y <= x
                                 /\ x \in erased \/ \E z \in differ : x <= z}
  IN [x \in sent |-> IF x \in erased THEN Blank ELSE want[x]]

(* A row after cells were written to it.                                    *)
Painted(cells, row) ==
  [x \in DOMAIN row |-> IF x \in DOMAIN cells THEN cells[x] ELSE row[x]]

(* The column the terminal's cursor is sent to, counted from one.           *)
CursorColumn(e) ==
  LET r == FileRow(e)
      Step(cx, j) == IF j < SizeOf(e, r) /\ RowAt(e, r).chars[j + 1] = TAB
                       THEN cx + (TabStop - 1) - (cx % TabStop) + 1 ELSE cx + 1
  IN IF r >= NumRows(e) THEN 1
     ELSE FoldLeft(Step, 1, [k \in 1 .. e.cx |-> e.coloff + k - 1])

-----------------------------------------------------------------------------
(* Keys *)

Escape == ("[A" :> "up") @@ ("[B" :> "down") @@ ("[C" :> "right") @@ ("[D" :> "left")
          @@ ("[H" :> "home") @@ ("[F" :> "end") @@ ("OH" :> "home") @@ ("OF" :> "end")
Tilde == ("3" :> "del") @@ ("5" :> "page_up") @@ ("6" :> "page_down")

(* editorReadKey.  The kernel's raw read blocks until there is a byte and    *)
(* returns one: the tests for "no byte yet" never succeed, an escape takes   *)
(* the bytes after it two (or three) at a time until they make a sequence.   *)
ReadKey(bytes) ==
  LET B(i) == bytes[i]
      read[i \in 2 .. Len(bytes) + 3] ==
        IF i + 1 > Len(bytes) THEN "none"
        ELSE IF B(i) = "[" /\ B(i + 1) \in {"3", "5", "6", "7"}
          THEN IF i + 2 > Len(bytes) THEN "none"
               ELSE IF B(i + 2) = "~" /\ B(i + 1) \in DOMAIN Tilde THEN Tilde[B(i + 1)]
               ELSE read[i + 3]
        ELSE IF B(i) \o B(i + 1) \in DOMAIN Escape THEN Escape[B(i) \o B(i + 1)]
        ELSE read[i + 2]
  IN IF B(1) = "esc" THEN read[2] ELSE B(1)

Keys == {ReadKey(bytes) : bytes \in Inputs} \ {"none"}

(* The handler left the rows and the cursor as in e, or went astray: a window *)
(* left of the text makes the next refresh read before a row.               *)
Becomes(e) ==
  /\ edits' = IF e.row = E.row THEN edits ELSE edits + 1
  /\ IF e.wild \/ e.coloff < 0 THEN mode' = "wild" /\ UNCHANGED E
                               ELSE E' = e /\ UNCHANGED mode

(* Every key but an early return of Ctrl-Q ends by resetting quit_times.    *)
HandledCountKept == UNCHANGED quit_times /\ quits' = 0
Handled == quit_times' = QuitTimes /\ quits' = 0

KeyInsert(key) ==
  /\ mode = "edit" /\ edits < MaxEdits
  /\ key \in Printable \union {"home", "end", "ctrl_d", "ctrl_u"}
  /\ \E junk \in Stale(E) : Becomes(InsertChar(E, key, junk))
  /\ Handled /\ UNCHANGED <<find, disk>>

KeyEnter(key) ==
  /\ mode = "edit" /\ edits < MaxEdits /\ key = "enter"
  /\ \E junk \in Stale(E) : Becomes(InsertNewline(E, junk))
  /\ Handled /\ UNCHANGED <<find, disk>>

KeyErase(key) ==
  /\ mode = "edit" /\ edits < MaxEdits /\ key \in {"backspace", "ctrl_h", "del"}
  /\ \E junk \in Stale(E) : Becomes(DelChar(E, junk))
  /\ Handled /\ UNCHANGED <<find, disk>>

(* Ctrl-C is ignored, and Ctrl-L moves nothing: see Refresh.                *)
KeyMove(key) ==
  /\ mode = "edit"
  /\ \/ key \in {"up", "down", "left", "right"} /\ Becomes(MoveCursor(E, key))
     \/ key = "page_up" /\ Becomes(Page(E, "up"))
     \/ key = "page_down" /\ Becomes(Page(E, "down"))
     \/ key \in {"ctrl_c", "ctrl_l"} /\ Becomes(E)
  /\ Handled /\ UNCHANGED <<find, disk>>

(* Opening the file for writing can fail; what is written is the whole text, *)
(* and the kernel cuts the file where the last write ended.                 *)
KeySaveForgiving(key) ==
  /\ mode = "edit" /\ key = "ctrl_s"
  /\ disk' \in {RowsToString(E), disk} /\ E' = [E EXCEPT !.dirty = FALSE]
  /\ Handled /\ UNCHANGED <<mode, find, edits>>
KeySave(key) ==
  /\ mode = "edit" /\ key = "ctrl_s"
  /\ \/ disk' = RowsToString(E) /\ E' = [E EXCEPT !.dirty = FALSE]
     \/ UNCHANGED <<disk, E>>
  /\ Handled /\ UNCHANGED <<mode, find, edits>>

KeyQuit(key) ==
  /\ mode = "edit" /\ key = "ctrl_q"
  /\ quits' = quits + 1
  /\ IF E.dirty /\ quit_times > 0
       THEN quit_times' = quit_times - 1 /\ UNCHANGED mode
       ELSE mode' = "exit" /\ UNCHANGED quit_times
  /\ UNCHANGED <<E, find, disk, edits>>

KeyFind(key) ==
  /\ mode = "edit" /\ key = "ctrl_f"
  /\ mode' = "find" /\ find' = NoFind /\ quits' = 0
  /\ UNCHANGED <<E, quit_times, disk, edits>>

(* ENTER leaves the search with the cursor where it is, and only then is    *)
(* the handler that started it over.                                        *)
FindEnterLit(key) ==
  /\ mode = "find" /\ key = "enter"
  /\ find' = NoFind /\ mode' = "edit"
  /\ Handled /\ UNCHANGED <<E, disk, edits>>
FindEnter(key) ==
  /\ mode = "find" /\ key = "enter"
  /\ E' = RestoreHl(E, find) /\ find' = NoFind /\ mode' = "edit"
  /\ Handled /\ UNCHANGED <<disk, edits>>

FindKey(key) ==
  /\ mode = "find" /\ key # "enter"
  /\ key \in Printable => Len(find.query) < MaxQuery
  /\ LET r == Search(E, find, key) IN E' = r[1] /\ find' = r[2]
  /\ UNCHANGED <<mode, quit_times, disk, edits, quits>>

(* editorRefreshScreen, before each key is read; `known' is fb_ready.       *)
Refresh(e, known) ==
  LET shadow == IF known THEN fb.shadow ELSE Clear
      shown == IF known THEN screen ELSE Clear
      sent == [y \in Lines |-> Sent(RenderRow(e, y), shadow[y])]
  IN /\ fb' = [ready |-> TRUE, shadow |-> [y \in Lines |-> Painted(sent[y], shadow[y])]]
     /\ screen' = [y \in Lines |-> Painted(sent[y], shown[y])]
     /\ cursor' = <<e.cy + 1, CursorColumn(e)>>

Init ==
  /\ disk \in Files
  /\ E = Open(disk)
  /\ mode = "open"
  /\ find = NoFind
  /\ quit_times = QuitTimes
  /\ fb = [ready |-> FALSE, shadow |-> Clear]
  /\ screen = Junk
  /\ cursor = <<1, 1>>
  /\ edits = 0 /\ quits = 0

(* main, up to the first key.                                               *)
Start ==
  /\ mode = "open"
  /\ mode' = IF E.wild THEN "wild" ELSE "edit"
  /\ Refresh(E, fb.ready)
  /\ UNCHANGED <<E, find, quit_times, disk, edits, quits>>

(* A key is read and handled, and the screen brought up to date for the next. *)
Key ==
  \E key \in Keys :
    /\ \/ KeyInsert(key) \/ KeyEnter(key) \/ KeyErase(key) \/ KeyMove(key) \/ KeySave(key)
       \/ KeyQuit(key) \/ KeyFind(key) \/ FindEnter(key) \/ FindKey(key)
    /\ Refresh(E', ~(mode = "edit" /\ key = "ctrl_l"))

Next == Start \/ Key

Spec == Init /\ [][Next]_vars

-----------------------------------------------------------------------------
(* What the editor promises *)

(* The text changes only where the cursor is and as the key says, whatever   *)
(* the window, the highlighting and the search are doing: the editor         *)
(* implements TextBuffer, the place in it being the sum of window and cursor. *)
Text == INSTANCE TextBuffer WITH
          text <- [i \in 1 .. Len(E.row) |-> E.row[i].chars],
          at <- <<FileRow(E), FileCol(E)>>,
          Space <- " ", Width <- LAMBDA chars : Len(Render(chars)),
          Chars <- Printable \union {"home", "end", "ctrl_d", "ctrl_u"}
ImplementsTextBuffer == Text!Spec

(* A text that does not count as modified is what opening the file gives, or *)
(* what saving it wrote: editorDelRow, editorRowInsertChar and the others    *)
(* all set E.dirty and only a finished save clears it.                       *)
CleanMeansOnDisk ==
  ~E.dirty => \/ disk = RowsToString(E)
              \/ [i \in 1 .. Len(E.row) |-> E.row[i].chars]
                   = (IF disk = NoFile THEN <<>> ELSE Load(disk))

(* While a key is awaited the terminal shows the rows of the window in their *)
(* cached colours, although editorRefreshScreen sends only what differs from *)
(* its shadow, and runs of blanks as an erase.                               *)
TerminalShowsWindow ==
  mode \in {"edit", "find"} => screen = [y \in Lines |-> RenderRow(E, y)]

(* Unsaved changes are given up only after QuitTimes warnings in a row.      *)
QuitIsConfirmed == (mode = "exit" /\ E.dirty) => quits = QuitTimes + 1

(* The cursor leaves the screen in three ways only: ARROW_LEFT from the first *)
(* column of the window's first line, erasing the end of a line into one     *)
(* wider than the screen, and a match at or beyond the screen's width.  And  *)
(* unless the window is scrolled sideways, the terminal's cursor stands on   *)
(* the cell where editorUpdateRow rendered the cursor's character, although  *)
(* editorRefreshScreen counts tabs in a loop of its own.                     *)
OnScreen(e) == e.cx \in 0 .. Cols - 1 /\ e.cy \in 0 .. Rows - 1 /\ e.coloff >= 0
CursorOnCharacter ==
  (/\ mode \in {"edit", "find"} /\ E.coloff = 0
   /\ FileRow(E) < NumRows(E) /\ FileCol(E) <= SizeOf(E, FileRow(E))) =>
    cursor = << E.cy + 1,
                Len(Render(SubSeq(RowAt(E, FileRow(E)).chars, 1, FileCol(E)))) + 1 >>
CursorInPlace ==
  [][/\ CursorOnCharacter'
     /\ OnScreen(E) =>
          \/ OnScreen(E')
          \/ FileCol(E) = 0 /\ E.cy = 0 /\ E.rowoff > 0 /\ E'.cy = -1 /\ E'.rowoff = E.rowoff
          \/ NumRows(E') < NumRows(E) /\ FileCol(E') > Cols
          \/ mode = "find" /\ E'.cx = Cols]_vars

(* No match stays highlighted after the search has ended: the row's cached   *)
(* colours are the saved ones again, however many lines were visited.        *)
NoMatchLeftLit ==
  mode = "edit" => \A i \in 1 .. Len(E.row) :
                     \A k \in 1 .. Len(E.row[i].hl) : E.row[i].hl[k] # "match"
=============================================================================
