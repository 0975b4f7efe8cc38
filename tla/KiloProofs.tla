----------------------------- MODULE KiloProofs -----------------------------
(***************************************************************************)
(* Proofs about Kilo: unsaved changes are never given up without the        *)
(* warnings, and the terminal shows the window although only differences    *)
(* are sent, whatever the text, the screen, the keys and the search are.    *)
(***************************************************************************)
EXTENDS Kilo, TLAPS

(* While a key is awaited the warnings given and those to come make up       *)
(* QuitTimes.  A search leaves the two out of step, since Ctrl-F starts the   *)
(* count of Ctrl-Qs anew and quit_times follows only when the search ends;   *)
(* but no Ctrl-Q is handled meanwhile.                                       *)
QuitInv ==
  /\ quit_times \in Nat
  /\ quits \in Nat
  /\ mode \in {"open", "edit"} => quits + quit_times = QuitTimes
  /\ QuitIsConfirmed

(* A handler may go astray, but it neither quits nor starts a search.        *)
LEMMA BecomesMode ==
  ASSUME NEW e, Becomes(e)
  PROVE mode' \in {mode, "wild"}
BY DEF Becomes

(* Every key but Ctrl-Q and those of a search starts the count again.        *)
LEMMA OtherKeys ==
  ASSUME QuitInv, mode = "edit", mode' \in {mode, "wild"}, Handled
  PROVE QuitInv'
BY KiloConstants DEF QuitInv, Handled, QuitIsConfirmed

LEMMA EditingKeys ==
  ASSUME QuitInv, NEW key,
         KeyInsert(key) \/ KeyEnter(key) \/ KeyErase(key) \/ KeyMove(key) \/ KeySave(key)
  PROVE QuitInv'
<1>1. mode = "edit" /\ Handled
  BY DEF KeyInsert, KeyEnter, KeyErase, KeyMove, KeySave
<1>2. mode' \in {mode, "wild"}
  <2>1. CASE KeyInsert(key)
    BY <2>1, BecomesMode DEF KeyInsert
  <2>2. CASE KeyEnter(key)
    BY <2>2, BecomesMode DEF KeyEnter
  <2>3. CASE KeyErase(key)
    BY <2>3, BecomesMode DEF KeyErase
  <2>4. CASE KeyMove(key)
    BY <2>4, BecomesMode DEF KeyMove
  <2>5. CASE KeySave(key)
    BY <2>5 DEF KeySave
  <2> QED
    BY <2>1, <2>2, <2>3, <2>4, <2>5
<1> QED
  BY <1>1, <1>2, OtherKeys

(* Ctrl-Q takes a warning from those to come, or exits: with a text that is   *)
(* modified, only when none is left.                                         *)
LEMMA QuitKey ==
  ASSUME QuitInv, NEW key, KeyQuit(key)
  PROVE QuitInv'
<1>1. quits \in Nat /\ quit_times \in Nat /\ quits + quit_times = QuitTimes
  BY DEF KeyQuit, QuitInv
<1>2. mode = "edit" /\ quits' = quits + 1 /\ E' = E
  BY DEF KeyQuit
<1>3. CASE E.dirty /\ quit_times > 0
  <2>1. quit_times' = quit_times - 1 /\ mode' = "edit"
    BY <1>2, <1>3 DEF KeyQuit
  <2> QED
    BY <1>1, <1>2, <1>3, <2>1 DEF QuitInv, QuitIsConfirmed
<1>4. CASE ~(E.dirty /\ quit_times > 0)
  <2>1. mode' = "exit" /\ quit_times' = quit_times
    BY <1>4 DEF KeyQuit
  <2>2. QuitIsConfirmed'
    <3>1. SUFFICES ASSUME E'.dirty PROVE quits' = QuitTimes + 1
      BY DEF QuitIsConfirmed
    <3>2. quit_times = 0
      BY <1>1, <1>2, <1>4, <3>1
    <3> QED
      BY <1>1, <1>2, <3>2, KiloConstants
  <2> QED
    BY <1>1, <1>2, <2>1, <2>2 DEF QuitInv
<1> QED
  BY <1>3, <1>4

LEMMA SearchKeys ==
  ASSUME QuitInv, NEW key, KeyFind(key) \/ FindEnter(key) \/ FindKey(key)
  PROVE QuitInv'
<1>1. CASE KeyFind(key)
  BY <1>1 DEF KeyFind, QuitInv, QuitIsConfirmed
<1>2. CASE FindEnter(key)
  <2>1. quit_times' = QuitTimes /\ quits' = 0 /\ mode' = "edit"
    BY <1>2 DEF FindEnter, Handled
  <2> QED
    BY <2>1, KiloConstants DEF QuitInv, QuitIsConfirmed
<1>3. CASE FindKey(key)
  <2>1. mode = "find" /\ UNCHANGED <<mode, quit_times, quits>>
    BY <1>3 DEF FindKey
  <2> QED
    BY <2>1 DEF QuitInv, QuitIsConfirmed
<1> QED
  BY <1>1, <1>2, <1>3

LEMMA QuitInit ==
  ASSUME Init
  PROVE QuitInv
BY KiloConstants DEF Init, QuitInv, QuitIsConfirmed

LEMMA QuitStep ==
  ASSUME QuitInv, [Next]_vars
  PROVE QuitInv'
<1>1. CASE Start
  <2>1. /\ mode' \in {"wild", "edit"} /\ mode = "open"
        /\ UNCHANGED <<quit_times, quits>>
    BY <1>1 DEF Start
  <2> QED
    BY <2>1 DEF QuitInv, QuitIsConfirmed
<1>2. CASE Key
  <2>1. PICK key \in Keys :
          \/ KeyInsert(key) \/ KeyEnter(key) \/ KeyErase(key) \/ KeyMove(key) \/ KeySave(key)
          \/ KeyQuit(key) \/ KeyFind(key) \/ FindEnter(key) \/ FindKey(key)
    BY <1>2 DEF Key
  <2> QED
    BY <2>1, EditingKeys, QuitKey, SearchKeys
<1>3. CASE UNCHANGED vars
  BY <1>3 DEF vars, QuitInv, QuitIsConfirmed
<1> QED
  BY <1>1, <1>2, <1>3 DEF Next

(* Kilo exits with unsaved changes only after QuitTimes warnings in a row,    *)
(* for every QuitTimes, screen and file and every sequence of keys           *)
(* (kilo_mini.c:1457-1466, 1512).                                            *)
THEOREM QuitsAreConfirmed == Spec => []QuitIsConfirmed
<1>1. Init => QuitInv
  BY QuitInit
<1>2. QuitInv /\ [Next]_vars => QuitInv'
  BY QuitStep
<1>3. QuitInv => QuitIsConfirmed
  BY DEF QuitInv
<1> QED
  BY <1>1, <1>2, <1>3, PTL DEF Spec

-----------------------------------------------------------------------------
(* The screen *)

Window == [y \in Lines |-> RenderRow(E, y)]

(* The text on the terminal and the editor's shadow of it are the window.    *)
ScreenInv ==
  /\ mode = "open" => ~fb.ready
  /\ mode \in {"edit", "find"} => screen = Window /\ fb.shadow = Window

LEMMA RowRendered ==
  ASSUME NEW e, NEW y
  PROVE /\ DOMAIN RenderRow(e, y) = 1 .. Cols
        /\ RenderRow(e, y) = [x \in 1 .. Cols |-> RenderRow(e, y)[x]]
BY DEF RenderRow

(* What is sent for a row turns what was believed to be there into the row    *)
(* wanted: a cell left out is one that does not differ, and a cell erased is  *)
(* one wanted blank.                                                         *)
LEMMA SentMakesRow ==
  ASSUME NEW want, want = [x \in 1 .. Cols |-> want[x]],
         NEW shadow, shadow = [x \in 1 .. Cols |-> shadow[x]]
  PROVE Painted(Sent(want, shadow), shadow) = want
<1> DEFINE differ == {x \in 1 .. Cols : want[x] # shadow[x]}
           tail == BlankTail(want)
           erase == \E x \in tail, z \in differ : x <= z /\ z - x + 1 >= BlankRun
           erased == IF erase THEN tail ELSE {}
           sent == {x \in 1 .. Cols : /\ \E y \in differ : y <= x
                                      /\ x \in erased \/ \E z \in differ : x <= z}
           cells == [x \in sent |-> IF x \in erased THEN Blank ELSE want[x]]
<1>1. Sent(want, shadow) = cells
  BY DEF Sent
<1>2. erased \subseteq {x \in 1 .. Cols : want[x] = Blank}
  <2>1. ASSUME NEW x \in tail
        PROVE x \in 1 .. Cols /\ want[x] = Blank
    <3>1. x \in 1 .. Cols /\ \A z \in x .. Cols : want[z] = Blank
      BY <2>1 DEF BlankTail
    <3>2. x \in x .. Cols
      BY <3>1, KiloConstants
    <3> QED
      BY <3>1, <3>2
  <2> QED
    BY <2>1
<1>3. ASSUME NEW x \in 1 .. Cols, x \notin sent
      PROVE want[x] = shadow[x]
  <2>1. SUFFICES ASSUME x \in differ PROVE FALSE
    OBVIOUS
  <2>2. x \in sent
    BY <2>1, KiloConstants
  <2> QED
    BY <1>3, <2>2
<1>4. ASSUME NEW x \in sent
      PROVE cells[x] = want[x]
  BY <1>2
<1>5. sent \subseteq 1 .. Cols /\ DOMAIN cells = sent /\ DOMAIN shadow = 1 .. Cols
  OBVIOUS
<1> HIDE DEF cells, sent, erased, erase, tail, differ
<1>6. Painted(cells, shadow) = [x \in 1 .. Cols |-> want[x]]
  BY <1>3, <1>4, <1>5 DEF Painted
<1> QED
  BY <1>1, <1>6

(* A refresh leaves the window of e on the terminal and in the shadow, if the *)
(* shadow was right before, or is not relied on.                             *)
LEMMA RefreshShows ==
  ASSUME NEW e, NEW known, Refresh(e, known),
         known => /\ screen = fb.shadow
                  /\ \A y \in Lines : fb.shadow[y] = [x \in 1 .. Cols |-> fb.shadow[y][x]]
  PROVE /\ screen' = [y \in Lines |-> RenderRow(e, y)]
        /\ fb'.shadow = [y \in Lines |-> RenderRow(e, y)]
<1> DEFINE shadow == IF known THEN fb.shadow ELSE Clear
           shown == IF known THEN screen ELSE Clear
           sent == [y \in Lines |-> Sent(RenderRow(e, y), shadow[y])]
<1>1. /\ fb' = [ready |-> TRUE, shadow |-> [y \in Lines |-> Painted(sent[y], shadow[y])]]
      /\ screen' = [y \in Lines |-> Painted(sent[y], shown[y])]
  BY DEF Refresh
<1>2. shown = shadow
  OBVIOUS
<1>3. ASSUME NEW y \in Lines
      PROVE shadow[y] = [x \in 1 .. Cols |-> shadow[y][x]]
  <2>1. CASE known
    BY <2>1
  <2>2. CASE ~known
    BY <2>2 DEF Clear
  <2> QED
    BY <2>1, <2>2
<1> HIDE DEF shadow, shown
<1>4. ASSUME NEW y \in Lines
      PROVE Painted(sent[y], shadow[y]) = RenderRow(e, y)
  BY <1>3, RowRendered, SentMakesRow
<1>5. fb'.shadow = [y \in Lines |-> Painted(sent[y], shadow[y])]
  BY <1>1
<1> QED
  BY <1>1, <1>2, <1>4, <1>5

LEMMA WindowRows ==
  ASSUME NEW y \in Lines
  PROVE Window[y] = [x \in 1 .. Cols |-> Window[y][x]]
BY RowRendered DEF Window

LEMMA ScreenInit ==
  ASSUME Init
  PROVE ScreenInv
BY DEF Init, ScreenInv

LEMMA ScreenStep ==
  ASSUME ScreenInv, [Next]_vars
  PROVE ScreenInv'
<1>1. CASE Start
  <2>1. mode = "open" /\ mode' \in {"wild", "edit"} /\ E' = E /\ Refresh(E, fb.ready)
    BY <1>1 DEF Start
  <2>2. ~fb.ready
    BY <2>1 DEF ScreenInv
  <2>3. screen' = Window /\ fb'.shadow = Window
    BY <2>1, <2>2, RefreshShows DEF Window
  <2>4. Window' = Window
    BY <2>1 DEF Window
  <2> QED
    BY <2>1, <2>3, <2>4 DEF ScreenInv
<1>2. CASE Key
  <2>1. PICK key \in Keys :
          /\ \/ KeyInsert(key) \/ KeyEnter(key) \/ KeyErase(key) \/ KeyMove(key) \/ KeySave(key)
             \/ KeyQuit(key) \/ KeyFind(key) \/ FindEnter(key) \/ FindKey(key)
          /\ Refresh(E', ~(mode = "edit" /\ key = "ctrl_l"))
    BY <1>2 DEF Key
  <2>2. mode \in {"edit", "find"}
    BY <2>1 DEF KeyInsert, KeyEnter, KeyErase, KeyMove, KeySave, KeyQuit, KeyFind, FindEnter,
                FindKey
  <2>3. mode' # "open"
    <3>1. CASE KeyInsert(key) \/ KeyEnter(key) \/ KeyErase(key) \/ KeyMove(key)
      BY <3>1, <2>2, BecomesMode DEF KeyInsert, KeyEnter, KeyErase, KeyMove
    <3>2. CASE KeySave(key) \/ KeyQuit(key) \/ KeyFind(key) \/ FindEnter(key) \/ FindKey(key)
      BY <3>2, <2>2 DEF KeySave, KeyQuit, KeyFind, FindEnter, FindKey
    <3> QED
      BY <2>1, <3>1, <3>2
  <2>4. screen = Window /\ fb.shadow = Window
    BY <2>2 DEF ScreenInv
  <2>5. \A y \in Lines : fb.shadow[y] = [x \in 1 .. Cols |-> fb.shadow[y][x]]
    BY <2>4, WindowRows
  <2>6. screen' = Window' /\ fb'.shadow = Window'
    BY <2>1, <2>4, <2>5, RefreshShows DEF Window
  <2> QED
    BY <2>3, <2>6 DEF ScreenInv
<1>3. CASE UNCHANGED vars
  BY <1>3 DEF vars, ScreenInv, Window
<1> QED
  BY <1>1, <1>2, <1>3 DEF Next

(* Whatever key is handled, in a search or not, the terminal then shows the   *)
(* window of the text cell by cell, for every size of the screen, text and   *)
(* run of blanks worth an erase (kilo_mini.c:1139-1229).                     *)
THEOREM WindowShown == Spec => []TerminalShowsWindow
<1>1. Init => ScreenInv
  BY ScreenInit
<1>2. ScreenInv /\ [Next]_vars => ScreenInv'
  BY ScreenStep
<1>3. ScreenInv => TerminalShowsWindow
  BY DEF ScreenInv, TerminalShowsWindow, Window
<1> QED
  BY <1>1, <1>2, <1>3, PTL DEF Spec
=============================================================================
