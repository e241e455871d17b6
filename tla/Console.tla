------------------------------- MODULE Console -------------------------------
(***************************************************************************)
(* The text console (console.rs): cells, a line that is edited in the last *)
(* of them, and the pixels painted for both.  A call paints only what it   *)
(* thinks it has changed, and a scroll slides what is on the screen; what  *)
(* is missed stays on the screen until something repaints it.              *)
(*                                                                         *)
(* A pixel here is the look of one cell: what it holds, the cursor's block *)
(* or the drawing of another program.  The column after the last is the    *)
(* margin.                                                                 *)
(***************************************************************************)
EXTENDS Integers, SequencesExt

CONSTANTS
    Rows, Columns, TabWidth,
    Prompt,      \* the cells of the prompt
    Letters,     \* characters that are typed
    Lines,       \* lines a program writes
    Reports,     \* lines automount writes
    None

VARIABLE con

Blank == "blank"
Block == "block"
Other == "other"
AllRows == 0 .. Rows - 1
Cells == 0 .. Columns - 1
Width == Len(Prompt)
BlankRow == [c \in Cells |-> Blank]
Least(a, b) == IF a < b THEN a ELSE b
Most(a, b) == IF a > b THEN a ELSE b

---------------------------------------------------------------------------
(* Painting *)

Look(s, row, column) ==
    IF s.visible /\ s.row = row /\ s.column = column THEN Block
    ELSE IF column \in Cells THEN s.cells[row][column] ELSE Blank

DrawSpan(s, row, start, end) ==
    [s EXCEPT !.pixels[row] = [c \in 0 .. Columns |->
        IF start <= c /\ c < end /\ c \in Cells THEN Look(s, row, c) ELSE @[c]]]
DrawCursor(s) == DrawSpan(s, s.row, s.column, s.column + 1)
DrawEdit(s, previous, dirty) ==
    DrawSpan(s, s.row, Least(previous, s.column), Most(dirty, Most(previous, s.column) + 1))
Redraw(s) ==
    [s EXCEPT !.pixels = [r \in AllRows |-> [c \in 0 .. Columns |-> Look(s, r, c)]]]

(* The copy carries what was on the screen; the rows it frees still show   *)
(* what they did.  Without it everything is painted.                       *)
Slid(s, n) ==
    [s EXCEPT !.pixels = [r \in AllRows |-> IF r + n \in AllRows THEN @[r + n] ELSE @[r]]]
ScrollScreen(s, n, from) ==
    {Redraw(s)} \cup
    IF n >= Rows \/ from <= 0 THEN {}
    ELSE {FoldLeft(LAMBDA t, r : DrawSpan(t, r, 0, Columns), Slid(s, n),
                   [i \in 1 .. Rows - from |-> from + i - 1])}

ShowCursor(s) == IF s.visible THEN s ELSE DrawCursor([s EXCEPT !.visible = TRUE])
BlinkCursor(s) == DrawCursor([s EXCEPT !.visible = ~@])

---------------------------------------------------------------------------
(* Rows *)

AdvanceRow(s) ==
    LET next == [s EXCEPT !.column = 0, !.end = 0]
    IN  IF s.row + 1 < Rows THEN [next EXCEPT !.row = @ + 1]
        ELSE [next EXCEPT !.cells = [r \in AllRows |-> IF r + 1 < Rows THEN @[r + 1] ELSE BlankRow]]
Scrolls(s) == IF s.row + 1 < Rows THEN 0 ELSE 1

Clear(s) ==
    Redraw([s EXCEPT !.cells = [r \in AllRows |-> BlankRow], !.column = 0, !.row = 0, !.end = 0,
                     !.cr = FALSE, !.visible = TRUE])

(* One character of output, and the row it may complete.                   *)
Written(w, character) ==
    LET put == [w.s EXCEPT !.cells[w.s.row][w.s.column] = character, !.column = @ + 1]
        widest == Most(w.widest, put.column)
    IN  IF put.column < Columns THEN [w EXCEPT !.s = put, !.widest = widest]
        ELSE [s |-> AdvanceRow(put), scrolled |-> w.scrolled + Scrolls(put), widest |-> widest]

WriteOutputLine(s, text) ==
    LET w == FoldLeft(Written, [s |-> [s EXCEPT !.column = 0], scrolled |-> 0, widest |-> 0], text)
        after == AdvanceRow(w.s)
        scrolled == w.scrolled + Scrolls(w.s)
        painted == FoldLeft(LAMBDA t, r : DrawSpan(t, r, 0, w.widest), after,
                            [i \in 1 .. after.row - s.row |-> s.row + i - 1])
    IN  IF scrolled > 0 THEN ScrollScreen(after, scrolled, s.row - scrolled)
        ELSE {DrawCursor(painted)}

SetPromptCells(s) ==
    [s EXCEPT !.cells[s.row] = [c \in Cells |-> IF c < Width THEN Prompt[c + 1] ELSE @[c]],
              !.column = Width, !.end = Width]
WritePrompt(s) ==
    LET t == SetPromptCells(s) IN DrawSpan(t, t.row, 0, t.column + 1)

---------------------------------------------------------------------------
(* Editing the line *)

TextOf(s) == [i \in 1 .. s.end - Width |-> s.cells[s.row][Width + i - 1]]

Put(s, character) ==
    IF s.end = Columns THEN s
    ELSE LET t == [s EXCEPT !.cells[s.row] = [c \in Cells |->
                        CASE c = s.column -> character
                          [] s.column < c /\ c <= s.end -> @[c - 1]
                          [] OTHER -> @[c]],
                      !.column = @ + 1, !.end = @ + 1]
         IN  DrawEdit(t, s.column, t.end)
RemoveAtCursor(s) ==
    [s EXCEPT !.cells[s.row] = [c \in Cells |->
                    CASE s.column <= c /\ c < s.end - 1 -> @[c + 1]
                      [] c = s.end - 1 -> Blank
                      [] OTHER -> @[c]],
              !.end = @ - 1]
Backspace(s) ==
    IF s.column <= Width THEN s
    ELSE DrawEdit(RemoveAtCursor([s EXCEPT !.column = @ - 1]), s.column, s.end)
Delete(s) ==
    IF s.column >= s.end THEN s ELSE DrawEdit(RemoveAtCursor(s), s.column, s.end)
ClearInputLine(s) ==
    IF s.end = Width /\ s.column = Width THEN s
    ELSE DrawEdit([s EXCEPT !.cells[s.row] = [c \in Cells |->
                                IF Width <= c /\ c < s.end THEN Blank ELSE @[c]],
                            !.column = Width, !.end = Width], s.column, s.end)
MoveCursor(s, column) ==
    LET to == Least(Most(column, Width), s.end)
    IN  IF to = s.column THEN s ELSE DrawEdit([s EXCEPT !.column = to], s.column, 0)
Tab(s) == FoldLeft(Put, s, [i \in 1 .. TabWidth - (s.column % TabWidth) |-> "space"])

(* The row the line was on keeps it, but for the cursor's block.           *)
Submit(s) ==
    LET after == AdvanceRow([s EXCEPT !.pending = TextOf(s)])
    IN  IF Scrolls(s) = 1 THEN ScrollScreen(after, 1, s.row - 1)
        ELSE {DrawCursor(DrawSpan(after, s.row, s.column, s.column + 1))}

PushKey(s, key) ==
    LET t == ShowCursor(s)
        r == [t EXCEPT !.cr = FALSE]
    IN  CASE key \in Letters -> {Put(r, key)}
          [] key = "cr" -> {[x EXCEPT !.cr = TRUE] : x \in Submit(t)}
          [] key = "lf" -> IF t.cr THEN {r} ELSE Submit(r)
          [] key = "backspace" -> {Backspace(r)}
          [] key = "tab" -> {Tab(r)}
          [] key = "escape" -> {ClearInputLine(t)}
          [] key = "left" -> {MoveCursor(t, t.column - 1)}
          [] key = "right" -> {MoveCursor(t, t.column + 1)}
          [] key = "home" -> {MoveCursor(t, Width)}
          [] key = "end" -> {MoveCursor(t, t.end)}
          [] key = "delete" -> {Delete(t)}
          [] key = "up" -> {t}
Keys == Letters \cup {"cr", "lf", "backspace", "tab", "escape", "left", "right", "home", "end",
                      "delete", "up"}

(* The line is lifted off its row for a report, and put back after it.     *)
TakeInputLine(s) ==
    DrawSpan([s EXCEPT !.cells[s.row] = [c \in Cells |-> IF c < s.end THEN Blank ELSE @[c]],
                       !.column = 0, !.end = 0], s.row, 0, Most(s.end, s.column + 1))
RestoreInputLine(s, text, cursor) ==
    LET p == SetPromptCells(s)
        t == [p EXCEPT !.cells[p.row] = [c \in Cells |->
                            IF c - Width + 1 \in DOMAIN text THEN text[c - Width + 1] ELSE @[c]],
                       !.end = Width + Len(text), !.column = Least(Width + cursor, Width + Len(text)),
                       !.visible = TRUE]
    IN  DrawSpan(t, t.row, 0, Most(t.end, t.column + 1))

---------------------------------------------------------------------------
(* The loop at the prompt (app.rs), where the reader's line is followed    *)
(* beside it: what it holds and where in it the cursor is.                 *)

Edited(l, key) ==
    LET full == Len(l.text) = Columns - Width
        at == l.at
    IN  CASE key \in Letters \cup {"space"} ->
                 IF full THEN l ELSE [text |-> InsertAt(l.text, at + 1, key), at |-> at + 1]
          [] key = "backspace" -> IF at = 0 THEN l ELSE [text |-> RemoveAt(l.text, at), at |-> at - 1]
          [] key = "delete" -> IF at = Len(l.text) THEN l ELSE [text |-> RemoveAt(l.text, at + 1), at |-> at]
          [] key = "escape" -> [text |-> <<>>, at |-> 0]
          [] key = "left" -> [l EXCEPT !.at = IF @ = 0 THEN 0 ELSE @ - 1]
          [] key = "right" -> [l EXCEPT !.at = IF @ = Len(l.text) THEN @ ELSE @ + 1]
          [] key = "home" -> [l EXCEPT !.at = 0]
          [] key = "end" -> [l EXCEPT !.at = Len(l.text)]
          [] OTHER -> l
Typed(l, key) ==
    IF key # "tab" THEN Edited(l, key)
    ELSE FoldLeft(Edited, l, [i \in 1 .. TabWidth - ((Width + l.at) % TabWidth) |-> "space"])

NoLine == [text |-> <<>>, at |-> 0]
At(mode) == con.mode = mode

(* The boot messages are still on the screen's way: the console comes up   *)
(* as it does after every other program.                                   *)
Init ==
    LET cells == [r \in AllRows |-> BlankRow]
        s == [cells |-> cells, pixels |-> [r \in AllRows |-> [c \in 0 .. Columns |-> Other]],
              column |-> 0, row |-> 0, end |-> 0, cr |-> FALSE, visible |-> TRUE,
              pending |-> None, line |-> NoLine, mode |-> "away"]
    IN  con = s

Return == At("away") /\ con' = [Clear(con) EXCEPT !.mode = "runs", !.line = NoLine]
Output(text) == At("runs") /\ con' \in WriteOutputLine(con, text)
ClearCommand == At("runs") /\ con' = Clear(con)
Leave ==
    /\ At("runs")
    /\ con' = [con EXCEPT !.mode = "away", !.pending = None,
                          !.pixels = [r \in AllRows |-> [c \in 0 .. Columns |-> Other]]]
Finish ==
    /\ At("runs")
    /\ con' = [WritePrompt(con) EXCEPT !.mode = "prompt", !.pending = None, !.line = NoLine]

Key(key) ==
    /\ At("prompt")
    /\ \E s \in PushKey(con, key) :
        con' = [s EXCEPT !.line = Typed(@, key), !.mode = IF s.pending = None THEN "prompt" ELSE "runs"]
Blink == At("prompt") /\ con' = BlinkCursor(con)
Report(text) ==
    /\ At("prompt")
    /\ \E s \in WriteOutputLine(TakeInputLine(con), text) :
        con' = RestoreInputLine(s, TextOf(con), con.column - Width)

Next ==
    \/ Return \/ ClearCommand \/ Leave \/ Finish \/ Blink
    \/ \E text \in Lines : Output(text)
    \/ \E key \in Keys : Key(key)
    \/ \E text \in Reports : Report(text)

Spec == Init /\ [][Next]_con

---------------------------------------------------------------------------
(* Properties *)

(* Whatever was typed, written, scrolled or reported, the screen shows the *)
(* cells and the one cursor, and nothing of what was there before: "so the *)
(* two never drift apart" (console.rs).  It holds while no line is empty.  *)
ScreenShowsCells ==
    ~At("away") =>
        \A r \in AllRows :
            /\ \A c \in Cells : con.pixels[r][c] = Look(con, r, c)
            /\ con.pixels[r][Columns] = Blank

(* The row at the prompt is the line as it was typed and edited, with the  *)
(* cursor where it was moved, although reports are written in between; and *)
(* Enter hands over that line and nothing else.                            *)
LineIsWhatWasTyped ==
    /\ At("prompt") =>
        /\ TextOf(con) = con.line.text /\ con.column = Width + con.line.at
        /\ \A c \in Cells : con.cells[con.row][c] =
               CASE c < Width -> Prompt[c + 1]
                 [] c >= Width /\ c < con.end -> con.line.text[c - Width + 1]
                 [] OTHER -> Blank
    /\ con.pending # None => con.pending = con.line.text

(* A line that is written ends up above the cursor, cut into rows, in      *)
(* order, with nothing else in them, and leaves a blank row to go on with. *)
OutputIsWrapped ==
    At("runs") => \A text \in Lines : \A s \in WriteOutputLine(con, text) :
        LET n == (Len(text) \div Columns) + 1
            of(r) == SubSeq(text, (r - 1) * Columns + 1, Least(r * Columns, Len(text)))
        IN  /\ s.cells[s.row] = BlankRow /\ s.column = 0
            /\ \A r \in 1 .. n : s.row - 1 - (n - r) >= 0 =>
                   \A c \in Cells : s.cells[s.row - 1 - (n - r)][c] =
                       IF c + 1 \in DOMAIN of(r) THEN of(r)[c + 1] ELSE Blank
=============================================================================
