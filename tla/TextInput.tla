------------------------------ MODULE TextInput ------------------------------
(***************************************************************************)
(* The text editor behind the address field and the form fields            *)
(* (browser/src/text_input.rs): a text in UTF-8, a caret and the other end *)
(* of a selection as byte offsets, and the rows a text is shown in.        *)
(*                                                                         *)
(* A text is a sequence of characters, each with its bytes and its width;  *)
(* an offset that no character starts or ends at would panic.              *)
(***************************************************************************)
EXTENDS Integers, SequencesExt

CONSTANTS
    Chars,       \* characters other than the line break
    LineBreak,
    BytesOf,     \* character -> bytes
    WidthOf,     \* character -> pixels; the line break has none
    Initial,     \* texts an editor is opened on
    MaxBytes, Width,
    None

VARIABLE edit

Modes == {"single", "multi"}
Size(text) == FoldLeft(LAMBDA n, c : n + BytesOf[c], 0, text)
Measure(text) == FoldLeft(LAMBDA n, c : n + WidthOf[c], 0, text)
Prefix(text, k) == SubSeq(text, 1, k)
(* Characters before an offset.                                            *)
Boundaries(text) == {Size(Prefix(text, k)) : k \in 0 .. Len(text)}
Chars_(text, at) == CHOOSE k \in 0 .. Len(text) : Size(Prefix(text, k)) = at
Slice(text, from, to) == SubSeq(text, Chars_(text, from) + 1, Chars_(text, to))
Before(text, at) == IF at = 0 THEN 0 ELSE Size(Prefix(text, Chars_(text, at) - 1))
After(text, at) ==
    IF at = Size(text) THEN at ELSE Size(Prefix(text, Chars_(text, at) + 1))

LongestWithin(text, limit) ==
    Prefix(text, CHOOSE k \in 0 .. Len(text) :
        /\ Size(Prefix(text, k)) <= limit
        /\ \A j \in k + 1 .. Len(text) : Size(Prefix(text, j)) > limit)
FirstLine(text) ==
    LET breaks == {k \in DOMAIN text : text[k] = LineBreak}
    IN  IF breaks = {} THEN text
        ELSE Prefix(text, (CHOOSE k \in breaks : \A j \in breaks : k <= j) - 1)
New(text, mode) ==
    LET kept == LongestWithin(IF mode = "single" THEN FirstLine(text) ELSE text, MaxBytes)
    IN  [text |-> kept, caret |-> Size(kept), anchor |-> None, mode |-> mode]
Init == \E text \in Initial, mode \in Modes : edit = New(text, mode)

---------------------------------------------------------------------------
(* Changing the text *)

Low(s) == IF s.anchor = None \/ s.anchor > s.caret THEN s.caret ELSE s.anchor
High(s) == IF s.anchor = None \/ s.anchor < s.caret THEN s.caret ELSE s.anchor
Selected(s) == Low(s) # High(s)
Accepts(s, inserted) ==
    /\ s.mode = "single" => LineBreak \notin ToSet(inserted)
    /\ Size(s.text) - (High(s) - Low(s)) + Size(inserted) <= MaxBytes
ReplaceSelection(s, inserted) ==
    IF ~Accepts(s, inserted) THEN s
    ELSE [s EXCEPT !.text = Slice(@, 0, Low(s)) \o inserted \o Slice(@, High(s), Size(@)),
                   !.caret = Low(s) + Size(inserted), !.anchor = None]
Backspace(s) ==
    CASE Selected(s) -> ReplaceSelection(s, <<>>)
      [] ~Selected(s) /\ s.caret = 0 -> s
      [] OTHER -> ReplaceSelection([s EXCEPT !.anchor = Before(s.text, s.caret)], <<>>)
Delete(s) ==
    CASE Selected(s) -> ReplaceSelection(s, <<>>)
      [] ~Selected(s) /\ s.caret = Size(s.text) -> s
      [] OTHER -> ReplaceSelection([s EXCEPT !.anchor = After(s.text, s.caret)], <<>>)
Clear(s) == [s EXCEPT !.text = <<>>, !.caret = 0, !.anchor = None]

---------------------------------------------------------------------------
(* Moving the caret *)

PrepareMove(s, selecting) ==
    [s EXCEPT !.anchor = IF ~selecting THEN None ELSE IF @ = None THEN s.caret ELSE @]
SelectAll(s) == [s EXCEPT !.anchor = 0, !.caret = Size(s.text)]
MoveLeft(s, selecting) ==
    IF ~selecting /\ Selected(s) THEN [s EXCEPT !.caret = Low(s), !.anchor = None]
    ELSE [PrepareMove(s, selecting) EXCEPT !.caret = Before(s.text, s.caret)]
MoveRight(s, selecting) ==
    IF ~selecting /\ Selected(s) THEN [s EXCEPT !.caret = High(s), !.anchor = None]
    ELSE [PrepareMove(s, selecting) EXCEPT !.caret = After(s.text, s.caret)]
Breaks(s) == {Size(Prefix(s.text, k - 1)) : k \in {j \in DOMAIN s.text : s.text[j] = LineBreak}}
MoveHome(s, selecting) ==
    LET starts == {0} \cup {b + 1 : b \in {c \in Breaks(s) : c < s.caret /\ s.mode = "multi"}}
    IN  [PrepareMove(s, selecting) EXCEPT
            !.caret = CHOOSE at \in starts : \A b \in starts : b <= at]
MoveEnd(s, selecting) ==
    LET ends == {Size(s.text)} \cup {b \in Breaks(s) : b >= s.caret /\ s.mode = "multi"}
    IN  [PrepareMove(s, selecting) EXCEPT
            !.caret = CHOOSE at \in ends : \A b \in ends : at <= b]

---------------------------------------------------------------------------
(* Rows *)

(* One character further: a row ends at a line break and before the        *)
(* character that would not fit.                                           *)
Wrapped(rows, c) ==
    LET put == [rows EXCEPT !.at = @ + BytesOf[c]]
        close == Append(rows.done, [from |-> rows.from, to |-> rows.at])
    IN  CASE c = LineBreak -> [put EXCEPT !.done = close, !.from = rows.at + BytesOf[c], !.used = 0]
          [] c # LineBreak /\ rows.used > 0 /\ rows.used + WidthOf[c] > Width ->
                 [put EXCEPT !.done = close, !.from = rows.at, !.used = WidthOf[c]]
          [] OTHER -> [put EXCEPT !.used = @ + WidthOf[c]]
WrapRows(text) ==
    LET last == FoldLeft(Wrapped, [done |-> <<>>, from |-> 0, at |-> 0, used |-> 0], text)
    IN  Append(last.done, [from |-> last.from, to |-> last.at])
(* The boundary of a soft wrap belongs to the row that follows.            *)
RowOf(rows, caret) ==
    CHOOSE r \in DOMAIN rows : /\ rows[r].from <= caret
                               /\ \A q \in r + 1 .. Len(rows) : rows[q].from > caret
Column(text, row, at) == Measure(Slice(text, row.from, at))

(* The first place in the row that is not left of x by more than half the  *)
(* next character; never the end of a row that wraps.                      *)
Places(text, row) == {at \in Boundaries(text) : row.from <= at /\ at <= row.to}
Stops(text, row, x) ==
    {at \in Places(text, row) : at # row.to =>
        Column(text, row, at) + (WidthOf[text[Chars_(text, at) + 1]] \div 2) >= x}
PlaceIn(text, rows, r, x) ==
    LET row == rows[r]
        at == CHOOSE at \in Stops(text, row, x) : \A b \in Stops(text, row, x) : at <= b
        wrapped == r < Len(rows) /\ rows[r + 1].from = row.to
    IN  IF wrapped /\ at = row.to /\ at > row.from THEN Before(text, at) ELSE at
MoveRow(s, down, selecting) ==
    LET rows == WrapRows(s.text)
        r == RowOf(rows, s.caret)
        x == Column(s.text, rows[r], s.caret)
        target == IF down THEN r + 1 ELSE r - 1
        moved == PrepareMove(s, selecting)
    IN  IF target \in DOMAIN rows
        THEN [moved EXCEPT !.caret = PlaceIn(s.text, rows, target, x)]
        ELSE [moved EXCEPT !.caret = IF down THEN Size(s.text) ELSE 0]

(* Where a field of one line begins: back from the caret, a character at a *)
(* time, until one more would push the caret out.                          *)
VisibleStart(text, caret) ==
    LET from[at \in Boundaries(text)] ==
            IF at = 0 \/ Measure(Slice(text, Before(text, at), caret)) > Width THEN at
            ELSE from[Before(text, at)]
    IN  from[caret]

---------------------------------------------------------------------------
(* Keys *)

Type == \E c \in Chars \cup {LineBreak} : edit' = ReplaceSelection(edit, <<c>>)
Erase == edit' \in {Backspace(edit), Delete(edit), Clear(edit)}
Move == \E selecting \in BOOLEAN :
    edit' \in {MoveLeft(edit, selecting), MoveRight(edit, selecting), MoveHome(edit, selecting),
               MoveEnd(edit, selecting), SelectAll(edit)}
Vertical == /\ edit.mode = "multi"
            /\ \E down, selecting \in BOOLEAN : edit' = MoveRow(edit, down, selecting)
Next == Type \/ Erase \/ Move \/ Vertical

---------------------------------------------------------------------------
(* Properties *)

(* Both ends of the selection stay on boundaries of characters of the text *)
(* there is now, the text within its limit and a field of one line on one  *)
(* line: any other offset would panic in the middle of a slice.            *)
EndsOnBoundaries ==
    /\ edit.caret \in Boundaries(edit.text)
    /\ edit.anchor # None => edit.anchor \in Boundaries(edit.text)
    /\ Size(edit.text) <= MaxBytes
    /\ edit.mode = "single" => LineBreak \notin ToSet(edit.text)

(* A character typed and taken back leaves the text and the caret as they  *)
(* were, and so does a step right and back; what a deletion takes to the   *)
(* right, a step right and a backspace take too.                           *)
KeysUndoEachOther ==
    ~Selected(edit) =>
        /\ \A c \in Chars : LET typed == ReplaceSelection(edit, <<c>>) back == Backspace(typed)
                            IN  Accepts(edit, <<c>>) =>
                                    back.text = edit.text /\ back.caret = edit.caret
        /\ edit.caret < Size(edit.text) =>
               MoveLeft(MoveRight(edit, FALSE), FALSE).caret = edit.caret
        /\ Backspace(MoveRight(edit, FALSE)).text = Delete(edit).text
               \/ edit.caret = Size(edit.text)

(* A field of one line shows its caret, and as much of the text before it  *)
(* as there is room for.                                                   *)
CaretIsVisible ==
    LET fits == {at \in Boundaries(edit.text) : at <= edit.caret
                     /\ Measure(Slice(edit.text, at, edit.caret)) <= Width}
        start == VisibleStart(edit.text, edit.caret)
    IN  start \in fits /\ \A at \in fits : start <= at

(* The rows are the text, in order and whole, but for its line breaks;     *)
(* none is wider than the box unless it is one character; and the caret is *)
(* on a row wherever it is, one after a final line break too.              *)
RowsAreTheText ==
    LET rows == WrapRows(edit.text) n == Len(rows) IN
    /\ rows[1].from = 0 /\ rows[n].to = Size(edit.text)
    /\ \A r \in 1 .. n - 1 :
           \/ rows[r + 1].from = rows[r].to
           \/ rows[r + 1].from = rows[r].to + 1 /\ rows[r].to \in Breaks(edit)
    /\ \A r \in 1 .. n : LET row == Slice(edit.text, rows[r].from, rows[r].to) IN
           /\ LineBreak \notin ToSet(row)
           /\ Measure(row) > Width => Len(row) = 1
    /\ edit.caret <= rows[RowOf(rows, edit.caret)].to

(* Up and down end on the neighbouring row, at the place of it that is     *)
(* nearest to where the caret was, and past the last row at an end.        *)
Distance(x, y) == IF x < y THEN y - x ELSE x - y
VerticalMovesAreTrue ==
    edit.mode = "multi" => \A down \in BOOLEAN :
        LET rows == WrapRows(edit.text)
            r == RowOf(rows, edit.caret)
            target == IF down THEN r + 1 ELSE r - 1
            x == Column(edit.text, rows[r], edit.caret)
            to == MoveRow(edit, down, FALSE).caret
        IN  IF target \notin DOMAIN rows THEN to = IF down THEN Size(edit.text) ELSE 0
            ELSE /\ RowOf(rows, to) = target
                 /\ \A at \in Places(edit.text, rows[target]) : RowOf(rows, at) = target =>
                        Distance(Column(edit.text, rows[target], to), x)
                            <= Distance(Column(edit.text, rows[target], at), x)
=============================================================================
