------------------------------- MODULE Layout -------------------------------
(***************************************************************************)
(* From blocks to lines and boxes on a page, and from a point of the page  *)
(* back to what is there: browser/src/layout.rs.                           *)
(*                                                                         *)
(* A step lays out one block, one table, or one page of finished bands.    *)
(* A text is a sequence of characters; a position is the number of         *)
(* characters before it.  Glyphs are a few pixels wide, a line of text is  *)
(* TextHeight high.                                                        *)
(***************************************************************************)
EXTENDS Integers, FiniteSets, SequencesExt

CONSTANTS
    Chars, Space, LineBreak, Combining,
    NoStart, NoEnd,      \* characters that begin, or end, no line
    Width(_, _),         \* a character's advance in a face
    Shift,               \* MAX_KINSOKU_SHIFT
    MaxText, Budget, TextHeight,
    Mixed,               \* whether a block without controls mixes faces
    Controls,            \* sequences of controls to stand in a block
    Grids,               \* tables, as sequences of cells
    Available, Floor, Padding,
    Bands, MaxBands,
    None

VARIABLE layout

Faces == {"sans", "mono"}
TotalOf(f, S) == FoldSet(LAMBDA k, sum : sum + f[k], 0, S)

---------------------------------------------------------------------------
(* Where a line ends: greedy, by pixels.  text is what is still to be      *)
(* placed; face gives a character's face, counted from its beginning.      *)

CharWidth(text, face, k) ==
    IF k < Len(text) /\ text[k] # Combining /\ text[k + 1] = Combining THEN Width(text[k], "mono")
    ELSE Width(text[k], face[k])
Forbidden(text, end, next) ==
    \/ next < Len(text) /\ text[next + 1] \in NoStart
    \/ end > 0 /\ text[end] \in NoEnd
Kinsoku(text, end, next) ==
    LET better == {c \in (end - Shift) .. (end - 1) : c > 0 /\ ~Forbidden(text, c, c)}
    IN  IF Forbidden(text, end, next) /\ better # {} THEN <<Max(better), Max(better)>>
        ELSE <<end, next>>
(* The end of the line and the beginning of the next one.  At least one    *)
(* character is taken.                                                     *)
NextLine(text, face, budget, pre) ==
    LET widths == [k \in DOMAIN text |-> CharWidth(text, face, k)]
        full == {k \in 2 .. Len(text) : TotalOf(widths, 1 .. k) > budget}
        stops == full \cup {k \in DOMAIN text : text[k] = LineBreak}
        stop == Min(stops)
        spaces == {k \in 2 .. (stop - 1) : text[k] = Space /\ ~pre}
        cut == IF spaces = {} THEN <<stop - 1, stop - 1>> ELSE <<Max(spaces) - 1, Max(spaces)>>
    IN  IF stops = {} THEN <<Len(text), Len(text)>>
        ELSE IF text[stop] = LineBreak \/ (text[stop] = Space /\ ~pre) THEN <<stop - 1, stop>>
        ELSE IF pre THEN cut ELSE Kinsoku(text, cut[1], cut[2])

---------------------------------------------------------------------------
(* Pieces: a line cut where the style changes, but never before a          *)
(* combining mark.                                                         *)

RunAt(runs, at) == CHOOSE r \in DOMAIN runs : runs[r].start < at /\ at <= runs[r].end
Faced(runs, pre, at) == IF pre THEN "mono" ELSE runs[RunAt(runs, at)].face
Stretch(text, to, end) ==
    LET stays == {k \in (to + 1) .. end : text[k] # Combining}
    IN  IF stays = {} THEN end ELSE Min(stays) - 1
PieceWidth(text, face, from, to) ==
    LET slice == SubSeq(text, from + 1, to)
    IN  TotalOf([k \in DOMAIN slice |-> CharWidth(slice, [j \in DOMAIN slice |-> face], k)],
                DOMAIN slice)
PushPieces(text, runs, start, end, pre) ==
    LET Push(done, run) ==
            LET from == Max({run.start, start, done.to})
                low == Min({run.end, end})
                to == IF low < end THEN Stretch(text, low, end) ELSE low
                width == PieceWidth(text, IF pre THEN "mono" ELSE run.face, from, to)
            IN  IF from >= low THEN done
                ELSE [to |-> to, x |-> done.x + width,
                      pieces |-> Append(done.pieces,
                          [x |-> done.x, width |-> width, start |-> from, end |-> to,
                           face |-> run.face])]
    IN  FoldLeft(Push, [to |-> start, x |-> 0, pieces |-> <<>>], runs)

---------------------------------------------------------------------------
(* A block of text alone.  The faces a later line is measured with are     *)
(* those of the block's first characters.                                  *)

PlaceText(b) ==
    LET Measured(at) == [k \in 1 .. (Len(b.text) - at) |-> Faced(b.runs, b.pre, k)]
        Line(at, r, y) == [y |-> y, controls |-> <<>>,
                           pieces |-> PushPieces(b.text, b.runs, at, at + r[1], b.pre).pieces]
        From[at \in 0 .. Len(b.text), y \in 0 .. (TextHeight * Len(b.text))] ==
            LET r == NextLine(SubSeq(b.text, at + 1, Len(b.text)), Measured(at), Budget, b.pre)
            IN  IF at + r[2] >= Len(b.text) THEN <<Line(at, r, y)>>
                ELSE <<Line(at, r, y)>> \o From[at + r[2], y + TextHeight]
    IN  From[0, 0]

(* A block with controls among its text: one flow.  s is where it stands.  *)
FinishInlineLine(s) ==
    LET height == Max({TextHeight} \cup {s.controls[k].height : k \in DOMAIN s.controls})
        Drawn(c) == [control |-> c.control, x |-> c.x, width |-> c.width, height |-> c.height,
                     y |-> s.y + (height - c.height) \div 2]
        line == [y |-> s.y + (height - TextHeight) \div 2, pieces |-> s.pieces,
                 controls |-> [k \in DOMAIN s.controls |-> Drawn(s.controls[k])]]
    IN  [s EXCEPT !.lines = Append(@, line), !.y = @ + height, !.x = 0, !.pieces = <<>>,
                  !.controls = <<>>, !.visible = FALSE]
FinishIf(full, s) == IF full THEN FinishInlineLine(s) ELSE s
(* A line's worth of text, r of it, put where the flow stands.             *)
PutPieces(t, r, pushed) ==
    LET moved == [k \in DOMAIN pushed.pieces |-> [pushed.pieces[k] EXCEPT !.x = @ + t.x]]
    IN  [t EXCEPT !.pieces = @ \o moved, !.x = @ + pushed.x, !.cursor = @ + r[2],
                  !.visible = @ \/ moved # <<>>]
PutText(b, t, end) ==
    LET text == SubSeq(b.text, t.cursor + 1, end)
        face == [k \in DOMAIN text |-> Faced(b.runs, FALSE, t.cursor + k)]
        Put(r) == FinishIf(r[2] < Len(text),
                      PutPieces(t, r, PushPieces(b.text, b.runs, t.cursor, t.cursor + r[1], FALSE)))
    IN  Put(NextLine(text, face, Max({1, Budget - t.x}), FALSE))
RECURSIVE PlaceInlineText(_, _, _)
PlaceInlineText(b, s, end) ==
    IF s.cursor >= end THEN s
    ELSE PlaceInlineText(b, PutText(b, FinishIf(s.x >= Budget /\ s.visible, s), end), end)
PutControl(b, s, c) ==
    LET width == Min({b.controls[c].width, Budget})
    IN  [s EXCEPT !.controls = Append(@, [control |-> c, x |-> s.x, width |-> width,
                                          height |-> b.controls[c].height]),
                  !.x = @ + width, !.visible = TRUE]
PlaceControl(b, s, c) ==
    LET control == b.controls[c]
        Full(t) == t.visible /\ t.x + Min({control.width, Budget}) > Budget
        Put(t) == IF control.hidden THEN t ELSE PutControl(b, FinishIf(Full(t), t), c)
    IN  Put(PlaceInlineText(b, s, Max({control.at, s.cursor})))
PlaceInlineRegion(b) ==
    LET start == [cursor |-> 0, x |-> 0, y |-> 0, pieces |-> <<>>, controls |-> <<>>,
                  visible |-> FALSE, lines |-> <<>>]
        Ended(s) == FinishIf(s.visible, s).lines
        placed == FoldLeft(LAMBDA s, c : PlaceControl(b, s, c), start,
                           [k \in DOMAIN b.controls |-> k])
    IN  Ended(PlaceInlineText(b, placed, Len(b.text)))
PlaceBlock(b) == IF b.controls = <<>> THEN PlaceText(b) ELSE PlaceInlineRegion(b)

Cut(text, at, first, second) ==
    SelectSeq(<<[start |-> 0, end |-> at, face |-> first],
                [start |-> at, end |-> Len(text), face |-> second]>>,
              LAMBDA run : run.end > run.start)
LayBlock ==
    /\ layout = None
    /\ \E text \in BoundedSeq(Chars, MaxText), at \in 0 .. MaxText, first, second \in Faces,
          pre \in BOOLEAN, controls \in Controls :
        /\ text # <<>> /\ at < Len(text)
        /\ (at = 0 => first = second) /\ (at > 0 => first # second)
        /\ controls # <<>> => ~pre /\ Len(text) < MaxText
        /\ ~Mixed /\ controls = <<>> => at = 0
        /\ \A c \in DOMAIN controls : controls[c].at <= Len(text)
        /\ LET b == [text |-> text, runs |-> Cut(text, at, first, second), pre |-> pre,
                     controls |-> controls]
           IN  layout' = [kind |-> "block", block |-> b, lines |-> PlaceBlock(b)]

---------------------------------------------------------------------------
(* Tables.  A cell: row, column, spans, the width it would like and the    *)
(* pixels its contents take.                                               *)

Spread(widths, amount) ==
    [k \in DOMAIN widths |-> widths[k] + amount \div Len(widths)
                             + IF k <= amount % Len(widths) THEN 1 ELSE 0]
FitColumns(widths) ==
    LET minimum == Floor * Len(widths)
        total == TotalOf(widths, DOMAIN widths)
        shrunk == [k \in DOMAIN widths |->
                      Floor + ((widths[k] - Floor) * (Available - minimum)) \div (total - minimum)]
        left == Available - TotalOf(shrunk, DOMAIN shrunk)
    IN  IF minimum >= Available THEN Spread([k \in DOMAIN widths |-> 0], Available)
        ELSE IF total <= Available THEN widths
        ELSE [k \in DOMAIN widths |-> shrunk[k] + IF k <= left THEN 1 ELSE 0]
Columns(cell) == cell.column .. (cell.column + cell.colspan - 1)
RowsIn(cell, rows) == cell.row .. Min({cell.row + cell.rowspan - 1, rows})
ColumnCount(cells) == Max({cells[k].column + cells[k].colspan - 1 : k \in DOMAIN cells})
RowCount(cells) == Max({cells[k].row : k \in DOMAIN cells})
(* Cells of one column first, then the wider ones, each in order.          *)
Asked(cells) ==
    LET Ask(widths, cell) ==
            LET current == TotalOf(widths, Columns(cell))
                missing == cell.prefers - current
                offset == [k \in Columns(cell) |-> k - cell.column]
            IN  IF missing <= 0 THEN widths
                ELSE [k \in DOMAIN widths |->
                         IF k \notin Columns(cell) THEN widths[k]
                         ELSE widths[k] + missing \div cell.colspan
                              + IF offset[k] < missing % cell.colspan THEN 1 ELSE 0]
        single == SelectSeq(cells, LAMBDA cell : cell.colspan = 1)
        wide == SelectSeq(cells, LAMBDA cell : cell.colspan > 1)
    IN  FoldLeft(Ask, [k \in 1 .. ColumnCount(cells) |-> Floor], single \o wide)
CellWidth(cell, widths) == TotalOf(widths, Columns(cell))
Needed(cell, widths) ==
    LET room == Max({1, CellWidth(cell, widths) - 2 * Padding})
    IN  TextHeight * ((cell.area + room - 1) \div room) + 2 * Padding
RowHeights(cells, widths) ==
    LET rows == RowCount(cells)
        Grow(heights, cell) ==
            LET spanned == RowsIn(cell, rows)
                missing == Needed(cell, widths) - TotalOf(heights, spanned)
            IN  IF missing <= 0 THEN heights ELSE [heights EXCEPT ![Max(spanned)] = @ + missing]
        low == SelectSeq(cells, LAMBDA cell : cell.rowspan = 1)
        high == SelectSeq(cells, LAMBDA cell : cell.rowspan > 1)
    IN  FoldLeft(Grow, [k \in 1 .. rows |-> TextHeight + 2 * Padding], low \o high)
PlaceTable(cells) ==
    LET widths == FitColumns(Asked(cells))
        heights == RowHeights(cells, widths)
    IN  [k \in DOMAIN cells |->
            [x |-> TotalOf(widths, 1 .. (cells[k].column - 1)),
             y |-> TotalOf(heights, 1 .. (cells[k].row - 1)),
             width |-> CellWidth(cells[k], widths),
             height |-> TotalOf(heights, RowsIn(cells[k], RowCount(cells))),
             needed |-> Needed(cells[k], widths)]]
LayTable ==
    /\ layout = None
    /\ \E cells \in Grids : layout' = [kind |-> "table", boxes |-> PlaceTable(cells)]

---------------------------------------------------------------------------
(* A finished page: bands one below the other, each an image or lines of   *)
(* text side by side.  A thing takes one position of the text.             *)

Stack(bands) ==
    LET Add(page, band) ==
            LET top == page.height + band.gap
                Line(k) == [y |-> top + band.items[k].dy, x |-> band.items[k].x,
                            width |-> band.items[k].width, link |-> band.items[k].link,
                            start |-> page.at + k - 1]
                lines == [k \in DOMAIN band.items |-> Line(k)]
                image == [y |-> top, x |-> 0, width |-> band.width, height |-> band.height,
                          link |-> band.link, start |-> page.at]
            IN  IF band.image
                THEN [page EXCEPT !.images = Append(@, image), !.height = top + band.height,
                                  !.at = @ + 1]
                ELSE [page EXCEPT !.lines = @ \o lines, !.at = @ + Len(lines),
                                  !.height = Max({l.y + TextHeight : l \in {lines[k] : k \in DOMAIN lines}})]
    IN  FoldLeft(Add, [lines |-> <<>>, images |-> <<>>, height |-> 0, at |-> 0], bands)
LayPage ==
    /\ layout = None
    /\ \E bands \in BoundedSeq(Bands, MaxBands) \ {<<>>} : layout' = [kind |-> "page", page |-> Stack(bands)]

(* The number of lines that come before the first one that is not P.       *)
LinesAbove(lines, y) == Cardinality({k \in DOMAIN lines : lines[k].y < y})
Visible(page, top, height) ==
    LET lines == page.lines
        low == LinesAbove(lines, top)
        start == Max({k \in 0 .. low : k = 0 \/ lines[k].y + TextHeight <= top})
        first == IF start < Len(lines) THEN LinesAbove(lines, lines[start + 1].y) ELSE start
    IN  first + 1 .. LinesAbove(lines, top + height)

InImage(image, x, y) ==
    /\ x \in image.x .. (image.x + image.width - 1)
    /\ y \in image.y .. (image.y + image.height - 1)
InLine(line, x, y) ==
    /\ x \in line.x .. (line.x + line.width - 1)
    /\ y \in line.y .. (line.y + TextHeight - 1)
Hit(page, x, y) ==
    LET images == {k \in DOMAIN page.images : InImage(page.images[k], x, y)
                                              /\ page.images[k].link # None}
        lines == {k \in DOMAIN page.lines : InLine(page.lines[k], x, y)
                                            /\ page.lines[k].link # None}
    IN  IF images # {} THEN page.images[Min(images)].link
        ELSE IF lines # {} THEN page.lines[Max(lines)].link ELSE None

Things(page) == {page.lines[k] : k \in DOMAIN page.lines}
                \cup {page.images[k] : k \in DOMAIN page.images}
Before(a, b) == a.y < b.y \/ (a.y = b.y /\ a.x < b.x)
LinkOrder(page) ==
    LET linked == SetToSortSeq({t \in Things(page) : t.link # None}, Before)
        Add(order, t) == IF Contains(order, t.link) THEN order ELSE Append(order, t.link)
    IN  FoldLeft(Add, <<>>, linked)

(* The thing at the top of the screen, and how far below its top.          *)
ReadingPosition(page, y) ==
    LET above == {t \in Things(page) : t.y <= y}
        best == CHOOSE t \in above : \A u \in above : u.y < t.y \/ (u.y = t.y /\ u.start <= t.start)
    IN  IF above = {} THEN [start |-> 0, offset |-> y]
        ELSE [start |-> best.start, offset |-> y - best.y]
YOfReadingPosition(page, position) ==
    LET there == {t \in Things(page) : t.start = position.start}
    IN  position.offset + IF there = {} THEN 0 ELSE (CHOOSE t \in there : TRUE).y

Init == layout = None
Next == LayBlock \/ LayTable \/ LayPage
Spec == Init /\ [][Next]_layout

---------------------------------------------------------------------------
(* Properties *)

OfKind(kind) == layout # None /\ layout.kind = kind
Places == UNION {{<<l, p>> : p \in DOMAIN layout.lines[l].pieces} : l \in DOMAIN layout.lines}
Piece(place) == layout.lines[place[1]].pieces[place[2]]
Earlier(a, b) == a[1] < b[1] \/ (a[1] = b[1] /\ a[2] < b[2])
Shown(at) == {a \in Places : Piece(a).start < at /\ at <= Piece(a).end}
(* Every character of a block is in one piece, in the face it has unless a *)
(* mark was combined with it; only blanks where a line ends are in none.   *)
TextIsKept ==
    OfKind("block") =>
        LET b == layout.block IN
        /\ \A c, d \in Places : Earlier(c, d) => Piece(c).end <= Piece(d).start
        /\ \A at \in DOMAIN b.text :
            /\ Shown(at) = {} => b.text[at] \in {Space, LineBreak}
            /\ \A c \in Shown(at) : \/ Piece(c).face = b.runs[RunAt(b.runs, at)].face
                                    \/ b.text[at] = Combining

TextEnd(line) == IF line.pieces = <<>> THEN 0 ELSE Last(line.pieces).x + Last(line.pieces).width
(* No line of text is wider than the page, when more than one character is *)
(* on it ("characters are added until the next one would not fit"); after  *)
(* a control one character may pass the edge.                              *)
LinesFit ==
    OfKind("block") => \A k \in DOMAIN layout.lines :
        LET line == layout.lines[k] IN
        \/ TextEnd(line) <= Budget
        \/ \E p \in DOMAIN line.pieces :
               LET piece == line.pieces[p]
               IN  /\ p = Len(line.pieces)
                   /\ Cardinality({at \in piece.start + 1 .. piece.end :
                                      layout.block.text[at] # Combining}) = 1
                   /\ piece.x < Budget

Apart(a, b) == a.x + a.width <= b.x \/ b.x + b.width <= a.x
(* What stands on a line stands side by side, and no line over another.    *)
NothingLiesOver ==
    /\ OfKind("block") => \A k \in DOMAIN layout.lines :
        LET line == layout.lines[k] IN
        /\ \A p \in DOMAIN line.pieces, q \in DOMAIN line.pieces :
               p # q => Apart(line.pieces[p], line.pieces[q])
        /\ \A c \in DOMAIN line.controls : /\ line.controls[c].x + line.controls[c].width <= Budget
               /\ \A p \in DOMAIN line.pieces : Apart(line.controls[c], line.pieces[p])
        /\ k < Len(layout.lines) =>
               LET next == layout.lines[k + 1]
                   bottoms == {line.y + TextHeight}
                       \cup {line.controls[c].y + line.controls[c].height : c \in DOMAIN line.controls}
                   tops == {next.y} \cup {next.controls[c].y : c \in DOMAIN next.controls}
               IN  Max(bottoms) <= Min(tops)
    /\ OfKind("table") => \A j, k \in DOMAIN layout.boxes :
        LET a == layout.boxes[j] b == layout.boxes[k]
        IN  j # k => Apart(a, b) \/ a.y + a.height <= b.y \/ b.y + b.height <= a.y

(* A table is no wider than the page, and what is in a cell fits it.       *)
TableFitsThePage ==
    OfKind("table") => \A k \in DOMAIN layout.boxes :
        LET box == layout.boxes[k]
        IN  box.x + box.width <= Available /\ box.needed <= box.height

Points == (0 .. Available) \X (0 .. layout.page.height)
Under(x, y) == {t \in Things(layout.page) :
                   IF t \in {layout.page.lines[k] : k \in DOMAIN layout.page.lines}
                   THEN InLine(t, x, y) ELSE InImage(t, x, y)}
(* A tap opens the link that is drawn there, and Tab goes from link to     *)
(* link as they stand, stopping at each once.                              *)
LinksAreWhereTheyAreDrawn ==
    OfKind("page") =>
        /\ \A p \in Points : {Hit(layout.page, p[1], p[2])} \ {None}
                                 = {t.link : t \in Under(p[1], p[2])} \ {None}
        /\ LET order == LinkOrder(layout.page)
           IN  /\ ToSet(order) = {t.link : t \in Things(layout.page)} \ {None}
               /\ Cardinality(ToSet(order)) = Len(order)

(* Every line that crosses the window is drawn.                            *)
VisibleIsDrawn ==
    OfKind("page") => \A top \in 0 .. layout.page.height, height \in 1 .. 2 * TextHeight :
        {k \in DOMAIN layout.page.lines : /\ layout.page.lines[k].y < top + height
                                          /\ layout.page.lines[k].y + TextHeight > top}
            \subseteq Visible(layout.page, top, height)

(* Laying a page out again leaves what is at the top of the window there.  *)
ReadingPositionIsKept ==
    OfKind("page") => \A y \in 0 .. layout.page.height :
        YOfReadingPosition(layout.page, ReadingPosition(layout.page, y)) = y
(* So it does from the first thing of the page on; above it the window     *)
(* moves by the gap.                                                       *)
ReadingPositionIsKeptBelow ==
    OfKind("page") => \A y \in Min({t.y : t \in Things(layout.page)}) .. layout.page.height :
        YOfReadingPosition(layout.page, ReadingPosition(layout.page, y)) = y
=============================================================================
