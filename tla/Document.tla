------------------------------ MODULE Document ------------------------------
(***************************************************************************)
(* From a stream of tags and text to a document: the builder of            *)
(* browser/src/document.rs.                                                *)
(*                                                                         *)
(* A step is one call of the tokenizer's sink: a start tag, an end tag or  *)
(* a character; at any point the page may end.  A page uses the tags of    *)
(* one vocabulary.  A position in the text is the number of characters     *)
(* before it, an index counts from 1.  URLs, methods, sizes and borders    *)
(* are left out; every bound on items is the one on their number.          *)
(***************************************************************************)
EXTENDS Integers, FiniteSets, SequencesExt

CONSTANTS
    Vocabularies,    \* sets of tags; see Tag
    Chars, Space, LineBreak,
    MaxEvents,       \* calls of the sink
    MaxItems, MaxDepth, MaxColumns, MaxValue,
    Proper,          \* whether every page is a proper one; see ProperStart
    None

VARIABLE doc

(* A tag with what its attributes say.  href and target are "ok" or None.  *)
Tag(name) == [name |-> name, id |-> None, href |-> None, type |-> None, named |-> None,
              value |-> None, alt |-> <<>>, on |-> FALSE, disabled |-> FALSE,
              multiple |-> FALSE, rowspan |-> 1, colspan |-> 1]
Blank(c) == c \in {Space, LineBreak}
Cells == {"td", "th"}
Groups == {"thead", "tbody", "tfoot"}
Headings == {"h1", "h2"}
Owners == {"select", "textarea", "button"}
InlineStyle(name) == CASE name = "b" -> {"bold"} [] name = "i" -> {"italic"}
                       [] name = "code" -> {"code"} [] OTHER -> {}
IsBlock(name) == name \in {"p", "div", "form", "table", "tr", "caption"} \cup Cells \cup Groups
Checkable(kind) == kind \in {"checkbox", "radio"}
KindOf(tag) ==
    IF tag.name = "button" THEN IF tag.type \in {None, "submit"} THEN "submit" ELSE "unsupported"
    ELSE IF tag.name \in Owners THEN tag.name
    ELSE IF tag.type \in {"hidden", "submit", "checkbox", "radio"} THEN tag.type ELSE "text"

(* body: the words of the page, each with the style and the link it came   *)
(* with, as a reader must find them; for the properties.                   *)
Init == \E tags \in Vocabularies : doc =
    [tags |-> tags, events |-> 0, done |-> FALSE, failed |-> FALSE, body |-> <<>>,
     text |-> <<>>, title |-> <<>>, runs |-> <<>>, blocks |-> <<>>, links |-> 0,
     anchors |-> <<>>, images |-> <<>>, tables |-> <<>>, rows |-> <<>>, cells |-> <<>>,
     forms |-> <<>>, controls |-> <<>>, buttonRuns |-> <<>>, options |-> <<>>, labels |-> <<>>,
     kind |-> None, firstRun |-> 0, firstControl |-> 0, runOpen |-> FALSE, runStart |-> 0,
     style |-> {}, link |-> None, inline |-> <<>>, lists |-> <<>>, pre |-> FALSE,
     inTitle |-> FALSE, space |-> FALSE, atStart |-> TRUE, table |-> None, form |-> None,
     button |-> None, textarea |-> None, select |-> None, label |-> None]

Items(d) == Len(d.blocks) + Len(d.runs) + Len(d.tables) + Len(d.rows) + Len(d.cells)
            + Len(d.images) + Len(d.forms) + Len(d.controls) + Len(d.buttonRuns)
            + Len(d.options) + Len(d.labels)
CheckItems(d) == IF Items(d) > MaxItems THEN [d EXCEPT !.failed = TRUE] ELSE d
At(d) == Len(d.text)

---------------------------------------------------------------------------
(* Runs and blocks *)

CloseRun(d) ==
    IF d.runOpen /\ At(d) > d.runStart
    THEN CheckItems([d EXCEPT !.runOpen = FALSE,
                              !.runs = Append(@, [start |-> d.runStart, end |-> At(d),
                                                  style |-> d.style, link |-> d.link])])
    ELSE [d EXCEPT !.runOpen = FALSE]
OpenBlock(d, kind) ==
    [d EXCEPT !.kind = kind, !.firstRun = Len(d.runs), !.firstControl = Len(d.controls),
              !.atStart = TRUE]
OpenBlockIfNeeded(d) == IF d.kind # None \/ d.inTitle THEN d ELSE OpenBlock(d, "paragraph")
AtStart(d) == [d EXCEPT !.atStart = TRUE, !.space = FALSE]
BlockClosed(r) ==
    LET block == [kind |-> r.kind, firstRun |-> r.firstRun,
                  runs |-> Len(r.runs) - r.firstRun, firstControl |-> r.firstControl,
                  controls |-> Len(r.controls) - r.firstControl]
        kept == block.runs > 0 \/ block.controls > 0 \/ r.kind \in {"rule", "control"}
        c == AtStart([r EXCEPT !.kind = None])
    IN  IF r.kind = None THEN r
        ELSE IF kept THEN CheckItems([c EXCEPT !.blocks = Append(@, block)]) ELSE c
CloseBlock(d) == BlockClosed(CloseRun(d))
StartBlock(d, kind) == AtStart(OpenBlock(CloseBlock(d), kind))

---------------------------------------------------------------------------
(* Text *)

OpenRun(d) == IF d.runOpen THEN d ELSE [d EXCEPT !.runOpen = TRUE, !.runStart = At(d)]
PushCharacter(d, c) ==
    IF d.inTitle THEN [d EXCEPT !.title = Append(@, c), !.atStart = FALSE]
    ELSE [OpenRun(OpenBlockIfNeeded(d)) EXCEPT !.text = Append(@, c), !.atStart = FALSE]
FlushPendingSpace(d) ==
    LET f == [d EXCEPT !.space = FALSE]
    IN  IF d.space /\ ~d.atStart THEN PushCharacter(f, Space) ELSE f
PushBreak(d) ==
    IF d.inTitle THEN d
    ELSE [OpenRun([OpenBlockIfNeeded(d) EXCEPT !.space = FALSE])
             EXCEPT !.text = Append(@, LineBreak), !.atStart = TRUE]
SetStyle(d, style, link) ==
    IF d.style = style /\ d.link = link THEN d
    ELSE [CloseRun(FlushPendingSpace(d)) EXCEPT !.style = style, !.link = link]

PushTextareaText(d, c) ==
    LET t == d.textarea
        full == Len(t.text) >= MaxValue
    IN  IF t.atStart /\ c = LineBreak THEN [d EXCEPT !.textarea.atStart = FALSE]
        ELSE [d EXCEPT !.textarea = [t EXCEPT !.atStart = FALSE, !.overflow = @ \/ full,
                   !.text = IF full \/ t.overflow THEN @ ELSE Append(@, c)]]
(* A label of a button or an option: blanks between words become one.      *)
Collapsed(label, c) ==
    IF Blank(c) THEN [label EXCEPT !.space = @ \/ label.text # <<>>]
    ELSE [label EXCEPT !.space = FALSE,
              !.text = @ \o (IF label.space THEN <<Space, c>> ELSE <<c>>)]
PushOptionText(d, c) ==
    IF d.select.option = None THEN d
    ELSE LET o == Collapsed(d.select.option, c)
         IN  [d EXCEPT !.select.option = o, !.failed = @ \/ Len(o.text) > MaxValue]
PushButtonCharacter(d, c) ==
    LET b == d.button at == Len(b.text)
        grown == [d EXCEPT !.button.text = Append(@, c)]
        continues == /\ d.buttonRuns # <<>>
                     /\ Last(d.buttonRuns).style = b.style /\ Last(d.buttonRuns).end = at
    IN  IF continues THEN [grown EXCEPT !.buttonRuns[Len(d.buttonRuns)].end = at + 1]
        ELSE CheckItems([grown EXCEPT
                 !.buttonRuns = Append(@, [start |-> at, end |-> at + 1, style |-> b.style]),
                 !.controls[b.control].buttonRuns = @ + 1])
OwedButtonSpace(d) ==
    IF d.button.space THEN PushButtonCharacter([d EXCEPT !.button.space = FALSE], Space) ELSE d
PushButtonText(d, c) ==
    IF d.button.suppressed > 0 THEN d
    ELSE IF Blank(c) THEN [d EXCEPT !.button.space = @ \/ d.button.text # <<>>]
    ELSE LET after == PushButtonCharacter(OwedButtonSpace(d), c)
         IN  [after EXCEPT !.failed = @ \/ Len(after.button.text) > MaxValue]
PushText(d, c) ==
    IF d.select # None THEN PushOptionText(d, c)
    ELSE IF d.textarea # None THEN PushTextareaText(d, c)
    ELSE IF d.button # None THEN PushButtonText(d, c)
    ELSE IF d.pre THEN PushCharacter(d, c)
    ELSE IF Blank(c) THEN [d EXCEPT !.space = TRUE]
    ELSE PushCharacter(FlushPendingSpace(d), c)

---------------------------------------------------------------------------
(* Inline elements.  Past MaxDepth no frame is pushed. *)

PushInline(d, name, bits, setsLink) ==
    LET added == bits \ d.style
        frame == [name |-> name, added |-> added, previous |-> d.link, setsLink |-> setsLink]
    IN  IF Len(d.inline) >= MaxDepth THEN d
        ELSE SetStyle([d EXCEPT !.inline = Append(@, frame)], d.style \cup added, d.link)
FrameOf(frames, name) == {k \in DOMAIN frames : frames[k].name = name}
MutantPopInline(d, name) ==
    LET found == FrameOf(d.inline, name) at == Max(found)
    IN  IF found = {} THEN d
        ELSE SetStyle([d EXCEPT !.inline = SubSeq(@, 1, at - 1)],
                      d.style \ d.inline[at].added,
                      IF d.inline[at].setsLink THEN d.inline[at].previous ELSE d.link)
PopInline(d, name) ==
    LET found == FrameOf(d.inline, name) at == Max(found)
        closed == at .. Len(d.inline)
        links == {k \in closed : d.inline[k].setsLink}
    IN  IF found = {} THEN d
        ELSE SetStyle([d EXCEPT !.inline = SubSeq(@, 1, at - 1)],
                      d.style \ UNION {d.inline[k].added : k \in closed},
                      IF links = {} THEN d.link ELSE d.inline[Min(links)].previous)
StartLink(d, tag) ==
    LET index == d.links + 1
        pushed == PushInline([d EXCEPT !.links = index], "a", {}, TRUE)
    IN  IF tag.href = None THEN PushInline(d, "a", {}, FALSE)
        ELSE SetStyle(pushed, pushed.style, index)

---------------------------------------------------------------------------
(* Controls, forms and labels *)

PushControl(d, tag) ==
    LET kind == KindOf(tag)
        on == tag.on /\ Checkable(kind)
        Rival(c) == /\ on /\ kind = "radio" /\ tag.named # None
                    /\ c.kind = "radio" /\ c.form = d.form /\ c.name = tag.named
        apart == kind = "textarea" /\ d.table = None
        Control(at) ==
                   [form |-> d.form, kind |-> kind, name |-> tag.named, id |-> tag.id,
                    value |-> tag.value, overflow |-> FALSE, checked |-> on,
                    disabled |-> tag.disabled, label |-> <<>>,
                    firstButtonRun |-> Len(d.buttonRuns), buttonRuns |-> 0,
                    firstOption |-> Len(d.options), options |-> 0,
                    multiple |-> tag.multiple, at |-> at]
        cleared == [k \in DOMAIN d.controls |->
                       IF Rival(d.controls[k]) THEN [d.controls[k] EXCEPT !.checked = FALSE]
                       ELSE d.controls[k]]
        Pushed(e) == CheckItems([e EXCEPT !.controls = Append(cleared, Control(At(e)))])
        Counted(e) == IF d.form = None THEN e ELSE [e EXCEPT !.forms[d.form].controls = @ + 1]
    IN  IF apart THEN CloseBlock(Counted(Pushed(StartBlock(d, "control"))))
        ELSE IF kind = "textarea" THEN Counted(Pushed(d))
        ELSE Counted(Pushed(CloseRun(OpenBlockIfNeeded(FlushPendingSpace(d)))))
EndButton(d) ==
    IF d.button = None THEN d
    ELSE [d EXCEPT !.button = None, !.controls[d.button.control].label = d.button.text]
EndTextarea(d) ==
    IF d.textarea = None THEN d
    ELSE [d EXCEPT !.textarea = None, !.controls[d.textarea.control].value = d.textarea.text,
                   !.controls[d.textarea.control].overflow = d.textarea.overflow]
EndOption(d) ==
    IF d.select = None \/ d.select.option = None THEN d
    ELSE LET o == d.select.option
         IN  [d EXCEPT !.select.option = None, !.options[o.index].label = o.text,
                       !.options[o.index].value = IF o.hasValue THEN @ ELSE o.text]
BeginOption(d, tag) ==
    LET e == EndOption(d)
        option == [control |-> e.select.control, label |-> <<>>, value |-> tag.value,
                   selected |-> tag.on, disabled |-> tag.disabled \/ e.select.groupDisabled]
    IN  CheckItems([e EXCEPT
            !.options = Append(@, option), !.controls[e.select.control].options = @ + 1,
            !.select.option = [index |-> Len(e.options) + 1, text |-> <<>>, space |-> FALSE,
                               hasValue |-> tag.value # None]])
OptGroup(d, disabled) == [EndOption(d) EXCEPT !.select.groupDisabled = disabled]
OptionsOf(d, c) ==
    (d.controls[c].firstOption + 1) .. (d.controls[c].firstOption + d.controls[c].options)
EndSelect(d) ==
    LET e == EndOption(d)
        c == e.select.control
        marked == {k \in OptionsOf(e, c) : e.options[k].selected}
        enabled == {k \in OptionsOf(e, c) : ~e.options[k].disabled}
        chosen == IF marked # {} THEN {Max(marked)}
                  ELSE {k \in enabled : \A j \in enabled : k <= j}
    IN  IF d.select = None THEN d
        ELSE IF e.controls[c].multiple THEN [e EXCEPT !.select = None]
        ELSE [e EXCEPT !.select = None,
                 !.options = [k \in DOMAIN @ |-> IF k \in OptionsOf(e, c)
                                 THEN [@[k] EXCEPT !.selected = k \in chosen] ELSE @[k]]]
EndLabel(d) ==
    IF d.label = None THEN d
    ELSE LET c == CloseRun(FlushPendingSpace([d EXCEPT !.label = None]))
         IN  CheckItems([c EXCEPT !.labels = Append(@, [start |-> d.label.start, end |-> At(c),
                                                       target |-> d.label.target, control |-> None])])
BeginLabel(d, tag) ==
    LET c == CloseRun(FlushPendingSpace(EndLabel(d)))
    IN  IF tag.value = None THEN EndLabel(d)
        ELSE [c EXCEPT !.label = [target |-> tag.value, start |-> At(c)]]
BeginForm(d) ==
    IF d.form # None THEN d
    ELSE CheckItems([d EXCEPT !.forms = Append(@, [first |-> Len(d.controls), controls |-> 0]),
                              !.form = Len(d.forms) + 1])
EndForm(d) == CloseBlock([EndButton(d) EXCEPT !.form = None])

---------------------------------------------------------------------------
(* Images: a word of their own, shown in brackets until they are decoded.  *)

ImageBegun(s) ==
    PushCharacter([s EXCEPT !.images = Append(@, [at |-> At(s), end |-> At(s), link |-> s.link, button |-> None])], "[")
ImageEnded(s) == [s EXCEPT !.images[Len(s.images)].end = At(s)]
PushImage(d, tag) ==
    LET apart == d.table = None
        room == IF apart THEN StartBlock(d, "paragraph") ELSE CloseRun(d)
        words == FoldLeft(PushText, ImageBegun(FlushPendingSpace([room EXCEPT !.space = TRUE])),
                          IF tag.alt = <<>> THEN <<"image">> ELSE tag.alt)
        Left(image) == IF apart THEN CloseBlock(image) ELSE image
    IN  [Left(ImageEnded(CloseRun(PushCharacter(words, "]")))) EXCEPT !.space = TRUE]
PushButtonImage(d) ==
    LET s == OwedButtonSpace(d) at == Len(s.button.text)
    IN  CheckItems([s EXCEPT !.images = Append(@, [at |-> at, end |-> at, link |-> None,
                                                   button |-> s.button.control])])

---------------------------------------------------------------------------
(* Inside a button *)

StartButtonChild(d, tag) ==
    LET bits == InlineStyle(tag.name) b == d.button
        frame == [name |-> tag.name, added |-> bits \ b.style]
    IN  IF tag.name \in Owners THEN [d EXCEPT !.button.suppressed = @ + 1]
        ELSE IF b.suppressed > 0 \/ tag.name = "input" THEN d
        ELSE IF tag.name = "img" THEN PushButtonImage(d)
        ELSE IF bits = {} THEN d
        ELSE [d EXCEPT !.button.inline = Append(@, frame), !.button.style = @ \cup bits,
                       !.failed = @ \/ Len(b.inline) >= MaxDepth]
EndButtonChild(d, name) ==
    LET b == d.button
        found == FrameOf(b.inline, name) at == Max(found)
        closed == UNION {b.inline[k].added : k \in at .. Len(b.inline)}
    IN  IF b.suppressed > 0
        THEN IF name \in Owners THEN [d EXCEPT !.button.suppressed = @ - 1] ELSE d
        ELSE IF name = "button" THEN EndButton(d)
        ELSE IF name = "form" THEN EndForm(d)
        ELSE IF found = {} THEN d
        ELSE [d EXCEPT !.button.inline = SubSeq(@, 1, at - 1), !.button.style = @ \ closed]

---------------------------------------------------------------------------
(* Tables: one level of them; a table in a table becomes lines of text.    *)

CellClosed(d, cell, c) ==
    LET controls == Len(c.controls) - cell.firstControl
        block == [kind |-> "paragraph", firstRun |-> c.firstRun,
                  runs |-> Len(c.runs) - c.firstRun,
                  firstControl |-> cell.firstControl, controls |-> controls]
        ended == [block |-> Len(d.blocks) + 1, start |-> cell.start, end |-> At(c),
                  firstImage |-> cell.firstImage, images |-> Len(c.images) - cell.firstImage,
                  table |-> Len(d.tables), row |-> cell.row, column |-> cell.column,
                  rowspan |-> cell.rowspan, colspan |-> cell.colspan]
    IN  AtStart(CheckItems([c EXCEPT !.kind = None, !.blocks = Append(@, block),
                                     !.cells = Append(@, ended)]))
EndTableCell(d) ==
    IF d.table = None \/ d.table.cell = None THEN d
    ELSE CellClosed(d, d.table.cell, CloseRun([d EXCEPT !.table.cell = None]))
BeginTable(d) ==
    CheckItems([CloseBlock(d) EXCEPT
        !.tables = Append(@, [firstCell |-> Len(d.cells), cells |-> 0, firstRow |-> Len(d.rows),
                              rows |-> 0, columns |-> 0]),
        !.table = [firstCell |-> Len(d.cells), firstRow |-> Len(d.rows), row |-> 0,
                   group |-> "tbody", occupied |-> [k \in 1 .. MaxColumns |-> 0],
                   cell |-> None, columns |-> 0, nested |-> 0, separate |-> FALSE]])
RowBegun(e) ==
    CheckItems([e EXCEPT !.table.row = @ + 1,
        !.rows = Append(@, [table |-> Len(e.tables), number |-> e.table.row + 1,
                            group |-> e.table.group]),
        !.table.occupied = [k \in 1 .. MaxColumns |-> IF @[k] = 0 THEN 0 ELSE @[k] - 1]])
BeginTableRow(d) == RowBegun(EndTableCell(d))
(* The search narrows the span as it nears the edge, and keeps it narrow.  *)
Fits(occupied, column, span) == \A k \in column .. (column + span - 1) : occupied[k] = 0
Narrowed(column, span) ==
    IF span < MaxColumns - column + 1 THEN span ELSE MaxColumns - column + 1
CellBegun(r, tag) ==
    LET occupied == r.table.occupied
        places == {k \in 1 .. MaxColumns : Fits(occupied, k, Narrowed(k, tag.colspan))}
        column == Min(places)
        span == Narrowed(column, tag.colspan)
        cell == [row |-> r.table.row, column |-> column, rowspan |-> tag.rowspan,
                 colspan |-> span, start |-> At(r), firstImage |-> Len(r.images),
                 firstControl |-> Len(r.controls)]
    IN  IF places = {} THEN [r EXCEPT !.failed = TRUE]
        ELSE AtStart(OpenBlock(
                 [r EXCEPT !.table.cell = cell,
                           !.table.columns = Max({@, column + span - 1}),
                           !.table.occupied = [k \in 1 .. MaxColumns |->
                               IF k \in column .. (column + span - 1) THEN tag.rowspan ELSE @[k]]],
                 "paragraph"))
InRow(e) == IF e.table.row = 0 THEN RowBegun(e) ELSE e
BeginTableCell(d, tag) == CellBegun(InRow(EndTableCell(d)), tag)
TableClosed(e) ==
    LET t == e.table
        table == [firstCell |-> t.firstCell, cells |-> Len(e.cells) - t.firstCell,
                  firstRow |-> t.firstRow, rows |-> t.row, columns |-> t.columns]
    IN  [e EXCEPT !.tables[Len(e.tables)] = table, !.table = None]
EndTable(d) == IF d.table = None THEN d ELSE TableClosed(EndTableCell(d))
InCell(d) == d.table # None /\ d.table.cell # None
Nested(d) == d.table # None /\ d.table.nested > 0
NestedStart(d, name) ==
    CASE name = "table" -> PushBreak([d EXCEPT !.table.nested = @ + 1])
      [] name = "tr" -> PushBreak([d EXCEPT !.table.separate = FALSE])
      [] name \in Cells ->
             LET s == [d EXCEPT !.table.separate = TRUE]
             IN  IF d.table.separate THEN FoldLeft(PushText, s, <<Space, "|", Space>>) ELSE s
      [] OTHER -> d
NestedEnd(d, name) ==
    CASE name = "table" -> PushBreak([d EXCEPT !.table.nested = @ - 1, !.table.separate = FALSE])
      [] name = "tr" -> PushBreak(d)
      [] OTHER -> d
NestedTags == {"table", "tr", "caption"} \cup Cells \cup Groups

---------------------------------------------------------------------------
(* Elements *)

AddAnchor(d, name, block) ==
    IF name = None \/ \E k \in DOMAIN d.anchors : d.anchors[k].name = name THEN d
    ELSE [d EXCEPT !.anchors = Append(@, [name |-> name, at |-> At(d), block |-> block])]
ListMarker(d) ==
    IF d.lists = <<>> THEN d
    ELSE [d EXCEPT !.lists[Len(d.lists)].next = @ + 1]
(* A control that has text of its own takes the text that follows.         *)
Owning(d, name) ==
    LET control == Len(d.controls)
    IN  CASE name = "button" ->
                 [d EXCEPT !.button = [control |-> control, text |-> <<>>, space |-> FALSE,
                                       style |-> {}, inline |-> <<>>, suppressed |-> 0]]
          [] name = "select" ->
                 [d EXCEPT !.select = [control |-> control, groupDisabled |-> FALSE,
                                       option |-> None]]
          [] name = "textarea" ->
                 [d EXCEPT !.textarea = [control |-> control, text |-> <<>>,
                                         atStart |-> TRUE, overflow |-> FALSE]]
          [] OTHER -> d
StartOther(d, tag) ==
    LET name == tag.name
        starts == name \in {"hr", "pre", "li"} \cup Headings \/ IsBlock(name)
        pending == d.kind # None /\ (d.runOpen \/ d.kind = "rule")
        block == Len(d.blocks) + IF starts /\ pending THEN 1 ELSE 0
        i == AddAnchor(d, tag.id, block)
        a == IF name = "a" THEN AddAnchor(i, tag.named, block) ELSE i
    IN  CASE name = "form" -> BeginForm(a)
          [] name = "input" \/ name \in Owners -> Owning(PushControl(a, tag), name)
          [] name = "label" -> BeginLabel(a, tag)
          [] name = "title" -> AtStart([CloseBlock(a) EXCEPT !.inTitle = TRUE])
          [] name = "br" -> PushBreak(a)
          [] name = "hr" -> CloseBlock(StartBlock(a, "rule"))
          [] name = "img" -> PushImage(a, tag)
          [] name = "pre" -> [StartBlock(a, "pre") EXCEPT !.pre = TRUE]
          [] name \in {"ul", "ol"} ->
                 LET c == CloseBlock(a)
                 IN  IF Len(c.lists) >= MaxDepth THEN c
                     ELSE [c EXCEPT !.lists = Append(@, [ordered |-> name = "ol", next |-> 1])]
          [] name = "li" -> StartBlock(ListMarker(a), "item")
          [] name = "a" -> StartLink(a, tag)
          [] name \in Headings -> StartBlock(a, "heading")
          [] InlineStyle(name) # {} -> PushInline(a, name, InlineStyle(name), FALSE)
          [] IsBlock(name) /\ name # "form" -> CloseBlock(a)
          [] OTHER -> a
StartInTable(d, tag) ==
    CASE tag.name \in Groups -> [EndTableCell(d) EXCEPT !.table.group = tag.name]
      [] tag.name = "tr" -> BeginTableRow(d)
      [] tag.name \in Cells -> BeginTableCell(d, tag)
      [] tag.name = "table" -> PushBreak([d EXCEPT !.table.nested = 1, !.table.separate = FALSE])
      [] InCell(d) /\ IsBlock(tag.name) /\ tag.name \notin Cells \cup Groups \cup {"tr", "table"} -> PushBreak(d)
      [] OTHER -> StartOther(d, tag)
StartFlow(d, tag) ==
    IF Nested(d) /\ tag.name \in NestedTags THEN NestedStart(d, tag.name)
    ELSE IF d.table # None THEN StartInTable(d, tag)
    ELSE IF tag.name = "table" THEN BeginTable(d)
    ELSE StartOther(d, tag)
StartElement(d, tag) ==
    CASE d.button # None -> StartButtonChild(d, tag)
      [] d.button = None /\ (d.select = None \/ tag.name \in {"input", "textarea"}) ->
             StartFlow(IF d.select = None THEN d ELSE EndSelect(d), tag)
      [] d.select # None /\ tag.name = "option" -> BeginOption(d, tag)
      [] d.select # None /\ tag.name = "optgroup" -> OptGroup(d, tag.disabled)
      [] d.select # None /\ tag.name = "select" -> EndSelect(d)
      [] OTHER -> d

EndOther(d, name) ==
    CASE name = "textarea" -> EndTextarea(d)
      [] name = "label" -> EndLabel(d)
      [] name = "form" -> EndForm(d)
      [] name = "title" -> AtStart([d EXCEPT !.inTitle = FALSE, !.runOpen = FALSE])
      [] name = "pre" -> CloseBlock([d EXCEPT !.pre = FALSE])
      [] name \in {"ul", "ol"} ->
             LET Left(c) == IF c.lists = <<>> THEN c ELSE [c EXCEPT !.lists = Front(@)]
             IN  Left(CloseBlock(d))
      [] name \in {"li"} \cup Headings -> CloseBlock(d)
      [] name = "a" \/ InlineStyle(name) # {} -> PopInline(d, name)
      [] IsBlock(name) /\ name # "form" -> CloseBlock(d)
      [] OTHER -> d
EndInTable(d, name) ==
    CASE name = "table" -> EndTable(d)
      [] name \in Cells \cup Groups \cup {"tr"} -> EndTableCell(d)
      [] InCell(d) /\ IsBlock(name) /\ name \notin Cells \cup Groups \cup {"tr", "table"} -> d
      [] OTHER -> EndOther(d, name)
EndFlow(d, name) ==
    IF d.button # None THEN EndButtonChild(d, name)
    ELSE IF Nested(d) /\ name \in NestedTags THEN NestedEnd(d, name)
    ELSE IF d.table # None THEN EndInTable(d, name) ELSE EndOther(d, name)
EndElement(d, name) ==
    CASE d.select = None \/ name = "form" -> EndFlow(IF d.select = None THEN d ELSE EndSelect(d), name)
      [] d.select # None /\ name = "option" -> EndOption(d)
      [] d.select # None /\ name = "optgroup" -> OptGroup(d, FALSE)
      [] d.select # None /\ name = "select" -> EndSelect(d)
      [] OTHER -> d

---------------------------------------------------------------------------
(* The sink and the end of the page.  While a textarea is open the         *)
(* tokenizer hands over nothing but its text and its end tag.              *)

Going == ~doc.done /\ ~doc.failed /\ doc.events < MaxEvents
Seen(d, c) ==
    IF Blank(c) \/ d.inTitle \/ d.select # None \/ d.textarea # None \/ d.button # None
    THEN d.body ELSE Append(d.body, [char |-> c, style |-> d.style, link |-> d.link])
Counted(d) == [d EXCEPT !.events = doc.events + 1]
Breaking == {"hr", "pre", "ul", "ol", "li", "title"} \cup Headings
(* A proper page has everything of a table in its cells, no heading, list,  *)
(* preformatted text or rule in a cell, nothing but text in a title, and   *)
(* closes no title it has not opened.                                      *)
ProperStart(name) ==
    /\ ~doc.inTitle
    /\ doc.table # None /\ ~InCell(doc) => name \in NestedTags
    /\ InCell(doc) => name \notin Breaking
Text == \E c \in Chars \cup {Space, LineBreak} :
    /\ Going /\ (Proper => Blank(c) \/ InCell(doc) \/ doc.table = None)
    /\ doc' = Counted([PushText(doc, c) EXCEPT !.body = Seen(doc, c)])
StartTag == \E tag \in doc.tags :
    /\ Going /\ doc.textarea = None /\ (Proper => ProperStart(tag.name))
    /\ doc' = Counted(StartElement(doc, tag))
EndTag == \E tag \in doc.tags :
    /\ Going /\ (doc.textarea # None => tag.name = "textarea")
    /\ Proper => /\ tag.name = "title" => doc.inTitle
                 /\ InCell(doc) => tag.name \notin Breaking
    /\ doc' = Counted(EndElement(doc, tag.name))
Resolved(d, label) ==
    LET found == {k \in DOMAIN d.controls : d.controls[k].id = label.target}
    IN  [label EXCEPT !.control = IF found = {} THEN None ELSE Min(found)]
Finished(d) == [d EXCEPT !.done = TRUE, !.labels = [k \in DOMAIN @ |-> Resolved(d, @[k])]]
Finish ==
    /\ ~doc.done /\ ~doc.failed
    /\ doc' = Finished(CloseBlock(EndTable(EndLabel(EndSelect(EndTextarea(EndButton(doc)))))))

Next == Text \/ StartTag \/ EndTag \/ Finish
Spec == Init /\ [][Next]_doc

---------------------------------------------------------------------------
(* Properties *)

TypeOK ==
    /\ doc.events \in 0 .. MaxEvents /\ {doc.done, doc.failed, doc.runOpen} \subseteq BOOLEAN
    /\ doc.runStart <= At(doc) /\ Len(doc.inline) <= MaxDepth /\ Len(doc.lists) <= MaxDepth
    /\ doc.failed \/ Items(doc) - Len(doc.images) <= MaxItems

Complete == doc.done /\ ~doc.failed
RunsOf(block) == SubSeq(doc.runs, block.firstRun + 1, block.firstRun + block.runs)
Letters(run) == [k \in 1 .. (run.end - run.start) |->
    [char |-> doc.text[run.start + k], style |-> run.style, link |-> run.link, at |-> run.start + k]]
OfAnImage(at) ==
    \E k \in DOMAIN doc.images : /\ doc.images[k].button = None
                                 /\ at > doc.images[k].at /\ at <= doc.images[k].end
(* The bar stands between two cells of a table in a table.                 *)
IsWord(letter) == letter.char \notin {Space, LineBreak, "|"} /\ ~OfAnImage(letter.at)
Shown == SelectSeq(FlattenSeq([k \in DOMAIN FlattenSeq([b \in DOMAIN doc.blocks |-> RunsOf(doc.blocks[b])]) |->
             Letters(FlattenSeq([b \in DOMAIN doc.blocks |-> RunsOf(doc.blocks[b])])[k])]), IsWord)
(* What the blocks show, one after the other, is every word of the page    *)
(* once, in order, with the style and the link it came with (Run: "the     *)
(* text of the whole page is the concatenation of every run's range").     *)
PageIsItsText ==
    Complete => [k \in DOMAIN Shown |-> [char |-> Shown[k].char, style |-> Shown[k].style,
                                         link |-> Shown[k].link]] = doc.body

Holders(c) == {b \in DOMAIN doc.blocks : /\ doc.blocks[b].firstControl < c
                   /\ c <= doc.blocks[b].firstControl + doc.blocks[b].controls}
(* Every control is in one block, a form's controls are the ones its count *)
(* spans, and one radio button of a group is on.                           *)
ControlsArePlaced ==
    Complete =>
        /\ \A c \in DOMAIN doc.controls : Cardinality(Holders(c)) = 1
        /\ \A f \in DOMAIN doc.forms :
               {c \in DOMAIN doc.controls : doc.controls[c].form = f}
                   = (doc.forms[f].first + 1) .. (doc.forms[f].first + doc.forms[f].controls)
        /\ \A c, e \in DOMAIN doc.controls :
               LET x == doc.controls[c] y == doc.controls[e]
                   rivals == /\ x.kind = "radio" /\ y.kind = "radio" /\ x.checked /\ y.checked
                             /\ x.form = y.form /\ x.name = y.name /\ x.name # None
               IN  rivals => c = e

(* A list of one choice has one option selected, when any can be, and an   *)
(* option belongs to the list whose count spans it.                        *)
OneOptionIsSelected ==
    Complete => \A c \in DOMAIN doc.controls :
        LET options == OptionsOf(doc, c)
            selected == {k \in options : doc.options[k].selected}
            open == {k \in options : ~doc.options[k].disabled}
        IN  /\ \A k \in options : doc.options[k].control = c
            /\ ~doc.controls[c].multiple =>
                   Cardinality(selected) = IF open = {} /\ selected = {} THEN 0 ELSE 1

(* The pieces a button is drawn from are its label, end to end.            *)
ButtonsAreTheirLabels ==
    Complete => \A c \in DOMAIN doc.controls :
        LET x == doc.controls[c]
            pieces == SubSeq(doc.buttonRuns, x.firstButtonRun + 1, x.firstButtonRun + x.buttonRuns)
        IN  /\ pieces = <<>> => x.label = <<>>
            /\ pieces # <<>> => pieces[1].start = 0 /\ Last(pieces).end = Len(x.label)
            /\ \A k \in 1 .. (Len(pieces) - 1) : pieces[k].end = pieces[k + 1].start

(* A label begins and ends between two runs: a tap on a run is a tap on    *)
(* the label or is not (label_control_at).                                 *)
LabelsCutNoRun ==
    Complete => \A l \in DOMAIN doc.labels, r \in DOMAIN doc.runs :
        LET label == doc.labels[l] run == doc.runs[r]
        IN  run.end <= label.start \/ run.start >= label.end
            \/ (run.start >= label.start /\ run.end <= label.end)

Covers(cell, row, column) ==
    /\ row \in cell.row .. (cell.row + cell.rowspan - 1)
    /\ column \in cell.column .. (cell.column + cell.colspan - 1)
(* Cells of a table do not lie over each other, a table is as wide as its  *)
(* cells, and its text is in its cells.                                    *)
CellsFit ==
    Complete => \A c, e \in DOMAIN doc.cells :
        LET x == doc.cells[c] y == doc.cells[e] table == doc.tables[x.table]
        IN  /\ x.row <= table.rows /\ x.column + x.colspan - 1 <= table.columns
            /\ c # e /\ x.table = y.table =>
                   ~\E row \in 1 .. table.rows, column \in 1 .. table.columns :
                       Covers(x, row, column) /\ Covers(y, row, column)

(* Nothing outlives the element that turned it on.                         *)
StylesEnd ==
    doc.style = UNION {doc.inline[k].added : k \in DOMAIN doc.inline}
=============================================================================
