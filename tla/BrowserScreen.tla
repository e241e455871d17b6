---------------------------- MODULE BrowserScreen ----------------------------
(***************************************************************************)
(* What the browser repaints (app/browser.rs).  Every handler marks the    *)
(* parts of the screen it changed (`dirty`), and the frame repaints those  *)
(* parts only: the toolbar, the address field, the viewport or the rows of *)
(* single items, of the edited field and of an open list, the status line. *)
(* `shown` is what the screen holds, `Truth` what the state says it should *)
(* hold.  A frame takes keys and taps, ticks, and draws; one that is drawn *)
(* before its tick is due, with a request still waiting, is left out.      *)
(*                                                                         *)
(* A page is a sequence of lines with one item each at most; an item may   *)
(* take several lines.  What was read of a page, where an entry of the     *)
(* history leads, and whether an answer is a page, are choices.            *)
(***************************************************************************)
EXTENDS Integers, Sequences, FiniteSetsExt

CONSTANTS
    Lines,         \* [page -> sequence of items or None]
    Kind,          \* [item -> "link", "check", "text", "select", "image"]
    Target,        \* [link -> [page |-> , row |-> ]], row None or a line
    Multiple,      \* the lists that take several choices
    Answers,       \* what the addresses of the instance lead to:
                   \* "page" at once, "transfer", "error", "form" (answers that were posted for)
    Options, ListRows, Height, FocusSlots, MaxHistory, MaxEvents, None

VARIABLE screen

Pages == DOMAIN Lines
Rows == 1 .. Height
Greater(a, b) == Max({a, b})
Lesser(a, b) == Min({a, b})

NoDamage == [toolbar |-> FALSE, address |-> FALSE, focus |-> {}, control |-> None,
             popup |-> {}, viewport |-> FALSE, status |-> FALSE]
FullDamage == [NoDamage EXCEPT !.toolbar = TRUE, !.viewport = TRUE, !.status = TRUE]

Init ==
    \E page \in Pages :
      screen = [visit |-> [page |-> page, row |-> None], secure |-> "open", error |-> FALSE,
                scroll |-> 0, focus |-> None, checked |-> {}, chosen |-> {1}, filled |-> {}, image |-> "pending",
                back |-> 0, ahead |-> 0, request |-> None, pending |-> None,
                field |-> None, form |-> None, popup |-> None, confirm |-> None, message |-> FALSE,
                loading |-> None, imageLoading |-> FALSE,
                dirty |-> FullDamage, painted |-> Height,
                shown |-> [buttons |-> None, lock |-> None, address |-> None, status |-> None,
                           rows |-> [r \in Rows |-> None]],
                left |-> {}, moved |-> FALSE, phase |-> "keys", events |-> 0]

---------------------------------------------------------------------------
(* What the screen should hold *)

PageOf(s) == Lines[s.visit.page]
LineOf(s, item) == CHOOSE i \in DOMAIN PageOf(s) :
                      PageOf(s)[i] = item /\ \A j \in 1 .. i - 1 : PageOf(s)[j] # item
Here(s) == {item \in DOMAIN Kind : \E i \in DOMAIN PageOf(s) : PageOf(s)[i] = item}
Focusable(s) == {item \in Here(s) : Kind[item] # "image"}
RowsOf(s, item) == {r \in Rows : s.scroll + r \in DOMAIN PageOf(s) /\ PageOf(s)[s.scroll + r] = item}

Look(s, item) ==
    CASE item = None -> <<>>
      [] item # None /\ Kind[item] = "link" -> <<s.focus = item>>
      [] item # None /\ Kind[item] = "check" -> <<s.focus = item, item \in s.checked>>
      [] item # None /\ Kind[item] = "text" -> <<s.focus = item, s.form = item, item \in s.filled>>
      [] item # None /\ Kind[item] = "select" -> <<s.focus = item, s.chosen>>
      [] OTHER -> <<s.image>>
PopupRows(s) ==
    IF s.popup = None THEN {}
    ELSE {r \in Rows : s.scroll + r \in s.popup.y .. s.popup.y + Lesser(Options, ListRows) - 1}
RowTruth(s, r) ==
    LET line == s.scroll + r
        option == s.popup.top + line - s.popup.y
    IN  CASE r \in PopupRows(s) -> <<"option", option, option = s.popup.highlight, option \in s.chosen>>
          [] r \notin PopupRows(s) /\ line \in DOMAIN PageOf(s) -> <<line, PageOf(s)[line], Look(s, PageOf(s)[line])>>
          [] OTHER -> None

ButtonsTruth(s) == <<s.back > 0, s.ahead > 0, s.loading # None \/ s.imageLoading>>
LockTruth(s) == IF s.loading # None THEN s.loading.secure ELSE s.secure
AddressTruth(s) ==
    CASE s.field # None -> <<"field", s.field>>
      [] s.field = None /\ s.loading # None -> <<"to", s.loading.to>>
      [] OTHER -> <<"at", s.visit>>
StatusTruth(s) ==
    CASE s.confirm # None -> <<"question">>
      [] s.confirm = None /\ s.message -> <<"message">>
      [] s.confirm = None /\ ~s.message /\ s.loading # None -> <<"loading", s.loading.kib>>
      [] s.confirm = None /\ ~s.message /\ s.loading = None /\ s.imageLoading -> <<"image">>
      [] OTHER -> <<"item", s.focus, s.focus \in s.checked>>
Truth(s) == [buttons |-> ButtonsTruth(s), lock |-> LockTruth(s), address |-> AddressTruth(s),
             status |-> StatusTruth(s), rows |-> [r \in Rows |-> RowTruth(s, r)]]

---------------------------------------------------------------------------
(* Damage *)

MarkStatus(s) == [s EXCEPT !.dirty.status = TRUE]
MarkToolbar(s) == [s EXCEPT !.dirty.toolbar = TRUE]
MarkAddress(s) == [s EXCEPT !.dirty.address = TRUE]
MarkViewport(s) == [s EXCEPT !.dirty.viewport = TRUE]

(* When the slots are full the whole viewport is due, whatever else is in  *)
(* them.                                                                   *)
Touch(s, item) ==
    IF item = None \/ item \in s.dirty.focus THEN s
    ELSE IF Cardinality(s.dirty.focus) < FocusSlots THEN [s EXCEPT !.dirty.focus = @ \cup {item}]
    ELSE [s EXCEPT !.dirty.focus = {}, !.dirty.viewport = TRUE]
FocusChange(s, before, after) == Touch(Touch(s, before), after)

Hull(rows) == {r \in Rows : \E a, b \in rows : a <= r /\ r <= b}
DamagePopup(s) == [s EXCEPT !.dirty.popup = Hull(@ \cup PopupRows(s))]

Say(s) == MarkStatus([s EXCEPT !.message = TRUE])
ClearMessage(s) == IF s.message THEN MarkStatus([s EXCEPT !.message = FALSE]) ELSE s

CloseSelect(s) ==
    IF s.popup = None THEN s
    ELSE ClearMessage(FocusChange([DamagePopup(s) EXCEPT !.popup = None], s.popup.item, None))

MaxScroll(s) == Greater(Len(PageOf(s)) - Height, 0)
ScrollTo(s, y) ==
    LET to == Greater(Lesser(y, MaxScroll(s)), 0)
    IN  IF to = s.scroll THEN s ELSE MarkToolbar(MarkViewport([s EXCEPT !.popup = None, !.scroll = to]))
ScrollFocusIntoView(s) ==
    IF s.focus = None THEN s
    ELSE LET line == LineOf(s, s.focus)
         IN  IF line <= s.scroll THEN ScrollTo(s, line - 1)
             ELSE IF line > s.scroll + Height THEN ScrollTo(s, line - Height) ELSE s

---------------------------------------------------------------------------
(* Drawing *)

(* The background goes down as far as this page or the last one reached;   *)
(* what is drawn then is the page and the list, all inside the clip.       *)
DrawViewport(s, clip) ==
    LET content == Lesser(Len(PageOf(s)) - s.scroll, Height)
        cleared == 1 .. Greater(content, s.painted)
        list == PopupRows(s)
    IN  [s EXCEPT !.shown.rows = [r \in Rows |-> IF r \in clip /\ r \in cleared \cup list
                                                 THEN RowTruth(s, r) ELSE @[r]],
                  !.painted = Max({content} \cup list)]
DrawClip(s, clip) == IF clip = {} THEN s ELSE DrawViewport(s, clip)

DrawToolbar(s) == [s EXCEPT !.shown.buttons = ButtonsTruth(s), !.shown.lock = LockTruth(s),
                            !.shown.address = AddressTruth(s), !.moved = FALSE]
DrawAddress(s) == [s EXCEPT !.shown.address = AddressTruth(s)]
DrawStatus(s) == [s EXCEPT !.shown.status = StatusTruth(s)]

(* The rows of each item in its own clip: one after another, since each    *)
(* moves what is known to be background.                                   *)
ItemRows(s, item) == IF item \in Here(s) THEN RowsOf(s, item) ELSE {}
DrawParts(s, dirty) ==
    LET items == FoldSet(LAMBDA item, t : DrawClip(t, ItemRows(t, item)), s, dirty.focus)
    IN  DrawClip(DrawClip(items, ItemRows(items, dirty.control)), dirty.popup)

DrawDirty(s) ==
    LET d == s.dirty
        clean == [s EXCEPT !.dirty = NoDamage]
        bar == IF d.toolbar THEN DrawToolbar(clean) ELSE IF d.address THEN DrawAddress(clean) ELSE clean
        page == IF d.viewport THEN [DrawViewport(bar, Rows) EXCEPT !.left = {}] ELSE DrawParts(bar, d)
    IN  IF d.status THEN DrawStatus(page) ELSE page
DrawAll(s) == DrawDirty([s EXCEPT !.painted = Height, !.dirty = FullDamage])

---------------------------------------------------------------------------
(* Requests, and the question before a form is sent again                  *)

(* An entry taken for the question, given back, or lost with a request     *)
(* that another takes the place of, changes what a button leads to without *)
(* repainting it: `moved` until the toolbar is drawn.                      *)
PutBackEntry(s, how) ==
    CASE how = "back" -> [s EXCEPT !.back = Lesser(@ + 1, MaxHistory), !.moved = TRUE]
      [] how = "forward" -> [s EXCEPT !.ahead = Lesser(@ + 1, MaxHistory), !.moved = TRUE]
      [] OTHER -> s
DropConfirmation(s) ==
    IF s.confirm = None THEN s ELSE MarkStatus(PutBackEntry([s EXCEPT !.confirm = None], s.confirm))
Request(s, request) == [DropConfirmation(s) EXCEPT !.request = request, !.moved = @ \/ s.request # None]
Get(to, how) == [to |-> to, how |-> how, kind |-> "get"]
Post(to, how) == [to |-> to, how |-> how, kind |-> "post"]

FinishFormEditing(s) ==
    IF s.form = None THEN s ELSE Touch(ClearMessage([s EXCEPT !.form = None]), s.form)
Ask(s, how) ==
    LET closed == CloseSelect(DropConfirmation(s))
        field == IF closed.field = None THEN closed ELSE MarkAddress([closed EXCEPT !.field = None])
    IN  MarkStatus([FinishFormEditing(field) EXCEPT !.confirm = how])
AcceptConfirmation(s) ==
    MarkStatus([s EXCEPT !.confirm = None, !.request = Post([page |-> s.visit.page, row |-> None], s.confirm),
                         !.moved = @ \/ s.request # None])
CancelConfirmation(s) == Say(PutBackEntry([s EXCEPT !.confirm = None], s.confirm))

Somewhere == {[page |-> page, row |-> None] : page \in Pages}
(* To an entry already taken from its stack: a page, a kept result, a      *)
(* question, or nothing that is left.                                      *)
ReturnTo(s, how) ==
    {Request(s, Get(to, how)) : to \in Somewhere} \cup
    IF "form" \notin Answers THEN {}
    ELSE {Request(s, [Get(to, how) EXCEPT !.kind = "result"]) : to \in Somewhere}
         \cup {Ask([s EXCEPT !.moved = TRUE], how), Say(PutBackEntry(s, how))}
GoBack(s) ==
    LET t == DropConfirmation(s)
    IN  IF t.back = 0 THEN {Say(t)} ELSE ReturnTo([t EXCEPT !.back = @ - 1], "back")
GoForward(s) ==
    LET t == DropConfirmation(s)
    IN  IF t.ahead = 0 THEN {Say(t)} ELSE ReturnTo([t EXCEPT !.ahead = @ - 1], "forward")
Reload(s) ==
    {Request(s, Get(s.visit, "reload"))} \cup IF "form" \in Answers THEN {Ask(s, "reload"), Say(s)} ELSE {}

---------------------------------------------------------------------------
(* Controls and the focus *)

StartFormEditing(s) == Touch(Say([s EXCEPT !.form = s.focus]), s.focus)
ToggleControl(s) ==
    MarkStatus(ClearMessage(Touch([s EXCEPT !.checked = IF s.focus \in @ THEN @ \ {s.focus} ELSE @ \cup {s.focus}],
                                  s.focus)))
(* Below its box, above it, or as low as the viewport allows               *)
OpenSelect(s) ==
    LET t == ScrollFocusIntoView(s)
        rows == Lesser(Options, ListRows)
        box == LineOf(t, t.focus)
        y == IF box + rows <= t.scroll + Height THEN box + 1
             ELSE IF box - 1 >= t.scroll + rows THEN box - rows
             ELSE t.scroll + Greater(Height - rows, 0) + 1
        first == IF t.chosen = {} THEN 1 ELSE Min(t.chosen)
    IN  Say(DamagePopup([t EXCEPT !.popup =
            [item |-> t.focus, highlight |-> first, top |-> Greater(first - rows, 0) + 1, y |-> y]]))
ActivateControl(s) ==
    CASE Kind[s.focus] = "text" -> StartFormEditing(s)
      [] Kind[s.focus] = "check" -> ToggleControl(s)
      [] OTHER -> OpenSelect(s)
IsControl(item) == item # None /\ Kind[item] \in {"check", "text", "select"}

FocusNext(s) ==
    LET order == Focusable(s)
        later == {item \in order : s.focus # None /\ LineOf(s, item) > LineOf(s, s.focus)}
        next == IF later # {} THEN later ELSE order
        item == CHOOSE i \in next : \A j \in next : LineOf(s, i) <= LineOf(s, j)
        moved == ScrollFocusIntoView(ClearMessage([s EXCEPT !.focus = item]))
        marked == MarkStatus(FocusChange(moved, s.focus, item))
    IN  IF order = {} THEN Say(s)
        ELSE IF Kind[item] = "text" THEN StartFormEditing(marked) ELSE marked
FollowFocused(s) == Request(s, Get(Target[s.focus], "fresh"))
(* A form asks for a page, posts, or says why not; Enter in the address    *)
(* field likewise.                                                         *)
SubmitForm(s) ==
    {Say(s)} \cup {Request(s, Get(to, "fresh")) : to \in Somewhere}
    \cup IF "form" \in Answers THEN {Request(s, Post(to, "fresh")) : to \in Somewhere} ELSE {}
StartEditing(s) ==
    IF s.field # None THEN s
    ELSE MarkViewport(MarkAddress(Say([s EXCEPT !.field = 0, !.focus = None])))
CloseField(s) == MarkAddress(ClearMessage([s EXCEPT !.field = None]))

HighlightOption(s, option) ==
    LET rows == Lesser(Options, ListRows)
    IN  IF s.popup.highlight = option THEN s
        ELSE DamagePopup([s EXCEPT !.popup.highlight = option,
                                   !.popup.top = Greater(Lesser(@, option), option + 1 - rows)])
ChooseHighlighted(s) ==
    LET option == s.popup.highlight
        chosen == IF s.popup.item \notin Multiple THEN {option}
                  ELSE IF option \in s.chosen THEN s.chosen \ {option} ELSE s.chosen \cup {option}
        marked == Touch(DamagePopup([s EXCEPT !.chosen = chosen]), s.popup.item)
    IN  {Say(s), IF s.popup.item \in Multiple THEN marked ELSE CloseSelect(marked)}

---------------------------------------------------------------------------
(* What stops a transfer *)

FinishLoading(s) ==
    IF s.loading = None THEN s ELSE MarkStatus(MarkToolbar([s EXCEPT !.loading = None]))
SetImageLoading(s, is) ==
    IF s.imageLoading = is THEN s ELSE MarkStatus(MarkToolbar([s EXCEPT !.imageLoading = is]))
(* A form that did not land is offered as a question, or its end is told.  *)
EndPost(s, offered) ==
    LET t == FinishLoading([s EXCEPT !.pending = None])
    IN  IF offered THEN Ask(t, s.pending.how) ELSE Say(PutBackEntry(t, s.pending.how))
StopImage(s) == Say(MarkViewport([SetImageLoading(s, FALSE) EXCEPT !.image = "failed"]))
Stop(s) ==
    CASE s.pending # None ->
            IF s.pending.kind = "post" THEN EndPost(s, FALSE)
            ELSE Say(FinishLoading([s EXCEPT !.pending = None]))
      [] s.pending = None /\ s.imageLoading -> StopImage(s)
      [] OTHER -> s

---------------------------------------------------------------------------
(* Keys and taps: each takes a state to the states it may lead to.         *)

SelectKeys(s) ==
    {CloseSelect(s), FocusNext(CloseSelect(s))} \cup ChooseHighlighted(s)
    \cup {HighlightOption(s, option) : option \in 1 .. Options}
FormKeys(s) ==
    {FinishFormEditing(s), FocusNext(FinishFormEditing(s)),
     [s EXCEPT !.filled = IF s.form \in @ THEN @ \ {s.form} ELSE @ \cup {s.form}, !.dirty.control = s.form]}
    \cup SubmitForm(FinishFormEditing(s))
FieldKeys(s) ==
    {CloseField(s), MarkAddress([s EXCEPT !.field = 1 - @])}
    \cup {MarkAddress(t) : t \in SubmitForm([s EXCEPT !.field = None])}
Escape(s) ==
    IF s.pending # None \/ s.imageLoading THEN {Stop(s)}
    ELSE {ClearMessage(IF s.focus = None THEN s
                       ELSE MarkStatus(Touch([s EXCEPT !.focus = None], s.focus)))}
Enter(s) ==
    {IF IsControl(s.focus) THEN ActivateControl(s)
     ELSE IF s.focus # None THEN FollowFocused(s) ELSE StartEditing(s)}
PageKeys(s) ==
    Escape(s) \cup Enter(s) \cup GoBack(s) \cup GoForward(s) \cup Reload(s)
    \cup {ScrollTo(s, y) : y \in {s.scroll - 1, s.scroll + 1, 0, MaxScroll(s)}}
    \cup {FocusNext(s), StartEditing(s), Say(s)}
Keys(s) ==
    CASE s.confirm # None -> {AcceptConfirmation(s), CancelConfirmation(s)}
      [] s.confirm = None /\ s.popup # None -> SelectKeys(s)
      [] s.confirm = None /\ s.popup = None /\ s.form # None -> FormKeys(s)
      [] s.confirm = None /\ s.popup = None /\ s.form = None /\ s.field # None -> FieldKeys(s)
      [] OTHER -> PageKeys(s)

Press(s) ==
    LET t == IF s.field = None THEN s ELSE MarkToolbar(ClearMessage([s EXCEPT !.field = None]))
    IN  GoBack(t) \cup GoForward(t) \cup IF t.loading # None \/ t.imageLoading THEN {Stop(t)} ELSE Reload(t)
TapToolbar(s) ==
    Press(s) \cup {Say(s), StartEditing(s)}
    \cup IF s.field = None THEN {} ELSE {MarkAddress([s EXCEPT !.field = 0])}
TapRow(s, r) ==
    LET t == IF s.field = None THEN s ELSE CloseField(s)
        line == t.scroll + r
        item == IF line \in DOMAIN PageOf(t) THEN PageOf(t)[line] ELSE None
        here == MarkStatus(FocusChange(ClearMessage([t EXCEPT !.focus = item]), t.focus, item))
    IN  CASE item \in Focusable(t) -> IF IsControl(item) THEN ActivateControl(here) ELSE FollowFocused(here)
          [] OTHER -> IF t.focus = None THEN t
                      ELSE MarkStatus(Touch(ClearMessage([t EXCEPT !.focus = None]), t.focus))
Taps(s) ==
    LET t == FinishFormEditing(s)
        u == IF t.confirm = None THEN t ELSE CancelConfirmation(t)
    IN  IF t.popup # None
        THEN {CloseSelect(t)} \cup UNION {ChooseHighlighted(HighlightOption(t, option)) :
                 option \in t.popup.top .. t.popup.top + Lesser(Options, ListRows) - 1}
        ELSE {t} \cup (IF t.confirm = None THEN {} ELSE {AcceptConfirmation(t), u})
             \cup TapToolbar(u) \cup {TapRow(u, r) : r \in Rows}
Wheel(s) == {ScrollTo(CloseSelect(s), s.scroll + step) : step \in {-1, 1}}

---------------------------------------------------------------------------
(* The tick *)

BeginLoading(s, to) ==
    MarkStatus(MarkToolbar([s EXCEPT !.loading = [to |-> to, secure |-> "outline", kib |-> None],
                                     !.message = FALSE]))
WaitForNetwork(s, to) == Say(BeginLoading(s, to))
UpdateLoading(s, kib, secure) ==
    LET lock == IF s.loading.secure = secure THEN s ELSE MarkToolbar([s EXCEPT !.loading.secure = secure])
    IN  IF s.loading = None THEN s
        ELSE IF s.loading.kib = kib THEN lock ELSE MarkStatus([lock EXCEPT !.loading.kib = kib])

Pushed(n) == Lesser(n + 1, MaxHistory)
SettleHistory(s, how) ==
    CASE how = "fresh" -> [s EXCEPT !.back = Pushed(@), !.ahead = 0]
      [] how = "back" -> [s EXCEPT !.ahead = Pushed(@)]
      [] how = "forward" -> [s EXCEPT !.back = Pushed(@)]
      [] OTHER -> s
(* Another page on screen: everything is due.                              *)
ReplacePage(s, to, how, secure) ==
    [DropConfirmation(SettleHistory(s, how)) EXCEPT
        !.visit = to, !.secure = secure, !.error = FALSE, !.scroll = 0, !.focus = None, !.checked = {}, !.chosen = {1},
        !.filled = {}, !.image = "pending", !.popup = None, !.form = None, !.loading = None,
        !.message = FALSE, !.dirty = FullDamage, !.left = {}]
(* With where it was left, a status worth saying, or where it came from    *)
ShowDocument(s, to, how, secure) ==
    LET t == ReplacePage(s, to, how, secure)
    IN  {t, Say(t), ScrollTo(t, MaxScroll(t))}
ShowError(s, to, how) ==
    LET over == IF how = "fresh" THEN [s EXCEPT !.ahead = 0] ELSE s
    IN  [ReplacePage(IF s.error THEN over ELSE s, to, IF s.error THEN "reload" ELSE how, "open") EXCEPT !.error = TRUE]

(* To a part of the page on screen.  The focus goes, and its highlight     *)
(* stays where nothing else has it repainted (`left`).                     *)
Internal(s, request) ==
    /\ request.kind = "get" /\ request.to.page = s.visit.page
    /\ request.how \in {"back", "forward"} \/ (request.how = "fresh" /\ request.to.row # None)
PageNavigation(s, request) ==
    LET repeated == request.how = "fresh" /\ request.to = s.visit
        t == ClearMessage([IF repeated THEN s ELSE SettleHistory(s, request.how) EXCEPT
                              !.visit = request.to, !.focus = None])
        there == IF request.how = "fresh" THEN {ScrollTo(t, request.to.row - 1), Say(t)}
                 ELSE {ScrollTo(t, y) : y \in 0 .. MaxScroll(t)}
    IN  {MarkStatus(MarkToolbar([u EXCEPT !.left = IF s.focus = None THEN @ ELSE @ \cup {s.focus}])) : u \in there}

(* A page that needs no transfer, a transfer, a wait, or what went wrong   *)
Begin(s, request) ==
    LET going == [s EXCEPT !.pending = [kind |-> request.kind, how |-> request.how]]
        refused == [s EXCEPT !.moved = TRUE]
    IN  CASE Internal(s, request) -> PageNavigation(s, request)
          [] ~Internal(s, request) /\ request.kind = "post" ->
                {BeginLoading(going, request.to), Say(PutBackEntry(s, request.how))}
          [] ~Internal(s, request) /\ request.kind = "result" ->
                ReturnTo(refused, request.how) \cup
                {Say(ReplacePage(s, request.to, request.how, "open"))}
          [] OTHER ->
                (IF "page" \in Answers THEN ShowDocument(s, request.to, request.how, "open") ELSE {})
                \cup (IF "error" \in Answers THEN {ShowError(s, request.to, request.how)} ELSE {})
                \cup IF "transfer" \notin Answers THEN {}
                     ELSE {BeginLoading(going, request.to), WaitForNetwork(going, request.to),
                           Say(FinishLoading(refused))}
TakeRequest(s) ==
    LET back == IF s.pending # None /\ s.pending.kind = "post" THEN PutBackEntry(s, s.pending.how) ELSE s
        closed == SetImageLoading([back EXCEPT !.request = None, !.pending = None], FALSE)
    IN  IF s.request = None THEN {s} ELSE Begin(closed, s.request)

Step(s) ==
    LET to == s.loading.to
        how == s.pending.how
        none == [s EXCEPT !.pending = None]
    IN  IF s.pending = None THEN {s}
        ELSE {s, UpdateLoading(s, 0, "outline"), UpdateLoading(s, 1, "open"), UpdateLoading(s, 1, "closed")}
             \cup ShowDocument(none, to, how, s.loading.secure)
             \cup (IF s.pending.kind = "post"
                   THEN {EndPost(s, TRUE), EndPost(s, FALSE), [s EXCEPT !.pending.kind = "get"]}
                   ELSE {ShowError(none, to, how), WaitForNetwork(s, to),
                         Request(none, Get(to, how))})

(* An image is read only while no page is; laying out its size closes an   *)
(* open list.                                                              *)
Images(s) ==
    IF s.pending # None THEN {s}
    ELSE LET done == MarkViewport(SetImageLoading(s, FALSE))
         IN  IF s.imageLoading
             THEN {s, SetImageLoading(s, FALSE), [done EXCEPT !.image = "shown", !.popup = None],
                   Say([done EXCEPT !.image = "failed"])}
             ELSE {s} \cup IF s.image = "pending" /\ (\E item \in Here(s) : Kind[item] = "image")
                           THEN {SetImageLoading(s, TRUE), Say(MarkViewport([s EXCEPT !.image = "failed"]))} ELSE {}

---------------------------------------------------------------------------
(* A frame *)

Input ==
    /\ screen.phase \in {"frame", "keys"} /\ screen.events < MaxEvents
    /\ \E t \in Keys(screen) \cup Taps(screen) \cup Wheel(screen) :
          screen' = [t EXCEPT !.phase = "keys", !.events = @ + 1]
Tick ==
    /\ screen.phase \in {"frame", "keys"}
    /\ \E t \in UNION {UNION {Images(b) : b \in Step(a)} : a \in TakeRequest(screen)} :
          screen' = [t EXCEPT !.phase = "draw"]
Draw ==
    /\ screen.phase = "draw"
    /\ screen' = [IF screen.dirty = NoDamage THEN screen ELSE DrawDirty(screen) EXCEPT !.phase = "frame", !.events = 0]

(* Another screen comes and goes: transfers are put off, and on return     *)
(* everything is drawn.                                                    *)
Suspend(s) ==
    SetImageLoading(IF s.pending # None /\ s.pending.kind = "post" THEN EndPost(s, TRUE) ELSE s, FALSE)
Away ==
    /\ screen.phase = "frame"
    /\ screen' = [Suspend(screen) EXCEPT !.phase = "away",
           !.shown = [buttons |-> None, lock |-> None, address |-> None, status |-> None, rows |-> [r \in Rows |-> None]],
           !.shown.rows = [r \in Rows |-> <<"other">>]]
Return ==
    /\ screen.phase = "away"
    /\ screen' = [DrawAll(screen) EXCEPT !.phase = "frame", !.events = 0]

Next == Input \/ Tick \/ Draw \/ Away \/ Return
Spec == Init /\ [][Next]_screen

---------------------------------------------------------------------------
(* Properties *)

TypeOK ==
    /\ screen.back \in 0 .. MaxHistory /\ screen.ahead \in 0 .. MaxHistory
    /\ screen.focus # None => screen.focus \in Focusable(screen)
    /\ screen.scroll \in 0 .. MaxScroll(screen)
    /\ Cardinality(screen.dirty.focus) <= FocusSlots

(* Whatever keys, taps, answers and images a frame took, in whatever order, *)
(* repainting what was marked leaves on screen what the state says: no      *)
(* highlight, list, count, lock or address of a moment ago stays.  Left out *)
(* are a highlight `page_navigation` leaves, and the two arrows while what  *)
(* a question holds is on neither stack.                                    *)
ScreenShowsState ==
    screen.phase = "frame" =>
      LET truth == Truth(screen)
          shown == screen.shown
      IN  /\ shown.status = truth.status /\ shown.address = truth.address /\ shown.lock = truth.lock
          /\ shown.buttons[3] = truth.buttons[3]
          /\ ~screen.moved => shown.buttons = truth.buttons
          /\ \A r \in Rows :
                \/ shown.rows[r] = truth.rows[r]
                \/ \E item \in screen.left : r \in ItemRows(screen, item)

(* The same with nothing left out, as the comments of the code have it     *)
NothingStale == screen.phase = "frame" => screen.shown = Truth(screen)
=============================================================================
