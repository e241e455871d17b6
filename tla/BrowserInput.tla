----------------------------- MODULE BrowserInput -----------------------------
(***************************************************************************)
(* Keys, taps and the wheel on a page with a form (app/browser.rs), with   *)
(* the controls' state (browser/src/form.rs) and the initial choice of a   *)
(* list (browser/src/document.rs).                                         *)
(*                                                                         *)
(* The address field, a text field, a list of options and the question     *)
(* about a POST each take keys away from the page.  Between two frames a   *)
(* key may come, a page may land, or a transfer may end in a question.     *)
(* Texts are members of a small set; typing makes any of them of any       *)
(* other.  The controls stand one above another, one row each.             *)
(***************************************************************************)
EXTENDS Integers, FiniteSets, SequencesExt

CONSTANTS
    Order,       \* the focus order of the page: links and enabled controls
    Kind,        \* control -> its kind; the domain is the page's controls
    Disabled,    \* controls
    Overlong,    \* controls whose text did not fit its limit
    Group,       \* radio button -> its form and name, or None
    Options,     \* list -> number of options
    Closed,      \* disabled options, as pairs
    Marked,      \* options with the attribute `selected`
    Multiple,    \* lists of more than one choice
    Texts, Empty,
    MaxRows,     \* POPUP_MAX_ROWS
    Bottom,      \* max_scroll_y
    Height,      \* of the viewport
    None

VARIABLE input

Controls == DOMAIN Kind
Of(kinds) == {c \in Controls : Kind[c] \in kinds}
TextFields == Of({"text", "textarea"})
Checkables == Of({"checkbox", "radio"})
Lists == Of({"select"})
OptionsOf(c) == {<<c, k>> : k \in 1 .. Options[c]}
AllOptions == UNION {OptionsOf(c) : c \in Lists}
Row(target) == (CHOOSE i \in DOMAIN Order : Order[i] = target) - 1

---------------------------------------------------------------------------
(* A page as it was sent *)

Marks(c) == {k \in 1 .. Options[c] : <<c, k>> \in Marked}
Enabled(c) == {k \in 1 .. Options[c] : <<c, k>> \notin Closed}
(* The last one marked wins; with none, the first enabled one.             *)
EndSelect(c) ==
    IF c \in Multiple THEN {<<c, k>> : k \in Marks(c)}
    ELSE IF Marks(c) # {} THEN {<<c, Max(Marks(c))>>}
    ELSE {<<c, k>> : k \in {j \in Enabled(c) : \A i \in Enabled(c) : j <= i}}
InitialValues == [c \in TextFields |-> Empty]

(* shown: what the reader last saw in each text field; sent: what the last *)
(* submission took from the fields and from the lists.                     *)
NewPage == [focus |-> None, values |-> InitialValues, checked |-> {},
            selected |-> UNION {EndSelect(c) : c \in Lists}, scroll |-> 0,
            shown |-> InitialValues]
Init == input = NewPage @@
    [editing |-> None, form |-> None, popup |-> None, confirm |-> FALSE, loading |-> FALSE,
     request |-> None, sent |-> None]

---------------------------------------------------------------------------
(* Small pieces *)

ScrollTo(s, y) ==
    LET to == IF y > Bottom THEN Bottom ELSE IF y < 0 THEN 0 ELSE y
    IN  IF to = s.scroll THEN s ELSE [s EXCEPT !.scroll = to, !.popup = None]
ScrollIntoView(s) ==
    IF s.focus = None THEN s
    ELSE LET y == Row(s.focus)
         IN  IF y < s.scroll THEN ScrollTo(s, y)
             ELSE IF y + 1 > s.scroll + Height THEN ScrollTo(s, y + 1 - Height) ELSE s
CloseSelect(s) == [s EXCEPT !.popup = None]
FinishFormEditing(s) ==
    IF s.form = None THEN s
    ELSE [s EXCEPT !.values[s.form.control] = s.form.text, !.form = None]
StartFormEditing(s) ==
    IF s.focus \notin TextFields \/ s.focus \in Overlong THEN s
    ELSE [s EXCEPT !.form = [control |-> s.focus, text |-> s.values[s.focus]]]
StartEditing(s) ==
    IF s.editing # None THEN s ELSE [s EXCEPT !.editing = "text", !.focus = None]

(* The answers to a question and its withdrawal.  A submission waits in    *)
(* the one slot for requests until the next frame takes it.                *)
DropConfirmation(s) == [s EXCEPT !.confirm = FALSE]
Request(s, what) == [DropConfirmation(s) EXCEPT !.request = what]
AcceptConfirmation(s) == [s EXCEPT !.confirm = FALSE, !.request = "answer"]
Ask(s) ==
    [FinishFormEditing([DropConfirmation(CloseSelect(s)) EXCEPT !.editing = None])
        EXCEPT !.confirm = TRUE]

---------------------------------------------------------------------------
(* Controls *)

ActivateRadio(s, c) ==
    LET others == {d \in Of({"radio"}) : d # c /\ Group[c] # None /\ Group[d] = Group[c]}
    IN  IF c \in s.checked THEN s ELSE [s EXCEPT !.checked = (@ \ others) \cup {c}]
ActivateCheckable(s, c) ==
    IF Kind[c] = "radio" THEN ActivateRadio(s, c)
    ELSE [s EXCEPT !.checked = SymDiff(@, {c})]
Choosable(c, k) == c \notin Disabled /\ k \in 1 .. Options[c] /\ <<c, k>> \notin Closed
ChooseOption(s, c, k) ==
    IF c \in Multiple THEN [s EXCEPT !.selected = SymDiff(@, {<<c, k>>})]
    ELSE [s EXCEPT !.selected = (@ \ OptionsOf(c)) \cup {<<c, k>>}]

(* Every selected, enabled option is a pair, and so is every text field.   *)
SuccessfulControls(s) ==
    [text |-> s.values, checked |-> s.checked \ Disabled,
     options |-> {o \in s.selected : o[1] \notin Disabled /\ o \notin Closed}]
SubmitForm(s) ==
    IF Overlong # {} THEN s
    ELSE [Request(s, "submit") EXCEPT !.sent = SuccessfulControls(s)]

Rows(c) == IF Options[c] < MaxRows THEN Options[c] ELSE MaxRows
OpenSelect(s, c) ==
    LET t == ScrollIntoView(s)
        chosen == {k \in 1 .. Options[c] : <<c, k>> \in s.selected}
        highlight == IF chosen = {} THEN 1 ELSE Min(chosen)
        top == IF highlight > Rows(c) THEN highlight - Rows(c) + 1 ELSE 1
    IN  IF Options[c] = 0 THEN s
        ELSE [t EXCEPT !.popup = [control |-> c, highlight |-> highlight, top |-> top]]
ActivateControl(s, c) ==
    CASE c \in TextFields -> StartFormEditing(s)
      [] c \notin Disabled /\ Kind[c] = "submit" -> SubmitForm(s)
      [] c \notin Disabled /\ c \in Checkables -> ActivateCheckable(s, c)
      [] c \notin Disabled /\ c \in Lists -> OpenSelect(s, c)
      [] OTHER -> s

HighlightOption(s, k) ==
    LET p == s.popup
        low == k + 1 - Rows(p.control)
        top == IF p.top < k THEN p.top ELSE k
    IN  [s EXCEPT !.popup.highlight = k, !.popup.top = IF top > low THEN top ELSE low]
(* A disabled option leaves the list open; so does one of many.            *)
ChooseHighlighted(s) ==
    LET c == s.popup.control k == s.popup.highlight
        t == ChooseOption(s, c, k)
    IN  IF ~Choosable(c, k) THEN s ELSE IF c \in Multiple THEN t ELSE CloseSelect(t)

FocusNext(s) ==
    IF Order = <<>> THEN s
    ELSE LET at == IF s.focus = None THEN 1 ELSE ((Row(s.focus) + 1) % Len(Order)) + 1
             t == ScrollIntoView([s EXCEPT !.focus = Order[at]])
         IN  IF t.focus \in TextFields THEN StartFormEditing(t) ELSE t

---------------------------------------------------------------------------
(* Keys *)

ConfirmKeys(s) == {s, AcceptConfirmation(s), DropConfirmation(s)}
SelectKeys(s) ==
    LET p == s.popup last == Options[p.control]
        up == {p.highlight - 1, p.highlight - Rows(p.control), 1}
        down == {p.highlight + 1, p.highlight + Rows(p.control), last}
    IN  {CloseSelect(s), FocusNext(CloseSelect(s)), ChooseHighlighted(s)} \cup
        {HighlightOption(s, IF k < 1 THEN 1 ELSE k) : k \in up} \cup
        {HighlightOption(s, IF k > last THEN last ELSE k) : k \in down}
(* Typing, deleting and a new line; Enter submits a field of one line.     *)
FormKeys(s) ==
    LET c == s.form.control
    IN  {FinishFormEditing(s), FocusNext(FinishFormEditing(s))} \cup
        {[s EXCEPT !.form.text = t, !.shown[c] = t] : t \in Texts} \cup
        (IF Kind[c] = "text" THEN {SubmitForm(FinishFormEditing(s))} ELSE {})
EditingKeys(s) ==
    LET shut == [s EXCEPT !.editing = None]
    IN  {s, shut, Request(shut, "go")}
PageKeys(s) ==
    LET escape == IF s.loading THEN [s EXCEPT !.loading = FALSE] ELSE [s EXCEPT !.focus = None]
        space == IF s.focus \in Checkables \cup Lists THEN ActivateControl(s, s.focus)
                 ELSE ScrollTo(s, s.scroll + Height)
        enter == CASE s.focus \in Controls -> ActivateControl(s, s.focus)
                   [] s.focus \notin Controls \cup {None} -> Request(s, "follow")
                   [] OTHER -> StartEditing(s)
    IN  {escape, space, enter, FocusNext(s), StartEditing(s), Request(s, "go")} \cup
        {ScrollTo(s, y) : y \in {0, s.scroll + 1, s.scroll - 1, Bottom}}
HandleKey ==
    \E t \in CASE input.confirm -> ConfirmKeys(input)
               [] ~input.confirm /\ input.popup # None -> SelectKeys(input)
               [] ~input.confirm /\ input.popup = None /\ input.form # None -> FormKeys(input)
               [] ~input.confirm /\ input.popup = None /\ input.form = None
                  /\ input.editing # None -> EditingKeys(input)
               [] OTHER -> PageKeys(input) : input' = t

---------------------------------------------------------------------------
(* Taps *)

ClickSelectPopup(s) ==
    {CloseSelect(s)} \cup
    {ChooseHighlighted(HighlightOption(s, s.popup.top + row)) :
        row \in {r \in 0 .. Rows(s.popup.control) - 1 :
                    s.popup.top + r <= Options[s.popup.control]}}
(* The stop button, another button, the lock, the cross or the address.    *)
ClickToolbar(s) ==
    LET shut == [s EXCEPT !.editing = None]
    IN  {s, StartEditing(s), Request(shut, "go")} \cup
        (IF s.loading THEN {[shut EXCEPT !.loading = FALSE]} ELSE {})
ClickTarget(s, target) ==
    LET t == [s EXCEPT !.focus = target]
    IN  IF target \in Controls THEN {ActivateControl(t, target)} ELSE {Request(t, "follow")}
(* A label brings its control into view and activates all but a button.    *)
ClickLabel(s, c) ==
    LET t == ScrollIntoView([s EXCEPT !.focus = c])
    IN  IF Kind[c] = "submit" THEN {t} ELSE {ActivateControl(t, c)}
InView(s, target) == Row(target) >= s.scroll /\ Row(target) < s.scroll + Height
ClickPage(s) ==
    LET shut == [s EXCEPT !.editing = None]
    IN  {[shut EXCEPT !.focus = None]} \cup
        UNION {ClickTarget(shut, t) : t \in {u \in ToSet(Order) : InView(s, u)}} \cup
        UNION {ClickLabel(shut, c) : c \in ToSet(Order) \cap Controls}
ClickQuestion(s) ==
    LET no == DropConfirmation(s)
    IN  {s, AcceptConfirmation(s), no} \cup ClickToolbar(no) \cup ClickPage(no)
Click ==
    LET s == FinishFormEditing(input)
    IN  \E t \in IF s.popup # None THEN ClickSelectPopup(s)
                 ELSE IF s.confirm THEN ClickQuestion(s)
                 ELSE ClickToolbar(s) \cup ClickPage(s) \cup {s} : input' = t
Wheel == \E by \in {-1, 1} : input' = ScrollTo(CloseSelect(input), input.scroll + by)

---------------------------------------------------------------------------
(* The frame *)

(* The request is taken: inside the page, shown at once, or a transfer.    *)
TakeRequest ==
    /\ input.request # None
    /\ LET s == [input EXCEPT !.request = None]
       IN  \/ input' = [s EXCEPT !.loading = TRUE]
           \/ \E y \in 0 .. Bottom : input' = ScrollTo([s EXCEPT !.focus = None], y)
           \/ input' = NewPage @@ [s EXCEPT !.popup = None, !.form = None, !.confirm = FALSE]
Land ==
    /\ input.loading /\ input.request = None
    /\ input' = NewPage @@ [input EXCEPT !.popup = None, !.form = None, !.confirm = FALSE,
                                         !.loading = FALSE]
EndInQuestion ==
    input.loading /\ input.request = None /\ input' = [Ask(input) EXCEPT !.loading = FALSE]
(* A decoded image moves what is below it.                                 *)
InstallImage ==
    ~input.loading /\ \E y \in 0 .. Bottom : input' = [input EXCEPT !.popup = None, !.scroll = y]

Next == HandleKey \/ Click \/ Wheel \/ TakeRequest \/ Land \/ EndInQuestion \/ InstallImage

---------------------------------------------------------------------------
(* Properties *)

TypeOK ==
    /\ input.focus \in ToSet(Order) \cup {None} /\ input.scroll \in 0 .. Bottom
    /\ input.values \in [TextFields -> Texts \cup {Empty}]
    /\ input.checked \subseteq Checkables /\ input.selected \subseteq AllOptions

(* Never two owners of the keys: the address field, a text field, a list   *)
(* and a question exclude each other, so no key can reach one the reader   *)
(* does not see, the answer to a POST above all (handle_key, ask).         *)
OneOwnerOfTheKeys ==
    Cardinality({k \in 1 .. 4 : <<input.editing # None, input.form # None,
                                  input.popup # None, input.confirm>>[k]}) <= 1

(* What was typed into a field of the page is in the field, or in the      *)
(* editor open on it, whatever closed the editor; and what is submitted is *)
(* what the reader saw.                                                    *)
TypedTextIsKept ==
    \A c \in TextFields :
        input.shown[c] = IF input.form # None /\ input.form.control = c THEN input.form.text
                         ELSE input.values[c]
SubmittedAsShown == [][input'.sent # input.sent => input'.sent.text = input.shown]_input

(* One button of a group is on at most, and a list of one choice has one,  *)
(* an enabled one once the reader has chosen (activate_checkable,          *)
(* choose_option).                                                         *)
ChoicesExclude ==
    /\ \A c, d \in input.checked : Kind[c] = "radio" /\ Kind[d] = "radio" /\ Group[c] # None
                                   /\ Group[c] = Group[d] => c = d
    /\ \A c \in Lists \ Multiple :
           Options[c] > 0 => Cardinality(input.selected \cap OptionsOf(c)) <= 1
    /\ \A o \in Closed \cap input.selected : o \in Marked

(* The highlighted option is among the rows drawn, and no row drawn is     *)
(* past the end of the list (highlight_option, click_select_popup).        *)
HighlightIsDrawn ==
    input.popup # None =>
        LET p == input.popup IN
        /\ p.control \in Lists
        /\ p.top <= p.highlight /\ p.highlight < p.top + Rows(p.control)
        /\ p.top >= 1 /\ p.top + Rows(p.control) - 1 <= Options[p.control]

(* What the documentation of SelectOption.selected says: a list of one     *)
(* choice starts with exactly one enabled option when it has any.          *)
StartsWithAnEnabledOption ==
    \A c \in Lists \ Multiple : Enabled(c) # {} =>
        Cardinality({k \in Enabled(c) : <<c, k>> \in input.selected}) = 1
=============================================================================
