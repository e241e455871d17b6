------------------------------ MODULE SystemBar ------------------------------
(***************************************************************************)
(* The host of the normal screens: app/system_bar.rs with the gestures and *)
(* routes of system-ui, the pointer sprite of app/pointer.rs and the first *)
(* finger of input.rs.  A frame handles a batch of keys, then the pointer, *)
(* then one transition, then ticks the screen in front and paints what     *)
(* changed; fingers, keys and cables move between the frames.              *)
(***************************************************************************)
EXTENDS Integers, Sequences, FiniteSets

CONSTANTS Places,     \* points of the panel, each in the zone ZoneOf gives it
          ZoneOf,     \* "launcher", "wifi", "battery", "clock", "bar" or "page"
          TargetOf,   \* the button of the browser a point of "bar" belongs to
          RowOf,      \* the menu row a point of "page" is on
          Near,       \* pairs of points within TAP_SLOP_PX of each other
          Fingers, Keys, Batch, MaxKeys,
          Snapshots,  \* what the slots of the bar may have to show
          None

VARIABLE bar

----------------------------------------------------------------------------
(* system-ui: screens and routes                                           *)

Plain(id)  == [id |-> id, power |-> FALSE, selected |-> 0, back |-> None]
Desktop    == Plain("desktop")
Browser    == Plain("browser")
Network    == Plain("network")
Battery    == Plain("battery")
Launcher(power, selected, back) ==
    [id |-> "launcher", power |-> power, selected |-> selected, back |-> back]
ReturnTo(screen) == IF screen.id = "launcher" THEN screen.back ELSE screen.id
Rows(power)      == IF power THEN 3 ELSE 4

Show(screen) == [kind |-> "screen", screen |-> screen]
Leave(route) == [kind |-> route, screen |-> Desktop]

Launch(index, back) ==
    CASE index = 0 -> Show(Browser)
      [] index = 1 -> Leave("console")
      [] index = 2 -> Show(Desktop)
      [] index = 3 -> Show(Launcher(TRUE, 0, back))
      [] OTHER     -> Show(Plain(back))

PowerLaunch(index, back) ==
    CASE index = 0 -> Leave("reboot")
      [] index = 1 -> Leave("shutdown")
      [] OTHER     -> Show(Launcher(FALSE, 3, back))

\* choose
Choose(index, screen) ==
    IF screen.power THEN PowerLaunch(index, screen.back) ELSE Launch(index, screen.back)

Screens == {Desktop, Browser, Network, Battery}
             \cup {Launcher(power, selected, back) : power \in BOOLEAN, selected \in 0..3,
                                          back \in {"desktop", "browser", "network", "battery"}}

----------------------------------------------------------------------------
(* system-ui: who owns a press                                             *)

InBar(p)   == ZoneOf[p] # "page"
Far(p, q)  == p # q /\ {p, q} \notin Near

NoGesture  == [target |-> None, cancelled |-> FALSE, active |-> FALSE]
NoTouch    == [start |-> None, dragging |-> FALSE]

\* target_rect, system_target: the rectangle a press in the bar belongs to
Target(screen, p) ==
    IF ZoneOf[p] # "bar" THEN ZoneOf[p]
    ELSE IF screen.id = "browser" THEN TargetOf[p] ELSE "bar"
Inside(target, p) == target \in {ZoneOf[p]} \cup (IF ZoneOf[p] = "bar" THEN {TargetOf[p]} ELSE {})

GesturePress(screen, p) == [target |-> Target(screen, p), cancelled |-> FALSE, active |-> TRUE]
GestureMove(g, p) ==
    IF g.active /\ ~Inside(g.target, p) THEN [g EXCEPT !.cancelled = TRUE] ELSE g
GestureAccepts(g, p) == LET moved == GestureMove(g, p) IN moved.active /\ ~moved.cancelled

TouchMove(t, p) ==
    IF t.start = None THEN t ELSE [t EXCEPT !.dragging = @ \/ Far(p, t.start)]
IsTap(t) == t.start # None /\ ~t.dragging

----------------------------------------------------------------------------
(* State                                                                   *)

\* what was acted on last: a click with its press, a key with where it was typed
NoAct == [kind |-> "none", touch |-> FALSE, far |-> FALSE, fresh |-> TRUE, typed |-> "none",
          screen |-> "none", from |-> None, at |-> None]

\* what the page area holds for a screen in its present state
Content(b) == [screen |-> b.screen, version |-> b.version]

Start(screen) ==
    [phase |-> "wait", screen |-> screen, normal |-> screen, network |-> FALSE,
     suspended |-> screen.id = "desktop", stopped |-> FALSE, exit |-> "none",
     press |-> None, gesture |-> NoGesture, touch |-> NoTouch, down |-> FALSE,
     \* input.rs: contacts, the selected one, a gesture being waited out, and the fingers
     \* that have been down since the screen changed
     contacts |-> [f \in Fingers |-> None], primary |-> None, blocked |-> TRUE, old |-> {},
     mouse |-> FALSE, moved |-> FALSE,
     keys |-> <<>>, read |-> 0, next |-> None, leave |-> FALSE,
     cursor |-> CHOOSE p \in Places : TRUE, target |-> None, visible |-> FALSE, pointer |-> FALSE,
     version |-> 0, contentDirty |-> TRUE, full |-> TRUE,
     buffer |-> None, saved |-> None,
     snapshot |-> CHOOSE n \in Snapshots : TRUE, painted |-> None, marked |-> FALSE, sampled |-> FALSE, act |-> NoAct]

Init == \E screen \in {Desktop, Browser} : bar = Start(screen)

Waiting  == bar.phase = "wait"
InFront  == bar.screen.id

----------------------------------------------------------------------------
(* Between frames: fingers, keys, the mouse and the bus                    *)

FingerMoves(f, p) ==
    /\ Waiting /\ bar.contacts[f] # p
    /\ bar' = [bar EXCEPT !.contacts[f] = p, !.old = IF p = None THEN @ \ {f} ELSE @]

TypeKey(k) ==
    /\ Waiting /\ Len(bar.keys) < MaxKeys
    /\ bar' = [bar EXCEPT !.keys = Append(@, [key |-> k, typed |-> InFront])]

\* topology_epoch changes whatever was plugged or unplugged
BusChanges ==
    /\ Waiting
    /\ \E m \in BOOLEAN :
         bar' = [bar EXCEPT !.moved = TRUE, !.mouse = m,
                            !.press = IF @ = None THEN None ELSE [@ EXCEPT !.fresh = FALSE]]

----------------------------------------------------------------------------
(* A frame: the bus, the indicators and the keys                           *)

Cancelled(b) == [b EXCEPT !.gesture = NoGesture, !.touch = NoTouch, !.press = None]

BeginFrame ==
    /\ Waiting
    /\ \E snapshot \in Snapshots, sampled \in BOOLEAN, changed \in BOOLEAN :
         /\ changed => sampled /\ InFront = "battery"
         /\ sampled => InFront = "battery"      \* nothing else reads it
         /\ LET b == IF bar.moved THEN Cancelled(bar) ELSE bar
            IN bar' = [b EXCEPT !.phase = "keys", !.moved = FALSE, !.read = 0, !.next = None,
                                !.leave = FALSE, !.snapshot = snapshot, !.sampled = sampled,
                                \* the battery sample is part of what its screen shows
                                !.version = IF changed THEN 1 - @ ELSE @,
                                !.target = bar.cursor, !.act = NoAct]

\* what a choice sets: a transition, or leaving with a route
Chosen(b, choice) ==
    IF choice.kind = "screen" THEN [b EXCEPT !.next = choice.screen]
    ELSE [b EXCEPT !.leave = TRUE, !.exit = IF choice.kind = "console" THEN @ ELSE choice.kind]

OpensLauncher(k, editing) == k = "f3" \/ (k = "m" /\ ~editing)

\* a key of the launcher
LauncherKey(b, k) ==
    LET screen == b.screen
        seen   == [b EXCEPT !.contentDirty = TRUE]
    IN CASE k = "up"    -> [seen EXCEPT !.screen.selected = IF @ = 0 THEN 0 ELSE @ - 1]
         [] k = "down"  -> [seen EXCEPT !.screen.selected =
                              IF @ + 1 < Rows(screen.power) THEN @ + 1 ELSE @]
         [] k = "esc"   -> IF screen.power THEN Chosen(seen, Choose(2, screen))
                           ELSE [seen EXCEPT !.next = Plain(screen.back)]
         [] k = "enter" -> Chosen(seen, Choose(screen.selected, screen))
         [] OTHER       -> seen

Delivered(b, event) ==
    [b EXCEPT !.keys = Tail(@), !.read = @ + 1,
              !.act = [NoAct EXCEPT !.kind = "key", !.typed = event.typed, !.screen = InFront]]

\* browser.key and network.key may change what they show, mark it, and ask to leave
KeyHandled ==
    /\ bar.phase = "keys" /\ bar.keys # <<>> /\ bar.read < Batch /\ bar.next = None /\ ~bar.leave
    /\ \E editing \in BOOLEAN :
       LET event == Head(bar.keys)
           b     == Delivered(bar, event)
       IN /\ editing => InFront \in {"browser", "network"}
          /\ IF OpensLauncher(event.key, editing)
             THEN bar' = [b EXCEPT !.phase = "pointer",
                            !.next = IF InFront = "launcher" THEN None
                                     ELSE Launcher(FALSE, 0, ReturnTo(bar.screen))]
             ELSE \/ /\ InFront = "launcher"
                     /\ bar' = LauncherKey(b, event.key)
                  \/ /\ InFront \in {"desktop", "battery"}
                     /\ bar' = [b EXCEPT !.next = IF InFront = "battery" /\ event.key = "esc"
                                                  THEN bar.normal ELSE None]
                  \/ /\ InFront \in {"browser", "network"}
                     /\ \E away \in BOOLEAN, changes \in BOOLEAN :
                          bar' = [b EXCEPT !.next = IF ~away THEN None
                                             ELSE IF InFront = "browser" THEN Desktop ELSE bar.normal,
                                           !.version = IF changes THEN 1 - @ ELSE @,
                                           !.contentDirty = @ \/ changes]

KeysDone ==
    /\ bar.phase = "keys" /\ (bar.keys = <<>> \/ bar.read = Batch \/ bar.next # None \/ bar.leave)
    /\ bar' = [bar EXCEPT !.phase = "pointer", !.read = 0, !.act = NoAct]

----------------------------------------------------------------------------
(* A frame: the pointer                                                    *)

\* poll_primary_touch: the first finger down stays the one followed
Polled ==
    LET down == {f \in Fingers : bar.contacts[f] # None}
    IN IF bar.blocked THEN {[phase |-> "idle", finger |-> None, blocked |-> down # {}]}
       ELSE IF bar.primary # None
       THEN IF bar.primary \in down
            THEN {[phase |-> "moved", finger |-> bar.primary, blocked |-> FALSE]}
            ELSE {[phase |-> "released", finger |-> None, blocked |-> FALSE]}
       ELSE IF down = {} THEN {[phase |-> "idle", finger |-> None, blocked |-> FALSE]}
       ELSE {[phase |-> "pressed", finger |-> f, blocked |-> FALSE] : f \in down}

Pressed(p, touch) ==
    [at |-> p, touch |-> touch, screen |-> InFront, fresh |-> TRUE, far |-> FALSE]

\* a click is sent where the press was, with what happened since
Clicked(b, p) ==
    [b EXCEPT !.act = [NoAct EXCEPT !.kind = "click", !.from = bar.press.at, !.at = p,
                         !.touch = bar.press.touch, !.far = bar.press.far,
                         !.fresh = bar.press.fresh, !.typed = bar.press.screen,
                         !.screen = InFront]]

\* held: the finger stayed for longer than TAP_MAX_MS
Touched(b, t, held) ==
    CASE t.phase = "pressed" ->
           LET p == bar.contacts[t.finger]
           IN [b EXCEPT !.down = TRUE, !.target = p, !.press = Pressed(p, TRUE),
                        !.touch = [NoTouch EXCEPT !.start = p],
                        !.gesture = IF InBar(p) THEN GesturePress(bar.screen, p) ELSE @]
      [] t.phase = "moved" ->
           LET p == bar.contacts[t.finger]
           IN [b EXCEPT !.target = p, !.gesture = GestureMove(@, p), !.touch = TouchMove(@, p),
                        !.press = IF @ = None THEN None ELSE [@ EXCEPT !.far = @ \/ Far(p, bar.press.at)]]
      [] t.phase = "released" ->
           LET lifted == [b EXCEPT !.press = None, !.gesture = NoGesture, !.touch = NoTouch,
                                   !.down = FALSE]
           IN IF /\ bar.press # None /\ bar.press.touch /\ IsTap(bar.touch) /\ ~held
                 /\ ~InBar(bar.press.at) \/ GestureAccepts(bar.gesture, bar.cursor)
              THEN Clicked(lifted, bar.cursor) ELSE lifted
      [] OTHER -> b

\* motion, button edges and the place they end at; a click may begin and end in one frame
MouseUpdates ==
    {[to |-> p, pressed |-> pr, released |-> re] : p \in Places, pr \in BOOLEAN, re \in BOOLEAN}

MousePressed(b, p) ==
    [b EXCEPT !.press = Pressed(p, FALSE),
              !.gesture = IF InBar(p) THEN GesturePress(bar.screen, p) ELSE @]

MouseReleased(b, p) ==
    LET press == b.press
        taken == [b EXCEPT !.press = None,
                           !.gesture = IF press # None /\ ~press.touch /\ InBar(press.at)
                                       THEN NoGesture ELSE @]
    IN IF /\ press # None /\ ~press.touch
          /\ ~InBar(press.at) \/ GestureAccepts(b.gesture, p)
       THEN [taken EXCEPT !.act = [NoAct EXCEPT !.kind = "click", !.from = press.at, !.at = p,
                                     !.far = press.far, !.fresh = press.fresh,
                                     !.typed = press.screen, !.screen = InFront]]
       ELSE taken

MouseMoved(b, m) ==
    LET pressed == IF m.pressed THEN MousePressed([b EXCEPT !.target = m.to], m.to)
                   ELSE [b EXCEPT !.target = m.to]
        moved   == [pressed EXCEPT !.gesture = GestureMove(@, m.to)]
    IN IF m.released THEN MouseReleased(moved, m.to) ELSE moved

Moved(t, m, held) ==
    LET polled == [bar EXCEPT !.phase = "click", !.blocked = t.blocked, !.primary = t.finger]
        after  == Touched(polled, t, held)
    IN IF bar.next # None \/ bar.leave THEN polled
       ELSE IF after.down \/ t.phase = "released" \/ m = None THEN after
       ELSE MouseMoved(after, m)

Pointer ==
    /\ bar.phase = "pointer"
    /\ \E t \in Polled, held \in BOOLEAN :
         \/ bar' = Moved(t, None, held)
         \/ /\ bar.mouse
            /\ \E m \in MouseUpdates : bar' = Moved(t, m, held)

----------------------------------------------------------------------------
(* A frame: the click and the transition                                   *)

Click ==
    /\ bar.phase = "click"
    /\ IF bar.act.kind # "click" THEN bar' = [bar EXCEPT !.phase = "route"]
       ELSE LET p    == bar.act.from
                b    == [bar EXCEPT !.phase = "route", !.act = NoAct]
                zone == ZoneOf[p]
            IN \/ /\ zone = "launcher"
                  /\ bar' = [b EXCEPT !.next =
                               IF InFront = "launcher" THEN Plain(bar.screen.back)
                               ELSE Launcher(FALSE, 0, ReturnTo(bar.screen))]
               \/ /\ zone = "wifi"
                  /\ bar' = [b EXCEPT !.next = IF InFront = "network" THEN None ELSE Network]
               \/ /\ zone = "battery"
                  /\ bar' = [b EXCEPT !.next = IF InFront = "battery" THEN None ELSE Battery]
               \/ /\ zone = "clock" /\ bar' = b
               \/ /\ zone \in {"bar", "page"} /\ InFront = "browser"
                  /\ \E away \in BOOLEAN, changes \in BOOLEAN :
                       bar' = [b EXCEPT !.next = IF away THEN Desktop ELSE None,
                                        !.version = IF changes THEN 1 - @ ELSE @,
                                        !.contentDirty = @ \/ changes]
               \/ /\ zone = "bar" /\ InFront # "browser"
                  /\ bar' = [b EXCEPT !.next = IF InFront \in {"network", "battery"}
                                               THEN bar.normal ELSE None]
               \/ /\ zone = "page" /\ InFront = "network"
                  /\ \E away \in BOOLEAN, changes \in BOOLEAN :
                       bar' = [b EXCEPT !.next = IF away THEN bar.normal ELSE None,
                                        !.version = IF changes THEN 1 - @ ELSE @,
                                        !.contentDirty = @ \/ changes]
               \/ /\ zone = "page" /\ InFront = "launcher"
                  /\ bar' = IF RowOf[p] < Rows(bar.screen.power)
                            THEN Chosen(b, Choose(RowOf[p], bar.screen)) ELSE b
               \/ /\ zone = "page" /\ InFront \in {"desktop", "battery"} /\ bar' = b

\* Cursor::hide puts back what was under the sprite
Hidden(b) == IF b.visible THEN [b EXCEPT !.buffer = b.saved, !.visible = FALSE] ELSE b

Entered(b, next) ==
    LET away    == b.screen.id = "browser"
        hidden  == Hidden(b)
    IN [Cancelled(hidden) EXCEPT
          !.suspended = IF next.id = "browser" THEN FALSE ELSE @ \/ away,
          !.stopped   = IF next.id = "browser" THEN FALSE ELSE @ \/ away,
          !.network   = IF next.id \in {"desktop", "browser", "battery"} THEN FALSE
                        ELSE @ \/ next.id = "network",
          !.normal    = IF next.id \in {"desktop", "browser"} THEN next ELSE @,
          !.screen = next, !.next = None, !.down = FALSE, !.keys = <<>>,
          !.primary = None, !.blocked = TRUE, !.old = {f \in Fingers : b.contacts[f] # None},
          !.contentDirty = TRUE, !.full = TRUE, !.painted = None]

\* the screen in front is ticked; what it changed asks to be drawn
Ticked(b, changes) ==
    IF ~changes THEN b
    ELSE [b EXCEPT !.version = 1 - @, !.contentDirty = TRUE]

Closed(b) == [Hidden(b) EXCEPT !.phase = "closed", !.keys = <<>>, !.network = FALSE]

Route ==
    /\ bar.phase = "route"
    /\ IF bar.leave THEN bar' = Closed(bar)
       ELSE \E changes \in BOOLEAN :
              LET b == IF bar.next # None THEN Entered(bar, bar.next) ELSE bar
              IN /\ changes => \/ b.screen.id = "browser" /\ ~b.stopped
                               \/ b.screen.id = "network" /\ b.network
                 /\ bar' = [Ticked(b, changes) EXCEPT !.phase = "paint",
                              !.contentDirty = @ \/ changes \/ (b.screen.id = "battery" /\ b.sampled)]

----------------------------------------------------------------------------
(* A frame: painting                                                       *)

ShowPointer == bar.mouse \/ bar.down
UpToDate ==
    /\ ~bar.full /\ ~bar.contentDirty /\ bar.painted = bar.snapshot
    /\ ShowPointer = bar.pointer /\ bar.target = bar.cursor

\* hide, draw what changed, move, and show again over what is there now
Painted(b) ==
    LET hidden == Hidden(b)
        drawn  == IF b.contentDirty \/ b.full THEN [hidden EXCEPT !.buffer = Content(b)] ELSE hidden
        marked == [drawn EXCEPT !.marked = IF b.painted = None THEN b.screen.id = "launcher" ELSE @,
                                !.painted = b.snapshot, !.cursor = b.target]
    IN [marked EXCEPT !.saved = IF ShowPointer THEN marked.buffer ELSE @,
                      !.visible = ShowPointer, !.pointer = ShowPointer,
                      !.full = FALSE, !.contentDirty = FALSE, !.sampled = FALSE, !.phase = "wait"]

Paint ==
    /\ bar.phase = "paint"
    /\ IF UpToDate THEN bar' = [bar EXCEPT !.phase = "wait", !.sampled = FALSE]
       ELSE \/ bar' = Painted(bar)
            \/ bar' = Closed(bar)      \* a flush failed

Next ==
    \/ \E f \in Fingers, p \in Places \cup {None} : FingerMoves(f, p)
    \/ \E k \in Keys : TypeKey(k)
    \/ BusChanges
    \/ BeginFrame \/ KeyHandled \/ KeysDone \/ Pointer \/ Click \/ Route \/ Paint

Spec == Init /\ [][Next]_bar

----------------------------------------------------------------------------
(* Properties                                                              *)

\* Every field holds what its declaration allows, and a closed host has taken its sprite down.
TypeOK ==
    /\ bar.phase \in {"wait", "keys", "pointer", "click", "route", "paint", "closed"}
    /\ bar.screen \in Screens /\ bar.normal \in {Desktop, Browser}
    /\ bar.screen.id = "launcher" => bar.screen.selected < Rows(bar.screen.power)
    /\ bar.primary \in Fingers \cup {None} /\ bar.cursor \in Places
    /\ Len(bar.keys) <= MaxKeys
    /\ bar.phase = "closed" => ~bar.visible

\* A click is acted on where its press was made: on the same screen, with the same devices,
\* for a press in the bar still over the same button, for a finger only if it never strayed
\* (run in system_bar.rs; the gestures of system-ui).  A key is handled by the screen that
\* was in front when it was queued, although a whole batch is handled in one frame.
InputReachesItsScreen ==
    /\ bar.act.kind = "key" => bar.act.typed = bar.act.screen
    /\ bar.act.kind = "click" =>
         /\ bar.act.fresh /\ bar.act.typed = bar.act.screen
         /\ bar.act.touch => ~bar.act.far
         /\ InBar(bar.act.from) => Inside(Target(Plain(bar.act.screen), bar.act.from), bar.act.at)

\* A finger that was down when the screen changed acts on nothing: until every such finger
\* has left the panel none is followed, the second finger of a gesture included
\* (cancel_primary_touch and poll_primary_touch of input.rs).
OldFingersAreWaitedOut == bar.old # {} => bar.primary = None /\ ~bar.down

\* After a frame the panel shows the state: the page of the screen in front as it is now, the
\* slots of the bar, and the sprite over pixels that are those of this page, so that lifting
\* it restores them (the order of hide, draw and show of pointer.rs).
PanelShowsTheState ==
    bar.phase = "wait" /\ ~bar.full =>
      /\ bar.buffer = Content(bar)
      /\ bar.visible => bar.saved = Content(bar)
      /\ bar.painted = bar.snapshot /\ bar.marked = (InFront = "launcher")
      /\ bar.cursor = bar.target

\* The network screen lives exactly while it is shown or waits behind the launcher, the
\* browser and its timer run exactly while it is in front, and both ways back out of a mini
\* screen lead to the desktop or the browser.
ScreensLiveWhileShown ==
    bar.phase # "closed" =>
      /\ bar.network = (InFront = "network" \/ (InFront = "launcher" /\ bar.screen.back = "network"))
      /\ bar.suspended = (InFront # "browser")
      /\ bar.stopped => bar.suspended
      /\ InFront \in {"desktop", "browser"} => bar.normal = bar.screen

============================================================================
