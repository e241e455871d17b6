---------------------------- MODULE InputSources ----------------------------
(***************************************************************************)
(* How keys and mouse motion reach the application: src/src/input.rs       *)
(* (InputManager), src/src/usb/hid.rs, hid_keyboard.rs and hid_mouse.rs    *)
(* (boot reports), and the polling of src/src/usb/registry.rs.             *)
(*                                                                         *)
(* A keyboard says which keys are held, not which were pressed: the driver *)
(* compares each report with the one before.  Behind a High-Speed hub it   *)
(* is polled between frames, and its keys wait in a queue of their own.    *)
(***************************************************************************)
EXTENDS Integers, Sequences, SequencesExt, FiniteSetsExt

CONSTANTS
    Scenarios,  \* what is connected: records [part, split], part one of "keys", "mouse", "stale";
                \* split: the keyboard is polled between frames (behind a High-Speed hub's TT)
    Codes,      \* keys of the USB keyboard
    Rollover,   \* keys a boot report has room for
    PendingMax, \* PENDING_KEY_EVENTS
    Drain,      \* MAX_REPORTS_PER_POLL
    GiveUp,     \* POLL_FAILURE_GIVE_UP_THRESHOLD
    Backoff, BackoffMax, Settled,  \* STALE_RESCAN_...
    MaxPresses, \* bound: keys pressed on each keyboard
    MaxWire,    \* bound: reports a device holds back
    MaxFrames   \* bound: frames counted

VARIABLE sources

Order == <<"card", "tab5", "usb">>
SourceAfter(s) == Order[(SelectInSeq(Order, LAMBDA x : x = s) % 3) + 1]

Has(part) == sources.is.part = part

TypeOK ==
    /\ Len(sources.events) <= PendingMax
    /\ sources.next \in ToSet(Order)
    /\ Len(sources.wire) <= MaxWire
    /\ sources.errors \in 0 .. GiveUp
    /\ sources.backoff \in 0 .. BackoffMax

Init == \E is \in Scenarios :
    sources = [is |-> is, held |-> <<>>, wire |-> <<>>, previous |-> {}, pending |-> <<>>, events |-> <<>>,
               next |-> "card", queued |-> [s \in {"card", "tab5"} |-> 0],
               lent |-> [s \in {"card", "tab5"} |-> 0],
               pressed |-> <<>>, told |-> <<>>, lossy |-> FALSE,
               waits |-> [s \in ToSet(Order) |-> 0],
               mouse |-> [wire |-> <<>>, down |-> FALSE, level |-> FALSE, moved |-> 0, seen |-> 0],
               errors |-> 0, rescans |-> 0, backoff |-> 0, since |-> 0, gap |-> 0, due |-> 0]

-----------------------------------------------------------------------------
(* The USB keyboard: reports of what is held, compared with the last one. *)

Phantom == "phantom"
Report(held) == IF Len(held) > Rollover THEN Phantom ELSE held

\* A key goes down, or up again; the device queues a report of what is held.
Held(held) ==
    sources' = [sources EXCEPT
        !.held = held,
        !.wire = Append(@, Report(held)),
        !.lossy = @ \/ Len(held) > Rollover,
        !.pressed = IF Len(held) > Len(sources.held) THEN Append(@, Last(held)) ELSE @]

Touch(code) ==
    /\ Has("keys") /\ Len(sources.wire) < MaxWire
    /\ IF Contains(sources.held, code) THEN Held(Remove(sources.held, code))
       ELSE Len(sources.pressed) < MaxPresses /\ Held(Append(sources.held, code))

\* The keys that are down in a report and were not in the last one.
NewKeys(previous, report) == SelectSeq(report, LAMBDA code : code \notin previous)

\* A phantom report is taken for one of no keys.
MutantQueueNewKeys(s, report) ==
    IF report = Phantom THEN [s EXCEPT !.previous = {}]
    ELSE [s EXCEPT !.pending = NewKeys(s.previous, report), !.previous = ToSet(report)]

\* queue_new_keys.
QueueNewKeys(s, report) ==
    IF report = Phantom THEN s
    ELSE [s EXCEPT !.pending = NewKeys(s.previous, report), !.previous = ToSet(report)]

\* UsbKeyboard::poll: what is decoded already comes first, and then one report.
Asked(s) ==
    IF s.pending # <<>> \/ s.wire = <<>> THEN s
    ELSE [QueueNewKeys(s, Head(s.wire)) EXCEPT !.wire = Tail(@), !.errors = 0]

\* poll_split_keyboards, from the tick between two frames.  A key that finds
\* the queue full is dropped.
ServiceFast ==
    /\ Has("keys") /\ sources.is.split
    /\ LET s == Asked(sources)
       IN  sources' =
             IF s.pending = <<>> THEN s
             ELSE IF Len(s.events) = PendingMax
                  THEN [s EXCEPT !.pending = Tail(@), !.lossy = TRUE]
                  ELSE [s EXCEPT !.pending = Tail(@), !.events = Append(@, Head(s.pending))]

-----------------------------------------------------------------------------
(* poll_key. *)

\* The I2C keyboards hold their keys until they are read.
Tap(s) ==
    /\ Has("keys") /\ sources.lent[s] < MaxPresses
    /\ sources' = [sources EXCEPT !.queued[s] = @ + 1, !.lent[s] = @ + 1]

\* A key read fails: the Tab5 keyboard is dropped with what it held.
Tab5Fails ==
    /\ Has("keys") /\ sources.queued["tab5"] > 0
    /\ sources' = [sources EXCEPT !.queued["tab5"] = 0, !.waits["tab5"] = 0]

\* A source that has a key to give.
Ready(s, source) ==
    IF source = "usb" THEN s.events # <<>> \/ Asked(s).pending # <<>> ELSE s.queued[source] > 0

\* Everyone who had a key and was passed over has waited once more.
Delivered(before, s, source) ==
    [s EXCEPT !.next = SourceAfter(source),
              !.waits = [other \in ToSet(Order) |->
                  IF other # source /\ Ready(before, other) THEN before.waits[other] + 1 ELSE 0]]

FromUsb(s) ==
    LET asked == Asked(s)
    IN  [asked EXCEPT !.pending = Tail(@), !.told = Append(@, Head(asked.pending))]

\* The sources are asked in turn; the ones in front had nothing, and the
\* keyboard may have been read to find that out.
PollKey ==
    /\ Has("keys")
    /\ LET turn == <<sources.next, SourceAfter(sources.next), SourceAfter(SourceAfter(sources.next))>>
           first == SelectInSeq(turn, LAMBDA x : Ready(sources, x))
           found == turn[first]
           passed == IF \E i \in 1 .. (IF first = 0 THEN 3 ELSE first - 1) : turn[i] = "usb"
                     THEN Asked(sources) ELSE sources
       IN  sources' =
             IF sources.events # <<>>
             THEN Delivered(sources, [sources EXCEPT !.events = Tail(@),
                                                     !.told = Append(@, Head(sources.events))], "usb")
             ELSE IF first = 0 THEN passed
             ELSE IF found = "usb" THEN Delivered(sources, FromUsb(sources), "usb")
             ELSE Delivered(sources, [passed EXCEPT !.queued[found] = @ - 1], found)

\* discard_queued_keys, when the foreground changes hands.
DiscardQueuedKeys ==
    /\ Has("keys") /\ (sources.events # <<>> \/ sources.pending # <<>>)
    /\ sources' = [sources EXCEPT !.events = <<>>, !.pending = <<>>, !.lossy = TRUE,
                                  !.waits["usb"] = 0]

-----------------------------------------------------------------------------
(* The mouse. *)

MouseReport(dx, down) ==
    /\ Has("mouse") /\ Len(sources.mouse.wire) < MaxWire /\ sources.mouse.moved + dx <= MaxPresses
    /\ sources' = [sources EXCEPT !.mouse =
            [@ EXCEPT !.wire = Append(@, [dx |-> dx, down |-> down]), !.down = down,
                      !.moved = @ + dx]]

Motion(reports) == FoldLeft(LAMBDA sum, r : sum + r.dx, 0, reports)

\* UsbMouse::poll: every waiting report is drained, the motion is added up
\* and the buttons are those of the last one.
PollMouse ==
    /\ Has("mouse") /\ sources.mouse.wire # <<>>
    /\ LET m == sources.mouse
           n == IF Len(m.wire) < Drain THEN Len(m.wire) ELSE Drain
           drained == SubSeq(m.wire, 1, n)
           level == Last(drained).down
       IN  sources' = [sources EXCEPT !.mouse =
                [m EXCEPT !.wire = SubSeq(m.wire, n + 1, Len(m.wire)),
                          !.level = level,
                          !.seen = @ + Motion(drained)]]

-----------------------------------------------------------------------------
(* A session that goes stale, and the rescans it may cause. *)

Stale(s) == s.errors = GiveUp

\* Polls that fail; a rescan starts the session afresh.
PollFails ==
    /\ Has("stale") /\ ~Stale(sources)
    /\ sources' = [sources EXCEPT !.errors = @ + 1]

PollIdle ==
    /\ Has("stale") /\ sources.errors > 0
    /\ sources' = [sources EXCEPT !.errors = 0]

\* "gap" counts the frames since the last rescan, "due" how many there must be.
Rescan(s) ==
    LET n == s.rescans + 1
        wait == Min({Backoff * (n - 1), BackoffMax})
    IN  [s EXCEPT !.errors = 0, !.rescans = Min({n, BackoffMax + 1}), !.since = 0,
                  !.backoff = IF n > 1 THEN wait ELSE @,
                  !.gap = 0, !.due = IF n > 1 THEN wait ELSE 0]

RescanStaleSession(s) == IF s.backoff > 0 THEN [s EXCEPT !.backoff = @ - 1] ELSE Rescan(s)

\* InputManager::service, once a frame: a quiet bus forgets its backoff.
Service ==
    /\ Has("stale")
    /\ LET since == Min({sources.since + 1, MaxFrames})
           over == since >= Settled /\ sources.rescans # 0
           s == [sources EXCEPT !.since = since, !.gap = Min({@ + 1, MaxFrames}),
                                !.rescans = IF over THEN 0 ELSE @,
                                !.backoff = IF over THEN 0 ELSE @]
       IN  sources' = IF Stale(s) THEN RescanStaleSession(s) ELSE s

-----------------------------------------------------------------------------
Next ==
    \/ \E code \in Codes : Touch(code)
    \/ \E s \in {"card", "tab5"} : Tap(s)
    \/ Tab5Fails \/ ServiceFast \/ PollKey \/ DiscardQueuedKeys
    \/ \E dx \in 0 .. 1, down \in BOOLEAN : MouseReport(dx, down)
    \/ PollMouse
    \/ PollFails \/ PollIdle \/ Service

Spec == Init /\ [][Next]_sources

-----------------------------------------------------------------------------
(* Properties *)

RECURSIVE InTransit(_, _)
InTransit(previous, wire) ==
    IF wire = <<>> THEN <<>>
    ELSE IF Head(wire) = Phantom THEN InTransit(previous, Tail(wire))
    ELSE NewKeys(previous, Head(wire)) \o InTransit(ToSet(Head(wire)), Tail(wire))

\* Every key pressed on a USB keyboard is delivered once, in the order it was
\* pressed, however the reports, the driver's queue and the manager's queue
\* share it between them; only a full queue, a report too small for the keys
\* held and a deliberate discard lose one, and none is ever typed twice.
KeysArriveOnceInOrder ==
    LET whole == sources.told \o sources.events \o sources.pending
                    \o InTransit(sources.previous, sources.wire)
        times(s, code) == Len(SelectSeq(s, LAMBDA x : x = code))
    IN  /\ ~sources.lossy => whole = sources.pressed
        /\ \A code \in Codes : times(whole, code) <= times(sources.pressed, code)

\* A source that never stops typing cannot keep the others from being heard:
\* a key that is ready is delivered after two others at most (poll_key:
\* "rotating the source checked first after every delivered key so a
\* continuously active source cannot starve the others").  This is not so for a
\* keyboard that is polled between frames: its queue is always emptied first.
NoSourceStarves == ~sources.is.split => \A s \in ToSet(Order) : sources.waits[s] <= 2

\* Polling once a frame loses no motion (InputManager::poll_mouse).
MotionIsKept == sources.mouse.seen + Motion(sources.mouse.wire) = sources.mouse.moved

\* A device that fails again as soon as it is attached does not take the bus
\* down under the others on every frame: the rescans it causes are at least
\* the backoff apart until the bus has been left alone long enough
\* (rescan_stale_session).
RescansAreSpaced ==
    [][sources'.since = 0 /\ sources.since # 0 =>
          sources.gap >= sources.due \/ sources.since >= Settled - 1]_sources
=============================================================================
