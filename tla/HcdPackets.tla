------------------------------ MODULE HcdPackets ------------------------------
(***************************************************************************)
(* One packet at a time on channel 0 of usb/hcd.rs: descriptor packets     *)
(* that the core runs by itself, and split packets that the driver takes   *)
(* through a hub's transaction translator one handshake at a time, in the  *)
(* buffer DMA mode the whole controller has to be switched to.  The core,  *)
(* the translator and the interrupt handler act between any two steps.     *)
(***************************************************************************)
EXTENDS Integers, Sequences, FiniteSets

CONSTANTS Lengths,     \* lengths of packets
          SplitRounds, \* max_split_rounds
          HardCap      \* SPLIT_HARD_ROUND_CAP

VARIABLE hcd

----------------------------------------------------------------------------
(* State                                                                   *)

Longest == CHOOSE n \in Lengths : \A m \in Lengths : m <= n
Unknown == -1
Garbage == Longest + 1      \* a remainder larger than any request

\* a descriptor in memory: its owner, what it says is left, its status, and
\* whether it is the all-zero word
Word(left, ok)  == [active |-> FALSE, left |-> left, ok |-> ok, blank |-> FALSE]
Fresh(len)      == [Word(len, TRUE) EXCEPT !.active = TRUE]
Blank           == [Word(0, TRUE) EXCEPT !.blank = TRUE]

NoPacket == [kind |-> "desc", in |-> FALSE, len |-> 0, sleep |-> TRUE, periodic |-> FALSE]
NoOut    == [kind |-> "none", count |-> 0, gave |-> "nothing"]

Init ==
    hcd = [phase |-> "idle", packet |-> NoPacket, out |-> NoOut,
           seen |-> {}, rounds |-> 0, complete |-> FALSE, gave |-> "nothing",
           \* registers: channel 0, its causes, the DMA mode, the latch of the ISR
           on |-> FALSE, hcint |-> {}, pending |-> {}, mie |-> TRUE, mode |-> "desc",
           late |-> FALSE,                \* a transfer nobody stopped goes on
           qtd |-> Blank, moved |-> 0,    \* the packet's descriptor, its bytes on the wire
           tt |-> "free", split |-> FALSE, armed |-> FALSE, unusable |-> FALSE,
           destroyed |-> FALSE, torn |-> FALSE]

P == hcd.packet

\* prepare_channel0_interrupt
Prepared(h) == [h EXCEPT !.hcint = {}, !.pending = {}]

\* starting the channel; one that was never stopped goes on in the background
Enabled(h) ==
    LET p == Prepared(h) IN
    [p EXCEPT !.on = TRUE, !.late = h.on,
              !.phase = "waiting", !.seen = {}]

Ends(h, kind, count) ==
    [h EXCEPT !.phase = "idle", !.seen = {}, !.rounds = 0, !.complete = FALSE, !.qtd = Blank,
              !.gave = "nothing",
              !.out = [kind |-> kind, count |-> count, gave |-> h.gave]]

----------------------------------------------------------------------------
(* run_packet: a descriptor packet                                         *)

\* Channel0Transfer::new and submit; the descriptors of the bank take turns,
\* so that a late transfer never writes the one the next packet waits for
Begun(p) == [hcd EXCEPT !.packet = p, !.out = NoOut, !.gave = "nothing", !.rounds = 0,
                        !.complete = FALSE, !.moved = 0]

Submit(p, refused) ==
    /\ hcd.phase = "idle" /\ p.kind = "desc" /\ ~p.periodic
    /\ hcd' = IF refused THEN Ends(Begun(p), "refused", 0)
              ELSE [Enabled(Begun(p)) EXCEPT !.qtd = Fresh(p.len)]

\* progress_from
Progress(word, len, completed) ==
    IF word.active \/ word.left > len \/ (~completed /\ word.blank /\ len > 0) THEN Unknown
    ELSE len - word.left

\* note_completion and reap
Judged(h, synced, published) ==
    LET word  == h.qtd
        count == Progress(word, P.len, "xfer" \in h.seen)
    IN  IF ~synced THEN Ends(h, "refused", 0)
        ELSE IF h.seen \cap {"stall", "error"} # {} THEN Ends(h, "error", Unknown)
        ELSE IF ~word.ok
        THEN IF P.in /\ count > 0 /\ ~published THEN Ends(h, "refused", 0)
             ELSE Ends(h, "packet", count)
        ELSE IF "xfer" \notin h.seen \/ word.active \/ count = Unknown
        THEN Ends(h, "error", Unknown)
        ELSE IF ~P.in /\ count # P.len THEN Ends(h, "error", Unknown)
        ELSE IF P.in /\ count > 0 /\ ~published THEN Ends(h, "refused", 0)
        ELSE Ends(h, "ok", count)
Reap(synced, published) ==
    /\ hcd.phase = "halted" /\ P.kind = "desc"
    /\ hcd' = Judged(hcd, synced, published)

\* force_halt_channel: an idle channel is left alone; a halt that is not
\* confirmed is the end of the bus
ForcedHalt(h, confirmed) ==
    IF ~h.on THEN Prepared(h)
    ELSE IF confirmed THEN [Prepared(h) EXCEPT !.on = FALSE, !.late = FALSE]
    ELSE [Prepared(h) EXCEPT !.unusable = TRUE]

\* what a halted descriptor may look like: untouched, written back, all zero
HaltedWords(h) == {h.qtd, Blank} \cup {Word(P.len - h.moved, FALSE)}

\* the end of the waiting: halt, then cancel
Abandon(confirmed, word, published) ==
    LET h == [ForcedHalt(hcd, confirmed) EXCEPT !.qtd = word]
        count == Progress(word, P.len, FALSE)
    IN  /\ hcd.phase = "expired" /\ P.kind = "desc"
        /\ word \in HaltedWords(hcd) /\ (~hcd.on \/ ~confirmed => word = hcd.qtd)
        /\ hcd' = Ends(h, "timeout", IF P.in /\ count > 0 /\ ~published THEN Unknown ELSE count)

----------------------------------------------------------------------------
(* wait_for_channel0_halt                                                  *)

\* a look at what the interrupt handler has latched; a poll looks at the
\* registers too
Check ==
    LET hard == IF P.sleep THEN {} ELSE hcd.hcint
        seen == hcd.seen \cup hcd.pending \cup hard
    IN  /\ hcd.phase = "waiting"
        /\ hcd' = [hcd EXCEPT !.pending = {}, !.hcint = @ \ hard, !.seen = seen,
                              !.phase = IF "halt" \in seen THEN "halted" ELSE "checked"]

Expire ==
    /\ hcd.phase = "checked"
    /\ hcd' = [hcd EXCEPT !.phase = "expired"]

\* mask, look again, and sleep only if nothing is there
PollAgain ==
    /\ hcd.phase = "checked" /\ ~P.sleep
    /\ hcd' = [hcd EXCEPT !.phase = "waiting"]
Mask ==
    /\ hcd.phase = "checked" /\ P.sleep
    /\ hcd' = [hcd EXCEPT !.mie = FALSE, !.phase = "masked"]
LookAgain ==
    LET seen == hcd.seen \cup hcd.pending \cup hcd.hcint IN
    /\ hcd.phase = "masked"
    /\ hcd' = [hcd EXCEPT !.pending = {}, !.hcint = {}, !.seen = seen, !.phase = "asking"]

\* wfi, which a source that is already there ends at once
Sleep ==
    /\ hcd.phase = "asking"
    /\ hcd' = IF "halt" \in hcd.seen THEN [hcd EXCEPT !.mie = TRUE, !.phase = "waiting"]
              ELSE [hcd EXCEPT !.phase = "asleep"]
Wake ==
    /\ hcd.phase = "asleep"
    /\ hcd' = [hcd EXCEPT !.mie = TRUE, !.phase = "waiting"]

\* handle_interrupt
HandleInterrupt ==
    /\ hcd.mie /\ hcd.hcint # {} /\ hcd.phase # "idle"
    /\ hcd' = [hcd EXCEPT !.pending = @ \cup hcd.hcint, !.hcint = {}]

----------------------------------------------------------------------------
(* The core and the bus                                                    *)

\* the core ends a descriptor: done, failed, or halted without a word
CoreEnds(count, causes, word) ==
    /\ hcd.phase # "idle" /\ hcd.on /\ ~hcd.late /\ P.kind = "desc"
    /\ hcd' = [hcd EXCEPT !.on = FALSE, !.hcint = @ \cup causes, !.moved = count,
                          !.qtd = word]
CoreCompletes ==
    \E count \in 0..P.len : CoreEnds(count, {"halt", "xfer"}, Word(P.len - count, TRUE))
CoreFails ==
    \E count \in 0..P.len :
        \/ \E left \in {P.len - count, Garbage} : CoreEnds(count, {"halt"}, Word(left, FALSE))
        \/ \E cause \in {"stall", "error"}, word \in {Word(P.len - count, FALSE), hcd.qtd} :
              CoreEnds(count, {"halt", cause}, word)
        \/ \E word \in {Blank, hcd.qtd} : CoreEnds(count, {"halt"}, word)

\* the transfer nobody stopped ends after all, under its own descriptor
LateCompletion ==
    /\ hcd.phase # "idle" /\ hcd.on /\ hcd.late
    /\ \E done \in BOOLEAN :
         hcd' = [hcd EXCEPT !.on = FALSE, !.late = FALSE,
                            !.hcint = @ \cup {"halt"} \cup (IF done THEN {"xfer"} ELSE {})]

\* the translator answers a start split, and a complete split
Answers(causes, tt, count) ==
    hcd' = [hcd EXCEPT !.on = FALSE, !.hcint = @ \cup {"halt"} \cup causes,
                       !.tt = tt, !.moved = count]
StartSplit ==
    /\ hcd.phase # "idle" /\ hcd.on /\ ~hcd.late /\ P.kind = "split" /\ ~hcd.complete
    /\ \/ Answers({"ack"}, "holds", 0)
       \/ Answers({"nak"}, "free", 0)
       \/ Answers({"error"}, "unknown", 0)
CompleteSplit ==
    /\ hcd.phase # "idle" /\ hcd.on /\ ~hcd.late /\ P.kind = "split" /\ hcd.complete
    /\ \/ Answers({"nyet"}, hcd.tt, 0)
       \/ Answers({"nak"}, "free", 0)
       \/ Answers({"stall"}, "free", 0)
       \/ Answers({"error"}, "unknown", 0)
       \/ \E count \in IF P.in THEN 0..P.len ELSE {P.len} : Answers({"xfer"}, "free", count)

----------------------------------------------------------------------------
(* run_split_packet, await_packet                                          *)

\* enter_split_mode: descriptor channels and split packets exclude each other
MayEnter == ~hcd.armed /\ ~hcd.split

EnterSplit(p, refused, ready) ==
    LET h == Begun(p) IN
    /\ hcd.phase = "idle" /\ p.kind = "split"
    /\ hcd' = IF ~MayEnter THEN Ends(h, "error", Unknown)
              ELSE IF refused THEN Ends(h, "refused", 0)
              ELSE IF ~ready THEN Ends(h, "error", Unknown)
              ELSE [Enabled(h) EXCEPT !.split = TRUE, !.mode = "buffer",
                                      !.torn = @ \/ h.on,
                                      !.tt = "free"]

GivesUp(h, why) == [h EXCEPT !.gave = why, !.phase = "leaving"]

\* the budget ends only where the translator has let go
MutantOutOfBudget(rounds, nak) == rounds >= SplitRounds
OutOfBudget(rounds, nak) == nak /\ rounds >= SplitRounds

\* one handshake: a conclusion, a reason to stop, or the next activation.
\* frame: the periodic window has passed; ready: the frame counter runs
Round(frame, ready) ==
    LET nak    == "nak" \in hcd.seen
        rounds == hcd.rounds + 1
        h      == [hcd EXCEPT !.rounds = rounds]
        gone   == [h EXCEPT !.tt = "free"]
    IN  /\ hcd.phase = "halted" /\ P.kind = "split"
        /\ frame => P.periodic
        /\ hcd' = IF hcd.seen \cap {"xfer", "stall", "error"} # {}
                  THEN [hcd EXCEPT !.phase = "leaving"]
                  ELSE IF P.periodic /\ nak THEN GivesUp(h, "nak")
                  ELSE IF OutOfBudget(rounds, nak) THEN GivesUp(h, "budget")
                  ELSE IF P.periodic /\ hcd.complete /\ "nyet" \in hcd.seen
                            /\ (rounds >= SplitRounds \/ frame)
                  THEN GivesUp(gone, "frame")
                  ELSE IF rounds >= HardCap THEN GivesUp(h, "cap")
                  ELSE IF ~ready THEN GivesUp(h, "lost")
                  ELSE IF frame /\ ~nak THEN GivesUp(gone, "frame")
                  ELSE [Enabled(h) EXCEPT !.complete = ~nak]

SplitExpires ==
    /\ hcd.phase = "expired" /\ P.kind = "split"
    /\ hcd' = GivesUp(hcd, "timeout")

\* flush_all_fifos and flush_channel0_fifos: the receive FIFO holds what the
\* periodic channels are about to hand over
Flushed(h, everything) == [h EXCEPT !.destroyed = @ \/ (everything /\ h.armed)]

\* stop the channel if it still runs, then give the mode back
Stopped(h, confirmed) ==
    IF h.gave # "nothing" /\ h.on THEN Flushed(ForcedHalt(h, confirmed), TRUE) ELSE h
Restored(h) == [h EXCEPT !.mode = "desc", !.split = FALSE, !.torn = @ \/ h.on]

LeaveSplit(confirmed, published) ==
    LET h == Restored(Stopped(hcd, confirmed)) IN
    /\ hcd.phase = "leaving"
    /\ hcd' = IF hcd.gave # "nothing" THEN Ends(h, "timeout", Unknown)
              ELSE IF hcd.seen \cap {"stall", "error"} # {} THEN Ends(h, "error", Unknown)
              ELSE IF P.in /\ hcd.moved > 0 /\ ~published THEN Ends(h, "refused", 0)
              ELSE Ends(h, "ok", hcd.moved)

----------------------------------------------------------------------------
(* Between packets                                                         *)

\* recover_failed_packet with flush_channel0_fifos
Spares(h) == h.armed
Recover(transmitOnly, confirmed) ==
    LET h == [Prepared(IF hcd.on THEN ForcedHalt(hcd, confirmed) ELSE hcd) EXCEPT !.mode = "desc"]
    IN  /\ hcd.phase = "idle" /\ hcd.out.kind \in {"timeout", "packet", "error"}
        /\ transmitOnly => hcd.out.kind = "packet" /\ ~P.in
        /\ hcd' = [Flushed(h, ~transmitOnly /\ ~Spares(h)) EXCEPT !.out = NoOut]

\* enable_periodic_hid and disable_periodic_hid
Arm    == /\ hcd.phase = "idle" /\ ~hcd.armed
          /\ hcd' = [hcd EXCEPT !.armed = TRUE]
Disarm == /\ hcd.phase = "idle" /\ hcd.armed
          /\ hcd' = [hcd EXCEPT !.armed = FALSE]

\* the registry re-enumerates an unusable bus: probe_port resets the core
ProbePort ==
    /\ hcd.phase = "idle" /\ hcd.unusable
    /\ hcd' = [Prepared(hcd) EXCEPT !.on = FALSE, !.late = FALSE, !.unusable = FALSE,
                                    !.armed = FALSE, !.tt = "free", !.out = NoOut, !.torn = FALSE]

Packets ==
    {[kind |-> "desc", in |-> in, len |-> n, sleep |-> s, periodic |-> FALSE] :
        in \in BOOLEAN, n \in Lengths, s \in BOOLEAN}
      \cup {[kind |-> "split", in |-> in, len |-> n, sleep |-> TRUE, periodic |-> p] :
              in \in BOOLEAN, n \in Lengths, p \in BOOLEAN}

Next ==
    \/ \E p \in Packets, refused \in BOOLEAN : Submit(p, refused)
    \/ \E p \in Packets, refused, ready \in BOOLEAN : EnterSplit(p, refused, ready)
    \/ \E a, b \in BOOLEAN : \/ Reap(a, b) \/ Round(a, b) \/ LeaveSplit(a, b) \/ Recover(a, b)
                             \/ \E word \in HaltedWords(hcd) : Abandon(a, word, b)
    \/ Check \/ Expire \/ PollAgain \/ Mask \/ LookAgain \/ Sleep \/ Wake
    \/ HandleInterrupt \/ CoreCompletes \/ CoreFails \/ LateCompletion
    \/ StartSplit \/ CompleteSplit \/ SplitExpires
    \/ Arm \/ Disarm \/ ProbePort

Spec == Init /\ [][Next]_hcd

----------------------------------------------------------------------------
(* Properties                                                              *)

\* Type invariant of the packet, the channel and its descriptors.
TypeOK ==
    /\ P \in Packets \cup {NoPacket}
    /\ hcd.out.kind \in {"none", "ok", "timeout", "packet", "refused", "error"}
    /\ hcd.out.count \in Unknown..Longest
    /\ hcd.pending \cup hcd.hcint \subseteq {"halt", "xfer", "stall", "error", "nak", "nyet", "ack"}
    /\ hcd.mode \in {"desc", "buffer"} /\ hcd.tt \in {"free", "holds", "unknown"}
    /\ hcd.late \in BOOLEAN

\* A packet that is said to have succeeded moved exactly the bytes it says,
\* all of them for an OUT packet; a packet that failed with a known count
\* moved exactly that count, so a retry may skip it.  Neither a descriptor
\* nobody wrote back nor an impossible remainder may be believed.  (Nothing is
\* promised once a halt could not be confirmed: the bus is then re-enumerated.)
OutcomesAreTrue ==
  ~hcd.unusable =>
    /\ hcd.out.kind = "ok" => /\ hcd.out.count = hcd.moved
                              /\ P.kind = "desc" /\ ~P.in => hcd.out.count = P.len
    /\ hcd.out.kind \in {"timeout", "packet"} /\ hcd.out.count # Unknown =>
         hcd.out.count = hcd.moved

\* The driver never goes to sleep over a halt that has already been reported:
\* nothing of the USB controller would wake it.
NeverAsleepOverAHalt == hcd.phase = "asleep" => "halt" \notin hcd.pending \cup hcd.seen

\* Between packets the controller is in descriptor mode, which every periodic
\* channel depends on, and it is never switched under a running channel unless
\* the bus has been declared unusable.
ModeIsRestored ==
    /\ hcd.phase = "idle" => hcd.mode = "desc" /\ ~hcd.split
    /\ hcd.mode = "buffer" => ~hcd.armed
    /\ hcd.torn => hcd.unusable

\* A split that gives up because of its budget, or because its frame is over,
\* leaves nothing behind in the translator of the hub.
TranslatorIsLeftFree ==
    hcd.phase = "idle" /\ hcd.out.gave \in {"budget", "nak", "frame"} => hcd.tt = "free"

\* Cleaning up after one device never throws away what a keyboard or mouse on
\* a periodic channel was about to report.
PeriodicSurvives == ~hcd.destroyed
=============================================================================
