----------------------------- MODULE HcdPeriodic -----------------------------
(***************************************************************************)
(* The persistent Interrupt IN channels of usb/hcd.rs: slots with a        *)
(* generation, a data toggle, a descriptor and a report buffer each, one   *)
(* frame list for all of them, and a foreground that takes reports and     *)
(* tears the channels down while the core completes descriptors and the    *)
(* interrupt handler moves their causes into a pending word.               *)
(* A report is the endpoint it came from and its number.                   *)
(***************************************************************************)
EXTENDS Integers, Sequences, FiniteSets, FiniteSetsExt

CONSTANTS Slots,        \* 1..PERIODIC_HID_SLOT_COUNT, channel numbers
          Endpoints,    \* Interrupt IN endpoints of the devices on the bus
          MaxReports,   \* reports an endpoint makes after an enumeration
          MaxEnables,   \* generations a run hands out
          MaxRefusals,  \* cache operations that are refused
          MaxWedges,    \* channels the core stops serving
          None

VARIABLE periodic

----------------------------------------------------------------------------
(* State                                                                   *)

Causes   == {"halt", "xfer", "error"}
NoReport == [from |-> None, number |-> 0]

FreeSlot ==
    [active |-> FALSE, generation |-> 0, owner |-> None,
     data1 |-> FALSE,                    \* PERIODIC_HID_PID_DATA1
     qtd |-> "idle",                     \* "active" until hardware writes it back
     buffer |-> NoReport,                \* what RAM holds
     cached |-> TRUE,                    \* the CPU still has its own copy of it
     pending |-> {}, hcint |-> {}, masked |-> TRUE,
     enabled |-> FALSE, wedged |-> FALSE]

Idle == [at |-> "idle", slot |-> None, handle |-> None, seen |-> {}, left |-> {}, halted |-> TRUE]
NoRead == [kind |-> "none", handle |-> None, report |-> NoReport, truth |-> TRUE]

\* a device endpoint: its next report and its data toggle
FreshDevice == [number |-> 1, data1 |-> FALSE, taken |-> 0]

Init ==
    periodic = [slots |-> [s \in Slots |-> FreeSlot], list |-> {}, scheduling |-> FALSE,
                devices |-> [e \in Endpoints |-> FreshDevice], handles |-> {},
                fg |-> Idle, mie |-> TRUE, read |-> NoRead,
                enables |-> 0, refusals |-> 0, wedges |-> 0]

Slot(s)   == periodic.slots[s]
Active    == {s \in Slots : Slot(s).active}
Current(h) == Slot(h.slot).active /\ h.generation = Slot(h.slot).generation

\* cache_writeback_invalidate: whether an operation over DMA memory is refused
Refuses(refused) == ~refused \/ periodic.refusals < MaxRefusals
Counted(refused) == periodic.refusals + (IF refused THEN 1 ELSE 0)

----------------------------------------------------------------------------
(* The core and the interrupt handler                                      *)

\* the scheduler reaches an enabled channel and the device has a report
Report(s) ==
    LET e == Slot(s).owner IN
    /\ Slot(s).enabled /\ ~Slot(s).wedged /\ Slot(s).qtd = "active"
    /\ periodic.scheduling /\ s \in periodic.list
    /\ periodic.devices[e].number <= MaxReports
    /\ periodic' =
         [periodic EXCEPT
            !.slots[s].qtd = "done", !.slots[s].enabled = FALSE,
            !.slots[s].hcint = @ \cup {"halt", "xfer"},
            !.slots[s].buffer = [from |-> e, number |-> periodic.devices[e].number],
            !.devices[e].number = @ + 1, !.devices[e].data1 = ~@]

\* a transaction error, a babble or a stall ends the descriptor
Fails(s) ==
    /\ Slot(s).enabled /\ ~Slot(s).wedged /\ Slot(s).qtd = "active"
    /\ periodic.scheduling /\ s \in periodic.list
    /\ periodic' = [periodic EXCEPT !.slots[s].qtd = "failed", !.slots[s].enabled = FALSE,
                                    !.slots[s].hcint = @ \cup {"halt", "error"}]

\* the core stops serving a channel without saying so
Wedge(s) ==
    /\ Slot(s).enabled /\ Slot(s).qtd = "active" /\ periodic.wedges < MaxWedges
    /\ periodic' = [periodic EXCEPT !.slots[s].enabled = FALSE, !.slots[s].wedged = TRUE,
                                    !.wedges = @ + 1]

\* handle_periodic_channel_interrupt
HandleInterrupt(s) ==
    /\ periodic.mie /\ ~Slot(s).masked /\ Slot(s).hcint # {}
    /\ periodic' = [periodic EXCEPT !.slots[s].pending = @ \cup Slot(s).hcint,
                                    !.slots[s].hcint = {}]

----------------------------------------------------------------------------
(* Arming                                                                  *)

\* arm_periodic_hid: clear the buffer, hand descriptor and buffer over, start
\* the channel; a refused cache operation retires the slot instead
Armed(slot, refused) ==
    IF refused THEN [slot EXCEPT !.generation = @ + 1, !.qtd = "idle"]
    ELSE [slot EXCEPT !.qtd = "active", !.buffer = NoReport, !.cached = TRUE,
                      !.hcint = {}, !.pending = {}, !.enabled = TRUE]

----------------------------------------------------------------------------
(* enable_periodic_hid                                                     *)

\* the device has just been configured, which resets its toggle
Allocated(s, e) ==
    [Slot(s) EXCEPT !.active = TRUE, !.generation = @ + 1, !.owner = e, !.data1 = FALSE,
                    !.pending = {}, !.hcint = {}, !.masked = FALSE, !.wedged = FALSE]

\* rebuild_periodic_frame_list: the frame list names the channels of the mask
Scheduled(active) == active

\* the lowest free slot, whose channel the core is not still running
Enable(e, listRefused, armRefused) ==
    LET s == Min(Slots \ Active) IN
    /\ periodic.fg.at = "idle" /\ periodic.enables < MaxEnables
    /\ Slots \ Active # {} /\ (Active = {} => ~periodic.scheduling)
    /\ ~Slot(s).enabled
    /\ \A other \in Active : Slot(other).owner # e
    /\ ~(listRefused /\ armRefused) /\ Refuses(listRefused \/ armRefused)
    /\ periodic' =
         IF listRefused THEN [periodic EXCEPT !.refusals = Counted(TRUE)]
         ELSE [periodic EXCEPT
                 !.slots[s] = Armed(Allocated(s, e), armRefused),
                 !.list = Scheduled(Active \cup {s}), !.scheduling = TRUE,
                 !.devices[e] = FreshDevice,
                 !.handles = @ \cup {[slot |-> s, generation |-> Slot(s).generation + 1, for |-> e]},
                 !.enables = @ + 1, !.refusals = Counted(armRefused)]

----------------------------------------------------------------------------
(* take_periodic_hid_report                                                *)

Answer(kind, h, report, truth) == [kind |-> kind, handle |-> h, report |-> report, truth |-> truth]
Returns(state, answer)  == [state EXCEPT !.fg = Idle, !.mie = TRUE, !.read = answer]
Invalidate(state, s)    == [state EXCEPT !.slots[s].generation = @ + 1]

\* the token is checked and the pending causes are taken
Take(h) ==
    /\ periodic.fg.at = "idle"
    /\ periodic' =
         IF ~Current(h) THEN Returns(periodic, Answer("error", h, NoReport, TRUE))
         ELSE [periodic EXCEPT
                 !.slots[h.slot].pending = {},
                 !.fg = [Idle EXCEPT !.slot = h.slot, !.handle = h, !.seen = Slot(h.slot).pending,
                                     !.at = IF "halt" \in Slot(h.slot).pending THEN "completed"
                                            ELSE "probing"]]

\* no cause yet: an enabled channel is one the core still polls
Probe ==
    /\ periodic.fg.at = "probing"
    /\ periodic' =
         IF Slot(periodic.fg.slot).enabled
         THEN Returns(periodic, Answer("pending", periodic.fg.handle, NoReport, TRUE))
         ELSE [periodic EXCEPT !.mie = FALSE, !.fg.at = "recheck"]

\* the recheck with interrupts masked
Recheck ==
    LET s     == periodic.fg.slot
        seen  == periodic.fg.seen \cup Slot(s).pending \cup Slot(s).hcint
        taken == [periodic EXCEPT !.slots[s].pending = {}, !.slots[s].hcint = {}]
    IN  /\ periodic.fg.at = "recheck"
        /\ periodic' =
             IF "halt" \in seen
             THEN [taken EXCEPT !.mie = TRUE, !.fg.at = "completed", !.fg.seen = seen]
             ELSE IF ~Slot(s).enabled
             THEN Returns(Invalidate(taken, s),
                          Answer("stalled", periodic.fg.handle, NoReport, Slot(s).wedged))
             ELSE Returns(taken, Answer("pending", periodic.fg.handle, NoReport, TRUE))

\* sync_periodic_buffer, then the copy: without it the CPU's own is read
Copied(s) == Slot(s).buffer

\* sync, classify, hand over, flip the toggle and start the channel again
Reap(refused, armRefused) ==
    LET s == periodic.fg.slot
        h == periodic.fg.handle
        got == Copied(s)
    IN  /\ periodic.fg.at = "completed"
        /\ ~(refused /\ armRefused) /\ Refuses(refused \/ armRefused)
        /\ LET counted == [periodic EXCEPT !.refusals = Counted(refused \/ armRefused)] IN
           periodic' =
             IF refused                              \* fail_periodic_slot
             THEN Returns(Invalidate(counted, s), Answer("error", h, NoReport, TRUE))
             ELSE IF "xfer" \notin periodic.fg.seen \/ "error" \in periodic.fg.seen
                       \/ Slot(s).qtd # "done"
             THEN Returns(Invalidate(counted, s), Answer("error", h, NoReport, TRUE))
             ELSE Returns([counted EXCEPT
                             !.slots[s] = Armed([@ EXCEPT !.data1 = ~@], armRefused),
                             !.devices[h.for].taken = got.number],
                          Answer("complete", h, got, got.from = h.for
                                                  /\ got.number > periodic.devices[h.for].taken))

----------------------------------------------------------------------------
(* disable_periodic_hid                                                    *)

Disable ==
    /\ periodic.fg.at = "idle" /\ Active # {}
    /\ periodic' = [periodic EXCEPT !.fg = [Idle EXCEPT !.at = "next", !.left = Active]]

\* the pending causes of the next slot
NextSlot ==
    LET s == Min(periodic.fg.left) IN
    /\ periodic.fg.at = "next" /\ periodic.fg.left # {}
    /\ periodic' = [periodic EXCEPT
                      !.slots[s].pending = {},
                      !.fg = [@ EXCEPT !.at = "stopping", !.slot = s, !.seen = Slot(s).pending,
                                       !.left = @ \ {s}]]

\* an idle channel gives up the causes the handler has not taken; a running
\* one is told to halt
Stop ==
    LET s == periodic.fg.slot IN
    /\ periodic.fg.at = "stopping"
    /\ periodic' = IF Slot(s).enabled
                   THEN [periodic EXCEPT !.fg.at = "halting"]
                   ELSE [periodic EXCEPT !.fg.at = "stopped", !.fg.seen = @ \cup Slot(s).hcint,
                                         !.slots[s].hcint = {}]

\* the core carries the request out
Halts(s) ==
    /\ periodic.fg.at = "halting" /\ periodic.fg.slot = s /\ Slot(s).enabled
    /\ periodic' = [periodic EXCEPT !.slots[s].enabled = FALSE, !.slots[s].hcint = @ \cup {"halt"}]

\* wait_for_periodic_channel_halt, which may also run out of time
Halted(timeout) ==
    LET s    == periodic.fg.slot
        seen == periodic.fg.seen \cup Slot(s).pending \cup Slot(s).hcint
    IN  /\ periodic.fg.at = "halting"
        /\ timeout \/ "halt" \in seen
        /\ timeout => periodic.fg.seen = {} /\ Slot(s).enabled
        /\ periodic' = IF timeout
                       THEN [periodic EXCEPT !.fg.at = "stopped", !.fg.halted = FALSE]
                       ELSE [periodic EXCEPT !.fg.at = "stopped", !.fg.seen = seen,
                                             !.slots[s].pending = {}, !.slots[s].hcint = {}]

\* the toggle of a report nobody took, and the end of the slot's registers
Cleared(slot, seen, refused) ==
    [slot EXCEPT !.data1 = IF ~refused /\ "xfer" \in seen /\ "error" \notin seen /\ slot.qtd = "done"
                           THEN ~@ ELSE @,
                 !.masked = TRUE, !.hcint = {}, !.pending = {}, !.enabled = FALSE,
                 !.qtd = "idle"]

Retire(refused) ==
    LET s == periodic.fg.slot IN
    /\ periodic.fg.at = "stopped" /\ Refuses(refused)
    /\ periodic' = [periodic EXCEPT !.slots[s] = Cleared(@, periodic.fg.seen, refused),
                                    !.refusals = Counted(refused),
                                    !.fg = [@ EXCEPT !.at = "next", !.slot = None, !.seen = {}]]

\* the schedule goes last, and then the mask
Finish ==
    /\ periodic.fg.at = "next" /\ periodic.fg.left = {}
    /\ periodic' = [periodic EXCEPT !.fg = Idle, !.scheduling = FALSE, !.list = Scheduled({}),
                                    !.slots = [s \in Slots |-> [Slot(s) EXCEPT !.active = FALSE]]]

----------------------------------------------------------------------------
Next ==
    \/ \E s \in Slots : Report(s) \/ Fails(s) \/ Wedge(s) \/ HandleInterrupt(s) \/ Halts(s)
    \/ \E e \in Endpoints, r, a \in BOOLEAN : Enable(e, r, a)
    \/ \E h \in periodic.handles : Take(h)
    \/ Probe \/ Recheck
    \/ \E r, a \in BOOLEAN : Reap(r, a)
    \/ Disable \/ NextSlot \/ Stop \/ Finish
    \/ \E t \in BOOLEAN : Halted(t) \/ Retire(t)

Spec == Init /\ [][Next]_periodic

----------------------------------------------------------------------------
(* Properties                                                              *)

Handle == [slot : Slots, generation : 1..(2 * MaxEnables + 4), for : Endpoints]

\* Type invariant of the slots, the bus and the foreground.
TypeOK ==
    /\ \A s \in Slots : /\ Slot(s).hcint \subseteq Causes /\ Slot(s).pending \subseteq Causes
                        /\ Slot(s).qtd \in {"idle", "active", "done", "failed"}
                        /\ Slot(s).owner \in Endpoints \cup {None}
    /\ periodic.list \subseteq Slots
    /\ periodic.handles \subseteq Handle
    /\ periodic.fg.slot \in Slots \cup {None}
    /\ periodic.read.kind \in {"none", "pending", "complete", "error", "stalled"}

\* A report that is handed over is one the endpoint of that handle made, after
\* every report handed over before it: never the CPU's copy from before the
\* transfer, never a report twice, never another device's.
ReportsAreFresh == periodic.read.kind = "complete" => periodic.read.truth

\* Only a channel the core has stopped serving is reported as stalled: a
\* report that completes while the foreground looks is never mistaken for one.
HealthyIsNotStalled == periodic.read.kind = "stalled" => periodic.read.truth

\* A channel that may receive a report expects it with the toggle the device
\* will use, and its causes reach somebody: it is not masked and its slot is
\* scheduled.
ToggleAgrees ==
    \A s \in Slots : Slot(s).enabled /\ periodic.fg.at = "idle" =>
        /\ Slot(s).data1 = periodic.devices[Slot(s).owner].data1
        /\ ~Slot(s).masked /\ s \in periodic.list /\ periodic.scheduling

\* With no slot in use nothing can move: no channel runs and the scheduler is
\* off, so the buffers may be given to another owner and split mode entered.
NothingRunsUnowned ==
    Active = {} => /\ ~periodic.scheduling /\ periodic.list = {}
                   /\ \A s \in Slots : ~Slot(s).enabled

\* periodic_hid_fallback_pid: the toggle a retired endpoint is polled with is
\* the one its device uses next.
FallbackPidAgrees ==
    \A h \in periodic.handles :
        Active = {} /\ periodic.refusals = 0 /\ Slot(h.slot).owner = h.for
          /\ h.generation = Slot(h.slot).generation
          => Slot(h.slot).data1 = periodic.devices[h.for].data1
=============================================================================
