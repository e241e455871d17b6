------------------------------- MODULE SdHost -------------------------------
(***************************************************************************)
(* sdmmc.rs and sdio.rs: one SD controller with the microSD card on its    *)
(* first slot and the ESP32-C6 on its second.                              *)
(*                                                                         *)
(* The input clock, the DMA engine and the status register are shared; the *)
(* dividers and widths are per slot.  Calls for the microSD card run to    *)
(* their end; the activation of the C6 gives way between its stages.  A    *)
(* command is carried out and answered (ok), is lost (silent), or is       *)
(* carried out and its answer lost (garbled).  A data phase ends on its    *)
(* own and latches the one data-transfer-over bit.                         *)
(***************************************************************************)
EXTENDS Integers, Sequences

CONSTANTS Kinds,      \* of transfers: single, multi, write, io
          MaxFaults, MaxCalls, None

VARIABLE sd

Slots == {"sd", "c6"}
SlotOf(kind) == IF kind = "io" THEN "c6" ELSE "sd"
\* In kHz; the source runs at 160 MHz.
Clock(h, slot) == 160000 \div (h.div * IF h.cardDiv[slot] = 0 THEN 1 ELSE 2 * h.cardDiv[slot])

\* The clock is off while it is set: a failure on the way may leave it so.
SetCardClocks(h, slot, div, cardDiv) ==
  LET set == [h EXCEPT !.div = div, !.cardDiv[slot] = cardDiv, !.on[slot] = TRUE]
  IN  [done : {TRUE}, host : {set}] \cup [done : {FALSE}, host : {h, [set EXCEPT !.on[slot] = FALSE]}]

\* The controller is brought up once: a reset would drop the other card.
InitHost(h, slot) ==
  IF h.ready THEN SetCardClocks(h, slot, 10, 20)
  ELSE [done : {FALSE}, host : {h}] \cup SetCardClocks([h EXCEPT !.ready = TRUE, !.dma = FALSE], slot, 10, 20)

Idle == sd.job = None
Faulty == sd.faults < MaxFaults
Fault(n) == IF n THEN sd.faults + 1 ELSE sd.faults
Job(kind, at) == [kind |-> kind, at |-> at, id |-> sd.calls + 1, buffer |-> None]
\* A command needs its clock.
Outcomes(slot) == IF ~sd.host.on[slot] THEN {"silent"} ELSE IF Faulty THEN {"ok", "silent", "garbled"} ELSE {"ok"}
CarriedOut(outcome) == outcome \in {"ok", "garbled"}

---------------------------------------------------------------------------
(* Activating the microSD card. *)

InitSd ==
  /\ Idle /\ sd.calls < MaxCalls
  /\ sd' = [sd EXCEPT !.job = Job("init", "host"), !.calls = @ + 1, !.result = None]

Done(s, session) == [s EXCEPT !.job = None, !.session = session, !.result = session /= None, !.of = None]
Running(at) == sd.job /= None /\ sd.job.kind = "init" /\ sd.job.at = at
Go(s, at) == [s EXCEPT !.job.at = at]
\* What init hands out: High Speed or Default Speed, at the width agreed.
Session(s, fast) == [fast |-> fast, clock |-> Clock(s.host, "sd"), wide |-> s.job.buffer = "wide"]

\* The clock: for identification, Default Speed, High Speed.  A failure is
\* fatal, for the clock may be off.
ClockStep ==
  \E o \in CASE Running("host")  -> InitHost(sd.host, "sd")
             [] Running("clock") -> SetCardClocks(sd.host, "sd", 8, 0)
             [] Running("raise") -> SetCardClocks(sd.host, "sd", 4, 0)
             [] OTHER            -> {} :
    /\ o.done \/ Faulty
    /\ LET s == [sd EXCEPT !.host = o.host, !.faults = Fault(~o.done)]
       IN  sd' = IF ~o.done THEN Done(s, None)
                 ELSE CASE Running("host")  -> Go(s, "idle")
                        [] Running("clock") -> Go(s, "query")
                        [] Running("raise") -> Done(s, Session(s, TRUE))

\* What a command of the sequence leaves in the card.
Effect(card, at) ==
  CASE at = "idle"   -> [selected |-> FALSE, width |-> 1, fast |-> FALSE]
    [] at = "select" -> [card EXCEPT !.selected = TRUE]
    [] at = "width"  -> [card EXCEPT !.width = 4]
    [] at = "switch" -> [card EXCEPT !.fast = TRUE]
    [] OTHER         -> card

\* CMD0, then the conditions and identity (CMD8 to CMD9), then CMD7.
Identify ==
  \E at \in {"idle", "identify", "select"} : Running(at) /\ \E outcome \in Outcomes("sd") :
    LET s == [sd EXCEPT !.card = IF CarriedOut(outcome) THEN Effect(@, at) ELSE @, !.faults = Fault(outcome /= "ok")]
    IN  sd' = IF outcome /= "ok" THEN Done(s, None)
              ELSE Go(s, CASE at = "idle" -> "identify" [] at = "identify" -> "select" [] OTHER -> "width")

\* ACMD6, then the host's side; without it the bus is left as it is.
SetBusWidth ==
  /\ Running("width")
  /\ \E outcome \in Outcomes("sd") :
       LET s == [sd EXCEPT !.card = IF CarriedOut(outcome) THEN Effect(@, "width") ELSE @, !.faults = Fault(outcome /= "ok")]
       IN  sd' = Go(IF outcome = "ok" THEN [s EXCEPT !.host.width["sd"] = 4, !.job.buffer = "wide"] ELSE s, "clock")

\* High Speed would double the C6's clock as well.
Alone(s) == ~s.host.second

\* CMD6 asks, then switches; its data phase fails where the widths differ.
\* Whatever goes wrong, the card stays at Default Speed for the host.
SwitchFunction ==
  \E at \in {"query", "switch"} :
    /\ Running(at) /\ sd.coming = None
    /\ IF ~Alone(sd) THEN sd' = Done(sd, Session(sd, FALSE))
       ELSE \E outcome \in Outcomes("sd"), supported \in BOOLEAN :
              LET s == [sd EXCEPT !.card = IF CarriedOut(outcome) THEN Effect(@, at) ELSE @, !.faults = Fault(outcome /= "ok"),
                                  !.host.dma = FALSE, !.host.status = None, !.coming = None]
                  told == outcome = "ok" /\ supported /\ sd.host.status = None /\ sd.host.width["sd"] = sd.card.width
              IN  sd' = IF told THEN Go(s, IF at = "query" THEN "switch" ELSE "raise") ELSE Done(s, Session(s, FALSE))

---------------------------------------------------------------------------
(* A data transfer. *)

\* data_transfer_on starts from a clean status; read_block_aligned does not.
Cleared(h, kind) == IF kind = "single" THEN h ELSE [h EXCEPT !.status = None]

\* The command waits until no earlier data phase is on the bus.
StartTransfer(kind) ==
  /\ Idle /\ sd.calls < MaxCalls /\ sd.coming = None
  /\ IF kind = "io" THEN sd.act = "active" ELSE sd.session /= None
  /\ \E outcome \in Outcomes(SlotOf(kind)) :
       LET h == [Cleared(sd.host, kind) EXCEPT !.dma = TRUE]
           s == [sd EXCEPT !.calls = @ + 1, !.faults = Fault(outcome /= "ok"), !.job = Job(kind, "wait"), !.host = h, !.result = None,
                           !.coming = IF CarriedOut(outcome) THEN [id |-> sd.calls + 1, kind |-> kind] ELSE None]
       IN  sd' = IF outcome = "ok" THEN s
                 ELSE [s EXCEPT !.job = None, !.result = FALSE, !.host.dma = kind = "single"]

\* The data phase runs: the engine moves the data while it is on, into the
\* buffer its descriptor names, and the bit is latched.
DataPhase ==
  /\ sd.coming /= None
  /\ LET slot == SlotOf(sd.coming.kind)
         agree == sd.host.width[slot] = (IF slot = "sd" THEN sd.card.width ELSE sd.c6.width)
         mine == sd.job /= None /\ sd.job.id = sd.coming.id
     IN  \E broken \in IF agree /\ sd.host.dma THEN IF Faulty THEN BOOLEAN ELSE {FALSE} ELSE {TRUE} :
           sd' = [sd EXCEPT !.coming = None, !.faults = Fault(agree /\ sd.host.dma /\ broken),
                            !.host.status = IF broken THEN "error" ELSE "over",
                            !.job = IF mine /\ ~broken THEN [@ EXCEPT !.buffer = "data"] ELSE @,
                            !.stray = @ \/ (sd.host.dma /\ ~mine),
                            !.busy = sd.coming.kind = "write" /\ ~broken]
DataNeverComes == sd.coming /= None /\ Faulty /\ sd' = [sd EXCEPT !.coming = None, !.faults = @ + 1]

Ended(s, result) == [s EXCEPT !.job = None, !.result = result, !.host.dma = FALSE, !.host.status = None, !.of = s.job]
\* The over bit comes with an error or without.
Failed(h) == h.status = "error"
Waiting == sd.job /= None /\ sd.job.kind /= "init" /\ sd.job.at = "wait"
TransferOver ==
  /\ Waiting /\ sd.host.status /= None
  /\ sd' = CASE Failed(sd.host)           -> Ended(sd, FALSE)
             [] ~Failed(sd.host) /\ sd.job.kind = "single" -> Ended(sd, TRUE)
             [] OTHER                      -> [sd EXCEPT !.host.dma = FALSE, !.host.status = None, !.job.at = "busy"]
TransferTimesOut == Waiting /\ sd.host.status = None /\ Faulty /\ sd' = Ended([sd EXCEPT !.faults = @ + 1], FALSE)

\* The bytes are on the medium when the card lets go of its line.
Settled(s) == ~s.busy
CardSettles == sd.busy /\ sd' = [sd EXCEPT !.busy = FALSE]
NotBusy == sd.job /= None /\ sd.job.at = "busy" /\ Settled(sd) /\ sd' = Ended(sd, TRUE)
StaysBusy == sd.job /= None /\ sd.job.at = "busy" /\ sd.busy /\ Faulty /\ sd' = Ended([sd EXCEPT !.faults = @ + 1], FALSE)

---------------------------------------------------------------------------
(* Activating the C6. *)

Stages == <<"power", "reset", "host", "idle", "probe", "select", "width", "block", "enable", "clock", "active">>
NextStage(at) == LET i == CHOOSE i \in 1 .. Len(Stages) : Stages[i] = at IN Stages[i + 1]
Left(s) == [s EXCEPT !.act = "off"]
Fresh == [selected |-> FALSE, width |-> 1, function |-> FALSE]

ActPower ==
  /\ Idle
  /\ \/ sd.act = "off" /\ sd' = [sd EXCEPT !.act = "power"]
     \/ sd.act = "power" /\ sd' = [sd EXCEPT !.act = "reset", !.c6 = Fresh]
     \/ sd.act = "power" /\ Faulty /\ sd' = Left([sd EXCEPT !.faults = @ + 1])
     \/ sd.act = "reset" /\ sd' = [sd EXCEPT !.act = "host", !.c6 = Fresh]
ActClock ==
  /\ Idle
  /\ \E o \in CASE sd.act = "host"  -> InitHost(sd.host, "c6")
                [] sd.act = "clock" -> SetCardClocks(sd.host, "c6", 8, 0)
                [] OTHER            -> {} :
       /\ o.done \/ Faulty
       /\ LET s == [sd EXCEPT !.host = o.host, !.faults = Fault(~o.done)]
          IN  sd' = IF ~o.done THEN Left(s)
                    ELSE [s EXCEPT !.act = NextStage(@), !.host.second = @ \/ sd.act = "clock"]

EffectC6(c6, at) ==
  CASE at = "idle"   -> Fresh
    [] at = "select" -> [c6 EXCEPT !.selected = TRUE]
    [] at = "width"  -> IF c6.selected THEN [c6 EXCEPT !.width = 4] ELSE c6
    [] at = "enable" -> [c6 EXCEPT !.function = c6.selected]
    [] OTHER         -> c6
\* The probe is repeated until its deadline; a bus that cannot be widened is
\* left as it is; anything else ends the attempt.
ActCommand ==
  /\ Idle /\ sd.act \in {"idle", "probe", "select", "width", "block", "enable"}
  /\ \E outcome \in Outcomes("c6") :
       LET at == sd.act
           s == [sd EXCEPT !.c6 = IF CarriedOut(outcome) THEN EffectC6(@, at) ELSE @, !.faults = Fault(outcome /= "ok")]
           on == [s EXCEPT !.act = NextStage(at)]
       IN  sd' \in CASE outcome = "ok" /\ at = "width" -> {[on EXCEPT !.host.width["c6"] = 4]}
                     [] outcome = "ok" /\ at /= "width" -> {on}
                     [] outcome /= "ok" /\ at = "width" -> {on}
                     [] outcome /= "ok" /\ at = "probe" -> {s, Left(s)}
                     [] OTHER -> {Left(s)}
PowerDown == Idle /\ sd.act /= "off" /\ sd' = [Left(sd) EXCEPT !.c6 = Fresh]

---------------------------------------------------------------------------

Init ==
  sd = [host |-> [ready |-> FALSE, second |-> FALSE, div |-> 10, cardDiv |-> [slot \in Slots |-> 0], on |-> [slot \in Slots |-> FALSE],
                  width |-> [slot \in Slots |-> 1], dma |-> FALSE, status |-> None],
        card |-> [selected |-> FALSE, width |-> 1, fast |-> FALSE], c6 |-> Fresh, act |-> "off", job |-> None, of |-> None,
        session |-> None, coming |-> None, busy |-> FALSE, stray |-> FALSE, result |-> None, calls |-> 0, faults |-> 0]

Next ==
  \/ InitSd \/ ClockStep \/ Identify \/ SetBusWidth \/ SwitchFunction
  \/ \E kind \in Kinds : StartTransfer(kind)
  \/ DataPhase \/ DataNeverComes \/ TransferOver \/ TransferTimesOut \/ CardSettles \/ NotBusy \/ StaysBusy
  \/ ActPower \/ ActClock \/ ActCommand \/ PowerDown

Spec == Init /\ [][Next]_sd

----------------------------------------------------------------------------
(* Properties *)

TypeOK ==
  /\ sd.host.div \in {4, 8, 10} /\ sd.host.status \in {None, "over", "error"} /\ sd.faults <= MaxFaults
  /\ sd.act \in {"off"} \cup {Stages[i] : i \in 1 .. Len(Stages)}

\* A transfer that says it was done moved its own data: what the status
\* register holds is never taken from an earlier transfer.
DoneIsDone == sd.result = TRUE /\ sd.of /= None /\ sd.job = None => sd.of.buffer = "data"

\* A write is reported done when the card has let go of its line.
DoneIsOnTheMedium == sd.result = TRUE /\ sd.of /= None /\ sd.job = None /\ sd.of.kind = "write" => ~sd.busy

\* The DMA engine is off once the call that set it up has returned.
DmaEndsWithItsCall == ~sd.stray /\ (Idle => ~sd.host.dma)

\* Neither card is clocked faster than the timing it has been switched to,
\* although each sets the clock they share.
NoCardIsOverclocked ==
  /\ sd.host.on["sd"] /\ ~sd.card.fast => Clock(sd.host, "sd") <= 25000
  /\ sd.host.on["c6"] /\ sd.act = "active" => Clock(sd.host, "c6") <= 25000

\* An active C6 is selected with its function enabled.
ActiveIsReady == sd.act = "active" => sd.c6.selected /\ sd.c6.function
=============================================================================
