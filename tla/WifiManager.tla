---------------------------- MODULE WifiManager ----------------------------
(***************************************************************************)
(* The owner of the Wi-Fi coprocessor session and of the IP stack          *)
(* (app/wifi_manager.rs and gui.rs below it), with the C6 it drives.       *)
(*                                                                         *)
(* `m` is struct Manager and the C6 behind it.  One Frame is one call of   *)
(* Manager::service: either a step of the incremental GUI job, or the      *)
(* station events and timers.  Commands of the console run to their end    *)
(* between two frames.  Deadlines are choices: a timer has run out or not. *)
(* The generation counter is only ever compared with the one in the state, *)
(* so `armed` says whether the two are equal; attempts are counted while   *)
(* the splash screen's policy gives up after some, and only set the delay  *)
(* later.  The history and the notices are left out.                       *)
(***************************************************************************)
EXTENDS Integers, Sequences

CONSTANTS
    Networks,    \* what a profile can name
    Good,        \* the networks whose access point accepts the password
    None,        \* no credential, no job
    Empty,       \* an empty station configuration
    OffMarker,   \* an empty configuration that says "off on purpose"
    MaxEvents,   \* the events the link keeps (EVENT_LIMIT in rpc.rs)
    Actors       \* who gives orders: some of "panel" and "console"

ASSUME ConstantsAssumption ==
    /\ Good \subseteq Networks
    /\ {None, Empty, OffMarker} \cap Networks = {}
    /\ MaxEvents \in Nat \ {0}

VARIABLES m, screen
vars == <<m, screen>>

StartupMaxAttempts == 3
Linked == {"Associated", "RequestingDhcp", "AssociatedNoLease", "Online"}
Phases == {"Off", "LinkDown", "Idle", "Associating", "RetryWaiting",
           "NeedsPassword", "Failed"} \cup Linked
Kinds == {"Scan", "Connect", "Retry", "Enable", "Disable", "Forget", "Associated"}
Stages == 0 .. 13 \cup {15} \cup 20 .. 22 \cup 30 .. 35 \cup 40 .. 43 \cup {50, 51}
Jobs == [kind : Kinds, stage : Stages, sent : BOOLEAN, failed : BOOLEAN,
         token : BOOLEAN]
ASSUME NoJobAssumption == None \notin Jobs

(* Struct Manager, and the C6's half: its storage, configuration, radio,   *)
(* events nobody has read, flash and mode *)
Events == {"connected", "refused", "dropped"}
Configs == Networks \cup {Empty, OffMarker}
Manager ==
    [enabled : BOOLEAN, saved : BOOLEAN, session : {"none", "raw", "init", "started", "dead"},
     stack : {"none", "waiting", "addressed"}, source : {"none", "Shell", "Menu"},
     policy : {"Unconfigured", "Dhcp", "Static"}, phase : Phases, armed : BOOLEAN,
     cred : Networks \cup {None}, attempt : Nat, since : BOOLEAN,
     savePending : BOOLEAN, startup : BOOLEAN, begun : BOOLEAN, gui : BOOLEAN,
     job : Jobs \cup {None}, followup : Jobs \cup {None}, reply : BOOLEAN, kept : BOOLEAN,
     power : BOOLEAN, storage : {"flash", "ram"}, cfg : Configs,
     radio : {"idle", "joining", "joined", "leaving"}, events : Seq(Events),
     nvs : Configs, mode : {"sta", "null"}]

(* How a request to the C6 ends: answered, refused with a status, or with  *)
(* no answer although it was carried out or not; or not yet.               *)
Answers == {"ok", "refused", "lost", "done", "pending"}
Done(r) == r \in {"ok", "done"}

---------------------------------------------------------------------------
(* The manager's own bookkeeping *)

(* What the C6 keeps in RAM matters to no later session: each resets it.   *)
DropSession(s) ==
    [s EXCEPT !.session = "none", !.events = <<>>, !.storage = "flash", !.cfg = Empty]
MutantTo(s, p) == [s EXCEPT !.phase = p, !.armed = @ \/ p \in {"Associating", "RetryWaiting"}]
To(s, p) == [s EXCEPT !.phase = p, !.armed = p \in {"Associating", "RetryWaiting"}]
NewGeneration(s) == [s EXCEPT !.armed = FALSE]
ClearCredentials(s) == [s EXCEPT !.cred = None, !.savePending = FALSE]
Unconfigured(s) ==
    [ClearCredentials(s) EXCEPT !.stack = "none", !.source = "none",
        !.policy = "Unconfigured", !.attempt = 0, !.since = FALSE]

ClearLink(s) ==
    To(DropSession(Unconfigured(s)), IF s.enabled THEN "LinkDown" ELSE "Off")
MarkDisconnected(s) ==
    To(Unconfigured(s), CASE ~s.enabled -> "Off"
                          [] s.enabled /\ s.session # "none" -> "Idle"
                          [] OTHER -> "LinkDown")
MarkFailed(s) ==
    To([ClearCredentials(s) EXCEPT !.stack = "none", !.since = FALSE], "Failed")

(* Whether another attempt is anybody's wish *)
RetryIsActive(s) == s.source = "Menu" /\ s.cred # None

(* verdict: "retry", "stop", or "password" when the access point said so   *)
MutantApplyRetryDecision(s, verdict) ==
    IF verdict = "retry"
    THEN To(s, "RetryWaiting")
    ELSE To([s EXCEPT !.since = FALSE, !.savePending = FALSE],
            IF verdict = "password" THEN "NeedsPassword" ELSE "Failed")
ApplyRetryDecision(s, verdict) ==
    IF verdict = "retry" /\ ~(s.startup /\ s.attempt >= StartupMaxAttempts)
    THEN To(s, "RetryWaiting")
    ELSE To([ClearCredentials(s) EXCEPT !.since = FALSE],
            IF verdict = "password" THEN "NeedsPassword" ELSE "Failed")
VerdictOf(event) == IF event = "refused" THEN "password" ELSE "retry"

---------------------------------------------------------------------------
(* The C6: an ESP-Hosted slave and its access point (external) *)

Notify(s, event) ==
    [s EXCEPT !.events = IF Len(@) = MaxEvents THEN Append(Tail(@), event)
                                               ELSE Append(@, event)]
Hears(s) == s.session \notin {"none", "dead"}
Configure(s, config) ==
    [s EXCEPT !.cfg = config, !.nvs = IF s.storage = "flash" THEN config ELSE @]
SetMode(s, mode) == [s EXCEPT !.mode = IF s.storage = "flash" THEN mode ELSE @]
Leave(s) == [s EXCEPT !.radio = IF @ = "idle" THEN "idle" ELSE "leaving"]
Rejoin(s) ==
    [IF s.radio = "idle" THEN s ELSE Notify(s, "dropped") EXCEPT !.radio = "joining"]
PowerDown(s) == [s EXCEPT !.power = FALSE, !.radio = "idle", !.events = <<>>,
                          !.storage = "flash", !.cfg = Empty]
(* Bring-up resets the C6, and esp_wifi_init loads what NVS holds.         *)
Reset(s) == [s EXCEPT !.power = TRUE, !.radio = "idle", !.events = <<>>,
                      !.storage = "flash", !.cfg = s.nvs]

JoinSucceeds ==
    /\ m.radio = "joining" /\ m.cfg \in Good /\ Hears(m)
    /\ m' = Notify([m EXCEPT !.radio = "joined"], "connected")
    /\ UNCHANGED screen
JoinFails(event) ==
    /\ m.radio = "joining" /\ Hears(m)
    /\ m' = Notify([m EXCEPT !.radio = "idle"], event)
    /\ UNCHANGED screen
AccessPointDrops ==
    /\ m.radio \in {"joined", "leaving"} /\ Hears(m)
    /\ m' = Notify([m EXCEPT !.radio = "idle"], "dropped")
    /\ UNCHANGED screen
LinkDies ==
    /\ Hears(m)
    /\ m' = [m EXCEPT !.session = "dead"]
    /\ UNCHANGED screen
LeaseChanges ==
    /\ m.stack # "none" /\ (m.stack = "waiting" => m.radio = "joined")
    /\ m' = [m EXCEPT !.stack = IF @ = "waiting" THEN "addressed" ELSE "waiting"]
    /\ UNCHANGED screen
---------------------------------------------------------------------------
(* The synchronous calls of the console and of the boot path *)

(* open_initialized_rpc and start_initialized; "refused" is a status       *)
Open(s, link) ==
    IF link = "up"
    THEN SetMode([Reset(s) EXCEPT !.session = "started"], "sta")
    ELSE To([Reset(s) EXCEPT !.session = "none"], "Failed")

EnsureStation(s, link) ==
    LET live == IF s.session = "dead"
                THEN To([DropSession(s) EXCEPT !.stack = "none"], "Failed")
                ELSE s
    IN  IF live.session # "none" THEN live
        ELSE IF link = "up" THEN To(Open(live, link), "Idle") ELSE Open(live, link)

(* set_config and connect with the RAM storage selected.  A station that   *)
(* is joining refuses a new configuration (external).                      *)
AskToJoin(s, config, r) ==
    IF ~Done(r) THEN s
    ELSE Rejoin(Configure([s EXCEPT !.events = <<>>, !.storage = "ram"], config))
C6Says(s, r) == IF s.radio = "joining" /\ Done(r) THEN "refused" ELSE r

SendPendingConnect(s, link, answer) ==
    LET station == EnsureStation(NewGeneration(s), link)
        r == C6Says(station, answer)
        asked == AskToJoin([station EXCEPT !.events = <<>>], s.cred, r)
    IN  CASE s.cred = None -> To(s, "Failed")
          [] s.cred # None /\ station.session = "none" ->
                ApplyRetryDecision(station, IF link = "refused" THEN "stop" ELSE "retry")
          [] s.cred # None /\ station.session # "none" /\ r = "ok" ->
                To(asked, "Associating")
          [] OTHER -> ApplyRetryDecision(asked, IF r = "refused" THEN "stop" ELSE "retry")

PersistProfile(s, r) ==
    LET saved == [Configure([s EXCEPT !.storage = "flash"], s.cred) EXCEPT !.storage = "ram"]
    IN  [CASE s.cred = None -> s
           [] s.cred # None /\ Done(r) -> saved
           [] OTHER -> [s EXCEPT !.storage = IF r = "lost" THEN "flash" ELSE "ram"]
         EXCEPT !.savePending = FALSE, !.saved = @ \/ (s.cred # None /\ r = "ok")]

StartMenuDhcp(s, r) ==
    IF r = "ok" THEN To([s EXCEPT !.stack = "waiting"], "RequestingDhcp")
                ELSE To(s, "Failed")

---------------------------------------------------------------------------
(* Manager::service without a job of the GUI *)

NewJob(kind, stage, token) ==
    [kind |-> kind, stage |-> stage, sent |-> FALSE, failed |-> FALSE, token |-> token]

Accepts(s) == CASE s.phase = "Associating" -> s.armed
                [] s.phase \in {"RetryWaiting", "NeedsPassword", "Failed"} -> FALSE
                [] OTHER -> TRUE

Managed(s) == s.source = "Menu" /\ s.policy = "Dhcp"

Connected(s, r) ==
    LET associated == To([s EXCEPT !.since = TRUE], "Associated")
        saved == IF s.savePending THEN PersistProfile(associated, r) ELSE associated
    IN  CASE s.gui /\ Managed(s) ->
                [associated EXCEPT
                    !.job = NewJob("Associated", IF s.savePending THEN 40 ELSE 43, FALSE)]
          [] ~s.gui /\ Managed(s) -> StartMenuDhcp(saved, r)
          [] OTHER -> saved

Disconnected(s, verdict) ==
    LET dropped == [s EXCEPT !.since = FALSE, !.stack = "none"]
    IN  IF RetryIsActive(s) THEN ApplyRetryDecision(dropped, verdict) ELSE To(dropped, "Failed")

HandleEvent(s, event, r) ==
    CASE ~Accepts(s) -> s
      [] Accepts(s) /\ event = "connected" -> Connected(s, r)
      [] OTHER -> Disconnected(s, VerdictOf(event))

MutantLinkLost(s) ==
    LET lost == [DropSession(s) EXCEPT !.since = FALSE]
    IN  IF RetryIsActive(s) THEN ApplyRetryDecision(lost, "retry") ELSE To(lost, "Failed")
LinkLost(s) ==
    LET lost == [DropSession(s) EXCEPT !.since = FALSE, !.stack = "none"]
    IN  IF RetryIsActive(s) THEN ApplyRetryDecision(lost, "retry") ELSE To(lost, "Failed")

(* due: the deadline of the state has passed                               *)
MutantTimers(s, due, link, r) ==
    CASE s.phase = "RetryWaiting" /\ s.armed /\ due ->
            LET next == [s EXCEPT !.attempt = IF s.startup THEN @ + 1 ELSE @]
            IN  IF s.gui
                THEN [next EXCEPT !.job =
                        NewJob("Retry", IF s.session # "none" THEN 10 ELSE 0, FALSE)]
                ELSE SendPendingConnect(next, link, r)
      [] s.phase \in {"RequestingDhcp", "AssociatedNoLease"} /\ s.stack = "addressed" ->
            To(s, "Online")
      [] s.phase = "RequestingDhcp" /\ s.stack # "addressed" /\ due ->
            To(s, "AssociatedNoLease")
      [] s.phase = "Online" /\ s.stack # "addressed" ->
            To(s, IF s.policy = "Dhcp" THEN "AssociatedNoLease" ELSE "Associated")
      [] OTHER -> s
Timers(s, due, link, r) ==
    CASE s.phase = "Associating" /\ s.armed /\ due ->
            IF RetryIsActive(s) THEN ApplyRetryDecision(s, "retry") ELSE To(s, "Failed")
      [] s.phase = "RetryWaiting" /\ s.armed /\ due ->
            LET next == [s EXCEPT !.attempt = IF s.startup THEN @ + 1 ELSE @]
            IN  IF s.gui
                THEN [next EXCEPT !.job =
                        NewJob("Retry", IF s.session # "none" THEN 10 ELSE 0, FALSE)]
                ELSE SendPendingConnect(next, link, r)
      [] s.phase \in {"RequestingDhcp", "AssociatedNoLease"} /\ s.stack = "addressed" ->
            To(s, "Online")
      [] s.phase = "RequestingDhcp" /\ s.stack # "addressed" /\ due ->
            To(s, "AssociatedNoLease")
      [] s.phase = "Online" /\ s.stack # "addressed" ->
            To(s, IF s.policy = "Dhcp" THEN "AssociatedNoLease" ELSE "Associated")
      [] OTHER -> s

(* The events in the order they came; `after` some of them *)
Heard(s, events, r) ==
    LET after[n \in 0 .. Len(events)] ==
            IF n = 0 THEN s ELSE HandleEvent(after[n - 1], events[n], r)
    IN  after[Len(events)]

(* stable: ten minutes have passed since the association; asking for a     *)
(* lease takes fifteen seconds of them at most.                            *)
Settled(s, stable) ==
    IF stable /\ s.since /\ s.phase \in {"AssociatedNoLease", "Online"}
    THEN [s EXCEPT !.attempt = 0] ELSE s

ServicePolicy(s, due, stable, link, r) ==
    LET ready == IF s.session # "none" /\ s.phase = "LinkDown" THEN To(s, "Idle") ELSE s
        events == IF s.session = "none" THEN <<>> ELSE s.events
        heard == Heard([ready EXCEPT !.events = <<>>], events, r)
    IN  CASE ~s.enabled -> To(s, "Off")
          [] s.enabled /\ s.session = "dead" -> LinkLost(s)
          [] OTHER -> Settled(Timers(heard, due, link, r), stable)

---------------------------------------------------------------------------
(* The radio operations of the panel (wifi_manager/gui.rs), one request to *)
(* the C6 at a time, each submitted in one frame and answered in a later   *)
(* one; the console's commands (app/shell.rs), which run to their end      *)
(* between two frames; and the boot path (app/startup_screen.rs).          *)
(*                                                                         *)
(* The screen that asked for an operation waits for the answer to its      *)
(* token; a job without one is the manager's own.                          *)

Busy(s) == s.job # None \/ s.followup # None

---------------------------------------------------------------------------
(* What the C6 does when it carries out the request of a stage (external)  *)

MutantRequested(s, stage) ==
    CASE stage = 1 -> [s EXCEPT !.session = "init", !.storage = "flash", !.cfg = s.nvs]
      [] stage \in {2, 6, 32} -> SetMode(s, "sta")
      [] stage = 3 -> [s EXCEPT !.session = "started"]
      [] stage \in {5, 31, 40} -> [s EXCEPT !.storage = "flash"]
      [] stage = 9 -> Configure(s, Empty)
      [] stage \in {8, 42, 51} -> [s EXCEPT !.storage = "ram"]
      [] stage \in {10, 30, 34} -> Leave(s)
      [] stage \in {12, 41} -> Configure(s, IF s.cred = None THEN Empty ELSE s.cred)
      [] stage = 13 -> Rejoin(s)
      [] stage = 33 -> Configure(s, OffMarker)
      [] stage = 35 -> SetMode(s, "null")
      [] stage = 50 -> [s EXCEPT !.nvs = Empty, !.cfg = Empty, !.mode = "sta"]
      [] OTHER -> s
Requested(s, stage) ==
    CASE stage = 1 -> [s EXCEPT !.session = "init", !.storage = "flash", !.cfg = s.nvs]
      [] stage \in {2, 6, 32} -> SetMode(s, "sta")
      [] stage = 3 -> [s EXCEPT !.session = "started"]
      [] stage \in {5, 31, 40} -> [s EXCEPT !.storage = "flash"]
      [] stage = 9 -> Configure(s, Empty)
      [] stage \in {8, 11, 42, 51} -> [s EXCEPT !.storage = "ram"]
      [] stage \in {10, 30, 34} -> Leave(s)
      [] stage \in {12, 41} -> Configure(s, IF s.cred = None THEN Empty ELSE s.cred)
      [] stage = 13 -> Rejoin(s)
      [] stage = 33 -> Configure(s, OffMarker)
      [] stage = 35 -> SetMode(s, "null")
      [] stage = 50 -> [s EXCEPT !.nvs = Empty, !.cfg = Empty, !.mode = "sta"]
      [] OTHER -> s

---------------------------------------------------------------------------
(* One step of a job *)

MutantFinishGuiOff(s) ==
    To(PowerDown(DropSession([s EXCEPT
        !.stack = "none", !.source = "none", !.enabled = FALSE, !.kept = FALSE])), "Off")
FinishGuiOff(s) ==
    To(PowerDown(DropSession([ClearCredentials(s) EXCEPT
        !.stack = "none", !.source = "none", !.enabled = FALSE, !.kept = FALSE])), "Off")

Answer(s, job) == [s EXCEPT !.reply = @ \/ job.token]

GuiFail(s, job, verdict) ==
    LET told == Answer(s, job)
    IN  CASE job.kind \in {"Disable", "Enable"} -> FinishGuiOff(told)
          [] job.kind \in {"Connect", "Retry"} -> ApplyRetryDecision(told, verdict)
          [] job.kind = "Associated" -> To([told EXCEPT !.savePending = FALSE], "Failed")
          [] OTHER -> told

Keep(s, job) == [s EXCEPT !.job = job]
At(job, stage) == [job EXCEPT !.stage = stage, !.sent = FALSE]

(* Link bring-up: long, and polled                                         *)
BringUp(s, job, r) ==
    CASE r = "pending" -> Keep(s, job)
      [] r = "ok" -> Keep([Reset(s) EXCEPT !.session = "raw"], At(job, 1))
      [] OTHER -> GuiFail([s EXCEPT !.power = TRUE], job, "retry")

(* The manager's state after stage 8, and where each kind goes on          *)
Initialized(s, job) ==
    LET on == IF job.kind = "Enable" THEN To([s EXCEPT !.enabled = TRUE], "Idle") ELSE s
    IN  CASE job.kind = "Scan" -> Keep(on, At(job, 20))
          [] job.kind = "Disable" -> Keep(on, At(job, 30))
          [] job.kind = "Forget" -> Keep(on, At(job, 50))
          [] job.kind = "Enable" /\ s.cred # None ->
                Keep([on EXCEPT !.source = "Menu", !.policy = "Dhcp", !.attempt = 1],
                     At(job, 10))
          [] job.kind = "Enable" /\ s.cred = None -> Answer(on, job)
          [] OTHER -> Keep(on, At(job, 10))

Associating(s) == s.phase \in Linked \cup {"Associating"}
NoEvents(s) == [s EXCEPT !.events = <<>>]

(* The request of the stage has been answered, with a status of zero or,   *)
(* at 30, any                                                              *)
Accepted(s, job) ==
    LET n == job.stage
        Goes(state, stage) == Keep(state, At(job, stage))
    IN  CASE n \in {1, 2, 6, 7, 11, 20, 32, 33, 34, 41} -> Goes(s, n + 1)
          [] n = 3 -> Goes(s, IF job.kind = "Enable" THEN 4 ELSE 6)
          [] n = 4 -> Goes([s EXCEPT !.saved = s.cfg \in Networks,
                                     !.cred = IF s.cfg \in Networks THEN s.cfg ELSE @], 5)
          [] n = 5 -> Goes(s, IF s.saved THEN 6 ELSE 9)
          [] n = 9 -> Goes(s, 6)
          [] n = 8 -> Initialized(s, job)
          [] n = 10 /\ Associating(s) -> Goes(s, 15)
          [] n = 10 /\ ~Associating(s) -> Goes(NoEvents(s), 11)
          [] n = 12 -> Goes(NoEvents(s), 13)
          [] n = 13 -> Answer(To(s, "Associating"), job)
          [] n = 21 -> Goes(s, 22)
          [] n = 30 -> Goes([ClearCredentials(s) EXCEPT !.stack = "none",
                                                        !.source = "none"], 31)
          [] n = 31 -> Goes(s, IF s.saved THEN 34 ELSE 32)
          [] n = 35 -> [Answer(FinishGuiOff(s), job) EXCEPT !.kept = TRUE]
          [] n = 40 -> Goes(s, 41)
          [] n = 42 -> Goes([s EXCEPT !.savePending = FALSE, !.saved = @ \/ ~job.failed], 43)
          [] n = 43 -> Answer(To([s EXCEPT !.stack = "waiting"], "RequestingDhcp"), job)
          [] n = 50 -> Goes([ClearCredentials(s) EXCEPT !.source = "none", !.saved = FALSE],
                            IF s.enabled THEN 51 ELSE 31)
          [] OTHER -> Answer(s, job)   \* 22 and 51

(* A status other than zero                                                *)
Refused(s, job) ==
    CASE job.stage = 30 -> Accepted(s, job)
      [] job.stage \in {40, 41} -> Keep(s, [At(job, 42) EXCEPT !.failed = TRUE])
      [] job.stage = 42 -> Accepted(s, [job EXCEPT !.failed = TRUE])
      [] OTHER -> GuiFail(s, job, "stop")

(* The C6 refuses what its driver is not initialized or started for, and a *)
(* configuration while the station is joining (external).                  *)
C6Answers(s, job, r) ==
    CASE s.session = "raw" /\ job.stage # 1 /\ Done(r) -> "refused"
      [] s.session = "init" /\ job.stage = 13 /\ Done(r) -> "refused"
      [] job.stage \in {12, 41} -> C6Says(s, r)
      [] OTHER -> r

Reap(s, job, r) ==
    LET done == IF Done(r) THEN Requested(s, job.stage) ELSE s
        retired == [done EXCEPT !.session = "dead"]
    IN  CASE r = "pending" /\ s.session # "dead" -> Keep(s, job)
          [] r = "ok" /\ s.session # "dead" -> Accepted(done, job)
          [] r = "refused" /\ s.session # "dead" -> Refused(s, job)
          [] OTHER -> GuiFail(retired, job, "retry")

(* Waiting for the C6 to say that the old association has gone             *)
MutantAwaitDisconnection(s, job, due) ==
    CASE \E i \in DOMAIN s.events : s.events[i] # "connected" ->
            Keep(NoEvents(s), At(job, 11))
      [] (\A i \in DOMAIN s.events : s.events[i] = "connected") /\ due ->
            MarkDisconnected(NoEvents(s))
      [] OTHER -> Keep(NoEvents(s), job)
AwaitDisconnection(s, job, due) ==
    CASE \E i \in DOMAIN s.events : s.events[i] # "connected" ->
            Keep(NoEvents(s), At(job, 11))
      [] (\A i \in DOMAIN s.events : s.events[i] = "connected") /\ due ->
            MarkDisconnected(Answer(NoEvents(s), job))
      [] OTHER -> Keep(NoEvents(s), job)

Step(s, job, due, r) ==
    CASE s.session = "none" -> Answer(s, job)
      [] s.session # "none" /\ job.stage = 10 /\ ~job.sent /\ ~Associating(s) ->
            Keep(NoEvents(s), At(job, 11))
      [] s.session # "none" /\ job.stage = 15 -> AwaitDisconnection(s, job, due)
      [] s.session # "none" /\ job.stage # 15 /\ ~job.sent
            /\ ~(job.stage = 10 /\ ~Associating(s)) ->
            IF s.session = "dead" /\ r = "lost" THEN GuiFail(s, job, "retry")
                                  ELSE Keep(s, [job EXCEPT !.sent = TRUE])
      [] OTHER -> Reap(s, job, C6Answers(s, job, r))

(* Scans and saves do not hold up link loss and DHCP: the policy is        *)
(* serviced first, and a job it creates waits for this one to end.         *)
Nested(job) == job.kind \in {"Scan", "Forget", "Associated"} /\ job.stage # 0
Aside(s, due, stable) ==
    LET after == ServicePolicy([s EXCEPT !.job = None, !.followup = None, !.gui = TRUE],
                               due, stable, "down", "refused")
    IN  [after EXCEPT !.job = None, !.gui = s.gui,
                      !.followup = IF after.job # None THEN after.job ELSE s.followup]

Cancelled(s, job) ==
    Answer([s EXCEPT !.session = IF job.sent /\ @ # "none" THEN "dead" ELSE @], job)

ServiceGuiJob(s, job, due, stable, r) ==
    LET idle == [s EXCEPT !.job = None]
        seen == IF Nested(job) THEN Aside(idle, due, stable) ELSE idle
    IN  CASE job.stage = 0 -> BringUp(idle, job, r)
          [] job.kind = "Associated" /\ seen.phase \notin Linked -> Cancelled(seen, job)
          [] OTHER -> Step(seen, job, due, r)

Service(s, due, stable, link, r) ==
    LET next == IF s.job = None THEN [s EXCEPT !.job = s.followup, !.followup = None] ELSE s
    IN  IF next.job # None THEN ServiceGuiJob(next, next.job, due, stable, r)
                           ELSE ServicePolicy(next, due, stable, link, r)

(* One frame.  During the splash screen nothing is serviced before the     *)
(* saved profile has been looked at, nor after Wi-Fi has come to an end    *)
(* other than being online.                                                *)
SplashEnds == {"Off", "Idle", "AssociatedNoLease", "NeedsPassword", "Failed"}
FrameWith(due, stable, link, r) ==
    /\ m.startup => m.begun /\ m.phase \notin SplashEnds
    /\ m' = Service(m, due, stable, link, r)
    /\ UNCHANGED screen
Links == {"up", "down", "refused"}
(* The panel leaves bring-up and requests to its job.                      *)
LinksOf(s) == IF Busy(s) \/ s.gui THEN {"up"} ELSE Links
AnswersOf(s) == IF Busy(s) THEN Answers
                ELSE IF s.gui THEN {"ok"} ELSE Answers \ {"pending"}
Frame ==
    \E due \in BOOLEAN, stable \in BOOLEAN, link \in LinksOf(m), r \in AnswersOf(m) :
        FrameWith(due, stable, link, r)
(* A frame in which whatever the manager waits for has come                *)
FrameProgress ==
    \E link \in LinksOf(m), r \in AnswersOf(m) \ {"pending"} :
        FrameWith(TRUE, FALSE, link, r)

---------------------------------------------------------------------------
(* The Wi-Fi panel and its screen *)

EnterGui ==
    /\ "panel" \in Actors /\ ~m.gui /\ ~m.startup
    /\ m' = [m EXCEPT !.gui = TRUE]
    /\ UNCHANGED screen
LeaveGui ==
    /\ m.gui
    /\ m' = [m EXCEPT !.gui = FALSE]
    /\ screen' = "closed"

BeginGui(s, kind, stage) ==
    [s EXCEPT !.reply = FALSE,
              !.job = NewJob(kind, IF s.session = "none" THEN 0 ELSE stage, TRUE)]
(* begin_gui refuses while a job is under way, and the screen stays as it  *)
(* was.                                                                    *)
Ask(s) ==
    /\ m.gui /\ ~Busy(m)
    /\ m' = s
    /\ screen' = "waiting"

OpenScreen ==
    /\ m.gui /\ screen = "closed"
    /\ IF m.enabled /\ ~Busy(m)
       THEN Ask(BeginGui(m, "Scan", 20))
       ELSE screen' = "idle" /\ UNCHANGED m
GuiScan == screen = "idle" /\ m.enabled /\ Ask(BeginGui(m, "Scan", 20))
GuiEnable(on) ==
    /\ screen = "idle" /\ on # m.enabled
    /\ Ask([BeginGui(m, IF on THEN "Enable" ELSE "Disable", IF on THEN 4 ELSE 30)
               EXCEPT !.kept = FALSE])
GuiForget == screen = "idle" /\ Ask([BeginGui(m, "Forget", 50) EXCEPT !.kept = FALSE])
GuiConnect(network) ==
    /\ screen = "idle" /\ m.enabled
    /\ Ask(NewGeneration([BeginGui(m, "Connect", 10) EXCEPT
               !.cred = network, !.stack = "none", !.source = "Menu", !.policy = "Dhcp",
               !.attempt = 1, !.since = FALSE,
               !.savePending = TRUE]))
ScreenTick ==
    /\ screen = "waiting" /\ m.reply
    /\ m' = [m EXCEPT !.reply = FALSE]
    /\ screen' = "idle"

---------------------------------------------------------------------------
(* Commands of the console: they are refused while a job of the GUI runs,  *)
(* and the manager is serviced after each.                                 *)

(* How far a sequence of requests came before one of them failed           *)
Progress == {"begun", "marked", "all"}

(* disable_and_power_down *)
Disable(s, link, progress) ==
    LET open == IF Hears(s) THEN s ELSE Reset(s)
        left == Leave(Unconfigured(NewGeneration(open)))
        marked == IF s.saved \/ progress = "begun" THEN left
                  ELSE [left EXCEPT !.nvs = OffMarker, !.mode = "sta"]
        all == IF progress = "all" THEN [marked EXCEPT !.mode = "null"] ELSE marked
        reached == IF Hears(s) \/ link = "up" THEN all
                   ELSE [ClearCredentials(s) EXCEPT !.stack = "none", !.source = "none",
                                                    !.policy = "Unconfigured"]
    IN  [To(PowerDown(DropSession(reached)), "Off") EXCEPT
            !.enabled = FALSE, !.kept = progress = "all" /\ (Hears(s) \/ link = "up")]

(* The profile found at boot or when Wi-Fi is turned on is connected to.   *)
SavedProfile(s) ==
    [s EXCEPT !.cred = s.nvs, !.source = "Menu", !.policy = "Dhcp", !.attempt = 1]
StartProfile(s, link, r) ==
    IF s.nvs \in Networks THEN SendPendingConnect(SavedProfile(s), link, r) ELSE s

Enable(s, link, progress, r) ==
    LET read == [Reset(s) EXCEPT !.saved = s.nvs \in Networks]
        unmarked == [SetMode(read, "sta") EXCEPT
                        !.nvs = IF @ = OffMarker /\ progress # "begun" THEN Empty ELSE @]
        on == To([Unconfigured(unmarked) EXCEPT !.enabled = TRUE, !.session = "started",
                                                !.storage = "ram", !.kept = FALSE], "Idle")
    IN  IF link = "up" /\ progress = "all" THEN StartProfile(on, link, r)
        ELSE Disable(IF link = "up" THEN unmarked ELSE s, link, progress)

BeginStartupAutoConnect(s, link, progress, r) ==
    LET clean == DropSession(Unconfigured(s))
        read == [Reset(clean) EXCEPT !.saved = s.nvs \in Networks]
        off == s.mode = "null" /\ s.nvs \in Networks \cup {OffMarker}
        on == To([SetMode(read, "sta") EXCEPT !.enabled = TRUE, !.session = "started"], "Idle")
    IN  CASE link # "up" \/ progress = "begun" -> To([clean EXCEPT !.power = TRUE], "Failed")
          [] link = "up" /\ progress # "begun" /\ off ->
                [To(PowerDown(read), "Off") EXCEPT !.enabled = FALSE, !.kept = TRUE]
          [] link = "up" /\ progress = "marked" /\ ~off -> To(SetMode(read, "sta"), "Failed")
          [] OTHER -> StartProfile([on EXCEPT !.storage =
                                        IF s.nvs \in Networks THEN @ ELSE "ram"], link, r)

(* "late": the C6 has agreed to leave and the event has not come in time   *)
Left(s) == NoEvents([s EXCEPT !.radio = "idle"])
Prepare(s, r) ==
    LET leaving == Hears(s) /\ (s.since \/ s.phase \in Linked \cup {"Associating"})
        clean == Unconfigured(NewGeneration(s))
    IN  CASE ~leaving -> clean
          [] leaving /\ r = "ok" -> To(Left(clean), "Idle")
          [] leaving /\ r = "refused" -> To(NoEvents(clean), "Failed")
          [] OTHER -> To(NoEvents(Leave(clean)), "Failed")

(* outcome: what wait_for_connection heard, if the request was accepted    *)
ShellAttempt(s, network, r, outcome) ==
    LET begun == [Unconfigured(s) EXCEPT !.source = "Shell", !.attempt = 1]
        asked == AskToJoin(begun, network, C6Says(s, r))
    IN  CASE C6Says(s, r) = "ok" /\ outcome = "connected" /\ network \in Good ->
                To([asked EXCEPT !.radio = "joined", !.since = TRUE, !.events = <<>>],
                   "Associated")
          [] C6Says(s, r) = "ok" /\ outcome = "refused" ->
                MarkFailed([asked EXCEPT !.radio = "idle", !.events = <<>>])
          [] OTHER -> MarkFailed(asked)

Forgotten(s) ==
    [ClearCredentials(s) EXCEPT !.source = "none", !.saved = FALSE, !.nvs = Empty,
                                !.cfg = Empty, !.mode = "sta"]
ForgetSavedProfile(s, link, progress) ==
    LET station == EnsureStation(s, link)
        off == To(PowerDown(s), "Off")
    IN  CASE s.enabled /\ station.session = "none" -> station
          [] s.enabled /\ station.session # "none" ->
                IF progress = "begun" THEN station
                ELSE [Forgotten(station) EXCEPT !.storage = "ram"]
          [] ~s.enabled /\ link # "up" ->
                To([s EXCEPT !.power = TRUE, !.kept = FALSE], "Failed")
          [] ~s.enabled /\ link = "up" /\ progress = "begun" ->
                [off EXCEPT !.kept = FALSE]
          [] ~s.enabled /\ link = "up" /\ progress = "marked" ->
                [off EXCEPT !.nvs = OffMarker, !.mode = "sta", !.kept = FALSE]
          [] OTHER -> [Forgotten(off) EXCEPT !.nvs = OffMarker, !.mode = "null"]

(* wifi_session, net_session: a link and a stack made on demand            *)
OpenForShell(s, link) ==
    IF s.session # "none" THEN s
    ELSE IF link = "up" THEN Open(s, link) ELSE [Reset(s) EXCEPT !.session = "none"]
SetIpPolicy(s, policy) ==
    LET set == [s EXCEPT !.policy = policy]
    IN  CASE s.phase \notin Linked -> set
          [] s.phase \in Linked /\ policy = "Unconfigured" -> To(set, "Associated")
          [] s.phase \in Linked /\ policy # "Unconfigured" /\ s.stack = "addressed" ->
                To(set, "Online")
          [] OTHER -> To(set, IF policy = "Dhcp" THEN "RequestingDhcp" ELSE "Associated")

Command(s) ==
    /\ "console" \in Actors /\ ~Busy(m) /\ ~m.gui /\ ~m.startup
    /\ m' = Service(s, FALSE, FALSE, "down", "refused")
    /\ UNCHANGED screen

ShellOn ==
    \E link \in Links, progress \in Progress, r \in Answers \ {"pending"} :
        ~m.enabled /\ Command(Enable(m, link, progress, r))
ShellOff ==
    \E link \in Links, progress \in Progress :
        m.enabled /\ Command(Disable(m, link, progress))
ShellConnect(network) ==
    \E link \in Links, left \in {"ok", "refused", "late"},
       r \in Answers \ {"pending"}, outcome \in {"connected", "refused", "none"} :
        LET ready == Prepare(m, left)
            open == OpenForShell(ready, link)
        IN  /\ m.enabled
            /\ Command(IF ready.phase = "Failed" /\ m.phase # "Failed" THEN ready
                       ELSE IF open.session = "none" THEN open
                       ELSE ShellAttempt(open, network, r, outcome))
ShellDisconnect ==
    \E r \in Answers \cup {"late"} :
        /\ m.enabled /\ m.session # "none" /\ (Hears(m) \/ r = "lost")
        /\ Command(CASE r = "ok" -> MarkDisconnected(Left(m))
                     [] r = "late" -> MarkDisconnected(Leave(m))
                     [] r = "done" -> Leave(m)
                     [] OTHER -> m)
ShellForget ==
    \E link \in Links, progress \in Progress : Command(ForgetSavedProfile(m, link, progress))
ShellScan == \E link \in Links : m.enabled /\ Command(OpenForShell(m, link))
ShellDiagnostic ==
    \E link \in Links, progress \in Progress, r \in Answers \ {"pending"} :
        Command(IF m.enabled
                THEN BeginStartupAutoConnect(ClearLink(m), link, progress, r)
                ELSE To(PowerDown(DropSession(ClearLink(m))), "Off"))
ShellIpconfig(policy, address) ==
    \E link \in Links :
        LET open == OpenForShell(m, link)
            stack == IF policy = "Unconfigured" THEN "waiting"
                     ELSE IF policy = "Static" THEN "addressed" ELSE address
        IN  /\ m.enabled
            /\ address = "addressed" => open.radio = "joined"
            /\ Command(IF open.session = "none" THEN open
                       ELSE SetIpPolicy([open EXCEPT !.stack = stack], policy))

---------------------------------------------------------------------------
(* Boot, and the reset that may come at any time *)

Boot(nvs, mode) ==
    [enabled |-> TRUE, saved |-> FALSE, session |-> "none", stack |-> "none",
     source |-> "none", policy |-> "Unconfigured", phase |-> "LinkDown", armed |-> FALSE,
     cred |-> None, attempt |-> 0, since |-> FALSE,
     savePending |-> FALSE, startup |-> TRUE, begun |-> FALSE, gui |-> FALSE,
     job |-> None, followup |-> None, reply |-> FALSE, kept |-> FALSE,
     power |-> FALSE, storage |-> "flash", cfg |-> Empty, radio |-> "idle",
     events |-> <<>>, nvs |-> nvs, mode |-> mode]

Init ==
    /\ \E nvs \in Good \cup {Empty, OffMarker}, mode \in {"sta", "null"} : m = Boot(nvs, mode)
    /\ screen = "closed"

Reboot ==
    /\ m' = Boot(m.nvs, m.mode)
    /\ screen' = "closed"

(* The splash screen asks until the profile could be read                  *)
StartupBegin ==
    \E link \in Links, progress \in Progress, r \in Answers \ {"pending"} :
        /\ m.startup /\ ~m.begun
        /\ LET found == BeginStartupAutoConnect(m, link, progress, r)
           IN  m' = [found EXCEPT !.begun = link = "up"
                        /\ (progress = "all" \/ (progress = "marked" /\ found.phase = "Off"))]
        /\ UNCHANGED screen
StartupEnds ==
    /\ m.startup
    /\ m' = [m EXCEPT !.startup = FALSE, !.begun = FALSE,
                      !.attempt = IF @ = 0 THEN 0 ELSE 1]
    /\ UNCHANGED screen

Console ==
    \/ ShellOn \/ ShellOff \/ ShellDisconnect \/ ShellForget \/ ShellScan \/ ShellDiagnostic
    \/ \E network \in Networks : ShellConnect(network)
    \/ \E policy \in {"Unconfigured", "Dhcp", "Static"}, address \in {"waiting", "addressed"} :
           ShellIpconfig(policy, address)
Panel ==
    \/ EnterGui \/ LeaveGui \/ OpenScreen \/ GuiScan \/ GuiForget \/ ScreenTick
    \/ \E on \in BOOLEAN : GuiEnable(on)
    \/ \E network \in Networks : GuiConnect(network)
Air ==
    \/ JoinSucceeds \/ JoinFails("refused") \/ JoinFails("dropped") \/ AccessPointDrops
    \/ LinkDies \/ LeaseChanges
Next == Frame \/ Panel \/ Console \/ Air \/ Reboot \/ StartupBegin \/ StartupEnds

Spec == Init /\ [][Next]_vars

---------------------------------------------------------------------------
(* Properties *)

(* The manager's fields, the C6's and the screen's have their types; a     *)
(* deadline is armed only in the two states that have one.                 *)
TypeOK ==
    /\ m \in Manager
    /\ Len(m.events) <= MaxEvents
    /\ m.armed => m.phase \in {"Associating", "RetryWaiting"}
    /\ screen \in {"closed", "idle", "waiting"}

(* A profile is tried in the C6's RAM and written to its flash once the    *)
(* access point has accepted it: whatever fails, is lost or overtaken on   *)
(* the way, the flash names no network whose password was wrong.           *)
OnlyAcceptedPasswordsAreSaved == m.nvs \in Networks => m.nvs \in Good

(* The IP stack is torn down with the link it runs on, by every path that  *)
(* drops the session.                                                      *)
StackNeedsItsLink == m.stack # "none" => m.session # "none"

(* Once Wi-Fi is off and no job is left, nobody's credentials remain and   *)
(* the radio has left its network: a retry or an event in flight does not  *)
(* bring it back.                                                          *)
OffMeansQuiet == ~m.enabled /\ ~Busy(m) => m.cred = None /\ m.radio = "idle"

(* The splash screen's policy tries three times.                           *)
StartupGivesUp == m.startup => m.attempt <= StartupMaxAttempts

(* After the access point has refused a password it is not tried again     *)
(* and not saved, until the user gives another.                            *)
RefusedPasswordIsDropped ==
    m.phase = "NeedsPassword" /\ ~Busy(m) => ~RetryIsActive(m) /\ ~m.savePending

(* The screen that waits for an operation can still get its answer: no way *)
(* out of a job forgets the token, the job the manager makes for itself    *)
(* beside it and takes up afterwards notwithstanding.                      *)
EveryTokenIsAnswered ==
    screen = "waiting" =>
        m.reply \/ \E job \in {m.job, m.followup} \ {None} : job.token

(* The boot does not wait for Wi-Fi for ever.                              *)
StartupSettles ==
    m.startup /\ m.begun ~>
        ~m.startup \/ ~m.begun \/ m.phase \in SplashEnds \cup {"Online"}

(* docs/plans/archive/WIFI_REFACTOR_PLAN.md: an OFF the user was told of   *)
(* is stored in the C6's flash as the mode NULL, with a marker when there  *)
(* is no profile, so that the next boot finds it.                          *)
OffIsRemembered ==
    m.kept /\ ~Busy(m) => m.mode = "null" /\ m.nvs \in Networks \cup {OffMarker}

(* forget_saved_profile: "it will no longer auto-reconnect"; the panel's   *)
(* jobs never ask the C6 to join with the profile that was dropped.        *)
ForgottenIsNotTried ==
    [][m.cred = None /\ m.source # "Shell" /\ Busy(m)
         => ~(m.radio # "joining" /\ m'.radio = "joining")]_vars

(* The same document: a forget while Wi-Fi is off powers the C6 only while *)
(* its flash is written, and the state Off has it powered down.            *)
OffMeansPoweredDown == m.phase = "Off" /\ ~Busy(m) => ~m.power
=============================================================================
