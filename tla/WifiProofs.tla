----------------------------- MODULE WifiProofs -----------------------------
(***************************************************************************)
(* What holds of the Wi-Fi manager with its panel, its console and the     *)
(* network it joins, for every set of networks and of good passwords and   *)
(* every length of the queue of events.                                    *)
(*                                                                         *)
(* The invariants that the runs check are not inductive: whether a flash   *)
(* profile is one the access point has accepted depends on what the C6 is  *)
(* joining with while the answer is on its way, and so on the stage of the *)
(* job that asked and on the events nobody has read yet.  IInv says all of *)
(* it, as a predicate Sound of the manager's record, because a frame       *)
(* changes that record several times before it is the next state.          *)
(*                                                                         *)
(* The proof follows the code: the events a frame hears, by induction over *)
(* the queue (Hearing); a frame without a job (Free, Rested, Serviced); a  *)
(* stage of the panel's job (Doing, Answered, Carried, Kept); the console, *)
(* which runs alone (Bare); the orders of the panel; the world around.     *)
(***************************************************************************)
EXTENDS WifiManager, TLAPS, FiniteSetTheorems

----------------------------------------------------------------------------
(* The inductive invariant, as predicates of the manager's record.         *)

\* The stages each kind of job goes through.
BringUpStages == {0, 1, 2, 3, 6, 7, 8}
JoinStages == {10, 11, 12, 13, 15}
OffStages == 31 .. 35
Fits(job) ==
  /\ job \in Jobs
  /\ job.kind = "Scan" => job.stage \in BringUpStages \cup 20 .. 22
  /\ job.kind \in {"Connect", "Retry"} => job.stage \in BringUpStages \cup JoinStages
  /\ job.kind = "Enable" => job.stage \in BringUpStages \cup JoinStages \cup {4, 5, 9}
  /\ job.kind = "Disable" => job.stage \in BringUpStages \cup OffStages \cup {30}
  /\ job.kind = "Forget" => job.stage \in BringUpStages \cup OffStages \cup {50, 51}
  /\ job.kind = "Associated" => job.stage \in 40 .. 43

Has(s, kinds) == s.job # None /\ s.job.kind \in kinds
AtStage(s, stages) == s.job # None /\ s.job.stage \in stages
Heard1(s, event) == \E i \in DOMAIN s.events : s.events[i] = event

\* The user's own jobs run alone, with a session from their first stage on.
JobsInOrder(s) ==
  /\ s.job # None => Fits(s.job)
  /\ s.followup # None =>
       /\ Fits(s.followup) /\ ~s.followup.token
       /\ s.followup.kind \in {"Retry", "Associated"} /\ s.enabled
       /\ s.followup.kind = "Retry" => s.followup.stage \in {0, 10}
  /\ Has(s, {"Connect", "Enable", "Disable"}) =>
       /\ s.followup = None
       /\ s.job.stage = 0 <=> s.session = "none"
  /\ Has(s, {"Forget"}) /\ AtStage(s, OffStages) => ~s.enabled
  /\ s.startup => ~s.gui /\ ~Busy(s)

\* A deadline belongs to a state that has one.
Clocked(s) == s.armed => s.phase \in {"Associating", "RetryWaiting"}
Timed(s) == Clocked(s) /\ Len(s.events) <= MaxEvents

\* An IP stack goes with the session that carries its frames.
StackHasLink(s) == s.stack # "none" => s.session # "none"

\* Off is off: only an order to turn on or to forget is left, and neither joins.
Quiet(s) ==
  ~s.enabled =>
    /\ s.radio = "idle"
    /\ s.job # None => Has(s, {"Enable", "Forget"})
    /\ s.cred # None => Has(s, {"Enable"})
    /\ ~(Has(s, {"Enable"}) /\ AtStage(s, JoinStages))

\* Once the user has been asked for a password, the old one is gone, unless it
\* is the new one that is being tried.
PasswordDropped(s) ==
  s.phase = "NeedsPassword" =>
    Has(s, {"Connect", "Enable"}) \/ (~RetryIsActive(s) /\ ~s.savePending)

\* The splash screen's policy waits for a further attempt only while it has one.
AttemptsEnd(s) ==
  s.startup =>
    /\ s.attempt <= StartupMaxAttempts
    /\ s.phase = "RetryWaiting" => s.attempt < StartupMaxAttempts

\* Credentials an access point has accepted, or none.
Proven(s) == s.cred \in Good \cup {None}
Joining(s) == s.radio = "joining"
\* What the C6 is joining with, and what it has been heard to have joined
\* with, are the credentials the manager keeps.
FlashIsProven(s) == s.nvs \in Networks => s.nvs \in Good
TriedInRam(s) ==
  /\ AtStage(s, {12}) => s.storage = "ram"
  /\ AtStage(s, {13}) /\ Hears(s) =>
       ~Joining(s) /\ ~Heard1(s, "connected") /\ s.cfg = IF s.cred = None THEN Empty ELSE s.cred
NothingToJoin(s) ==
  /\ AtStage(s, OffStages) => s.cred = None
  /\ AtStage(s, {1}) => ~Joining(s)
SavedIsProven(s) ==
  Has(s, {"Associated"}) \/ (s.followup # None /\ s.followup.kind = "Associated") => Proven(s)
JoinsWhatItKeeps(s) ==
  Hears(s) /\ ~Has(s, {"Connect", "Enable"}) =>
       /\ Joining(s) => s.cred \in {None, s.cfg}
       /\ Heard1(s, "connected") => Proven(s)
SavesWhatWorks(s) ==
  /\ FlashIsProven(s) /\ TriedInRam(s) /\ NothingToJoin(s)
  /\ SavedIsProven(s) /\ JoinsWhatItKeeps(s)

\* The panel is open only where the manager serves it, and a panel that waits
\* has its answer or has a job that will bring it.
ScreenHasGui == screen # "closed" => m.gui
TokenIsKept == screen = "waiting" => m.reply \/ (m.job # None /\ m.job.token)

\* All that a call of the manager relies on and leaves behind.
Sound(s) ==
  /\ s \in Manager
  /\ JobsInOrder(s) /\ Timed(s) /\ StackHasLink(s) /\ Quiet(s) /\ PasswordDropped(s)
  /\ AttemptsEnd(s) /\ SavesWhatWorks(s)
ScreenTyped == screen \in {"closed", "idle", "waiting"}
IInv == Sound(m) /\ ScreenTyped /\ ScreenHasGui /\ TokenIsKept

\* A field of the record can take any value of its type.
LEMMA Fields ==
  ASSUME NEW s \in Manager
  PROVE  /\ \A x \in BOOLEAN : [s EXCEPT !.enabled = x] \in Manager
         /\ \A x \in BOOLEAN : [s EXCEPT !.saved = x] \in Manager
         /\ \A x \in {"none", "raw", "init", "started", "dead"} : [s EXCEPT !.session = x] \in Manager
         /\ \A x \in {"none", "waiting", "addressed"} : [s EXCEPT !.stack = x] \in Manager
         /\ \A x \in {"none", "Shell", "Menu"} : [s EXCEPT !.source = x] \in Manager
         /\ \A x \in {"Unconfigured", "Dhcp", "Static"} : [s EXCEPT !.policy = x] \in Manager
         /\ \A x \in Phases : [s EXCEPT !.phase = x] \in Manager
         /\ \A x \in BOOLEAN : [s EXCEPT !.armed = x] \in Manager
         /\ \A x \in Networks \cup {None} : [s EXCEPT !.cred = x] \in Manager
         /\ \A x \in Nat : [s EXCEPT !.attempt = x] \in Manager
         /\ \A x \in BOOLEAN : [s EXCEPT !.since = x] \in Manager
         /\ \A x \in BOOLEAN : [s EXCEPT !.savePending = x] \in Manager
         /\ \A x \in BOOLEAN : [s EXCEPT !.startup = x] \in Manager
         /\ \A x \in BOOLEAN : [s EXCEPT !.begun = x] \in Manager
         /\ \A x \in BOOLEAN : [s EXCEPT !.gui = x] \in Manager
         /\ \A x \in Jobs \cup {None} : [s EXCEPT !.job = x] \in Manager
         /\ \A x \in Jobs \cup {None} : [s EXCEPT !.followup = x] \in Manager
         /\ \A x \in BOOLEAN : [s EXCEPT !.reply = x] \in Manager
         /\ \A x \in BOOLEAN : [s EXCEPT !.kept = x] \in Manager
         /\ \A x \in BOOLEAN : [s EXCEPT !.power = x] \in Manager
         /\ \A x \in {"flash", "ram"} : [s EXCEPT !.storage = x] \in Manager
         /\ \A x \in Configs : [s EXCEPT !.cfg = x] \in Manager
         /\ \A x \in {"idle", "joining", "joined", "leaving"} : [s EXCEPT !.radio = x] \in Manager
         /\ \A x \in Seq(Events) : [s EXCEPT !.events = x] \in Manager
         /\ \A x \in Configs : [s EXCEPT !.nvs = x] \in Manager
         /\ \A x \in {"sta", "null"} : [s EXCEPT !.mode = x] \in Manager
<1>1. \A x \in BOOLEAN : [s EXCEPT !.enabled = x] \in Manager
  BY DEF Manager
<1>2. \A x \in BOOLEAN : [s EXCEPT !.saved = x] \in Manager
  BY DEF Manager
<1>3. \A x \in {"none", "raw", "init", "started", "dead"} : [s EXCEPT !.session = x] \in Manager
  BY DEF Manager
<1>4. \A x \in {"none", "waiting", "addressed"} : [s EXCEPT !.stack = x] \in Manager
  BY DEF Manager
<1>5. \A x \in {"none", "Shell", "Menu"} : [s EXCEPT !.source = x] \in Manager
  BY DEF Manager
<1>6. \A x \in {"Unconfigured", "Dhcp", "Static"} : [s EXCEPT !.policy = x] \in Manager
  BY DEF Manager
<1>7. \A x \in Phases : [s EXCEPT !.phase = x] \in Manager
  BY DEF Manager
<1>8. \A x \in BOOLEAN : [s EXCEPT !.armed = x] \in Manager
  BY DEF Manager
<1>9. \A x \in Networks \cup {None} : [s EXCEPT !.cred = x] \in Manager
  BY DEF Manager
<1>10. \A x \in Nat : [s EXCEPT !.attempt = x] \in Manager
  BY DEF Manager
<1>11. \A x \in BOOLEAN : [s EXCEPT !.since = x] \in Manager
  BY DEF Manager
<1>12. \A x \in BOOLEAN : [s EXCEPT !.savePending = x] \in Manager
  BY DEF Manager
<1>13. \A x \in BOOLEAN : [s EXCEPT !.startup = x] \in Manager
  BY DEF Manager
<1>14. \A x \in BOOLEAN : [s EXCEPT !.begun = x] \in Manager
  BY DEF Manager
<1>15. \A x \in BOOLEAN : [s EXCEPT !.gui = x] \in Manager
  BY DEF Manager
<1>16. \A x \in Jobs \cup {None} : [s EXCEPT !.job = x] \in Manager
  BY DEF Manager
<1>17. \A x \in Jobs \cup {None} : [s EXCEPT !.followup = x] \in Manager
  BY DEF Manager
<1>18. \A x \in BOOLEAN : [s EXCEPT !.reply = x] \in Manager
  BY DEF Manager
<1>19. \A x \in BOOLEAN : [s EXCEPT !.kept = x] \in Manager
  BY DEF Manager
<1>20. \A x \in BOOLEAN : [s EXCEPT !.power = x] \in Manager
  BY DEF Manager
<1>21. \A x \in {"flash", "ram"} : [s EXCEPT !.storage = x] \in Manager
  BY DEF Manager
<1>22. \A x \in Configs : [s EXCEPT !.cfg = x] \in Manager
  BY DEF Manager
<1>23. \A x \in {"idle", "joining", "joined", "leaving"} : [s EXCEPT !.radio = x] \in Manager
  BY DEF Manager
<1>24. \A x \in Seq(Events) : [s EXCEPT !.events = x] \in Manager
  BY DEF Manager
<1>25. \A x \in Configs : [s EXCEPT !.nvs = x] \in Manager
  BY DEF Manager
<1>26. \A x \in {"sta", "null"} : [s EXCEPT !.mode = x] \in Manager
  BY DEF Manager
<1> QED BY <1>1, <1>2, <1>3, <1>4, <1>5, <1>6, <1>7, <1>8, <1>9, <1>10, <1>11, <1>12, <1>13, <1>14, <1>15, <1>16, <1>17, <1>18, <1>19, <1>20, <1>21, <1>22, <1>23, <1>24, <1>25, <1>26

----------------------------------------------------------------------------
(* Every operation keeps the manager's type.                               *)

\* Manager::set_state and the phases it is called with.
LEMMA ToTyped ==
  ASSUME NEW s \in Manager, NEW p \in Phases
  PROVE  To(s, p) \in Manager
<1>1. (p \in {"Associating", "RetryWaiting"}) \in BOOLEAN
  OBVIOUS
<1> QED BY <1>1, Fields DEF To

\* The phases the manager names.
LEMMA PhaseTyped ==
  /\ "Off" \in Phases /\ "LinkDown" \in Phases /\ "Idle" \in Phases /\ "Associating" \in Phases
  /\ "RetryWaiting" \in Phases /\ "NeedsPassword" \in Phases /\ "Failed" \in Phases
  /\ "Associated" \in Phases /\ "RequestingDhcp" \in Phases /\ "AssociatedNoLease" \in Phases
  /\ "Online" \in Phases
BY DEF Phases, Linked

\* An empty queue is a queue.
LEMMA NoEventTyped == <<>> \in Seq(Events)
OBVIOUS

\* Dropping the session, the link's generation, the credentials, and the rest
\* of what takes no argument.
LEMMA SimpleTyped ==
  ASSUME NEW s \in Manager
  PROVE  /\ DropSession(s) \in Manager /\ NewGeneration(s) \in Manager
         /\ ClearCredentials(s) \in Manager /\ Leave(s) \in Manager
         /\ PowerDown(s) \in Manager /\ Reset(s) \in Manager
         /\ NoEvents(s) \in Manager /\ Left(s) \in Manager
<1>1. DropSession(s) \in Manager
  BY NoEventTyped, Fields DEF DropSession, Configs
<1>2. NewGeneration(s) \in Manager /\ ClearCredentials(s) \in Manager
  BY Fields DEF NewGeneration, ClearCredentials
<1>3. Leave(s) \in Manager
  <2>1. (IF s.radio = "idle" THEN "idle" ELSE "leaving") \in {"idle", "joining", "joined", "leaving"}
    OBVIOUS
  <2> QED BY <2>1, Fields DEF Leave
<1>4. PowerDown(s) \in Manager
  BY NoEventTyped, Fields DEF PowerDown, Configs
<1>5. Reset(s) \in Manager
  <2>1. s.nvs \in Configs
    BY DEF Manager
  <2> QED BY <2>1, NoEventTyped, Fields DEF Reset
<1>6. NoEvents(s) \in Manager /\ Left(s) \in Manager
  BY NoEventTyped, Fields DEF NoEvents, Left
<1> QED BY <1>1, <1>2, <1>3, <1>4, <1>5, <1>6

\* Giving up the policy of the IP stack.
LEMMA UnconfiguredTyped ==
  ASSUME NEW s \in Manager
  PROVE  Unconfigured(s) \in Manager
BY SimpleTyped, Fields DEF Unconfigured

\* What the console writes down after an attempt.
LEMMA MarksTyped ==
  ASSUME NEW s \in Manager
  PROVE  ClearLink(s) \in Manager /\ MarkDisconnected(s) \in Manager /\ MarkFailed(s) \in Manager
<1>1. ClearLink(s) \in Manager
  BY UnconfiguredTyped, SimpleTyped, ToTyped, PhaseTyped DEF ClearLink
<1>2. MarkDisconnected(s) \in Manager
  BY UnconfiguredTyped, ToTyped, PhaseTyped DEF MarkDisconnected
<1>3. MarkFailed(s) \in Manager
  BY SimpleTyped, Fields, ToTyped, PhaseTyped DEF MarkFailed
<1> QED BY <1>1, <1>2, <1>3

\* apply_retry_decision.
LEMMA ApplyRetryDecisionTyped ==
  ASSUME NEW s \in Manager, NEW verdict
  PROVE  ApplyRetryDecision(s, verdict) \in Manager
BY SimpleTyped, Fields, ToTyped, PhaseTyped DEF ApplyRetryDecision

\* A link that died.
LEMMA LinkLostTyped ==
  ASSUME NEW s \in Manager
  PROVE  LinkLost(s) \in Manager
BY SimpleTyped, Fields, ToTyped, PhaseTyped, ApplyRetryDecisionTyped DEF LinkLost


----------------------------------------------------------------------------
(* What an operation leaves as it was.                                     *)

SameC6(s, t) ==
  /\ t.session = s.session /\ t.storage = s.storage /\ t.cfg = s.cfg /\ t.radio = s.radio
  /\ t.events = s.events /\ t.nvs = s.nvs /\ t.mode = s.mode /\ t.power = s.power
SameOrders(s, t) ==
  /\ t.enabled = s.enabled /\ t.startup = s.startup /\ t.begun = s.begun /\ t.gui = s.gui
  /\ t.reply = s.reply
SameJobs(s, t) == t.job = s.job /\ t.followup = s.followup

\* apply_retry_decision keeps the C6, the orders and the jobs; whatever it
\* decides, a refused password is dropped and no attempt beyond the last is
\* planned.
LEMMA ApplyRetryDecisionShape ==
  ASSUME NEW s \in Manager, NEW verdict, NEW t, t = ApplyRetryDecision(s, verdict)
  PROVE  /\ SameC6(s, t) /\ SameOrders(s, t) /\ SameJobs(s, t)
         /\ t.stack = s.stack /\ t.source = s.source /\ t.attempt = s.attempt
         /\ t.cred \in {None, s.cred}
         /\ t.phase \in {"RetryWaiting", "NeedsPassword", "Failed"}
         /\ t.phase = "NeedsPassword" => t.cred = None /\ ~t.savePending
         /\ t.phase = "RetryWaiting" => ~(s.startup /\ s.attempt >= StartupMaxAttempts)
         /\ verdict # "retry" => t.cred = None
         /\ Clocked(t) /\ t \in Manager
<1>0. t \in Manager
  BY ApplyRetryDecisionTyped
<1>1. CASE verdict = "retry" /\ ~(s.startup /\ s.attempt >= StartupMaxAttempts)
  <2>1. t = To(s, "RetryWaiting")
    BY <1>1 DEF ApplyRetryDecision
  <2> QED BY <2>1, <1>0, <1>1 DEF To, Clocked, Manager, SameC6, SameOrders, SameJobs
<1>2. CASE ~(verdict = "retry" /\ ~(s.startup /\ s.attempt >= StartupMaxAttempts))
  <2>1. t = To([ClearCredentials(s) EXCEPT !.since = FALSE],
               IF verdict = "password" THEN "NeedsPassword" ELSE "Failed")
    BY <1>2 DEF ApplyRetryDecision
  <2>2. Clocked(t)
    BY <2>1 DEF To, ClearCredentials, Clocked, Manager
  <2> QED BY <1>0, <2>1, <2>2 DEF To, ClearCredentials, Manager, SameC6, SameOrders, SameJobs
<1> QED BY <1>1, <1>2

\* Dropping what was tried, with the link still there.
LEMMA ToShape ==
  ASSUME NEW s \in Manager, NEW p \in Phases, NEW t, t = To(s, p)
  PROVE  /\ SameC6(s, t) /\ SameOrders(s, t) /\ SameJobs(s, t)
         /\ t.stack = s.stack /\ t.source = s.source /\ t.attempt = s.attempt
         /\ t.cred = s.cred /\ t.phase = p /\ t.savePending = s.savePending
         /\ t.policy = s.policy /\ t.since = s.since /\ t.saved = s.saved /\ t.kept = s.kept
         /\ Clocked(t)
<1>1. Clocked(t)
  BY DEF To, Clocked, Manager
<1> QED BY <1>1 DEF To, Manager, SameC6, SameOrders, SameJobs

\* The splash screen's count survives a step that plans no further attempt.
LEMMA AttemptsCounted ==
  ASSUME NEW s \in Manager, NEW t \in Manager, AttemptsEnd(s),
         t.startup = s.startup, t.attempt = s.attempt,
         t.phase = "RetryWaiting" => ~(s.startup /\ s.attempt >= StartupMaxAttempts) \/ s.phase = "RetryWaiting"
  PROVE  AttemptsEnd(t)
<1>1. t.attempt \in Nat /\ s.attempt \in Nat
  BY DEF Manager
<1> QED BY <1>1 DEF AttemptsEnd, StartupMaxAttempts

\* A dead link takes its session with it and leaves a sound manager.
LEMMA LinkLostSound ==
  ASSUME NEW s \in Manager, Sound(s), s.job = None, s.followup = None, s.session = "dead", s.enabled,
         NEW t, t = LinkLost(s)
  PROVE  /\ Sound(t) /\ t.job = None /\ t.followup = None /\ SameOrders(s, t)
         /\ t.session = "none" /\ t.cred \in {None, s.cred} /\ t.radio = s.radio
<1> DEFINE lost == [DropSession(s) EXCEPT !.since = FALSE, !.stack = "none"]
<1>1. lost \in Manager /\ t \in Manager
  BY LinkLostTyped, SimpleTyped, Fields DEF LinkLost
<1>2. /\ SameOrders(s, lost) /\ SameJobs(s, lost) /\ lost.session = "none" /\ lost.stack = "none"
      /\ lost.cred = s.cred /\ lost.nvs = s.nvs /\ lost.attempt = s.attempt
      /\ lost.events = <<>> /\ lost.radio = s.radio /\ lost.phase = s.phase /\ lost.savePending = s.savePending
  BY DEF DropSession, Manager, SameOrders, SameJobs
<1>3. t = ApplyRetryDecision(lost, "retry") \/ t = To(lost, "Failed")
  BY DEF LinkLost
<1> HIDE DEF lost
<1>4. /\ t.job = None /\ t.followup = None /\ SameOrders(s, t) /\ t.session = "none"
      /\ t.events = <<>> /\ t.radio = s.radio /\ Clocked(t) /\ t.stack = "none" /\ t.cred \in {None, s.cred} /\ t.nvs = s.nvs /\ t.attempt = s.attempt
      /\ t.phase = "NeedsPassword" => t.cred = None /\ ~t.savePending
      /\ t.phase = "RetryWaiting" => ~(s.startup /\ s.attempt >= StartupMaxAttempts)
  <2>1. CASE t = ApplyRetryDecision(lost, "retry")
    <3>1. /\ SameC6(lost, t) /\ SameOrders(lost, t) /\ SameJobs(lost, t)
          /\ Clocked(t) /\ t.stack = lost.stack /\ t.attempt = lost.attempt /\ t.cred \in {None, lost.cred}
          /\ t.phase = "NeedsPassword" => t.cred = None /\ ~t.savePending
          /\ t.phase = "RetryWaiting" => ~(lost.startup /\ lost.attempt >= StartupMaxAttempts)
      BY <2>1, <1>1, ApplyRetryDecisionShape
    <3> QED BY <3>1, <1>2 DEF SameC6, SameOrders, SameJobs
  <2>2. CASE t = To(lost, "Failed")
    <3>1. /\ SameC6(lost, t) /\ SameOrders(lost, t) /\ SameJobs(lost, t) /\ t.phase = "Failed"
          /\ Clocked(t) /\ t.stack = lost.stack /\ t.attempt = lost.attempt /\ t.cred = lost.cred
      BY <2>2, <1>1, ToShape, PhaseTyped
    <3> QED BY <3>1, <1>2 DEF SameC6, SameOrders, SameJobs
  <2> QED BY <1>3, <2>1, <2>2
<1>5. JobsInOrder(t) /\ StackHasLink(t) /\ Quiet(t)
  BY <1>4 DEF Sound, JobsInOrder, StackHasLink, Quiet, Has, AtStage, Busy, SameOrders
<1>6. PasswordDropped(t) /\ Timed(t)
  BY <1>4, ConstantsAssumption DEF PasswordDropped, RetryIsActive, Timed
<1>7. AttemptsEnd(t)
  BY <1>1, <1>4, AttemptsCounted DEF Sound, SameOrders
<1>8. SavesWhatWorks(t)
  BY <1>4 DEF SavesWhatWorks, Sound, FlashIsProven, TriedInRam, NothingToJoin, SavedIsProven,
     JoinsWhatItKeeps, Has, AtStage, Hears
<1> QED BY <1>1, <1>4, <1>5, <1>6, <1>7, <1>8 DEF Sound

----------------------------------------------------------------------------
(* The events of the station.                                              *)

\* A state t between two events of a frame that began with s.
Hearing(s, t) ==
  /\ Sound(t) /\ t.enabled /\ t.session = s.session /\ t.events = <<>> /\ SameOrders(s, t)
  /\ t.cred \in {None, s.cred} /\ t.followup = None
  /\ t.job # None => t.gui /\ t.job.kind = "Associated" /\ ~t.job.token
  /\ t.radio = s.radio

\* The jobs the manager makes.
LEMMA JobTyped ==
  ASSUME NEW kind \in Kinds, NEW stage \in Stages, NEW token \in BOOLEAN
  PROVE  NewJob(kind, stage, token) \in Jobs
BY DEF NewJob, Jobs

\* set_station_config: the flash follows only when the C6 stores there.
LEMMA ConfigureShape ==
  ASSUME NEW s \in Manager, NEW c \in Configs, NEW t, t = Configure(s, c)
  PROVE  /\ t \in Manager /\ SameOrders(s, t) /\ SameJobs(s, t)
         /\ t.cfg = c /\ t.storage = s.storage /\ t.session = s.session /\ t.radio = s.radio
         /\ t.events = s.events /\ t.mode = s.mode /\ t.power = s.power
         /\ t.nvs = (IF s.storage = "flash" THEN c ELSE s.nvs)
         /\ t.stack = s.stack /\ t.source = s.source /\ t.attempt = s.attempt /\ t.cred = s.cred
         /\ t.phase = s.phase /\ t.armed = s.armed /\ t.savePending = s.savePending /\ t.policy = s.policy
<1>1. (IF s.storage = "flash" THEN c ELSE s.nvs) \in Configs
  BY DEF Manager
<1>2. t \in Manager
  BY <1>1, Fields DEF Configure
<1> QED BY <1>2 DEF Configure, Manager, SameOrders, SameJobs

\* The two marks of a profile that has been saved.
LEMMA SavedTyped ==
  ASSUME NEW s \in Manager, NEW c \in BOOLEAN
  PROVE  [s EXCEPT !.savePending = FALSE, !.saved = @ \/ c] \in Manager
<1>1. ASSUME NEW b \in BOOLEAN PROVE [s EXCEPT !.savePending = FALSE, !.saved = b] \in Manager
  BY Fields
<1>2. (s.saved \/ c) \in BOOLEAN
  OBVIOUS
<1>3. [s EXCEPT !.savePending = FALSE, !.saved = s.saved \/ c] \in Manager
  BY <1>1, <1>2
<1>4. [s EXCEPT !.savePending = FALSE].saved = s.saved
  BY DEF Manager
<1>5. [s EXCEPT !.savePending = FALSE, !.saved = @ \/ c] = [s EXCEPT !.savePending = FALSE, !.saved = s.saved \/ c]
  BY <1>4
<1> QED BY <1>3, <1>5

\* persist_profile writes nothing, or the credentials the manager keeps.
LEMMA PersistProfileShape ==
  ASSUME NEW s \in Manager, NEW r, NEW t, t = PersistProfile(s, r)
  PROVE  /\ t \in Manager /\ SameOrders(s, t) /\ SameJobs(s, t)
         /\ t.session = s.session /\ t.radio = s.radio /\ t.events = s.events
         /\ t.stack = s.stack /\ t.source = s.source /\ t.attempt = s.attempt /\ t.cred = s.cred
         /\ t.phase = s.phase /\ t.armed = s.armed /\ ~t.savePending /\ t.policy = s.policy
         /\ \/ t.cfg = s.cfg /\ t.nvs = s.nvs
            \/ s.cred # None /\ t.cfg = s.cred /\ t.nvs = s.cred
<1> DEFINE c == s.cred # None /\ r = "ok"
<1>1. c \in BOOLEAN
  OBVIOUS
<1>2. CASE s.cred = None
  <2>1. t = [s EXCEPT !.savePending = FALSE, !.saved = @ \/ c]
    BY <1>2 DEF PersistProfile
  <2> HIDE DEF c
  <2>2. t \in Manager
    BY <2>1, <1>1, SavedTyped
  <2> QED BY <2>1, <2>2 DEF Manager, SameOrders, SameJobs
<1>3. CASE s.cred # None /\ Done(r)
  <2> DEFINE flash == [s EXCEPT !.storage = "flash"]
             saved == Configure(flash, s.cred)
             ram == [saved EXCEPT !.storage = "ram"]
  <2>1. s.cred \in Configs
    BY <1>3 DEF Manager, Configs
  <2>2. flash \in Manager
    BY Fields
  <2>3. /\ saved \in Manager /\ SameOrders(flash, saved) /\ SameJobs(flash, saved)
        /\ saved.cfg = s.cred /\ saved.session = flash.session /\ saved.radio = flash.radio
        /\ saved.events = flash.events /\ saved.nvs = s.cred
        /\ saved.stack = flash.stack /\ saved.source = flash.source
        /\ saved.attempt = flash.attempt /\ saved.cred = flash.cred
        /\ saved.phase = flash.phase /\ saved.armed = flash.armed /\ saved.policy = flash.policy /\ saved.saved = flash.saved
    <3>1. flash.storage = "flash"
      BY DEF Manager
    <3>2. saved.saved = flash.saved
      BY <2>2 DEF Configure, Manager
    <3> HIDE DEF flash, saved
    <3>3. saved = Configure(flash, s.cred)
      BY DEF saved
    <3> QED BY <2>1, <2>2, <3>1, <3>2, <3>3, ConfigureShape
  <2>4. ram \in Manager
    BY <2>3, Fields
  <2>5. t = [ram EXCEPT !.savePending = FALSE, !.saved = @ \/ c]
    BY <1>3 DEF PersistProfile
  <2>6. t \in Manager
    <3> HIDE DEF ram, c
    <3> QED BY <2>4, <2>5, <1>1, SavedTyped
  <2>7. /\ SameOrders(s, flash) /\ SameJobs(s, flash)
        /\ flash.session = s.session /\ flash.radio = s.radio /\ flash.events = s.events
        /\ flash.stack = s.stack /\ flash.source = s.source /\ flash.attempt = s.attempt
        /\ flash.cred = s.cred /\ flash.phase = s.phase /\ flash.armed = s.armed /\ flash.policy = s.policy
    BY DEF Manager, SameOrders, SameJobs
  <2>8. /\ SameOrders(saved, t) /\ SameJobs(saved, t)
        /\ t.session = saved.session /\ t.radio = saved.radio /\ t.events = saved.events
        /\ t.stack = saved.stack /\ t.source = saved.source /\ t.attempt = saved.attempt
        /\ t.cred = saved.cred /\ t.phase = saved.phase /\ t.armed = saved.armed /\ t.policy = saved.policy
        /\ t.cfg = saved.cfg /\ t.nvs = saved.nvs /\ ~t.savePending
    <3> HIDE DEF saved
    <3> QED BY <2>3, <2>5 DEF Manager, SameOrders, SameJobs
  <2> HIDE DEF saved, flash
  <2> QED BY <1>3, <2>3, <2>6, <2>7, <2>8 DEF SameOrders, SameJobs
<1>4. CASE s.cred # None /\ ~Done(r)
  <2> DEFINE asked == [s EXCEPT !.storage = IF r = "lost" THEN "flash" ELSE "ram"]
  <2>1. t = [asked EXCEPT !.savePending = FALSE, !.saved = @ \/ c]
    BY <1>4 DEF PersistProfile
  <2>2. asked \in Manager
    <3>1. (IF r = "lost" THEN "flash" ELSE "ram") \in {"flash", "ram"}
      OBVIOUS
    <3> QED BY <3>1, Fields
  <2>3. t \in Manager
    <3> HIDE DEF asked, c
    <3> QED BY <2>2, <2>1, <1>1, SavedTyped
  <2> QED BY <2>1, <2>3 DEF Manager, SameOrders, SameJobs
<1> QED BY <1>2, <1>3, <1>4

\* An event heard in t leads to u, in which a job may have begun.
HeardTo(t, u) ==
  /\ u \in Manager /\ SameOrders(t, u) /\ u.session = t.session
  /\ t.session # "none" \/ u.stack = t.stack
  /\ u.events = <<>> /\ u.radio = t.radio /\ u.cred \in {None, t.cred} /\ u.attempt = t.attempt
  /\ u.followup = None /\ Clocked(u)
  /\ u.job # None => u.gui /\ u.job.kind = "Associated" /\ ~u.job.token
  /\ u.job = t.job \/ (Proven(u) /\ Fits(u.job) /\ u.job.kind = "Associated")
  /\ u.phase = "NeedsPassword" => ~RetryIsActive(u) /\ ~u.savePending
  /\ u.phase = "RetryWaiting" =>
       ~(t.startup /\ t.attempt >= StartupMaxAttempts) \/ t.phase = "RetryWaiting"
  /\ \/ u.cfg = t.cfg /\ u.nvs = t.nvs
     \/ Proven(t) /\ t.cred # None /\ u.cfg = t.cred /\ u.nvs = t.cred

\* What follows an event in the same frame is still a hearing of it.
LEMMA HearingSound ==
  ASSUME NEW s \in Manager, NEW t, Hearing(s, t), NEW u, HeardTo(t, u)
  PROVE  Hearing(s, u)
<1> USE DEF HeardTo
<1>1. /\ Sound(t) /\ t.enabled /\ t.session = s.session /\ t.events = <<>> /\ SameOrders(s, t)
      /\ t.cred \in {None, s.cred} /\ t.followup = None
      /\ t.job # None => t.gui /\ t.job.kind = "Associated" /\ ~t.job.token
      /\ t.radio = s.radio
  BY DEF Hearing
<1>2. t \in Manager
  BY <1>1 DEF Sound
<1>3. JobsInOrder(u) /\ StackHasLink(u)
  <2>1. u.job # None => Fits(u.job)
    BY <1>1 DEF Sound, JobsInOrder
  <2> QED BY <1>1, <2>1 DEF Sound, JobsInOrder, StackHasLink, Has, Busy, SameOrders
<1>4. Quiet(u) /\ PasswordDropped(u) /\ Timed(u)
  BY <1>1, ConstantsAssumption DEF Timed, Quiet, PasswordDropped, SameOrders
<1>5. AttemptsEnd(u)
  BY <1>1, <1>2, AttemptsCounted DEF Sound, SameOrders
<1>6. FlashIsProven(u)
  BY <1>1 DEF Sound, SavesWhatWorks, FlashIsProven, Proven
<1>7. TriedInRam(u) /\ NothingToJoin(u)
  <2>1. u.job # None => u.job.stage \in 40 .. 43
    BY <1>3 DEF JobsInOrder, Fits
  <2>2. ~AtStage(u, {12}) /\ ~AtStage(u, {13}) /\ ~AtStage(u, OffStages) /\ ~AtStage(u, {1})
    BY <2>1 DEF AtStage, OffStages
  <2> QED BY <2>2 DEF TriedInRam, NothingToJoin
<1>8. SavedIsProven(u)
  BY <1>1 DEF Sound, SavesWhatWorks, SavedIsProven, Has, Proven
<1>9. JoinsWhatItKeeps(u)
  <2>1. ~Has(t, {"Connect", "Enable"})
    BY <1>1 DEF Has
  <2>2. Hears(u) => Hears(t)
    BY DEF Hears
  <2>3. ~Heard1(u, "connected")
    BY DEF Heard1
  <2>4. Hears(u) /\ Joining(u) => u.cred \in {None, u.cfg}
    BY <1>1, <2>1, <2>2 DEF Sound, SavesWhatWorks, JoinsWhatItKeeps, Joining
  <2> QED BY <2>3, <2>4 DEF JoinsWhatItKeeps
<1>10. Sound(u)
  BY <1>3, <1>4, <1>5, <1>6, <1>7, <1>8, <1>9 DEF Sound, SavesWhatWorks
<1> QED BY <1>1, <1>10 DEF Hearing, SameOrders


\* An event that the station is connected.
LEMMA ConnectedHearing ==
  ASSUME NEW s \in Manager, NEW t, Hearing(s, t), t.session # "none", Proven(t), NEW r
  PROVE  Hearing(s, Connected(t, r))
<1> DEFINE heard == [t EXCEPT !.since = TRUE]
           associated == To(heard, "Associated")
           saved == IF t.savePending THEN PersistProfile(associated, r) ELSE associated
           job == NewJob("Associated", IF t.savePending THEN 40 ELSE 43, FALSE)
<1>1. t \in Manager /\ t.followup = None /\ t.events = <<>>
  BY DEF Hearing, Sound
<1>2. /\ associated \in Manager /\ SameC6(t, associated) /\ SameOrders(t, associated)
      /\ SameJobs(t, associated) /\ associated.attempt = t.attempt
      /\ associated.cred = t.cred /\ associated.phase = "Associated" /\ ~associated.armed
      /\ associated.policy = t.policy /\ associated.source = t.source
  <2>1. heard \in Manager
    BY <1>1, Fields
  <2>2. /\ SameC6(t, heard) /\ SameOrders(t, heard) /\ SameJobs(t, heard)
        /\ heard.attempt = t.attempt /\ heard.cred = t.cred
        /\ heard.policy = t.policy /\ heard.source = t.source
    BY <1>1 DEF Manager, SameC6, SameOrders, SameJobs
  <2> HIDE DEF heard
  <2>3. /\ SameC6(heard, associated) /\ SameOrders(heard, associated)
        /\ SameJobs(heard, associated) /\ associated.attempt = heard.attempt
        /\ associated.cred = heard.cred /\ associated.phase = "Associated" /\ Clocked(associated)
        /\ associated.policy = heard.policy /\ associated.source = heard.source
    BY <2>1, ToShape, PhaseTyped
  <2> QED BY <2>1, <2>2, <2>3, ToTyped, PhaseTyped DEF Clocked, SameC6, SameOrders, SameJobs
<1>3. /\ saved \in Manager /\ SameOrders(t, saved) /\ SameJobs(t, saved)
      /\ saved.session = t.session /\ saved.radio = t.radio /\ saved.events = t.events
      /\ saved.attempt = t.attempt /\ saved.cred = t.cred /\ saved.phase = "Associated" /\ ~saved.armed
      /\ \/ saved.cfg = t.cfg /\ saved.nvs = t.nvs
         \/ t.cred # None /\ saved.cfg = t.cred /\ saved.nvs = t.cred
  <2> HIDE DEF associated
  <2>1. CASE t.savePending
    <3>1. saved = PersistProfile(associated, r)
      BY <2>1
    <3> HIDE DEF saved
    <3>2. /\ saved \in Manager /\ SameOrders(associated, saved) /\ SameJobs(associated, saved)
          /\ saved.session = associated.session /\ saved.radio = associated.radio
          /\ saved.events = associated.events /\ saved.attempt = associated.attempt
          /\ saved.cred = associated.cred /\ saved.phase = associated.phase
          /\ saved.armed = associated.armed
          /\ \/ saved.cfg = associated.cfg /\ saved.nvs = associated.nvs
             \/ associated.cred # None /\ saved.cfg = associated.cred /\ saved.nvs = associated.cred
      BY <3>1, <1>2, PersistProfileShape
    <3> QED BY <3>2, <1>2 DEF SameC6, SameOrders, SameJobs
  <2>2. CASE ~t.savePending
    BY <2>2, <1>2 DEF SameC6, SameOrders, SameJobs
  <2> QED BY <2>1, <2>2
<1>4. CASE t.gui /\ Managed(t)
  <2> DEFINE u == [associated EXCEPT !.job = job]
  <2>1. Connected(t, r) = u
    BY <1>4 DEF Connected
  <2>2. job \in Jobs /\ Fits(job) /\ job.kind = "Associated" /\ ~job.token /\ job # None
    <3>1. (IF t.savePending THEN 40 ELSE 43) \in 40 .. 43
      OBVIOUS
    <3>2. (IF t.savePending THEN 40 ELSE 43) \in Stages /\ "Associated" \in Kinds
      BY DEF Stages, Kinds
    <3>3. job \in Jobs
      BY <3>2 DEF NewJob, Jobs
    <3>4. job.kind = "Associated" /\ ~job.token /\ job.stage \in 40 .. 43
      BY <3>1 DEF NewJob
    <3> QED BY <3>3, <3>4, NoJobAssumption DEF Fits
  <2> HIDE DEF associated, job
  <2>3. u \in Manager
    BY <1>2, <2>2, Fields
  <2>4. /\ SameC6(t, u) /\ SameOrders(t, u) /\ u.attempt = t.attempt /\ u.cred = t.cred
        /\ u.phase = "Associated" /\ ~u.armed /\ u.job = job /\ u.followup = None
    BY <1>1, <1>2 DEF Manager, SameC6, SameOrders, SameJobs
  <2>5. Proven(u) /\ u.gui /\ Clocked(u)
    BY <2>4, <1>4 DEF Clocked, Proven, SameOrders
  <2> HIDE DEF u
  <2>6. HeardTo(t, u)
    BY <1>1, <2>2, <2>3, <2>4, <2>5 DEF HeardTo, SameC6
  <2>7. Hearing(s, u)
    BY <2>6, HearingSound
  <2> QED BY <2>1, <2>7
<1>5. CASE ~t.gui /\ Managed(t)
  <2> DEFINE waiting == [saved EXCEPT !.stack = "waiting"]
             u == StartMenuDhcp(saved, r)
  <2>1. Connected(t, r) = u
    BY <1>5 DEF Connected
  <2> HIDE DEF saved
  <2>2. /\ waiting \in Manager /\ SameC6(saved, waiting) /\ SameOrders(saved, waiting)
        /\ SameJobs(saved, waiting) /\ waiting.attempt = saved.attempt /\ waiting.cred = saved.cred
    <3>1. waiting \in Manager
      BY <1>3, Fields
    <3> QED BY <1>3, <3>1 DEF Manager, SameC6, SameOrders, SameJobs
  <2>3. /\ u \in Manager /\ SameC6(saved, u) /\ SameOrders(saved, u) /\ SameJobs(saved, u)
        /\ u.attempt = saved.attempt /\ u.cred = saved.cred
        /\ u.phase \in {"RequestingDhcp", "Failed"} /\ Clocked(u)
    <3>1. CASE r = "ok"
      <4>1. u = To(waiting, "RequestingDhcp")
        BY <3>1 DEF StartMenuDhcp
      <4> HIDE DEF waiting, u
      <4>2. /\ SameC6(waiting, u) /\ SameOrders(waiting, u) /\ SameJobs(waiting, u)
            /\ u.attempt = waiting.attempt /\ u.cred = waiting.cred /\ u.phase = "RequestingDhcp"
            /\ Clocked(u)
        BY <2>2, <4>1, ToShape, PhaseTyped
      <4> QED BY <2>2, <4>1, <4>2, ToTyped, PhaseTyped DEF SameC6, SameOrders, SameJobs
    <3>2. CASE r # "ok"
      <4>1. u = To(saved, "Failed")
        BY <3>2 DEF StartMenuDhcp
      <4> HIDE DEF u
      <4>2. /\ SameC6(saved, u) /\ SameOrders(saved, u) /\ SameJobs(saved, u)
            /\ u.attempt = saved.attempt /\ u.cred = saved.cred /\ u.phase = "Failed"
            /\ Clocked(u)
        BY <1>3, <4>1, ToShape, PhaseTyped
      <4> QED BY <1>3, <4>1, <4>2, ToTyped, PhaseTyped
    <3> QED BY <3>1, <3>2
  <2> HIDE DEF u
  <2>4. /\ SameOrders(t, u) /\ u.session = t.session /\ u.events = <<>> /\ u.cred = t.cred
        /\ u.attempt = t.attempt /\ u.followup = None /\ u.job = t.job /\ u.radio = t.radio
        /\ \/ u.cfg = t.cfg /\ u.nvs = t.nvs
           \/ t.cred # None /\ u.cfg = t.cred /\ u.nvs = t.cred
    BY <1>1, <1>3, <2>3 DEF SameC6, SameOrders, SameJobs
  <2>5. u.job # None => u.gui /\ u.job.kind = "Associated" /\ ~u.job.token
    BY <2>4 DEF Hearing, SameOrders
  <2>6. HeardTo(t, u)
    BY <2>3, <2>4, <2>5 DEF HeardTo
  <2>7. Hearing(s, u)
    BY <2>6, HearingSound
  <2> QED BY <2>1, <2>7
<1>6. CASE ~Managed(t)
  <2>1. Connected(t, r) = saved
    BY <1>6 DEF Connected
  <2> HIDE DEF saved
  <2>2. saved.job # None => saved.gui /\ saved.job.kind = "Associated" /\ ~saved.job.token
    BY <1>3 DEF Hearing, SameOrders, SameJobs
  <2>3. HeardTo(t, saved)
    BY <1>1, <1>3, <2>2 DEF HeardTo, SameJobs, Clocked
  <2>4. Hearing(s, saved)
    BY <2>3, HearingSound
  <2> QED BY <2>1, <2>4
<1> QED BY <1>4, <1>5, <1>6


\* An event that the station is disconnected, whatever its reason.
LEMMA DisconnectedHearing ==
  ASSUME NEW s \in Manager, NEW t, Hearing(s, t), t.session # "none", NEW verdict
  PROVE  Hearing(s, Disconnected(t, verdict))
<1> DEFINE dropped == [t EXCEPT !.since = FALSE, !.stack = "none"]
           u == Disconnected(t, verdict)
<1>1. t \in Manager /\ t.followup = None /\ t.events = <<>>
  BY DEF Hearing, Sound
<1>2. dropped \in Manager
  BY <1>1, Fields
<1>3. /\ SameC6(t, dropped) /\ SameOrders(t, dropped) /\ SameJobs(t, dropped)
      /\ dropped.attempt = t.attempt /\ dropped.cred = t.cred
  BY <1>1 DEF Manager, SameC6, SameOrders, SameJobs
<1>4. u = ApplyRetryDecision(dropped, verdict) \/ u = To(dropped, "Failed")
  BY DEF Disconnected
<1> HIDE DEF dropped, u
<1>5. /\ SameC6(dropped, u) /\ SameOrders(dropped, u) /\ SameJobs(dropped, u)
      /\ u.attempt = dropped.attempt /\ u.cred \in {None, dropped.cred}
      /\ u.phase = "NeedsPassword" => u.cred = None /\ ~u.savePending
      /\ u.phase = "RetryWaiting" => ~(dropped.startup /\ dropped.attempt >= StartupMaxAttempts)
      /\ u \in Manager /\ Clocked(u)
  <2>1. CASE u = ApplyRetryDecision(dropped, verdict)
    BY <2>1, <1>2, ApplyRetryDecisionShape, ApplyRetryDecisionTyped
  <2>2. CASE u = To(dropped, "Failed")
    <3>1. /\ SameC6(dropped, u) /\ SameOrders(dropped, u) /\ SameJobs(dropped, u)
          /\ u.attempt = dropped.attempt /\ u.cred = dropped.cred /\ u.phase = "Failed"
          /\ Clocked(u)
      BY <2>2, <1>2, ToShape, PhaseTyped
    <3> QED BY <2>2, <3>1, <1>2, ToTyped, PhaseTyped
  <2> QED BY <1>4, <2>1, <2>2
<1>6. /\ SameC6(t, u) /\ SameOrders(t, u) /\ SameJobs(t, u)
      /\ u.attempt = t.attempt /\ u.cred \in {None, t.cred}
      /\ u.phase = "RetryWaiting" => ~(t.startup /\ t.attempt >= StartupMaxAttempts)
  BY <1>3, <1>5 DEF SameC6, SameOrders, SameJobs
<1>7. u.job # None => u.gui /\ u.job.kind = "Associated" /\ ~u.job.token
  BY <1>6 DEF Hearing, SameOrders, SameJobs
<1>8. HeardTo(t, u)
  BY <1>1, <1>5, <1>6, <1>7 DEF HeardTo, SameC6, SameJobs, RetryIsActive
<1> QED BY <1>8, HearingSound DEF u

\* handle_event, for every event.
LEMMA HandleEventHearing ==
  ASSUME NEW s \in Manager, NEW t, Hearing(s, t), t.session # "none", NEW event, NEW r,
         event = "connected" => Proven(t)
  PROVE  Hearing(s, HandleEvent(t, event, r))
BY ConnectedHearing, DisconnectedHearing DEF HandleEvent

----------------------------------------------------------------------------
(* Induction.  Theorems about recursive functions need both: that there is *)
(* a function that satisfies its equation, and what holds at each place.   *)

\* A set of numbers that is not empty has a least one: the segment up to any
\* member is finite.
LEMMA LeastNumber ==
  ASSUME NEW T \in SUBSET Nat, T # {}
  PROVE  \E x \in T : \A y \in T : x <= y
<1> DEFINE D == {0 .. x : x \in T}
           R == StrictSubsetOrdering(Nat)
<1>1. D \subseteq FiniteSubsetsOf(Nat)
  <2>1. \A x \in T : IsFiniteSet(0 .. x) /\ 0 .. x \subseteq Nat
    BY FS_Interval
  <2> QED BY <2>1 DEF FiniteSubsetsOf
<1>2. PICK d \in D : \A e \in D : ~ (<<e, d>> \in R)
  <2> HIDE DEF R
  <2>1. D # {}
    OBVIOUS
  <2>2. IsWellFoundedOn(R, FiniteSubsetsOf(Nat))
    BY FS_StrictSubsetOrderingWellFounded DEF R
  <2> QED BY <1>1, <2>1, <2>2, WFMin
<1>3. PICK x \in T : d = 0 .. x
  BY <1>2
<1>4. ASSUME NEW y \in T, ~(x <= y) PROVE FALSE
  <2>1. 0 .. y \subseteq 0 .. x /\ x \in 0 .. x /\ x \notin 0 .. y
    BY <1>4
  <2>2. 0 .. y \in D
    OBVIOUS
  <2>3. <<0 .. y, d>> \in R
    BY <2>1, <1>3 DEF StrictSubsetOrdering
  <2> QED BY <2>2, <2>3, <1>2
<1> QED BY <1>4

\* Induction over the numbers, about a set, so that it takes no operator.
LEMMA Induction ==
  ASSUME NEW T \in SUBSET Nat, 0 \in T, \A n \in Nat : n \in T => n + 1 \in T
  PROVE  T = Nat
<1> SUFFICES ASSUME Nat \ T # {} PROVE FALSE
  OBVIOUS
<1>1. PICK x \in Nat \ T : \A y \in Nat \ T : x <= y
  BY LeastNumber
<1>2. x # 0 /\ x - 1 \in Nat
  BY <1>1
<1>3. x - 1 \in T
  BY <1>1, <1>2
<1> QED BY <1>1, <1>2, <1>3

\* The states between the events of a frame exist, each from the one before.
After(after, n, s, events, r) ==
  after = [k \in 0 .. n |-> IF k = 0 THEN s ELSE HandleEvent(after[k - 1], events[k], r)]

\* What a frame has heard after n events exists, by induction over n.
LEMMA AfterExists ==
  ASSUME NEW s, NEW events, NEW r
  PROVE  \A n \in Nat : \E after : After(after, n, s, events, r)
<1> DEFINE T == {n \in Nat : \E after : After(after, n, s, events, r)}
<1>1. 0 \in T
  <2>1. After([k \in 0 .. 0 |-> s], 0, s, events, r)
    BY DEF After
  <2> QED BY <2>1
<1>2. ASSUME NEW n \in Nat, n \in T PROVE n + 1 \in T
  <2>1. PICK f : After(f, n, s, events, r)
    BY <1>2
  <2> DEFINE g == [k \in 0 .. n + 1 |-> IF k = n + 1 THEN HandleEvent(f[n], events[n + 1], r) ELSE f[k]]
  <2>2. \A k \in 0 .. n + 1 : g[k] = IF k = 0 THEN s ELSE HandleEvent(g[k - 1], events[k], r)
    <3> SUFFICES ASSUME NEW k \in 0 .. n + 1
                 PROVE  g[k] = IF k = 0 THEN s ELSE HandleEvent(g[k - 1], events[k], r)
      OBVIOUS
    <3>1. CASE k = n + 1
      <4>1. g[k] = HandleEvent(f[n], events[n + 1], r) /\ g[k - 1] = f[n]
        BY <3>1
      <4> QED BY <3>1, <4>1
    <3>2. CASE k # n + 1
      <4>1. k \in 0 .. n /\ g[k] = f[k]
        BY <3>2
      <4>2. k # 0 => g[k - 1] = f[k - 1]
        BY <4>1
      <4>3. f[k] = IF k = 0 THEN s ELSE HandleEvent(f[k - 1], events[k], r)
        BY <2>1, <4>1 DEF After
      <4> QED BY <4>1, <4>2, <4>3
    <3> QED BY <3>1, <3>2
  <2>3. After(g, n + 1, s, events, r)
    <3>1. g = [k \in 0 .. n + 1 |-> g[k]]
      OBVIOUS
    <3> HIDE DEF g
    <3> QED BY <3>1, <2>2 DEF After
  <2> QED BY <2>3
<1> HIDE DEF T
<1>3. T = Nat
  BY <1>1, <1>2, Induction DEF T
<1> QED BY <1>3 DEF T

\* Hearing a queue of events to its end, by induction over the queue.
LEMMA HeardHearing ==
  ASSUME NEW s \in Manager, NEW t, Hearing(s, t), NEW events \in Seq(Events), NEW r,
         events # <<>> => t.session # "none",
         (\E i \in DOMAIN events : events[i] = "connected") => Proven(s)
  PROVE  Hearing(s, Heard(t, events, r))
<1> DEFINE n == Len(events)
           after == CHOOSE f : After(f, n, t, events, r)
<1>1. n \in Nat /\ DOMAIN events = 1 .. n
  OBVIOUS
<1>2. Heard(t, events, r) = after[n]
  BY DEF Heard, After
<1> HIDE DEF n
<1>3. After(after, n, t, events, r)
  BY <1>1, AfterExists
<1> HIDE DEF after
<1> DEFINE T == {k \in Nat : k <= n => Hearing(s, after[k])}
<1>4. 0 \in T
  <2>1. after[0] = t
    BY <1>1, <1>3 DEF After
  <2> QED BY <2>1
<1>5. ASSUME NEW k \in Nat, k \in T PROVE k + 1 \in T
  <2> SUFFICES ASSUME k + 1 <= n PROVE Hearing(s, after[k + 1])
    OBVIOUS
  <2>1. Hearing(s, after[k])
    BY <1>1, <1>5
  <2>2. after[k + 1] = HandleEvent(after[k], events[k + 1], r)
    <3>1. k + 1 \in 0 .. n /\ k + 1 # 0 /\ (k + 1) - 1 = k
      BY <1>1
    <3> QED BY <1>3, <3>1 DEF After
  <2>3. after[k].session # "none"
    <3>1. events # <<>>
      BY <1>1 DEF n
    <3> QED BY <2>1, <3>1 DEF Hearing
  <2>4. events[k + 1] = "connected" => Proven(after[k])
    <3>1. k + 1 \in DOMAIN events
      BY <1>1
    <3> QED BY <2>1, <3>1 DEF Hearing, Proven
  <2> QED BY <2>1, <2>2, <2>3, <2>4, HandleEventHearing
<1> HIDE DEF T
<1>6. T = Nat
  BY <1>4, <1>5, Induction DEF T
<1> QED BY <1>1, <1>2, <1>6 DEF T

----------------------------------------------------------------------------
(* What the C6 is told and what it tells.                                  *)

\* A queue with one more event.
LEMMA Appended ==
  ASSUME NEW q \in Seq(Events), NEW event \in Events
  PROVE  /\ Append(q, event) \in Seq(Events) /\ Len(Append(q, event)) = Len(q) + 1
         /\ Append(q, event)[Len(q) + 1] = event
         /\ \A i \in 1 .. Len(q) : Append(q, event)[i] = q[i]
OBVIOUS

\* An event arrives: it is queued, or lost where the queue is full.
LEMMA NotifyShape ==
  ASSUME NEW s \in Manager, NEW event \in Events, Len(s.events) <= MaxEvents,
         NEW t, t = Notify(s, event)
  PROVE  /\ t \in Manager /\ Len(t.events) <= MaxEvents
         /\ Heard1(t, "connected") => event = "connected" \/ Heard1(s, "connected")
         /\ s.events = <<>> => t.events = <<event>>
         /\ SameOrders(s, t) /\ SameJobs(s, t)
         /\ t.session = s.session /\ t.storage = s.storage /\ t.cfg = s.cfg /\ t.radio = s.radio
         /\ t.nvs = s.nvs /\ t.mode = s.mode /\ t.power = s.power
         /\ t.stack = s.stack /\ t.source = s.source /\ t.attempt = s.attempt /\ t.cred = s.cred
         /\ t.phase = s.phase /\ t.armed = s.armed /\ t.savePending = s.savePending
<1> DEFINE q == s.events
           new == IF Len(q) = MaxEvents THEN Append(Tail(q), event) ELSE Append(q, event)
<1>1. q \in Seq(Events) /\ MaxEvents \in Nat \ {0} /\ Len(q) \in Nat
  BY ConstantsAssumption DEF Manager
<1>2. t = [s EXCEPT !.events = new]
  BY DEF Notify
<1> HIDE DEF q
<1>3. /\ new \in Seq(Events) /\ Len(new) <= MaxEvents
      /\ \A i \in DOMAIN new : new[i] = event \/ \E j \in DOMAIN q : new[i] = q[j]
      /\ q = <<>> => new = <<event>>
  <2>1. CASE Len(q) = MaxEvents
    <3> DEFINE rest == Tail(q)
    <3>1. new = Append(rest, event) /\ q # <<>>
      BY <1>1, <2>1
    <3>2. /\ rest \in Seq(Events) /\ Len(rest) \in Nat /\ Len(q) = Len(rest) + 1
          /\ \A i \in 1 .. Len(rest) : rest[i] = q[i + 1]
      BY <1>1, <3>1
    <3> HIDE DEF rest
    <3>3. /\ new \in Seq(Events) /\ Len(new) = Len(q)
          /\ new[Len(q)] = event /\ \A i \in 1 .. Len(rest) : new[i] = rest[i]
      <4>1. /\ Append(rest, event) \in Seq(Events) /\ Len(Append(rest, event)) = Len(rest) + 1
            /\ Append(rest, event)[Len(rest) + 1] = event
            /\ \A i \in 1 .. Len(rest) : Append(rest, event)[i] = rest[i]
        BY <3>2, Appended
      <4> QED BY <3>1, <3>2, <4>1
    <3> HIDE DEF new
    <3>4. ASSUME NEW i \in DOMAIN new PROVE new[i] = event \/ \E j \in DOMAIN q : new[i] = q[j]
      <4>1. DOMAIN new = 1 .. Len(q) /\ DOMAIN q = 1 .. Len(q)
        BY <1>1, <3>3
      <4>2. CASE i = Len(q)
        BY <3>3, <4>2
      <4>3. CASE i # Len(q)
        <5>1. i \in 1 .. Len(rest) /\ i + 1 \in 1 .. Len(q)
          BY <3>2, <4>1, <4>3
        <5> QED BY <3>2, <3>3, <4>1, <5>1
      <4> QED BY <4>2, <4>3
    <3> QED BY <1>1, <2>1, <3>1, <3>3, <3>4
  <2>2. CASE Len(q) # MaxEvents
    <3>1. new = Append(q, event)
      BY <2>2
    <3>2. /\ new \in Seq(Events) /\ Len(new) = Len(q) + 1
          /\ new[Len(q) + 1] = event /\ \A i \in 1 .. Len(q) : new[i] = q[i]
      BY <1>1, <3>1
    <3>3. ASSUME NEW i \in DOMAIN new PROVE new[i] = event \/ \E j \in DOMAIN q : new[i] = q[j]
      <4>1. i \in 1 .. Len(q) + 1 /\ DOMAIN q = 1 .. Len(q)
        BY <1>1, <3>2
      <4>2. CASE i = Len(q) + 1
        BY <3>2, <4>2
      <4>3. CASE i # Len(q) + 1
        <5> DEFINE n == Len(q)
        <5>1. n \in Nat /\ i \in 1 .. n + 1 /\ i # n + 1
          BY <1>1, <4>1, <4>3
        <5> HIDE DEF n
        <5>2. i \in 1 .. n
          BY <5>1
        <5>3. i \in 1 .. Len(q)
          BY <5>2 DEF n
        <5> QED BY <3>2, <4>1, <5>3
      <4> QED BY <4>2, <4>3
    <3>4. q = <<>> => new = <<event>>
      BY <3>1
    <3>5. Len(q) + 1 <= MaxEvents
      BY <1>1, <2>2 DEF q
    <3> HIDE DEF new
    <3> QED BY <3>2, <3>3, <3>4, <3>5
  <2> QED BY <2>1, <2>2
<1> HIDE DEF new
<1>4. t \in Manager
  <2>1. new \in Seq(Events)
    BY <1>3
  <2>2. [s EXCEPT !.events = new] \in Manager
    BY <2>1, Fields
  <2> QED BY <1>2, <2>2
<1>5. t.events = new
  BY <1>2, <1>4 DEF Manager
<1>6. Heard1(t, "connected") => event = "connected" \/ Heard1(s, "connected")
  BY <1>3, <1>5 DEF Heard1, q
<1> QED BY <1>2, <1>3, <1>4, <1>5, <1>6 DEF Manager, SameOrders, SameJobs, q

\* The C6's own second attempt: nothing heard before it is a success.
LEMMA RejoinShape ==
  ASSUME NEW s \in Manager, Len(s.events) <= MaxEvents, NEW t, t = Rejoin(s)
  PROVE  /\ t \in Manager /\ Len(t.events) <= MaxEvents /\ t.radio = "joining"
         /\ Heard1(t, "connected") => Heard1(s, "connected")
         /\ SameOrders(s, t) /\ SameJobs(s, t)
         /\ t.session = s.session /\ t.storage = s.storage /\ t.cfg = s.cfg
         /\ t.nvs = s.nvs /\ t.mode = s.mode /\ t.power = s.power
         /\ t.stack = s.stack /\ t.source = s.source /\ t.attempt = s.attempt /\ t.cred = s.cred
         /\ t.phase = s.phase /\ t.armed = s.armed /\ t.savePending = s.savePending
<1> DEFINE told == IF s.radio = "idle" THEN s ELSE Notify(s, "dropped")
<1>1. "dropped" \in Events
  BY DEF Events
<1>2. /\ told \in Manager /\ Len(told.events) <= MaxEvents
      /\ Heard1(told, "connected") => Heard1(s, "connected")
      /\ SameOrders(s, told) /\ SameJobs(s, told)
      /\ told.session = s.session /\ told.storage = s.storage /\ told.cfg = s.cfg
      /\ told.nvs = s.nvs /\ told.mode = s.mode /\ told.power = s.power
      /\ told.stack = s.stack /\ told.source = s.source /\ told.attempt = s.attempt
      /\ told.cred = s.cred /\ told.phase = s.phase /\ told.armed = s.armed
      /\ told.savePending = s.savePending
  <2>1. CASE s.radio = "idle"
    BY <2>1 DEF SameOrders, SameJobs
  <2>2. CASE s.radio # "idle"
    <3>1. told = Notify(s, "dropped")
      BY <2>2
    <3> HIDE DEF told
    <3> QED BY <1>1, <3>1, NotifyShape
  <2> QED BY <2>1, <2>2
<1>3. t = [told EXCEPT !.radio = "joining"]
  BY DEF Rejoin
<1> HIDE DEF told
<1>4. t \in Manager /\ t.radio = "joining" /\ t.events = told.events
  <2>1. told \in Manager
    BY <1>2
  <2>2. t \in Manager
    BY <2>1, <1>3, Fields
  <2> QED BY <2>1, <2>2, <1>3 DEF Manager
<1>5. Heard1(t, "connected") => Heard1(s, "connected")
  BY <1>2, <1>4 DEF Heard1
<1>6. /\ SameOrders(told, t) /\ SameJobs(told, t)
      /\ t.session = told.session /\ t.storage = told.storage /\ t.cfg = told.cfg
      /\ t.nvs = told.nvs /\ t.mode = told.mode /\ t.power = told.power
      /\ t.stack = told.stack /\ t.source = told.source /\ t.attempt = told.attempt
      /\ t.cred = told.cred /\ t.phase = told.phase /\ t.armed = told.armed
      /\ t.savePending = told.savePending
  BY <1>2, <1>3 DEF Manager, SameOrders, SameJobs
<1> QED BY <1>2, <1>4, <1>5, <1>6 DEF SameOrders, SameJobs

----------------------------------------------------------------------------
(* Without a job: what the synchronous calls need, whatever the phase.     *)

Free(s) ==
  /\ s \in Manager /\ s.job = None /\ s.followup = None
  /\ Timed(s) /\ StackHasLink(s) /\ FlashIsProven(s) /\ JoinsWhatItKeeps(s)
  /\ s.startup => ~s.gui /\ s.attempt <= StartupMaxAttempts
  /\ s.enabled \/ (s.radio = "idle" /\ s.cred = None)
Rested(s) ==
  /\ s.phase = "NeedsPassword" => ~RetryIsActive(s) /\ ~s.savePending
  /\ s.startup /\ s.phase = "RetryWaiting" => s.attempt < StartupMaxAttempts
\* What the manager keeps of its own while it talks to the C6.
SameWishes(s, t) ==
  /\ SameOrders(s, t) /\ SameJobs(s, t)
  /\ t.stack = s.stack /\ t.source = s.source /\ t.attempt = s.attempt /\ t.cred = s.cred
  /\ t.phase = s.phase /\ t.armed = s.armed /\ t.savePending = s.savePending

\* A manager without jobs that is at rest is sound,
LEMMA FreeSound ==
  ASSUME NEW s, Free(s), Rested(s)
  PROVE  Sound(s)
BY DEF Free, Rested, Sound, JobsInOrder, Quiet, PasswordDropped, AttemptsEnd, SavesWhatWorks,
   TriedInRam, NothingToJoin, SavedIsProven, Has, AtStage, Busy

\* and the converse.
LEMMA SoundFree ==
  ASSUME NEW s, Sound(s), s.job = None, s.followup = None
  PROVE  Free(s) /\ Rested(s)
BY DEF Free, Rested, Sound, JobsInOrder, Quiet, PasswordDropped, AttemptsEnd, SavesWhatWorks, Has,
   AtStage, Busy

\* Entering a state without a job.
LEMMA FreeTo ==
  ASSUME NEW s, Free(s), NEW p \in Phases \ {"NeedsPassword"}, NEW t, t = To(s, p)
  PROVE  Free(t) /\ (p # "RetryWaiting" => Rested(t)) /\ SameOrders(s, t) /\ t.session = s.session
<1>1. s \in Manager
  BY DEF Free
<1>2. /\ SameC6(s, t) /\ SameOrders(s, t) /\ SameJobs(s, t) /\ Clocked(t) /\ t.phase = p
      /\ t.stack = s.stack /\ t.attempt = s.attempt /\ t.cred = s.cred /\ t \in Manager
  BY <1>1, ToShape, ToTyped
<1> QED BY <1>1, <1>2 DEF Free, Rested, Timed, StackHasLink, FlashIsProven, JoinsWhatItKeeps, Has,
           Hears, Joining, Heard1, Proven, SameC6, SameOrders, SameJobs

\* apply_retry_decision without a job.
LEMMA FreeRetry ==
  ASSUME NEW s, Free(s), NEW verdict, NEW t, t = ApplyRetryDecision(s, verdict)
  PROVE  Free(t) /\ Rested(t) /\ SameOrders(s, t) /\ t.session = s.session
<1>1. s \in Manager
  BY DEF Free
<1>2. /\ SameC6(s, t) /\ SameOrders(s, t) /\ SameJobs(s, t) /\ Clocked(t)
      /\ t.stack = s.stack /\ t.attempt = s.attempt /\ t.cred \in {None, s.cred} /\ t \in Manager
      /\ t.phase = "NeedsPassword" => t.cred = None /\ ~t.savePending
      /\ t.phase = "RetryWaiting" => ~(s.startup /\ s.attempt >= StartupMaxAttempts)
  BY <1>1, ApplyRetryDecisionShape
<1>3. t.startup /\ t.phase = "RetryWaiting" => t.attempt < StartupMaxAttempts
  BY <1>1, <1>2 DEF Manager, StartupMaxAttempts, SameOrders
<1>4. Rested(t)
  BY <1>2, <1>3 DEF Rested, RetryIsActive
<1> QED BY <1>1, <1>2, <1>4 DEF Free, Timed, StackHasLink, FlashIsProven, JoinsWhatItKeeps, Has,
           Hears, Joining, Heard1, Proven, SameC6, SameOrders, SameJobs

\* The C6 after a reset starts from its flash.
LEMMA ResetShape ==
  ASSUME NEW s \in Manager, NEW t, t = Reset(s)
  PROVE  /\ t \in Manager /\ SameWishes(s, t) /\ t.session = s.session /\ t.radio = "idle"
         /\ t.events = <<>> /\ t.nvs = s.nvs /\ t.cfg = s.nvs /\ t.storage = "flash"
         /\ t.mode = s.mode
<1>1. t \in Manager
  BY SimpleTyped
<1> QED BY <1>1 DEF Reset, Manager, SameWishes, SameOrders, SameJobs

\* set_mode touches neither profile.
LEMMA SetModeShape ==
  ASSUME NEW s \in Manager, NEW mode \in {"sta", "null"}, NEW t, t = SetMode(s, mode)
  PROVE  /\ t \in Manager /\ SameWishes(s, t) /\ t.session = s.session /\ t.radio = s.radio
         /\ t.events = s.events /\ t.nvs = s.nvs /\ t.cfg = s.cfg /\ t.storage = s.storage
<1>1. (IF s.storage = "flash" THEN mode ELSE s.mode) \in {"sta", "null"}
  BY DEF Manager
<1>2. t \in Manager
  BY <1>1, Fields DEF SetMode
<1> QED BY <1>2 DEF SetMode, Manager, SameWishes, SameOrders, SameJobs

\* A session that has just begun joins nothing and has heard nothing.
LEMMA FreshIsFree ==
  ASSUME NEW s, Free(s), NEW t \in Manager, SameWishes(s, t), t.nvs = s.nvs, t.radio = "idle",
         t.events = <<>>, t.stack # "none" => t.session # "none"
  PROVE  Free(t)
<1>1. ~Heard1(t, "connected") /\ ~Joining(t)
  BY DEF Heard1, Joining
<1>2. Timed(t)
  BY ConstantsAssumption DEF Free, Timed, Clocked, SameWishes
<1> QED BY <1>1, <1>2 DEF Free, StackHasLink, FlashIsProven, JoinsWhatItKeeps, SameWishes, SameOrders,
           SameJobs

\* Opening the link, or failing to.
LEMMA OpenFree ==
  ASSUME NEW s, Free(s), s.session = "none", NEW link, NEW t, t = Open(s, link)
  PROVE  /\ Free(t) /\ SameOrders(s, t) /\ t.cred = s.cred
         /\ IF link = "up" THEN SameWishes(s, t) /\ t.session = "started"
                           ELSE t.session = "none" /\ t.phase = "Failed"
<1>1. s \in Manager /\ s.stack = "none"
  BY DEF Free, StackHasLink
<1> DEFINE reset == Reset(s)
<1>2. /\ reset \in Manager /\ SameWishes(s, reset) /\ reset.session = s.session
      /\ reset.radio = "idle" /\ reset.events = <<>> /\ reset.nvs = s.nvs
  BY <1>1, ResetShape
<1> HIDE DEF reset
<1>3. ASSUME NEW x \in {"none", "started"}, NEW n, n = [reset EXCEPT !.session = x]
      PROVE  /\ n \in Manager /\ SameWishes(s, n) /\ n.session = x
             /\ n.radio = "idle" /\ n.events = <<>> /\ n.nvs = s.nvs
  <2>1. n \in Manager
    BY <1>2, <1>3, Fields
  <2> QED BY <1>2, <1>3, <2>1 DEF Manager, SameWishes, SameOrders, SameJobs
<1>4. CASE link = "up"
  <2> DEFINE n == [reset EXCEPT !.session = "started"]
  <2>1. /\ n \in Manager /\ SameWishes(s, n) /\ n.session = "started"
        /\ n.radio = "idle" /\ n.events = <<>> /\ n.nvs = s.nvs
    BY <1>3
  <2>2. t = SetMode(n, "sta")
    BY <1>4 DEF Open, reset
  <2> HIDE DEF n
  <2>3. /\ t \in Manager /\ SameWishes(n, t) /\ t.session = n.session /\ t.radio = n.radio
        /\ t.events = n.events /\ t.nvs = n.nvs
    BY <2>1, <2>2, SetModeShape
  <2>4. SameWishes(s, t)
    BY <2>1, <2>3 DEF SameWishes, SameOrders, SameJobs
  <2> QED BY <1>1, <1>4, <2>1, <2>3, <2>4, FreshIsFree DEF SameWishes
<1>5. CASE link # "up"
  <2> DEFINE n == [reset EXCEPT !.session = "none"]
  <2>1. /\ n \in Manager /\ SameWishes(s, n) /\ n.session = "none"
        /\ n.radio = "idle" /\ n.events = <<>> /\ n.nvs = s.nvs
    BY <1>3
  <2>2. t = To(n, "Failed")
    BY <1>5 DEF Open, reset
  <2> HIDE DEF n
  <2>3. Free(n)
    BY <1>1, <2>1, FreshIsFree DEF SameWishes
  <2>4. Free(t) /\ SameOrders(n, t) /\ t.session = n.session
    BY <2>2, <2>3, FreeTo, PhaseTyped
  <2>5. t.phase = "Failed" /\ t.cred = n.cred
    BY <2>1, <2>2, ToShape, PhaseTyped
  <2> QED BY <1>5, <2>1, <2>4, <2>5 DEF SameWishes, SameOrders
<1> QED BY <1>4, <1>5

\* ensure_station leaves a session that is alive, or none.
LEMMA EnsureStationFree ==
  ASSUME NEW s, Free(s), NEW link, NEW t, t = EnsureStation(s, link)
  PROVE  /\ Free(t) /\ SameOrders(s, t) /\ t.cred = s.cred /\ t.session # "dead"
         /\ t = s \/ t.phase \notin {"NeedsPassword", "RetryWaiting"}
<1> DEFINE gone == [DropSession(s) EXCEPT !.stack = "none"]
           live == IF s.session = "dead" THEN To(gone, "Failed") ELSE s
<1>1. s \in Manager
  BY DEF Free
<1>2. /\ Free(live) /\ SameOrders(s, live) /\ live.cred = s.cred /\ live.session # "dead"
      /\ live = s \/ live.phase = "Failed"
  <2>1. CASE s.session = "dead"
    <3>1. gone \in Manager
      BY <1>1, SimpleTyped, Fields
    <3>2. /\ SameOrders(s, gone) /\ SameJobs(s, gone) /\ gone.stack = "none"
          /\ gone.session = "none" /\ gone.events = <<>> /\ gone.radio = s.radio
          /\ gone.cred = s.cred /\ gone.nvs = s.nvs /\ gone.attempt = s.attempt
          /\ gone.armed = s.armed /\ gone.phase = s.phase
      BY <1>1 DEF DropSession, Manager, SameOrders, SameJobs
    <3> HIDE DEF gone
    <3>3. Free(gone)
      <4>1. Timed(gone)
        BY <3>2, ConstantsAssumption DEF Free, Timed, Clocked
      <4> QED BY <3>1, <3>2, <4>1 DEF Free, StackHasLink, FlashIsProven, JoinsWhatItKeeps, Hears,
                 SameOrders, SameJobs
    <3>4. live = To(gone, "Failed")
      BY <2>1
    <3> HIDE DEF live
    <3>5. Free(live) /\ SameOrders(gone, live) /\ live.session = gone.session
      BY <3>3, <3>4, FreeTo, PhaseTyped
    <3>6. live.phase = "Failed" /\ live.cred = gone.cred
      BY <3>1, <3>4, ToShape, PhaseTyped
    <3> QED BY <3>2, <3>5, <3>6 DEF SameOrders
  <2>2. CASE s.session # "dead"
    BY <2>2 DEF SameOrders
  <2> QED BY <2>1, <2>2
<1>3. t = IF live.session # "none" THEN live
          ELSE IF link = "up" THEN To(Open(live, link), "Idle") ELSE Open(live, link)
  BY DEF EnsureStation
<1> HIDE DEF live
<1>4. CASE live.session # "none"
  BY <1>2, <1>3, <1>4
<1>5. CASE live.session = "none"
  <2> DEFINE open == Open(live, link)
  <2>1. /\ Free(open) /\ SameOrders(live, open) /\ open.cred = live.cred
        /\ open.session # "dead"
        /\ link # "up" => open.phase = "Failed"
    BY <1>2, <1>5, OpenFree
  <2>2. t = IF link = "up" THEN To(open, "Idle") ELSE open
    BY <1>3, <1>5
  <2> HIDE DEF open
  <2>3. CASE link = "up"
    <3>1. Free(t) /\ SameOrders(open, t) /\ t.session = open.session
      BY <2>1, <2>2, <2>3, FreeTo, PhaseTyped
    <3>2. t.phase = "Idle" /\ t.cred = open.cred
      <4>1. open \in Manager
        BY <2>1 DEF Free
      <4> QED BY <4>1, <2>2, <2>3, ToShape, PhaseTyped
    <3> QED BY <1>2, <2>1, <3>1, <3>2 DEF SameOrders
  <2>4. CASE link # "up"
    BY <1>2, <2>1, <2>2, <2>4 DEF SameOrders
  <2> QED BY <2>3, <2>4
<1> QED BY <1>4, <1>5

\* A request to join, with the credentials the manager keeps.
LEMMA AskToJoinFree ==
  ASSUME NEW s, Free(s), s.enabled, NEW config \in Networks, s.cred \in {None, config}, NEW r,
         NEW t, t = AskToJoin(s, config, r)
  PROVE  /\ Free(t) /\ SameWishes(s, t) /\ t.session = s.session
         /\ t = s \/ t.cfg = config
<1>1. CASE ~Done(r)
  BY <1>1 DEF AskToJoin, SameWishes, SameOrders, SameJobs
<1>2. CASE Done(r)
  <2> DEFINE still == [s EXCEPT !.events = <<>>, !.storage = "ram"]
             ready == Configure(still, config)
  <2>1. s \in Manager /\ config \in Configs
    BY DEF Free, Configs
  <2>2. /\ still \in Manager /\ SameWishes(s, still) /\ still.session = s.session
        /\ still.events = <<>> /\ still.storage = "ram" /\ still.nvs = s.nvs
    <3>1. still \in Manager
      BY <2>1, NoEventTyped, Fields
    <3> QED BY <2>1, <3>1 DEF Manager, SameWishes, SameOrders, SameJobs
  <2>3. t = Rejoin(ready)
    BY <1>2 DEF AskToJoin
  <2> HIDE DEF still
  <2>4. /\ ready \in Manager /\ SameWishes(still, ready) /\ ready.session = still.session
        /\ ready.events = still.events /\ ready.cfg = config /\ ready.nvs = still.nvs
    BY <2>1, <2>2, ConfigureShape DEF SameWishes
  <2> HIDE DEF ready
  <2>5. Len(ready.events) <= MaxEvents
    BY <2>2, <2>4, ConstantsAssumption
  <2>6. /\ t \in Manager /\ Len(t.events) <= MaxEvents
        /\ Heard1(t, "connected") => Heard1(ready, "connected")
        /\ SameWishes(ready, t) /\ t.session = ready.session /\ t.cfg = ready.cfg
        /\ t.nvs = ready.nvs
    BY <2>3, <2>4, <2>5, RejoinShape DEF SameWishes
  <2>7. ~Heard1(t, "connected")
    BY <2>2, <2>4, <2>6 DEF Heard1
  <2>8. /\ SameWishes(s, t) /\ t.session = s.session /\ t.cfg = config /\ t.nvs = s.nvs
    BY <2>2, <2>4, <2>6 DEF SameWishes, SameOrders, SameJobs
  <2>9. Free(t)
    BY <2>6, <2>7, <2>8 DEF Free, Timed, Clocked, StackHasLink, FlashIsProven, JoinsWhatItKeeps,
       SameWishes, SameOrders, SameJobs
  <2> QED BY <2>8, <2>9
<1> QED BY <1>1, <1>2

\* send_pending_connect at the end of a wait.
LEMMA SendPendingConnectFree ==
  ASSUME NEW s, Free(s), s.enabled, NEW link, NEW answer,
         NEW t, t = SendPendingConnect(s, link, answer)
  PROVE  Free(t) /\ Rested(t) /\ SameOrders(s, t)
<1> DEFINE new == NewGeneration(s)
           station == EnsureStation(new, link)
           r == C6Says(station, answer)
           deaf == [station EXCEPT !.events = <<>>]
           asked == AskToJoin(deaf, s.cred, r)
<1>1. s \in Manager
  BY DEF Free
<1>2. Free(new) /\ SameOrders(s, new) /\ new.cred = s.cred
  <2>1. new \in Manager
    BY <1>1, SimpleTyped
  <2>2. /\ SameC6(s, new) /\ SameOrders(s, new) /\ SameJobs(s, new) /\ new.cred = s.cred
        /\ new.stack = s.stack /\ new.attempt = s.attempt /\ ~new.armed
    BY <1>1 DEF NewGeneration, Manager, SameC6, SameOrders, SameJobs
  <2> HIDE DEF new
  <2> QED BY <2>1, <2>2 DEF Free, Timed, Clocked, StackHasLink, FlashIsProven, JoinsWhatItKeeps, Has,
             Hears, Joining, Heard1, Proven, SameC6, SameOrders, SameJobs
<1> HIDE DEF new
<1>3. Free(station) /\ SameOrders(s, station) /\ station.cred = s.cred
  <2>1. /\ Free(station) /\ SameOrders(new, station) /\ station.cred = new.cred
    BY <1>2, EnsureStationFree
  <2> HIDE DEF station
  <2> QED BY <1>2, <2>1 DEF SameOrders
<1> HIDE DEF station
<1>4. /\ Free(deaf) /\ SameOrders(s, deaf) /\ deaf.cred = s.cred
  <2>1. station \in Manager
    BY <1>3 DEF Free
  <2>2. deaf \in Manager
    BY <2>1, NoEventTyped, Fields
  <2>3. /\ SameWishes(station, deaf) /\ deaf.session = station.session
        /\ deaf.radio = station.radio /\ deaf.nvs = station.nvs /\ deaf.cfg = station.cfg
        /\ deaf.events = <<>>
    BY <2>1 DEF Manager, SameWishes, SameOrders, SameJobs
  <2> HIDE DEF deaf
  <2>4. ~Heard1(deaf, "connected") /\ Len(deaf.events) <= MaxEvents
    BY <2>3, ConstantsAssumption DEF Heard1
  <2>5. Free(deaf)
    BY <1>3, <2>2, <2>3, <2>4 DEF Free, Timed, Clocked, StackHasLink, FlashIsProven, JoinsWhatItKeeps,
       Has, Hears, Joining, SameWishes, SameOrders, SameJobs
  <2> QED BY <1>3, <2>3, <2>5 DEF SameWishes, SameOrders
<1> HIDE DEF deaf, r
<1>5. CASE s.cred = None
  <2>1. t = To(s, "Failed")
    BY <1>5 DEF SendPendingConnect
  <2> QED BY <2>1, FreeTo, PhaseTyped
<1>6. CASE s.cred # None
  <2>1. s.cred \in Networks
    BY <1>1, <1>6 DEF Manager
  <2>2. deaf.enabled
    BY <1>4 DEF SameOrders
  <2>3. Free(asked) /\ SameWishes(deaf, asked)
    BY <1>4, <2>1, <2>2, AskToJoinFree
  <2>4. SameOrders(s, asked)
    BY <1>4, <2>3 DEF SameWishes, SameOrders
  <2>5. \/ \E v : t = ApplyRetryDecision(station, v)
        \/ t = To(asked, "Associating")
        \/ \E v : t = ApplyRetryDecision(asked, v)
    BY <1>6 DEF SendPendingConnect, asked, deaf, r, station, new
  <2> HIDE DEF asked
  <2>6. CASE \E v : t = ApplyRetryDecision(station, v)
    <3>1. PICK v : t = ApplyRetryDecision(station, v)
      BY <2>6
    <3>2. Free(t) /\ Rested(t) /\ SameOrders(station, t)
      BY <1>3, <3>1, FreeRetry
    <3> QED BY <1>3, <3>2 DEF SameOrders
  <2>7. CASE t = To(asked, "Associating")
    <3>1. Free(t) /\ Rested(t) /\ SameOrders(asked, t)
      BY <2>3, <2>7, FreeTo, PhaseTyped
    <3> QED BY <2>4, <3>1 DEF SameOrders
  <2>8. CASE \E v : t = ApplyRetryDecision(asked, v)
    <3>1. PICK v : t = ApplyRetryDecision(asked, v)
      BY <2>8
    <3>2. Free(t) /\ Rested(t) /\ SameOrders(asked, t)
      BY <2>3, <3>1, FreeRetry
    <3> QED BY <2>4, <3>2 DEF SameOrders
  <2> QED BY <2>5, <2>6, <2>7, <2>8
<1> QED BY <1>5, <1>6

----------------------------------------------------------------------------
(* A frame without a job of the panel.                                     *)

\* The service of s leads to t.
Serviced(s, t) ==
  /\ Sound(t) /\ SameOrders(s, t) /\ t.followup = None
  /\ t.job # None => t.gui /\ t.enabled /\ t.job.kind \in {"Retry", "Associated"} /\ ~t.job.token
  /\ t.job # None /\ t.job.kind = "Retry" => t.job.stage \in {0, 10}
  /\ s.gui => t.radio = s.radio /\ t.session \in {s.session, "none"} /\ t.cred \in {None, s.cred}

\* Hearing events is part of a frame.
LEMMA HearingServiced ==
  ASSUME NEW s, NEW t, Hearing(s, t)
  PROVE  Serviced(s, t)
BY DEF Hearing, Serviced

\* Entering a state after an event.
LEMMA ToHearing ==
  ASSUME NEW s \in Manager, NEW t, Hearing(s, t), NEW p \in Phases \ {"NeedsPassword", "RetryWaiting"}
  PROVE  Hearing(s, To(t, p))
<1> DEFINE u == To(t, p)
<1>1. t \in Manager /\ t.followup = None /\ t.events = <<>>
  BY DEF Hearing, Sound
<1>2. /\ SameC6(t, u) /\ SameOrders(t, u) /\ SameJobs(t, u) /\ u.attempt = t.attempt
      /\ u.cred = t.cred /\ u.phase = p /\ u.stack = t.stack /\ Clocked(u) /\ u \in Manager
  BY <1>1, ToShape, ToTyped
<1> HIDE DEF u
<1>3. u.job # None => u.gui /\ u.job.kind = "Associated" /\ ~u.job.token
  BY <1>2 DEF Hearing, SameOrders, SameJobs
<1>4. HeardTo(t, u)
  BY <1>1, <1>2, <1>3 DEF HeardTo, SameC6, SameJobs
<1> QED BY <1>4, HearingSound DEF u

\* apply_retry_decision after an event.
LEMMA RetryHearing ==
  ASSUME NEW s \in Manager, NEW t, Hearing(s, t), NEW verdict
  PROVE  Hearing(s, ApplyRetryDecision(t, verdict))
<1> DEFINE u == ApplyRetryDecision(t, verdict)
<1>1. t \in Manager /\ t.followup = None /\ t.events = <<>>
  BY DEF Hearing, Sound
<1>2. /\ SameC6(t, u) /\ SameOrders(t, u) /\ SameJobs(t, u) /\ u.attempt = t.attempt
      /\ u.cred \in {None, t.cred} /\ u.stack = t.stack /\ Clocked(u) /\ u \in Manager
      /\ u.phase = "NeedsPassword" => u.cred = None /\ ~u.savePending
      /\ u.phase = "RetryWaiting" => ~(t.startup /\ t.attempt >= StartupMaxAttempts)
  BY <1>1, ApplyRetryDecisionShape
<1> HIDE DEF u
<1>3. u.job # None => u.gui /\ u.job.kind = "Associated" /\ ~u.job.token
  BY <1>2 DEF Hearing, SameOrders, SameJobs
<1>4. HeardTo(t, u)
  BY <1>1, <1>2, <1>3 DEF HeardTo, SameC6, SameJobs, RetryIsActive
<1> QED BY <1>4, HearingSound DEF u

\* The panel's manager makes itself a job for the next attempt.
LEMMA RetryJob ==
  ASSUME NEW s \in Manager, NEW h, Hearing(s, h), h.gui, h.phase = "RetryWaiting",
         NEW next \in Manager, SameC6(h, next), SameOrders(h, next), SameJobs(h, next),
         next.stack = h.stack, next.source = h.source, next.cred = h.cred,
         next.phase = h.phase, next.armed = h.armed, next.savePending = h.savePending,
         NEW t, t = [next EXCEPT !.job = NewJob("Retry", IF h.session # "none" THEN 10 ELSE 0, FALSE)]
  PROVE  Serviced(s, t)
<1>0. /\ h \in Manager /\ Sound(h) /\ h.followup = None /\ h.enabled /\ h.events = <<>>
      /\ SameOrders(s, h) /\ h.cred \in {None, s.cred} /\ h.session = s.session
      /\ h.radio = s.radio /\ ~h.startup
  BY DEF Hearing, Sound, JobsInOrder
<1> DEFINE job == NewJob("Retry", IF h.session # "none" THEN 10 ELSE 0, FALSE)
<1>1. /\ job \in Jobs /\ job # None /\ job.kind = "Retry" /\ job.stage \in {0, 10} /\ ~job.token
  <2>1. (IF h.session # "none" THEN 10 ELSE 0) \in Stages /\ "Retry" \in Kinds
    BY DEF Stages, Kinds
  <2>2. job \in Jobs
    BY <2>1, JobTyped
  <2> QED BY <2>2, NoJobAssumption DEF NewJob
<1>2. Fits(job)
  BY <1>1 DEF Fits, BringUpStages, JoinStages
<1>3. t = [next EXCEPT !.job = job]
  OBVIOUS
<1> HIDE DEF job
<1>4. t \in Manager /\ t.job = job /\ t.followup = None /\ SameOrders(h, t) /\ SameC6(h, t)
  <2>1. t \in Manager
    <3>1. [next EXCEPT !.job = job] \in Manager
      BY <1>1, Fields
    <3> QED BY <1>3, <3>1
  <2>2. /\ t.job = job /\ t.followup = next.followup /\ SameOrders(next, t) /\ SameC6(next, t)
    BY <1>3, <2>1, ZenonT(40) DEF Manager, SameC6, SameOrders
  <2> QED BY <1>0, <2>1, <2>2, ZenonT(40) DEF SameC6, SameOrders, SameJobs
<1>5. /\ t.stack = h.stack /\ t.source = h.source /\ t.cred = h.cred
      /\ t.phase = h.phase /\ t.armed = h.armed /\ t.savePending = h.savePending
  <2>1. /\ t.stack = next.stack /\ t.source = next.source /\ t.cred = next.cred
        /\ t.phase = next.phase /\ t.armed = next.armed /\ t.savePending = next.savePending
    BY <1>3 DEF Manager
  <2> QED BY <2>1
<1>6. ~t.startup
  BY <1>0, <1>4 DEF SameOrders
<1>7. JobsInOrder(t) /\ Timed(t) /\ StackHasLink(t) /\ Quiet(t) /\ AttemptsEnd(t)
  BY <1>0, <1>1, <1>2, <1>4, <1>5, <1>6 DEF Sound, JobsInOrder, Timed, Clocked, StackHasLink, Quiet,
     AttemptsEnd, Has, SameC6, SameOrders
<1>8. PasswordDropped(t)
  BY <1>5 DEF PasswordDropped
<1>9. TriedInRam(t) /\ NothingToJoin(t) /\ SavedIsProven(t)
  <2>1. /\ ~AtStage(t, {1}) /\ ~AtStage(t, {12}) /\ ~AtStage(t, {13}) /\ ~AtStage(t, OffStages)
        /\ ~Has(t, {"Associated"})
    <3>1. t.job.stage \notin {1, 12, 13} /\ t.job.stage \notin OffStages
      <4>1. \A n \in {0, 10} : n \notin {1, 12, 13} /\ n \notin 31 .. 35
        OBVIOUS
      <4>2. t.job.stage \in {0, 10}
        BY <1>1, <1>4
      <4> QED BY <4>1, <4>2 DEF OffStages
    <3>2. t.job.kind # "Associated"
      BY <1>1, <1>4
    <3> QED BY <3>1, <3>2 DEF AtStage, Has
  <2> QED BY <1>4, <2>1 DEF TriedInRam, NothingToJoin, SavedIsProven
<1>10. FlashIsProven(t) /\ JoinsWhatItKeeps(t)
  <2>1. ~Has(h, {"Connect", "Enable"})
    BY DEF Hearing, Has
  <2>2. ~Heard1(t, "connected")
    BY <1>0, <1>4 DEF Heard1, SameC6
  <2> QED BY <1>0, <1>4, <1>5, <2>1, <2>2 DEF Sound, SavesWhatWorks, FlashIsProven, JoinsWhatItKeeps,
             Hears, Joining, SameC6
<1>11. Sound(t)
  BY <1>4, <1>7, <1>8, <1>9, <1>10 DEF Sound, SavesWhatWorks
<1>12. SameOrders(s, t) /\ t.gui /\ t.enabled
  BY <1>0, <1>4 DEF SameOrders
<1>13. t.radio = s.radio /\ t.session = s.session /\ t.cred \in {None, s.cred}
  BY <1>0, <1>4, <1>5 DEF SameC6
<1> QED BY <1>1, <1>4, <1>11, <1>12, <1>13 DEF Serviced

\* The delay is over: the panel gets a job, the console an attempt at once.
LEMMA RetryDue ==
  ASSUME NEW s \in Manager, NEW h, Hearing(s, h), h.phase = "RetryWaiting", NEW link, NEW r,
         NEW next, next = [h EXCEPT !.attempt = IF h.startup THEN @ + 1 ELSE @],
         NEW t, t = IF h.gui
                    THEN [next EXCEPT !.job =
                            NewJob("Retry", IF h.session # "none" THEN 10 ELSE 0, FALSE)]
                    ELSE SendPendingConnect(next, link, r)
  PROVE  Serviced(s, t)
<1>1. /\ h \in Manager /\ Sound(h) /\ h.followup = None /\ h.enabled /\ h.events = <<>>
      /\ SameOrders(s, h) /\ h.cred \in {None, s.cred} /\ h.session = s.session
      /\ h.radio = s.radio /\ (h.job # None => h.gui)
  BY DEF Hearing, Sound
<1>2. h.startup => ~h.gui /\ h.attempt + 1 <= StartupMaxAttempts
  <2>1. h.attempt \in Nat
    BY <1>1 DEF Manager
  <2> QED BY <1>1, <2>1 DEF Sound, JobsInOrder, AttemptsEnd, StartupMaxAttempts
<1> DEFINE n == IF h.startup THEN h.attempt + 1 ELSE h.attempt
<1>3. /\ next \in Manager /\ SameC6(h, next) /\ SameOrders(h, next) /\ SameJobs(h, next)
      /\ next.stack = h.stack /\ next.source = h.source /\ next.cred = h.cred
      /\ next.phase = h.phase /\ next.armed = h.armed /\ next.savePending = h.savePending
  <2>1. n \in Nat
    BY <1>1 DEF Manager
  <2>2. next = [h EXCEPT !.attempt = n]
    OBVIOUS
  <2> HIDE DEF n
  <2>3. next \in Manager
    <3>1. [h EXCEPT !.attempt = n] \in Manager
      BY <1>1, <2>1, Fields
    <3> QED BY <2>2, <3>1
  <2>4. SameC6(h, next)
    BY <1>1, <2>2 DEF Manager, SameC6
  <2>5. SameOrders(h, next) /\ SameJobs(h, next)
    BY <1>1, <2>2, ZenonT(40) DEF Manager, SameOrders, SameJobs
  <2> QED BY <1>1, <2>2, <2>3, <2>4, <2>5 DEF Manager
<1>4. next.startup => next.attempt <= StartupMaxAttempts
  <2>1. next.startup = h.startup /\ next.attempt = IF h.startup THEN h.attempt + 1 ELSE h.attempt
    BY <1>1 DEF Manager
  <2> QED BY <1>2, <2>1
<1>5. CASE h.gui
  BY <1>2, <1>3, <1>5, RetryJob
<1>6. CASE ~h.gui
  <2>1. t = SendPendingConnect(next, link, r)
    BY <1>6
  <2>2. h.job = None /\ Free(h)
    BY <1>1, <1>6, SoundFree
  <2>3. Free(next)
    BY <1>3, <1>4, <2>2 DEF Free, Timed, Clocked, StackHasLink, FlashIsProven, JoinsWhatItKeeps, Has,
       Hears, Joining, Heard1, Proven, SameC6, SameOrders, SameJobs
  <2>4. next.enabled
    BY <1>1, <1>3 DEF SameOrders
  <2>5. Free(t) /\ Rested(t) /\ SameOrders(next, t)
    BY <2>1, <2>3, <2>4, SendPendingConnectFree
  <2>6. Sound(t) /\ t.job = None /\ t.followup = None
    BY <2>5, FreeSound DEF Free
  <2>7. SameOrders(s, t) /\ ~s.gui
    BY <1>1, <1>3, <1>6, <2>5 DEF SameOrders
  <2> QED BY <2>6, <2>7 DEF Serviced
<1> QED BY <1>5, <1>6

\* The deadlines of a frame: an attempt that timed out, a wait that is over.
LEMMA TimersServiced ==
  ASSUME NEW s \in Manager, NEW h, Hearing(s, h), NEW due, NEW link, NEW r,
         NEW t, t = Timers(h, due, link, r)
  PROVE  Serviced(s, t)
<1> DEFINE next == [h EXCEPT !.attempt = IF h.startup THEN @ + 1 ELSE @]
<1>1. CASE /\ h.phase = "RetryWaiting" /\ h.armed /\ due
           /\ t = IF h.gui
                  THEN [next EXCEPT !.job =
                          NewJob("Retry", IF h.session # "none" THEN 10 ELSE 0, FALSE)]
                  ELSE SendPendingConnect(next, link, r)
  <2> HIDE DEF next
  <2>1. next = [h EXCEPT !.attempt = IF h.startup THEN @ + 1 ELSE @]
    BY DEF next
  <2> QED BY <1>1, <2>1, RetryDue
<1>2. CASE \/ t = h
           \/ t = ApplyRetryDecision(h, "retry")
           \/ \E p \in Phases \ {"NeedsPassword", "RetryWaiting"} : t = To(h, p)
  <2>1. Hearing(s, t)
    BY <1>2, ToHearing, RetryHearing
  <2> QED BY <2>1, HearingServiced
<1>3. \/ /\ h.phase = "RetryWaiting" /\ h.armed /\ due
         /\ t = IF h.gui
                THEN [next EXCEPT !.job =
                        NewJob("Retry", IF h.session # "none" THEN 10 ELSE 0, FALSE)]
                ELSE SendPendingConnect(next, link, r)
      \/ t = h
      \/ t = ApplyRetryDecision(h, "retry")
      \/ \E p \in {"Failed", "Online", "AssociatedNoLease", "Associated"} : t = To(h, p)
  BY DEF Timers
<1>4. {"Failed", "Online", "AssociatedNoLease", "Associated"}
        \subseteq Phases \ {"NeedsPassword", "RetryWaiting"}
  BY PhaseTyped
<1> HIDE DEF next
<1> QED BY <1>1, <1>2, <1>3, <1>4

\* A link that has been up for long enough starts its count again.
LEMMA SettledServiced ==
  ASSUME NEW s, NEW u, Serviced(s, u), NEW stable, NEW t, t = Settled(u, stable)
  PROVE  Serviced(s, t)
<1>1. CASE t = u
  BY <1>1
<1>2. CASE t = [u EXCEPT !.attempt = 0]
  <2>1. u \in Manager /\ Sound(u)
    BY DEF Serviced, Sound
  <2>2. /\ t \in Manager /\ SameC6(u, t) /\ SameOrders(u, t) /\ SameJobs(u, t)
        /\ t.stack = u.stack /\ t.source = u.source /\ t.cred = u.cred
        /\ t.phase = u.phase /\ t.armed = u.armed /\ t.savePending = u.savePending
        /\ t.attempt = 0
    <3>1. t \in Manager
      <4>1. [u EXCEPT !.attempt = 0] \in Manager
        BY <2>1, Fields
      <4> QED BY <1>2, <4>1
    <3> QED BY <1>2, <2>1, <3>1 DEF Manager, SameC6, SameOrders, SameJobs
  <2>3. AttemptsEnd(t)
    BY <2>2 DEF AttemptsEnd, StartupMaxAttempts
  <2>4. JobsInOrder(t) /\ Timed(t) /\ StackHasLink(t) /\ Quiet(t) /\ PasswordDropped(t)
    BY <2>1, <2>2 DEF Sound, JobsInOrder, Timed, Clocked, StackHasLink, Quiet, PasswordDropped,
       RetryIsActive, Has, AtStage, Busy, SameC6, SameOrders, SameJobs
  <2>5. SavesWhatWorks(t)
    BY <2>1, <2>2 DEF Sound, SavesWhatWorks, FlashIsProven, TriedInRam, NothingToJoin, SavedIsProven,
       JoinsWhatItKeeps, Has, AtStage, Hears, Heard1, Joining, Proven, SameC6, SameOrders, SameJobs
  <2>6. Sound(t)
    BY <2>2, <2>3, <2>4, <2>5 DEF Sound
  <2> QED BY <2>2, <2>6 DEF Serviced, SameC6, SameOrders, SameJobs
<1> QED BY <1>1, <1>2 DEF Settled

\* service_policy as a whole.
LEMMA ServicePolicyServiced ==
  ASSUME NEW s, Sound(s), s.job = None, s.followup = None, NEW due, NEW stable, NEW link, NEW r,
         NEW t, t = ServicePolicy(s, due, stable, link, r)
  PROVE  Serviced(s, t)
<1>1. s \in Manager /\ Free(s)
  BY SoundFree DEF Sound
<1>2. CASE ~s.enabled
  <2>1. t = To(s, "Off")
    BY <1>2 DEF ServicePolicy
  <2>2. Free(t) /\ Rested(t) /\ SameOrders(s, t)
    BY <1>1, <2>1, FreeTo, PhaseTyped
  <2>3. Sound(t) /\ t.job = None /\ t.followup = None
    BY <2>2, FreeSound DEF Free
  <2>4. t.radio = s.radio /\ t.session = s.session /\ t.cred = s.cred
    BY <1>1, <2>1, ToShape, PhaseTyped DEF SameC6
  <2> QED BY <2>2, <2>3, <2>4 DEF Serviced
<1>3. CASE s.enabled /\ s.session = "dead"
  <2>1. t = LinkLost(s)
    BY <1>3 DEF ServicePolicy
  <2>2. /\ Sound(t) /\ t.job = None /\ t.followup = None /\ SameOrders(s, t)
        /\ t.session = "none" /\ t.cred \in {None, s.cred} /\ t.radio = s.radio
    BY <1>1, <1>3, <2>1, LinkLostSound
  <2> QED BY <2>2 DEF Serviced
<1>4. CASE s.enabled /\ s.session # "dead"
  <2> DEFINE ready == IF s.session # "none" /\ s.phase = "LinkDown" THEN To(s, "Idle") ELSE s
             events == IF s.session = "none" THEN <<>> ELSE s.events
             deaf == [ready EXCEPT !.events = <<>>]
             heard == Heard(deaf, events, r)
  <2>1. t = Settled(Timers(heard, due, link, r), stable)
    BY <1>4 DEF ServicePolicy
  <2>2. /\ Free(ready) /\ Rested(ready) /\ SameOrders(s, ready) /\ ready.session = s.session
        /\ ready.radio = s.radio /\ ready.cred = s.cred
    <3>1. CASE ready = To(s, "Idle")
      BY <1>1, <3>1, FreeTo, ToShape, PhaseTyped DEF SameC6
    <3>2. CASE ready = s
      BY <1>1, <3>2, SoundFree DEF SameOrders
    <3> QED BY <3>1, <3>2
  <2>3. events \in Seq(Events) /\ (events # <<>> => s.session # "none")
    BY <1>1 DEF Manager
  <2>4. (\E i \in DOMAIN events : events[i] = "connected") => Proven(s)
    <3>1. CASE s.session = "none"
      BY <3>1
    <3>2. CASE s.session # "none"
      <4>1. events = s.events /\ Hears(s)
        BY <1>4, <3>2 DEF Hears
      <4> QED BY <1>1, <4>1 DEF Free, JoinsWhatItKeeps, Has, Heard1
    <3> QED BY <3>1, <3>2
  <2> HIDE DEF ready, events
  <2>5. Hearing(s, deaf)
    <3>1. ready \in Manager
      BY <2>2 DEF Free
    <3>2. deaf \in Manager
      BY <3>1, NoEventTyped, Fields
    <3>3. /\ SameWishes(ready, deaf) /\ deaf.session = ready.session /\ deaf.radio = ready.radio
          /\ deaf.nvs = ready.nvs /\ deaf.cfg = ready.cfg /\ deaf.events = <<>>
      BY <3>1 DEF Manager, SameWishes, SameOrders, SameJobs
    <3> HIDE DEF deaf
    <3>4. ~Heard1(deaf, "connected") /\ Len(deaf.events) <= MaxEvents
      BY <3>3, ConstantsAssumption DEF Heard1
    <3>5. Free(deaf)
      BY <2>2, <3>2, <3>3, <3>4 DEF Free, Timed, Clocked, StackHasLink, FlashIsProven,
         JoinsWhatItKeeps, Has, Hears, Joining, SameWishes, SameOrders, SameJobs
    <3>6. Rested(deaf)
      BY <2>2, <3>3 DEF Rested, RetryIsActive, SameWishes, SameOrders
    <3>7. Sound(deaf) /\ deaf.job = None /\ deaf.followup = None
      BY <3>5, <3>6, FreeSound DEF Free
    <3> QED BY <1>4, <2>2, <3>3, <3>7 DEF Hearing, SameWishes, SameOrders
  <2>6. deaf.session = s.session
    BY <2>5 DEF Hearing
  <2> HIDE DEF deaf
  <2>7. Hearing(s, heard)
    BY <1>1, <2>3, <2>4, <2>5, <2>6, HeardHearing
  <2> HIDE DEF heard
  <2>8. Serviced(s, Timers(heard, due, link, r))
    BY <1>1, <2>7, TimersServiced
  <2> QED BY <2>1, <2>8, SettledServiced
<1> QED BY <1>2, <1>3, <1>4

----------------------------------------------------------------------------
(* A job of the panel: what holds while it is carried out, and afterwards. *)

\* The job that waits for the one under way to end.
Later(s) ==
  s.followup # None =>
    /\ Fits(s.followup) /\ ~s.followup.token /\ s.enabled
    /\ s.followup.kind \in {"Retry", "Associated"}
    /\ s.followup.kind = "Retry" => s.followup.stage \in {0, 10}
    /\ s.followup.kind = "Associated" => Proven(s)
HonestC6(s) ==
  Hears(s) => /\ Joining(s) => s.cred \in {None, s.cfg}
              /\ Heard1(s, "connected") => Proven(s)
Core(s) ==
  /\ s \in Manager /\ s.job = None /\ ~s.startup /\ Later(s)
  /\ Timed(s) /\ StackHasLink(s) /\ FlashIsProven(s)
Placed(s, job) ==
  /\ Fits(job)
  /\ job.kind \in {"Connect", "Enable", "Disable"} =>
       s.followup = None /\ (job.stage = 0 <=> s.session = "none")
  /\ job.kind = "Forget" /\ job.stage \in OffStages => ~s.enabled
  /\ job.stage \in OffStages => s.cred = None
  /\ job.stage = 12 => s.storage = "ram"
  /\ job.stage = 1 => ~Joining(s)
  /\ job.stage = 13 /\ Hears(s) =>
       ~Joining(s) /\ ~Heard1(s, "connected") /\ s.cfg = IF s.cred = None THEN Empty ELSE s.cred
  /\ ~s.enabled => ~(job.kind = "Enable" /\ job.stage \in JoinStages)
Doing(s, job) ==
  /\ Core(s) /\ Placed(s, job)
  /\ ~s.enabled =>
       s.radio = "idle" /\ job.kind \in {"Enable", "Forget"} /\ (s.cred # None => job.kind = "Enable")
  /\ s.phase = "NeedsPassword" =>
       job.kind \in {"Connect", "Enable"} \/ (~RetryIsActive(s) /\ ~s.savePending)
  /\ job.kind = "Associated" => Proven(s)
  /\ job.kind \notin {"Connect", "Enable"} => HonestC6(s)
Alone(s) ==
  /\ Core(s) /\ HonestC6(s)
  /\ ~s.enabled => s.radio = "idle" /\ s.cred = None
  /\ s.phase = "NeedsPassword" => ~RetryIsActive(s) /\ ~s.savePending
\* What becomes of s when a step of its job leads to t: the token is kept.
Carried(s, job, t) ==
  /\ Sound(t) /\ t.gui = s.gui
  /\ s.reply => t.reply
  /\ job.token => t.reply \/ (t.job # None /\ t.job.token)

\* A job is put back for the next frame.
LEMMA KeepShape ==
  ASSUME NEW s \in Manager, NEW job \in Jobs \cup {None}, NEW t, t = Keep(s, job)
  PROVE  /\ t \in Manager /\ SameC6(s, t) /\ SameOrders(s, t) /\ t.job = job
         /\ t.followup = s.followup /\ t.stack = s.stack /\ t.source = s.source
         /\ t.attempt = s.attempt /\ t.cred = s.cred /\ t.phase = s.phase /\ t.armed = s.armed
         /\ t.savePending = s.savePending
<1>1. t \in Manager
  BY Fields DEF Keep
<1> QED BY <1>1 DEF Keep, Manager, SameC6, SameOrders

\* A job that is being done, put back, leaves a sound manager,
LEMMA DoingSound ==
  ASSUME NEW s, NEW job, Doing(s, job), NEW t, t = Keep(s, job)
  PROVE  Sound(t) /\ SameOrders(s, t) /\ t.job = job /\ t.job # None
<1>1. s \in Manager /\ job \in Jobs /\ job # None
  BY NoJobAssumption DEF Doing, Core, Placed, Fits
<1>2. /\ t \in Manager /\ SameC6(s, t) /\ SameOrders(s, t) /\ t.job = job
      /\ t.followup = s.followup /\ t.stack = s.stack /\ t.source = s.source
      /\ t.attempt = s.attempt /\ t.cred = s.cred /\ t.phase = s.phase /\ t.armed = s.armed
      /\ t.savePending = s.savePending
  BY <1>1, KeepShape
<1>3. JobsInOrder(t) /\ Timed(t) /\ StackHasLink(t) /\ AttemptsEnd(t)
  BY <1>1, <1>2 DEF Doing, Core, Placed, Later, JobsInOrder, Timed, Clocked, StackHasLink,
     AttemptsEnd, Has, AtStage, SameC6, SameOrders
<1>4. Quiet(t) /\ PasswordDropped(t)
  BY <1>1, <1>2 DEF Doing, Placed, Quiet, PasswordDropped, RetryIsActive, Has, AtStage, SameC6,
     SameOrders
<1>5. TriedInRam(t) /\ NothingToJoin(t) /\ SavedIsProven(t) /\ FlashIsProven(t)
  BY <1>1, <1>2 DEF Doing, Core, Placed, Later, TriedInRam, NothingToJoin, SavedIsProven,
     FlashIsProven, Has, AtStage, Hears, Joining, Heard1, Proven, SameC6
<1>6. JoinsWhatItKeeps(t)
  BY <1>1, <1>2 DEF Doing, HonestC6, JoinsWhatItKeeps, Has, Hears, Joining, Heard1, Proven, SameC6
<1> QED BY <1>1, <1>2, <1>3, <1>4, <1>5, <1>6 DEF Sound, SavesWhatWorks

\* and the job of a sound manager is one that can be done.
LEMMA SoundDoing ==
  ASSUME NEW s, Sound(s), s.job # None, NEW t, t = [s EXCEPT !.job = None]
  PROVE  Doing(t, s.job) /\ SameOrders(s, t) /\ SameC6(s, t) /\ t.followup = s.followup
         /\ t.phase = s.phase
<1>1. s \in Manager
  BY DEF Sound
<1>2. /\ t \in Manager /\ SameC6(s, t) /\ SameOrders(s, t) /\ t.job = None
      /\ t.followup = s.followup /\ t.stack = s.stack /\ t.source = s.source
      /\ t.attempt = s.attempt /\ t.cred = s.cred /\ t.phase = s.phase /\ t.armed = s.armed
      /\ t.savePending = s.savePending
  BY <1>1, KeepShape DEF Keep
<1> DEFINE job == s.job
<1>3. job # None /\ s.job = job
  OBVIOUS
<1> HIDE DEF job
<1>4. Placed(t, job)
  BY <1>2, <1>3 DEF Placed, Sound, JobsInOrder, Quiet, SavesWhatWorks, TriedInRam, NothingToJoin, Has,
     AtStage, Hears, Joining, Heard1, SameC6, SameOrders
<1>5. Core(t)
  BY <1>2, <1>3 DEF Core, Later, Sound, JobsInOrder, SavesWhatWorks, SavedIsProven, FlashIsProven,
     Timed, Clocked, StackHasLink, Busy, Proven, SameC6, SameOrders
<1>6. job.kind = "Associated" => Proven(t)
  BY <1>2, <1>3 DEF Sound, SavesWhatWorks, SavedIsProven, Has, Proven
<1>7. job.kind \notin {"Connect", "Enable"} => HonestC6(t)
  BY <1>2, <1>3 DEF Sound, SavesWhatWorks, JoinsWhatItKeeps, HonestC6, Has, Hears, Joining, Heard1,
     Proven, SameC6
<1>8. ~t.enabled => t.radio = "idle" /\ job.kind \in {"Enable", "Forget"}
                    /\ (t.cred # None => job.kind = "Enable")
  BY <1>2, <1>3 DEF Sound, Quiet, Has, SameC6, SameOrders
<1>9. t.phase = "NeedsPassword" =>
        job.kind \in {"Connect", "Enable"} \/ (~RetryIsActive(t) /\ ~t.savePending)
  BY <1>2, <1>3 DEF Sound, PasswordDropped, RetryIsActive, Has
<1> QED BY <1>2, <1>3, <1>4, <1>5, <1>6, <1>7, <1>8, <1>9 DEF Doing

\* A manager that is done with its job is sound.
LEMMA AloneSound ==
  ASSUME NEW s, Alone(s)
  PROVE  Sound(s)
BY DEF Alone, Core, Later, HonestC6, Sound, JobsInOrder, Quiet, PasswordDropped, AttemptsEnd,
   SavesWhatWorks, TriedInRam, NothingToJoin, SavedIsProven, JoinsWhatItKeeps, Has, AtStage, Busy

\* The panel's token is answered, and nothing else changes.
LEMMA AnswerShape ==
  ASSUME NEW s \in Manager, NEW job \in Jobs, NEW t, t = Answer(s, job)
  PROVE  /\ t \in Manager /\ SameC6(s, t) /\ SameJobs(s, t)
         /\ t.enabled = s.enabled /\ t.startup = s.startup /\ t.gui = s.gui /\ t.begun = s.begun
         /\ t.reply = (s.reply \/ job.token)
         /\ t.stack = s.stack /\ t.source = s.source /\ t.attempt = s.attempt /\ t.cred = s.cred
         /\ t.phase = s.phase /\ t.armed = s.armed /\ t.savePending = s.savePending
<1> DEFINE told == s.reply \/ job.token
<1>1. told \in BOOLEAN
  OBVIOUS
<1>2. t = [s EXCEPT !.reply = told]
  BY DEF Answer
<1> HIDE DEF told
<1>3. t \in Manager
  <2>1. [s EXCEPT !.reply = told] \in Manager
    BY <1>1, Fields
  <2> QED BY <1>2, <2>1
<1>4. t.reply = told
  BY <1>2 DEF Manager
<1> QED BY <1>2, <1>3, <1>4 DEF Manager, SameC6, SameJobs, told

----------------------------------------------------------------------------
(* How a job ends.                                                         *)

\* finish_gui_off: what is left when Wi-Fi is off.
LEMMA FinishGuiOffShape ==
  ASSUME NEW s \in Manager, NEW t, t = FinishGuiOff(s)
  PROVE  /\ t \in Manager /\ SameJobs(s, t) /\ ~t.enabled /\ t.cred = None /\ t.stack = "none"
         /\ t.radio = "idle" /\ t.events = <<>> /\ t.nvs = s.nvs /\ t.phase = "Off" /\ Clocked(t)
         /\ t.startup = s.startup /\ t.gui = s.gui /\ t.reply = s.reply
<1> DEFINE off == [ClearCredentials(s) EXCEPT
                     !.stack = "none", !.source = "none", !.enabled = FALSE, !.kept = FALSE]
           dropped == DropSession(off)
           down == PowerDown(dropped)
<1>1. off \in Manager
  <2>1. ClearCredentials(s) \in Manager
    BY SimpleTyped
  <2> QED BY <2>1, Fields
<1>2. /\ SameJobs(s, off) /\ ~off.enabled /\ off.cred = None /\ off.stack = "none"
      /\ off.nvs = s.nvs /\ off.startup = s.startup /\ off.gui = s.gui /\ off.reply = s.reply
  BY DEF ClearCredentials, Manager, SameJobs
<1> HIDE DEF off
<1>3. dropped \in Manager
  BY <1>1, SimpleTyped
<1>4. /\ SameJobs(s, dropped) /\ ~dropped.enabled /\ dropped.cred = None /\ dropped.stack = "none"
      /\ dropped.nvs = s.nvs /\ dropped.startup = s.startup /\ dropped.gui = s.gui
      /\ dropped.reply = s.reply
  BY <1>1, <1>2 DEF DropSession, Manager, SameJobs
<1> HIDE DEF dropped
<1>5. down \in Manager
  BY <1>3, SimpleTyped
<1>6. /\ SameJobs(s, down) /\ ~down.enabled /\ down.cred = None /\ down.stack = "none"
      /\ down.radio = "idle" /\ down.events = <<>>
      /\ down.nvs = s.nvs /\ down.startup = s.startup /\ down.gui = s.gui
      /\ down.reply = s.reply
  BY <1>3, <1>4 DEF PowerDown, Manager, SameJobs
<1>7. t = To(down, "Off")
  BY DEF FinishGuiOff, down, dropped, off
<1> HIDE DEF down
<1>9. t \in Manager
  BY <1>5, <1>7, ToTyped, PhaseTyped
<1>8. /\ SameC6(down, t) /\ SameOrders(down, t) /\ SameJobs(down, t)
      /\ t.stack = down.stack /\ t.cred = down.cred /\ t.phase = "Off" /\ Clocked(t)
  BY <1>5, <1>7, ToShape, PhaseTyped
<1> QED BY <1>6, <1>8, <1>9 DEF SameC6, SameOrders, SameJobs

\* finish_gui_off leaves a manager that is done.
LEMMA FinishGuiOffAlone ==
  ASSUME NEW s \in Manager, s.job = None, s.followup = None, ~s.startup, FlashIsProven(s),
         NEW t, t = FinishGuiOff(s)
  PROVE  Alone(t) /\ t.gui = s.gui /\ t.reply = s.reply
<1>1. /\ t \in Manager /\ SameJobs(s, t) /\ ~t.enabled /\ t.cred = None /\ t.stack = "none"
      /\ t.radio = "idle" /\ t.events = <<>> /\ t.nvs = s.nvs /\ t.phase = "Off" /\ Clocked(t)
      /\ t.startup = s.startup /\ t.gui = s.gui /\ t.reply = s.reply
  BY FinishGuiOffShape
<1>2. Timed(t) /\ ~Heard1(t, "connected")
  BY <1>1, ConstantsAssumption DEF Timed, Heard1
<1> QED BY <1>1, <1>2 DEF Alone, Core, Later, StackHasLink, FlashIsProven, HonestC6, Joining, SameJobs

\* What every end of a job needs of the state it leaves.
LEMMA EndCarried ==
  ASSUME NEW s, NEW job, NEW t, Alone(t), t.gui = s.gui, t.reply = (s.reply \/ job.token)
  PROVE  Carried(s, job, t)
BY AloneSound DEF Carried

\* An answer changes nothing but what the screen hears.
LEMMA AnswerAlone ==
  ASSUME NEW s, Alone(s), NEW job \in Jobs, NEW t, t = Answer(s, job)
  PROVE  Alone(t) /\ Carried(s, job, t)
<1>1. s \in Manager
  BY DEF Alone, Core
<1>2. /\ t \in Manager /\ SameC6(s, t) /\ SameJobs(s, t)
      /\ t.enabled = s.enabled /\ t.startup = s.startup /\ t.gui = s.gui
      /\ t.reply = (s.reply \/ job.token)
      /\ t.stack = s.stack /\ t.source = s.source /\ t.cred = s.cred
      /\ t.phase = s.phase /\ t.armed = s.armed /\ t.savePending = s.savePending
  BY <1>1, AnswerShape
<1>3. Core(t)
  BY <1>2 DEF Alone, Core, Later, Timed, Clocked, StackHasLink, FlashIsProven, Proven, SameC6, SameJobs
<1>4. HonestC6(t)
  BY <1>2 DEF Alone, HonestC6, Hears, Joining, Heard1, Proven, SameC6
<1>5. Alone(t)
  BY <1>2, <1>3, <1>4 DEF Alone, RetryIsActive, SameC6
<1> QED BY <1>2, <1>5, EndCarried

\* A job that neither joins nor turns on can simply be dropped.
LEMMA DoingAlone ==
  ASSUME NEW s, NEW job, Doing(s, job), job.kind \notin {"Connect", "Enable"},
         s.enabled \/ job.kind = "Forget"
  PROVE  Alone(s)
BY DEF Doing, Alone

\* A job that failed, with the attempt after it if there is one.
LEMMA GuiFailCarried ==
  ASSUME NEW s, NEW job, Doing(s, job), NEW verdict,
         job.kind = "Connect" => verdict = "stop" \/ ~Hears(s), NEW t, t = GuiFail(s, job, verdict)
  PROVE  Carried(s, job, t)
<1> DEFINE told == Answer(s, job)
<1>1. s \in Manager /\ job \in Jobs /\ Core(s)
  BY DEF Doing, Core, Placed, Fits
<1>2. /\ told \in Manager /\ SameC6(s, told) /\ SameJobs(s, told)
      /\ told.enabled = s.enabled /\ told.startup = s.startup /\ told.gui = s.gui
      /\ told.reply = (s.reply \/ job.token)
      /\ told.stack = s.stack /\ told.source = s.source /\ told.cred = s.cred
      /\ told.phase = s.phase /\ told.armed = s.armed /\ told.savePending = s.savePending
  BY <1>1, AnswerShape
<1>3. Core(told)
  BY <1>1, <1>2 DEF Core, Later, Timed, Clocked, StackHasLink, FlashIsProven, Proven, SameC6, SameJobs
<1>4. CASE job.kind \in {"Disable", "Enable"}
  <2>1. t = FinishGuiOff(told)
    BY <1>4 DEF GuiFail
  <2> HIDE DEF told
  <2>2. told.followup = None
    BY <1>2, <1>4 DEF Doing, Placed, SameJobs
  <2>3. Alone(t) /\ t.gui = told.gui /\ t.reply = told.reply
    BY <1>2, <1>3, <2>1, <2>2, FinishGuiOffAlone DEF Core
  <2> QED BY <1>2, <2>3, EndCarried
<1>5. CASE job.kind \in {"Connect", "Retry"}
  <2>1. t = ApplyRetryDecision(told, verdict)
    BY <1>5 DEF GuiFail
  <2> HIDE DEF told
  <2>2. /\ SameC6(told, t) /\ SameOrders(told, t) /\ SameJobs(told, t) /\ Clocked(t)
        /\ t.stack = told.stack /\ t.cred \in {None, told.cred} /\ t \in Manager
        /\ t.phase = "NeedsPassword" => t.cred = None /\ ~t.savePending
        /\ verdict # "retry" => t.cred = None
    BY <1>2, <2>1, ApplyRetryDecisionShape
  <2>3. Core(t)
    BY <1>3, <2>2 DEF Core, Later, Timed, StackHasLink, FlashIsProven, Proven, SameC6, SameOrders,
       SameJobs
  <2>4. HonestC6(t)
    <3>1. CASE job.kind = "Retry"
      <4>1. HonestC6(s)
        BY <3>1 DEF Doing
      <4> QED BY <1>2, <2>2, <4>1 DEF HonestC6, Hears, Joining, Heard1, Proven, SameC6
    <3>2. CASE job.kind = "Connect"
      BY <1>2, <2>2, <3>2 DEF HonestC6, Hears, Proven, SameC6
    <3> QED BY <1>5, <3>1, <3>2
  <2>5. t.enabled
    BY <1>2, <1>5, <2>2 DEF Doing, SameOrders
  <2>6. Alone(t)
    BY <2>2, <2>3, <2>4, <2>5 DEF Alone, RetryIsActive
  <2> QED BY <1>2, <2>2, <2>6, EndCarried DEF SameOrders
<1>6. CASE job.kind = "Associated"
  <2> DEFINE dropped == [told EXCEPT !.savePending = FALSE]
  <2>1. t = To(dropped, "Failed")
    BY <1>6 DEF GuiFail
  <2> HIDE DEF told
  <2>2. /\ dropped \in Manager /\ SameC6(told, dropped) /\ SameOrders(told, dropped)
        /\ SameJobs(told, dropped) /\ dropped.stack = told.stack /\ dropped.cred = told.cred
    <3>1. dropped \in Manager
      BY <1>2, Fields
    <3> QED BY <1>2, <3>1 DEF Manager, SameC6, SameOrders, SameJobs
  <2> HIDE DEF dropped
  <2>9. t \in Manager
    BY <2>1, <2>2, ToTyped, PhaseTyped
  <2>3. /\ SameC6(dropped, t) /\ SameOrders(dropped, t) /\ SameJobs(dropped, t)
        /\ t.stack = dropped.stack /\ t.cred = dropped.cred /\ t.phase = "Failed" /\ Clocked(t)
    BY <2>1, <2>2, ToShape, PhaseTyped
  <2>4. Core(t)
    BY <1>3, <2>2, <2>3, <2>9 DEF Core, Later, Timed, StackHasLink, FlashIsProven, Proven, SameC6,
       SameOrders, SameJobs
  <2>5. HonestC6(s)
    BY <1>6 DEF Doing
  <2>6. HonestC6(t)
    BY <1>2, <2>2, <2>3, <2>5 DEF HonestC6, Hears, Joining, Heard1, Proven, SameC6
  <2>7. t.enabled
    BY <1>2, <1>6, <2>2, <2>3 DEF Doing, SameOrders
  <2>8. Alone(t)
    BY <2>3, <2>4, <2>6, <2>7 DEF Alone
  <2> QED BY <1>2, <2>2, <2>3, <2>8, EndCarried DEF SameOrders
<1>7. CASE job.kind \in {"Scan", "Forget"}
  <2>1. t = told
    BY <1>7 DEF GuiFail
  <2>2. Alone(s)
    BY <1>7, DoingAlone DEF Doing
  <2> QED BY <1>1, <2>1, <2>2, AnswerAlone
<1>8. job.kind \in Kinds
  BY <1>1 DEF Jobs
<1> QED BY <1>4, <1>5, <1>6, <1>7, <1>8 DEF Kinds

----------------------------------------------------------------------------
(* What a request has done to the C6.                                      *)

Wanted(s) == IF s.cred = None THEN Empty ELSE s.cred
RequestDone(s, n, t) ==
  /\ t \in Manager /\ SameWishes(s, t) /\ Len(t.events) <= MaxEvents
  /\ t.session = IF n = 1 THEN "init" ELSE IF n = 3 THEN "started" ELSE s.session
  /\ n # 13 => t.events = s.events
  /\ n = 13 => t.radio = "joining" /\ (Heard1(t, "connected") => Heard1(s, "connected"))
  /\ n \in {10, 30, 34} => t.radio # "joining"
  /\ n # 13 => t.radio = s.radio \/ (s.radio # "idle" /\ t.radio = "leaving")
  /\ n \notin {1, 9, 12, 33, 41, 50} => t.cfg = s.cfg
  /\ n \notin {9, 12, 33, 41, 50} => t.nvs = s.nvs
  /\ n \in {12, 41} => t.cfg = Wanted(s) /\ t.nvs = IF s.storage = "flash" THEN Wanted(s) ELSE s.nvs
  /\ n \in {9, 33, 50} => t.nvs \in {s.nvs, Empty, OffMarker}
  /\ n = 12 => t.storage = s.storage
  /\ n = 11 => t.storage = "ram"

\* A request of stage n, done by the C6.
LEMMA RequestedShape ==
  ASSUME NEW s \in Manager, Len(s.events) <= MaxEvents, NEW n \in Stages, NEW t, t = Requested(s, n)
  PROVE  RequestDone(s, n, t)
<1>1. CASE n = 1
  <2>1. t = [s EXCEPT !.session = "init", !.storage = "flash", !.cfg = s.nvs]
    BY <1>1 DEF Requested
  <2>2. t \in Manager
    <3>1. s.nvs \in Configs
      BY DEF Manager
    <3>2. [s EXCEPT !.session = "init", !.storage = "flash", !.cfg = s.nvs] \in Manager
      BY <3>1, Fields
    <3> QED BY <2>1, <3>2
  <2>3. /\ SameWishes(s, t) /\ t.events = s.events /\ t.radio = s.radio /\ t.session = "init"
        /\ t.nvs = s.nvs
    BY <2>1 DEF Manager, SameWishes, SameOrders, SameJobs
  <2> QED BY <1>1, <2>2, <2>3 DEF RequestDone
<1>2. CASE n \in {2, 6, 32, 35}
  <2>1. t = SetMode(s, IF n = 35 THEN "null" ELSE "sta")
    BY <1>2, SMTT(30) DEF Requested
  <2>2. /\ t \in Manager /\ SameWishes(s, t) /\ t.session = s.session /\ t.radio = s.radio
        /\ t.events = s.events /\ t.nvs = s.nvs /\ t.cfg = s.cfg
    BY <2>1, SetModeShape
  <2>3. n \notin {1, 3, 10, 11, 12, 13, 30, 34, 9, 33, 41, 50}
    BY <1>2
  <2> QED BY <2>2, <2>3 DEF RequestDone
<1>3. CASE n = 3
  <2>1. t = [s EXCEPT !.session = "started"]
    BY <1>3 DEF Requested
  <2>2. t \in Manager
    BY <2>1, Fields
  <2>3. /\ SameWishes(s, t) /\ t.events = s.events /\ t.radio = s.radio /\ t.session = "started"
        /\ t.nvs = s.nvs /\ t.cfg = s.cfg
    BY <2>1 DEF Manager, SameWishes, SameOrders, SameJobs
  <2> QED BY <1>3, <2>2, <2>3 DEF RequestDone
<1>4. CASE n \in {5, 31, 40, 8, 11, 42, 51}
  <2> DEFINE kept == IF n \in {5, 31, 40} THEN "flash" ELSE "ram"
  <2>1. t = [s EXCEPT !.storage = kept]
    BY <1>4, SMTT(30) DEF Requested
  <2>2. kept \in {"flash", "ram"} /\ (n = 11 => kept = "ram")
    OBVIOUS
  <2> HIDE DEF kept
  <2>3. t \in Manager
    <3>1. [s EXCEPT !.storage = kept] \in Manager
      BY <2>2, Fields
    <3> QED BY <2>1, <3>1
  <2>4. /\ SameWishes(s, t) /\ t.events = s.events /\ t.radio = s.radio /\ t.session = s.session
        /\ t.nvs = s.nvs /\ t.cfg = s.cfg /\ t.storage = kept
    BY <2>1 DEF Manager, SameWishes, SameOrders, SameJobs
  <2>5. n \notin {1, 3, 10, 12, 13, 30, 34, 9, 33, 41, 50}
    BY <1>4
  <2> QED BY <2>2, <2>3, <2>4, <2>5 DEF RequestDone
<1>5. CASE n \in {9, 33, 12, 41}
  <2> DEFINE c == IF n = 9 THEN Empty ELSE IF n = 33 THEN OffMarker ELSE Wanted(s)
  <2>1. t = Configure(s, c)
    BY <1>5 DEF Requested, Wanted
  <2>2. c \in Configs
    BY DEF Wanted, Configs, Manager
  <2>3. n \in {12, 41} => c = Wanted(s)
    OBVIOUS
  <2>4. n \in {9, 33} => c \in {Empty, OffMarker}
    OBVIOUS
  <2> HIDE DEF c
  <2>5. /\ t \in Manager /\ SameWishes(s, t) /\ t.session = s.session /\ t.radio = s.radio
        /\ t.events = s.events /\ t.cfg = c /\ t.storage = s.storage
        /\ t.nvs = (IF s.storage = "flash" THEN c ELSE s.nvs)
    BY <2>1, <2>2, ConfigureShape DEF SameWishes
  <2>6. n \notin {1, 3, 10, 11, 13, 30, 34, 50}
    BY <1>5
  <2> QED BY <1>5, <2>3, <2>4, <2>5, <2>6 DEF RequestDone
<1>6. CASE n \in {10, 30, 34}
  <2> DEFINE air == IF s.radio = "idle" THEN "idle" ELSE "leaving"
  <2>1. t = [s EXCEPT !.radio = air]
    BY <1>6 DEF Requested, Leave
  <2>2. t \in Manager
    BY <1>6, SimpleTyped DEF Requested
  <2>3. /\ air # "joining" /\ (air = s.radio \/ (s.radio # "idle" /\ air = "leaving"))
    OBVIOUS
  <2> HIDE DEF air
  <2>4. /\ SameWishes(s, t) /\ t.events = s.events /\ t.radio = air /\ t.session = s.session
        /\ t.nvs = s.nvs /\ t.cfg = s.cfg
    BY <2>1 DEF Manager, SameWishes, SameOrders, SameJobs
  <2>5. n \notin {1, 3, 11, 12, 13, 9, 33, 41, 50}
    BY <1>6
  <2> QED BY <2>2, <2>3, <2>4, <2>5 DEF RequestDone
<1>7. CASE n = 13
  <2>1. t = Rejoin(s)
    BY <1>7 DEF Requested
  <2>2. /\ t \in Manager /\ Len(t.events) <= MaxEvents /\ t.radio = "joining"
        /\ Heard1(t, "connected") => Heard1(s, "connected")
        /\ SameWishes(s, t) /\ t.session = s.session /\ t.cfg = s.cfg /\ t.nvs = s.nvs
    BY <2>1, RejoinShape DEF SameWishes
  <2> QED BY <1>7, <2>2 DEF RequestDone
<1>8. CASE n = 50
  <2>1. t = [s EXCEPT !.nvs = Empty, !.cfg = Empty, !.mode = "sta"]
    BY <1>8 DEF Requested
  <2>2. t \in Manager
    BY <2>1, Fields, ZenonT(40) DEF Configs
  <2>3. /\ SameWishes(s, t) /\ t.events = s.events /\ t.radio = s.radio /\ t.session = s.session
        /\ t.nvs = Empty
    BY <2>1 DEF Manager, SameWishes, SameOrders, SameJobs
  <2> QED BY <1>8, <2>2, <2>3 DEF RequestDone
<1>9. CASE n \notin {1, 2, 6, 32, 35, 3, 5, 31, 40, 8, 11, 42, 51, 9, 33, 12, 41, 10, 30, 34, 13, 50}
  <2>1. t = s
    BY <1>9 DEF Requested
  <2>2. SameWishes(s, t)
    BY <2>1 DEF SameWishes, SameOrders, SameJobs
  <2> QED BY <1>9, <2>1, <2>2 DEF RequestDone
<1> QED BY <1>1, <1>2, <1>3, <1>4, <1>5, <1>6, <1>7, <1>8, <1>9

----------------------------------------------------------------------------
(* From one stage to the next.                                             *)

\* The job at its next stage.
LEMMA AtShape ==
  ASSUME NEW job \in Jobs, NEW n \in Stages, NEW j, j = At(job, n)
  PROVE  j \in Jobs /\ j.kind = job.kind /\ j.token = job.token /\ j.stage = n
BY DEF At, Jobs

\* A job goes on in a state with the same wishes.
LEMMA KeepsOn ==
  ASSUME NEW s, NEW job, Doing(s, job), NEW q, Core(q), SameWishes(s, q),
         ~q.enabled => q.radio = "idle",
         job.kind \notin {"Connect", "Enable"} => HonestC6(q),
         NEW j, Placed(q, j), j.kind = job.kind, j.token = job.token, NEW t, t = Keep(q, j)
  PROVE  Carried(s, job, t)
<1>1. Doing(q, j)
  BY DEF Doing, RetryIsActive, Proven, SameWishes, SameOrders
<1>2. Sound(t) /\ SameOrders(q, t) /\ t.job = j /\ t.job # None
  BY <1>1, DoingSound
<1> QED BY <1>2 DEF Carried, SameWishes, SameOrders

\* The stages that ask nothing of the C6's state.
LEMMA EasyStage ==
  ASSUME NEW s, NEW job, Doing(s, job), NEW q, SameWishes(s, q), q.session # "none",
         NEW n \in Stages \ {0, 1, 12, 13}, NEW j \in Jobs, j.kind = job.kind, j.stage = n,
         Fits(j), n \in OffStages => s.cred = None /\ (job.kind = "Forget" => ~s.enabled),
         n \in JoinStages /\ job.kind = "Enable" => s.enabled
  PROVE  Placed(q, j)
<1>1. q.followup = s.followup /\ q.cred = s.cred /\ q.enabled = s.enabled
  BY DEF SameWishes, SameOrders, SameJobs
<1>2. j.stage \notin {0, 1, 12, 13}
  OBVIOUS
<1> QED BY <1>1, <1>2 DEF Placed, Doing

\* The request of the job's stage has been answered in q.
Answered(s, job, q) ==
  /\ Core(q) /\ SameWishes(s, q) /\ Hears(q)
  /\ ~q.enabled => q.radio = "idle"
  /\ job.kind \notin {"Connect", "Enable"} /\ job.stage # 50 => HonestC6(q)
  /\ job.stage = 11 => q.storage = "ram"
  /\ job.stage = 12 => ~Joining(q) /\ q.cfg = Wanted(q)
  /\ job.stage = 13 => q.cfg = Wanted(q) /\ ~Heard1(q, "connected")

\* Which stage may follow which.
LEMMA FitsNext ==
  ASSUME NEW job, Fits(job), NEW j \in Jobs, j.kind = job.kind,
         \/ job.stage \in {1, 2, 6, 7} /\ j.stage = job.stage + 1
         \/ job.stage = 3 /\ j.stage = IF job.kind = "Enable" THEN 4 ELSE 6
         \/ job.stage = 4 /\ j.stage = 5
         \/ job.stage = 5 /\ j.stage \in {6, 9}
         \/ job.stage = 9 /\ j.stage = 6
         \/ job.stage = 8 /\ job.kind = "Scan" /\ j.stage = 20
         \/ job.stage = 8 /\ job.kind = "Disable" /\ j.stage = 30
         \/ job.stage = 8 /\ job.kind = "Forget" /\ j.stage = 50
         \/ job.stage = 8 /\ job.kind \in {"Connect", "Retry", "Enable"} /\ j.stage = 10
         \/ job.stage \in {10, 11, 12, 15} /\ j.stage \in {11, 12, 13, 15}
         \/ job.stage = 20 /\ j.stage = 21
         \/ job.stage = 21 /\ j.stage = 22
         \/ job.stage = 30 /\ j.stage = 31
         \/ job.stage \in OffStages /\ j.stage \in OffStages
         \/ job.stage \in {40, 41, 42} /\ j.stage \in {41, 42, 43}
         \/ job.stage = 50 /\ j.stage \in {31, 51}
  PROVE  Fits(j)
<1>1. job.kind \in Kinds
  BY DEF Fits, Jobs
<1>2. CASE job.kind = "Scan"
  BY <1>2 DEF Fits, BringUpStages, OffStages
<1>3. CASE job.kind \in {"Connect", "Retry"}
  BY <1>3 DEF Fits, BringUpStages, JoinStages, OffStages
<1>4. CASE job.kind = "Enable"
  BY <1>4 DEF Fits, BringUpStages, JoinStages, OffStages
<1>5. CASE job.kind = "Disable"
  BY <1>5 DEF Fits, BringUpStages, OffStages
<1>6. CASE job.kind = "Forget"
  BY <1>6 DEF Fits, BringUpStages, OffStages
<1>7. CASE job.kind = "Associated"
  BY <1>7 DEF Fits, OffStages
<1> QED BY <1>1, <1>2, <1>3, <1>4, <1>5, <1>6, <1>7 DEF Kinds

\* Going on to a stage that has no condition on the C6.
LEMMA NextStageCarried ==
  ASSUME NEW s, NEW job, Doing(s, job), NEW q, Answered(s, job, q), job.stage # 50,
         NEW n \in Stages \ {0, 1, 12, 13}, Fits(At(job, n)),
         n \in OffStages => s.cred = None /\ (job.kind = "Forget" => ~s.enabled),
         n \in JoinStages /\ job.kind = "Enable" => s.enabled
  PROVE  Carried(s, job, Keep(q, At(job, n)))
<1> DEFINE j == At(job, n)
<1>1. job \in Jobs
  BY DEF Doing, Placed, Fits
<1>2. j \in Jobs /\ j.kind = job.kind /\ j.token = job.token /\ j.stage = n /\ Fits(j)
  BY <1>1, AtShape
<1> HIDE DEF j
<1>3. Core(q) /\ SameWishes(s, q) /\ q.session # "none"
  BY DEF Answered, Hears
<1>4. Placed(q, j)
  BY <1>2, <1>3, EasyStage
<1>5. Carried(s, job, Keep(q, j))
  BY <1>2, <1>3, <1>4, KeepsOn DEF Answered
<1> QED BY <1>5 DEF j

\* The station is asked to forget what it has heard, and to join.
LEMMA DeafShape ==
  ASSUME NEW s \in Manager, NEW t, t = NoEvents(s)
  PROVE  /\ t \in Manager /\ SameWishes(s, t) /\ t.session = s.session /\ t.radio = s.radio
         /\ t.events = <<>> /\ t.nvs = s.nvs /\ t.cfg = s.cfg /\ t.storage = s.storage
<1>1. t \in Manager
  BY SimpleTyped
<1> QED BY <1>1 DEF NoEvents, Manager, SameWishes, SameOrders, SameJobs

\* Forgetting the events unread is allowed after an answer.
LEMMA DeafAnswered ==
  ASSUME NEW s, NEW job, NEW q, Answered(s, job, q)
  PROVE  Answered(s, job, NoEvents(q)) /\ NoEvents(q).events = <<>>
<1> DEFINE t == NoEvents(q)
<1>1. Core(q) /\ q \in Manager
  BY DEF Answered, Core
<1>2. /\ t \in Manager /\ SameWishes(q, t) /\ t.session = q.session /\ t.radio = q.radio
      /\ t.events = <<>> /\ t.nvs = q.nvs /\ t.cfg = q.cfg /\ t.storage = q.storage
  BY <1>1, DeafShape
<1> HIDE DEF t
<1>3. ~Heard1(t, "connected") /\ Timed(t)
  BY <1>1, <1>2, ConstantsAssumption DEF Heard1, Core, Timed, Clocked, SameWishes
<1>4. SameWishes(s, t)
  BY <1>2 DEF Answered, SameWishes, SameOrders, SameJobs
<1>5. Core(t)
  BY <1>1, <1>2, <1>3 DEF Core, Later, StackHasLink, FlashIsProven, Proven, SameWishes, SameOrders,
     SameJobs
<1>6. HonestC6(q) => HonestC6(t)
  BY <1>2, <1>3 DEF HonestC6, Hears, Joining, SameWishes
<1>7. Hears(t) /\ (~t.enabled => t.radio = "idle")
  BY <1>2 DEF Answered, Hears, SameWishes, SameOrders
<1>8. /\ job.stage = 11 => t.storage = "ram"
      /\ job.stage = 12 => ~Joining(t) /\ t.cfg = Wanted(t)
      /\ job.stage = 13 => t.cfg = Wanted(t)
  BY <1>2 DEF Answered, Joining, Wanted, SameWishes
<1>9. Answered(s, job, t)
  BY <1>3, <1>4, <1>5, <1>6, <1>7, <1>8 DEF Answered
<1> QED BY <1>2, <1>9 DEF t

\* The stages that only go on to the next.
LEMMA BringUpCarried ==
  ASSUME NEW s, NEW job, Doing(s, job), NEW q, Answered(s, job, q),
         job.stage \in {1, 2, 3, 5, 6, 7, 9, 20, 21, 31, 32, 33, 34, 40, 41}
  PROVE  Carried(s, job, Accepted(q, job))
<1> DEFINE n == CASE job.stage = 3 -> IF job.kind = "Enable" THEN 4 ELSE 6
                  [] job.stage = 5 -> IF q.saved THEN 6 ELSE 9
                  [] job.stage = 9 -> 6
                  [] job.stage = 31 -> IF q.saved THEN 34 ELSE 32
                  [] OTHER -> job.stage + 1
<1>1. Accepted(q, job) = Keep(q, At(job, n))
  BY DEF Accepted
<1>2. Fits(job) /\ job \in Jobs /\ Placed(s, job)
  BY DEF Doing, Placed, Fits
<1>3. /\ job.stage \in {1, 2, 6, 7} => n = job.stage + 1
      /\ job.stage = 3 => n = IF job.kind = "Enable" THEN 4 ELSE 6
      /\ job.stage = 5 => n \in {6, 9}
      /\ job.stage = 9 => n = 6
      /\ job.stage = 20 => n = 21
      /\ job.stage = 21 => n = 22
      /\ job.stage = 31 => n \in {32, 34}
      /\ job.stage \in {32, 33, 34} => n \in {33, 34, 35}
      /\ job.stage \in {40, 41} => n \in {41, 42}
  OBVIOUS
<1> HIDE DEF n
<1>4. n \in {2, 3, 4, 6, 7, 8, 9, 21, 22, 32, 33, 34, 35, 41, 42}
  BY <1>3
<1>5. n \in Stages \ {0, 1, 12, 13} /\ n \notin JoinStages
  BY <1>4 DEF Stages, JoinStages
<1>6. At(job, n) \in Jobs /\ At(job, n).kind = job.kind /\ At(job, n).stage = n
  BY <1>2, <1>5, AtShape
<1>7. Fits(At(job, n))
  <2>1. job.stage \in {31, 32, 33, 34} => job.stage \in OffStages /\ n \in OffStages
    BY <1>3 DEF OffStages
  <2> QED BY <1>2, <1>3, <1>6, <2>1, FitsNext
<1>8. n \in OffStages => s.cred = None /\ (job.kind = "Forget" => ~s.enabled)
  <2>1. n \in OffStages => job.stage \in OffStages
    BY <1>3 DEF OffStages
  <2> QED BY <1>2, <2>1 DEF Placed
<1>9. job.stage # 50
  OBVIOUS
<1> QED BY <1>1, <1>5, <1>7, <1>8, <1>9, NextStageCarried

\* The stages that change what the manager wishes for.
LEMMA DoingCarried ==
  ASSUME NEW s, NEW job, NEW q, NEW j, Doing(q, j), q.gui = s.gui, q.reply = s.reply,
         j.token = job.token, NEW t, t = Keep(q, j)
  PROVE  Carried(s, job, t)
<1>1. Sound(t) /\ SameOrders(q, t) /\ t.job = j /\ t.job # None
  BY DoingSound
<1> QED BY <1>1 DEF Carried, SameOrders

\* Stage 4: what the flash holds decides what Enable does.
LEMMA ProfileReadCarried ==
  ASSUME NEW s, NEW job, Doing(s, job), NEW q, Answered(s, job, q), job.stage = 4
  PROVE  Carried(s, job, Accepted(q, job))
<1> DEFINE found == q.cfg \in Networks
           c == IF found THEN q.cfg ELSE q.cred
           x == [q EXCEPT !.saved = found, !.cred = c]
           j == At(job, 5)
<1>1. q \in Manager /\ job \in Jobs /\ Fits(job)
  BY DEF Doing, Placed, Fits, Answered, Core
<1>2. Accepted(q, job) = Keep(x, j)
  BY DEF Accepted
<1>3. j \in Jobs /\ j.kind = job.kind /\ j.token = job.token /\ j.stage = 5
  BY <1>1, AtShape DEF Stages
<1> HIDE DEF j
<1>4. job.kind = "Enable" /\ Fits(j)
  <2>1. Fits(j)
    BY <1>1, <1>3, FitsNext
  <2>2. job.kind \in Kinds
    BY <1>1 DEF Jobs
  <2> QED BY <1>1, <2>1, <2>2 DEF Fits, BringUpStages, JoinStages, OffStages, Kinds
<1>5. found \in BOOLEAN /\ c \in Networks \cup {None}
  BY <1>1 DEF Manager
<1> HIDE DEF found, c
<1>6. x \in Manager
  BY <1>1, <1>5, Fields
<1>7. /\ SameC6(q, x) /\ SameOrders(q, x) /\ SameJobs(q, x) /\ x.stack = q.stack
      /\ x.phase = q.phase /\ x.armed = q.armed
  BY <1>1 DEF Manager, SameC6, SameOrders, SameJobs
<1> HIDE DEF x
<1>8. x.followup = None /\ x.session # "none"
  BY <1>4, <1>7 DEF Doing, Placed, Answered, Hears, SameC6, SameWishes, SameJobs
<1>9. Core(x)
  BY <1>6, <1>7, <1>8 DEF Answered, Core, Later, Timed, Clocked, StackHasLink, FlashIsProven, SameC6,
     SameOrders, SameJobs
<1>10. Placed(x, j)
  BY <1>3, <1>4, <1>8 DEF Placed, OffStages, JoinStages
<1>11. Doing(x, j)
  BY <1>3, <1>4, <1>7, <1>9, <1>10 DEF Doing, Answered, SameC6, SameOrders
<1>12. x.gui = s.gui /\ x.reply = s.reply
  BY <1>7 DEF Answered, SameWishes, SameOrders
<1> QED BY <1>2, <1>3, <1>11, <1>12, DoingCarried

\* Wi-Fi is on from here.
LEMMA TurnedOn ==
  ASSUME NEW q, Core(q), q.followup = None,
         NEW on, on = To([q EXCEPT !.enabled = TRUE], "Idle")
  PROVE  /\ Core(on) /\ on.enabled /\ SameC6(q, on) /\ on.cred = q.cred /\ on.phase = "Idle"
         /\ on.gui = q.gui /\ on.reply = q.reply /\ on.followup = None
<1> DEFINE x == [q EXCEPT !.enabled = TRUE]
<1>1. q \in Manager
  BY DEF Core
<1>2. x \in Manager
  BY <1>1, Fields
<1>3. /\ SameC6(q, x) /\ SameJobs(q, x) /\ x.stack = q.stack /\ x.cred = q.cred /\ x.enabled
      /\ x.startup = q.startup /\ x.gui = q.gui /\ x.reply = q.reply
  BY <1>1 DEF Manager, SameC6, SameJobs
<1> HIDE DEF x
<1>4. on = To(x, "Idle")
  BY DEF x
<1>5. on \in Manager
  BY <1>2, <1>4, ToTyped, PhaseTyped
<1>6. /\ SameC6(x, on) /\ SameOrders(x, on) /\ SameJobs(x, on) /\ on.stack = x.stack
      /\ on.cred = x.cred /\ on.phase = "Idle" /\ Clocked(on)
  BY <1>2, <1>4, ToShape, PhaseTyped
<1>7. /\ SameC6(q, on) /\ on.job = None /\ on.followup = None /\ on.stack = q.stack
      /\ on.cred = q.cred /\ on.enabled /\ ~on.startup /\ on.gui = q.gui /\ on.reply = q.reply
  BY <1>3, <1>6, ZenonT(40) DEF Core, SameC6, SameOrders, SameJobs
<1>8. Later(on) /\ Timed(on) /\ StackHasLink(on) /\ FlashIsProven(on)
  BY <1>6, <1>7 DEF Core, Later, Timed, StackHasLink, FlashIsProven, SameC6
<1> QED BY <1>5, <1>6, <1>7, <1>8 DEF Core

\* Stage 8: the C6 is up, and each kind of job starts its own work.
LEMMA InitializedCarried ==
  ASSUME NEW s, NEW job, Doing(s, job), NEW q, Answered(s, job, q), job.stage = 8
  PROVE  Carried(s, job, Accepted(q, job))
<1>1. q \in Manager /\ job \in Jobs /\ Fits(job) /\ job.kind \in Kinds /\ Core(q)
  BY DEF Doing, Placed, Fits, Answered, Core, Jobs
<1>2. Accepted(q, job) = Initialized(q, job)
  BY DEF Accepted
<1>3. CASE job.kind \in {"Scan", "Disable", "Forget", "Connect", "Retry"}
  <2> DEFINE n == CASE job.kind = "Scan" -> 20
                    [] job.kind = "Disable" -> 30
                    [] job.kind = "Forget" -> 50
                    [] OTHER -> 10
  <2>1. Initialized(q, job) = Keep(q, At(job, n))
    BY <1>3 DEF Initialized
  <2>2. /\ n \in {20, 30, 50, 10}
        /\ job.kind = "Scan" => n = 20
        /\ job.kind = "Disable" => n = 30
        /\ job.kind = "Forget" => n = 50
        /\ job.kind \in {"Connect", "Retry"} => n = 10
    OBVIOUS
  <2> HIDE DEF n
  <2>3. n \in Stages \ {0, 1, 12, 13} /\ n \notin OffStages
    BY <2>2 DEF Stages, OffStages
  <2>4. At(job, n) \in Jobs /\ At(job, n).kind = job.kind /\ At(job, n).stage = n
    BY <1>1, <2>3, AtShape
  <2>5. Fits(At(job, n))
    BY <1>1, <1>3, <2>2, <2>4, FitsNext
  <2>6. job.kind # "Enable" /\ job.stage # 50
    BY <1>3
  <2> QED BY <1>2, <2>1, <2>3, <2>5, <2>6, NextStageCarried
<1>4. CASE job.kind = "Enable"
  <2> DEFINE on == To([q EXCEPT !.enabled = TRUE], "Idle")
  <2>1. q.followup = None
    BY <1>4 DEF Doing, Placed, Answered, SameWishes, SameJobs
  <2>2. /\ Core(on) /\ on.enabled /\ SameC6(q, on) /\ on.cred = q.cred /\ on.phase = "Idle"
        /\ on.gui = q.gui /\ on.reply = q.reply /\ on.followup = None
    BY <1>1, <2>1, TurnedOn
  <2>3. on.gui = s.gui /\ on.reply = s.reply
    BY <2>2 DEF Answered, SameWishes, SameOrders
  <2>4. CASE q.cred # None
    <3> DEFINE x == [on EXCEPT !.source = "Menu", !.policy = "Dhcp", !.attempt = 1]
               j == At(job, 10)
    <3>1. Initialized(q, job) = Keep(x, j)
      BY <1>4, <2>4 DEF Initialized
    <3> HIDE DEF on
    <3>2. j \in Jobs /\ j.kind = "Enable" /\ j.token = job.token /\ j.stage = 10
      BY <1>1, <1>4, AtShape DEF Stages
    <3> HIDE DEF j
    <3>3. Fits(j)
      BY <1>1, <1>4, <3>2, FitsNext
    <3>4. x \in Manager
      BY <2>2, Fields DEF Core
    <3>5. /\ SameC6(on, x) /\ SameOrders(on, x) /\ SameJobs(on, x) /\ x.stack = on.stack
          /\ x.phase = on.phase /\ x.armed = on.armed /\ x.cred = on.cred
      BY <2>2 DEF Core, Manager, SameC6, SameOrders, SameJobs
    <3> HIDE DEF x
    <3>6. x.followup = None /\ x.session # "none" /\ x.enabled
      BY <2>2, <3>5 DEF Answered, Hears, SameC6, SameOrders, SameJobs
    <3>7. Core(x)
      BY <2>2, <3>4, <3>5, <3>6 DEF Core, Later, Timed, Clocked, StackHasLink, FlashIsProven, SameC6,
         SameOrders, SameJobs
    <3>8. Placed(x, j)
      BY <3>2, <3>3, <3>6 DEF Placed, OffStages
    <3>9. Doing(x, j)
      BY <3>2, <3>6, <3>7, <3>8 DEF Doing
    <3>10. x.gui = s.gui /\ x.reply = s.reply
      BY <2>3, <3>5 DEF SameOrders
    <3> QED BY <1>2, <3>1, <3>2, <3>9, <3>10, DoingCarried
  <2>5. CASE q.cred = None
    <3>1. Initialized(q, job) = Answer(on, job)
      BY <1>4, <2>5 DEF Initialized
    <3> HIDE DEF on
    <3>2. Alone(on)
      BY <2>2, <2>5 DEF Alone, HonestC6, Proven
    <3>3. Carried(on, job, Answer(on, job))
      BY <1>1, <3>2, AnswerAlone
    <3> QED BY <1>2, <2>3, <3>1, <3>3 DEF Carried
  <2> QED BY <2>4, <2>5
<1>5. job.kind # "Associated"
  BY <1>1 DEF Fits
<1> QED BY <1>1, <1>3, <1>4, <1>5 DEF Kinds

\* Stages 10 to 12: storage in memory, then the configuration.
LEMMA JoinStageCarried ==
  ASSUME NEW s, NEW job, Doing(s, job), NEW q, Answered(s, job, q), job.stage \in {10, 11, 12}
  PROVE  Carried(s, job, Accepted(q, job))
<1>1. q \in Manager /\ job \in Jobs /\ Fits(job) /\ job.kind \in Kinds
  BY DEF Doing, Placed, Fits, Answered, Core, Jobs
<1>2. job.kind = "Enable" => s.enabled
  BY DEF Doing, Placed, JoinStages
<1>3. job.stage # 50
  OBVIOUS
<1>4. Answered(s, job, NoEvents(q)) /\ NoEvents(q).events = <<>>
  BY DeafAnswered
<1>5. ASSUME NEW n \in {11, 12, 13, 15}, NEW j, j = At(job, n)
      PROVE  j \in Jobs /\ Fits(j) /\ j.kind = job.kind /\ j.token = job.token /\ j.stage = n
  <2>1. n \in Stages
    BY DEF Stages
  <2>2. j \in Jobs /\ j.kind = job.kind /\ j.token = job.token /\ j.stage = n
    BY <1>1, <1>5, <2>1, AtShape
  <2> QED BY <1>1, <2>2, FitsNext
<1>6. ASSUME NEW n \in {11, 15}
      PROVE  n \in Stages \ {0, 1, 12, 13} /\ n \notin OffStages /\ Fits(At(job, n))
  BY <1>5 DEF Stages, OffStages
<1>7. CASE job.stage = 10 /\ Associating(q)
  <2>1. Accepted(q, job) = Keep(q, At(job, 15))
    BY <1>7 DEF Accepted
  <2> QED BY <1>2, <1>3, <1>6, <2>1, NextStageCarried
<1>8. CASE job.stage = 10 /\ ~Associating(q)
  <2>1. Accepted(q, job) = Keep(NoEvents(q), At(job, 11))
    BY <1>8 DEF Accepted
  <2> QED BY <1>2, <1>3, <1>4, <1>6, <2>1, NextStageCarried
<1>9. CASE job.stage = 11
  <2> DEFINE j == At(job, 12)
  <2>1. Accepted(q, job) = Keep(q, j)
    BY <1>9 DEF Accepted
  <2>2. j \in Jobs /\ Fits(j) /\ j.kind = job.kind /\ j.token = job.token /\ j.stage = 12
    BY <1>5
  <2> HIDE DEF j
  <2>3. q.storage = "ram" /\ q.session # "none" /\ Core(q) /\ SameWishes(s, q)
    BY <1>9 DEF Answered, Hears
  <2>4. Placed(q, j)
    BY <1>2, <2>2, <2>3 DEF Doing, Placed, OffStages, SameWishes, SameOrders, SameJobs
  <2> QED BY <1>3, <2>1, <2>2, <2>3, <2>4, KeepsOn DEF Answered
<1>10. CASE job.stage = 12
  <2> DEFINE j == At(job, 13)
             deaf == NoEvents(q)
  <2>1. Accepted(q, job) = Keep(deaf, j)
    BY <1>10 DEF Accepted
  <2>2. j \in Jobs /\ Fits(j) /\ j.kind = job.kind /\ j.token = job.token /\ j.stage = 13
    BY <1>5
  <2> HIDE DEF j
  <2>3. Answered(s, job, deaf) /\ deaf.events = <<>>
    BY <1>4
  <2> HIDE DEF deaf
  <2>4. ~Joining(deaf) /\ ~Heard1(deaf, "connected") /\ deaf.cfg = Wanted(deaf)
    BY <1>10, <2>3 DEF Answered, Heard1
  <2>5. deaf.session # "none" /\ Core(deaf) /\ SameWishes(s, deaf)
    BY <2>3 DEF Answered, Hears
  <2>6. Placed(deaf, j)
    BY <1>2, <2>2, <2>4, <2>5 DEF Doing, Placed, OffStages, Wanted, SameWishes, SameOrders, SameJobs
  <2> QED BY <1>3, <2>1, <2>2, <2>3, <2>5, <2>6, KeepsOn DEF Answered
<1> QED BY <1>7, <1>8, <1>9, <1>10

\* Stage 13: the C6 has been asked to join.
LEMMA JoinAskedCarried ==
  ASSUME NEW s, NEW job, Doing(s, job), NEW q, Answered(s, job, q), job.stage = 13
  PROVE  Carried(s, job, Accepted(q, job))
<1> DEFINE x == To(q, "Associating")
<1>1. q \in Manager /\ job \in Jobs /\ Core(q)
  BY DEF Doing, Placed, Fits, Answered, Core
<1>2. Accepted(q, job) = Answer(x, job)
  BY DEF Accepted
<1>3. /\ SameC6(q, x) /\ SameOrders(q, x) /\ SameJobs(q, x) /\ x.stack = q.stack
      /\ x.cred = q.cred /\ x.phase = "Associating" /\ Clocked(x)
  BY <1>1, ToShape, PhaseTyped
<1>4. x \in Manager
  BY <1>1, ToTyped, PhaseTyped
<1> HIDE DEF x
<1>5. Core(x)
  BY <1>1, <1>3, <1>4 DEF Core, Later, Timed, StackHasLink, FlashIsProven, Proven, SameC6, SameOrders,
     SameJobs
<1>6. ~x.enabled => x.radio = "idle" /\ x.cred = None
  <2>1. job.kind # "Enable" \/ s.enabled
    BY DEF Doing, Placed, JoinStages
  <2> QED BY <1>3, <2>1 DEF Doing, Answered, SameC6, SameWishes, SameOrders
<1>7. HonestC6(x)
  BY <1>3 DEF Answered, HonestC6, Wanted, Heard1, SameC6
<1>8. Alone(x)
  BY <1>3, <1>5, <1>6, <1>7 DEF Alone
<1>9. Carried(x, job, Answer(x, job))
  BY <1>1, <1>8, AnswerAlone
<1>10. x.gui = s.gui /\ x.reply = s.reply
  BY <1>3 DEF Answered, SameWishes, SameOrders
<1> QED BY <1>2, <1>9, <1>10 DEF Carried

\* Orders to forget: what was wished for goes, and with it all that could
\* be joined.
LEMMA ClearedCarried ==
  ASSUME NEW s, NEW job, Doing(s, job), job.kind \in {"Disable", "Forget"},
         NEW q, Answered(s, job, q), NEW x \in Manager, SameC6(q, x), SameOrders(q, x),
         SameJobs(q, x), x.stack \in {"none", q.stack}, x.phase = q.phase, x.armed = q.armed,
         x.cred = None, ~x.savePending,
         NEW n \in Stages \ {0, 1, 12, 13}, Fits(At(job, n)),
         n \in OffStages => (job.kind = "Forget" => ~s.enabled)
  PROVE  Carried(s, job, Keep(x, At(job, n)))
<1> DEFINE j == At(job, n)
<1>1. job \in Jobs
  BY DEF Doing, Placed, Fits
<1>2. j \in Jobs /\ j.kind = job.kind /\ j.token = job.token /\ j.stage = n /\ Fits(j)
  BY <1>1, AtShape
<1> HIDE DEF j
<1>3. Core(x)
  BY DEF Answered, Core, Later, Timed, Clocked, StackHasLink, FlashIsProven, Proven, SameC6, SameOrders,
     SameJobs
<1>4. /\ x.followup = s.followup /\ x.enabled = s.enabled /\ x.session # "none"
      /\ x.gui = s.gui /\ x.reply = s.reply
  BY DEF Answered, Hears, SameC6, SameWishes, SameOrders, SameJobs
<1>5. j.stage \notin {0, 1, 12, 13} /\ j.kind # "Enable"
  BY <1>2
<1>6. Placed(x, j)
  BY <1>2, <1>4, <1>5 DEF Placed, Doing
<1>7. HonestC6(x)
  BY DEF HonestC6, Proven
<1>8. ~x.enabled => x.radio = "idle" /\ j.kind \in {"Enable", "Forget"}
  BY <1>2, <1>4 DEF Doing, Answered, SameC6, SameWishes, SameOrders
<1>9. Doing(x, j)
  BY <1>2, <1>3, <1>6, <1>7, <1>8 DEF Doing, RetryIsActive
<1>10. Carried(s, job, Keep(x, j))
  BY <1>2, <1>4, <1>9, DoingCarried
<1> QED BY <1>10 DEF j

\* Stages 30 and 50: the station is told to leave, and the profile erased.
LEMMA ForgetStageCarried ==
  ASSUME NEW s, NEW job, Doing(s, job), NEW q, Answered(s, job, q), job.stage \in {30, 50}
  PROVE  Carried(s, job, Accepted(q, job))
<1> DEFINE clear == ClearCredentials(q)
<1>1. q \in Manager /\ job \in Jobs /\ Fits(job) /\ job.kind \in Kinds
  BY DEF Doing, Placed, Fits, Answered, Core, Jobs
<1>2. /\ job.kind \in {"Disable", "Forget"}
      /\ (job.stage = 30 <=> job.kind = "Disable") /\ (job.stage = 50 <=> job.kind = "Forget")
  BY <1>1 DEF Fits, Kinds, BringUpStages, JoinStages, OffStages
<1>3. clear \in Manager
  BY <1>1, SimpleTyped
<1>4. /\ SameC6(q, clear) /\ SameOrders(q, clear) /\ SameJobs(q, clear) /\ clear.stack = q.stack
      /\ clear.phase = q.phase /\ clear.armed = q.armed /\ clear.cred = None /\ ~clear.savePending
  BY <1>1 DEF ClearCredentials, Manager, SameC6, SameOrders, SameJobs
<1>5. CASE job.stage = 30
  <2> DEFINE x == [clear EXCEPT !.stack = "none", !.source = "none"]
  <2>1. Accepted(q, job) = Keep(x, At(job, 31))
    BY <1>5 DEF Accepted
  <2> HIDE DEF clear
  <2>2. x \in Manager
    BY <1>3, Fields
  <2>3. /\ SameC6(clear, x) /\ SameOrders(clear, x) /\ SameJobs(clear, x) /\ x.stack = "none"
        /\ x.phase = clear.phase /\ x.armed = clear.armed /\ x.cred = clear.cred
        /\ x.savePending = clear.savePending
    BY <1>3 DEF Manager, SameC6, SameOrders, SameJobs
  <2> HIDE DEF x
  <2>4. /\ SameC6(q, x) /\ SameOrders(q, x) /\ SameJobs(q, x) /\ x.stack \in {"none", q.stack}
        /\ x.phase = q.phase /\ x.armed = q.armed /\ x.cred = None /\ ~x.savePending
    BY <1>4, <2>3 DEF SameC6, SameOrders, SameJobs
  <2>5. 31 \in Stages \ {0, 1, 12, 13}
    BY DEF Stages
  <2>6. Fits(At(job, 31))
    <3>1. At(job, 31) \in Jobs /\ At(job, 31).kind = job.kind /\ At(job, 31).stage = 31
      BY <1>1, <2>5, AtShape
    <3> QED BY <1>1, <1>5, <3>1, FitsNext
  <2>7. job.kind # "Forget"
    BY <1>2, <1>5
  <2> QED BY <1>2, <2>1, <2>2, <2>4, <2>5, <2>6, <2>7, ClearedCarried
<1>6. CASE job.stage = 50
  <2> DEFINE x == [clear EXCEPT !.source = "none", !.saved = FALSE]
             n == IF q.enabled THEN 51 ELSE 31
  <2>1. Accepted(q, job) = Keep(x, At(job, n))
    BY <1>6 DEF Accepted
  <2>2. n \in {31, 51} /\ (n = 31 => ~q.enabled)
    OBVIOUS
  <2> HIDE DEF clear, n
  <2>3. x \in Manager
    BY <1>3, Fields
  <2>4. /\ SameC6(clear, x) /\ SameOrders(clear, x) /\ SameJobs(clear, x) /\ x.stack = clear.stack
        /\ x.phase = clear.phase /\ x.armed = clear.armed /\ x.cred = clear.cred
        /\ x.savePending = clear.savePending
    BY <1>3 DEF Manager, SameC6, SameOrders, SameJobs
  <2> HIDE DEF x
  <2>5. /\ SameC6(q, x) /\ SameOrders(q, x) /\ SameJobs(q, x) /\ x.stack \in {"none", q.stack}
        /\ x.phase = q.phase /\ x.armed = q.armed /\ x.cred = None /\ ~x.savePending
    BY <1>4, <2>4 DEF SameC6, SameOrders, SameJobs
  <2>6. n \in Stages \ {0, 1, 12, 13}
    BY <2>2 DEF Stages
  <2>7. Fits(At(job, n))
    <3>1. At(job, n) \in Jobs /\ At(job, n).kind = job.kind /\ At(job, n).stage = n
      BY <1>1, <2>6, AtShape
    <3> QED BY <1>1, <1>6, <2>2, <3>1, FitsNext
  <2>8. n \in OffStages => ~s.enabled
    BY <2>2 DEF Answered, SameWishes, SameOrders, OffStages
  <2> QED BY <1>2, <2>1, <2>3, <2>5, <2>6, <2>7, <2>8, ClearedCarried
<1> QED BY <1>5, <1>6

\* An answer after which the job is over.
LEMMA AnsweredAlone ==
  ASSUME NEW s, NEW job, Doing(s, job), NEW q, Answered(s, job, q),
         job.kind \notin {"Connect", "Enable"}, s.enabled \/ job.kind = "Forget", job.stage # 50
  PROVE  Alone(q) /\ q.gui = s.gui /\ q.reply = s.reply
BY DEF Doing, Answered, Alone, RetryIsActive, SameWishes, SameOrders

\* The last stages of a scan, of forgetting and of saving.
LEMMA LastStageCarried ==
  ASSUME NEW s, NEW job, Doing(s, job), NEW q, Answered(s, job, q), job.stage \in {22, 51, 43}
  PROVE  Carried(s, job, Accepted(q, job))
<1>1. q \in Manager /\ job \in Jobs /\ Fits(job) /\ job.kind \in Kinds
  BY DEF Doing, Placed, Fits, Answered, Core, Jobs
<1>2. job.kind \in {"Scan", "Forget", "Associated"} /\ (job.kind = "Associated" <=> job.stage = 43)
  BY <1>1 DEF Fits, Kinds, BringUpStages, JoinStages, OffStages
<1>3. s.enabled \/ job.kind = "Forget"
  BY <1>2 DEF Doing
<1>4. Alone(q) /\ q.gui = s.gui /\ q.reply = s.reply
  BY <1>2, <1>3, AnsweredAlone
<1>5. CASE job.stage \in {22, 51}
  <2>1. Accepted(q, job) = Answer(q, job)
    BY <1>5 DEF Accepted
  <2>2. Carried(q, job, Answer(q, job))
    BY <1>1, <1>4, AnswerAlone
  <2> QED BY <1>4, <2>1, <2>2 DEF Carried
<1>6. CASE job.stage = 43
  <2> DEFINE asked == [q EXCEPT !.stack = "waiting"]
             x == To(asked, "RequestingDhcp")
  <2>1. Accepted(q, job) = Answer(x, job)
    BY <1>6 DEF Accepted
  <2>2. asked \in Manager
    BY <1>1, Fields
  <2>3. /\ SameC6(q, asked) /\ SameOrders(q, asked) /\ SameJobs(q, asked)
        /\ asked.stack = "waiting" /\ asked.cred = q.cred
    BY <1>1 DEF Manager, SameC6, SameOrders, SameJobs
  <2> HIDE DEF asked
  <2>4. x \in Manager
    BY <2>2, ToTyped, PhaseTyped
  <2>5. /\ SameC6(asked, x) /\ SameOrders(asked, x) /\ SameJobs(asked, x) /\ x.stack = asked.stack
        /\ x.cred = asked.cred /\ x.phase = "RequestingDhcp" /\ Clocked(x)
    BY <2>2, ToShape, PhaseTyped
  <2> HIDE DEF x
  <2>6. /\ SameC6(q, x) /\ SameOrders(q, x) /\ SameJobs(q, x) /\ x.cred = q.cred
    BY <2>3, <2>5 DEF SameC6, SameOrders, SameJobs
  <2>7. x.session # "none"
    BY <2>6 DEF Answered, Hears, SameC6
  <2>8. Core(x)
    BY <1>4, <2>4, <2>5, <2>6, <2>7 DEF Alone, Core, Later, Timed, StackHasLink, FlashIsProven, Proven,
       SameC6, SameOrders, SameJobs
  <2>9. Alone(x)
    BY <1>4, <2>5, <2>6, <2>8 DEF Alone, HonestC6, Hears, Joining, Heard1, Proven, SameC6, SameOrders
  <2>10. Carried(x, job, Answer(x, job))
    BY <1>1, <2>9, AnswerAlone
  <2> QED BY <1>4, <2>1, <2>6, <2>10 DEF Carried, SameOrders
<1> QED BY <1>5, <1>6

\* Stage 42: the profile is in the flash.
LEMMA SavedStageCarried ==
  ASSUME NEW s, NEW job, Doing(s, job), NEW q, Answered(s, job, q), job.stage = 42
  PROVE  Carried(s, job, Accepted(q, job))
<1> DEFINE x == [q EXCEPT !.savePending = FALSE, !.saved = @ \/ ~job.failed]
           j == At(job, 43)
<1>1. q \in Manager /\ job \in Jobs /\ Fits(job) /\ job.kind \in Kinds /\ (~job.failed) \in BOOLEAN
  BY DEF Doing, Placed, Fits, Answered, Core, Jobs
<1>2. job.kind = "Associated"
  BY <1>1 DEF Fits, Kinds, BringUpStages, JoinStages, OffStages
<1>3. Accepted(q, job) = Keep(x, j)
  BY DEF Accepted
<1>4. j \in Jobs /\ j.kind = job.kind /\ j.token = job.token /\ j.stage = 43
  BY <1>1, AtShape DEF Stages
<1> HIDE DEF j
<1>5. Fits(j)
  BY <1>1, <1>4, FitsNext
<1>6. x \in Manager
  BY <1>1, SavedTyped
<1>7. /\ SameC6(q, x) /\ SameOrders(q, x) /\ SameJobs(q, x) /\ x.stack = q.stack
      /\ x.phase = q.phase /\ x.armed = q.armed /\ x.cred = q.cred /\ ~x.savePending
      /\ x.source = q.source
  BY <1>1 DEF Manager, SameC6, SameOrders, SameJobs
<1> HIDE DEF x
<1>8. s.enabled /\ Alone(q) /\ q.gui = s.gui /\ q.reply = s.reply
  BY <1>2, AnsweredAlone DEF Doing
<1>9. Core(x)
  BY <1>6, <1>7, <1>8 DEF Alone, Core, Later, Timed, Clocked, StackHasLink, FlashIsProven, Proven,
     SameC6, SameOrders, SameJobs
<1>10. HonestC6(x)
  BY <1>7, <1>8 DEF Alone, HonestC6, Hears, Joining, Heard1, Proven, SameC6
<1>11. Placed(x, j)
  BY <1>2, <1>4, <1>5 DEF Placed, OffStages
<1>12. x.enabled /\ Proven(x)
  BY <1>2, <1>7, <1>8 DEF Doing, Answered, Proven, SameWishes, SameOrders
<1>15. x.phase = "NeedsPassword" => ~RetryIsActive(x) /\ ~x.savePending
  BY <1>7, <1>8 DEF Alone, RetryIsActive
<1>13. Doing(x, j)
  BY <1>2, <1>4, <1>9, <1>10, <1>11, <1>12, <1>15 DEF Doing
<1>14. x.gui = s.gui /\ x.reply = s.reply
  BY <1>7, <1>8 DEF SameOrders
<1> QED BY <1>3, <1>4, <1>13, <1>14, DoingCarried

\* Stage 35: the last of turning off.
LEMMA OffStageCarried ==
  ASSUME NEW s, NEW job, Doing(s, job), NEW q, Answered(s, job, q), job.stage = 35
  PROVE  Carried(s, job, Accepted(q, job))
<1> DEFINE off == FinishGuiOff(q)
           told == Answer(off, job)
           t == [told EXCEPT !.kept = TRUE]
<1>1. q \in Manager /\ job \in Jobs /\ Fits(job) /\ job.kind \in Kinds /\ Core(q)
  BY DEF Doing, Placed, Fits, Answered, Core, Jobs
<1>2. Accepted(q, job) = t
  BY DEF Accepted
<1>3. q.followup = None
  <2>1. job.kind \in {"Disable", "Forget"} /\ job.stage \in OffStages
    BY <1>1 DEF Fits, Kinds, BringUpStages, JoinStages, OffStages
  <2>2. job.kind = "Forget" => ~q.enabled
    BY <2>1 DEF Doing, Placed, Answered, SameWishes, SameOrders
  <2> QED BY <1>1, <2>1, <2>2 DEF Doing, Placed, Core, Later, Answered, SameWishes, SameJobs
<1>4. Alone(off) /\ off.gui = q.gui /\ off.reply = q.reply
  BY <1>1, <1>3, FinishGuiOffAlone DEF Core
<1> HIDE DEF off
<1>5. off \in Manager
  BY <1>4 DEF Alone, Core
<1>6. Alone(told) /\ told.gui = off.gui /\ told.reply = (off.reply \/ job.token)
  BY <1>1, <1>4, <1>5, AnswerAlone, AnswerShape
<1> HIDE DEF told
<1>7. told \in Manager
  BY <1>6 DEF Alone, Core
<1>8. t \in Manager
  BY <1>7, Fields
<1>9. /\ SameC6(told, t) /\ SameOrders(told, t) /\ SameJobs(told, t) /\ t.stack = told.stack
      /\ t.phase = told.phase /\ t.armed = told.armed /\ t.cred = told.cred
      /\ t.savePending = told.savePending /\ t.source = told.source
  BY <1>7 DEF Manager, SameC6, SameOrders, SameJobs
<1> HIDE DEF t
<1>10. Core(t)
  BY <1>6, <1>8, <1>9 DEF Alone, Core, Later, Timed, Clocked, StackHasLink, FlashIsProven, Proven,
     SameC6, SameOrders, SameJobs
<1>11. Alone(t)
  BY <1>6, <1>9, <1>10 DEF Alone, HonestC6, RetryIsActive, Hears, Joining, Heard1, Proven, SameC6,
     SameOrders
<1>12. t.gui = s.gui /\ t.reply = (s.reply \/ job.token)
  BY <1>4, <1>6, <1>9 DEF Answered, SameWishes, SameOrders
<1> QED BY <1>2, <1>11, <1>12, EndCarried

\* Every stage whose request was accepted.
LEMMA AcceptedCarried ==
  ASSUME NEW s, NEW job, Doing(s, job), NEW q, Answered(s, job, q), job.stage \notin {0, 15}
  PROVE  Carried(s, job, Accepted(q, job))
<1>1. job.stage \in Stages
  BY DEF Doing, Placed, Fits, Jobs
<1>2. \/ job.stage \in {1, 2, 3, 5, 6, 7, 9, 20, 21, 31, 32, 33, 34, 40, 41}
      \/ job.stage = 4 \/ job.stage = 8 \/ job.stage \in {10, 11, 12} \/ job.stage = 13
      \/ job.stage \in {30, 50} \/ job.stage \in {22, 51, 43} \/ job.stage = 42 \/ job.stage = 35
  BY <1>1 DEF Stages
<1> QED BY <1>2, BringUpCarried, ProfileReadCarried, InitializedCarried, JoinStageCarried,
           JoinAskedCarried, ForgetStageCarried, LastStageCarried, SavedStageCarried, OffStageCarried

----------------------------------------------------------------------------
(* The step of a job.                                                      *)

\* What a request does to the C6, whoever reads its answer.
LEMMA RequestCore ==
  ASSUME NEW s, NEW job, Doing(s, job), s.session # "none", job.stage \notin {0, 15},
         NEW q, q = Requested(s, job.stage)
  PROVE  /\ Core(q) /\ SameWishes(s, q) /\ RequestDone(s, job.stage, q)
         /\ ~q.enabled => q.radio = "idle"
<1>1. s \in Manager /\ Len(s.events) <= MaxEvents /\ job.stage \in Stages /\ Placed(s, job)
  BY DEF Doing, Core, Timed, Placed, Fits, Jobs
<1>2. RequestDone(s, job.stage, q)
  BY <1>1, RequestedShape
<1>3. q \in Manager /\ SameWishes(s, q) /\ Len(q.events) <= MaxEvents
  BY <1>2 DEF RequestDone
<1>4. FlashIsProven(q)
  <2>1. FlashIsProven(s)
    BY DEF Doing, Core
  <2>2. CASE job.stage \notin {9, 12, 33, 41, 50}
    BY <1>2, <2>1, <2>2 DEF RequestDone, FlashIsProven
  <2>3. CASE job.stage \in {9, 33, 50}
    <3>1. q.nvs \in {s.nvs, Empty, OffMarker}
      BY <1>2, <2>3 DEF RequestDone
    <3> QED BY <2>1, <3>1, ConstantsAssumption DEF FlashIsProven
  <2>4. CASE job.stage = 12
    <3>1. s.storage = "ram"
      BY <1>1, <2>4 DEF Placed
    <3>2. q.nvs = s.nvs
      BY <1>2, <2>4, <3>1 DEF RequestDone
    <3> QED BY <2>1, <3>2 DEF FlashIsProven
  <2>5. CASE job.stage = 41
    <3>1. job.kind = "Associated"
      BY <1>1, <2>5 DEF Placed, Fits, Jobs, Kinds, BringUpStages, JoinStages, OffStages
    <3>2. Proven(s)
      BY <3>1 DEF Doing
    <3>3. q.nvs = s.nvs \/ q.nvs = Wanted(s)
      BY <1>2, <2>5 DEF RequestDone
    <3> QED BY <2>1, <3>2, <3>3, ConstantsAssumption DEF FlashIsProven, Proven, Wanted
  <2> QED BY <2>2, <2>3, <2>4, <2>5
<1>5. ~q.enabled => q.radio = "idle"
  <2>1. CASE job.stage = 13
    <3>1. job.kind \in {"Connect", "Retry", "Enable"}
      BY <1>1, <2>1 DEF Placed, Fits, Jobs, Kinds, BringUpStages, OffStages
    <3>2. s.enabled
      BY <2>1, <3>1 DEF Doing, Placed, JoinStages
    <3> QED BY <1>3, <3>2 DEF SameWishes, SameOrders
  <2>2. CASE job.stage # 13
    <3>1. s.radio = "idle" => q.radio = "idle"
      BY <1>2, <2>2 DEF RequestDone
    <3> QED BY <1>3, <3>1 DEF Doing, SameWishes, SameOrders
  <2> QED BY <2>1, <2>2
<1>6. q.stack # "none" => q.session # "none"
  BY <1>2, <1>3 DEF RequestDone
<1>7. Core(q)
  BY <1>3, <1>4, <1>6 DEF Doing, Core, Later, Timed, Clocked, StackHasLink, Proven, SameWishes,
     SameOrders, SameJobs
<1> QED BY <1>2, <1>3, <1>5, <1>7

\* A request that is done has been answered for the job that sent it,
LEMMA RequestAnswered ==
  ASSUME NEW s, NEW job, Doing(s, job), Hears(s), job.stage \notin {0, 15},
         job.stage = 12 => ~Joining(s), NEW q, q = Requested(s, job.stage)
  PROVE  Answered(s, job, q)
<1>1. /\ Core(q) /\ SameWishes(s, q) /\ RequestDone(s, job.stage, q)
      /\ ~q.enabled => q.radio = "idle"
  BY RequestCore DEF Hears
<1>2. Hears(q)
  BY <1>1 DEF RequestDone, Hears
<1>3. Placed(s, job) /\ q.cred = s.cred
  BY <1>1 DEF Doing, SameWishes
<1>4. ASSUME job.kind \notin {"Connect", "Enable"}, job.stage # 50 PROVE HonestC6(q)
  <2>1. HonestC6(s)
    BY <1>4 DEF Doing
  <2>2. CASE job.stage = 13
    <3>1. ~Heard1(q, "connected") /\ q.cfg = s.cfg /\ s.cfg = Wanted(s)
      BY <1>1, <1>3, <2>2 DEF RequestDone, Placed, Wanted
    <3> QED BY <1>3, <3>1 DEF HonestC6, Wanted
  <2>3. CASE job.stage # 13
    <3>1. Heard1(q, "connected") => Proven(q)
      BY <1>1, <1>3, <2>1, <2>3 DEF RequestDone, HonestC6, Heard1, Proven
    <3>2. Joining(q) => Joining(s)
      BY <1>1, <2>3 DEF RequestDone, Joining
    <3>3. Joining(q) => q.cred \in {None, q.cfg}
      <4>1. CASE job.stage \in {12, 41}
        BY <1>1, <1>3, <4>1 DEF RequestDone, Wanted
      <4>2. CASE job.stage \in OffStages
        BY <1>3, <4>2 DEF Placed
      <4>3. CASE job.stage = 1
        BY <1>3, <3>2, <4>3 DEF Placed
      <4>4. CASE job.stage = 9
        BY <1>3, <1>4, <4>4 DEF Placed, Fits, Jobs, Kinds, BringUpStages, JoinStages, OffStages
      <4>5. CASE job.stage \notin {12, 41, 1, 9, 50} /\ job.stage \notin OffStages
        <5>1. job.stage \notin {1, 9, 12, 33, 41, 50}
          BY <4>5 DEF OffStages
        <5>2. q.cfg = s.cfg
          BY <1>1, <5>1 DEF RequestDone
        <5> QED BY <1>3, <2>1, <3>2, <5>2 DEF HonestC6
      <4> QED BY <1>4, <4>1, <4>2, <4>3, <4>4, <4>5
    <3> QED BY <3>1, <3>3 DEF HonestC6
  <2> QED BY <2>2, <2>3
<1>5. job.stage = 11 => q.storage = "ram"
  BY <1>1 DEF RequestDone
<1>6. job.stage = 12 => ~Joining(q) /\ q.cfg = Wanted(q)
  BY <1>1, <1>3 DEF RequestDone, Joining, Wanted
<1>7. job.stage = 13 => q.cfg = Wanted(q) /\ ~Heard1(q, "connected")
  BY <1>1, <1>3 DEF RequestDone, Placed, Wanted
<1> QED BY <1>1, <1>2, <1>4, <1>5, <1>6, <1>7 DEF Answered

\* and so has one that changed nothing.
LEMMA SelfAnswered ==
  ASSUME NEW s, NEW job, Doing(s, job), Hears(s), job.stage \notin {11, 12, 13}
  PROVE  Answered(s, job, s)
BY DEF Doing, Answered, SameWishes, SameOrders, SameJobs

\* The job's marks do not matter to it.
LEMMA SameStageDoing ==
  ASSUME NEW s, NEW job, Doing(s, job), NEW j \in Jobs, j.kind = job.kind, j.stage = job.stage
  PROVE  Doing(s, j)
<1>1. Fits(j)
  BY DEF Doing, Placed, Fits
<1> QED BY <1>1 DEF Doing, Placed

\* A job with a mark set.
LEMMA FlagShape ==
  ASSUME NEW job \in Jobs
  PROVE  /\ [job EXCEPT !.sent = TRUE] \in Jobs /\ [job EXCEPT !.failed = TRUE] \in Jobs
         /\ [job EXCEPT !.sent = TRUE].kind = job.kind /\ [job EXCEPT !.failed = TRUE].kind = job.kind
         /\ [job EXCEPT !.sent = TRUE].stage = job.stage /\ [job EXCEPT !.failed = TRUE].stage = job.stage
         /\ [job EXCEPT !.sent = TRUE].token = job.token /\ [job EXCEPT !.failed = TRUE].token = job.token
BY DEF Jobs

\* A request the C6 refused: the job fails, or goes on where it may.
LEMMA RefusedCarried ==
  ASSUME NEW s, NEW job, Doing(s, job), Hears(s), job.stage \notin {0, 15}
  PROVE  Carried(s, job, Refused(s, job))
<1>1. job \in Jobs /\ Placed(s, job) /\ s.session # "none"
  BY DEF Doing, Placed, Fits, Hears
<1>2. CASE job.stage = 30
  <2>1. Refused(s, job) = Accepted(s, job)
    BY <1>2 DEF Refused
  <2> QED BY <1>2, <2>1, SelfAnswered, AcceptedCarried
<1>3. CASE job.stage \in {40, 41}
  <2> DEFINE at == At(job, 42)
             j == [at EXCEPT !.failed = TRUE]
  <2>1. Refused(s, job) = Keep(s, j)
    BY <1>3 DEF Refused
  <2>2. at \in Jobs /\ at.kind = job.kind /\ at.token = job.token /\ at.stage = 42
    BY <1>1, AtShape DEF Stages
  <2> HIDE DEF at
  <2>3. j \in Jobs /\ j.kind = job.kind /\ j.token = job.token /\ j.stage = 42
    BY <2>2, FlagShape
  <2> HIDE DEF j
  <2>4. Fits(j)
    BY <1>1, <1>3, <2>3, FitsNext DEF Placed
  <2>5. 42 \in Stages \ {0, 1, 12, 13} /\ 42 \notin OffStages /\ 42 \notin JoinStages
    BY DEF Stages, OffStages, JoinStages
  <2>6. SameWishes(s, s) /\ Core(s)
    BY DEF SameWishes, SameOrders, SameJobs, Doing
  <2>7. Placed(s, j)
    BY <1>1, <2>3, <2>4, <2>5, <2>6, EasyStage
  <2> QED BY <2>1, <2>3, <2>6, <2>7, KeepsOn DEF Doing
<1>4. CASE job.stage = 42
  <2> DEFINE j == [job EXCEPT !.failed = TRUE]
  <2>1. Refused(s, job) = Accepted(s, j)
    BY <1>4 DEF Refused
  <2>2. j \in Jobs /\ j.kind = job.kind /\ j.token = job.token /\ j.stage = job.stage
    BY <1>1, FlagShape
  <2> HIDE DEF j
  <2>3. Doing(s, j)
    BY <2>2, SameStageDoing
  <2>4. Carried(s, j, Accepted(s, j))
    BY <1>4, <2>2, <2>3, SelfAnswered, AcceptedCarried
  <2> QED BY <2>1, <2>2, <2>4 DEF Carried
<1>5. CASE job.stage \notin {30, 40, 41, 42}
  <2>1. Refused(s, job) = GuiFail(s, job, "stop")
    BY <1>5 DEF Refused
  <2> QED BY <2>1, GuiFailCarried
<1> QED BY <1>2, <1>3, <1>4, <1>5

\* A job whose session is found dead, or has just been given up.
LEMMA RetiredDoing ==
  ASSUME NEW s, NEW job, Doing(s, job), job.stage \notin {0, 15}, NEW q, Core(q), SameWishes(s, q),
         ~q.enabled => q.radio = "idle", job.stage = 12 => q.storage = "ram",
         job.stage = 1 => ~Joining(q),
         NEW t, t = [q EXCEPT !.session = "dead"]
  PROVE  Doing(t, job) /\ ~Hears(t) /\ t.gui = s.gui /\ t.reply = s.reply
<1>1. q \in Manager
  BY DEF Core
<1>2. t \in Manager
  BY <1>1, Fields
<1>3. /\ SameWishes(q, t) /\ t.session = "dead" /\ t.nvs = q.nvs /\ t.radio = q.radio
      /\ t.events = q.events /\ t.storage = q.storage
  BY <1>1 DEF Manager, SameWishes, SameOrders, SameJobs
<1>4. ~Hears(t)
  BY <1>3 DEF Hears
<1>5. SameWishes(s, t)
  BY <1>3 DEF SameWishes, SameOrders, SameJobs
<1>6. Core(t)
  BY <1>2, <1>3 DEF Core, Later, Timed, Clocked, StackHasLink, FlashIsProven, Proven, SameWishes,
     SameOrders, SameJobs
<1>7. Placed(t, job)
  BY <1>3, <1>4, <1>5 DEF Doing, Placed, Joining, SameWishes, SameOrders, SameJobs
<1>8. ~t.enabled => t.radio = "idle"
  BY <1>3 DEF SameWishes, SameOrders
<1>9. Doing(t, job)
  BY <1>4, <1>5, <1>6, <1>7, <1>8 DEF Doing, HonestC6, Proven, RetryIsActive, SameWishes, SameOrders
<1> QED BY <1>4, <1>5, <1>9 DEF SameWishes, SameOrders

\* The answer arrives, is a refusal, is late, or the link is dead.
LEMMA ReapCarried ==
  ASSUME NEW s, NEW job, Doing(s, job), s.session # "none", job.stage \notin {0, 15}, NEW r,
         r = "ok" /\ job.stage = 12 => ~Joining(s)
  PROVE  Carried(s, job, Reap(s, job, r))
<1> DEFINE done == IF Done(r) THEN Requested(s, job.stage) ELSE s
           retired == [done EXCEPT !.session = "dead"]
<1>1. CASE r = "pending" /\ s.session # "dead"
  <2>1. Reap(s, job, r) = Keep(s, job)
    BY <1>1 DEF Reap
  <2> QED BY <2>1, DoingCarried
<1>2. CASE r = "ok" /\ s.session # "dead"
  <2>1. Reap(s, job, r) = Accepted(Requested(s, job.stage), job)
    BY <1>2 DEF Reap, Done
  <2>2. Hears(s)
    BY <1>2 DEF Hears
  <2>3. Answered(s, job, Requested(s, job.stage))
    BY <1>2, <2>2, RequestAnswered
  <2> QED BY <2>1, <2>3, AcceptedCarried
<1>3. CASE r = "refused" /\ s.session # "dead"
  <2>1. Reap(s, job, r) = Refused(s, job)
    BY <1>3 DEF Reap
  <2>2. Hears(s)
    BY <1>3 DEF Hears
  <2> QED BY <2>1, <2>2, RefusedCarried
<1>4. CASE s.session = "dead" \/ r \notin {"pending", "ok", "refused"}
  <2>1. Reap(s, job, r) = GuiFail(retired, job, "retry")
    BY <1>4 DEF Reap
  <2>2. /\ Core(done) /\ SameWishes(s, done) /\ (~done.enabled => done.radio = "idle")
        /\ job.stage = 12 => done.storage = "ram"
        /\ job.stage = 1 => ~Joining(done)
    <3>1. CASE Done(r)
      <4>1. done = Requested(s, job.stage)
        BY <3>1
      <4> HIDE DEF done
      <4>2. /\ Core(done) /\ SameWishes(s, done) /\ RequestDone(s, job.stage, done)
            /\ ~done.enabled => done.radio = "idle"
        BY <4>1, RequestCore
      <4> QED BY <4>2 DEF RequestDone, Doing, Placed, Joining
    <3>2. CASE ~Done(r)
      BY <3>2 DEF Doing, Placed, SameWishes, SameOrders, SameJobs
    <3> QED BY <3>1, <3>2
  <2> HIDE DEF done
  <2>3. Doing(retired, job) /\ ~Hears(retired) /\ retired.gui = s.gui /\ retired.reply = s.reply
    BY <2>2, RetiredDoing
  <2> HIDE DEF retired
  <2>4. Carried(retired, job, GuiFail(retired, job, "retry"))
    BY <2>3, GuiFailCarried
  <2> QED BY <2>1, <2>3, <2>4 DEF Carried
<1> QED BY <1>1, <1>2, <1>3, <1>4

\* What giving up the policy leaves.
LEMMA UnconfiguredShape ==
  ASSUME NEW s \in Manager, NEW t, t = Unconfigured(s)
  PROVE  /\ t \in Manager /\ SameC6(s, t) /\ SameOrders(s, t) /\ SameJobs(s, t)
         /\ t.stack = "none" /\ t.source = "none" /\ t.attempt = 0 /\ t.cred = None
         /\ ~t.savePending /\ t.phase = s.phase /\ t.armed = s.armed
<1>1. t \in Manager
  BY UnconfiguredTyped
<1> DEFINE clear == ClearCredentials(s)
<1>2. clear \in Manager
  BY SimpleTyped
<1>3. /\ SameC6(s, clear) /\ SameOrders(s, clear) /\ SameJobs(s, clear) /\ clear.cred = None
      /\ ~clear.savePending /\ clear.phase = s.phase /\ clear.armed = s.armed
  BY DEF ClearCredentials, Manager, SameC6, SameOrders, SameJobs
<1>4. t = [clear EXCEPT !.stack = "none", !.source = "none", !.policy = "Unconfigured",
                        !.attempt = 0, !.since = FALSE]
  BY DEF Unconfigured
<1> HIDE DEF clear
<1>5. /\ SameC6(clear, t) /\ SameOrders(clear, t) /\ SameJobs(clear, t)
      /\ t.stack = "none" /\ t.source = "none" /\ t.attempt = 0 /\ t.cred = clear.cred
      /\ t.savePending = clear.savePending /\ t.phase = clear.phase /\ t.armed = clear.armed
  BY <1>2, <1>4 DEF Manager, SameC6, SameOrders, SameJobs
<1> QED BY <1>1, <1>3, <1>5 DEF SameC6, SameOrders, SameJobs

\* What the console's disconnection leaves.
LEMMA MarkDisconnectedShape ==
  ASSUME NEW s \in Manager, NEW t, t = MarkDisconnected(s)
  PROVE  /\ t \in Manager /\ SameC6(s, t) /\ SameOrders(s, t) /\ SameJobs(s, t)
         /\ t.stack = "none" /\ t.attempt = 0 /\ t.cred = None /\ Clocked(t)
         /\ t.phase \notin {"NeedsPassword", "RetryWaiting"}
<1> DEFINE clear == Unconfigured(s)
           p == CASE ~s.enabled -> "Off"
                  [] s.enabled /\ s.session # "none" -> "Idle"
                  [] OTHER -> "LinkDown"
<1>1. /\ clear \in Manager /\ SameC6(s, clear) /\ SameOrders(s, clear) /\ SameJobs(s, clear)
      /\ clear.stack = "none" /\ clear.attempt = 0 /\ clear.cred = None
  BY UnconfiguredShape
<1>2. t = To(clear, p)
  BY DEF MarkDisconnected
<1> HIDE DEF clear
<1>3. p \in Phases /\ p \notin {"NeedsPassword", "RetryWaiting"}
  BY PhaseTyped
<1> HIDE DEF p
<1>4. t \in Manager
  BY <1>1, <1>2, <1>3, ToTyped
<1>5. /\ SameC6(clear, t) /\ SameOrders(clear, t) /\ SameJobs(clear, t) /\ t.stack = clear.stack
      /\ t.attempt = clear.attempt /\ t.cred = clear.cred /\ Clocked(t) /\ t.phase = p
  BY <1>1, <1>2, <1>3, ToShape
<1> QED BY <1>1, <1>3, <1>4, <1>5 DEF SameC6, SameOrders, SameJobs

\* What was heard is passed over.
LEMMA DeafDoing ==
  ASSUME NEW s, NEW job, Doing(s, job), s.session # "none", NEW q, q = NoEvents(s)
  PROVE  /\ Core(q) /\ SameWishes(s, q) /\ q.session # "none" /\ q.radio = s.radio
         /\ ~q.enabled => q.radio = "idle"
         /\ job.kind \notin {"Connect", "Enable"} => HonestC6(q)
<1>1. s \in Manager
  BY DEF Doing, Core
<1>2. /\ q \in Manager /\ SameWishes(s, q) /\ q.session = s.session /\ q.radio = s.radio
      /\ q.events = <<>> /\ q.nvs = s.nvs /\ q.cfg = s.cfg
  BY <1>1, DeafShape
<1>3. ~Heard1(q, "connected") /\ Timed(q)
  BY <1>2, ConstantsAssumption DEF Heard1, Doing, Core, Timed, Clocked, SameWishes
<1>4. Core(q)
  BY <1>2, <1>3 DEF Doing, Core, Later, StackHasLink, FlashIsProven, Proven, SameWishes, SameOrders,
     SameJobs
<1> QED BY <1>2, <1>3, <1>4 DEF Doing, HonestC6, Hears, Joining, SameWishes, SameOrders

\* The stages that forget the events unread.
LEMMA DeafCarried ==
  ASSUME NEW s, NEW job, Doing(s, job), s.session # "none", job.stage \in {10, 15},
         NEW j \in Jobs, j.kind = job.kind, j.token = job.token, j.stage \in {11, 15}
  PROVE  Carried(s, job, Keep(NoEvents(s), j))
<1> DEFINE q == NoEvents(s)
<1>1. /\ Core(q) /\ SameWishes(s, q) /\ q.session # "none" /\ q.radio = s.radio
      /\ ~q.enabled => q.radio = "idle"
      /\ job.kind \notin {"Connect", "Enable"} => HonestC6(q)
  BY DeafDoing
<1> HIDE DEF q
<1>2. Fits(job) /\ (job.kind = "Enable" => s.enabled)
  BY DEF Doing, Placed, JoinStages
<1>3. Fits(j)
  BY <1>2, FitsNext
<1>4. \A n \in {11, 15} : n \in Stages \ {0, 1, 12, 13} /\ n \notin OffStages
  BY DEF Stages, OffStages
<1>5. Placed(q, j)
  BY <1>1, <1>2, <1>3, <1>4, EasyStage
<1>6. Carried(s, job, Keep(q, j))
  BY <1>1, <1>5, KeepsOn
<1> QED BY <1>6 DEF q

\* Stage 15: the wait for the disconnection.
LEMMA AwaitCarried ==
  ASSUME NEW s, NEW job, Doing(s, job), s.session # "none", job.stage = 15, NEW due
  PROVE  Carried(s, job, AwaitDisconnection(s, job, due))
<1>1. job \in Jobs /\ Fits(job)
  BY DEF Doing, Placed, Fits
<1>2. CASE AwaitDisconnection(s, job, due) = Keep(NoEvents(s), At(job, 11))
  <2>1. At(job, 11) \in Jobs /\ At(job, 11).kind = job.kind /\ At(job, 11).token = job.token
        /\ At(job, 11).stage = 11
    BY <1>1, AtShape DEF Stages
  <2> QED BY <1>2, <2>1, DeafCarried
<1>3. CASE AwaitDisconnection(s, job, due) = Keep(NoEvents(s), job)
  BY <1>1, <1>3, DeafCarried
<1>4. CASE AwaitDisconnection(s, job, due) = MarkDisconnected(Answer(NoEvents(s), job))
  <2> DEFINE q == NoEvents(s)
             told == Answer(q, job)
             t == MarkDisconnected(told)
  <2>1. Core(q) /\ SameWishes(s, q)
    BY DeafDoing
  <2> HIDE DEF q
  <2>2. /\ told \in Manager /\ SameC6(q, told) /\ SameJobs(q, told)
        /\ told.enabled = q.enabled /\ told.startup = q.startup /\ told.gui = q.gui
        /\ told.reply = (q.reply \/ job.token)
    BY <1>1, <2>1, AnswerShape DEF Core
  <2> HIDE DEF told
  <2>3. /\ t \in Manager /\ SameC6(told, t) /\ SameOrders(told, t) /\ SameJobs(told, t)
        /\ t.stack = "none" /\ t.attempt = 0 /\ t.cred = None /\ Clocked(t)
        /\ t.phase \notin {"NeedsPassword", "RetryWaiting"}
    BY <2>2, MarkDisconnectedShape
  <2> HIDE DEF t
  <2>4. job.kind \in {"Connect", "Retry", "Enable"}
    BY <1>1 DEF Fits, Jobs, Kinds, BringUpStages, OffStages
  <2>5. s.enabled
    BY <2>4 DEF Doing, Placed, JoinStages
  <2>6. t.enabled /\ t.gui = s.gui /\ t.reply = (s.reply \/ job.token)
    BY <2>1, <2>2, <2>3, <2>5 DEF SameWishes, SameOrders
  <2>7. Core(t)
    BY <2>1, <2>2, <2>3, <2>6 DEF Core, Later, Timed, StackHasLink, FlashIsProven, Proven, SameC6,
       SameOrders, SameJobs
  <2>8. Alone(t)
    BY <2>3, <2>6, <2>7 DEF Alone, HonestC6, Proven
  <2>9. Carried(s, job, t)
    BY <2>6, <2>8, EndCarried
  <2> QED BY <1>4, <2>9 DEF t, told, q
<1>5. \/ AwaitDisconnection(s, job, due) = Keep(NoEvents(s), At(job, 11))
      \/ AwaitDisconnection(s, job, due) = Keep(NoEvents(s), job)
      \/ AwaitDisconnection(s, job, due) = MarkDisconnected(Answer(NoEvents(s), job))
  BY DEF AwaitDisconnection
<1> QED BY <1>2, <1>3, <1>4, <1>5

\* A frame of a job beyond its first stage.
LEMMA StepCarried ==
  ASSUME NEW s, NEW job, Doing(s, job), job.stage # 0, NEW due, NEW r
  PROVE  Carried(s, job, Step(s, job, due, r))
<1>1. job \in Jobs /\ Placed(s, job)
  BY DEF Doing, Placed, Fits
<1>2. CASE s.session = "none"
  <2>1. Step(s, job, due, r) = Answer(s, job)
    BY <1>2 DEF Step
  <2>2. job.kind \notin {"Connect", "Enable", "Disable"}
    BY <1>1, <1>2 DEF Placed
  <2>3. s.enabled \/ job.kind = "Forget"
    BY <2>2 DEF Doing
  <2> QED BY <1>1, <2>1, <2>2, <2>3, DoingAlone, AnswerAlone
<1>3. CASE s.session # "none" /\ job.stage = 10 /\ ~job.sent /\ ~Associating(s)
  <2>1. Step(s, job, due, r) = Keep(NoEvents(s), At(job, 11))
    BY <1>3 DEF Step
  <2>2. At(job, 11) \in Jobs /\ At(job, 11).kind = job.kind /\ At(job, 11).token = job.token
        /\ At(job, 11).stage = 11
    BY <1>1, AtShape DEF Stages
  <2> QED BY <1>3, <2>1, <2>2, DeafCarried
<1>4. CASE s.session # "none" /\ job.stage = 15
  <2>1. Step(s, job, due, r) = AwaitDisconnection(s, job, due)
    BY <1>4 DEF Step
  <2> QED BY <1>4, <2>1, AwaitCarried
<1>5. CASE /\ s.session # "none" /\ job.stage # 15 /\ ~job.sent
           /\ ~(job.stage = 10 /\ ~Associating(s))
  <2>1. CASE s.session = "dead" /\ r = "lost"
    <3>1. Step(s, job, due, r) = GuiFail(s, job, "retry")
      BY <1>5, <2>1 DEF Step
    <3>2. ~Hears(s)
      BY <2>1 DEF Hears
    <3> QED BY <3>1, <3>2, GuiFailCarried
  <2>2. CASE ~(s.session = "dead" /\ r = "lost")
    <3> DEFINE j == [job EXCEPT !.sent = TRUE]
    <3>1. Step(s, job, due, r) = Keep(s, j)
      BY <1>5, <2>2 DEF Step
    <3>2. j \in Jobs /\ j.kind = job.kind /\ j.token = job.token /\ j.stage = job.stage
      BY <1>1, FlagShape
    <3> HIDE DEF j
    <3>3. Doing(s, j)
      BY <3>2, SameStageDoing
    <3> QED BY <3>1, <3>2, <3>3, DoingCarried
  <2> QED BY <2>1, <2>2
<1>6. CASE s.session # "none" /\ job.stage # 15 /\ job.sent
  <2> DEFINE answer == C6Answers(s, job, r)
  <2>1. Step(s, job, due, r) = Reap(s, job, answer)
    BY <1>6 DEF Step
  <2>2. answer = "ok" /\ job.stage = 12 => ~Joining(s)
    BY DEF C6Answers, C6Says, Joining, Done
  <2> HIDE DEF answer
  <2> QED BY <1>6, <2>1, <2>2, ReapCarried
<1> QED BY <1>2, <1>3, <1>4, <1>5, <1>6

\* A job to save that is overtaken.
LEMMA CancelledCarried ==
  ASSUME NEW s, NEW job, Doing(s, job), job.kind = "Associated"
  PROVE  Carried(s, job, Cancelled(s, job))
<1> DEFINE link == IF job.sent /\ s.session # "none" THEN "dead" ELSE s.session
           x == [s EXCEPT !.session = link]
<1>1. s \in Manager /\ job \in Jobs /\ Core(s)
  BY DEF Doing, Core, Placed, Fits
<1>2. Cancelled(s, job) = Answer(x, job)
  BY DEF Cancelled
<1>3. /\ link \in {"none", "raw", "init", "started", "dead"} /\ (link = "none" <=> s.session = "none")
      /\ link \in {"dead", s.session}
  BY <1>1 DEF Manager
<1> HIDE DEF link
<1>4. x \in Manager
  <2>1. [s EXCEPT !.session = link] \in Manager
    BY <1>1, <1>3, Fields
  <2> QED BY <2>1
<1>5. /\ SameWishes(s, x) /\ x.session = link /\ x.radio = s.radio /\ x.events = s.events
      /\ x.nvs = s.nvs /\ x.cfg = s.cfg
  BY <1>1 DEF Manager, SameWishes, SameOrders, SameJobs
<1> HIDE DEF x
<1>6. Alone(s)
  BY DoingAlone DEF Doing
<1>7. Core(x)
  BY <1>1, <1>3, <1>4, <1>5 DEF Core, Later, Timed, Clocked, StackHasLink, FlashIsProven, Proven,
     SameWishes, SameOrders, SameJobs
<1>8. HonestC6(x)
  BY <1>3, <1>5, <1>6 DEF Alone, HonestC6, Hears, Joining, Heard1, Proven, SameWishes
<1>9. Alone(x)
  BY <1>5, <1>6, <1>7, <1>8 DEF Alone, RetryIsActive, SameWishes, SameOrders
<1>10. Carried(x, job, Answer(x, job))
  BY <1>1, <1>9, AnswerAlone
<1> QED BY <1>2, <1>5, <1>10 DEF Carried, SameWishes, SameOrders

\* While a scan or a save goes on the policy is serviced beside it.
LEMMA AsideDoing ==
  ASSUME NEW s, NEW job, Doing(s, job), job.kind \in {"Scan", "Forget", "Associated"},
         NEW due, NEW stable, NEW t, t = Aside(s, due, stable)
  PROVE  Doing(t, job) /\ t.gui = s.gui /\ t.reply = s.reply
<1> DEFINE x == [s EXCEPT !.job = None, !.followup = None, !.gui = TRUE]
           after == ServicePolicy(x, due, stable, "down", "refused")
           later == IF after.job # None THEN after.job ELSE s.followup
<1>1. s \in Manager /\ job \in Jobs /\ Core(s)
  BY DEF Doing, Core, Placed, Fits
<1>2. t = [after EXCEPT !.job = None, !.gui = s.gui, !.followup = later]
  BY DEF Aside
<1>3. x \in Manager
  BY <1>1, Fields
<1>4. /\ SameC6(s, x) /\ x.job = None /\ x.followup = None /\ x.gui
      /\ x.enabled = s.enabled /\ x.startup = s.startup /\ x.reply = s.reply
      /\ x.stack = s.stack /\ x.source = s.source /\ x.cred = s.cred
      /\ x.phase = s.phase /\ x.armed = s.armed /\ x.savePending = s.savePending
  BY <1>1 DEF Manager, SameC6
<1> HIDE DEF x
<1>5. Sound(x)
  <2>1. Alone(s)
    BY DoingAlone DEF Doing
  <2>2. Core(x)
    BY <1>1, <1>3, <1>4 DEF Core, Later, Timed, Clocked, StackHasLink, FlashIsProven, SameC6
  <2>3. Alone(x)
    BY <1>4, <2>1, <2>2 DEF Alone, HonestC6, RetryIsActive, Hears, Joining, Heard1, Proven, SameC6
  <2> QED BY <2>3, AloneSound
<1>6. Serviced(x, after)
  BY <1>4, <1>5, ServicePolicyServiced
<1> HIDE DEF after
<1>7. /\ after \in Manager /\ Sound(after) /\ SameOrders(x, after) /\ after.followup = None
      /\ (after.job # None => after.enabled /\ after.job.kind \in {"Retry", "Associated"}
                              /\ ~after.job.token /\ Fits(after.job)
                              /\ (after.job.kind = "Retry" => after.job.stage \in {0, 10}))
      /\ after.radio = s.radio /\ after.session \in {s.session, "none"}
      /\ after.cred \in {None, s.cred}
  BY <1>4, <1>6 DEF Serviced, Sound, JobsInOrder, SameC6
<1>8. later \in Jobs \cup {None}
  BY <1>1, <1>7 DEF Fits, Manager
<1>9. later # None =>
        /\ Fits(later) /\ ~later.token /\ s.enabled /\ later.kind \in {"Retry", "Associated"}
        /\ later.kind = "Retry" => later.stage \in {0, 10}
        /\ later.kind = "Associated" => Proven(after)
  <2>1. CASE after.job # None
    <3>1. after.enabled = s.enabled
      BY <1>4, <1>7 DEF SameOrders
    <3>2. after.job.kind = "Associated" => Proven(after)
      BY <1>7, <2>1 DEF Sound, SavesWhatWorks, SavedIsProven, Has
    <3> QED BY <1>7, <2>1, <3>1, <3>2
  <2>2. CASE after.job = None
    BY <1>1, <1>7, <2>2 DEF Core, Later, Proven
  <2> QED BY <2>1, <2>2
<1> HIDE DEF later
<1>10. t \in Manager
  <2>1. s.gui \in BOOLEAN
    BY <1>1 DEF Manager
  <2>2. [after EXCEPT !.job = None, !.gui = s.gui, !.followup = later] \in Manager
    BY <1>7, <1>8, <2>1, Fields
  <2> QED BY <1>2, <2>2
<1>11. /\ SameC6(after, t) /\ t.job = None /\ t.followup = later /\ t.gui = s.gui
       /\ t.enabled = after.enabled /\ t.startup = after.startup /\ t.reply = after.reply
       /\ t.stack = after.stack /\ t.source = after.source /\ t.cred = after.cred
       /\ t.phase = after.phase /\ t.armed = after.armed /\ t.savePending = after.savePending
  BY <1>2, <1>7 DEF Manager, SameC6
<1>12. t.enabled = s.enabled /\ ~t.startup /\ t.reply = s.reply
  BY <1>1, <1>4, <1>7, <1>11 DEF Core, SameOrders
<1>13. Core(t)
  BY <1>7, <1>9, <1>10, <1>11, <1>12 DEF Core, Later, Sound, SavesWhatWorks, Timed, Clocked,
     StackHasLink, FlashIsProven, Proven, SameC6
<1>14. HonestC6(t)
  <2>1. ~Has(after, {"Connect", "Enable"})
    BY <1>7 DEF Has
  <2> QED BY <1>7, <1>11, <2>1 DEF Sound, SavesWhatWorks, JoinsWhatItKeeps, HonestC6, Hears, Joining,
             Heard1, Proven, SameC6
<1>15. Placed(t, job)
  <2>1. Fits(job) /\ job.stage \notin {12, 13}
    BY DEF Doing, Placed, Fits, BringUpStages, OffStages
  <2> QED BY <1>7, <1>11, <1>12, <2>1 DEF Doing, Placed, Joining, SameC6
<1>16. t.phase = "NeedsPassword" => ~RetryIsActive(t) /\ ~t.savePending
  BY <1>7, <1>11 DEF Sound, PasswordDropped, RetryIsActive, Has
<1>17. /\ job.kind = "Associated" => Proven(t)
       /\ ~t.enabled => t.radio = "idle" /\ job.kind \in {"Enable", "Forget"}
                        /\ (t.cred # None => job.kind = "Enable")
  BY <1>7, <1>11, <1>12 DEF Doing, Proven, SameC6
<1>18. Doing(t, job)
  BY <1>13, <1>14, <1>15, <1>16, <1>17 DEF Doing
<1> QED BY <1>11, <1>12, <1>18

\* Stage 0: the C6 is powered and its link opened.
LEMMA BringUpDone ==
  ASSUME NEW s, NEW job, Doing(s, job), job.stage = 0, NEW r
  PROVE  Carried(s, job, BringUp(s, job, r))
<1>1. s \in Manager /\ job \in Jobs /\ Core(s) /\ Placed(s, job)
  BY DEF Doing, Core, Placed, Fits
<1>2. CASE r = "pending"
  <2>1. BringUp(s, job, r) = Keep(s, job)
    BY <1>2 DEF BringUp
  <2> QED BY <2>1, DoingCarried
<1>3. CASE r = "ok"
  <2> DEFINE reset == Reset(s)
             x == [reset EXCEPT !.session = "raw"]
             j == At(job, 1)
  <2>1. BringUp(s, job, r) = Keep(x, j)
    BY <1>3 DEF BringUp
  <2>2. /\ reset \in Manager /\ SameWishes(s, reset) /\ reset.radio = "idle"
        /\ reset.events = <<>> /\ reset.nvs = s.nvs
    BY <1>1, ResetShape
  <2> HIDE DEF reset
  <2>3. x \in Manager
    BY <2>2, Fields
  <2>4. /\ SameWishes(reset, x) /\ x.session = "raw" /\ x.radio = reset.radio
        /\ x.events = reset.events /\ x.nvs = reset.nvs
    BY <2>2 DEF Manager, SameWishes, SameOrders, SameJobs
  <2> HIDE DEF x
  <2>5. /\ SameWishes(s, x) /\ x.session = "raw" /\ x.radio = "idle" /\ x.events = <<>>
        /\ x.nvs = s.nvs
    BY <2>2, <2>4 DEF SameWishes, SameOrders, SameJobs
  <2>6. ~Joining(x) /\ ~Heard1(x, "connected") /\ Timed(x)
    BY <1>1, <2>5, ConstantsAssumption DEF Joining, Heard1, Core, Timed, Clocked, SameWishes
  <2>7. Core(x)
    BY <1>1, <2>3, <2>5, <2>6 DEF Core, Later, StackHasLink, FlashIsProven, Proven, SameWishes,
       SameOrders, SameJobs
  <2>8. j \in Jobs /\ j.kind = job.kind /\ j.token = job.token /\ j.stage = 1
    BY <1>1, AtShape DEF Stages
  <2> HIDE DEF j
  <2>9. Fits(j)
    BY <1>1, <2>8 DEF Placed, Fits, BringUpStages
  <2>10. Placed(x, j)
    BY <1>1, <2>5, <2>6, <2>8, <2>9 DEF Placed, OffStages, JoinStages, SameWishes, SameJobs
  <2>11. HonestC6(x)
    BY <2>6 DEF HonestC6
  <2> QED BY <2>1, <2>5, <2>7, <2>8, <2>10, <2>11, KeepsOn
<1>4. CASE r \notin {"pending", "ok"}
  <2> DEFINE x == [s EXCEPT !.power = TRUE]
  <2>1. BringUp(s, job, r) = GuiFail(x, job, "retry")
    BY <1>4 DEF BringUp
  <2>2. x \in Manager
    BY <1>1, Fields
  <2>3. /\ SameWishes(s, x) /\ x.session = s.session /\ x.radio = s.radio /\ x.events = s.events
        /\ x.nvs = s.nvs /\ x.cfg = s.cfg /\ x.storage = s.storage
    BY <1>1 DEF Manager, SameWishes, SameOrders, SameJobs
  <2> HIDE DEF x
  <2>4. Core(x)
    BY <1>1, <2>2, <2>3 DEF Core, Later, Timed, Clocked, StackHasLink, FlashIsProven, Proven,
       SameWishes, SameOrders, SameJobs
  <2>5. Placed(x, job)
    BY <1>1, <2>3 DEF Placed, Hears, Joining, Heard1, SameWishes, SameOrders, SameJobs
  <2>6. HonestC6(s) => HonestC6(x)
    BY <2>3 DEF HonestC6, Hears, Joining, Heard1, Proven, SameWishes
  <2>7. Doing(x, job)
    BY <2>3, <2>4, <2>5, <2>6 DEF Doing, RetryIsActive, Proven, SameWishes, SameOrders
  <2>8. Carried(x, job, GuiFail(x, job, "retry"))
    <3>1. job.kind = "Connect" => ~Hears(x)
      BY <1>1, <2>3 DEF Placed, Hears
    <3> QED BY <2>7, <3>1, GuiFailCarried
  <2> QED BY <2>1, <2>3, <2>8 DEF Carried, SameWishes, SameOrders
<1> QED BY <1>2, <1>3, <1>4

----------------------------------------------------------------------------
(* A whole frame.                                                          *)

\* Nothing the screen is owed is lost between s and t.
Owed(s) == s.reply \/ (s.job # None /\ s.job.token)
Kept(s, t) == Sound(t) /\ t.gui = s.gui /\ (Owed(s) => Owed(t))

\* service_gui_job keeps the invariant, the panel and its token.
LEMMA GuiJobKept ==
  ASSUME NEW s, Sound(s), s.job # None, NEW due, NEW stable, NEW r,
         NEW t, t = ServiceGuiJob(s, s.job, due, stable, r)
  PROVE  Kept(s, t)
<1> DEFINE job == s.job
           idle == [s EXCEPT !.job = None]
           seen == IF Nested(job) THEN Aside(idle, due, stable) ELSE idle
<1>1. Doing(idle, job) /\ SameOrders(s, idle)
  BY SoundDoing
<1>2. /\ Carried(idle, job, t) => Kept(s, t)
      /\ Carried(seen, job, t) /\ seen.gui = idle.gui /\ seen.reply = idle.reply => Kept(s, t)
  BY <1>1 DEF Carried, Kept, Owed, SameOrders
<1>3. CASE job.stage = 0
  <2>3. job.kind # "Associated"
    BY <1>1, <1>3 DEF Doing, Placed, Fits
  <2>1. t = BringUp(idle, job, r)
    BY <1>3, <2>3 DEF ServiceGuiJob
  <2>2. Carried(idle, job, t)
    <3> HIDE DEF idle, job
    <3> QED BY <1>1, <1>3, <2>1, BringUpDone
  <2> QED BY <1>2, <2>2
<1>4. CASE job.stage # 0
  <2>1. Doing(seen, job) /\ seen.gui = idle.gui /\ seen.reply = idle.reply
    <3>1. CASE Nested(job)
      <4>1. seen = Aside(idle, due, stable) /\ job.kind \in {"Scan", "Forget", "Associated"}
        BY <3>1 DEF Nested
      <4> HIDE DEF seen, idle, job
      <4> QED BY <1>1, <4>1, AsideDoing
    <3>2. CASE ~Nested(job)
      BY <1>1, <3>2
    <3> QED BY <3>1, <3>2
  <2>2. Carried(seen, job, t)
    <3>1. CASE job.kind = "Associated" /\ seen.phase \notin Linked
      <4>1. t = Cancelled(seen, job)
        BY <1>4, <3>1 DEF ServiceGuiJob
      <4> HIDE DEF seen, idle, job
      <4> QED BY <2>1, <3>1, <4>1, CancelledCarried
    <3>2. CASE ~(job.kind = "Associated" /\ seen.phase \notin Linked)
      <4>1. t = Step(seen, job, due, r)
        BY <1>4, <3>2 DEF ServiceGuiJob
      <4> HIDE DEF seen, idle, job
      <4> QED BY <1>4, <2>1, <4>1, StepCarried
    <3> QED BY <3>1, <3>2
  <2> QED BY <1>2, <2>1, <2>2
<1> QED BY <1>3, <1>4

\* The job that has waited is taken up.
LEMMA NextSound ==
  ASSUME NEW s, Sound(s), s.job = None,
         NEW t, t = [s EXCEPT !.job = s.followup, !.followup = None]
  PROVE  Sound(t) /\ t.followup = None /\ SameOrders(s, t)
<1>1. s \in Manager /\ s.followup \in Jobs \cup {None}
  BY DEF Sound, Manager
<1>2. t \in Manager
  <2>1. [s EXCEPT !.job = s.followup] \in Manager
    BY <1>1, Fields
  <2>2. [[s EXCEPT !.job = s.followup] EXCEPT !.followup = None] \in Manager
    BY <2>1, Fields
  <2> QED BY <2>2
<1>3. /\ SameC6(s, t) /\ SameOrders(s, t) /\ t.job = s.followup /\ t.followup = None
      /\ t.stack = s.stack /\ t.source = s.source /\ t.attempt = s.attempt /\ t.cred = s.cred
      /\ t.phase = s.phase /\ t.armed = s.armed /\ t.savePending = s.savePending
  BY <1>1 DEF Manager, SameC6, SameOrders
<1>4. t.job # None =>
        /\ Fits(t.job) /\ t.enabled /\ ~t.startup /\ t.job.kind \in {"Retry", "Associated"}
        /\ t.job.stage \notin OffStages \cup {1, 12, 13}
  BY <1>3 DEF Sound, JobsInOrder, Busy, SameOrders, Fits, OffStages
<1>5. JobsInOrder(t) /\ Quiet(t)
  BY <1>3, <1>4 DEF Sound, JobsInOrder, Quiet, Busy, Has, AtStage, SameC6, SameOrders
<1>6. Timed(t) /\ StackHasLink(t) /\ PasswordDropped(t) /\ AttemptsEnd(t)
  BY <1>3 DEF Sound, Timed, Clocked, StackHasLink, PasswordDropped, AttemptsEnd, RetryIsActive, Has,
     SameC6, SameOrders
<1>7. FlashIsProven(t) /\ TriedInRam(t) /\ NothingToJoin(t) /\ SavedIsProven(t)
  BY <1>3, <1>4 DEF Sound, SavesWhatWorks, FlashIsProven, TriedInRam, NothingToJoin, SavedIsProven,
     Proven, Has, AtStage, SameC6
<1>8. JoinsWhatItKeeps(t)
  BY <1>3 DEF Sound, SavesWhatWorks, JoinsWhatItKeeps, Hears, Joining, Heard1, Proven, Has, SameC6
<1> QED BY <1>2, <1>3, <1>5, <1>6, <1>7, <1>8 DEF Sound, SavesWhatWorks

\* service, with a job or without.
LEMMA ServiceKept ==
  ASSUME NEW s, Sound(s), NEW due, NEW stable, NEW link, NEW r,
         NEW t, t = Service(s, due, stable, link, r)
  PROVE  Kept(s, t)
<1> DEFINE next == IF s.job = None THEN [s EXCEPT !.job = s.followup, !.followup = None] ELSE s
<1>1. Sound(next) /\ next.gui = s.gui /\ (Owed(s) => Owed(next))
      /\ (next.job = None => next.followup = None /\ next.reply = s.reply)
  <2>1. CASE s.job = None
    <3>1. next = [s EXCEPT !.job = s.followup, !.followup = None]
      BY <2>1
    <3> HIDE DEF next
    <3>2. Sound(next) /\ next.followup = None /\ SameOrders(s, next)
      BY <2>1, <3>1, NextSound
    <3> QED BY <2>1, <3>2 DEF SameOrders, Owed
  <2>2. CASE s.job # None
    BY <2>2
  <2> QED BY <2>1, <2>2
<1>2. t = IF next.job # None THEN ServiceGuiJob(next, next.job, due, stable, r)
                             ELSE ServicePolicy(next, due, stable, link, r)
  BY DEF Service
<1> HIDE DEF next
<1>3. CASE next.job # None
  <2>1. Kept(next, t)
    BY <1>1, <1>2, <1>3, GuiJobKept
  <2> QED BY <1>1, <2>1 DEF Kept
<1>4. CASE next.job = None
  <2>1. Serviced(next, t)
    BY <1>1, <1>2, <1>4, ServicePolicyServiced
  <2> QED BY <1>1, <1>4, <2>1 DEF Serviced, Kept, Owed, SameOrders
<1> QED BY <1>3, <1>4

----------------------------------------------------------------------------
(* The synchronous calls, one by one: nobody's credentials are kept.       *)

Bare(s) ==
  /\ s \in Manager /\ s.job = None /\ s.followup = None /\ s.cred = None
  /\ Timed(s) /\ StackHasLink(s) /\ FlashIsProven(s)
  /\ s.startup => ~s.gui /\ s.attempt <= StartupMaxAttempts
  /\ s.enabled \/ s.radio = "idle"

\* A bare manager is free.
LEMMA BareFree ==
  ASSUME NEW s, Bare(s)
  PROVE  Free(s)
BY DEF Bare, Free, JoinsWhatItKeeps, Proven

\* Entering a state bare.
LEMMA BareTo ==
  ASSUME NEW s, Bare(s), NEW p \in Phases \ {"NeedsPassword", "RetryWaiting"}, NEW t, t = To(s, p)
  PROVE  Bare(t) /\ Rested(t) /\ SameOrders(s, t) /\ SameC6(s, t)
<1>1. s \in Manager
  BY DEF Bare
<1>2. t \in Manager
  BY <1>1, ToTyped
<1>3. /\ SameC6(s, t) /\ SameOrders(s, t) /\ SameJobs(s, t) /\ Clocked(t) /\ t.phase = p
      /\ t.stack = s.stack /\ t.attempt = s.attempt /\ t.cred = s.cred
  BY <1>1, ToShape
<1> QED BY <1>2, <1>3 DEF Bare, Rested, Timed, StackHasLink, FlashIsProven, SameC6, SameOrders,
           SameJobs

\* Telling the station to leave.
LEMMA LeaveShape ==
  ASSUME NEW s \in Manager, NEW t, t = Leave(s)
  PROVE  /\ t \in Manager /\ SameWishes(s, t) /\ t.radio \in {"idle", "leaving"}
         /\ s.radio = "idle" => t.radio = "idle"
         /\ t.session = s.session /\ t.events = s.events /\ t.nvs = s.nvs
<1>1. t \in Manager
  BY SimpleTyped
<1> QED BY <1>1 DEF Leave, Manager, SameWishes, SameOrders, SameJobs

\* The station has left.
LEMMA LeftShape ==
  ASSUME NEW s \in Manager, NEW t, t = Left(s)
  PROVE  /\ t \in Manager /\ SameWishes(s, t) /\ t.radio = "idle"
         /\ t.session = s.session /\ t.events = <<>> /\ t.nvs = s.nvs
<1>1. t \in Manager
  BY SimpleTyped
<1> QED BY <1>1 DEF Left, NoEvents, Manager, SameWishes, SameOrders, SameJobs

\* The events unread are forgotten.
LEMMA NoEventsShape ==
  ASSUME NEW s \in Manager, NEW t, t = NoEvents(s)
  PROVE  /\ t \in Manager /\ SameWishes(s, t) /\ t.radio = s.radio
         /\ t.session = s.session /\ t.events = <<>> /\ t.nvs = s.nvs
<1>1. t \in Manager
  BY SimpleTyped
<1> QED BY <1>1 DEF NoEvents, Manager, SameWishes, SameOrders, SameJobs

\* A new generation of the link.
LEMMA NewGenerationShape ==
  ASSUME NEW s \in Manager, NEW t, t = NewGeneration(s)
  PROVE  /\ t \in Manager /\ SameC6(s, t) /\ SameOrders(s, t) /\ SameJobs(s, t) /\ ~t.armed
         /\ t.stack = s.stack /\ t.attempt = s.attempt /\ t.cred = s.cred /\ t.phase = s.phase
         /\ t.source = s.source /\ t.savePending = s.savePending
<1>1. t \in Manager
  BY SimpleTyped
<1> QED BY <1>1 DEF NewGeneration, Manager, SameC6, SameOrders, SameJobs

\* drop_session.
LEMMA DropSessionShape ==
  ASSUME NEW s \in Manager, NEW t, t = DropSession(s)
  PROVE  /\ t \in Manager /\ SameWishes(s, t) /\ t.session = "none" /\ t.events = <<>>
         /\ t.nvs = s.nvs /\ t.radio = s.radio
<1>1. t \in Manager
  BY SimpleTyped
<1> QED BY <1>1 DEF DropSession, Manager, SameWishes, SameOrders, SameJobs

\* The C6 without power.
LEMMA PowerDownShape ==
  ASSUME NEW s \in Manager, NEW t, t = PowerDown(s)
  PROVE  /\ t \in Manager /\ SameWishes(s, t) /\ t.session = s.session /\ t.events = <<>>
         /\ t.nvs = s.nvs /\ t.radio = "idle"
<1>1. t \in Manager
  BY SimpleTyped
<1> QED BY <1>1 DEF PowerDown, Manager, SameWishes, SameOrders, SameJobs

\* Of a state that is as free as this one but for what the C6 says.
LEMMA SameWishesBare ==
  ASSUME NEW s, Bare(s), NEW t \in Manager, SameWishes(s, t), Len(t.events) <= MaxEvents,
         t.nvs = s.nvs, t.session = s.session \/ s.stack = "none", t.enabled \/ t.radio = "idle"
  PROVE  Bare(t)
BY DEF Bare, Timed, Clocked, StackHasLink, FlashIsProven, SameWishes, SameOrders, SameJobs

\* Giving up the policy bares the manager.
LEMMA UnconfiguredBare ==
  ASSUME NEW s, Free(s), NEW t, t = Unconfigured(s)
  PROVE  /\ Bare(t) /\ Rested(t) /\ SameOrders(s, t) /\ SameC6(s, t) /\ t.phase = s.phase
         /\ t.stack = "none" /\ t.source = "none" /\ ~t.savePending
<1>1. s \in Manager
  BY DEF Free
<1>2. /\ t \in Manager /\ SameC6(s, t) /\ SameOrders(s, t) /\ SameJobs(s, t)
      /\ t.stack = "none" /\ t.source = "none" /\ t.attempt = 0 /\ t.cred = None
      /\ ~t.savePending /\ t.phase = s.phase /\ t.armed = s.armed
  BY <1>1, UnconfiguredShape
<1> QED BY <1>2 DEF Free, Bare, Rested, Timed, Clocked, StackHasLink, FlashIsProven, RetryIsActive,
           StartupMaxAttempts, SameC6, SameOrders, SameJobs

\* A new generation without a job.
LEMMA NewGenerationFree ==
  ASSUME NEW s, Free(s), NEW t, t = NewGeneration(s)
  PROVE  Free(t) /\ SameOrders(s, t) /\ SameC6(s, t) /\ t.phase = s.phase /\ (Rested(s) => Rested(t))
<1>1. s \in Manager
  BY DEF Free
<1>2. /\ t \in Manager /\ SameC6(s, t) /\ SameOrders(s, t) /\ SameJobs(s, t) /\ ~t.armed
      /\ t.stack = s.stack /\ t.attempt = s.attempt /\ t.cred = s.cred /\ t.phase = s.phase
      /\ t.source = s.source /\ t.savePending = s.savePending
  BY <1>1, NewGenerationShape
<1> QED BY <1>2 DEF Free, Rested, Timed, Clocked, StackHasLink, FlashIsProven, JoinsWhatItKeeps,
           RetryIsActive, Has, Hears, Joining, Heard1, Proven, SameC6, SameOrders, SameJobs

----------------------------------------------------------------------------
(* Off, on and the splash screen's look at the saved profile.              *)

\* A reset without a job.
LEMMA ResetFree ==
  ASSUME NEW s, Free(s), NEW t, t = Reset(s)
  PROVE  /\ Free(t) /\ SameWishes(s, t) /\ t.session = s.session /\ t.nvs = s.nvs /\ t.cfg = s.nvs
         /\ t.radio = "idle" /\ t.events = <<>>
<1>1. s \in Manager /\ (s.stack # "none" => s.session # "none")
  BY DEF Free, StackHasLink
<1>2. /\ t \in Manager /\ SameWishes(s, t) /\ t.session = s.session /\ t.radio = "idle"
      /\ t.events = <<>> /\ t.nvs = s.nvs /\ t.cfg = s.nvs
  BY <1>1, ResetShape
<1>3. t.stack # "none" => t.session # "none"
  BY <1>1, <1>2 DEF SameWishes
<1> QED BY <1>2, <1>3, FreshIsFree

\* The state that is turned off: nobody's credentials, no stack.
Shut(s) ==
  /\ s \in Manager /\ s.job = None /\ s.followup = None /\ s.cred = None /\ s.stack = "none"
  /\ FlashIsProven(s) /\ (s.startup => ~s.gui /\ s.attempt <= StartupMaxAttempts)

\* Off, whatever Wi-Fi was doing before.
LEMMA OffReady ==
  ASSUME NEW s, Shut(s), NEW kept \in BOOLEAN,
         NEW t, t = [To(PowerDown(DropSession(s)), "Off") EXCEPT !.enabled = FALSE, !.kept = kept]
  PROVE  Bare(t) /\ Rested(t)
<1> DEFINE dropped == DropSession(s)
           down == PowerDown(dropped)
           off == To(down, "Off")
<1>1. /\ dropped \in Manager /\ SameWishes(s, dropped) /\ dropped.session = "none"
      /\ dropped.events = <<>> /\ dropped.nvs = s.nvs
  BY DropSessionShape DEF Shut
<1> HIDE DEF dropped
<1>2. /\ down \in Manager /\ SameWishes(dropped, down) /\ down.session = "none"
      /\ down.events = <<>> /\ down.nvs = dropped.nvs /\ down.radio = "idle"
  BY <1>1, PowerDownShape
<1> HIDE DEF down
<1>3. off \in Manager
  BY <1>2, ToTyped, PhaseTyped
<1>4. /\ SameC6(down, off) /\ SameOrders(down, off) /\ SameJobs(down, off) /\ Clocked(off)
      /\ off.stack = down.stack /\ off.attempt = down.attempt /\ off.cred = down.cred
      /\ off.phase = "Off"
  BY <1>2, ToShape, PhaseTyped
<1>5. t = [off EXCEPT !.enabled = FALSE, !.kept = kept]
  BY DEF off, down, dropped
<1> HIDE DEF off
<1>6. t \in Manager
  <2>1. [off EXCEPT !.enabled = FALSE] \in Manager
    BY <1>3, Fields
  <2>2. [[off EXCEPT !.enabled = FALSE] EXCEPT !.kept = kept] \in Manager
    BY <2>1, Fields
  <2> QED BY <1>5, <2>2
<1>7. /\ SameC6(off, t) /\ SameJobs(off, t) /\ ~t.enabled /\ t.startup = off.startup
      /\ t.gui = off.gui /\ t.stack = off.stack /\ t.attempt = off.attempt /\ t.cred = off.cred
      /\ t.phase = off.phase /\ t.armed = off.armed
  BY <1>3, <1>5, <1>6, ZenonT(40) DEF Manager, SameC6, SameJobs
<1>8. /\ t.job = None /\ t.followup = None /\ t.cred = None /\ t.stack = "none"
      /\ t.startup = s.startup /\ t.gui = s.gui /\ t.attempt = s.attempt /\ t.nvs = s.nvs
      /\ t.radio = "idle" /\ t.events = <<>> /\ t.phase = "Off" /\ Clocked(t)
  BY <1>1, <1>2, <1>4, <1>7 DEF Shut, Clocked, SameWishes, SameC6, SameOrders, SameJobs
<1>9. Timed(t)
  BY <1>8, ConstantsAssumption DEF Timed
<1> QED BY <1>6, <1>8, <1>9 DEF Shut, Bare, Rested, StackHasLink, FlashIsProven

\* The off marker is no profile.
LEMMA MarkedShut ==
  ASSUME NEW s, Shut(s), NEW mode \in {"sta", "null"}, NEW nvs \in {OffMarker, Empty},
         NEW t, t = [s EXCEPT !.nvs = nvs, !.mode = mode]
  PROVE  Shut(t)
<1>1. nvs \in Configs /\ nvs \notin Networks
  BY ConstantsAssumption DEF Configs
<1>2. t \in Manager
  <2>1. [s EXCEPT !.nvs = nvs] \in Manager
    BY <1>1, Fields DEF Shut
  <2>2. [[s EXCEPT !.nvs = nvs] EXCEPT !.mode = mode] \in Manager
    BY <2>1, Fields
  <2> QED BY <2>2
<1> QED BY <1>1, <1>2 DEF Shut, Manager, FlashIsProven

\* The console's off, at each point where it can fail.
LEMMA DisableReady ==
  ASSUME NEW s, Free(s), NEW link, NEW progress, NEW t, t = Disable(s, link, progress)
  PROVE  Bare(t) /\ Rested(t)
<1> DEFINE open == IF Hears(s) THEN s ELSE Reset(s)
           new == NewGeneration(open)
           clear == Unconfigured(new)
           left == Leave(clear)
           marked == IF s.saved \/ progress = "begun" THEN left
                     ELSE [left EXCEPT !.nvs = OffMarker, !.mode = "sta"]
           all == IF progress = "all" THEN [marked EXCEPT !.mode = "null"] ELSE marked
           cut == [ClearCredentials(s) EXCEPT !.stack = "none", !.source = "none",
                                              !.policy = "Unconfigured"]
           reached == IF Hears(s) \/ link = "up" THEN all ELSE cut
           kept == progress = "all" /\ (Hears(s) \/ link = "up")
<1>1. t = [To(PowerDown(DropSession(reached)), "Off") EXCEPT !.enabled = FALSE, !.kept = kept]
  BY DEF Disable
<1>2. Free(open)
  BY ResetFree
<1> HIDE DEF open
<1>3. Free(new)
  BY <1>2, NewGenerationFree
<1> HIDE DEF new
<1>4. Bare(clear) /\ clear.stack = "none"
  BY <1>3, UnconfiguredBare
<1> HIDE DEF clear
<1>5. Shut(left)
  <2>1. clear \in Manager
    BY <1>4 DEF Bare
  <2>2. left \in Manager /\ SameWishes(clear, left) /\ left.nvs = clear.nvs
    BY <2>1, LeaveShape
  <2> QED BY <1>4, <2>2 DEF Bare, Shut, FlashIsProven, SameWishes, SameOrders, SameJobs
<1> HIDE DEF left
<1>6. Shut(marked)
  BY <1>5, MarkedShut
<1> HIDE DEF marked
<1>7. Shut(all)
  <2>1. [marked EXCEPT !.mode = "null"] \in Manager
    BY <1>6, Fields DEF Shut
  <2>2. Shut([marked EXCEPT !.mode = "null"])
    BY <1>6, <2>1 DEF Shut, Manager, FlashIsProven
  <2> QED BY <1>6, <2>2
<1> HIDE DEF all
<1>8. Shut(cut)
  <2> DEFINE bare == ClearCredentials(s)
  <2>1. s \in Manager
    BY DEF Free
  <2>2. bare \in Manager
    BY <2>1, SimpleTyped
  <2>3. /\ bare.cred = None /\ bare.job = s.job /\ bare.followup = s.followup /\ bare.nvs = s.nvs
        /\ bare.startup = s.startup /\ bare.gui = s.gui /\ bare.attempt = s.attempt
    BY <2>1 DEF ClearCredentials, Manager
  <2>4. cut = [bare EXCEPT !.stack = "none", !.source = "none", !.policy = "Unconfigured"]
    OBVIOUS
  <2> HIDE DEF bare, cut
  <2>5. cut \in Manager
    <3>1. [bare EXCEPT !.stack = "none"] \in Manager
      BY <2>2, Fields
    <3>2. [[bare EXCEPT !.stack = "none"] EXCEPT !.source = "none"] \in Manager
      BY <3>1, Fields
    <3>3. [[[bare EXCEPT !.stack = "none"] EXCEPT !.source = "none"] EXCEPT !.policy = "Unconfigured"]
             \in Manager
      BY <3>2, Fields
    <3> QED BY <2>4, <3>3
  <2>6. /\ cut.cred = None /\ cut.job = s.job /\ cut.followup = s.followup /\ cut.nvs = s.nvs
        /\ cut.startup = s.startup /\ cut.gui = s.gui /\ cut.attempt = s.attempt
        /\ cut.stack = "none"
    BY <2>2, <2>3, <2>4 DEF Manager
  <2> QED BY <2>5, <2>6 DEF Free, Shut, FlashIsProven
<1> HIDE DEF cut
<1>9. Shut(reached)
  BY <1>7, <1>8
<1> HIDE DEF reached
<1>10. kept \in BOOLEAN
  BY DEF Hears
<1> HIDE DEF kept
<1> QED BY <1>1, <1>9, <1>10, OffReady

\* The profile in the flash is started again.
LEMMA StartProfileReady ==
  ASSUME NEW s, Bare(s), Rested(s), s.enabled, s.radio = "idle", s.events = <<>>,
         NEW link, NEW r, NEW t, t = StartProfile(s, link, r)
  PROVE  Free(t) /\ Rested(t)
<1>1. CASE s.nvs \in Networks
  <2> DEFINE x == SavedProfile(s)
  <2>1. s \in Manager /\ s.nvs \in Good
    BY <1>1 DEF Bare, FlashIsProven
  <2>2. x \in Manager
    <3>1. [s EXCEPT !.cred = s.nvs] \in Manager
      BY <1>1, <2>1, Fields
    <3>2. [[s EXCEPT !.cred = s.nvs] EXCEPT !.source = "Menu"] \in Manager
      BY <3>1, Fields
    <3>3. [[[s EXCEPT !.cred = s.nvs] EXCEPT !.source = "Menu"] EXCEPT !.policy = "Dhcp"] \in Manager
      BY <3>2, Fields
    <3>4. [[[[s EXCEPT !.cred = s.nvs] EXCEPT !.source = "Menu"] EXCEPT !.policy = "Dhcp"]
              EXCEPT !.attempt = 1] \in Manager
      BY <3>3, Fields
    <3> QED BY <3>4 DEF SavedProfile
  <2>3. /\ SameC6(s, x) /\ SameOrders(s, x) /\ SameJobs(s, x) /\ x.cred = s.nvs /\ x.attempt = 1
        /\ x.stack = s.stack /\ x.phase = s.phase /\ x.armed = s.armed
    BY <2>1 DEF SavedProfile, Manager, SameC6, SameOrders, SameJobs
  <2>4. t = SendPendingConnect(x, link, r)
    BY <1>1 DEF StartProfile
  <2> HIDE DEF x
  <2>5. ~Joining(x) /\ ~Heard1(x, "connected")
    BY <2>3 DEF Joining, Heard1, SameC6
  <2>6. Free(x) /\ x.enabled
    BY <2>2, <2>3, <2>5 DEF Bare, Free, Timed, Clocked, StackHasLink, FlashIsProven,
       JoinsWhatItKeeps, StartupMaxAttempts, SameC6, SameOrders, SameJobs
  <2> QED BY <2>4, <2>6, SendPendingConnectFree
<1>2. CASE s.nvs \notin Networks
  BY <1>2, BareFree DEF StartProfile
<1> QED BY <1>1, <1>2

\* What was read of the profile matters to nothing else.
LEMMA SavedBare ==
  ASSUME NEW s, Free(s), NEW saved \in BOOLEAN, NEW t, t = [s EXCEPT !.saved = saved]
  PROVE  Free(t) /\ SameWishes(s, t) /\ SameC6(s, t)
<1>1. s \in Manager
  BY DEF Free
<1>2. t \in Manager
  <2>1. [s EXCEPT !.saved = saved] \in Manager
    BY <1>1, Fields
  <2> QED BY <2>1
<1>3. SameWishes(s, t) /\ SameC6(s, t)
  BY <1>1 DEF Manager, SameWishes, SameC6, SameOrders, SameJobs
<1> QED BY <1>2, <1>3 DEF Free, Timed, Clocked, StackHasLink, FlashIsProven, JoinsWhatItKeeps,
           Has, Hears, Joining, Heard1, Proven, SameWishes, SameC6, SameOrders, SameJobs

\* A link that has just come up: nothing is joined and nothing was heard.
LEMMA ReadFree ==
  ASSUME NEW s, Free(s), NEW saved \in BOOLEAN, NEW t, t = [Reset(s) EXCEPT !.saved = saved]
  PROVE  Free(t) /\ SameWishes(s, t) /\ t.nvs = s.nvs /\ t.radio = "idle" /\ t.events = <<>>
         /\ t.session = s.session
<1> DEFINE reset == Reset(s)
<1>1. /\ Free(reset) /\ SameWishes(s, reset) /\ reset.session = s.session /\ reset.nvs = s.nvs
      /\ reset.radio = "idle" /\ reset.events = <<>>
  BY ResetFree
<1>2. t = [reset EXCEPT !.saved = saved]
  OBVIOUS
<1> HIDE DEF reset
<1>3. Free(t) /\ SameWishes(reset, t) /\ SameC6(reset, t)
  BY <1>1, <1>2, SavedBare
<1> QED BY <1>1, <1>3 DEF SameWishes, SameC6, SameOrders, SameJobs

\* set_mode without a job.
LEMMA ModeFree ==
  ASSUME NEW s, Free(s), s.radio = "idle", s.events = <<>>, NEW t, t = SetMode(s, "sta")
  PROVE  Free(t) /\ SameWishes(s, t) /\ t.radio = "idle" /\ t.events = <<>> /\ t.nvs = s.nvs
         /\ t.session = s.session
<1>1. s \in Manager /\ (s.stack # "none" => s.session # "none")
  BY DEF Free, StackHasLink
<1>2. /\ t \in Manager /\ SameWishes(s, t) /\ t.session = s.session /\ t.radio = s.radio
      /\ t.events = s.events /\ t.nvs = s.nvs
  BY <1>1, SetModeShape
<1> QED BY <1>1, <1>2, FreshIsFree DEF SameWishes

\* The console's on, at each point where it can fail.
LEMMA EnableReady ==
  ASSUME NEW s, Free(s), NEW link, NEW progress, NEW r, NEW t, t = Enable(s, link, progress, r)
  PROVE  Free(t) /\ Rested(t)
<1> DEFINE found == s.nvs \in Networks
           read == [Reset(s) EXCEPT !.saved = found]
           sta == SetMode(read, "sta")
           nvs == IF sta.nvs = OffMarker /\ progress # "begun" THEN Empty ELSE sta.nvs
           unmarked == [sta EXCEPT !.nvs = nvs]
           clear == Unconfigured(unmarked)
           started == [clear EXCEPT !.enabled = TRUE, !.session = "started",
                                    !.storage = "ram", !.kept = FALSE]
           on == To(started, "Idle")
<1>1. t = IF link = "up" /\ progress = "all" THEN StartProfile(on, link, r)
          ELSE Disable(IF link = "up" THEN unmarked ELSE s, link, progress)
  BY DEF Enable
<1>2. found \in BOOLEAN
  OBVIOUS
<1> HIDE DEF found
<1>3. Free(read) /\ read.radio = "idle" /\ read.events = <<>>
  BY <1>2, ReadFree
<1> HIDE DEF read
<1>4. Free(sta) /\ sta.radio = "idle" /\ sta.events = <<>>
  BY <1>3, ModeFree
<1> HIDE DEF sta
<1>5. sta \in Manager /\ nvs \in Configs /\ (nvs = sta.nvs \/ nvs \notin Networks)
  BY <1>4, ConstantsAssumption DEF Free, Manager, Configs
<1> HIDE DEF nvs
<1>6. Free(unmarked) /\ unmarked.radio = "idle" /\ unmarked.events = <<>>
  <2>1. unmarked \in Manager
    BY <1>5, Fields
  <2>2. /\ SameWishes(sta, unmarked) /\ unmarked.nvs = nvs /\ unmarked.radio = sta.radio
        /\ unmarked.events = sta.events /\ unmarked.session = sta.session
    BY <1>5 DEF Manager, SameWishes, SameOrders, SameJobs
  <2> HIDE DEF unmarked
  <2>3. ~Joining(unmarked) /\ ~Heard1(unmarked, "connected")
    BY <1>4, <2>2 DEF Joining, Heard1
  <2> QED BY <1>4, <1>5, <2>1, <2>2, <2>3 DEF Free, Timed, Clocked, StackHasLink, FlashIsProven,
             JoinsWhatItKeeps, SameWishes, SameOrders, SameJobs
<1> HIDE DEF unmarked
<1>7. Bare(clear) /\ clear.stack = "none" /\ clear.radio = "idle" /\ clear.events = <<>>
  BY <1>6, UnconfiguredBare DEF SameC6
<1> HIDE DEF clear
<1>8. Bare(started) /\ started.radio = "idle" /\ started.events = <<>> /\ started.enabled
  <2>1. clear \in Manager
    BY <1>7 DEF Bare
  <2>2. started \in Manager
    <3>1. [clear EXCEPT !.enabled = TRUE] \in Manager
      BY <2>1, Fields
    <3>2. [[clear EXCEPT !.enabled = TRUE] EXCEPT !.session = "started"] \in Manager
      BY <3>1, Fields
    <3>3. [[[clear EXCEPT !.enabled = TRUE] EXCEPT !.session = "started"] EXCEPT !.storage = "ram"]
             \in Manager
      BY <3>2, Fields
    <3>4. [[[[clear EXCEPT !.enabled = TRUE] EXCEPT !.session = "started"] EXCEPT !.storage = "ram"]
             EXCEPT !.kept = FALSE] \in Manager
      BY <3>3, Fields
    <3> QED BY <3>4
  <2>3. /\ started.enabled /\ started.session = "started" /\ SameJobs(clear, started)
        /\ started.startup = clear.startup /\ started.gui = clear.gui /\ started.nvs = clear.nvs
        /\ started.attempt = clear.attempt /\ started.cred = clear.cred
        /\ started.stack = clear.stack /\ started.phase = clear.phase
        /\ started.armed = clear.armed /\ started.radio = clear.radio
        /\ started.events = clear.events
    BY <2>1 DEF Manager, SameJobs
  <2> HIDE DEF started
  <2> QED BY <1>7, <2>2, <2>3 DEF Bare, Timed, Clocked, StackHasLink, FlashIsProven, SameJobs
<1> HIDE DEF started
<1>9. Bare(on) /\ Rested(on) /\ on.enabled /\ on.radio = "idle" /\ on.events = <<>>
  BY <1>8, BareTo, PhaseTyped DEF SameOrders, SameC6
<1> HIDE DEF on
<1>10. CASE link = "up" /\ progress = "all"
  BY <1>1, <1>9, <1>10, StartProfileReady
<1>11. CASE ~(link = "up" /\ progress = "all")
  BY <1>1, <1>6, <1>11, DisableReady, BareFree
<1> QED BY <1>10, <1>11

\* begin_startup_auto_connect, at each point where it can fail.
LEMMA BeginStartupReady ==
  ASSUME NEW s, Free(s), NEW link, NEW progress, NEW r,
         NEW t, t = BeginStartupAutoConnect(s, link, progress, r)
  PROVE  Free(t) /\ Rested(t)
<1> DEFINE plain == Unconfigured(s)
           clean == DropSession(plain)
           found == s.nvs \in Networks
           read == [Reset(clean) EXCEPT !.saved = found]
           off == s.mode = "null" /\ s.nvs \in Networks \cup {OffMarker}
           sta == SetMode(read, "sta")
           started == [sta EXCEPT !.enabled = TRUE, !.session = "started"]
           on == To(started, "Idle")
           kept == IF s.nvs \in Networks THEN on.storage ELSE "ram"
           ready == [on EXCEPT !.storage = kept]
           powered == [clean EXCEPT !.power = TRUE]
           down == PowerDown(read)
<1>1. t = CASE link # "up" \/ progress = "begun" -> To(powered, "Failed")
            [] link = "up" /\ progress # "begun" /\ off ->
                  [To(down, "Off") EXCEPT !.enabled = FALSE, !.kept = TRUE]
            [] link = "up" /\ progress = "marked" /\ ~off -> To(sta, "Failed")
            [] OTHER -> StartProfile(ready, link, r)
  BY DEF BeginStartupAutoConnect
<1>2. Bare(plain) /\ plain.stack = "none"
  BY UnconfiguredBare
<1> HIDE DEF plain
<1>3. Bare(clean) /\ clean.stack = "none" /\ clean.session = "none"
  <2>1. plain \in Manager
    BY <1>2 DEF Bare
  <2>2. /\ clean \in Manager /\ SameWishes(plain, clean) /\ clean.session = "none"
        /\ clean.events = <<>> /\ clean.nvs = plain.nvs /\ clean.radio = plain.radio
    BY <2>1, DropSessionShape
  <2>3. Len(clean.events) <= MaxEvents
    BY <2>2, ConstantsAssumption
  <2> HIDE DEF clean
  <2>4. clean.enabled \/ clean.radio = "idle"
    BY <1>2, <2>2 DEF Bare, SameWishes, SameOrders
  <2>5. Bare(clean)
    BY <1>2, <2>2, <2>3, <2>4, SameWishesBare
  <2> QED BY <1>2, <2>2, <2>5 DEF SameWishes
<1> HIDE DEF clean
<1>4. found \in BOOLEAN
  OBVIOUS
<1> HIDE DEF found
<1>5. /\ Free(read) /\ SameWishes(clean, read) /\ read.radio = "idle" /\ read.events = <<>>
      /\ read.session = "none"
  BY <1>3, <1>4, ReadFree, BareFree
<1>6. read.cred = None /\ read.stack = "none"
  BY <1>3, <1>5 DEF Bare, SameWishes
<1> HIDE DEF read
<1>7. Bare(sta) /\ sta.radio = "idle" /\ sta.events = <<>> /\ sta.stack = "none"
  <2>1. /\ Free(sta) /\ SameWishes(read, sta) /\ sta.radio = "idle" /\ sta.events = <<>>
    BY <1>5, ModeFree
  <2> HIDE DEF sta
  <2> QED BY <1>6, <2>1 DEF Bare, Free, SameWishes
<1> HIDE DEF sta
<1>8. CASE link # "up" \/ progress = "begun"
  <2>1. t = To(powered, "Failed")
    BY <1>1, <1>8
  <2>2. clean \in Manager
    BY <1>3 DEF Bare
  <2>3. powered \in Manager
    BY <2>2, Fields
  <2>4. /\ SameWishes(clean, powered) /\ powered.events = clean.events
        /\ powered.nvs = clean.nvs /\ powered.session = clean.session
        /\ powered.radio = clean.radio
    BY <2>2 DEF Manager, SameWishes, SameOrders, SameJobs
  <2> HIDE DEF powered
  <2>5. Bare(powered)
    BY <1>3, <2>3, <2>4, SameWishesBare DEF Bare, Timed, SameWishes, SameOrders
  <2> QED BY <2>1, <2>5, BareTo, BareFree, PhaseTyped
<1>9. CASE link = "up" /\ progress # "begun" /\ off
  <2> DEFINE end == To(down, "Off")
  <2>1. t = [end EXCEPT !.enabled = FALSE, !.kept = TRUE]
    <3> HIDE DEF off, down, powered, ready
    <3> QED BY <1>1, <1>9
  <2>2. read \in Manager
    BY <1>5 DEF Free
  <2>3. /\ down \in Manager /\ SameWishes(read, down) /\ down.session = read.session
        /\ down.events = <<>> /\ down.nvs = read.nvs /\ down.radio = "idle"
    BY <2>2, PowerDownShape
  <2> HIDE DEF down
  <2>4. Bare(read)
    BY <1>5, <1>6 DEF Bare, Free
  <2>5. Len(down.events) <= MaxEvents
    BY <2>3, ConstantsAssumption
  <2>6. Bare(down)
    BY <2>3, <2>4, <2>5, SameWishesBare
  <2>7. Bare(end) /\ end.radio = "idle"
    <3>1. Bare(end) /\ SameC6(down, end)
      BY <2>6, BareTo, PhaseTyped
    <3> QED BY <2>3, <3>1 DEF SameC6
  <2>8. end \in Manager /\ end.phase = "Off"
    BY <2>3, ToTyped, ToShape, PhaseTyped
  <2> HIDE DEF end
  <2>9. t \in Manager
    <3>1. [end EXCEPT !.enabled = FALSE] \in Manager
      BY <2>8, Fields
    <3>2. [[end EXCEPT !.enabled = FALSE] EXCEPT !.kept = TRUE] \in Manager
      BY <3>1, Fields
    <3> QED BY <2>1, <3>2
  <2>10. /\ SameC6(end, t) /\ SameJobs(end, t) /\ t.startup = end.startup /\ t.gui = end.gui
         /\ t.stack = end.stack /\ t.attempt = end.attempt /\ t.cred = end.cred
         /\ t.phase = end.phase /\ t.armed = end.armed
    BY <2>1, <2>8 DEF Manager, SameC6, SameJobs
  <2>11. Bare(t) /\ Rested(t)
    BY <2>7, <2>8, <2>9, <2>10 DEF Bare, Rested, Timed, Clocked, StackHasLink, FlashIsProven, SameC6,
       SameJobs
  <2> QED BY <2>11, BareFree
<1>10. CASE link = "up" /\ progress = "marked" /\ ~off
  <2>1. t = To(sta, "Failed")
    <3> HIDE DEF off, down, powered, ready
    <3> QED BY <1>1, <1>10
  <2> QED BY <1>7, <2>1, BareTo, BareFree, PhaseTyped
<1>11. CASE link = "up" /\ progress \notin {"begun", "marked"} /\ ~off
  <2>1. t = StartProfile(ready, link, r)
    <3> HIDE DEF off, down, powered, ready
    <3> QED BY <1>1, <1>11
  <2>2. sta \in Manager
    BY <1>7 DEF Bare
  <2>3. started \in Manager
    <3>1. [sta EXCEPT !.enabled = TRUE] \in Manager
      BY <2>2, Fields
    <3>2. [[sta EXCEPT !.enabled = TRUE] EXCEPT !.session = "started"] \in Manager
      BY <3>1, Fields
    <3> QED BY <3>2
  <2>4. /\ started.enabled /\ started.session = "started" /\ SameJobs(sta, started)
        /\ started.startup = sta.startup /\ started.gui = sta.gui /\ started.nvs = sta.nvs
        /\ started.attempt = sta.attempt /\ started.cred = sta.cred
        /\ started.stack = sta.stack /\ started.phase = sta.phase
        /\ started.armed = sta.armed /\ started.radio = sta.radio
        /\ started.events = sta.events
    BY <2>2 DEF Manager, SameJobs
  <2> HIDE DEF started
  <2>5. Bare(started)
    BY <1>7, <2>3, <2>4 DEF Bare, Timed, Clocked, StackHasLink, FlashIsProven, SameJobs
  <2>6. /\ Bare(on) /\ Rested(on) /\ on.enabled /\ on.radio = "idle" /\ on.events = <<>>
        /\ on \in Manager
    BY <1>7, <2>4, <2>5, BareTo, PhaseTyped DEF SameOrders, SameC6, Bare
  <2> HIDE DEF on
  <2>7. kept \in {"flash", "ram"}
    BY <2>6 DEF Manager
  <2> HIDE DEF kept
  <2>8. ready \in Manager
    BY <2>6, <2>7, Fields
  <2>9. /\ SameWishes(on, ready) /\ ready.session = on.session /\ ready.radio = on.radio
        /\ ready.events = on.events /\ ready.nvs = on.nvs
    BY <2>6 DEF Manager, SameWishes, SameOrders, SameJobs
  <2> HIDE DEF ready
  <2>10. Len(ready.events) <= MaxEvents
    BY <2>6, <2>9 DEF Bare, Timed
  <2>11. Bare(ready)
    BY <2>6, <2>8, <2>9, <2>10, SameWishesBare
  <2>12. Rested(ready) /\ ready.enabled /\ ready.radio = "idle" /\ ready.events = <<>>
    BY <2>6, <2>9 DEF Rested, RetryIsActive, SameWishes, SameOrders
  <2> QED BY <2>1, <2>11, <2>12, StartProfileReady
<1> QED BY <1>8, <1>9, <1>10, <1>11

----------------------------------------------------------------------------
(* The other commands.                                                     *)

\* A bare manager that leaves, or forgets events, is bare.
LEMMA DeafBare ==
  ASSUME NEW s, Bare(s)
  PROVE  /\ Bare(Leave(s)) /\ SameOrders(s, Leave(s)) /\ Bare(NoEvents(s)) /\ SameOrders(s, NoEvents(s))
         /\ Bare(Left(s)) /\ SameOrders(s, Left(s))
<1>1. s \in Manager /\ Len(<<>>) <= MaxEvents /\ Len(s.events) <= MaxEvents
  BY ConstantsAssumption DEF Bare, Timed
<1>2. Bare(Leave(s)) /\ SameOrders(s, Leave(s))
  <2> DEFINE t == Leave(s)
  <2>1. /\ t \in Manager /\ SameWishes(s, t) /\ t.radio \in {"idle", "leaving"}
        /\ s.radio = "idle" => t.radio = "idle"
        /\ t.session = s.session /\ t.events = s.events /\ t.nvs = s.nvs
    BY <1>1, LeaveShape
  <2> HIDE DEF t
  <2>2. t.enabled \/ t.radio = "idle"
    BY <2>1 DEF Bare, SameWishes, SameOrders
  <2>3. Bare(t) /\ SameOrders(s, t)
    BY <1>1, <2>1, <2>2, SameWishesBare DEF SameWishes
  <2> QED BY <2>3 DEF t
<1>3. Bare(NoEvents(s)) /\ SameOrders(s, NoEvents(s))
  <2> DEFINE t == NoEvents(s)
  <2>1. /\ t \in Manager /\ SameWishes(s, t) /\ t.radio = s.radio
        /\ t.session = s.session /\ t.events = <<>> /\ t.nvs = s.nvs
    BY <1>1, NoEventsShape
  <2> HIDE DEF t
  <2>2. t.enabled \/ t.radio = "idle"
    BY <2>1 DEF Bare, SameWishes, SameOrders
  <2>3. Bare(t) /\ SameOrders(s, t)
    BY <1>1, <2>1, <2>2, SameWishesBare DEF SameWishes
  <2> QED BY <2>3 DEF t
<1>4. Bare(Left(s)) /\ SameOrders(s, Left(s))
  <2> DEFINE t == Left(s)
  <2>1. /\ t \in Manager /\ SameWishes(s, t) /\ t.radio = "idle"
        /\ t.session = s.session /\ t.events = <<>> /\ t.nvs = s.nvs
    BY <1>1, LeftShape
  <2> HIDE DEF t
  <2>3. Bare(t) /\ SameOrders(s, t)
    BY <1>1, <2>1, SameWishesBare DEF SameWishes
  <2> QED BY <2>3 DEF t
<1> QED BY <1>2, <1>3, <1>4

\* What an attempt of the console clears first.
LEMMA PrepareReady ==
  ASSUME NEW s, Free(s), NEW r, NEW t, t = Prepare(s, r)
  PROVE  Bare(t) /\ Rested(t) /\ SameOrders(s, t)
<1> DEFINE new == NewGeneration(s)
           clean == Unconfigured(new)
           leaving == Hears(s) /\ (s.since \/ s.phase \in Linked \cup {"Associating"})
           left == Left(clean)
           deaf == NoEvents(clean)
           going == Leave(clean)
           gone == NoEvents(going)
<1>1. Free(new) /\ SameOrders(s, new)
  BY NewGenerationFree
<1>2. t = CASE ~leaving -> clean
            [] leaving /\ r = "ok" -> To(left, "Idle")
            [] leaving /\ r = "refused" -> To(deaf, "Failed")
            [] OTHER -> To(gone, "Failed")
  BY DEF Prepare
<1> HIDE DEF new
<1>3. Bare(clean) /\ Rested(clean) /\ SameOrders(new, clean)
  BY <1>1, UnconfiguredBare
<1> HIDE DEF clean
<1>4. Bare(left) /\ SameOrders(clean, left) /\ Bare(deaf) /\ SameOrders(clean, deaf)
      /\ Bare(going) /\ SameOrders(clean, going)
  BY <1>3, DeafBare
<1> HIDE DEF left, deaf, going
<1>5. Bare(gone) /\ SameOrders(going, gone)
  BY <1>4, DeafBare
<1> HIDE DEF gone, leaving
<1>6. t \in {clean, To(left, "Idle"), To(deaf, "Failed"), To(gone, "Failed")}
  BY <1>2
<1>7. CASE t = clean
  BY <1>1, <1>3, <1>7 DEF SameOrders
<1>8. ASSUME NEW x \in {left, deaf, gone}, NEW p \in {"Idle", "Failed"}, t = To(x, p)
      PROVE  Bare(t) /\ Rested(t) /\ SameOrders(s, t)
  <2>1. Bare(x) /\ SameOrders(s, x)
    BY <1>1, <1>3, <1>4, <1>5 DEF SameOrders
  <2>2. Bare(t) /\ Rested(t) /\ SameOrders(x, t)
    BY <1>8, <2>1, BareTo, PhaseTyped
  <2> QED BY <2>1, <2>2 DEF SameOrders
<1> QED BY <1>6, <1>7, <1>8

\* The console opens the link.
LEMMA OpenForShellReady ==
  ASSUME NEW s, Free(s), Rested(s), NEW link, NEW t, t = OpenForShell(s, link)
  PROVE  Free(t) /\ Rested(t) /\ SameOrders(s, t)
<1>1. CASE s.session # "none"
  BY <1>1 DEF OpenForShell, SameOrders
<1>2. CASE s.session = "none" /\ link = "up"
  <2>1. t = Open(s, link)
    BY <1>2 DEF OpenForShell
  <2>2. Free(t) /\ SameOrders(s, t) /\ SameWishes(s, t)
    BY <1>2, <2>1, OpenFree
  <2> QED BY <2>2 DEF Rested, RetryIsActive, SameWishes, SameOrders
<1>3. CASE s.session = "none" /\ link # "up"
  <2> DEFINE reset == Reset(s)
  <2>1. t = [reset EXCEPT !.session = "none"]
    BY <1>3 DEF OpenForShell
  <2>2. /\ Free(reset) /\ SameWishes(s, reset) /\ reset.session = s.session
        /\ reset.nvs = s.nvs /\ reset.radio = "idle" /\ reset.events = <<>>
    BY ResetFree
  <2> HIDE DEF reset
  <2>3. reset \in Manager /\ reset.stack = "none"
    BY <1>3, <2>2 DEF Free, StackHasLink
  <2>4. t \in Manager
    <3>1. [reset EXCEPT !.session = "none"] \in Manager
      BY <2>3, Fields
    <3> QED BY <2>1, <3>1
  <2>5. /\ SameWishes(reset, t) /\ t.radio = "idle" /\ t.events = <<>> /\ t.nvs = reset.nvs
    BY <2>1, <2>2, <2>3 DEF Manager, SameWishes, SameOrders, SameJobs
  <2>6. Free(t)
    BY <2>2, <2>3, <2>4, <2>5, FreshIsFree DEF SameWishes
  <2> QED BY <2>2, <2>5, <2>6 DEF Rested, RetryIsActive, SameWishes, SameOrders
<1> QED BY <1>1, <1>2, <1>3

\* What a failed attempt of the console leaves.
LEMMA MarkFailedReady ==
  ASSUME NEW s, Free(s), NEW t, t = MarkFailed(s)
  PROVE  Bare(t) /\ Rested(t)
<1> DEFINE bare == ClearCredentials(s)
           x == [bare EXCEPT !.stack = "none", !.since = FALSE]
<1>1. s \in Manager
  BY DEF Free
<1>2. bare \in Manager
  BY <1>1, SimpleTyped
<1>3. /\ SameC6(s, bare) /\ SameOrders(s, bare) /\ SameJobs(s, bare) /\ bare.cred = None
      /\ bare.attempt = s.attempt /\ bare.phase = s.phase /\ bare.armed = s.armed
  BY <1>1 DEF ClearCredentials, Manager, SameC6, SameOrders, SameJobs
<1>4. t = To(x, "Failed")
  BY DEF MarkFailed
<1> HIDE DEF bare
<1>5. x \in Manager
  <2>1. [bare EXCEPT !.stack = "none"] \in Manager
    BY <1>2, Fields
  <2>2. [[bare EXCEPT !.stack = "none"] EXCEPT !.since = FALSE] \in Manager
    BY <2>1, Fields
  <2> QED BY <2>2
<1>6. /\ SameC6(bare, x) /\ SameOrders(bare, x) /\ SameJobs(bare, x) /\ x.cred = bare.cred
      /\ x.attempt = bare.attempt /\ x.phase = bare.phase /\ x.armed = bare.armed
      /\ x.stack = "none"
  BY <1>2 DEF Manager, SameC6, SameOrders, SameJobs
<1> HIDE DEF x
<1>7. Bare(x)
  BY <1>3, <1>5, <1>6 DEF Free, Bare, Timed, Clocked, StackHasLink, FlashIsProven, SameC6, SameOrders,
     SameJobs
<1> QED BY <1>4, <1>7, BareTo, PhaseTyped

\* Clearing the link for an attempt.
LEMMA ClearLinkReady ==
  ASSUME NEW s, Free(s), NEW t, t = ClearLink(s)
  PROVE  Bare(t) /\ Rested(t) /\ SameOrders(s, t) /\ t.stack = "none"
<1> DEFINE plain == Unconfigured(s)
           clean == DropSession(plain)
           p == IF s.enabled THEN "LinkDown" ELSE "Off"
<1>1. Bare(plain) /\ SameOrders(s, plain) /\ plain.stack = "none"
  BY UnconfiguredBare
<1>2. t = To(clean, p)
  BY DEF ClearLink
<1> HIDE DEF plain
<1>3. plain \in Manager
  BY <1>1 DEF Bare
<1>4. /\ clean \in Manager /\ SameWishes(plain, clean) /\ clean.session = "none"
      /\ clean.events = <<>> /\ clean.nvs = plain.nvs /\ clean.radio = plain.radio
  BY <1>3, DropSessionShape
<1>5. Len(clean.events) <= MaxEvents
  BY <1>4, ConstantsAssumption
<1> HIDE DEF clean
<1>6. clean.enabled \/ clean.radio = "idle"
  BY <1>1, <1>4 DEF Bare, SameWishes, SameOrders
<1>7. Bare(clean) /\ SameOrders(s, clean) /\ clean.stack = "none"
  BY <1>1, <1>4, <1>5, <1>6, SameWishesBare DEF SameWishes, SameOrders
<1>8. p \in Phases \ {"NeedsPassword", "RetryWaiting"}
  BY PhaseTyped
<1> HIDE DEF p
<1>9. Bare(t) /\ Rested(t) /\ SameOrders(clean, t)
  BY <1>2, <1>7, <1>8, BareTo
<1>10. t.stack = clean.stack
  BY <1>2, <1>4, <1>8, ToShape
<1> QED BY <1>7, <1>9, <1>10 DEF SameOrders

\* An attempt of the console, whatever comes of it.
LEMMA ShellAttemptReady ==
  ASSUME NEW s, Free(s), s.enabled, NEW network \in Networks, NEW r, NEW outcome,
         NEW t, t = ShellAttempt(s, network, r, outcome)
  PROVE  Free(t) /\ Rested(t)
<1> DEFINE plain == Unconfigured(s)
           begun == [plain EXCEPT !.source = "Shell", !.attempt = 1]
           says == C6Says(s, r)
           asked == AskToJoin(begun, network, says)
           joined == [asked EXCEPT !.radio = "joined", !.since = TRUE, !.events = <<>>]
           idle == [asked EXCEPT !.radio = "idle", !.events = <<>>]
<1>1. t = CASE says = "ok" /\ outcome = "connected" /\ network \in Good -> To(joined, "Associated")
            [] says = "ok" /\ outcome = "refused" -> MarkFailed(idle)
            [] OTHER -> MarkFailed(asked)
  BY DEF ShellAttempt
<1>2. Bare(plain) /\ SameOrders(s, plain)
  BY UnconfiguredBare
<1> HIDE DEF plain, says
<1>3. Bare(begun) /\ begun.enabled /\ begun.cred = None
  <2>1. plain \in Manager
    BY <1>2 DEF Bare
  <2>2. begun \in Manager
    <3>1. [plain EXCEPT !.source = "Shell"] \in Manager
      BY <2>1, Fields
    <3>2. [[plain EXCEPT !.source = "Shell"] EXCEPT !.attempt = 1] \in Manager
      BY <3>1, Fields
    <3> QED BY <3>2
  <2>3. /\ SameC6(plain, begun) /\ SameOrders(plain, begun) /\ SameJobs(plain, begun)
        /\ begun.cred = plain.cred /\ begun.attempt = 1 /\ begun.stack = plain.stack
        /\ begun.phase = plain.phase /\ begun.armed = plain.armed
    BY <2>1 DEF Manager, SameC6, SameOrders, SameJobs
  <2> HIDE DEF begun
  <2>4. begun.startup => begun.attempt <= StartupMaxAttempts
    BY <2>3 DEF StartupMaxAttempts
  <2> QED BY <1>2, <2>2, <2>3, <2>4 DEF Bare, Timed, Clocked, StackHasLink, FlashIsProven, SameC6,
             SameOrders, SameJobs
<1> HIDE DEF begun
<1>4. Bare(asked) /\ asked.enabled
  <2>1. Free(asked) /\ SameWishes(begun, asked)
    BY <1>3, BareFree, AskToJoinFree
  <2> HIDE DEF asked
  <2> QED BY <1>3, <2>1 DEF Bare, Free, SameWishes, SameOrders
<1> HIDE DEF asked
<1>5. asked \in Manager /\ Len(<<>>) <= MaxEvents
  BY <1>4, ConstantsAssumption DEF Bare
<1>6. Bare(joined)
  <2>1. joined \in Manager
    <3>1. [asked EXCEPT !.radio = "joined"] \in Manager
      BY <1>5, Fields
    <3>2. [[asked EXCEPT !.radio = "joined"] EXCEPT !.since = TRUE] \in Manager
      BY <3>1, Fields
    <3>3. [[[asked EXCEPT !.radio = "joined"] EXCEPT !.since = TRUE] EXCEPT !.events = <<>>] \in Manager
      BY <3>2, NoEventTyped, Fields
    <3> QED BY <3>3
  <2>2. /\ SameWishes(asked, joined) /\ joined.events = <<>> /\ joined.session = asked.session
        /\ joined.nvs = asked.nvs
    BY <1>5 DEF Manager, SameWishes, SameOrders, SameJobs
  <2> HIDE DEF joined
  <2>3. joined.enabled
    BY <1>4, <2>2 DEF SameWishes, SameOrders
  <2> QED BY <1>4, <1>5, <2>1, <2>2, <2>3, SameWishesBare
<1>7. Bare(idle)
  <2>1. idle \in Manager
    <3>1. [asked EXCEPT !.radio = "idle"] \in Manager
      BY <1>5, Fields
    <3>2. [[asked EXCEPT !.radio = "idle"] EXCEPT !.events = <<>>] \in Manager
      BY <3>1, NoEventTyped, Fields
    <3> QED BY <3>2
  <2>2. /\ SameWishes(asked, idle) /\ idle.events = <<>> /\ idle.session = asked.session
        /\ idle.nvs = asked.nvs /\ idle.radio = "idle"
    BY <1>5 DEF Manager, SameWishes, SameOrders, SameJobs
  <2> HIDE DEF idle
  <2> QED BY <1>4, <1>5, <2>1, <2>2, SameWishesBare
<1> HIDE DEF joined, idle
<1>8. t \in {To(joined, "Associated"), MarkFailed(idle), MarkFailed(asked)}
  BY <1>1
<1> QED BY <1>4, <1>6, <1>7, <1>8, BareTo, BareFree, MarkFailedReady, PhaseTyped

\* The profile is gone from the flash and from the manager.
LEMMA ForgottenBare ==
  ASSUME NEW s, Free(s), ~s.startup, NEW t, t = Forgotten(s)
  PROVE  Bare(t) /\ Rested(t) /\ t.phase = s.phase
<1> DEFINE clear == ClearCredentials(s)
<1>1. s \in Manager
  BY DEF Free
<1>2. clear \in Manager
  BY <1>1, SimpleTyped
<1>3. /\ SameC6(s, clear) /\ SameOrders(s, clear) /\ SameJobs(s, clear) /\ clear.cred = None
      /\ clear.attempt = s.attempt /\ clear.phase = s.phase /\ clear.armed = s.armed
      /\ clear.stack = s.stack /\ ~clear.savePending
  BY <1>1 DEF ClearCredentials, Manager, SameC6, SameOrders, SameJobs
<1>4. t = [clear EXCEPT !.source = "none", !.saved = FALSE, !.nvs = Empty, !.cfg = Empty,
                        !.mode = "sta"]
  BY DEF Forgotten
<1> HIDE DEF clear
<1>5. t \in Manager
  <2>0. Empty \in Configs
    BY DEF Configs
  <2>1. [clear EXCEPT !.source = "none"] \in Manager
    BY <1>2, Fields
  <2>2. [[clear EXCEPT !.source = "none"] EXCEPT !.saved = FALSE] \in Manager
    BY <2>1, Fields
  <2>3. [[[clear EXCEPT !.source = "none"] EXCEPT !.saved = FALSE] EXCEPT !.nvs = Empty] \in Manager
    BY <2>0, <2>2, Fields
  <2>4. [[[[clear EXCEPT !.source = "none"] EXCEPT !.saved = FALSE] EXCEPT !.nvs = Empty]
           EXCEPT !.cfg = Empty] \in Manager
    BY <2>0, <2>3, Fields
  <2>5. [[[[[clear EXCEPT !.source = "none"] EXCEPT !.saved = FALSE] EXCEPT !.nvs = Empty]
           EXCEPT !.cfg = Empty] EXCEPT !.mode = "sta"] \in Manager
    BY <2>4, Fields
  <2> QED BY <1>4, <2>5
<1>6. /\ SameOrders(clear, t) /\ SameJobs(clear, t) /\ t.cred = clear.cred /\ t.attempt = clear.attempt
      /\ t.phase = clear.phase /\ t.armed = clear.armed /\ t.stack = clear.stack
      /\ t.savePending = clear.savePending /\ t.source = "none" /\ t.session = clear.session
      /\ t.radio = clear.radio /\ t.events = clear.events /\ t.nvs = Empty
  BY <1>2, <1>4 DEF Manager, SameOrders, SameJobs
<1>7. FlashIsProven(t)
  BY <1>6, ConstantsAssumption DEF FlashIsProven
<1>8. Bare(t)
  BY <1>3, <1>5, <1>6, <1>7 DEF Free, Bare, Timed, Clocked, StackHasLink, SameC6, SameOrders, SameJobs
<1>9. Rested(t)
  <2>1. ~RetryIsActive(t) /\ ~t.savePending
    BY <1>3, <1>6 DEF RetryIsActive
  <2> QED BY <1>3, <1>6, <2>1 DEF Rested, SameOrders
<1> QED BY <1>3, <1>6, <1>8, <1>9

\* The console's address policy.
LEMMA SetIpPolicyReady ==
  ASSUME NEW s, Free(s), Rested(s), s.session # "none", NEW stack \in {"waiting", "addressed"},
         NEW policy \in {"Unconfigured", "Dhcp", "Static"},
         NEW t, t = SetIpPolicy([s EXCEPT !.stack = stack], policy)
  PROVE  Free(t) /\ Rested(t)
<1> DEFINE open == [s EXCEPT !.stack = stack]
           set == [open EXCEPT !.policy = policy]
<1>1. s \in Manager
  BY DEF Free
<1>2. open \in Manager
  BY <1>1, Fields
<1>3. set \in Manager
  <2> HIDE DEF open
  <2> QED BY <1>2, Fields
<1>4. /\ SameC6(s, set) /\ SameOrders(s, set) /\ SameJobs(s, set) /\ set.cred = s.cred
      /\ set.attempt = s.attempt /\ set.phase = s.phase /\ set.armed = s.armed
      /\ set.source = s.source /\ set.savePending = s.savePending
  BY <1>1 DEF Manager, SameC6, SameOrders, SameJobs
<1>5. t \in {set} \cup {To(set, p) : p \in {"Associated", "Online", "RequestingDhcp"}}
  BY DEF SetIpPolicy
<1> HIDE DEF set, open
<1>6. Free(set) /\ Rested(set)
  BY <1>3, <1>4 DEF Free, Rested, Timed, Clocked, StackHasLink, FlashIsProven, JoinsWhatItKeeps,
     RetryIsActive, Has, Hears, Joining, Heard1, Proven, SameC6, SameOrders, SameJobs
<1>7. ASSUME NEW p \in {"Associated", "Online", "RequestingDhcp"}, t = To(set, p)
      PROVE  Free(t) /\ Rested(t)
  BY <1>6, <1>7, FreeTo, PhaseTyped
<1> QED BY <1>5, <1>6, <1>7

\* The console forgets the profile.
LEMMA ForgetReady ==
  ASSUME NEW s, Free(s), Rested(s), ~s.startup, NEW link, NEW progress,
         NEW t, t = ForgetSavedProfile(s, link, progress)
  PROVE  Free(t) /\ Rested(t)
<1> DEFINE station == EnsureStation(s, link)
           gone == Forgotten(station)
           down == PowerDown(s)
           off == To(down, "Off")
           powered == [s EXCEPT !.power = TRUE, !.kept = FALSE]
           unkept == [off EXCEPT !.kept = FALSE]
           marked == [off EXCEPT !.nvs = OffMarker, !.mode = "sta", !.kept = FALSE]
           wiped == Forgotten(off)
           all == [wiped EXCEPT !.nvs = OffMarker, !.mode = "null"]
           still == [gone EXCEPT !.storage = "ram"]
<1>1. t = CASE s.enabled /\ station.session = "none" -> station
            [] s.enabled /\ station.session # "none" ->
                  IF progress = "begun" THEN station ELSE still
            [] ~s.enabled /\ link # "up" -> To(powered, "Failed")
            [] ~s.enabled /\ link = "up" /\ progress = "begun" -> unkept
            [] ~s.enabled /\ link = "up" /\ progress = "marked" -> marked
            [] OTHER -> all
  BY DEF ForgetSavedProfile
<1>2. s \in Manager
  BY DEF Free
<1>3. CASE s.enabled
  <2>1. Free(station) /\ Rested(station) /\ ~station.startup
    <3>1. /\ Free(station) /\ SameOrders(s, station)
          /\ station = s \/ station.phase \notin {"NeedsPassword", "RetryWaiting"}
      BY EnsureStationFree
    <3> HIDE DEF station
    <3> QED BY <3>1 DEF Rested, SameOrders
  <2> HIDE DEF station
  <2>2. Bare(gone) /\ Rested(gone)
    BY <2>1, ForgottenBare
  <2> HIDE DEF gone
  <2>3. gone \in Manager
    BY <2>2 DEF Bare
  <2>4. Free(still) /\ Rested(still)
    <3>1. still \in Manager
      BY <2>3, Fields
    <3>2. /\ SameWishes(gone, still) /\ still.events = gone.events /\ still.nvs = gone.nvs
          /\ still.session = gone.session /\ still.radio = gone.radio
      BY <2>3 DEF Manager, SameWishes, SameOrders, SameJobs
    <3> HIDE DEF still
    <3>3. Bare(still)
      BY <2>2, <3>1, <3>2 DEF Bare, Timed, Clocked, StackHasLink, FlashIsProven, SameWishes,
         SameOrders, SameJobs
    <3>4. Rested(still)
      BY <2>2, <3>2 DEF Rested, RetryIsActive, SameWishes, SameOrders
    <3> QED BY <3>3, <3>4, BareFree
  <2>5. t \in {station, still}
    <3> HIDE DEF still, powered, unkept, marked, all
    <3> QED BY <1>1, <1>3
  <2> QED BY <2>1, <2>4, <2>5
<1>4. CASE ~s.enabled
  <2>1. Bare(s)
    BY <1>4 DEF Free, Bare
  <2>2. Bare(powered)
    <3>1. powered \in Manager
      <4>1. [s EXCEPT !.power = TRUE] \in Manager
        BY <1>2, Fields
      <4>2. [[s EXCEPT !.power = TRUE] EXCEPT !.kept = FALSE] \in Manager
        BY <4>1, Fields
      <4> QED BY <4>2
    <3>2. /\ SameWishes(s, powered) /\ powered.events = s.events /\ powered.nvs = s.nvs
          /\ powered.session = s.session /\ powered.radio = s.radio
      BY <1>2 DEF Manager, SameWishes, SameOrders, SameJobs
    <3> HIDE DEF powered
    <3> QED BY <2>1, <3>1, <3>2 DEF Bare, Timed, Clocked, StackHasLink, FlashIsProven, SameWishes,
               SameOrders, SameJobs
  <2>3. Bare(off) /\ off \in Manager /\ off.phase = "Off" /\ ~off.startup /\ ~off.enabled
        /\ off.radio = "idle"
    <3>1. /\ down \in Manager /\ SameWishes(s, down) /\ down.session = s.session
          /\ down.events = <<>> /\ down.nvs = s.nvs /\ down.radio = "idle"
      BY <1>2, PowerDownShape
    <3> HIDE DEF down
    <3>2. Len(down.events) <= MaxEvents
      BY <3>1, ConstantsAssumption
    <3>3. Bare(down)
      BY <2>1, <3>1, <3>2, SameWishesBare
    <3>4. Bare(off) /\ SameOrders(down, off) /\ SameC6(down, off)
      BY <3>3, BareTo, PhaseTyped
    <3>5. off.phase = "Off"
      BY <3>1, ToShape, PhaseTyped
    <3> HIDE DEF off
    <3> QED BY <1>4, <3>1, <3>4, <3>5 DEF Bare, SameWishes, SameOrders, SameC6
  <2> HIDE DEF off
  <2>4. OffMarker \in Configs /\ OffMarker \notin Networks
    BY ConstantsAssumption DEF Configs
  <2>5. Bare(unkept) /\ Rested(unkept)
    <3>1. unkept \in Manager
      BY <2>3, Fields
    <3>2. SameWishes(off, unkept) /\ SameC6(off, unkept)
      BY <2>3 DEF Manager, SameWishes, SameC6, SameOrders, SameJobs
    <3> HIDE DEF unkept
    <3> QED BY <2>3, <3>1, <3>2 DEF Bare, Rested, Timed, Clocked, StackHasLink, FlashIsProven,
               SameWishes, SameC6, SameOrders, SameJobs
  <2>6. Bare(marked) /\ Rested(marked)
    <3>1. marked \in Manager
      <4>1. [off EXCEPT !.nvs = OffMarker] \in Manager
        BY <2>3, <2>4, Fields
      <4>2. [[off EXCEPT !.nvs = OffMarker] EXCEPT !.mode = "sta"] \in Manager
        BY <4>1, Fields
      <4>3. [[[off EXCEPT !.nvs = OffMarker] EXCEPT !.mode = "sta"] EXCEPT !.kept = FALSE] \in Manager
        BY <4>2, Fields
      <4> QED BY <4>3
    <3>2. /\ SameWishes(off, marked) /\ marked.events = off.events /\ marked.nvs = OffMarker
          /\ marked.session = off.session /\ marked.radio = off.radio
      BY <2>3 DEF Manager, SameWishes, SameOrders, SameJobs
    <3> HIDE DEF marked
    <3> QED BY <2>3, <2>4, <3>1, <3>2 DEF Bare, Rested, Timed, Clocked, StackHasLink, FlashIsProven,
               SameWishes, SameOrders, SameJobs
  <2>7. Bare(all) /\ Rested(all)
    <3>1. Bare(wiped) /\ Rested(wiped) /\ wiped.phase = "Off"
      BY <2>3, BareFree, ForgottenBare
    <3> HIDE DEF wiped
    <3>2. wiped \in Manager
      BY <3>1 DEF Bare
    <3>3. all \in Manager
      <4>1. [wiped EXCEPT !.nvs = OffMarker] \in Manager
        BY <2>4, <3>2, Fields
      <4>2. [[wiped EXCEPT !.nvs = OffMarker] EXCEPT !.mode = "null"] \in Manager
        BY <4>1, Fields
      <4> QED BY <4>2
    <3>4. /\ SameWishes(wiped, all) /\ all.events = wiped.events /\ all.nvs = OffMarker
          /\ all.session = wiped.session /\ all.radio = wiped.radio
      BY <3>2 DEF Manager, SameWishes, SameOrders, SameJobs
    <3> HIDE DEF all
    <3> QED BY <2>4, <3>1, <3>3, <3>4 DEF Bare, Rested, Timed, Clocked, StackHasLink, FlashIsProven,
               SameWishes, SameOrders, SameJobs
  <2>8. t \in {To(powered, "Failed"), unkept, marked, all}
    <3> HIDE DEF station, still, powered, unkept, marked, all
    <3> QED BY <1>1, <1>4
  <2> HIDE DEF powered, unkept, marked, all
  <2> QED BY <2>2, <2>5, <2>6, <2>7, <2>8, BareTo, BareFree, PhaseTyped
<1> QED BY <1>3, <1>4

\* The console's disconnection, whatever comes of it.
LEMMA DisconnectReady ==
  ASSUME NEW s, Free(s), Rested(s), s.enabled, ~s.startup, NEW r,
         NEW t, t = CASE r = "ok" -> MarkDisconnected(Left(s))
                      [] r = "late" -> MarkDisconnected(Leave(s))
                      [] r = "done" -> Leave(s)
                      [] OTHER -> s
  PROVE  Free(t) /\ Rested(t)
<1> DEFINE left == Left(s)
           going == Leave(s)
<1>1. s \in Manager
  BY DEF Free
<1>2. /\ left \in Manager /\ SameWishes(s, left) /\ left.radio = "idle"
      /\ left.session = s.session /\ left.events = <<>> /\ left.nvs = s.nvs
  BY <1>1, LeftShape
<1>3. /\ going \in Manager /\ SameWishes(s, going) /\ going.radio \in {"idle", "leaving"}
      /\ going.session = s.session /\ going.events = s.events /\ going.nvs = s.nvs
  BY <1>1, LeaveShape
<1>4. t \in {MarkDisconnected(left), MarkDisconnected(going), going, s}
  OBVIOUS
<1> HIDE DEF left, going
<1>5. ASSUME NEW x \in {left, going}
      PROVE  Free(MarkDisconnected(x)) /\ Rested(MarkDisconnected(x))
  <2> DEFINE u == MarkDisconnected(x)
  <2>1. /\ x \in Manager /\ SameWishes(s, x) /\ x.nvs = s.nvs /\ Len(x.events) <= MaxEvents
    BY <1>2, <1>3, ConstantsAssumption DEF Free, Timed
  <2>2. /\ u \in Manager /\ SameC6(x, u) /\ SameOrders(x, u) /\ SameJobs(x, u)
        /\ u.stack = "none" /\ u.attempt = 0 /\ u.cred = None /\ Clocked(u)
        /\ u.phase \notin {"NeedsPassword", "RetryWaiting"}
    BY <2>1, MarkDisconnectedShape
  <2> HIDE DEF u
  <2>3. Bare(u) /\ Rested(u)
    BY <2>1, <2>2 DEF Free, Bare, Rested, Timed, StackHasLink, FlashIsProven, SameWishes, SameC6,
       SameOrders, SameJobs
  <2>4. Free(u) /\ Rested(u)
    BY <2>3, BareFree
  <2> QED BY <2>4 DEF u
<1>6. Free(going) /\ Rested(going)
  BY <1>3 DEF Free, Rested, Timed, Clocked, StackHasLink, FlashIsProven, JoinsWhatItKeeps,
     RetryIsActive, Has, Hears, Joining, Heard1, Proven, SameWishes, SameOrders, SameJobs
<1> QED BY <1>4, <1>5, <1>6

----------------------------------------------------------------------------
(* The orders of the panel and what happens in the air.                    *)

\* Who listens, and whether there is an answer, matters to no job.
LEMMA FlagsSound ==
  ASSUME NEW s, Sound(s), NEW gui \in BOOLEAN, NEW reply \in BOOLEAN, s.startup => ~gui,
         NEW t, t = [s EXCEPT !.gui = gui, !.reply = reply]
  PROVE  Sound(t) /\ SameJobs(s, t) /\ t.gui = gui /\ t.reply = reply
<1>1. s \in Manager
  BY DEF Sound
<1>2. t \in Manager
  <2>1. [s EXCEPT !.gui = gui] \in Manager
    BY <1>1, Fields
  <2>2. [[s EXCEPT !.gui = gui] EXCEPT !.reply = reply] \in Manager
    BY <2>1, Fields
  <2> QED BY <2>2
<1>3. /\ SameC6(s, t) /\ SameJobs(s, t) /\ t.gui = gui /\ t.reply = reply
      /\ t.enabled = s.enabled /\ t.startup = s.startup
      /\ t.stack = s.stack /\ t.source = s.source /\ t.attempt = s.attempt /\ t.cred = s.cred
      /\ t.phase = s.phase /\ t.armed = s.armed /\ t.savePending = s.savePending
  BY <1>1 DEF Manager, SameC6, SameJobs
<1>4. JobsInOrder(t) /\ Timed(t) /\ StackHasLink(t) /\ Quiet(t)
  BY <1>3 DEF Sound, JobsInOrder, Timed, Clocked, StackHasLink, Quiet, Busy, Has, AtStage, SameC6,
     SameJobs
<1>5. PasswordDropped(t) /\ AttemptsEnd(t)
  BY <1>3 DEF Sound, PasswordDropped, AttemptsEnd, RetryIsActive, Has, SameJobs
<1>6. SavesWhatWorks(t)
  BY <1>3 DEF Sound, SavesWhatWorks, FlashIsProven, TriedInRam, NothingToJoin, SavedIsProven,
     JoinsWhatItKeeps, Has, AtStage, Hears, Joining, Heard1, Proven, SameC6, SameJobs
<1> QED BY <1>2, <1>3, <1>4, <1>5, <1>6 DEF Sound

\* The job of an order of the user's.
LEMMA BeginGuiShape ==
  ASSUME NEW s \in Manager, NEW kind \in Kinds, NEW stage \in Stages, NEW t,
         t = BeginGui(s, kind, stage)
  PROVE  /\ t \in Manager /\ SameC6(s, t) /\ t.followup = s.followup
         /\ t.job \in Jobs /\ t.job # None /\ t.job.kind = kind /\ t.job.token
         /\ t.job.stage = IF s.session = "none" THEN 0 ELSE stage
         /\ t.enabled = s.enabled /\ t.startup = s.startup /\ t.gui = s.gui
         /\ t.stack = s.stack /\ t.source = s.source /\ t.attempt = s.attempt /\ t.cred = s.cred
         /\ t.phase = s.phase /\ t.armed = s.armed /\ t.savePending = s.savePending
<1> DEFINE first == IF s.session = "none" THEN 0 ELSE stage
           job == NewJob(kind, first, TRUE)
<1>1. first \in Stages
  BY DEF Stages
<1>2. job \in Jobs /\ job # None
  <2> HIDE DEF first
  <2>1. job \in Jobs
    BY <1>1, JobTyped
  <2> QED BY <2>1, NoJobAssumption
<1>3. job.kind = kind /\ job.stage = first /\ job.token
  BY DEF NewJob
<1>4. t = [s EXCEPT !.reply = FALSE, !.job = job]
  BY DEF BeginGui
<1> HIDE DEF job
<1>5. t \in Manager
  <2>1. [s EXCEPT !.reply = FALSE] \in Manager
    BY Fields
  <2>2. [[s EXCEPT !.reply = FALSE] EXCEPT !.job = job] \in Manager
    BY <1>2, <2>1, Fields
  <2> QED BY <1>4, <2>2
<1>6. /\ SameC6(s, t) /\ t.followup = s.followup /\ t.job = job
      /\ t.enabled = s.enabled /\ t.startup = s.startup /\ t.gui = s.gui
      /\ t.stack = s.stack /\ t.source = s.source /\ t.attempt = s.attempt /\ t.cred = s.cred
      /\ t.phase = s.phase /\ t.armed = s.armed /\ t.savePending = s.savePending
  BY <1>4 DEF Manager, SameC6
<1> QED BY <1>2, <1>3, <1>5, <1>6

\* Each order and the stage it begins with when there is a session.
Order(kind, stage) ==
  \/ kind = "Scan" /\ stage = 20
  \/ kind = "Connect" /\ stage = 10
  \/ kind = "Enable" /\ stage = 4
  \/ kind = "Disable" /\ stage = 30
  \/ kind = "Forget" /\ stage = 50

\* The orders of the panel are jobs.
LEMMA OrderTyped ==
  ASSUME NEW kind, NEW stage, Order(kind, stage)
  PROVE  kind \in Kinds /\ stage \in Stages
BY DEF Order, Kinds, Stages

\* An order of the panel, taken by a manager that has no job.
LEMMA OrderedSound ==
  ASSUME NEW s, Sound(s), ~Busy(s), ~s.startup, NEW kind, NEW stage, Order(kind, stage),
         s.enabled \/ kind \in {"Enable", "Forget"},
         NEW t \in Manager, SameC6(s, t), t.followup = s.followup,
         t.job \in Jobs, t.job # None, t.job.kind = kind,
         t.job.stage = IF s.session = "none" THEN 0 ELSE stage,
         t.enabled = s.enabled, t.startup = s.startup,
         t.stack \in {"none", s.stack}, Clocked(t), t.phase = s.phase,
         \/ kind = "Connect"
         \/ t.source = s.source /\ t.cred = s.cred /\ t.savePending = s.savePending
  PROVE  Sound(t)
<1>1. /\ s.job = None /\ s.followup = None /\ t.followup = None
      /\ t.job.stage \in {0, stage} /\ (t.job.stage = 0 <=> s.session = "none")
      /\ stage \in {4, 10, 20, 30, 50}
  BY DEF Busy, Order
<1>2. Fits(t.job)
  BY <1>1 DEF Order, Fits, BringUpStages, JoinStages, OffStages
<1>3. t.job.stage \notin OffStages \cup {1, 12, 13}
  BY <1>1 DEF OffStages
<1>4. ~(kind = "Enable" /\ t.job.stage \in JoinStages)
  BY <1>1 DEF Order, JoinStages
<1>5. JobsInOrder(t) /\ Quiet(t)
  BY <1>1, <1>2, <1>3, <1>4 DEF Sound, JobsInOrder, Quiet, Has, AtStage, SameC6
<1>6. Timed(t) /\ StackHasLink(t) /\ AttemptsEnd(t)
  BY DEF Sound, Timed, StackHasLink, AttemptsEnd, SameC6
<1>7. PasswordDropped(t)
  BY <1>1 DEF Sound, PasswordDropped, RetryIsActive, Has
<1>8. kind # "Associated"
  BY DEF Order
<1>9. FlashIsProven(t) /\ TriedInRam(t) /\ NothingToJoin(t) /\ SavedIsProven(t)
  BY <1>1, <1>3, <1>8 DEF Sound, SavesWhatWorks, FlashIsProven, TriedInRam, NothingToJoin,
     SavedIsProven, Has, AtStage, SameC6
<1>10. JoinsWhatItKeeps(t)
  BY <1>1 DEF Sound, SavesWhatWorks, JoinsWhatItKeeps, Hears, Joining, Heard1, Proven, Has, SameC6
<1> QED BY <1>5, <1>6, <1>7, <1>9, <1>10 DEF Sound, SavesWhatWorks

\* The access point takes the station, refuses it or drops it.
LEMMA AirSound ==
  ASSUME NEW s, Sound(s), Hears(s), s.radio # "idle", NEW event \in Events,
         event = "connected" => Joining(s) /\ s.cfg \in Good,
         NEW radio \in {"idle", "joined"}, NEW t, t = Notify([s EXCEPT !.radio = radio], event)
  PROVE  Sound(t) /\ SameOrders(s, t) /\ SameJobs(s, t)
<1> DEFINE x == [s EXCEPT !.radio = radio]
<1>1. s \in Manager /\ Len(s.events) <= MaxEvents
  BY DEF Sound, Timed
<1>2. x \in Manager
  BY <1>1, Fields
<1>3. /\ SameWishes(s, x) /\ x.session = s.session /\ x.events = s.events /\ x.nvs = s.nvs
      /\ x.cfg = s.cfg /\ x.storage = s.storage /\ x.radio = radio
  BY <1>1 DEF Manager, SameWishes, SameOrders, SameJobs
<1> HIDE DEF x
<1>4. /\ t \in Manager /\ Len(t.events) <= MaxEvents
      /\ Heard1(t, "connected") => event = "connected" \/ Heard1(x, "connected")
      /\ SameOrders(x, t) /\ SameJobs(x, t)
      /\ t.session = x.session /\ t.storage = x.storage /\ t.cfg = x.cfg /\ t.radio = x.radio
      /\ t.nvs = x.nvs /\ t.stack = x.stack /\ t.source = x.source /\ t.attempt = x.attempt
      /\ t.cred = x.cred /\ t.phase = x.phase /\ t.armed = x.armed
      /\ t.savePending = x.savePending
  <2>1. t = Notify(x, event)
    BY DEF x
  <2> QED BY <1>1, <1>2, <1>3, <2>1, NotifyShape
<1>5. /\ SameWishes(s, t) /\ t.session = s.session /\ t.storage = s.storage /\ t.cfg = s.cfg
      /\ t.nvs = s.nvs /\ t.radio \in {"idle", "joined"}
  BY <1>3, <1>4 DEF SameWishes, SameOrders, SameJobs
<1>6. Heard1(t, "connected") => (Joining(s) /\ s.cfg \in Good) \/ Heard1(s, "connected")
  BY <1>3, <1>4 DEF Heard1
<1>7. JobsInOrder(t) /\ StackHasLink(t) /\ PasswordDropped(t) /\ AttemptsEnd(t)
  BY <1>5 DEF Sound, JobsInOrder, StackHasLink, PasswordDropped, AttemptsEnd, RetryIsActive, Busy, Has,
     AtStage, SameWishes, SameOrders, SameJobs
<1>8. Timed(t) /\ Quiet(t)
  BY <1>4, <1>5 DEF Sound, Timed, Clocked, Quiet, SameWishes, SameOrders
<1>9. ~Joining(t) /\ Hears(t)
  BY <1>5 DEF Joining, Hears
<1>10. TriedInRam(t) /\ JoinsWhatItKeeps(t)
  BY <1>5, <1>6, <1>9 DEF Sound, SavesWhatWorks, TriedInRam, JoinsWhatItKeeps, Has, AtStage, Proven,
     SameWishes, SameJobs
<1>11. FlashIsProven(t) /\ NothingToJoin(t) /\ SavedIsProven(t)
  BY <1>5, <1>9 DEF Sound, SavesWhatWorks, FlashIsProven, NothingToJoin, SavedIsProven, Has, AtStage,
     Proven, SameWishes, SameJobs
<1> QED BY <1>4, <1>5, <1>7, <1>8, <1>10, <1>11 DEF Sound, SavesWhatWorks, SameWishes

\* The link can die in any state.
LEMMA LinkDiesSound ==
  ASSUME NEW s, Sound(s), Hears(s), NEW t, t = [s EXCEPT !.session = "dead"]
  PROVE  Sound(t) /\ SameOrders(s, t) /\ SameJobs(s, t)
<1>1. s \in Manager
  BY DEF Sound
<1>2. t \in Manager
  <2>1. [s EXCEPT !.session = "dead"] \in Manager
    BY <1>1, Fields
  <2> QED BY <2>1
<1>3. /\ SameWishes(s, t) /\ t.session = "dead" /\ t.storage = s.storage
      /\ t.nvs = s.nvs /\ t.radio = s.radio /\ t.events = s.events
  BY <1>1 DEF Manager, SameWishes, SameOrders, SameJobs
<1>4. JobsInOrder(t) /\ StackHasLink(t) /\ PasswordDropped(t) /\ AttemptsEnd(t)
  BY <1>3 DEF Sound, JobsInOrder, StackHasLink, PasswordDropped, AttemptsEnd, RetryIsActive, Busy, Has,
     AtStage, Hears, SameWishes, SameOrders, SameJobs
<1>5. Timed(t) /\ Quiet(t)
  BY <1>3 DEF Sound, Timed, Clocked, Quiet, Has, AtStage, SameWishes, SameOrders, SameJobs
<1>6. SavesWhatWorks(t)
  BY <1>3 DEF Sound, SavesWhatWorks, FlashIsProven, TriedInRam, NothingToJoin, SavedIsProven,
     JoinsWhatItKeeps, Has, AtStage, Hears, Joining, Proven, SameWishes, SameJobs
<1> QED BY <1>2, <1>3, <1>4, <1>5, <1>6 DEF Sound, SameWishes

\* A lease can arrive or expire in any state that has a stack.
LEMMA LeaseSound ==
  ASSUME NEW s, Sound(s), s.stack # "none", NEW stack \in {"waiting", "addressed"},
         NEW t, t = [s EXCEPT !.stack = stack]
  PROVE  Sound(t) /\ SameOrders(s, t) /\ SameJobs(s, t)
<1>1. s \in Manager
  BY DEF Sound
<1>2. t \in Manager
  <2>1. [s EXCEPT !.stack = stack] \in Manager
    BY <1>1, Fields
  <2> QED BY <2>1
<1>3. /\ SameC6(s, t) /\ SameOrders(s, t) /\ SameJobs(s, t) /\ t.attempt = s.attempt
      /\ t.source = s.source /\ t.cred = s.cred /\ t.phase = s.phase /\ t.armed = s.armed
      /\ t.savePending = s.savePending
  BY <1>1 DEF Manager, SameC6, SameOrders, SameJobs
<1>4. JobsInOrder(t) /\ StackHasLink(t) /\ PasswordDropped(t) /\ AttemptsEnd(t)
  BY <1>3 DEF Sound, JobsInOrder, StackHasLink, PasswordDropped, AttemptsEnd, RetryIsActive, Busy, Has,
     AtStage, SameC6, SameOrders, SameJobs
<1>5. Timed(t) /\ Quiet(t)
  BY <1>3 DEF Sound, Timed, Clocked, Quiet, Has, AtStage, SameC6, SameOrders, SameJobs
<1>6. SavesWhatWorks(t)
  BY <1>3 DEF Sound, SavesWhatWorks, FlashIsProven, TriedInRam, NothingToJoin, SavedIsProven,
     JoinsWhatItKeeps, Has, AtStage, Hears, Joining, Heard1, Proven, SameC6, SameJobs
<1> QED BY <1>2, <1>3, <1>4, <1>5, <1>6 DEF Sound

----------------------------------------------------------------------------
(* Every action keeps the invariant.                                       *)

\* A frame.
LEMMA FrameKeeps ==
  ASSUME IInv, Frame
  PROVE  IInv'
<1>1. PICK due \in BOOLEAN, stable \in BOOLEAN, link \in LinksOf(m), r \in AnswersOf(m) :
        m' = Service(m, due, stable, link, r) /\ screen' = screen
  BY DEF Frame, FrameWith
<1>2. Sound(m)
  BY DEF IInv
<1>3. Kept(m, m')
  BY <1>1, <1>2, ServiceKept
<1> QED BY <1>1, <1>3 DEF IInv, ScreenTyped, ScreenHasGui, TokenIsKept, Kept, Owed

\* A command of the console leaves a manager without a job.
LEMMA CommandKeeps ==
  ASSUME IInv, NEW x, Free(x), Rested(x), Command(x)
  PROVE  IInv'
<1>1. m' = Service(x, FALSE, FALSE, "down", "refused") /\ screen' = screen /\ ~m.gui
  BY DEF Command
<1>2. Kept(x, m')
  BY <1>1, FreeSound, ServiceKept
<1>3. screen = "closed"
  BY <1>1 DEF IInv, ScreenHasGui
<1> QED BY <1>1, <1>2, <1>3 DEF IInv, ScreenTyped, ScreenHasGui, TokenIsKept, Kept

\* Between two jobs the console may give its orders.
LEMMA CommandFree ==
  ASSUME IInv, NEW x, Command(x)
  PROVE  Free(m) /\ Rested(m) /\ ~m.startup
<1>1. Sound(m) /\ m.job = None /\ m.followup = None /\ ~m.startup
  BY DEF IInv, Command, Busy
<1> QED BY <1>1, SoundFree

\* wifi connect.
LEMMA ShellConnectKeeps ==
  ASSUME IInv, NEW network \in Networks, ShellConnect(network)
  PROVE  IInv'
<1>1. PICK link \in Links, left \in {"ok", "refused", "late"}, r \in Answers \ {"pending"},
           outcome \in {"connected", "refused", "none"} :
        LET ready == Prepare(m, left)
            open == OpenForShell(ready, link)
        IN  /\ m.enabled
            /\ Command(IF ready.phase = "Failed" /\ m.phase # "Failed" THEN ready
                       ELSE IF open.session = "none" THEN open
                       ELSE ShellAttempt(open, network, r, outcome))
  BY DEF ShellConnect
<1> DEFINE ready == Prepare(m, left)
           open == OpenForShell(ready, link)
           tried == ShellAttempt(open, network, r, outcome)
           x == IF ready.phase = "Failed" /\ m.phase # "Failed" THEN ready
                ELSE IF open.session = "none" THEN open
                ELSE tried
<1>2. m.enabled /\ Command(x)
  BY <1>1
<1>3. Free(m)
  BY <1>2, CommandFree
<1>4. Bare(ready) /\ Rested(ready) /\ SameOrders(m, ready)
  BY <1>3, PrepareReady
<1>5. Free(ready)
  BY <1>4, BareFree
<1>6. x \in {ready, open, tried}
  OBVIOUS
<1> HIDE DEF x, ready
<1>7. Free(open) /\ Rested(open) /\ SameOrders(ready, open)
  BY <1>4, <1>5, OpenForShellReady
<1> HIDE DEF open
<1>8. open.enabled
  BY <1>2, <1>4, <1>7 DEF SameOrders
<1>9. Free(tried) /\ Rested(tried)
  BY <1>7, <1>8, ShellAttemptReady
<1> HIDE DEF tried
<1>10. Free(x) /\ Rested(x)
  BY <1>4, <1>5, <1>6, <1>7, <1>9
<1> QED BY <1>2, <1>10, CommandKeeps

\* The diagnostic attempt.
LEMMA ShellDiagnosticKeeps ==
  ASSUME IInv, ShellDiagnostic
  PROVE  IInv'
<1> DEFINE cut == ClearLink(m)
<1>1. PICK link \in Links, progress \in Progress, r \in Answers \ {"pending"} :
        Command(IF m.enabled THEN BeginStartupAutoConnect(cut, link, progress, r)
                ELSE To(PowerDown(DropSession(cut)), "Off"))
  BY DEF ShellDiagnostic
<1>2. Free(m) /\ ~m.startup
  BY <1>1, CommandFree
<1>3. Bare(cut) /\ Rested(cut) /\ SameOrders(m, cut) /\ cut.stack = "none"
  BY <1>2, ClearLinkReady
<1> HIDE DEF cut
<1>4. CASE m.enabled
  <2> DEFINE found == BeginStartupAutoConnect(cut, link, progress, r)
  <2>1. Command(found)
    BY <1>1, <1>4
  <2>2. Free(found) /\ Rested(found)
    BY <1>3, BareFree, BeginStartupReady
  <2> HIDE DEF found
  <2> QED BY <2>1, <2>2, CommandKeeps
<1>5. CASE ~m.enabled
  <2> DEFINE dropped == DropSession(cut)
             down == PowerDown(dropped)
             off == To(down, "Off")
  <2>1. Command(off)
    BY <1>1, <1>5
  <2>2. cut \in Manager
    BY <1>3 DEF Bare
  <2>3. /\ dropped \in Manager /\ SameWishes(cut, dropped) /\ dropped.session = "none"
        /\ dropped.events = <<>> /\ dropped.nvs = cut.nvs
    BY <2>2, DropSessionShape
  <2> HIDE DEF dropped
  <2>4. /\ down \in Manager /\ SameWishes(dropped, down) /\ down.events = <<>>
        /\ down.nvs = dropped.nvs /\ down.radio = "idle"
    BY <2>3, PowerDownShape
  <2> HIDE DEF down
  <2>5. SameWishes(cut, down) /\ down.nvs = cut.nvs /\ Len(down.events) <= MaxEvents
    BY <2>3, <2>4, ConstantsAssumption DEF SameWishes, SameOrders, SameJobs
  <2>6. Bare(down)
    BY <1>3, <2>4, <2>5, SameWishesBare
  <2>7. Free(off) /\ Rested(off)
    BY <2>6, BareTo, BareFree, PhaseTyped
  <2> HIDE DEF off
  <2> QED BY <2>1, <2>7, CommandKeeps
<1> QED BY <1>4, <1>5

\* ipconfig.
LEMMA ShellIpconfigKeeps ==
  ASSUME IInv, NEW policy \in {"Unconfigured", "Dhcp", "Static"},
         NEW address \in {"waiting", "addressed"}, ShellIpconfig(policy, address)
  PROVE  IInv'
<1>1. PICK link \in Links :
        LET open == OpenForShell(m, link)
            stack == IF policy = "Unconfigured" THEN "waiting"
                     ELSE IF policy = "Static" THEN "addressed" ELSE address
        IN  Command(IF open.session = "none" THEN open
                    ELSE SetIpPolicy([open EXCEPT !.stack = stack], policy))
  BY DEF ShellIpconfig
<1> DEFINE open == OpenForShell(m, link)
           stack == IF policy = "Unconfigured" THEN "waiting"
                    ELSE IF policy = "Static" THEN "addressed" ELSE address
           set == SetIpPolicy([open EXCEPT !.stack = stack], policy)
           x == IF open.session = "none" THEN open ELSE set
<1>2. Command(x)
  BY <1>1
<1>3. Free(m) /\ Rested(m)
  BY <1>2, CommandFree
<1>4. Free(open) /\ Rested(open)
  BY <1>3, OpenForShellReady
<1>5. stack \in {"waiting", "addressed"}
  OBVIOUS
<1> HIDE DEF open, stack
<1>6. open.session # "none" => Free(set) /\ Rested(set)
  BY <1>4, <1>5, SetIpPolicyReady
<1> HIDE DEF set
<1>7. Free(x) /\ Rested(x)
  BY <1>4, <1>6
<1> HIDE DEF x
<1> QED BY <1>2, <1>7, CommandKeeps

\* Every command of the console.
LEMMA ConsoleKeeps ==
  ASSUME IInv, Console
  PROVE  IInv'
<1>1. CASE ShellOn
  <2>1. PICK link \in Links, progress \in Progress, r \in Answers \ {"pending"} :
          Command(Enable(m, link, progress, r))
    BY <1>1 DEF ShellOn
  <2>2. Free(Enable(m, link, progress, r)) /\ Rested(Enable(m, link, progress, r))
    BY <2>1, CommandFree, EnableReady
  <2> QED BY <2>1, <2>2, CommandKeeps
<1>2. CASE ShellOff
  <2>1. PICK link \in Links, progress \in Progress : Command(Disable(m, link, progress))
    BY <1>2 DEF ShellOff
  <2>2. Free(Disable(m, link, progress)) /\ Rested(Disable(m, link, progress))
    BY <2>1, CommandFree, DisableReady, BareFree
  <2> QED BY <2>1, <2>2, CommandKeeps
<1>3. CASE ShellDisconnect
  <2>1. PICK r \in Answers \cup {"late"} :
          m.enabled /\ Command(CASE r = "ok" -> MarkDisconnected(Left(m))
                                 [] r = "late" -> MarkDisconnected(Leave(m))
                                 [] r = "done" -> Leave(m)
                                 [] OTHER -> m)
    BY <1>3 DEF ShellDisconnect
  <2> DEFINE x == CASE r = "ok" -> MarkDisconnected(Left(m))
                    [] r = "late" -> MarkDisconnected(Leave(m))
                    [] r = "done" -> Leave(m)
                    [] OTHER -> m
  <2>2. Command(x)
    BY <2>1
  <2>3. Free(m) /\ Rested(m) /\ ~m.startup
    BY <2>2, CommandFree
  <2>4. Free(x) /\ Rested(x)
    BY <2>1, <2>3, DisconnectReady
  <2> HIDE DEF x
  <2> QED BY <2>2, <2>4, CommandKeeps
<1>4. CASE ShellForget
  <2>1. PICK link \in Links, progress \in Progress : Command(ForgetSavedProfile(m, link, progress))
    BY <1>4 DEF ShellForget
  <2>2. Free(m) /\ Rested(m) /\ ~m.startup
    BY <2>1, CommandFree
  <2>3. Free(ForgetSavedProfile(m, link, progress)) /\ Rested(ForgetSavedProfile(m, link, progress))
    BY <2>2, ForgetReady
  <2> QED BY <2>1, <2>3, CommandKeeps
<1>5. CASE ShellScan
  <2>1. PICK link \in Links : Command(OpenForShell(m, link))
    BY <1>5 DEF ShellScan
  <2>2. Free(OpenForShell(m, link)) /\ Rested(OpenForShell(m, link))
    BY <2>1, CommandFree, OpenForShellReady
  <2> QED BY <2>1, <2>2, CommandKeeps
<1> QED BY <1>1, <1>2, <1>3, <1>4, <1>5, ShellConnectKeeps, ShellDiagnosticKeeps,
        ShellIpconfigKeeps DEF Console

\* An order of the user's, given to an idle manager.
LEMMA AskKeeps ==
  ASSUME IInv, NEW x, Ask(x), ~Busy(m) => Sound(x) /\ x.gui = m.gui /\ x.job # None /\ x.job.token
  PROVE  IInv'
BY DEF Ask, IInv, ScreenTyped, ScreenHasGui, TokenIsKept

\* The panel's scan.
LEMMA ScanKeeps ==
  ASSUME IInv, m.enabled, Ask(BeginGui(m, "Scan", 20))
  PROVE  IInv'
<1> DEFINE x == BeginGui(m, "Scan", 20)
<1>1. Sound(m) /\ m.gui /\ ~Busy(m) /\ ~m.startup /\ m \in Manager
  BY DEF IInv, Ask, Sound, JobsInOrder
<1>2. Order("Scan", 20) /\ "Scan" \in Kinds /\ 20 \in Stages
  <2>1. Order("Scan", 20)
    BY DEF Order
  <2> QED BY <2>1, OrderTyped
<1>6. x = BeginGui(m, "Scan", 20) /\ Ask(x)
  OBVIOUS
<1> HIDE DEF x
<1>3. /\ x \in Manager /\ SameC6(m, x) /\ x.followup = m.followup
      /\ x.job \in Jobs /\ x.job # None /\ x.job.kind = "Scan" /\ x.job.token
      /\ x.job.stage = IF m.session = "none" THEN 0 ELSE 20
      /\ x.enabled /\ x.startup = m.startup /\ x.gui = m.gui
      /\ x.stack = m.stack /\ x.source = m.source /\ x.attempt = m.attempt /\ x.cred = m.cred
      /\ x.phase = m.phase /\ x.armed = m.armed /\ x.savePending = m.savePending
  <2>1. m \in Manager
    BY <1>1
  <2> QED BY <1>2, <1>6, <2>1, BeginGuiShape
<1>4. Clocked(x)
  BY <1>1, <1>3 DEF Sound, Timed, Clocked
<1>5. Sound(x)
  BY <1>1, <1>2, <1>3, <1>4, OrderedSound
<1> QED BY <1>3, <1>5, <1>6, AskKeeps

\* Orders to forget, to turn on and to turn off also take back what the
\* user was told of an earlier one.
LEMMA UnkeptKeeps ==
  ASSUME IInv, NEW kind, NEW stage, Order(kind, stage), kind \in {"Enable", "Disable", "Forget"},
         m.enabled \/ kind \in {"Enable", "Forget"},
         Ask([BeginGui(m, kind, stage) EXCEPT !.kept = FALSE])
  PROVE  IInv'
<1> DEFINE b == BeginGui(m, kind, stage)
           x == [b EXCEPT !.kept = FALSE]
<1>1. Sound(m) /\ m.gui /\ ~Busy(m) /\ ~m.startup /\ m \in Manager
  BY DEF IInv, Ask, Sound, JobsInOrder
<1>8. kind \in Kinds /\ stage \in Stages
  BY OrderTyped
<1>6. b = BeginGui(m, kind, stage) /\ Ask(x)
  OBVIOUS
<1> HIDE DEF b
<1>2. /\ b \in Manager /\ SameC6(m, b) /\ b.followup = m.followup
      /\ b.job \in Jobs /\ b.job # None /\ b.job.kind = kind /\ b.job.token
      /\ b.job.stage = IF m.session = "none" THEN 0 ELSE stage
      /\ b.enabled = m.enabled /\ b.startup = m.startup /\ b.gui = m.gui
      /\ b.stack = m.stack /\ b.source = m.source /\ b.attempt = m.attempt /\ b.cred = m.cred
      /\ b.phase = m.phase /\ b.armed = m.armed /\ b.savePending = m.savePending
  <2>1. m \in Manager
    BY <1>1
  <2> QED BY <1>6, <1>8, <2>1, BeginGuiShape
<1>3. x \in Manager
  BY <1>2, Fields
<1>4. /\ SameC6(b, x) /\ SameOrders(b, x) /\ SameJobs(b, x) /\ x.stack = b.stack
      /\ x.source = b.source /\ x.cred = b.cred /\ x.phase = b.phase /\ x.armed = b.armed
      /\ x.savePending = b.savePending
  BY <1>2 DEF Manager, SameC6, SameOrders, SameJobs
<1> HIDE DEF x
<1>7. /\ SameC6(m, x) /\ x.followup = m.followup
      /\ x.job \in Jobs /\ x.job # None /\ x.job.kind = kind /\ x.job.token
      /\ x.job.stage = IF m.session = "none" THEN 0 ELSE stage
      /\ x.enabled = m.enabled /\ x.startup = m.startup /\ x.gui = m.gui
      /\ x.stack = m.stack /\ x.source = m.source /\ x.cred = m.cred
      /\ x.phase = m.phase /\ x.savePending = m.savePending /\ Clocked(x)
  BY <1>1, <1>2, <1>4 DEF Sound, Timed, Clocked, SameC6, SameOrders, SameJobs
<1>5. Sound(x)
  BY <1>1, <1>3, <1>7, OrderedSound
<1> QED BY <1>5, <1>6, <1>7, AskKeeps

\* The panel's connection.
LEMMA ConnectKeeps ==
  ASSUME IInv, NEW network \in Networks, GuiConnect(network)
  PROVE  IInv'
<1> DEFINE b == BeginGui(m, "Connect", 10)
           wish == [b EXCEPT
                      !.cred = network, !.stack = "none", !.source = "Menu", !.policy = "Dhcp",
                      !.attempt = 1, !.since = FALSE, !.savePending = TRUE]
           x == NewGeneration(wish)
<1>1. Sound(m) /\ m.gui /\ ~Busy(m) /\ ~m.startup /\ m \in Manager /\ m.enabled
  BY DEF GuiConnect, IInv, Ask, Sound, JobsInOrder
<1>2. Order("Connect", 10) /\ "Connect" \in Kinds /\ 10 \in Stages
  <2>1. Order("Connect", 10)
    BY DEF Order
  <2> QED BY <2>1, OrderTyped
<1>4. b = BeginGui(m, "Connect", 10) /\ Ask(x)
  BY DEF GuiConnect
<1> HIDE DEF b
<1>3. /\ b \in Manager /\ SameC6(m, b) /\ b.followup = m.followup
      /\ b.job \in Jobs /\ b.job # None /\ b.job.kind = "Connect" /\ b.job.token
      /\ b.job.stage = IF m.session = "none" THEN 0 ELSE 10
      /\ b.enabled = m.enabled /\ b.startup = m.startup /\ b.gui = m.gui
      /\ b.phase = m.phase
  <2>1. m \in Manager
    BY <1>1
  <2> QED BY <1>2, <1>4, <2>1, BeginGuiShape
<1>5. wish \in Manager
  <2>1. [b EXCEPT !.cred = network] \in Manager
    BY <1>3, Fields
  <2>2. [[b EXCEPT !.cred = network] EXCEPT !.stack = "none"] \in Manager
    BY <2>1, Fields
  <2>3. [b EXCEPT !.cred = network, !.stack = "none", !.source = "Menu"] \in Manager
    <3>1. [[[b EXCEPT !.cred = network] EXCEPT !.stack = "none"] EXCEPT !.source = "Menu"] \in Manager
      BY <2>2, Fields
    <3> QED BY <3>1
  <2> DEFINE half == [b EXCEPT !.cred = network, !.stack = "none", !.source = "Menu"]
  <2>4. wish = [half EXCEPT !.policy = "Dhcp", !.attempt = 1, !.since = FALSE, !.savePending = TRUE]
    OBVIOUS
  <2>5. half \in Manager
    BY <2>3
  <2> HIDE DEF half, wish
  <2>6. [half EXCEPT !.policy = "Dhcp"] \in Manager
    BY <2>5, Fields
  <2>7. [[half EXCEPT !.policy = "Dhcp"] EXCEPT !.attempt = 1] \in Manager
    BY <2>6, Fields
  <2>8. [[[half EXCEPT !.policy = "Dhcp"] EXCEPT !.attempt = 1] EXCEPT !.since = FALSE] \in Manager
    BY <2>7, Fields
  <2>9. [[[[half EXCEPT !.policy = "Dhcp"] EXCEPT !.attempt = 1] EXCEPT !.since = FALSE]
           EXCEPT !.savePending = TRUE] \in Manager
    BY <2>8, Fields
  <2> QED BY <2>4, <2>9
<1>6. /\ SameC6(b, wish) /\ SameOrders(b, wish) /\ SameJobs(b, wish) /\ wish.stack = "none"
      /\ wish.phase = b.phase
  BY <1>3 DEF Manager, SameC6, SameOrders, SameJobs
<1> HIDE DEF wish
<1>7. /\ x \in Manager /\ SameC6(wish, x) /\ SameOrders(wish, x) /\ SameJobs(wish, x) /\ ~x.armed
      /\ x.stack = wish.stack /\ x.phase = wish.phase
  BY <1>5, NewGenerationShape
<1> HIDE DEF x
<1>8. /\ SameC6(m, x) /\ x.followup = m.followup
      /\ x.job \in Jobs /\ x.job # None /\ x.job.kind = "Connect" /\ x.job.token
      /\ x.job.stage = IF m.session = "none" THEN 0 ELSE 10
      /\ x.enabled = m.enabled /\ x.startup = m.startup /\ x.gui = m.gui
      /\ x.stack = "none" /\ x.phase = m.phase /\ Clocked(x)
  BY <1>3, <1>6, <1>7 DEF Clocked, SameC6, SameOrders, SameJobs
<1>9. Sound(x)
  BY <1>1, <1>2, <1>7, <1>8, OrderedSound
<1> QED BY <1>4, <1>8, <1>9, AskKeeps

\* Every order of the panel.
LEMMA PanelKeeps ==
  ASSUME IInv, Panel
  PROVE  IInv'
<1>0. Sound(m) /\ m \in Manager
  BY DEF IInv, Sound
<1>1. CASE EnterGui
  <2>1. m.reply \in BOOLEAN /\ m' = [m EXCEPT !.gui = TRUE, !.reply = m.reply]
    BY <1>0, <1>1 DEF EnterGui, Manager
  <2>3. ~m.startup
    BY <1>1 DEF EnterGui
  <2>2. Sound(m') /\ SameJobs(m, m') /\ m'.gui = TRUE /\ m'.reply = m.reply
    BY <1>0, <2>1, <2>3, FlagsSound
  <2> QED BY <1>1, <2>2 DEF EnterGui, IInv, ScreenTyped, ScreenHasGui, TokenIsKept, SameJobs
<1>2. CASE LeaveGui
  <2>1. m.reply \in BOOLEAN /\ m' = [m EXCEPT !.gui = FALSE, !.reply = m.reply]
    BY <1>0, <1>2 DEF LeaveGui, Manager
  <2>2. Sound(m')
    BY <1>0, <2>1, FlagsSound
  <2> QED BY <1>2, <2>2 DEF LeaveGui, IInv, ScreenTyped, ScreenHasGui, TokenIsKept
<1>3. CASE ScreenTick
  <2>1. m.gui \in BOOLEAN /\ m' = [m EXCEPT !.gui = m.gui, !.reply = FALSE]
    BY <1>0, <1>3 DEF ScreenTick, Manager
  <2>2. m.gui /\ ~m.startup
    BY <1>0, <1>3 DEF ScreenTick, IInv, ScreenHasGui, Sound, JobsInOrder
  <2>3. Sound(m') /\ m'.gui = m.gui
    BY <1>0, <2>1, <2>2, FlagsSound
  <2> QED BY <1>3, <2>2, <2>3 DEF ScreenTick, IInv, ScreenTyped, ScreenHasGui, TokenIsKept
<1>4. CASE OpenScreen
  <2>1. CASE m.enabled /\ ~Busy(m)
    BY <1>4, <2>1, ScanKeeps DEF OpenScreen
  <2>2. CASE ~(m.enabled /\ ~Busy(m))
    BY <1>4, <2>2 DEF OpenScreen, IInv, ScreenTyped, ScreenHasGui, TokenIsKept
  <2> QED BY <2>1, <2>2
<1>5. CASE GuiScan
  BY <1>5, ScanKeeps DEF GuiScan
<1>6. CASE GuiForget
  <2>1. Order("Forget", 50)
    BY DEF Order
  <2>2. Ask([BeginGui(m, "Forget", 50) EXCEPT !.kept = FALSE])
    BY <1>6 DEF GuiForget
  <2> QED BY <2>1, <2>2, UnkeptKeeps
<1>7. ASSUME NEW on \in BOOLEAN, GuiEnable(on) PROVE IInv'
  <2> DEFINE kind == IF on THEN "Enable" ELSE "Disable"
             stage == IF on THEN 4 ELSE 30
  <2>1. Ask([BeginGui(m, kind, stage) EXCEPT !.kept = FALSE]) /\ on # m.enabled
    BY <1>7 DEF GuiEnable
  <2>2. Order(kind, stage) /\ kind \in {"Enable", "Disable", "Forget"}
    BY DEF Order
  <2>3. m.enabled \/ kind \in {"Enable", "Forget"}
    BY <1>0, <2>1 DEF Manager
  <2> HIDE DEF kind, stage
  <2> QED BY <2>1, <2>2, <2>3, UnkeptKeeps
<1> QED BY <1>1, <1>2, <1>3, <1>4, <1>5, <1>6, <1>7, ConnectKeeps DEF Panel

\* What happens on the air and on the link.
LEMMA AirKeeps ==
  ASSUME IInv, Air
  PROVE  IInv'
<1>1. Sound(m)
  BY DEF IInv
<1>2. "connected" \in Events /\ "refused" \in Events /\ "dropped" \in Events
  BY DEF Events
<1>3. ASSUME Sound(m'), SameOrders(m, m'), SameJobs(m, m'), screen' = screen PROVE IInv'
  BY <1>3 DEF IInv, ScreenTyped, ScreenHasGui, TokenIsKept, SameOrders, SameJobs
<1>4. CASE JoinSucceeds
  BY <1>1, <1>2, <1>3, <1>4, AirSound DEF JoinSucceeds, Joining
<1>5. ASSUME NEW event \in {"refused", "dropped"}, JoinFails(event) PROVE IInv'
  BY <1>1, <1>2, <1>3, <1>5, AirSound DEF JoinFails
<1>6. CASE AccessPointDrops
  BY <1>1, <1>2, <1>3, <1>6, AirSound DEF AccessPointDrops
<1>7. CASE LinkDies
  BY <1>1, <1>3, <1>7, LinkDiesSound DEF LinkDies
<1>8. CASE LeaseChanges
  BY <1>1, <1>3, <1>8, LeaseSound DEF LeaseChanges
<1> QED BY <1>4, <1>5, <1>6, <1>7, <1>8 DEF Air

\* A manager that has just been made.
LEMMA BootSound ==
  ASSUME NEW nvs \in Configs, NEW mode \in {"sta", "null"}, nvs \in Networks => nvs \in Good,
         NEW t, t = Boot(nvs, mode)
  PROVE  Sound(t) /\ ~t.gui
<1>1. t \in Manager
  <2>1. Empty \in Configs
    BY DEF Configs
  <2> QED BY <2>1, NoEventTyped, PhaseTyped DEF Boot, Manager
<1>2. /\ t.startup /\ ~t.gui /\ t.job = None /\ t.followup = None /\ t.enabled /\ t.cred = None
      /\ t.phase = "LinkDown" /\ ~t.armed /\ t.stack = "none" /\ t.session = "none"
      /\ t.attempt = 0 /\ t.events = <<>> /\ t.nvs = nvs
  BY DEF Boot
<1>3. Timed(t)
  BY <1>2, ConstantsAssumption DEF Timed, Clocked
<1>4. Free(t) /\ Rested(t)
  BY <1>1, <1>2, <1>3 DEF Free, Rested, StackHasLink, FlashIsProven, JoinsWhatItKeeps, Hears,
     StartupMaxAttempts
<1> QED BY <1>2, <1>4, FreeSound

\* A restart keeps the flash of the C6.
LEMMA RebootKeeps ==
  ASSUME IInv, Reboot
  PROVE  IInv'
<1>1. m.nvs \in Configs /\ m.mode \in {"sta", "null"} /\ (m.nvs \in Networks => m.nvs \in Good)
  BY DEF IInv, Sound, SavesWhatWorks, FlashIsProven, Manager
<1>2. Sound(m')
  BY <1>1, BootSound DEF Reboot
<1> QED BY <1>2 DEF Reboot, IInv, ScreenTyped, ScreenHasGui, TokenIsKept

\* The splash screen begins its attempts,
LEMMA StartupBeginKeeps ==
  ASSUME IInv, StartupBegin
  PROVE  IInv'
<1>1. PICK link \in Links, progress \in Progress, r \in Answers \ {"pending"} :
        /\ m.startup /\ screen' = screen
        /\ LET found == BeginStartupAutoConnect(m, link, progress, r)
           IN  m' = [found EXCEPT !.begun = link = "up"
                        /\ (progress = "all" \/ (progress = "marked" /\ found.phase = "Off"))]
  BY DEF StartupBegin
<1> DEFINE found == BeginStartupAutoConnect(m, link, progress, r)
           begun == link = "up" /\ (progress = "all" \/ (progress = "marked" /\ found.phase = "Off"))
<1>2. m' = [found EXCEPT !.begun = begun]
  BY <1>1
<1>3. begun \in BOOLEAN
  OBVIOUS
<1>4. Sound(m) /\ m.job = None /\ m.followup = None /\ ~m.gui /\ screen = "closed"
  BY <1>1 DEF IInv, Sound, JobsInOrder, Busy, ScreenHasGui
<1>5. Free(found) /\ Rested(found)
  BY <1>4, SoundFree, BeginStartupReady
<1> HIDE DEF found, begun
<1>6. found \in Manager
  BY <1>5 DEF Free
<1>7. m' \in Manager
  <2>1. [found EXCEPT !.begun = begun] \in Manager
    BY <1>3, <1>6, Fields
  <2> QED BY <1>2, <2>1
<1>8. /\ SameC6(found, m') /\ SameJobs(found, m') /\ m'.startup = found.startup
      /\ m'.gui = found.gui /\ m'.enabled = found.enabled
      /\ m'.stack = found.stack /\ m'.source = found.source /\ m'.attempt = found.attempt
      /\ m'.cred = found.cred /\ m'.phase = found.phase /\ m'.armed = found.armed
      /\ m'.savePending = found.savePending
  BY <1>2, <1>6 DEF Manager, SameC6, SameJobs
<1>9. Free(m') /\ Rested(m')
  BY <1>5, <1>7, <1>8 DEF Free, Rested, Timed, Clocked, StackHasLink, FlashIsProven, JoinsWhatItKeeps,
     RetryIsActive, Has, Hears, Joining, Heard1, Proven, SameC6, SameJobs
<1>10. Sound(m')
  BY <1>9, FreeSound
<1> QED BY <1>1, <1>4, <1>10 DEF IInv, ScreenTyped, ScreenHasGui, TokenIsKept

\* and ends them.
LEMMA StartupEndsKeeps ==
  ASSUME IInv, StartupEnds
  PROVE  IInv'
<1> DEFINE attempt == IF m.attempt = 0 THEN 0 ELSE 1
<1>1. /\ m.startup /\ screen' = screen
      /\ m' = [m EXCEPT !.startup = FALSE, !.begun = FALSE, !.attempt = attempt]
  BY DEF StartupEnds
<1>2. Sound(m) /\ m \in Manager /\ m.job = None /\ m.followup = None /\ screen = "closed"
  BY <1>1 DEF IInv, Sound, JobsInOrder, Busy, ScreenHasGui
<1>3. Free(m) /\ Rested(m)
  BY <1>2, SoundFree
<1>4. attempt \in Nat
  OBVIOUS
<1> HIDE DEF attempt
<1>5. m' \in Manager
  <2>1. [m EXCEPT !.startup = FALSE] \in Manager
    BY <1>2, Fields
  <2>2. [[m EXCEPT !.startup = FALSE] EXCEPT !.begun = FALSE] \in Manager
    BY <2>1, Fields
  <2>3. [[[m EXCEPT !.startup = FALSE] EXCEPT !.begun = FALSE] EXCEPT !.attempt = attempt] \in Manager
    BY <1>4, <2>2, Fields
  <2> QED BY <1>1, <2>3
<1>6. /\ SameC6(m, m') /\ SameJobs(m, m') /\ ~m'.startup /\ m'.gui = m.gui
      /\ m'.enabled = m.enabled /\ m'.stack = m.stack /\ m'.source = m.source
      /\ m'.cred = m.cred /\ m'.phase = m.phase /\ m'.armed = m.armed
      /\ m'.savePending = m.savePending
  BY <1>1, <1>2 DEF Manager, SameC6, SameJobs
<1>7. Free(m') /\ Rested(m')
  BY <1>3, <1>5, <1>6 DEF Free, Rested, Timed, Clocked, StackHasLink, FlashIsProven, JoinsWhatItKeeps,
     RetryIsActive, Has, Hears, Joining, Heard1, Proven, SameC6, SameJobs
<1>8. Sound(m')
  BY <1>7, FreeSound
<1> QED BY <1>1, <1>2, <1>8 DEF IInv, ScreenTyped, ScreenHasGui, TokenIsKept

----------------------------------------------------------------------------
(* The theorems.                                                           *)

\* The first state.
LEMMA InitIInv ==
  ASSUME Init
  PROVE  IInv
<1>1. PICK nvs \in Good \cup {Empty, OffMarker}, mode \in {"sta", "null"} : m = Boot(nvs, mode)
  BY DEF Init
<1>2. nvs \in Configs /\ (nvs \in Networks => nvs \in Good)
  BY ConstantsAssumption DEF Configs
<1>3. Sound(m)
  BY <1>1, <1>2, BootSound
<1> QED BY <1>3 DEF Init, IInv, ScreenTyped, ScreenHasGui, TokenIsKept

\* Every step.
LEMMA NextKeeps ==
  ASSUME IInv, [Next]_vars
  PROVE  IInv'
<1>1. CASE UNCHANGED vars
  BY <1>1 DEF vars, IInv, ScreenTyped, ScreenHasGui, TokenIsKept
<1>2. CASE Next
  BY <1>2, FrameKeeps, PanelKeeps, ConsoleKeeps, AirKeeps, RebootKeeps, StartupBeginKeeps,
     StartupEndsKeeps DEF Next
<1> QED BY <1>1, <1>2

\* Whatever the panel, the console, the air and the link do, and wherever a frame
\* or a request is cut short, the inductive invariant holds of every state.
THEOREM Inductive == Spec => []IInv
BY InitIInv, NextKeeps, PTL DEF Spec

\* The manager's record, the C6's half of it and the screen have their types
\* in every state; a deadline is armed only in the two states that have one,
\* and the link never keeps more than MaxEvents events.
THEOREM TypeCorrect == Spec => []TypeOK
<1>1. IInv => TypeOK
  BY DEF IInv, Sound, Timed, Clocked, ScreenTyped, TypeOK
<1> QED BY <1>1, Inductive, PTL

\* persist_profile and the jobs of the panel: whatever request fails, is lost
\* or is overtaken by an event, the flash of the C6 never names a network whose
\* access point has refused the password.
THEOREM SavesAreAccepted == Spec => []OnlyAcceptedPasswordsAreSaved
<1>1. IInv => OnlyAcceptedPasswordsAreSaved
  BY DEF IInv, Sound, SavesWhatWorks, FlashIsProven, OnlyAcceptedPasswordsAreSaved
<1> QED BY <1>1, Inductive, PTL

\* Manager::drop_session and its callers: an IP stack never outlives the
\* session of the coprocessor that carries its frames.
THEOREM StackGoesWithTheLink == Spec => []StackNeedsItsLink
<1>1. IInv => StackNeedsItsLink
  BY DEF IInv, Sound, StackHasLink, StackNeedsItsLink
<1> QED BY <1>1, Inductive, PTL

\* finish_gui_off and disable_and_power_down: once Wi-Fi is off and no job is
\* left, there are no credentials to retry with and the radio is at rest.
THEOREM OffStaysQuiet == Spec => []OffMeansQuiet
<1>1. IInv => OffMeansQuiet
  BY DEF IInv, Sound, Quiet, Has, Busy, OffMeansQuiet
<1> QED BY <1>1, Inductive, PTL

\* apply_retry_decision: a password the access point has refused is neither
\* tried nor saved again until the user gives another.
THEOREM RefusedPasswordsAreDropped == Spec => []RefusedPasswordIsDropped
<1>1. IInv => RefusedPasswordIsDropped
  BY DEF IInv, Sound, PasswordDropped, Has, Busy, RefusedPasswordIsDropped
<1> QED BY <1>1, Inductive, PTL

\* service_gui_job: no way out of a job, and no job the manager makes for
\* itself beside it, loses the token the screen waits for.
THEOREM TokensAreAnswered == Spec => []EveryTokenIsAnswered
<1>1. IInv => EveryTokenIsAnswered
  BY DEF IInv, TokenIsKept, EveryTokenIsAnswered
<1> QED BY <1>1, Inductive, PTL

\* The splash screen's policy never counts more attempts than it allows.
THEOREM StartupGivesUpInTime == Spec => []StartupGivesUp
<1>1. IInv => StartupGivesUp
  BY DEF IInv, Sound, AttemptsEnd, StartupGivesUp
<1> QED BY <1>1, Inductive, PTL
=============================================================================
