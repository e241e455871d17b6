---------------------------- MODULE BotTransport ----------------------------
(***************************************************************************)
(* One BOT session with a USB drive: src/src/usb/bot.rs and the commands   *)
(* and replays of src/src/usb/msc.rs on the host's side, with the CSW      *)
(* checks of src/bot-protocol/src/lib.rs, and the drive on the other.      *)
(*                                                                         *)
(* A command is a command block, a data phase and a status, one packet at  *)
(* a time, each with a DATA0/DATA1 toggle.  Packets and their handshakes   *)
(* get lost.  A data packet is its place in the data phase; packets of a   *)
(* wrong length, stalls and refused DMA buffers are all "the phase fails". *)
(***************************************************************************)
EXTENDS Integers, Sequences

CONSTANTS
  Lengths,         \* packets of the data phases of commands
  PacketRetries,   \* BULK_PACKET_RETRIES
  TimeoutRetries,  \* BULK_TIMEOUT_RETRIES
  RecoveryLimit,   \* RECOVERY_ATTEMPT_LIMIT
  MaxTag           \* bound: command blocks sent in all

Toggle == {0, 1}
Flip(t) == 1 - t

ASSUME LengthsAssumption == Lengths \subseteq Nat \ {0}
ASSUME LimitsAssumption ==
  /\ PacketRetries \in Nat /\ TimeoutRetries \in Nat
  /\ RecoveryLimit \in Nat \ {0} /\ MaxTag \in Nat

\* What the class driver asks of the drive: TEST UNIT READY and SYNCHRONIZE
\* CACHE have no data, INQUIRY, READ CAPACITY, REQUEST SENSE and READ read, and
\* WRITE writes.  Only what reads or asks may be replayable.
Commands ==
  [kind : {"none"}, packets : {0}, replayable : BOOLEAN]
    \cup [kind : {"in"}, packets : Lengths, replayable : BOOLEAN]
    \cup [kind : {"out"}, packets : Lengths, replayable : {FALSE}]

VARIABLES
  at,          \* where the host is
  command,     \* the command it is running
  attempt,     \* 2 when the class driver replays it
  tag,         \* BulkOnlyTransport.next_tag
  done,        \* packets of the data phase that went through
  inToggle,    \* BulkOnlyTransport.in_toggle
  outToggle,   \* BulkOnlyTransport.out_toggle
  errors,      \* packet errors retried, of this packet
  timeouts,    \* timeouts retried, of this packet
  recoveries,  \* BulkOnlyTransport.consecutive_recoveries
  recovered,   \* BulkOnlyTransport.last_recovery_succeeded
  unusable,    \* BulkOnlyTransport.unusable
  cleared,     \* the IN endpoint's halt was cleared
  outcome,     \* what the class driver returned last
  drive,       \* the drive's side: see Drive
  taken,       \* history: the data packets the drive took for the command
  received,    \* history: the data packets the host took for the command
  begun        \* history: command blocks the drive took for the command

host == <<at, command, attempt, tag, done, inToggle, outToggle, errors, timeouts,
          recoveries, recovered, unusable, cleared, outcome>>
history == <<taken, received, begun>>
vars == <<at, command, attempt, tag, done, inToggle, outToggle, errors, timeouts,
          recoveries, recovered, unusable, cleared, outcome, drive, taken, received, begun>>

Drive == [phase : {"ready", "data", "status"}, tag : 0..MaxTag, left : Nat,
          status : {"passed", "failed", "phaseError"},
          inToggle : Toggle, outToggle : Toggle,
          resend : BOOLEAN,   \* the last packet IN was not acknowledged
          stale : 0..MaxTag]  \* the tag of a status it still has queued, or 0

FreshDrive == [phase |-> "ready", tag |-> 0, left |-> 0, status |-> "passed",
               inToggle |-> 0, outToggle |-> 0, resend |-> FALSE, stale |-> 0]

----------------------------------------------------------------------------
(* The drive.                                                              *)

\* A packet with the toggle it expects is taken once; with the other one it
\* is acknowledged as the duplicate it is, and dropped.
TakesCommand(t) ==
  /\ drive.phase = "ready" /\ t = drive.outToggle
  /\ \E status \in {"passed", "failed", "phaseError"} :
       drive' = [drive EXCEPT !.phase = IF command.packets = 0 THEN "status" ELSE "data",
                              !.tag = tag, !.left = command.packets, !.status = status,
                              !.outToggle = Flip(t)]
  /\ begun' = begun + 1
  /\ taken' = <<>>
  /\ UNCHANGED received

TakesData(t) ==
  /\ drive.phase = "data" /\ command.kind = "out" /\ t = drive.outToggle
  /\ drive' = [drive EXCEPT !.phase = IF drive.left = 1 THEN "status" ELSE "data",
                            !.left = drive.left - 1, !.outToggle = Flip(t)]
  /\ taken' = Append(taken, done + 1)
  /\ UNCHANGED <<received, begun>>

Takes ==
  IF at = "cbw" THEN TakesCommand(outToggle) ELSE TakesData(outToggle)
Duplicate == outToggle # drive.outToggle /\ UNCHANGED <<drive, history>>
TakesNothing == UNCHANGED <<drive, history>>

\* A data phase IN may end early, with the status in its place.
DriveEndsDataEarly ==
  /\ drive.phase = "data" /\ command.kind = "in" /\ ~drive.resend
  /\ drive' = [drive EXCEPT !.phase = "status"]
  /\ UNCHANGED <<host, history>>

----------------------------------------------------------------------------
(* The class driver.                                                       *)

\* execute_command, up to the command block.
Send(next, try) ==
  /\ command' = next /\ attempt' = try /\ begun' = IF try = 1 THEN 0 ELSE begun
  /\ tag' = tag + 1
  /\ recovered' = FALSE
  /\ done' = 0 /\ received' = <<>> /\ errors' = 0 /\ timeouts' = 0
  /\ outcome' = "none"
  /\ at' = "cbw"
  /\ UNCHANGED <<inToggle, outToggle, recoveries, unusable, cleared, drive, taken>>

Usable == ~unusable

\* There is a tag left for this and for its replay.
Issue(next) == at = "idle" /\ Usable /\ tag + 2 <= MaxTag /\ Send(next, 1)

\* Mutant: whatever failed is tried again once the session is sound.
MutantMayReplay == recovered /\ ~unusable /\ attempt = 1

\* execute_replayable_query and read_10: once, after a recovery that worked,
\* and never what may have changed the medium.
MayReplay == command.replayable /\ recovered /\ ~unusable /\ attempt = 1

Replay == at = "failed" /\ MayReplay /\ Send(command, 2)

GiveUp ==
  /\ at = "failed" /\ ~MayReplay
  /\ at' = "idle" /\ outcome' = "failed"
  /\ UNCHANGED <<command, attempt, tag, done, inToggle, outToggle, errors, timeouts,
                 recoveries, recovered, unusable, cleared, drive, history>>

\* The registry enumerates the drive again: a session from the start.
Reattach ==
  /\ at = "idle" /\ unusable
  /\ inToggle' = 0 /\ outToggle' = 0 /\ recoveries' = 0 /\ recovered' = FALSE
  /\ unusable' = FALSE /\ tag' = 0 /\ outcome' = "none"
  /\ drive' = FreshDrive
  /\ UNCHANGED <<at, command, attempt, done, errors, timeouts, cleared, history>>

----------------------------------------------------------------------------
(* A packet OUT: run_bulk_packet and bulk_transfer_out.                    *)

Sending == at = "cbw" \/ (at = "data" /\ command.kind = "out")

AfterData == IF command.packets = 0 THEN "csw" ELSE "data"

OutOk ==
  /\ Sending
  /\ Takes \/ Duplicate
  /\ outToggle' = Flip(outToggle) /\ errors' = 0 /\ timeouts' = 0
  /\ IF at = "cbw"
     THEN at' = AfterData /\ UNCHANGED done
     ELSE /\ done' = done + 1
          /\ at' = IF done + 1 = command.packets THEN "csw" ELSE "data"
  /\ UNCHANGED <<command, attempt, tag, inToggle, recoveries, recovered, unusable, cleared,
                 outcome>>

\* Mutant: a packet that is sent again counts as the next one.
MutantToggleOfRetry == Flip(outToggle)

ToggleOfRetry == outToggle

\* The controller reports an error: the drive has not taken the packet, or
\* its handshake was lost.  The same packet goes out again, with its toggle.
OutError ==
  /\ Sending
  /\ Takes \/ TakesNothing
  /\ \/ /\ errors < PacketRetries
        /\ errors' = errors + 1 /\ outToggle' = ToggleOfRetry
        /\ UNCHANGED at
     \/ at' = "cleanup" /\ UNCHANGED <<errors, outToggle>>
  /\ UNCHANGED <<command, attempt, tag, done, inToggle, timeouts, recoveries, recovered,
                 unusable, cleared, outcome>>

\* Mutant: the count starts again at its limit.
MutantTimeoutCounted == timeouts' = (timeouts + 1) % (TimeoutRetries + 1)

TimeoutCounted == timeouts < TimeoutRetries /\ timeouts' = timeouts + 1

\* The host gives the packet up with nothing known to have moved.
Timeout ==
  /\ at \in {"cbw", "data", "csw"}
  /\ TimeoutCounted
  /\ (Sending /\ Takes) \/ TakesNothing
  /\ UNCHANGED <<at, command, attempt, tag, done, inToggle, outToggle, errors, recoveries,
                 recovered, unusable, cleared, outcome>>

\* What moved is not known, a retry is one too many, its cleanup fails, the
\* endpoint stalls or the transaction ends in an error.
OutFails ==
  /\ Sending
  /\ Takes \/ TakesNothing
  /\ at' = "cleanup"
  /\ UNCHANGED <<command, attempt, tag, done, inToggle, outToggle, errors, timeouts,
                 recoveries, recovered, unusable, cleared, outcome>>

----------------------------------------------------------------------------
(* A packet IN: bulk_transfer_in.                                          *)

Receiving == at = "csw" \/ (at = "data" /\ command.kind = "in")

\* The drive sends again what it was not told had arrived; by its toggle the
\* controller knows it has it.
InDuplicate ==
  /\ Receiving /\ drive.resend
  /\ drive' = [drive EXCEPT !.resend = FALSE]
  /\ UNCHANGED <<host, history>>

\* The packet the drive sends next, acknowledged or not.
Offer(after) ==
  /\ Receiving /\ ~drive.resend
  /\ inToggle = drive.inToggle
  /\ \E lost \in BOOLEAN :
       drive' = [after EXCEPT !.inToggle = Flip(inToggle), !.resend = lost]
  /\ inToggle' = Flip(inToggle) /\ errors' = 0 /\ timeouts' = 0

InData ==
  /\ at = "data" /\ drive.stale = 0 /\ drive.phase = "data"
  /\ Offer([drive EXCEPT !.left = @ - 1, !.phase = IF drive.left = 1 THEN "status" ELSE "data"])
  /\ received' = Append(received, command.packets - drive.left + 1)
  /\ done' = done + 1
  /\ at' = IF done + 1 = command.packets THEN "csw" ELSE "data"
  /\ UNCHANGED <<command, attempt, tag, outToggle, recoveries, recovered, unusable, cleared,
                 outcome, taken, begun>>

\* A packet that is not full ends the data phase; here, an empty one.
InShort ==
  /\ at = "data" /\ drive.stale = 0 /\ drive.phase = "data"
  /\ Offer([drive EXCEPT !.phase = "status"])
  /\ at' = "csw"
  /\ UNCHANGED <<command, attempt, tag, done, outToggle, recoveries, recovered, unusable,
                 cleared, outcome, history>>

\* validate_csw
CswValid(csw) ==
  /\ csw.tag = tag
  /\ csw.status # "phaseError"
  /\ csw.residue <= command.packets
  /\ IF command.kind = "out" THEN done = command.packets
     ELSE done = command.packets - csw.residue

\* Mutant: a short answer is as good as a whole one.
MutantExact(csw) == csw.status = "passed"

\* CommandResult.has_exact_data: a command is done when all of it was.
Exact(csw) == csw.status = "passed" /\ csw.residue = 0 /\ done = command.packets

\* A status, in its phase or in place of the data.
InCsw(csw) ==
  /\ UNCHANGED <<command, attempt, tag, done, outToggle, recovered, unusable, cleared, history>>
  /\ IF CswValid(csw)
     THEN /\ recoveries' = 0
          /\ outcome' = IF Exact(csw) THEN "passed" ELSE "failed"
          /\ at' = "idle"
     ELSE at' = "cleanup" /\ UNCHANGED <<recoveries, outcome>>

InStatus ==
  /\ drive.stale = 0 /\ drive.phase = "status"
  /\ Offer([drive EXCEPT !.phase = "ready"])
  /\ InCsw([tag |-> drive.tag, status |-> drive.status, residue |-> drive.left])

\* What a reset should have dropped.  It was for a command of any length.
InStale ==
  /\ drive.stale # 0
  /\ Offer([drive EXCEPT !.stale = 0])
  /\ InCsw([tag |-> drive.stale, status |-> "passed", residue |-> 0])

\* The packet was not received, and not acknowledged.
InError ==
  /\ Receiving
  /\ \/ /\ errors < PacketRetries
        /\ errors' = errors + 1 /\ UNCHANGED at
     \/ at' = "cleanup" /\ UNCHANGED errors
  /\ UNCHANGED <<command, attempt, tag, done, inToggle, outToggle, timeouts, recoveries,
                 recovered, unusable, cleared, outcome, drive, history>>

----------------------------------------------------------------------------
(* What follows a failed command: execute_command and reset_recovery.      *)

\* The FIFOs will not empty: nothing more is sent on this session.
CleanupFails ==
  /\ at = "cleanup"
  /\ unusable' = TRUE /\ at' = "failed"
  /\ UNCHANGED <<command, attempt, tag, done, inToggle, outToggle, errors, timeouts,
                 recoveries, recovered, cleared, outcome, drive, history>>

Cleanup ==
  /\ at = "cleanup"
  /\ at' = "reset"
  /\ UNCHANGED <<command, attempt, tag, done, inToggle, outToggle, errors, timeouts,
                 recoveries, recovered, unusable, cleared, outcome, drive, history>>

\* A drive may keep a status it had ready, where a reset should drop it.
DriveResets ==
  \E kept \in {0} \cup {drive.tag : p \in {drive.phase} \cap {"status"}} :
    drive' = [drive EXCEPT !.phase = "ready", !.left = 0, !.stale = kept]

MassStorageReset ==
  /\ at = "reset"
  /\ DriveResets
  /\ at' = "clearIn"
  /\ UNCHANGED <<command, attempt, tag, done, inToggle, outToggle, errors, timeouts,
                 recoveries, recovered, unusable, cleared, outcome, history>>

\* The drive does not answer, whether or not it heard.
MassStorageResetFails ==
  /\ at = "reset"
  /\ DriveResets \/ UNCHANGED drive
  /\ unusable' = TRUE /\ at' = "failed"
  /\ UNCHANGED <<command, attempt, tag, done, inToggle, outToggle, errors, timeouts,
                 recoveries, recovered, cleared, outcome, history>>

\* CLEAR_FEATURE(ENDPOINT_HALT), and with it DATA0 on both sides.
ClearIn ==
  /\ at = "clearIn"
  /\ \/ /\ drive' = [drive EXCEPT !.inToggle = 0, !.resend = FALSE]
        /\ inToggle' = 0 /\ cleared' = TRUE
     \/ /\ \/ drive' = [drive EXCEPT !.inToggle = 0, !.resend = FALSE]
           \/ UNCHANGED drive
        /\ cleared' = FALSE /\ UNCHANGED inToggle
  /\ at' = "clearOut"
  /\ UNCHANGED <<command, attempt, tag, done, outToggle, errors, timeouts, recoveries,
                 recovered, unusable, outcome, history>>

\* Mutant: the host's side of the toggle is left where it was.
MutantClearedOutToggle == outToggle

ClearedOutToggle == 0

\* Mutant: a session is recovered for as long as recovery itself works.
MutantHolds == TRUE

\* The recovery holds, as far as is known.
Holds == recoveries + 1 < RecoveryLimit

ClearOut ==
  /\ at = "clearOut"
  /\ drive' = [drive EXCEPT !.outToggle = 0]
  /\ outToggle' = ClearedOutToggle
  /\ recovered' = cleared
  /\ recoveries' = IF cleared THEN recoveries + 1 ELSE recoveries
  /\ unusable' = (~cleared \/ ~Holds)
  /\ at' = "failed"
  /\ UNCHANGED <<command, attempt, tag, done, inToggle, errors, timeouts, cleared, outcome,
                 history>>

ClearOutFails ==
  /\ at = "clearOut"
  /\ \/ drive' = [drive EXCEPT !.outToggle = 0]
     \/ UNCHANGED drive
  /\ recovered' = FALSE /\ unusable' = TRUE
  /\ at' = "failed"
  /\ UNCHANGED <<command, attempt, tag, done, inToggle, outToggle, errors, timeouts,
                 recoveries, cleared, outcome, history>>

Init ==
  /\ at = "idle" /\ command \in Commands /\ attempt = 1 /\ tag = 0 /\ done = 0
  /\ inToggle = 0 /\ outToggle = 0 /\ errors = 0 /\ timeouts = 0
  /\ recoveries = 0 /\ recovered = FALSE /\ unusable = FALSE /\ cleared = FALSE
  /\ outcome = "none"
  /\ drive = FreshDrive
  /\ taken = <<>> /\ received = <<>> /\ begun = 0

Packet ==
  \/ OutOk \/ OutError \/ OutFails \/ Timeout
  \/ InDuplicate \/ InData \/ InShort \/ InStatus \/ InStale \/ InError
Recovery ==
  \/ CleanupFails \/ Cleanup \/ MassStorageReset \/ MassStorageResetFails
  \/ ClearIn \/ ClearOut \/ ClearOutFails
ClassDriver == Replay \/ GiveUp

Next ==
  \/ \E next \in Commands : Issue(next)
  \/ Reattach \/ DriveEndsDataEarly
  \/ Packet \/ Recovery \/ ClassDriver

\* A command is a loop on the host: it goes on by itself.
Spec == Init /\ [][Next]_vars /\ WF_vars(Packet \/ Recovery \/ ClassDriver)

----------------------------------------------------------------------------
(* Properties.                                                             *)

\* Types of both sides of the session; the recoveries that did not hold never
\* pass RECOVERY_ATTEMPT_LIMIT.
TypeOK ==
  /\ at \in {"idle", "cbw", "data", "csw", "cleanup", "reset", "clearIn", "clearOut", "failed"}
  /\ command \in Commands /\ attempt \in {1, 2} /\ tag \in 0..MaxTag
  /\ done \in 0..command.packets
  /\ inToggle \in Toggle /\ outToggle \in Toggle
  /\ errors \in 0..PacketRetries /\ timeouts \in 0..TimeoutRetries
  /\ recoveries \in 0..RecoveryLimit
  /\ recovered \in BOOLEAN /\ unusable \in BOOLEAN /\ cleared \in BOOLEAN
  /\ outcome \in {"none", "passed", "failed"}
  /\ drive \in Drive
  /\ taken \in Seq(Nat) /\ received \in Seq(Nat) /\ begun \in Nat

\* Whatever is sent again, the drive takes each packet of a command's data once
\* and in order: "a lost ACK can produce only a duplicate, which the endpoint
\* acknowledges without consuming twice" (bot.rs, run_bulk_packet).
NothingTakenTwice == \A i \in DOMAIN taken : taken[i] = i

\* A command the class driver took for done is the one the drive reported on,
\* and all of its data crossed, through any retries, early or stale statuses.
SuccessMeansDone ==
  outcome = "passed" =>
    /\ drive.tag = tag /\ drive.status = "passed"
    /\ command.kind = "out" => taken = [i \in 1..command.packets |-> i]
    /\ command.kind = "in" => received = [i \in 1..command.packets |-> i]

\* A session that may send another command starts it with the drive waiting for
\* one and with both toggles agreed: "a subsequent CBW starts from a
\* synchronized session" (bot.rs, reset_recovery).
SynchronizedBetweenCommands ==
  (at \in {"idle", "failed"} /\ ~unusable) =>
    /\ drive.phase = "ready"
    /\ inToggle = drive.inToggle /\ outToggle = drive.outToggle

\* A command that may have changed the medium reaches the drive at most once,
\* and a query at most twice (msc.rs, execute_replayable_query).
WriteBegunAtMostOnce == begun <= IF command.replayable THEN 2 ELSE 1

\* However packets fail, every command returns to its caller: the retries of a
\* packet, the replay and the recovery are each bounded.
CommandReturns == (at # "idle") ~> (at = "idle")
=============================================================================
