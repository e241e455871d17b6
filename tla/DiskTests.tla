------------------------------- MODULE DiskTests -------------------------------
(***************************************************************************)
(* The shell's raw disk tests (app/shell.rs): usbwritetest and the rounds  *)
(* usbcheck runs of it, usbrawcheck, usbmultiwrite, usbzero, sdwritetest   *)
(* and sdzero.  Each overwrites blocks that belong to somebody, looks at   *)
(* what the device made of it and puts them back; its report is what the   *)
(* operator goes by.                                                       *)
(*                                                                         *)
(* The device is external: it may cache writes, lack a flush or Force Unit *)
(* Access, fail a command before, in the middle of or after carrying it    *)
(* out, lose its session, or put a write one block beside where it was     *)
(* asked to or over that one as well.  Faults bounds how often.            *)
(***************************************************************************)
EXTENDS Integers, SequencesExt

CONSTANTS
    LastBlock,   \* highest block of the device
    Spans,       \* lengths usbrawcheck, usbmultiwrite and usbzero are given
    Burst,       \* writes usbrawcheck issues
    Rounds,      \* rounds of usbcheck (WRITE_ROUNDS) and usbmultiwrite (ROUNDS)
    Faults,
    Downwards,   \* a stray write lands on the block before, not on the next
    None

VARIABLE disk

Blocks == 0 .. LastBlock
Kinds == {"test", "check", "raw", "multi", "zero", "sd", "sdzero"}
Slip == IF Downwards THEN -1 ELSE 1
Original(b) == <<"original", b, 0>>
Zero == <<"zero", 0, 0>>
(* usbwritetest's pattern is the same wherever it goes; usbrawcheck's and   *)
(* usbmultiwrite's carry the block and the sequence number or round.       *)
Pattern(kind, b, n) ==
    IF kind \in {"raw", "multi"} THEN <<kind, b, n>> ELSE <<"pattern", 0, 0>>

---------------------------------------------------------------------------
(* The device *)

Device(caches, flushes, fua) ==
    [medium |-> [b \in Blocks |-> Original(b)], cache |-> [b \in Blocks |-> None],
     caches |-> caches, flushes |-> flushes, fua |-> fua,
     lost |-> FALSE, faults |-> Faults]
Holds(d, b) == IF d.cache[b] = None THEN d.medium[b] ELSE d.cache[b]
Store(d, at, values) ==
    LET put(old) == [b \in Blocks |-> IF b - at + 1 \in DOMAIN values
                                      THEN values[b - at + 1] ELSE old[b]]
    IN  IF d.caches THEN [d EXCEPT !.cache = put(@)] ELSE [d EXCEPT !.medium = put(@)]
Strained(d) == {[d EXCEPT !.faults = @ - 1, !.lost = l] : l \in BOOLEAN}
Failures(d) == {[ok |-> FALSE, d |-> e, value |-> None] :
                    e \in IF d.lost THEN {d} ELSE IF d.faults = 0 THEN {} ELSE Strained(d)}

(* A failed write may have reached any number of its blocks; an accepted    *)
(* one may have gone astray.                                               *)
Writes(d, at, values) ==
    IF d.lost THEN {[ok |-> FALSE, d |-> d]}
    ELSE {[ok |-> TRUE, d |-> Store(d, at, values)]} \cup
         IF d.faults = 0 THEN {}
         ELSE LET e == [d EXCEPT !.faults = @ - 1]
              IN  {[ok |-> FALSE, d |-> Store(s, at, SubSeq(values, 1, k))] :
                        s \in Strained(d), k \in 0 .. Len(values)} \cup
                  {[ok |-> TRUE, d |-> Store(e, at + Slip, values)],
                   [ok |-> TRUE, d |-> Store(Store(e, at + Slip, values), at, values)]}
Reads(d, b) ==
    Failures(d) \cup
    IF d.lost THEN {} ELSE {[ok |-> TRUE, d |-> d, value |-> Holds(d, b)]}
(* A read with Force Unit Access sees the medium: a block still in the      *)
(* cache is written back first.                                            *)
Settled(d, blocks) ==
    [d EXCEPT !.medium = [b \in Blocks |-> IF b \in blocks THEN Holds(d, b) ELSE @[b]],
              !.cache = [b \in Blocks |-> IF b \in blocks THEN None ELSE @[b]]]
MediumReads(d, b) ==
    IF d.fua /\ ~d.lost
    THEN Failures(d) \cup {[ok |-> TRUE, d |-> Settled(d, {b}), value |-> Holds(d, b)]}
    ELSE {[ok |-> FALSE, d |-> d, value |-> None]}
(* Force Unit Access first, the ordinary read when that is refused.         *)
Looks(d, b) ==
    UNION {IF m.ok THEN {m} ELSE Reads(m.d, b) : m \in MediumReads(d, b)}
Flushes(d) ==
    IF d.lost THEN {[outcome |-> "failed", d |-> d]}
    ELSE IF ~d.flushes THEN {[outcome |-> "unsupported", d |-> d]}
    ELSE {[outcome |-> "flushed",
           d |-> Settled(d, Blocks)]} \cup
         {[outcome |-> "failed", d |-> f.d] : f \in Failures(d)}
(* Looks at several blocks in one command or one after the other: the       *)
(* whole of it fails with the first that does.                             *)
LooksAt(d, blocks) ==
    Failures(d) \cup
    IF d.lost THEN {}
    ELSE {[ok |-> TRUE, d |-> IF d.fua THEN Settled(d, blocks) ELSE d,
           value |-> [b \in blocks |-> Holds(d, b)]]}

---------------------------------------------------------------------------
(* A command *)

Report(passed, restored, written) ==
    [passed |-> passed, restored |-> restored, written |-> written]
Idle(d) ==
    [dev |-> d, kind |-> None, lba |-> 0, n |-> 1, pc |-> "idle", at |-> 0,
     snapshot |-> [b \in Blocks |-> None], origin |-> [b \in Blocks |-> Holds(d, b)],
     last |-> [b \in Blocks |-> None], done |-> 0,
     patternOk |-> FALSE, readable |-> TRUE, damaged |-> 0, restoreOk |-> TRUE,
     begun |-> {}, given |-> {}, refused |-> FALSE,
     round |-> 1, good |-> 0, restoredRounds |-> 0, collateral |-> 0,
     report |-> None]
Init == \E caches, flushes, fua \in BOOLEAN :
            /\ ~caches => fua
            /\ disk = Idle(Device(caches, flushes, fua))

Guarded(s) ==
    CASE s.kind \in {"test", "check"} ->
            (IF s.lba = 0 THEN 0 ELSE s.lba - 1)
                .. (IF s.lba + 2 > LastBlock THEN LastBlock ELSE s.lba + 2)
      [] s.kind = "multi" -> s.lba - 1 .. s.lba + s.n
      [] OTHER -> s.lba .. s.lba + s.n - 1
LowEnd(s) == CHOOSE b \in Guarded(s) : \A c \in Guarded(s) : b <= c
HighEnd(s) == CHOOSE b \in Guarded(s) : \A c \in Guarded(s) : c <= b
Touched(s) == {b \in Blocks : s.last[b] # None}
At(pc) == disk.pc = pc
Ended(s, passed, restored, written) ==
    [s EXCEPT !.pc = "done", !.report = Report(passed, restored, written)]
Aborted(s) == Ended(s, FALSE, FALSE, FALSE)

(* A dead session and a range outside the medium are turned down; the SD   *)
(* commands leave the range to the card, which fails the transfer.         *)
Acceptable(s) ==
    IF s.kind \in {"sd", "sdzero"} THEN s.lba \in Blocks
    ELSE ~s.dev.lost /\ (s.kind = "multi" => s.lba > 0) /\ Guarded(s) \subseteq Blocks
Start == /\ At("idle")
         /\ \E kind \in Kinds, lba \in Blocks, n \in Spans :
              /\ kind \notin {"raw", "multi", "zero"} => n = 1
              /\ LET s == [disk EXCEPT !.kind = kind, !.lba = lba, !.n = n]
                 IN  disk' = IF ~Acceptable(s) THEN Aborted(s)
                             ELSE [s EXCEPT !.at = LowEnd(s),
                                            !.pc = IF kind \in {"zero", "sdzero"} THEN "zero"
                                                   ELSE "snapshot"]

Snapshot ==
    /\ At("snapshot")
    /\ \E r \in Reads(disk.dev, disk.at) :
         LET s == [disk EXCEPT !.dev = r.d]
         IN  disk' = IF ~r.ok
                     THEN [Aborted(s) EXCEPT !.report.written = s.round > 1]
                     ELSE [s EXCEPT !.snapshot[s.at] = r.value,
                                    !.at = IF s.at = HighEnd(s) THEN s.lba ELSE s.at + 1,
                                    !.pc = IF s.at = HighEnd(s) THEN "write" ELSE "snapshot"]

(* usbcheck goes on for its rounds while one is attempted and the session   *)
(* lives; the others end with the round.                                   *)
EndRound(s, pattern, restored) ==
    LET t == [s EXCEPT !.good = @ + (IF pattern THEN 1 ELSE 0),
                       !.restoredRounds = @ + (IF restored THEN 1 ELSE 0),
                       !.collateral = @ + s.damaged]
    IN  IF s.kind = "check" /\ s.round < Rounds /\ ~s.dev.lost
        THEN [t EXCEPT !.round = @ + 1, !.pc = "snapshot", !.at = LowEnd(s),
                       !.damaged = 0, !.restoreOk = TRUE, !.readable = TRUE,
                       !.patternOk = FALSE]
        ELSE Ended(t, IF s.kind = "check"
                      THEN /\ t.round = Rounds /\ t.good = Rounds
                           /\ t.restoredRounds = Rounds /\ t.collateral = 0
                      ELSE pattern /\ restored, restored, TRUE)

(* usbwritetest: a pattern write that failed ends the round as it is.       *)
TestWrite ==
    /\ At("write") /\ disk.kind \in {"test", "check"}
    /\ \E w \in Writes(disk.dev, disk.lba, <<Pattern("test", disk.lba, 0)>>) :
         LET s == [disk EXCEPT !.dev = w.d, !.last[disk.lba] = 0]
         IN  IF ~w.ok THEN disk' = EndRound(s, FALSE, FALSE)
             ELSE \E f \in Flushes(w.d) :
                    disk' = [s EXCEPT !.dev = f.d, !.pc = "compare", !.at = LowEnd(s)]
Compared(s, r) ==
    IF ~r.ok THEN [s EXCEPT !.readable = FALSE]
    ELSE IF s.at = s.lba THEN [s EXCEPT !.patternOk = r.value = Pattern("test", s.lba, 0)]
    ELSE [s EXCEPT !.damaged = @ + (IF r.value # s.snapshot[s.at] THEN 1 ELSE 0)]
TestCompare ==
    /\ At("compare")
    /\ \E r \in Looks(disk.dev, disk.at) :
         LET s == [Compared(disk, r) EXCEPT !.dev = r.d]
         IN  disk' = IF s.at = HighEnd(s) THEN [s EXCEPT !.pc = "restore", !.at = LowEnd(s)]
                     ELSE [s EXCEPT !.at = @ + 1]
Verified(s, r) ==
    [s EXCEPT !.dev = r.d, !.restoreOk = @ /\ r.ok /\ r.value = s.snapshot[s.at]]
Beyond(s) ==
    IF s.at < HighEnd(s) THEN [s EXCEPT !.at = @ + 1]
    ELSE EndRound(s, s.patternOk /\ s.readable, s.restoreOk)
(* The target in any case, a neighbour when it cannot be read or changed.   *)
TestRestore ==
    /\ At("restore") /\ disk.kind \in {"test", "check"}
    /\ IF disk.dev.lost THEN disk' = EndRound([disk EXCEPT !.restoreOk = FALSE],
                                              disk.patternOk /\ disk.readable, FALSE)
       ELSE \E r \in IF disk.at = disk.lba
                     THEN {[ok |-> FALSE, d |-> disk.dev, value |-> None]}
                     ELSE Reads(disk.dev, disk.at) :
              IF r.ok /\ r.value = disk.snapshot[disk.at]
              THEN disk' = Beyond([disk EXCEPT !.dev = r.d])
              ELSE \E w \in Writes(r.d, disk.at, <<disk.snapshot[disk.at]>>) :
                     IF ~w.ok
                     THEN disk' = Beyond([disk EXCEPT !.dev = w.d, !.restoreOk = FALSE,
                                                      !.refused = TRUE])
                     ELSE \E f \in Flushes(w.d) : \E c \in Looks(f.d, disk.at) :
                            disk' = Beyond([Verified(disk, c) EXCEPT !.given = @ \cup {disk.at}])

---------------------------------------------------------------------------
(* usbrawcheck: a burst of writes with nothing in between, then one look,   *)
(* then every block the burst wrote to is put back.                        *)

RawStart(s) == [s EXCEPT !.at = LowEnd(s)]
(* A block counts as written to before the write is known to have worked.   *)
Marked(s, b, ok) == [s EXCEPT !.last[b] = s.done]
RawWrite ==
    /\ At("write") /\ disk.kind = "raw"
    /\ LET b == disk.lba + (disk.done % disk.n)
       IN  \E w \in Writes(disk.dev, b, <<Pattern("raw", b, disk.done)>>) :
             LET s == [Marked(disk, b, w.ok) EXCEPT !.dev = w.d,
                                                    !.begun = @ \cup {b},
                                                    !.done = @ + (IF w.ok THEN 1 ELSE 0)]
             IN  disk' = IF w.ok /\ s.done < Burst THEN s
                         ELSE [s EXCEPT !.pc = "judge", !.patternOk = s.done = Burst /\ ~w.d.lost]
RawJudge ==
    /\ At("judge")
    /\ IF ~disk.patternOk
       THEN disk' = [RawStart(disk) EXCEPT !.pc = "restore", !.restoreOk = ~disk.dev.lost]
       ELSE \E f \in Flushes(disk.dev) : \E r \in LooksAt(f.d, Touched(disk)) :
              disk' = [RawStart(disk) EXCEPT
                         !.dev = r.d, !.pc = "restore", !.restoreOk = ~r.d.lost,
                         !.patternOk = r.ok /\ \A b \in Touched(disk) :
                                           r.value[b] = Pattern("raw", b, disk.last[b])]
RawEnd(s) ==
    IF ~s.restoreOk THEN {Ended(s, FALSE, FALSE, TRUE)}
    ELSE UNION {{LET ok == r.ok /\ \A b \in Touched(s) : r.value[b] = s.snapshot[b]
                 IN  Ended([s EXCEPT !.dev = r.d, !.restoreOk = ok],
                           s.done = Burst /\ s.patternOk /\ ok, ok, TRUE) :
                     r \in LooksAt(f.d, Touched(s))} : f \in Flushes(s.dev)}
RawRestore ==
    /\ At("restore") /\ disk.kind = "raw"
    /\ IF ~disk.restoreOk \/ disk.at > HighEnd(disk) THEN disk' \in RawEnd(disk)
       ELSE IF disk.last[disk.at] = None THEN disk' = [disk EXCEPT !.at = @ + 1]
       ELSE \E w \in Writes(disk.dev, disk.at, <<disk.snapshot[disk.at]>>) :
              disk' = [disk EXCEPT !.dev = w.d, !.at = @ + 1, !.restoreOk = w.ok,
                                   !.refused = ~w.ok, !.given = @ \cup {disk.at}]

---------------------------------------------------------------------------
(* usbmultiwrite: rounds of one command over several blocks between two     *)
(* guards, each looked at as a whole.                                      *)

Payload(s) == s.lba .. s.lba + s.n - 1
MultiWrite ==
    /\ At("write") /\ disk.kind = "multi"
    /\ LET values == [k \in 1 .. disk.n |-> Pattern("multi", disk.lba + k - 1, disk.round)]
           stop(s) == [s EXCEPT !.pc = "judge", !.patternOk = FALSE]
           wrote == [disk EXCEPT !.last = [b \in Blocks |-> IF b \in Payload(disk) THEN disk.round
                                                            ELSE @[b]]]
       IN  \E w \in Writes(disk.dev, disk.lba, values) :
             IF ~w.ok THEN disk' = stop([wrote EXCEPT !.dev = w.d])
             ELSE \E f \in Flushes(w.d) : \E r \in LooksAt(f.d, Guarded(disk)) :
                    LET guards == {b \in Guarded(disk) \ Payload(disk) :
                                     r.ok /\ r.value[b] # disk.snapshot[b]}
                        good == /\ r.ok /\ guards = {}
                                /\ \A b \in Payload(disk) :
                                     r.value[b] = Pattern("multi", b, disk.round)
                        s == [wrote EXCEPT !.dev = r.d, !.done = @ + 1,
                                           !.damaged = @ + Cardinality(guards)]
                    IN  disk' = IF ~good THEN stop(s)
                                ELSE IF disk.round < Rounds
                                THEN [s EXCEPT !.round = @ + 1, !.good = @ + 1]
                                ELSE [s EXCEPT !.good = @ + 1, !.pc = "judge",
                                               !.patternOk = TRUE]
(* What the cache answers decides which blocks are written back.            *)
MultiJudge(s) ==
    UNION {{[s EXCEPT !.dev = r.d, !.pc = "restore", !.at = LowEnd(s),
                      !.readable = r.ok, !.restoreOk = TRUE]} :
                r \in {[ok |-> TRUE, d |-> s.dev]} \cup Failures(s.dev)}
Judge ==
    /\ At("judge") /\ disk.kind = "multi"
    /\ disk' \in IF disk.dev.lost THEN {Ended(disk, FALSE, FALSE, TRUE)} ELSE MultiJudge(disk)
MultiEnd(s) ==
    IF ~s.restoreOk THEN {Ended(s, FALSE, FALSE, TRUE)}
    ELSE UNION {{LET ok == r.ok /\ \A b \in Guarded(s) : r.value[b] = s.snapshot[b]
                 IN  Ended([s EXCEPT !.dev = r.d, !.restoreOk = ok],
                           s.patternOk /\ s.good = Rounds /\ s.damaged = 0 /\ ok, ok, TRUE) :
                     r \in LooksAt(f.d, Guarded(s))} : f \in Flushes(s.dev)}
MultiRestore ==
    /\ At("restore") /\ disk.kind = "multi"
    /\ IF ~disk.restoreOk \/ disk.at > HighEnd(disk) THEN disk' \in MultiEnd(disk)
       ELSE IF disk.readable /\ Holds(disk.dev, disk.at) = disk.snapshot[disk.at]
       THEN disk' = [disk EXCEPT !.at = @ + 1]
       ELSE \E w \in Writes(disk.dev, disk.at, <<disk.snapshot[disk.at]>>) :
              disk' = [disk EXCEPT !.dev = w.d, !.at = @ + 1, !.restoreOk = w.ok,
                                   !.refused = ~w.ok, !.given = @ \cup {disk.at}]

---------------------------------------------------------------------------
(* usbzero and sdzero; sdwritetest *)

ZeroNext ==
    /\ At("zero") /\ disk.kind = "zero"
    /\ \E w \in Writes(disk.dev, disk.at, <<Zero>>) :
         LET s == [disk EXCEPT !.dev = w.d, !.last[disk.at] = 0]
         IN  IF ~w.ok \/ w.d.lost THEN disk' = Ended(s, FALSE, FALSE, TRUE)
             ELSE \E f \in Flushes(w.d) : \E c \in Looks(f.d, disk.at) :
                    LET t == [s EXCEPT !.dev = c.d]
                    IN  disk' = IF ~c.ok \/ c.value # Zero THEN Ended(t, FALSE, FALSE, TRUE)
                                ELSE IF t.at = HighEnd(t)
                                THEN Ended([t EXCEPT !.done = @ + 1], TRUE, FALSE, TRUE)
                                ELSE [t EXCEPT !.at = @ + 1, !.done = @ + 1]
SdZero ==
    /\ At("zero") /\ disk.kind = "sdzero"
    /\ \E w \in Writes(disk.dev, disk.lba, <<Zero>>) :
         disk' = Ended([disk EXCEPT !.dev = w.d, !.last[disk.lba] = 0], FALSE, FALSE, TRUE)
SdWrite ==
    /\ At("write") /\ disk.kind = "sd"
    /\ \E w \in Writes(disk.dev, disk.lba, <<Pattern("sd", disk.lba, 0)>>) :
         LET s == [disk EXCEPT !.dev = w.d, !.last[disk.lba] = 0]
         IN  IF ~w.ok THEN disk' = Ended(s, FALSE, FALSE, TRUE)
             ELSE \E r \in Reads(w.d, disk.lba) :
                    disk' = [s EXCEPT !.dev = r.d, !.pc = "restore",
                                      !.patternOk = r.ok /\ r.value = Pattern("sd", s.lba, 0)]
SdRestore ==
    /\ At("restore") /\ disk.kind = "sd"
    /\ \E w \in Writes(disk.dev, disk.lba, <<disk.snapshot[disk.lba]>>) :
         IF ~w.ok THEN disk' = Ended([disk EXCEPT !.dev = w.d], FALSE, FALSE, TRUE)
         ELSE \E r \in Reads(w.d, disk.lba) :
                LET ok == r.ok /\ r.value = disk.snapshot[disk.lba]
                IN  disk' = Ended([disk EXCEPT !.dev = r.d], disk.patternOk /\ ok, ok, TRUE)

Next == \/ Start \/ Snapshot
        \/ TestWrite \/ TestCompare \/ TestRestore
        \/ RawWrite \/ (disk.kind = "raw" /\ RawJudge) \/ RawRestore
        \/ MultiWrite \/ Judge \/ MultiRestore
        \/ ZeroNext \/ SdZero \/ SdWrite \/ SdRestore

---------------------------------------------------------------------------
(* Properties *)

(* Every command stays inside its procedure and the fault budget.           *)
TypeOK ==
    /\ disk.pc \in {"idle", "snapshot", "write", "compare", "judge", "restore", "zero", "done"}
    /\ disk.dev.faults \in 0 .. Faults
    /\ disk.pc \notin {"idle", "done"} => disk.at \in LowEnd(disk) .. HighEnd(disk) + 1
    /\ (disk.pc = "done") = (disk.report # None)
    /\ disk.good <= disk.round /\ disk.restoredRounds <= disk.round

(* "original data restored: yes" is the truth: every block the report       *)
(* speaks for answers with what the command found there                    *)
(* (WriteRoundOutcome::restored, usbrawcheck's and usbmultiwrite's         *)
(* verdicts, sdwritetest).                                                 *)
Spoken(s) == IF s.kind = "raw" THEN s.begun ELSE Guarded(s)
RestoredIsTrue ==
    disk.report # None =>
        (disk.report.restored => \A b \in Spoken(disk) : Holds(disk.dev, b) = disk.snapshot[b])

(* RESULT PASS means the tests left no trace: over all rounds of usbcheck,  *)
(* each of which takes a fresh snapshot of what the last one left, every   *)
(* block spoken for holds what it held before the command; usbzero's count *)
(* means zeros.                                                            *)
PassLeavesNoTrace ==
    disk.report # None =>
        (disk.report.passed =>
            \A b \in Spoken(disk) :
                Holds(disk.dev, b) = IF disk.kind = "zero" THEN Zero ELSE disk.origin[b])

(* "nothing written" is the truth: a command that stopped at a precondition *)
(* or at its snapshot changed no block of the device.                      *)
NothingWrittenIsTrue ==
    disk.report # None =>
        (~disk.report.written => \A b \in Blocks : Holds(disk.dev, b) = disk.origin[b])

(* "a live session attempts restoration even when the command reports      *)
(* failure" (cmd_usbrawcheck): unless the session is lost or a write of the *)
(* restoration itself is refused, every block a burst may have reached has *)
(* been written back when the command ends.                                *)
LiveSessionsRestore ==
    (disk.kind = "raw" /\ disk.pc = "done" /\ disk.report.written
        /\ ~disk.dev.lost /\ ~disk.refused) =>
        disk.begun \subseteq disk.given
=============================================================================
