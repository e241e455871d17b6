----------------------------- MODULE MassStorage -----------------------------
(***************************************************************************)
(* usb/msc.rs, fs/usb_msc.rs and fs/stream.rs: the SCSI commands of a USB  *)
(* drive, the block device made of them, and the byte stream with its one  *)
(* cached run of blocks a file system reads and writes through.            *)
(*                                                                         *)
(* The drive (external) has a write cache, keeps the reason of its last    *)
(* failure until it is asked or given another command, may decline to      *)
(* flush, may be write protected, empty or busy, and may answer a question *)
(* about its serial number with something else.  Faults is the number of   *)
(* commands that fail or whose answer is lost; a lost command may or may   *)
(* not have been carried out, and the recovery after it works or not.      *)
(***************************************************************************)
EXTENDS Integers, Sequences, FiniteSets

CONSTANTS Size,          \* blocks of the drive
          BlockBytes, CacheBlocks,
          MaxWrite,      \* blocks of one WRITE(10)
          FlushAttempts, Faults,
          Lengths, Values,  \* of the writes
          None

VARIABLE store

Blocks == 0 .. Size - 1
Bytes == 0 .. Size * BlockBytes - 1
BlockOf(byte) == byte \div BlockBytes
RunOf(block) == block - (block % CacheBlocks)
BlocksOfRun(run) == {b \in Blocks : RunOf(b) = run}
Lesser(a, b) == IF a < b THEN a ELSE b

----------------------------------------------------------------------------
(* One command: what it leaves and what the host is told.  A failed one    *)
(* leaves a reason; a lost one tells nothing, and the session may be over. *)

Answer(s, reply) == [s |-> s, reply |-> reply]
Spent(s) == [s EXCEPT !.faults = @ - 1]
Asked(s) == [s EXCEPT !.sense = "none"]
Lost(s) == {Answer([Spent(s) EXCEPT !.alive = recovered], "lost") : recovered \in BOOLEAN}

\* full is the state after the command, broken those it may break off in,
\* refusals the reasons the drive has for not carrying it out; only one that
\* moves data can pass and be short.
Command(s, moves, full, broken, refusals) ==
  IF ~s.alive THEN {Answer(s, "lost")}
  ELSE LET ends == IF refusals /= {} THEN {s} ELSE {full} \cup broken
           faulty == UNION {Lost(Asked(e)) \cup {Answer([Spent(e) EXCEPT !.sense = "fault"], "failed")}
                                    \cup (IF moves THEN {Answer(Spent(Asked(e)), "short")} ELSE {}) : e \in ends}
       IN  (IF refusals /= {} THEN {Answer([s EXCEPT !.sense = why], "failed") : why \in refusals}
            ELSE {Answer(Asked(full), "passed")})
             \cup (IF s.faults > 0 THEN faulty ELSE {})
Question(s, moves, refusals) == Command(s, moves, s, {}, refusals)

\* A question is asked again when a recovery worked, once.
ExecuteReplayableQuery(s, moves, refusals) ==
  UNION {IF o.reply = "lost" /\ o.s.alive THEN Question(o.s, moves, refusals) ELSE {o}
         : o \in Question(s, moves, refusals)}

\* The reason of the last failure, or None; it is asked for once and never
\* replayed.
RequestSense(s) ==
  IF ~s.alive THEN {[s |-> s, key |-> None]}
  ELSE {[s |-> Asked(s), key |-> s.sense]}
         \cup (IF s.faults > 0 THEN {[s |-> [l.s EXCEPT !.reasonLost = TRUE], key |-> None] : l \in Lost(Asked(s))} ELSE {})

\* Bytes the drive never filled in are no diagnosis.
CollectSense(s) == {[o EXCEPT !.key = IF @ = "unfilled" THEN None ELSE @] : o \in RequestSense(s)}

----------------------------------------------------------------------------
(* Readiness *)

NotReady(s) == IF ~s.present THEN {"empty"} ELSE IF s.busy > 0 THEN {"notready"} ELSE {}
Settling(s) == [s EXCEPT !.busy = IF @ > 0 THEN @ - 1 ELSE 0]

\* TRUE, FALSE or None.
TestUnitReady(s) ==
  {[s |-> Settling(o.s), ready |-> IF o.reply = "lost" THEN None ELSE o.reply = "passed"]
   : o \in ExecuteReplayableQuery(s, FALSE, NotReady(s))}

RECURSIVE WaitUntilReady(_, _)
WaitUntilReady(s, attempts) ==
  UNION {IF o.ready = None THEN {[s |-> o.s, ready |-> FALSE]}
         ELSE IF o.ready THEN {[s |-> o.s, ready |-> TRUE]}
         ELSE IF attempts = 1 THEN {[s |-> o.s, ready |-> FALSE]}
         ELSE WaitUntilReady(o.s, attempts - 1)
         : o \in TestUnitReady(s)}

ReadCapacity(s) == {[s |-> o.s, ok |-> o.reply = "passed"] : o \in ExecuteReplayableQuery(s, TRUE, NotReady(s))}

----------------------------------------------------------------------------
(* Reading, writing and flushing *)

\* The reason of a READ(10) the drive failed is collected, then dropped.
Read10(s) ==
  UNION {IF o.reply = "failed" THEN {[s |-> c.s, ok |-> FALSE] : c \in CollectSense(o.s)}
         ELSE {[s |-> o.s, ok |-> o.reply = "passed"]}
         : o \in ExecuteReplayableQuery(s, TRUE, NotReady(s))}

Protected(s) == IF s.protected THEN {"protect"} ELSE NotReady(s)
Held(s, from, to, copy) == [s EXCEPT !.view = [b \in Blocks |-> IF b \in from .. to THEN copy[b] ELSE @[b]], !.unsaved = @ \cup (from .. to)]

\* A WRITE(10) is never sent a second time.
Write10(s, from, to, copy) ==
  LET broken == {s} \cup {Held(s, from, b, copy) : b \in from .. to - 1}
  IN  UNION {IF o.reply = "failed"
             THEN {[s |-> c.s, outcome |-> IF c.key = "protect" THEN "protected" ELSE "failed"] : c \in CollectSense(o.s)}
             ELSE {[s |-> o.s, outcome |-> IF o.reply = "passed" THEN "written" ELSE "failed"]}
             : o \in Command(s, TRUE, Held(s, from, to, copy), broken, Protected(s))}

Declines(s) == IF s.flushing = "works" THEN {} ELSE {s.flushing}
Flushed(s) == [s EXCEPT !.unsaved = {}]

SynchronizeCache(s) ==
  IF s.unsupported THEN {[s |-> s, sync |-> "unsupported"]}
  ELSE UNION {IF o.reply = "failed"
              THEN {LET declined == IF c.key = None THEN c.s.alive ELSE c.key \in {"illegal", "none"}
                    IN  [s |-> [c.s EXCEPT !.unsupported = declined], sync |-> IF declined THEN "unsupported" ELSE "failed"]
                    : c \in CollectSense(o.s)}
              ELSE {[s |-> [o.s EXCEPT !.busy = busy], sync |-> IF o.reply = "lost" THEN "failed" ELSE "flushed"] : busy \in {0, 1}}
              : o \in Command(s, FALSE, Flushed(s), {s}, Declines(s))}

\* The block device's flush: a drive that will not flush is taken at its
\* word, one that did is waited for.
Flush(s) ==
  UNION {CASE o.sync = "unsupported" -> {[s |-> o.s, ok |-> TRUE]}
           [] o.sync = "failed" -> {[s |-> o.s, ok |-> FALSE]}
           [] o.sync = "flushed" -> {[s |-> w.s, ok |-> w.ready] : w \in WaitUntilReady(o.s, FlushAttempts)}
         : o \in SynchronizeCache(s)}

----------------------------------------------------------------------------
(* What identifies the drive *)

\* A drive without such pages answers with its standard INQUIRY, whose second
\* byte is taken for the page's number: 128 for a removable medium, 0 else.
Page(s, page) ==
  CASE s.pages = "proper" -> [echo |-> page, body |-> IF page = 0 THEN "list" ELSE "serial"]
    [] s.pages = "removable" -> [echo |-> 128, body |-> "leftover"]
    [] s.pages = "fixed" -> [echo |-> 0, body |-> "leftover"]
    [] OTHER -> [echo |-> None, body |-> None]

ReadVitalProductPage(s, page) ==
  UNION {CASE o.reply = "failed" -> {[s |-> c.s, body |-> None] : c \in CollectSense(o.s)}
           [] o.reply = "passed" -> {[s |-> o.s, body |-> IF Page(o.s, page).echo = page THEN Page(o.s, page).body ELSE None]}
           [] OTHER -> {[s |-> o.s, body |-> None]}
         : o \in ExecuteReplayableQuery(s, TRUE, IF s.pages = "refuses" THEN {"illegal"} ELSE {})}

\* The list of pages is asked for once per attachment.
ListsVitalProductPage(s) ==
  IF s.listed /= None THEN {s}
  ELSE {[o.s EXCEPT !.listed = (o.body = "list")] : o \in ReadVitalProductPage(s, 0)}

VitalProductData(s) ==
  UNION {IF ~t.listed THEN {[s |-> t, body |-> None]} ELSE ReadVitalProductPage(t, 128) : t \in ListsVitalProductPage(s)}

----------------------------------------------------------------------------
(* The stream *)

Settled(s, verdict) == [s EXCEPT !.verdict = verdict]
Dropped(s) == [s EXCEPT !.cached = None, !.copy = <<>>]

\* Makes the run of a block resident.
Fill(s, block) ==
  IF s.cached = RunOf(block) THEN {[s |-> s, ok |-> TRUE]}
  ELSE IF ~s.alive THEN {[s |-> Dropped(s), ok |-> FALSE]}
  ELSE {IF o.ok THEN [s |-> [o.s EXCEPT !.cached = RunOf(block), !.copy = [b \in BlocksOfRun(RunOf(block)) |-> o.s.view[b]]], ok |-> TRUE]
                ELSE [s |-> Dropped(o.s), ok |-> FALSE]
        : o \in Read10(s)}

\* The bytes of one call: up to the end of the cached run.
Covered(s, at, length) ==
  {b \in Bytes : at <= b /\ b < at + length /\ RunOf(BlockOf(b)) = RunOf(BlockOf(at))}

RECURSIVE WriteBlocks(_, _, _)
WriteBlocks(s, from, to) ==
  IF from > to THEN {[s |-> s, outcome |-> "written"]}
  ELSE UNION {IF o.outcome = "written" THEN WriteBlocks(o.s, from + MaxWrite, to) ELSE {o}
              : o \in Write10(s, from, Lesser(from + MaxWrite - 1, to), s.copy)}

Patched(s, bytes, value) ==
  [s EXCEPT !.copy = [b \in DOMAIN @ |-> [i \in 0 .. BlockBytes - 1 |-> IF b * BlockBytes + i \in bytes THEN value ELSE @[b][i]]]]

Learn(s, bytes, value) == [s EXCEPT !.told = [b \in Bytes |-> IF b \in bytes THEN value ELSE @[b]]]

MutantFinishWrite(o, bytes, value) ==
  IF o.outcome = "written" THEN Settled(Learn(o.s, bytes, value), "written")
  ELSE Settled(Learn(o.s, bytes, None), o.outcome)
\* A write that fails drops the cached run, which no longer matches.
FinishWrite(o, bytes, value) ==
  IF o.outcome = "written" THEN Settled(Learn(o.s, bytes, value), "written")
  ELSE Settled(Dropped(Learn(o.s, bytes, None)), o.outcome)

StreamWrite(s, at, length, value) ==
  LET bytes == Covered(s, at, length)
      touched == {BlockOf(b) : b \in bytes}
      first == BlockOf(at)
      last == CHOOSE b \in touched : \A c \in touched : b >= c
  IN  UNION {IF ~f.ok THEN {Settled(f.s, "failed")}
             ELSE {FinishWrite(o, bytes, value) : o \in WriteBlocks(Patched(f.s, bytes, value), first, last)}
             : f \in Fill(s, first)}

----------------------------------------------------------------------------
(* The steps *)

Init ==
  \E flushing \in {"works", "illegal", "none", "unfilled"}, pages \in {"proper", "refuses", "removable", "fixed"},
     protected, present \in BOOLEAN, busy \in {0, 1} :
    /\ pages /= "proper" => flushing = "works" /\ ~protected
    /\ protected \/ ~present => flushing = "works"
    /\ LET zero == [b \in Blocks |-> [i \in 0 .. BlockBytes - 1 |-> 0]]
       IN  store = [view |-> zero, unsaved |-> {}, sense |-> "none", busy |-> busy, protected |-> protected,
                    present |-> present, flushing |-> flushing, pages |-> pages,
                    alive |-> TRUE, unsupported |-> FALSE, reasonLost |-> FALSE, listed |-> None, faults |-> Faults,
                    cached |-> None, copy |-> <<>>, told |-> [b \in Bytes |-> 0], verdict |-> None]

\* probe: geometry is asked for before a stream is made.
Probe ==
  /\ store.alive /\ store.verdict \in {None, "gone", "notready"}
  /\ \E o \in TestUnitReady(store) :
       IF o.ready /= TRUE THEN store' = Settled(Dropped(o.s), IF o.ready = None THEN "gone" ELSE "notready")
       ELSE \E c \in ReadCapacity(o.s) : store' = Settled(Dropped(c.s), IF c.ok THEN "open" ELSE "gone")

Open == store.verdict \notin {None, "gone", "notready", "nomedium"}

Read(at) == Open /\ \E f \in Fill(store, BlockOf(at)) : store' = Settled(f.s, IF f.ok THEN "open" ELSE "failed")

Write(at, length, value) == Open /\ store' \in StreamWrite(store, at, length, value)

FlushStream ==
  /\ Open
  /\ IF ~store.alive THEN store' = Settled(store, "failed")
     ELSE \E o \in Flush(store) : store' = Settled(o.s, IF o.ok THEN "flushed" ELSE "failed")

CloseStream == Open /\ store' = Settled(Dropped(store), None)

Identify ==
  store.alive /\ store.verdict = None /\ \E o \in VitalProductData(store) : store' = Settled(o.s, IF o.body = None THEN None ELSE o.body)

\* measure_ready_and_first_read, as far as the medium: an empty drive is told
\* from a slow one by its sense.
Measure ==
  /\ store.verdict = None
  /\ \E o \in TestUnitReady(store) :
       IF o.ready /= FALSE THEN store' = Settled(o.s, None)
       ELSE \E c \in RequestSense(o.s) : store' = Settled(c.s, IF c.key = "empty" THEN "nomedium" ELSE "notready")

Forget == store.verdict \in {"serial", "leftover", "nomedium", "notready"} /\ store' = Settled(store, None)

\* A rescan makes a new session with a drive whose session is over.
Reattach ==
  /\ ~store.alive /\ store.verdict \in {None, "gone", "notready"}
  /\ store' = [store EXCEPT !.alive = TRUE, !.unsupported = FALSE, !.reasonLost = FALSE, !.listed = None, !.sense = "none"]

Next ==
  \/ Probe \/ FlushStream \/ CloseStream \/ Identify \/ Measure \/ Forget \/ Reattach
  \/ \E at \in Bytes : Read(at)
  \/ \E at \in Bytes, length \in Lengths, value \in Values : Write(at, length, value)

Spec == Init /\ [][Next]_store

----------------------------------------------------------------------------
(* Properties *)

ByteOf(content, byte) == content[BlockOf(byte)][byte % BlockBytes]

TypeOK ==
  /\ store.faults \in 0 .. Faults /\ store.busy \in 0 .. 1
  /\ store.cached \in {None} \cup {RunOf(b) : b \in Blocks}
  /\ store.sense \in {"none", "fault", "illegal", "unfilled", "protect", "empty", "notready"}

\* The cached run is what the drive holds, whatever was lost on the way: a
\* block that may or may not have been stored is read again.
CachedRunIsTheDrives ==
  store.cached /= None => \A b \in BlocksOfRun(store.cached) : store.copy[b] = store.view[b]

\* A byte the file system was told is written, or never wrote to, is what the
\* drive holds: a write rewrites whole blocks, and one that fails changes no
\* byte beside its own.
ToldIsStored == \A b \in Bytes : store.told[b] /= None => ByteOf(store.view, b) = store.told[b]

\* A flush reported done has everything on the medium, unless the drive said
\* it will not flush or its reason for failing was lost.
FlushedIsOnTheMedium ==
  store.verdict = "flushed" => store.unsaved = {} \/ store.flushing /= "works" \/ store.reasonLost

\* A medium is called write protected, or absent, only when it is.
DiagnosesAreTheDrives ==
  /\ store.verdict = "protected" => store.protected
  /\ store.verdict = "nomedium" => ~store.present
  /\ store.unsupported => store.flushing /= "works" \/ store.reasonLost

\* Nothing but a serial number is taken for the serial number.
SerialIsTheSerial == store.verdict /= "leftover"

\* A drive that flushes is not remembered as one that will not.
DeclinedOnlyByTheDrive == store.unsupported => store.flushing /= "works"
=============================================================================
