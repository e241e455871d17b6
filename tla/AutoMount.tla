----------------------------- MODULE AutoMount -----------------------------
(***************************************************************************)
(* The automount of src/src/app/automount.rs: it brings the mount table    *)
(* into line with the drives on USB, without arguing with the user.        *)
(*                                                                         *)
(* The bus is the one UsbNumbers promises, which UsbRegistry implements.   *)
(* The frame loop calls automount between two services of the bus, so a    *)
(* look is one step; a full-screen program services the bus and does not   *)
(* call automount, so looks may also be missed.  Time is counted in retry  *)
(* intervals, and a deadline as the number of them that is left; it is     *)
(* only read while its drive is pending.                                   *)
(***************************************************************************)
EXTENDS Integers

CONSTANTS
  Slots,       \* places on the bus
  IdLimit,     \* STORAGE_ID_LIMIT
  Partitions,  \* entries of a partition table
  Budget,      \* READY_BUDGET_MS, in intervals of RETRY_INTERVAL_MS
  MaxFound     \* bound: drives numbered

ASSUME AutoMountAssumption ==
  IdLimit \in Nat \ {0} /\ Budget \in Nat /\ MaxFound \in Nat

VARIABLES
  number, kept, nextNumber,  \* what the registry keeps, as in UsbNumbers
  enabled,    \* AutoMount.enabled
  moved,      \* AutoMount.seen_topology is not the registry's topology_epoch
  offered,    \* AutoMount.offered
  pending,    \* AutoMount.pending
  left,       \* AutoMount.deadline_ms, from now
  wait,       \* AutoMount.next_retry_ms lies ahead
  mounted,    \* the volumes of USB drives in Vfs.mounts
  severed,    \* those of them whose connection epoch has moved on since
  holds,      \* what the drive at each place has readable volumes on
  found,      \* drives numbered so far
  settled,    \* history: volumes that were answered for, or the user's doing
  dismissed,  \* history: volumes umounted by hand since their drive was plugged in
  firm        \* history: those whose drive was attached and done with ever since

Bus == INSTANCE UsbNumbers

Ids == Bus!Ids
NoId == Bus!NoId

numbering == <<number, kept, nextNumber>>
memory == <<enabled, offered, pending, left, wait>>
tree == <<mounted, severed>>
history == <<settled, dismissed, firm>>
vars == <<number, kept, nextNumber, enabled, offered, pending, left, wait, moved,
          mounted, severed, holds, found, settled, dismissed, firm>>

Volumes == Ids \X Partitions
OfDrive(ids) == ids \X Partitions

Attached == {number[l] : l \in {k \in Slots : number[k] # NoId}}

\* The readable volumes of the drive that answers to a number.
Readable(id) == {<<id, p>> : p \in UNION {holds[l] : l \in {k \in Slots : number[k] = id}}}

----------------------------------------------------------------------------
(* The bus and the clock.                                                  *)

\* A place that kept its number has kept its drive.
DriveFound(l) ==
  /\ Bus!Find(l)
  /\ IF kept[l] # NoId
     THEN UNCHANGED <<holds, found, history>>
     ELSE /\ found < MaxFound /\ found' = found + 1
          /\ \E volumes \in SUBSET Partitions : holds' = [holds EXCEPT ![l] = volumes]
          /\ settled' = settled \ OfDrive({number'[l]})
          /\ UNCHANGED <<dismissed, firm>>
  /\ moved' = TRUE
  /\ UNCHANGED <<memory, tree>>

DrivesLost ==
  /\ Attached # {}
  /\ Bus!LoseAll
  /\ moved' = TRUE
  /\ firm' = {}
  /\ UNCHANGED <<memory, tree, holds, found, settled, dismissed>>

\* The epoch of the port advances, and with it goes every mount made there.
DriveUnplugged(places) ==
  /\ Bus!Unplug(places)
  /\ severed' = severed \cup (mounted \cap OfDrive({kept[l] : l \in places}))
  /\ holds' = [l \in Slots |-> IF l \in places THEN {} ELSE holds[l]]
  /\ moved' = TRUE
  /\ dismissed' = dismissed \ OfDrive({kept[l] : l \in places})
  /\ firm' = firm \ OfDrive({kept[l] : l \in places})
  /\ UNCHANGED <<memory, mounted, found, settled>>

Tick ==
  /\ wait \/ \E id \in pending : left[id] > 0
  /\ wait' = FALSE
  /\ left' = [id \in Ids |-> IF left[id] > 0 THEN left[id] - 1 ELSE 0]
  /\ UNCHANGED <<numbering, moved, enabled, offered, pending, tree, holds, found, history>>

----------------------------------------------------------------------------
(* The user.                                                               *)

\* A command is dispatched after automount has had its turn of the frame.
AtPrompt == enabled => ~moved

MountByHand(id, p) ==
  /\ AtPrompt
  /\ <<id, p>> \in Readable(id) \ mounted
  /\ mounted' = mounted \cup {<<id, p>>}
  /\ dismissed' = dismissed \ {<<id, p>>} /\ firm' = firm \ {<<id, p>>}
  /\ UNCHANGED <<numbering, moved, memory, severed, holds, found, settled>>

UmountByHand(v) ==
  /\ AtPrompt
  /\ v \in mounted
  /\ mounted' = mounted \ {v} /\ severed' = severed \ {v}
  /\ settled' = settled \cup {v}
  /\ dismissed' = dismissed \cup ({v} \cap OfDrive(Attached))
  /\ firm' = firm \cup ({v} \cap OfDrive((Attached \cap offered) \ pending))
  /\ UNCHANGED <<numbering, moved, memory, holds, found>>

\* Mutant: automount starts over from the bus as it is when it is turned on.
MutantSetEnabled(on) ==
  /\ AtPrompt
  /\ enabled' = on
  /\ moved' = (moved /\ ~on)
  /\ UNCHANGED <<numbering, offered, pending, left, wait, tree, holds, found, history>>

\* set_enabled
SetEnabled(on) ==
  /\ AtPrompt
  /\ enabled' = on
  /\ moved' = (moved \/ on)
  /\ UNCHANGED <<numbering, offered, pending, left, wait, tree, holds, found, history>>

----------------------------------------------------------------------------
(* service_with_report and reconcile.                                      *)

Due == moved \/ (pending # {} /\ ~wait)

\* Mutant: whatever is attached is looked at again.
MutantFresh == Attached

\* Drives that were not attached when automount looked last.
Fresh == Attached \ offered

\* Mutant: a drive that has gone keeps its budget.
MutantAsked == pending \cup Fresh

\* Drives this look asks: the new ones, and those that have not answered yet.
Asked == (pending \cap Attached) \cup Fresh

\* Mutant: only a drive that does not open is worth asking again.
MutantRetry(silent, late) == silent

\* worth_retrying: a drive that will not open, or an entry that did not answer.
Retry(silent, late) == silent \cup {v[1] : v \in late}

\* Mutant: every drive that has not answered is given more time.
MutantDeadlines(asked) == [id \in Ids |-> IF id \in asked THEN Budget ELSE 0]

\* What is left of the time each of these drives is given to become readable.
Deadlines(asked) ==
  [id \in Ids |-> IF id \in Fresh THEN Budget ELSE IF id \in asked THEN left[id] ELSE 0]

Entries(silent, unreadable) == OfDrive(Asked \ (silent \cup unreadable)) \ (mounted \ severed)
ReadableEntries(silent, unreadable) ==
  Entries(silent, unreadable) \cap UNION {Readable(id) : id \in Asked}

\* What becomes of the drives that were asked.  `silent` ones will not open;
\* `unreadable` ones open and have no partition table that can be used; of the
\* others, the entries `late` do not answer, and the readable volumes `refused`
\* answer that they cannot be mounted.  A drive whose time is up is given up on.
Reconcile(silent, unreadable, late, refused) ==
  LET retry == Retry(silent, late)
      givenUp == {id \in retry : Deadlines(Asked)[id] = 0}
      opened == ReadableEntries(silent, unreadable) \ (late \cup refused)
  IN /\ pending' = retry \ givenUp
     /\ left' = [id \in Ids |-> IF id \in retry THEN Deadlines(Asked)[id] ELSE 0]
     /\ mounted' = (mounted \ severed) \cup opened
     /\ settled' = settled \cup refused \cup OfDrive(unreadable \cup givenUp)

\* Removals first; then every drive that is new or has not answered yet.
Look ==
  /\ enabled /\ Due
  /\ moved' = FALSE /\ wait' = TRUE
  /\ offered' = Attached
  /\ severed' = {}
  /\ \E silent \in SUBSET Asked : \E unreadable \in SUBSET (Asked \ silent) :
     \E late \in SUBSET Entries(silent, unreadable) :
     \E refused \in SUBSET (ReadableEntries(silent, unreadable) \ late) :
       Reconcile(silent, unreadable, late, refused)
  /\ UNCHANGED <<numbering, enabled, holds, found, dismissed, firm>>

Init ==
  /\ Bus!Init
  /\ enabled = TRUE /\ moved = TRUE /\ wait = FALSE
  /\ offered = {} /\ pending = {} /\ left = [id \in Ids |-> 0]
  /\ mounted = {} /\ severed = {}
  /\ holds = [l \in Slots |-> {}] /\ found = 0
  /\ settled = {} /\ dismissed = {} /\ firm = {}

BusStep ==
  \/ \E l \in Slots : DriveFound(l)
  \/ \E places \in (SUBSET Slots) \ {{}} : DriveUnplugged(places)
  \/ DrivesLost

UserStep ==
  \/ \E id \in Ids, p \in Partitions : MountByHand(id, p)
  \/ \E v \in Volumes : UmountByHand(v)
  \/ \E on \in BOOLEAN : SetEnabled(on)

Next == BusStep \/ UserStep \/ Look \/ Tick

\* The frame loop calls automount on every frame, and time passes.
Spec == Init /\ [][Next]_vars /\ WF_vars(Look) /\ WF_vars(Tick)

----------------------------------------------------------------------------
(* Properties.                                                             *)

\* Types of the registry's numbers, automount's memory and the tree; what is
\* pending has been offered, and what is severed is mounted.
TypeOK ==
  /\ number \in [Slots -> Ids \cup {NoId}] /\ kept \in [Slots -> Ids \cup {NoId}]
  /\ nextNumber \in Ids
  /\ enabled \in BOOLEAN /\ moved \in BOOLEAN /\ wait \in BOOLEAN
  /\ offered \subseteq Ids /\ pending \subseteq offered /\ left \in [Ids -> 0..Budget]
  /\ mounted \subseteq Volumes /\ severed \subseteq mounted
  /\ holds \in [Slots -> SUBSET Partitions] /\ found \in 0..MaxFound
  /\ settled \subseteq Volumes /\ firm \subseteq dismissed /\ dismissed \subseteq Volumes

\* Whatever happened while automount was off or the bus was busy, a frame that
\* finds nothing to do leaves no mount of a drive that was unplugged in the
\* tree, and no drive that automount has not been offered (automount.rs,
\* set_enabled and service_with_report).
NothingLeftBehind ==
  enabled /\ ~moved => severed = {} /\ offered = Attached

\* While numbers are not reused, every readable volume of an attached drive is
\* in the tree, or still being asked for, or was answered for, or is out of
\* the tree by the user's own hand (automount.rs, worth_retrying).
EveryVolumeAccountedFor ==
  enabled /\ ~moved =>
    \A id \in Attached \ pending : Readable(id) \subseteq mounted \cup settled

\* What the user umounts stays out of the tree as long as the drive is attached
\* and had been examined by then, although rescans, recoveries and toggles of
\* automount happen meanwhile (automount.rs, AutoMount.offered).
UmountStandsOnceExamined == firm \cap mounted = {}

\* The document's claim: what the user umounts is not mounted again until the
\* drive is unplugged (FILESYSTEM.md).
UmountStandsUntilUnplugged == dismissed \cap mounted = {}

\* A drive is not asked for ever: it is given up on, answers, or goes, however
\* often others come and go (automount.rs, READY_BUDGET_MS).
BudgetRunsOut ==
  \A id \in Ids : id \in pending ~> (id \notin pending \/ ~enabled)
=============================================================================
