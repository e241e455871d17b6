-------------------------------- MODULE Vfs --------------------------------
(***************************************************************************)
(* The virtual file system of src/src/fs/vfs.rs: the mount table, the      *)
(* open-file table and the identity checks that keep a mount, a handle and *)
(* a write on the medium they were made for.                               *)
(*                                                                         *)
(* One frame loop calls the VFS, so an operation is one step.  What moves  *)
(* between two operations, and what an operation finds when it reaches for *)
(* the medium, belongs to the bus: devices stop answering, are lost by a   *)
(* rescan and found again, are unplugged (a connection epoch moves), and a *)
(* card reader's medium is exchanged with nothing on the bus noticing.     *)
(*                                                                         *)
(* A volume is a device and an MBR entry.  Its mount point follows from    *)
(* its name (files.rs, attach), so the mount table is indexed by volume.   *)
(***************************************************************************)
EXTENDS Integers, FiniteSets, Sequences, SequencesExt

CONSTANTS
  Volumes,        \* the volumes that can be named: ram, sd0p1, usb0p1, ...
  RamVolume,      \* the RAM disk, mounted on / from boot on
  Devices,        \* DeviceId: the RAM disk, the SD slot and the usbM numbers
  Ram,            \* the device of RamVolume
  UsbIds,         \* the devices on USB
  DeviceOf,       \* the device of a volume
  Partitions,     \* MBR primary entry numbers
  PartitionOf,    \* the MBR entry of a volume
  Media,          \* the media there are
  RamMedium,      \* the memory behind the RAM disk
  NoMedium,       \* nothing that answers
  BlockCount,     \* the capacity of a medium
  FormatOf,       \* what its boot sectors say: "FAT", "exFAT" or "none"
  Sources,        \* what can answer for a medium's identity beyond capacity
  Ports,          \* the locations on the bus
  NoPort,         \* not enumerated
  Tmp, Vol,       \* the two names reserved on the RAM root
  FoldOf,         \* the name a name is equal to without regard to case
  Paths,          \* the absolute paths callers pass, sequences of names
  Tree,           \* the folded paths a volume can hold
  Tree0,          \* what each volume holds before the first operation
  MaxMounts,      \* MAX_MOUNTS
  MaxOpenFiles,   \* MAX_OPEN_FILES
  MaxSize,        \* bytes a file can grow to before the volume is full
  MaxGeneration,  \* bound: no mount is made past this generation
  MaxEpoch        \* bound: disconnects observed at one port

Handles == 1..MaxOpenFiles
Modes == {"Read", "Truncate", "Append"}
Entry == [kind : {"none", "file", "dir"}, size : 0..MaxSize]
Contents == [Tree -> Entry]
NoMount == [generation |-> 0]
NoFile == [generation |-> 0, volume |-> RamVolume]
Fingerprint == [blocks : Nat, sources : SUBSET Sources,
                digest : Media \cup {NoMedium}]

Mount == [generation : Nat \ {0}, mode : {"ReadOnly", "ReadWrite"},
          format : {"FAT", "exFAT"}, print : Fingerprint,
          location : Ports \cup {NoPort}, epoch : Nat]
OpenFile == [volume : Volumes, generation : Nat \ {0}, path : Tree,
             mode : Modes, offset : Nat, size : Nat,
             written : BOOLEAN]

ASSUME VolumesAssumption ==
  /\ IsFiniteSet(Volumes) /\ RamVolume \in Volumes /\ Ram \in Devices /\ UsbIds \subseteq Devices \ {Ram}
  /\ DeviceOf \in [Volumes -> Devices] /\ PartitionOf \in [Volumes -> Partitions]
  /\ \A v \in Volumes : DeviceOf[v] = Ram <=> v = RamVolume
ASSUME MediaAssumption ==
  /\ RamMedium \in Media /\ NoMedium \notin Media /\ NoPort \notin Ports
  /\ BlockCount \in [Media -> Nat]
  /\ FormatOf \in [Media -> {"FAT", "exFAT", "none"}] /\ FormatOf[RamMedium] = "FAT"
ASSUME TreeAssumption ==
  /\ <<>> \notin Tree /\ Tree0 \in [Media -> [Partitions -> Contents]]
  /\ Paths \subseteq Seq(DOMAIN FoldOf) /\ Tree \subseteq Seq(DOMAIN FoldOf)
ASSUME BoundsAssumption ==
  /\ MaxMounts \in Nat /\ MaxOpenFiles \in Nat /\ MaxSize \in Nat
  /\ MaxGeneration \in Nat /\ MaxEpoch \in Nat

VARIABLES
  mounts,          \* Vfs.mounts, by volume
  files,           \* Vfs.files, by handle
  nextGeneration,  \* Vfs.next_generation
  location,        \* UsbHost: where each usbM number is on the bus
  epoch,           \* UsbHost: the connection epoch of each port
  inside,          \* the medium that answers behind each device
  disk,            \* what each medium holds, by MBR entry
  opened,          \* history: medium and epoch each handle was opened on
  mediumFailed     \* history: the volume the last step's medium failed under

vfs == <<mounts, files, nextGeneration>>
bus == <<location, epoch, inside>>
vars == <<mounts, files, nextGeneration, location, epoch, inside, disk,
          opened, mediumFailed>>

----------------------------------------------------------------------------
(* Paths.                                                                  *)

\* The mount point `attach` gives a volume: / for the RAM disk, /vol/<name>.
PointOf(v) == IF v = RamVolume THEN <<>> ELSE <<Vol, v>>

Fold(path) == [i \in DOMAIN path |-> FoldOf[path[i]]]

\* The mount covering a path: the longest mount point that is a prefix.
Covers(v, path) ==
  /\ mounts[v] # NoMount
  /\ IsPrefix(PointOf(v), path)
  /\ \A w \in Volumes :
       mounts[w] # NoMount /\ IsPrefix(PointOf(w), path)
         => Len(PointOf(w)) <= Len(PointOf(v))

Within(v, path) == Fold(SubSeq(path, Len(PointOf(v)) + 1, Len(path)))

\* The namespace entries kept on the RAM root: /tmp itself, /vol and below.
ReservedMutation(v, path) ==
  /\ v = RamVolume
  /\ path # <<>>
  /\ \/ FoldOf[path[1]] = Tmp /\ Len(path) = 1
     \/ FoldOf[path[1]] = Vol

----------------------------------------------------------------------------
(* Reaching a medium.                                                      *)

Answers(d) ==
  /\ inside[d] # NoMedium
  /\ d \in UsbIds => location[d] # NoPort

\* What Devices::fingerprint establishes when the sources s answered.
Identity(d, s) ==
  [blocks |-> BlockCount[inside[d]], sources |-> s,
   digest |-> IF s = {} THEN NoMedium ELSE inside[d]]

\* connection_epoch_at: a mount that is not on USB never sees a disconnect.
EpochAt(l) == IF l = NoPort THEN 0 ELSE epoch[l]
LocationOf(d) == IF d \in UsbIds THEN location[d] ELSE NoPort

\* Mutant: where the device is, without how it came to be there.
MutantStayed(v, m) == DeviceOf[v] \in UsbIds => location[DeviceOf[v]] = m.location

\* The device has been neither unplugged nor moved since mount m was made.
Stayed(v, m) == DeviceOf[v] \in UsbIds =>
  EpochAt(m.location) = m.epoch /\ location[DeviceOf[v]] = m.location

\* with_partition and with_volume: what every operation checks first.
Reaches(v, m) ==
  /\ Stayed(v, m)
  /\ Answers(DeviceOf[v])
  /\ BlockCount[inside[DeviceOf[v]]] = m.print.blocks
  /\ FormatOf[inside[DeviceOf[v]]] = m.format

ContentOf(v) == disk[inside[DeviceOf[v]]][PartitionOf[v]]

\* Mutant: any mount of the volume will do.
MutantLive(h) == files[h] # NoFile /\ mounts[files[h].volume] # NoMount

\* The mount a handle was opened through is still there, same generation.
Live(h) ==
  /\ files[h] # NoFile
  /\ mounts[files[h].volume] # NoMount
  /\ mounts[files[h].volume].generation = files[h].generation

IsOpen(v, path) == \E h \in Handles :
  files[h] # NoFile /\ Live(h) /\ files[h].volume = v /\ files[h].path = path

----------------------------------------------------------------------------
(* The mount table.                                                        *)

TableRoom == Cardinality({v \in Volumes : mounts[v] # NoMount}) < MaxMounts

MountMode(request, format) ==
  IF request = "Default" /\ format = "FAT" THEN "ReadWrite" ELSE "ReadOnly"

NewMount(v, request, s) ==
  LET d == DeviceOf[v] IN
  [generation |-> nextGeneration,
   mode |-> MountMode(request, FormatOf[inside[d]]),
   format |-> FormatOf[inside[d]],
   print |-> Identity(d, s),
   location |-> LocationOf(d),
   epoch |-> EpochAt(LocationOf(d))]

MountVolume(v, request, s) ==
  /\ mounts[v] = NoMount /\ TableRoom
  /\ nextGeneration <= MaxGeneration
  /\ Answers(DeviceOf[v])
  /\ FormatOf[inside[DeviceOf[v]]] # "none"
  /\ mounts' = [mounts EXCEPT ![v] = NewMount(v, request, s)]
  /\ nextGeneration' = nextGeneration + 1
  /\ mediumFailed' = RamVolume
  /\ UNCHANGED <<files, bus, disk, opened>>

\* drop_mount, and the same two lines in verify and prune_disconnected: the
\* generation moves on as well as the slot being cleared.
DropAll(gone) ==
  /\ mounts' = [v \in Volumes |-> IF v \in gone THEN NoMount ELSE mounts[v]]
  /\ nextGeneration' = nextGeneration + Cardinality(gone)

\* What re-checking one mount concludes, when its device answers with the
\* sources s or (answered FALSE) not at all.
Verdict(v, answered, s) ==
  LET m == mounts[v]
      current == Identity(DeviceOf[v], s)
  IN CASE ~Stayed(v, m) -> "Disconnected"
       [] Stayed(v, m) /\ ~answered -> "DeviceAbsent"
       [] Stayed(v, m) /\ answered /\ current = m.print -> "Unchanged"
       [] Stayed(v, m) /\ answered /\ current # m.print /\ s = {}
            /\ current.blocks = m.print.blocks -> "Undetermined"
       [] OTHER -> "Changed"

\* `fsverify`: one pass over the whole table.  The RAM disk's sources always
\* answer; each other device may answer with any of its sources or not at all.
Verify(silent, s) ==
  LET mounted == {v \in Volumes : mounts[v] # NoMount}
      answered(v) == Answers(DeviceOf[v]) /\ v \notin silent
      gone == {v \in mounted \ {RamVolume} :
                 Verdict(v, answered(v), s[v]) \in {"Changed", "Disconnected"}}
  IN /\ DropAll(gone)
     /\ mediumFailed' = RamVolume
     /\ UNCHANGED <<files, bus, disk, opened>>

Removed(v) ==
  /\ mounts[v] # NoMount
  /\ DeviceOf[v] \in UsbIds
  /\ EpochAt(mounts[v].location) # mounts[v].epoch

PruneDisconnected ==
  /\ DropAll({v \in Volumes : Removed(v)})
  /\ mediumFailed' = RamVolume
  /\ UNCHANGED <<files, bus, disk, opened>>

\* Mutant: open files do not keep a volume busy.
MutantUmount(v) ==
  /\ v # RamVolume
  /\ mounts[v] # NoMount
  /\ mounts' = [mounts EXCEPT ![v] = NoMount]
  /\ mediumFailed' = RamVolume
  /\ UNCHANGED <<files, nextGeneration, bus, disk, opened>>

Umount(v) ==
  /\ v # RamVolume
  /\ mounts[v] # NoMount
  /\ ~ \E h \in Handles : Live(h) /\ files[h].volume = v
  /\ mounts' = [mounts EXCEPT ![v] = NoMount]
  /\ mediumFailed' = RamVolume
  /\ UNCHANGED <<files, nextGeneration, bus, disk, opened>>

----------------------------------------------------------------------------
(* Writing: the three things write_volume puts around every write.         *)

\* Mutant: a capacity is identity enough.
MutantConfirmMedium(v) ==
  v = RamVolume \/ (Answers(DeviceOf[v]) /\ BlockCount[inside[DeviceOf[v]]] = mounts[v].print.blocks)

\* confirm_medium: the whole fingerprint agrees and rests on more than a
\* capacity.  The RAM disk is exempt.
ConfirmMedium(v) ==
  \/ v = RamVolume
  \/ /\ Answers(DeviceOf[v])
     /\ \E s \in (SUBSET Sources) \ {{}} :
          Identity(DeviceOf[v], s) = mounts[v].print

Writable(v) == mounts[v].mode = "ReadWrite" /\ mounts[v].format = "FAT"

Put(v, content) ==
  disk' = [disk EXCEPT ![inside[DeviceOf[v]]][PartitionOf[v]] = content]

\* The medium does not answer, or does not agree: nothing is written and the
\* mount goes.  A removable device may fail to answer at any time.
WriteRefused(v) ==
  /\ v # RamVolume
  /\ DropAll({v})
  /\ mediumFailed' = RamVolume
  /\ UNCHANGED <<files, disk>>

\* The medium is the one the mount was made against, and can be reached.
WriteGranted(v) == ConfirmMedium(v) /\ Reaches(v, mounts[v])

\* The volume answered, with success or with a refusal of its own (full, name
\* taken): the mount stays, and `content` is what it now holds.
WriteAnswered(v, content) ==
  /\ WriteGranted(v)
  /\ Put(v, content)
  /\ mediumFailed' = RamVolume
  /\ UNCHANGED <<mounts, nextGeneration>>

\* A transfer failed where the error still says so (FsError::Block): some of
\* the change may be on the medium, and settle_after_write drops the mount.
MediumFailed(v, leftovers) ==
  /\ v # RamVolume
  /\ WriteGranted(v)
  /\ \E content \in leftovers : Put(v, content)
  /\ DropAll({v})
  /\ mediumFailed' = v
  /\ UNCHANGED files

\* A transfer failed where the error is flattened on the way up: the volume
\* could not be opened, `lookup` could not read a directory, or FileWriter
\* could not be placed.  settle_after_write sees no medium in it.
MediumFailedUnseen(v, leftovers) ==
  /\ v # RamVolume
  /\ WriteGranted(v)
  /\ \E content \in leftovers : Put(v, content)
  /\ mediumFailed' = v
  /\ UNCHANGED <<mounts, nextGeneration, files>>

\* write_volume around a change of the tree that is committed in one piece.
WriteVolume(v, possible, after) ==
  \/ WriteRefused(v)
  \/ MediumFailedUnseen(v, {ContentOf(v)})
  \/ /\ WriteGranted(v) /\ possible
     /\ \/ WriteAnswered(v, after) /\ UNCHANGED files
        \/ MediumFailed(v, {ContentOf(v), after})

----------------------------------------------------------------------------
(* The tree on a volume, as the FAT library keeps it.                      *)

Missing == [kind |-> "none", size |-> 0]
Directory == [kind |-> "dir", size |-> 0]
File(n) == [kind |-> "file", size |-> n]

IsDir(content, path) == path = <<>> \/ (path \in Tree /\ content[path].kind = "dir")
IsFile(content, path) == path \in Tree /\ content[path].kind = "file"
Absent(content, path) == path \in Tree /\ content[path] = Missing

\* create, create_directory: only the last component is made.
Creatable(content, path) == Absent(content, path) /\ IsDir(content, Front(path))

With(content, path, entry) == [content EXCEPT ![path] = entry]

Under(path) == {p \in Tree : IsPrefix(path, p)}

Removable(content, path, kind) ==
  /\ path \in Tree /\ content[path].kind = kind
  /\ \A p \in Under(path) \ {path} : content[p] = Missing

\* The entry, and with a directory everything below it, under its new name.
MovedTo(from, to, p) == to \o SubSeq(p, Len(from) + 1, Len(p))
Renamable(content, from, to) ==
  /\ from \in Tree /\ content[from] # Missing
  /\ Creatable(content, to) /\ ~IsPrefix(from, to)
  /\ \A p \in Under(from) : content[p] # Missing => MovedTo(from, to, p) \in Tree
Renamed(content, from, to) == [p \in Tree |->
  IF p \in Under(from) THEN Missing
  ELSE IF p \in Under(to) /\ MovedTo(to, from, p) \in Tree THEN content[MovedTo(to, from, p)]
  ELSE content[p]]

----------------------------------------------------------------------------
(* Operations on paths.                                                    *)

CreateDir(v, path) ==
  LET at == Within(v, path) IN
  /\ Covers(v, path) /\ Writable(v) /\ ~ReservedMutation(v, path) /\ at # <<>>
  /\ WriteVolume(v, Creatable(ContentOf(v), at),
                 With(ContentOf(v), at, Directory))
  /\ UNCHANGED <<bus, opened>>

RemoveEntry(v, path, kind) ==
  LET at == Within(v, path) IN
  /\ Covers(v, path) /\ Writable(v) /\ ~ReservedMutation(v, path)
  /\ at # <<>> /\ ~IsOpen(v, at)
  /\ WriteVolume(v, Removable(ContentOf(v), at, kind),
                 With(ContentOf(v), at, Missing))
  /\ UNCHANGED <<bus, opened>>

Rename(v, path, target) ==
  LET from == Within(v, path)
      to == Within(v, target)
  IN
  /\ Covers(v, path) /\ Covers(v, target)
  /\ ~ReservedMutation(v, path) /\ ~ReservedMutation(v, target)
  /\ Writable(v) /\ from # <<>> /\ to # <<>>
  /\ ~IsOpen(v, from)
  /\ WriteVolume(v, Renamable(ContentOf(v), from, to),
                 Renamed(ContentOf(v), from, to))
  /\ UNCHANGED <<bus, opened>>

\* What a file can hold after at most n bytes have gone on the end of it, or
\* into it from the start: each prefix the volume has room for.
Extended(content, path, fromStart, n) ==
  LET start == IF ~fromStart /\ IsFile(content, path) THEN content[path].size ELSE 0
  IN {With(content, path, File(start + k)) : k \in {j \in 0..n : start + j <= MaxSize}}

\* write_stream: created if it is not there, emptied unless appending, then
\* up to n bytes.  What arrived is committed even when the sink stopped, and
\* then what stopped it travels in StreamWrite::interrupted of an Ok.
WriteStream(v, path, mode, n) ==
  LET at == Within(v, path)
      stages == Extended(ContentOf(v), at, mode = "Truncate", n)
  IN
  /\ mode # "Read"
  /\ Covers(v, path) /\ Writable(v) /\ ~ReservedMutation(v, path)
  /\ \/ WriteRefused(v)
     \/ MediumFailedUnseen(v, {ContentOf(v)})
     \/ /\ WriteGranted(v)
        /\ IsFile(ContentOf(v), at) \/ Creatable(ContentOf(v), at)
        /\ \/ \E content \in stages : WriteAnswered(v, content) /\ UNCHANGED files
           \/ MediumFailed(v, {ContentOf(v)} \cup stages)
           \/ MediumFailedUnseen(v, stages)
  /\ UNCHANGED <<bus, opened>>

----------------------------------------------------------------------------
(* Open files.                                                             *)

FreeHandle(h) ==
  files[h] = NoFile /\ \A k \in Handles : k < h => files[k] # NoFile

\* Mutant: appending starts at the last byte.
MutantNewFile(v, at, mode, size) ==
  [volume |-> v, generation |-> mounts[v].generation, path |-> at,
   mode |-> mode, offset |-> IF mode = "Append" THEN size - 1 ELSE 0,
   size |-> size, written |-> FALSE]

NewFile(v, at, mode, size) ==
  [volume |-> v, generation |-> mounts[v].generation, path |-> at,
   mode |-> mode, offset |-> IF mode = "Append" THEN size ELSE 0,
   size |-> size, written |-> FALSE]

OpenWith(h, v, at, mode, size) ==
  /\ files' = [files EXCEPT ![h] = NewFile(v, at, mode, size)]
  /\ opened' = [opened EXCEPT ![h] =
       [medium |-> inside[DeviceOf[v]], epoch |-> EpochAt(mounts[v].location)]]

\* open: the look is read-only; creating the file is the one write it makes.
Open(h, v, path, mode) ==
  LET at == Within(v, path) IN
  /\ FreeHandle(h) /\ Covers(v, path)
  /\ mode # "Read" => Writable(v) /\ ~ReservedMutation(v, path)
  /\ Reaches(v, mounts[v])
  /\ \/ /\ IsFile(ContentOf(v), at)
        /\ OpenWith(h, v, at, mode, ContentOf(v)[at].size)
        /\ mediumFailed' = RamVolume
        /\ UNCHANGED <<mounts, nextGeneration, disk>>
     \/ /\ mode # "Read" /\ Creatable(ContentOf(v), at)
        /\ WriteAnswered(v, With(ContentOf(v), at, File(0)))
        /\ OpenWith(h, v, at, mode, 0)
     \/ /\ mode # "Read" /\ Absent(ContentOf(v), at)
        /\ WriteVolume(v, FALSE, ContentOf(v))
        /\ UNCHANGED opened
     \/ /\ mode # "Read" /\ Creatable(ContentOf(v), at)
        /\ MediumFailed(v, {ContentOf(v), With(ContentOf(v), at, File(0))})
        /\ UNCHANGED opened
  /\ UNCHANGED bus

Close(h) ==
  /\ files[h] # NoFile
  /\ files' = [files EXCEPT ![h] = NoFile]
  /\ opened' = [opened EXCEPT ![h] = [medium |-> NoMedium, epoch |-> 0]]
  /\ mediumFailed' = RamVolume
  /\ UNCHANGED <<mounts, nextGeneration, bus, disk>>

Seek(h, offset) ==
  /\ files[h] # NoFile
  /\ files' = [files EXCEPT ![h].offset = offset]
  /\ mediumFailed' = RamVolume
  /\ UNCHANGED <<mounts, nextGeneration, bus, disk, opened>>

\* A read that is served moves the position by what it got; one that fails
\* leaves it.  Nothing else changes either way.
Read(h, n) ==
  LET f == files[h]
      held == ContentOf(f.volume)[f.path].size
  IN
  /\ Live(h) /\ f.offset < f.size
  /\ Reaches(f.volume, mounts[f.volume])
  /\ IsFile(ContentOf(f.volume), f.path)
  /\ files' = [files EXCEPT ![h].offset =
                 IF f.offset < held THEN Min({f.offset + n, held}) ELSE f.offset]
  /\ mediumFailed' = RamVolume
  /\ UNCHANGED <<mounts, nextGeneration, bus, disk, opened>>

\* The first write of a truncating open starts the file over; every other
\* write goes on the end.
FromStart(f) == f.mode = "Truncate" /\ ~f.written

Written(f, n) ==
  LET end == IF FromStart(f) THEN n ELSE f.size + n
  IN [f EXCEPT !.size = end, !.offset = end, !.written = TRUE]

\* The library takes what there is room for and says so; at the end of the
\* volume it takes nothing and refuses, and a file being replaced stays empty.
Write(h, n) ==
  LET f == files[h]
      v == f.volume
      before == ContentOf(v)
      start == IF FromStart(f) THEN 0 ELSE before[f.path].size
      stages == Extended(before, f.path, FromStart(f), n)
  IN
  /\ Live(h) /\ f.mode # "Read" /\ Writable(v)
  /\ FromStart(f) \/ (f.offset = f.size /\ n > 0)
  /\ f.size <= MaxSize    \* bound: a stale size would grow for ever
  /\ \/ WriteRefused(v)
     \/ MediumFailedUnseen(v, {ContentOf(v)})
     \/ /\ WriteGranted(v) /\ IsFile(before, f.path)
        /\ \/ \E k \in 0..n :
                /\ start + k <= MaxSize
                /\ WriteAnswered(v, With(before, f.path, File(start + k)))
                /\ files' = [files EXCEPT ![h] = Written(f, k)]
           \/ /\ FromStart(f) /\ n > MaxSize
              /\ WriteAnswered(v, With(before, f.path, File(0)))
              /\ UNCHANGED files
           \/ MediumFailed(v, {before} \cup stages)
           \/ MediumFailedUnseen(v, {before, With(before, f.path, File(start))})
  /\ UNCHANGED <<bus, opened>>

----------------------------------------------------------------------------
(* The bus and the card slot, as the VFS sees them.                        *)

InUse(m) == \E d \in Devices : inside[d] = m

\* A rescan binds a drive at a port: one that was plugged in, or one that an
\* earlier rescan had lost.
Enumerated(d, l, m) ==
  /\ d \in UsbIds /\ location[d] = NoPort
  /\ \A other \in UsbIds : location[other] # l
  /\ ~InUse(m)
  /\ location' = [location EXCEPT ![d] = l]
  /\ inside' = [inside EXCEPT ![d] = m]
  /\ mediumFailed' = RamVolume
  /\ UNCHANGED <<epoch, vfs, disk, opened>>

\* A rescan the drive did not answer: its slot is empty, nothing says that it
\* was unplugged.
Lost(d) ==
  /\ location[d] # NoPort
  /\ location' = [location EXCEPT ![d] = NoPort]
  /\ inside' = [inside EXCEPT ![d] = NoMedium]
  /\ mediumFailed' = RamVolume
  /\ UNCHANGED <<epoch, vfs, disk, opened>>

\* The registry observes a physical disconnect at a port.
Disconnected(l) ==
  /\ epoch[l] < MaxEpoch
  /\ epoch' = [epoch EXCEPT ![l] = @ + 1]
  /\ location' = [d \in UsbIds |-> IF location[d] = l THEN NoPort ELSE location[d]]
  /\ inside' = [d \in Devices |->
       IF d \in UsbIds /\ location[d] = l THEN NoMedium ELSE inside[d]]
  /\ mediumFailed' = RamVolume
  /\ UNCHANGED <<vfs, disk, opened>>

\* What answers behind a device changes with no event on the bus: a session
\* stops working or recovers, a card reader's or the slot's medium is
\* exchanged.
MediumMoves(d, m) ==
  /\ d # Ram /\ (d \in UsbIds => location[d] # NoPort)
  /\ m # inside[d] /\ (m # NoMedium => ~InUse(m))
  /\ inside' = [inside EXCEPT ![d] = m]
  /\ mediumFailed' = RamVolume
  /\ UNCHANGED <<location, epoch, vfs, disk, opened>>

----------------------------------------------------------------------------
(* The system after boot: the RAM disk is on /, with /tmp and /vol made.   *)

RootMount ==
  [generation |-> 1, mode |-> "ReadWrite", format |-> "FAT",
   print |-> [blocks |-> BlockCount[RamMedium], sources |-> Sources,
              digest |-> RamMedium],
   location |-> NoPort, epoch |-> 0]

Init ==
  /\ mounts = [v \in Volumes |-> IF v = RamVolume THEN RootMount ELSE NoMount]
  /\ files = [h \in Handles |-> NoFile]
  /\ nextGeneration = 2
  /\ location = [d \in UsbIds |-> NoPort]
  /\ epoch = [l \in Ports |-> 0]
  /\ inside = [d \in Devices |-> IF d = Ram THEN RamMedium ELSE NoMedium]
  /\ disk = Tree0
  /\ opened = [h \in Handles |-> [medium |-> NoMedium, epoch |-> 0]]
  /\ mediumFailed = RamVolume

TableStep ==
  \/ \E v \in Volumes : \E request \in {"Default", "ReadOnly"} :
       \E s \in SUBSET Sources : MountVolume(v, request, s)
  \/ \E silent \in SUBSET Volumes : \E s \in [Volumes -> SUBSET Sources] : Verify(silent, s)
  \/ PruneDisconnected
  \/ \E v \in Volumes : Umount(v)

PathStep ==
  \E v \in Volumes, path \in Paths :
    \/ CreateDir(v, path)
    \/ \E kind \in {"file", "dir"} : RemoveEntry(v, path, kind)
    \/ \E target \in Paths : Rename(v, path, target)
    \/ \E mode \in Modes, n \in 0..MaxSize : WriteStream(v, path, mode, n)
    \/ \E h \in Handles, mode \in Modes : Open(h, v, path, mode)

HandleStep ==
  \E h \in Handles :
    \/ Close(h)
    \/ \E n \in 0..MaxSize : Seek(h, n) \/ Write(h, n)
    \/ \E n \in 1..MaxSize : Read(h, n)

BusStep ==
  \/ \E d \in UsbIds, l \in Ports, m \in Media : Enumerated(d, l, m)
  \/ \E d \in UsbIds : Lost(d)
  \/ \E l \in Ports : Disconnected(l)
  \/ \E d \in Devices, m \in Media \cup {NoMedium} : MediumMoves(d, m)

Next == TableStep \/ PathStep \/ HandleStep \/ BusStep

Spec == Init /\ [][Next]_vars

----------------------------------------------------------------------------
(* Properties.                                                             *)

\* Types of the two tables, the generation counter and the bus.
TypeOK ==
  /\ mounts \in [Volumes -> Mount \cup {NoMount}]
  /\ files \in [Handles -> OpenFile \cup {NoFile}]
  /\ nextGeneration \in Nat \ {0}
  /\ location \in [UsbIds -> Ports \cup {NoPort}]
  /\ epoch \in [Ports -> Nat]
  /\ inside \in [Devices -> Media \cup {NoMedium}]
  /\ disk \in [Media -> [Partitions -> Contents]]
  /\ opened \in [Handles -> [medium : Media \cup {NoMedium}, epoch : Nat]]
  /\ mediumFailed \in Volumes

\* No two mounts in the table carry the same generation, and no handle names
\* a generation that has not been given out: the counter is what keeps a
\* handle of one mount from ever matching another (vfs.rs, VolumeId).
GenerationsDistinct ==
  /\ \A v, w \in Volumes :
       /\ mounts[v] # NoMount => mounts[v].generation < nextGeneration
       /\ mounts[v] # NoMount /\ mounts[w] # NoMount /\ v # w
            => mounts[v].generation # mounts[w].generation
  /\ \A h \in Handles : files[h] # NoFile => files[h].generation < nextGeneration

\* Once a handle is stale nothing brings it back: not mounting the same drive
\* again, at the same name, with the same identity (vfs.rs, OpenFileInfo.live).
StaleStaysStale ==
  [][\A h \in Handles :
       files[h] # NoFile /\ ~Live(h) /\ files'[h] # NoFile => ~Live(h)']_vars

\* A handle loses its volume only where the generation moves on, that is to a
\* medium that changed, went away or failed.  `umount` never strands one.
UmountStrandsNoHandle ==
  [][\A h \in Handles :
       Live(h) /\ files'[h] = files[h] /\ ~Live(h)' => nextGeneration' > nextGeneration]_vars

\* A volume's content only changes through a read-write FAT mount made of that
\* very medium, at the port it is still connected to since: a write never
\* reaches a medium that was exchanged, moved or reconnected behind a mount.
WritesReachTheMountedMedium ==
  [][\A m \in Media, p \in Partitions :
       disk'[m][p] # disk[m][p] =>
         \E v \in Volumes :
           /\ mounts[v] # NoMount
           /\ PartitionOf[v] = p /\ inside[DeviceOf[v]] = m
           /\ mounts[v].print.digest = m
           /\ mounts[v].mode = "ReadWrite" /\ mounts[v].format = "FAT"
           /\ Stayed(v, mounts[v])]_vars

\* Whatever a handle can still read has been connected, without a break, since
\* the handle was opened, and has the capacity of the medium it was opened on.
ReadableMeansUninterrupted ==
  \A h \in Handles :
    LET v == files[h].volume IN
    Live(h) /\ Reaches(v, mounts[v]) =>
      /\ opened[h].epoch = EpochAt(LocationOf(DeviceOf[v]))
      /\ BlockCount[opened[h].medium] = BlockCount[inside[DeviceOf[v]]]

\* Nothing is ever made, removed or renamed in the namespace the RAM root
\* reserves, under any spelling: with its volume gone, /vol/usb0p1/... does not
\* become a path on the RAM disk.
ReservedNamespaceIntact ==
  \A p \in Partitions, path \in Tree :
    path[1] = Vol \/ path = <<Tmp>> =>
      disk[RamMedium][p][path] = Tree0[RamMedium][p][path]

\* A file some handle has open leaves the tree only together with a directory
\* above it: remove and rename refuse the file itself, however it is spelled.
OpenFileLeavesOnlyWithItsDirectory ==
  [][\A h \in Handles :
       Live(h) /\ files'[h] = files[h] =>
         LET f == files[h]
             before == disk[opened[h].medium][PartitionOf[f.volume]]
             after == disk'[opened[h].medium][PartitionOf[f.volume]]
         IN before[f.path].kind = "file" /\ after[f.path].kind # "file" =>
              ~IsDir(after, Front(f.path))]_vars

\* write_volume's claim: a failure that came from the medium takes the mount
\* down with it, at least when the volume had already been changed.
MediumFailureTakesMountDown ==
  [][mediumFailed' # RamVolume /\ disk' # disk => mounts'[mediumFailed'] = NoMount]_vars

\* verify's claim: a mount whose medium is still the one it was made of is
\* left exactly as it was, whatever part of its identity could be gathered.
VerifyKeepsTheSameMedium ==
  [][\A silent \in SUBSET Volumes, s \in [Volumes -> SUBSET Sources] :
       Verify(silent, s) =>
         \A v \in Volumes :
           /\ mounts[v] # NoMount /\ Stayed(v, mounts[v])
           /\ mounts[v].print.digest = inside[DeviceOf[v]]
           => mounts'[v] = mounts[v]]_vars
=============================================================================
