----------------------------- MODULE VfsProofs -----------------------------
(***************************************************************************)
(* What holds of Vfs for every set of volumes, media and paths.            *)
(***************************************************************************)
EXTENDS Vfs, FiniteSetTheorems, SequenceTheorems, TLAPS

(* Dropping mounts moves the generation on by a natural number.            *)
LEMMA CountIsNat == ASSUME NEW gone \in SUBSET Volumes PROVE Cardinality(gone) \in Nat
BY VolumesAssumption, FS_Subset, FS_CardinalityType

(* What is left of the table after some mounts are dropped is well typed,  *)
(* and every mount left in it is the one that was there.                   *)
LEMMA DropAllTypes ==
  ASSUME TypeOK, NEW gone \in SUBSET Volumes, DropAll(gone)
  PROVE  /\ mounts' \in [Volumes -> Mount \cup {NoMount}]
         /\ nextGeneration' \in Nat \ {0}
         /\ nextGeneration' >= nextGeneration
         /\ \A v \in Volumes : mounts'[v] # NoMount => mounts'[v] = mounts[v]
<1>1. Cardinality(gone) \in Nat
  BY CountIsNat
<1>2. nextGeneration \in Nat \ {0} /\ mounts \in [Volumes -> Mount \cup {NoMount}]
  BY DEF TypeOK
<1> QED
  BY <1>1, <1>2 DEF DropAll

(* Putting a well-typed content on the medium behind a volume.             *)
LEMMA PutTypes ==
  ASSUME TypeOK, NEW v \in Volumes, Answers(DeviceOf[v]),
         NEW content \in Contents, Put(v, content)
  PROVE  disk' \in [Media -> [Partitions -> Contents]]
BY VolumesAssumption DEF TypeOK, Put, Answers

LEMMA ContentTypes ==
  ASSUME TypeOK, NEW v \in Volumes, Answers(DeviceOf[v])
  PROVE  ContentOf(v) \in Contents
BY VolumesAssumption DEF TypeOK, ContentOf, Answers

LEMMA WithTypes ==
  ASSUME NEW content \in Contents, NEW path, NEW n \in 0..MaxSize
  PROVE  /\ With(content, path, File(n)) \in Contents
         /\ With(content, path, Directory) \in Contents
         /\ With(content, path, Missing) \in Contents
<1>1. MaxSize \in Nat
  BY BoundsAssumption
<1>2. File(n) \in Entry /\ Directory \in Entry /\ Missing \in Entry
  BY <1>1 DEF File, Directory, Missing, Entry
<1> QED
  BY <1>2 DEF With, Contents

LEMMA ExtendedTypes ==
  ASSUME NEW content \in Contents, NEW path, NEW fromStart \in BOOLEAN, NEW n \in 0..MaxSize
  PROVE  Extended(content, path, fromStart, n) \subseteq Contents
<1>0. MaxSize \in Nat
  BY BoundsAssumption
<1>1. DEFINE start == IF ~fromStart /\ IsFile(content, path) THEN content[path].size ELSE 0
<1>2. start \in 0..MaxSize
  BY <1>0 DEF IsFile, Contents, Entry
<1>3. \A k \in {j \in 0..n : start + j <= MaxSize} : start + k \in 0..MaxSize
  BY <1>0, <1>2
<1> HIDE DEF start
<1>4. \A k \in {j \in 0..n : start + j <= MaxSize} : With(content, path, File(start + k)) \in Contents
  BY <1>3, WithTypes
<1> QED
  BY <1>4 DEF Extended, start

LEMMA RenamedTypes ==
  ASSUME NEW content \in Contents, NEW from \in Tree, NEW to \in Tree
  PROVE  Renamed(content, from, to) \in Contents
<1>1. MaxSize \in Nat
  BY BoundsAssumption
<1>2. Missing \in Entry
  BY <1>1 DEF Missing, Entry
<1>3. Under(to) \subseteq Tree /\ Under(from) \subseteq Tree
  BY DEF Under
<1>4. \A p \in Tree : content[p] \in Entry
  BY DEF Contents
<1>5. \A p \in Tree : Renamed(content, from, to)[p] \in Entry
  BY <1>2, <1>3, <1>4 DEF Renamed
<1> QED
  BY <1>5 DEF Renamed, Contents

(* A write, however it ends, leaves the tables and the media well typed.   *)
LEMMA WriteVolumeTypes ==
  ASSUME TypeOK, NEW v \in Volumes, NEW possible, NEW after,
         WriteVolume(v, possible, after),
         WriteGranted(v) /\ possible => after \in Contents,
         UNCHANGED <<bus, opened>>
  PROVE  TypeOK'
<1>1. CASE WriteRefused(v)
  BY <1>1, DropAllTypes, VolumesAssumption DEF WriteRefused, TypeOK, bus
<1>2. WriteGranted(v) => Answers(DeviceOf[v]) /\ ContentOf(v) \in Contents
  BY ContentTypes DEF WriteGranted, Reaches
<1>3. CASE MediumFailedUnseen(v, {ContentOf(v)})
  BY <1>2, <1>3, PutTypes DEF MediumFailedUnseen, TypeOK, bus
<1>4. CASE WriteGranted(v) /\ possible /\ WriteAnswered(v, after) /\ UNCHANGED files
  BY <1>2, <1>4, PutTypes, VolumesAssumption DEF WriteAnswered, TypeOK, bus
<1>5. CASE WriteGranted(v) /\ possible /\ MediumFailed(v, {ContentOf(v), after})
  BY <1>2, <1>5, PutTypes, DropAllTypes DEF MediumFailed, TypeOK, bus
<1> QED
  BY <1>1, <1>3, <1>4, <1>5 DEF WriteVolume

----------------------------------------------------------------------------
(* Type correctness, action by action.                                     *)

LEMMA InitTypes == Init => TypeOK
<1> SUFFICES ASSUME Init PROVE TypeOK
  OBVIOUS
<1>1. RootMount \in Mount
  BY MediaAssumption DEF RootMount, Mount, Fingerprint
<1> QED
  BY <1>1, MediaAssumption, TreeAssumption, VolumesAssumption DEF Init, TypeOK

LEMMA MountTypes ==
  ASSUME TypeOK, NEW v \in Volumes, NEW request \in {"Default", "ReadOnly"},
         NEW s \in SUBSET Sources, MountVolume(v, request, s)
  PROVE  TypeOK'
<1> DEFINE d == DeviceOf[v]
<1>1. d \in Devices /\ inside[d] \in Media
  BY VolumesAssumption DEF MountVolume, Answers, TypeOK
<1>2. Identity(d, s) \in Fingerprint
  BY <1>1, MediaAssumption DEF Identity, Fingerprint
<1>3. LocationOf(d) \in Ports \cup {NoPort} /\ EpochAt(LocationOf(d)) \in Nat
  BY MediaAssumption DEF LocationOf, EpochAt, TypeOK
<1>4. FormatOf[inside[d]] \in {"FAT", "exFAT"}
  BY <1>1, MediaAssumption DEF MountVolume
<1>5. MountMode(request, FormatOf[inside[d]]) \in {"ReadOnly", "ReadWrite"}
  BY DEF MountMode
<1>6. NewMount(v, request, s) \in Mount
  BY <1>2, <1>3, <1>4, <1>5 DEF NewMount, Mount, TypeOK
<1> QED
  BY <1>6, VolumesAssumption DEF MountVolume, TypeOK, bus

LEMMA TableTypes == TypeOK /\ TableStep => TypeOK'
<1> SUFFICES ASSUME TypeOK, TableStep PROVE TypeOK'
  OBVIOUS
<1>1. ASSUME NEW v \in Volumes, NEW request \in {"Default", "ReadOnly"},
             NEW s \in SUBSET Sources, MountVolume(v, request, s)
      PROVE  TypeOK'
  BY <1>1, MountTypes
<1>2. ASSUME NEW silent \in SUBSET Volumes, NEW s \in [Volumes -> SUBSET Sources],
             Verify(silent, s)
      PROVE  TypeOK'
  <2>1. PICK gone \in SUBSET Volumes : DropAll(gone)
    BY <1>2 DEF Verify
  <2> QED
    BY <1>2, <2>1, DropAllTypes, VolumesAssumption DEF Verify, TypeOK, bus
<1>3. CASE PruneDisconnected
  BY <1>3, DropAllTypes, VolumesAssumption DEF PruneDisconnected, TypeOK, bus
<1>4. ASSUME NEW v \in Volumes, Umount(v) PROVE TypeOK'
  BY <1>4, VolumesAssumption DEF Umount, TypeOK, bus
<1> QED
  BY <1>1, <1>2, <1>3, <1>4 DEF TableStep

LEMMA CreateDirTypes ==
  ASSUME TypeOK, NEW v \in Volumes, NEW path, CreateDir(v, path) PROVE TypeOK'
<1> DEFINE at == Within(v, path)
<1>1. WriteGranted(v) => ContentOf(v) \in Contents
  BY ContentTypes DEF WriteGranted, Reaches
<1>2. 0 \in 0..MaxSize
  BY BoundsAssumption
<1>3. WriteGranted(v) => With(ContentOf(v), at, Directory) \in Contents
  BY <1>1, <1>2, WithTypes
<1> QED
  BY <1>3, WriteVolumeTypes DEF CreateDir

LEMMA RemoveEntryTypes ==
  ASSUME TypeOK, NEW v \in Volumes, NEW path, NEW kind, RemoveEntry(v, path, kind)
  PROVE  TypeOK'
<1> DEFINE at == Within(v, path)
<1>1. WriteGranted(v) => ContentOf(v) \in Contents
  BY ContentTypes DEF WriteGranted, Reaches
<1>2. 0 \in 0..MaxSize
  BY BoundsAssumption
<1>3. WriteGranted(v) => With(ContentOf(v), at, Missing) \in Contents
  BY <1>1, <1>2, WithTypes
<1> QED
  BY <1>3, WriteVolumeTypes DEF RemoveEntry

LEMMA RenameTypes ==
  ASSUME TypeOK, NEW v \in Volumes, NEW path, NEW target, Rename(v, path, target)
  PROVE  TypeOK'
<1> DEFINE from == Within(v, path)
           to == Within(v, target)
           possible == Renamable(ContentOf(v), from, to)
<1>1. WriteGranted(v) => ContentOf(v) \in Contents
  BY ContentTypes DEF WriteGranted, Reaches
<1>2. possible => from \in Tree /\ to \in Tree
  BY DEF Renamable, Creatable, Absent
<1>3. WriteGranted(v) /\ possible => Renamed(ContentOf(v), from, to) \in Contents
  BY <1>1, <1>2, RenamedTypes
<1> QED
  BY <1>3, WriteVolumeTypes DEF Rename

LEMMA WriteStreamTypes ==
  ASSUME TypeOK, NEW v \in Volumes, NEW path, NEW mode \in Modes, NEW n \in 0..MaxSize,
         WriteStream(v, path, mode, n)
  PROVE  TypeOK'
<1> DEFINE at == Within(v, path)
           stages == Extended(ContentOf(v), at, mode = "Truncate", n)
<1>1. WriteGranted(v) => Answers(DeviceOf[v]) /\ ContentOf(v) \in Contents
  BY ContentTypes DEF WriteGranted, Reaches
<1>2. WriteGranted(v) => stages \subseteq Contents
  BY <1>1, ExtendedTypes
<1> HIDE DEF stages
<1>3. CASE WriteRefused(v)
  BY <1>3, DropAllTypes, VolumesAssumption DEF WriteRefused, WriteStream, TypeOK, bus
<1>4. CASE MediumFailedUnseen(v, {ContentOf(v)})
  BY <1>1, <1>4, PutTypes DEF MediumFailedUnseen, WriteStream, TypeOK, bus
<1>5. ASSUME NEW content \in stages, WriteAnswered(v, content), UNCHANGED files
      PROVE  TypeOK'
  BY <1>1, <1>2, <1>5, PutTypes, VolumesAssumption DEF WriteAnswered, WriteStream, TypeOK, bus
<1>6. CASE MediumFailed(v, {ContentOf(v)} \cup stages)
  BY <1>1, <1>2, <1>6, PutTypes, DropAllTypes DEF MediumFailed, WriteStream, TypeOK, bus
<1>7. CASE MediumFailedUnseen(v, stages)
  BY <1>1, <1>2, <1>7, PutTypes DEF MediumFailedUnseen, WriteStream, TypeOK, bus
<1> QED
  BY <1>3, <1>4, <1>5, <1>6, <1>7 DEF WriteStream, stages

LEMMA OpenTypes ==
  ASSUME TypeOK, NEW h \in Handles, NEW v \in Volumes, NEW path, NEW mode \in Modes,
         Open(h, v, path, mode)
  PROVE  TypeOK'
<1> DEFINE at == Within(v, path)
<1>1. Answers(DeviceOf[v]) /\ ContentOf(v) \in Contents
  BY ContentTypes DEF Open, Reaches
<1>2. 0 \in 0..MaxSize /\ MaxSize \in Nat
  BY BoundsAssumption
<1>3. With(ContentOf(v), at, File(0)) \in Contents
  BY <1>1, <1>2, WithTypes
<1>4. mounts[v] \in Mount
  BY DEF Open, Covers, TypeOK
<1>5. mounts[v].generation \in Nat \ {0} /\ EpochAt(mounts[v].location) \in Nat
  BY <1>4, MediaAssumption DEF Mount, EpochAt, TypeOK
<1>6. inside[DeviceOf[v]] \in Media
  BY <1>1, VolumesAssumption DEF Answers, TypeOK
<1>7. ASSUME NEW size \in 0..MaxSize, at \in Tree, OpenWith(h, v, at, mode, size)
      PROVE  /\ files' \in [Handles -> OpenFile \cup {NoFile}]
             /\ opened' \in [Handles -> [medium : Media \cup {NoMedium}, epoch : Nat]]
  <2>1. NewFile(v, at, mode, size) \in OpenFile
    BY <1>2, <1>5, <1>7 DEF NewFile, OpenFile
  <2> QED
    BY <1>5, <1>6, <1>7, <2>1 DEF OpenWith, TypeOK
<1>8. CASE /\ IsFile(ContentOf(v), at)
           /\ OpenWith(h, v, at, mode, ContentOf(v)[at].size)
           /\ mediumFailed' = RamVolume
           /\ UNCHANGED <<mounts, nextGeneration, disk>>
  <2>1. at \in Tree /\ ContentOf(v)[at].size \in 0..MaxSize
    BY <1>1, <1>8 DEF IsFile, Contents, Entry
  <2> QED
    BY <1>7, <1>8, <2>1, VolumesAssumption DEF Open, TypeOK, bus
<1>9. CASE /\ mode # "Read" /\ Creatable(ContentOf(v), at)
           /\ WriteAnswered(v, With(ContentOf(v), at, File(0)))
           /\ OpenWith(h, v, at, mode, 0)
  <2>1. at \in Tree
    BY <1>9 DEF Creatable, Absent
  <2> QED
    BY <1>1, <1>2, <1>3, <1>7, <1>9, <2>1, PutTypes, VolumesAssumption
       DEF WriteAnswered, Open, TypeOK, bus
<1>10. CASE WriteVolume(v, FALSE, ContentOf(v)) /\ UNCHANGED opened
  BY <1>1, <1>10, WriteVolumeTypes DEF Open
<1>11. CASE /\ MediumFailed(v, {ContentOf(v), With(ContentOf(v), at, File(0))})
            /\ UNCHANGED opened
  BY <1>1, <1>3, <1>11, PutTypes, DropAllTypes DEF MediumFailed, Open, TypeOK, bus
<1> QED
  BY <1>8, <1>9, <1>10, <1>11 DEF Open

LEMMA PathTypes == TypeOK /\ PathStep => TypeOK'
<1> SUFFICES ASSUME TypeOK, NEW v \in Volumes, NEW path \in Paths,
      \/ CreateDir(v, path)
      \/ \E kind \in {"file", "dir"} : RemoveEntry(v, path, kind)
      \/ \E target \in Paths : Rename(v, path, target)
      \/ \E mode \in Modes, n \in 0..MaxSize : WriteStream(v, path, mode, n)
      \/ \E h \in Handles, mode \in Modes : Open(h, v, path, mode)
    PROVE TypeOK'
  BY DEF PathStep
<1> QED
  BY CreateDirTypes, RemoveEntryTypes, RenameTypes, WriteStreamTypes, OpenTypes

LEMMA WriteTypes ==
  ASSUME TypeOK, NEW h \in Handles, NEW n \in 0..MaxSize, Write(h, n)
  PROVE  TypeOK'
<1> DEFINE fl == files[h]
           v == fl.volume
           before == ContentOf(v)
           start == IF FromStart(fl) THEN 0 ELSE before[fl.path].size
           stages == Extended(before, fl.path, FromStart(fl), n)
<1>0. MaxSize \in Nat /\ 0 \in 0..MaxSize
  BY BoundsAssumption
<1>1. fl \in OpenFile /\ v \in Volumes
  BY DEF Write, Live, TypeOK, OpenFile
<1>2. WriteGranted(v) => Answers(DeviceOf[v]) /\ before \in Contents
  BY <1>1, ContentTypes DEF WriteGranted, Reaches
<1>3. FromStart(fl) \in BOOLEAN
  BY <1>1 DEF FromStart, OpenFile
<1>4. WriteGranted(v) => stages \subseteq Contents
  BY <1>2, <1>3, ExtendedTypes
<1>5. CASE WriteRefused(v)
  BY <1>1, <1>5, DropAllTypes, VolumesAssumption DEF WriteRefused, Write, TypeOK, bus
<1>6. CASE MediumFailedUnseen(v, {ContentOf(v)})
  BY <1>1, <1>2, <1>6, PutTypes DEF MediumFailedUnseen, Write, TypeOK, bus
<1>7. ASSUME WriteGranted(v), IsFile(before, fl.path)
      PROVE  fl.path \in Tree /\ start \in 0..MaxSize
  BY <1>0, <1>1, <1>2, <1>7 DEF IsFile, Contents, Entry
<1> HIDE DEF start, stages
<1>8. ASSUME WriteGranted(v), IsFile(before, fl.path),
             NEW k \in 0..n, start + k <= MaxSize,
             WriteAnswered(v, With(before, fl.path, File(start + k))),
             files' = [files EXCEPT ![h] = Written(fl, k)]
      PROVE  TypeOK'
  <2>1. start + k \in 0..MaxSize
    BY <1>0, <1>7, <1>8
  <2>2. With(before, fl.path, File(start + k)) \in Contents
    BY <1>2, <1>8, <2>1, WithTypes
  <2>3. Written(fl, k) \in OpenFile
    <3> DEFINE end == IF FromStart(fl) THEN k ELSE fl.size + k
    <3>1. k \in Nat /\ fl.size \in Nat
      BY <1>0, <1>1 DEF OpenFile
    <3>2. end \in Nat
      BY <3>1
    <3> HIDE DEF end
    <3>3. [fl EXCEPT !.size = end, !.offset = end, !.written = TRUE] \in OpenFile
      BY <1>1, <3>2 DEF OpenFile
    <3> QED
      BY <3>3 DEF Written, end
  <2>4. files' \in [Handles -> OpenFile \cup {NoFile}]
    BY <1>8, <2>3 DEF TypeOK
  <2> QED
    BY <1>1, <1>2, <1>8, <2>2, <2>4, PutTypes, VolumesAssumption
       DEF WriteAnswered, Write, TypeOK, bus
<1>9. CASE /\ WriteAnswered(v, With(before, fl.path, File(0)))
           /\ UNCHANGED files
  <2>1. With(before, fl.path, File(0)) \in Contents
    BY <1>0, <1>2, <1>9, WithTypes DEF WriteAnswered
  <2> QED
    BY <1>1, <1>2, <1>9, <2>1, PutTypes, VolumesAssumption DEF WriteAnswered, Write, TypeOK, bus
<1>10. CASE MediumFailed(v, {before} \cup stages)
  BY <1>1, <1>2, <1>4, <1>10, PutTypes, DropAllTypes DEF MediumFailed, Write, TypeOK, bus
<1>11. CASE /\ WriteGranted(v) /\ IsFile(before, fl.path)
            /\ MediumFailedUnseen(v, {before, With(before, fl.path, File(start))})
  <2>1. With(before, fl.path, File(start)) \in Contents
    BY <1>2, <1>7, <1>11, WithTypes
  <2> QED
    BY <1>1, <1>2, <1>11, <2>1, PutTypes DEF MediumFailedUnseen, Write, TypeOK, bus
<1>12. \/ WriteRefused(v)
       \/ MediumFailedUnseen(v, {ContentOf(v)})
       \/ /\ WriteGranted(v) /\ IsFile(before, fl.path)
          /\ \/ \E k \in 0..n :
                  /\ start + k <= MaxSize
                  /\ WriteAnswered(v, With(before, fl.path, File(start + k)))
                  /\ files' = [files EXCEPT ![h] = Written(fl, k)]
             \/ /\ FromStart(fl) /\ n > MaxSize
                /\ WriteAnswered(v, With(before, fl.path, File(0)))
                /\ UNCHANGED files
             \/ MediumFailed(v, {before} \cup stages)
             \/ MediumFailedUnseen(v, {before, With(before, fl.path, File(start))})
  BY ZenonT(60) DEF Write, start, stages
<1> QED
  BY <1>5, <1>6, <1>8, <1>9, <1>10, <1>11, <1>12

LEMMA HandleTypes == TypeOK /\ HandleStep => TypeOK'
<1> SUFFICES ASSUME TypeOK, NEW h \in Handles,
      \/ Close(h)
      \/ \E n \in 0..MaxSize : Seek(h, n) \/ Write(h, n)
      \/ \E n \in 1..MaxSize : Read(h, n)
    PROVE TypeOK'
  BY DEF HandleStep
<1>0. MaxSize \in Nat
  BY BoundsAssumption
<1>1. CASE Close(h)
  BY <1>1, VolumesAssumption DEF Close, TypeOK, bus
<1>2. ASSUME NEW n \in 0..MaxSize, Seek(h, n) PROVE TypeOK'
  <2>1. files[h] \in OpenFile
    BY <1>2 DEF Seek, TypeOK
  <2>2. [files[h] EXCEPT !.offset = n] \in OpenFile
    BY <1>0, <2>1 DEF OpenFile
  <2> QED
    BY <1>2, <2>2, VolumesAssumption DEF Seek, TypeOK, bus
<1>3. ASSUME NEW n \in 1..MaxSize, Read(h, n) PROVE TypeOK'
  <2> DEFINE fl == files[h]
             held == ContentOf(fl.volume)[fl.path].size
  <2>1. fl \in OpenFile /\ fl.volume \in Volumes /\ fl.offset \in Nat
    BY <1>3 DEF Read, Live, TypeOK, OpenFile
  <2>2. held \in 0..MaxSize
    BY <1>3, <2>1, ContentTypes DEF Read, Reaches, IsFile, Contents, Entry
  <2>3. \A a, b \in Nat : Min({a, b}) \in Nat
    <3> SUFFICES ASSUME NEW a \in Nat, NEW b \in Nat PROVE Min({a, b}) \in Nat
      OBVIOUS
    <3>1. \E x \in {a, b} : \A y \in {a, b} : x <= y
      BY SMT
    <3> QED
      BY <3>1 DEF Min
  <2>4. ASSUME NEW o \in Nat PROVE [fl EXCEPT !.offset = o] \in OpenFile
    BY <2>1 DEF OpenFile
  <2>5. fl.offset + n \in Nat /\ held \in Nat
    BY <1>0, <2>1, <2>2
  <2> HIDE DEF held
  <2>6. (IF fl.offset < held THEN Min({fl.offset + n, held}) ELSE fl.offset) \in Nat
    BY <2>1, <2>3, <2>5
  <2>7. files' \in [Handles -> OpenFile \cup {NoFile}]
    BY <1>3, <2>4, <2>6 DEF Read, held, TypeOK
  <2> QED
    BY <1>3, <2>7, VolumesAssumption DEF Read, TypeOK, bus
<1> QED
  BY <1>1, <1>2, <1>3, WriteTypes

LEMMA BusTypes == TypeOK /\ BusStep => TypeOK'
<1> SUFFICES ASSUME TypeOK, BusStep PROVE TypeOK'
  OBVIOUS
<1>1. ASSUME NEW d \in UsbIds, NEW l \in Ports, NEW m \in Media, Enumerated(d, l, m)
      PROVE  TypeOK'
  BY <1>1, VolumesAssumption DEF Enumerated, TypeOK, vfs
<1>2. ASSUME NEW d \in UsbIds, Lost(d) PROVE TypeOK'
  BY <1>2, VolumesAssumption DEF Lost, TypeOK, vfs
<1>3. ASSUME NEW l \in Ports, Disconnected(l) PROVE TypeOK'
  BY <1>3, VolumesAssumption DEF Disconnected, TypeOK, vfs
<1>4. ASSUME NEW d \in Devices, NEW m \in Media \cup {NoMedium}, MediumMoves(d, m)
      PROVE  TypeOK'
  BY <1>4, VolumesAssumption DEF MediumMoves, TypeOK, vfs
<1> QED
  BY <1>1, <1>2, <1>3, <1>4 DEF BusStep

LEMMA TypeStep == TypeOK /\ [Next]_vars => TypeOK'
<1> SUFFICES ASSUME TypeOK, [Next]_vars PROVE TypeOK'
  OBVIOUS
<1>1. CASE UNCHANGED vars
  BY <1>1 DEF vars, TypeOK
<1> QED
  BY <1>1, TableTypes, PathTypes, HandleTypes, BusTypes DEF Next

\* The two tables, the bus and every medium stay well typed, so no operation
\* reads a field of an empty slot or leaves a half-made mount behind
\* (vfs.rs, Vfs).
THEOREM TypeCorrect == Spec => []TypeOK
BY InitTypes, TypeStep, PTL DEF Spec

----------------------------------------------------------------------------
(* What a step can do to the two tables, whatever the operation was.       *)

(* Mounts only go, or one is added under the generation that was next.     *)
OnlyDropped == \A v \in Volumes : mounts'[v] \in {NoMount, mounts[v]}
Added(w) ==
  /\ mounts[w] = NoMount /\ mounts'[w] # NoMount
  /\ mounts'[w].generation = nextGeneration
  /\ nextGeneration' = nextGeneration + 1
  /\ \A v \in Volumes \ {w} : mounts'[v] = mounts[v]
TableMoves ==
  /\ nextGeneration' \in Nat /\ nextGeneration' >= nextGeneration
  /\ OnlyDropped \/ \E w \in Volumes : Added(w)

(* A handle is closed, keeps the mount it was opened through, or is new.   *)
Kept(h) == /\ files[h] # NoFile
           /\ files'[h].volume = files[h].volume
           /\ files'[h].generation = files[h].generation
Fresh(h) == /\ files[h] = NoFile
            /\ files'[h].volume \in Volumes
            /\ mounts[files'[h].volume] # NoMount
            /\ files'[h].generation = mounts[files'[h].volume].generation
HandlesMove == \A h \in Handles : files'[h] = NoFile \/ Kept(h) \/ Fresh(h)

(* A volume's content moves only where a write was granted on a mount.     *)
GrantedOn(v) ==
  /\ mounts[v] # NoMount /\ Writable(v) /\ WriteGranted(v)
  /\ \A m \in Media, p \in Partitions :
       disk'[m][p] # disk[m][p] => m = inside[DeviceOf[v]] /\ p = PartitionOf[v]
ContentMoves == disk' = disk \/ \E v \in Volumes : GrantedOn(v)

(* The RAM disk stays mounted on its own memory.                           *)
RootStays == mounts[RamVolume] = RootMount /\ inside[Ram] = RamMedium
RootUntouched == mounts'[RamVolume] = mounts[RamVolume] /\ inside'[Ram] = inside[Ram]

StepShape == TableMoves /\ HandlesMove /\ ContentMoves /\ RootUntouched

LEMMA DropAllShape ==
  ASSUME TypeOK, NEW gone \in SUBSET Volumes, RamVolume \notin gone, DropAll(gone)
  PROVE  TableMoves /\ mounts'[RamVolume] = mounts[RamVolume]
<1>1. nextGeneration' \in Nat /\ nextGeneration' >= nextGeneration
  BY DropAllTypes
<1> QED
  BY <1>1, VolumesAssumption DEF TableMoves, OnlyDropped, DropAll

LEMMA SameTable ==
  ASSUME TypeOK, UNCHANGED <<mounts, nextGeneration>>
  PROVE  TableMoves /\ mounts'[RamVolume] = mounts[RamVolume]
BY DEF TableMoves, OnlyDropped, TypeOK

LEMMA SameHandles == ASSUME TypeOK, UNCHANGED files PROVE HandlesMove
BY DEF HandlesMove, Kept

LEMMA PutShape ==
  ASSUME TypeOK, NEW v \in Volumes, NEW content, mounts[v] # NoMount,
         Writable(v), WriteGranted(v), Put(v, content)
  PROVE  ContentMoves
<1>1. inside[DeviceOf[v]] \in Media
  BY VolumesAssumption DEF WriteGranted, Reaches, Answers, TypeOK
<1>2. ASSUME NEW m \in Media, NEW p \in Partitions, disk'[m][p] # disk[m][p]
      PROVE  m = inside[DeviceOf[v]] /\ p = PartitionOf[v]
  BY <1>1, <1>2, VolumesAssumption DEF Put, TypeOK
<1> QED
  BY <1>2 DEF ContentMoves, GrantedOn

(* Each way a write can end, as far as the tables and the media go.        *)
WriteShape == TableMoves /\ ContentMoves /\ mounts'[RamVolume] = mounts[RamVolume]

LEMMA WriteEndsShape ==
  ASSUME TypeOK, NEW v \in Volumes, mounts[v] # NoMount, Writable(v)
  PROVE  /\ WriteRefused(v) => WriteShape /\ HandlesMove
         /\ \A content : WriteAnswered(v, content) => WriteShape
         /\ \A leftovers : MediumFailed(v, leftovers) => WriteShape /\ HandlesMove
         /\ \A leftovers : MediumFailedUnseen(v, leftovers) => WriteShape /\ HandlesMove
<1>1. WriteRefused(v) => WriteShape /\ HandlesMove
  <2> SUFFICES ASSUME WriteRefused(v) PROVE WriteShape /\ HandlesMove
    OBVIOUS
  <2>1. TableMoves /\ mounts'[RamVolume] = mounts[RamVolume]
    BY DropAllShape DEF WriteRefused
  <2>2. HandlesMove
    BY SameHandles DEF WriteRefused
  <2>3. ContentMoves
    BY DEF WriteRefused, ContentMoves
  <2> QED
    BY <2>1, <2>2, <2>3 DEF WriteShape
<1>2. ASSUME NEW content, WriteAnswered(v, content) PROVE WriteShape
  <2>1. TableMoves /\ mounts'[RamVolume] = mounts[RamVolume]
    BY <1>2, SameTable DEF WriteAnswered
  <2>2. ContentMoves
    BY <1>2, PutShape DEF WriteAnswered
  <2> QED
    BY <2>1, <2>2 DEF WriteShape
<1>3. ASSUME NEW leftovers, MediumFailed(v, leftovers) PROVE WriteShape /\ HandlesMove
  <2>1. TableMoves /\ mounts'[RamVolume] = mounts[RamVolume]
    BY <1>3, DropAllShape DEF MediumFailed
  <2>2. PICK content \in leftovers : Put(v, content)
    BY <1>3 DEF MediumFailed
  <2>3. ContentMoves
    BY <1>3, <2>2, PutShape DEF MediumFailed
  <2>4. HandlesMove
    BY <1>3, SameHandles DEF MediumFailed
  <2> QED
    BY <2>1, <2>3, <2>4 DEF WriteShape
<1>4. ASSUME NEW leftovers, MediumFailedUnseen(v, leftovers) PROVE WriteShape /\ HandlesMove
  <2>1. TableMoves /\ mounts'[RamVolume] = mounts[RamVolume]
    BY <1>4, SameTable DEF MediumFailedUnseen
  <2>2. PICK content \in leftovers : Put(v, content)
    BY <1>4 DEF MediumFailedUnseen
  <2>3. ContentMoves
    BY <1>4, <2>2, PutShape DEF MediumFailedUnseen
  <2>4. HandlesMove
    BY <1>4, SameHandles DEF MediumFailedUnseen
  <2> QED
    BY <2>1, <2>3, <2>4 DEF WriteShape
<1> QED
  BY <1>1, <1>2, <1>3, <1>4

LEMMA WriteVolumeShape ==
  ASSUME TypeOK, NEW v \in Volumes, mounts[v] # NoMount, Writable(v),
         NEW possible, NEW after, WriteVolume(v, possible, after), UNCHANGED bus
  PROVE  StepShape
<1>1. WriteShape /\ HandlesMove
  BY WriteEndsShape, SameHandles DEF WriteVolume
<1> QED
  BY <1>1 DEF WriteShape, StepShape, RootUntouched, bus

LEMMA TableShape == TypeOK /\ RootStays /\ TableStep => StepShape
<1> SUFFICES ASSUME TypeOK, RootStays, TableStep PROVE StepShape
  OBVIOUS
<1>1. ASSUME NEW v \in Volumes, NEW request \in {"Default", "ReadOnly"},
             NEW s \in SUBSET Sources, MountVolume(v, request, s)
      PROVE  StepShape
  <2>1. Added(v)
    BY <1>1 DEF MountVolume, NewMount, NoMount, Added, TypeOK
  <2>2. TableMoves
    BY <1>1, <2>1 DEF TableMoves, MountVolume, TypeOK
  <2>3. v # RamVolume
    BY <1>1 DEF MountVolume, RootStays, RootMount, NoMount
  <2> QED
    BY <1>1, <2>1, <2>2, <2>3, VolumesAssumption, SameHandles
       DEF StepShape, RootUntouched, ContentMoves, MountVolume, Added, bus
<1>2. ASSUME NEW silent \in SUBSET Volumes, NEW s \in [Volumes -> SUBSET Sources],
             Verify(silent, s)
      PROVE  StepShape
  <2>1. PICK gone \in SUBSET (Volumes \ {RamVolume}) : DropAll(gone)
    BY <1>2 DEF Verify
  <2>2. TableMoves /\ mounts'[RamVolume] = mounts[RamVolume]
    BY <2>1, DropAllShape
  <2> QED
    BY <1>2, <2>2, SameHandles DEF Verify, StepShape, RootUntouched, ContentMoves, bus
<1>3. ASSUME PruneDisconnected PROVE StepShape
  <2>1. RamVolume \notin {v \in Volumes : Removed(v)}
    BY VolumesAssumption DEF Removed
  <2>2. TableMoves /\ mounts'[RamVolume] = mounts[RamVolume]
    BY <1>3, <2>1, DropAllShape DEF PruneDisconnected
  <2> QED
    BY <1>3, <2>2, SameHandles
       DEF PruneDisconnected, StepShape, RootUntouched, ContentMoves, bus
<1>4. ASSUME NEW v \in Volumes, Umount(v) PROVE StepShape
  <2>1. TableMoves /\ mounts'[RamVolume] = mounts[RamVolume]
    BY <1>4, VolumesAssumption DEF TableMoves, OnlyDropped, Umount, TypeOK
  <2> QED
    BY <1>4, <2>1, SameHandles DEF Umount, StepShape, RootUntouched, ContentMoves, bus
<1> QED
  BY <1>1, <1>2, <1>3, <1>4 DEF TableStep

(* An opened handle is fresh; everything else about the step is the write's *)
(* or nothing.                                                             *)
LEMMA OpenShape ==
  ASSUME TypeOK, NEW h \in Handles, NEW v \in Volumes, NEW path, NEW mode \in Modes,
         Open(h, v, path, mode)
  PROVE  StepShape
<1> DEFINE at == Within(v, path)
<1>1. mounts[v] # NoMount /\ (mode # "Read" => Writable(v)) /\ files[h] = NoFile
  BY DEF Open, Covers, FreeHandle
<1>2. ASSUME NEW size, OpenWith(h, v, at, mode, size) PROVE HandlesMove
  <2>1. files' = [files EXCEPT ![h] = NewFile(v, at, mode, size)]
    BY <1>2 DEF OpenWith
  <2>2. files'[h].volume = v /\ files'[h].generation = mounts[v].generation
    BY <2>1 DEF NewFile, TypeOK
  <2>3. \A k \in Handles \ {h} : files'[k] = files[k]
    BY <2>1 DEF TypeOK
  <2> QED
    BY <1>1, <2>2, <2>3 DEF HandlesMove, Kept, Fresh
<1>3. mounts'[RamVolume] = mounts[RamVolume] /\ UNCHANGED bus /\ TableMoves
      /\ ContentMoves /\ HandlesMove => StepShape
  BY DEF StepShape, RootUntouched, bus
<1>4. CASE /\ OpenWith(h, v, at, mode, ContentOf(v)[at].size)
           /\ UNCHANGED <<mounts, nextGeneration, disk>>
  BY <1>2, <1>3, <1>4, SameTable DEF Open, ContentMoves
<1>5. CASE /\ mode # "Read"
           /\ WriteAnswered(v, With(ContentOf(v), at, File(0)))
           /\ OpenWith(h, v, at, mode, 0)
  <2>1. WriteShape
    BY <1>1, <1>5, WriteEndsShape
  <2> QED
    BY <1>2, <1>3, <1>5, <2>1 DEF Open, WriteShape
<1>6. CASE mode # "Read" /\ WriteVolume(v, FALSE, ContentOf(v))
  BY <1>1, <1>6, WriteVolumeShape DEF Open
<1>7. CASE /\ mode # "Read"
           /\ MediumFailed(v, {ContentOf(v), With(ContentOf(v), at, File(0))})
  <2>1. WriteShape /\ HandlesMove
    BY <1>1, <1>7, WriteEndsShape
  <2> QED
    BY <1>3, <2>1 DEF Open, WriteShape
<1> QED
  BY <1>4, <1>5, <1>6, <1>7 DEF Open

LEMMA WriteStreamShape ==
  ASSUME TypeOK, NEW v \in Volumes, NEW path, NEW mode \in Modes, NEW n,
         WriteStream(v, path, mode, n)
  PROVE  StepShape
<1>1. mounts[v] # NoMount /\ Writable(v) /\ UNCHANGED bus
  BY DEF WriteStream, Covers
<1>2. WriteShape /\ HandlesMove
  BY <1>1, WriteEndsShape, SameHandles DEF WriteStream
<1> QED
  BY <1>1, <1>2 DEF WriteShape, StepShape, RootUntouched, bus

LEMMA PathShape == TypeOK /\ PathStep => StepShape
<1> SUFFICES ASSUME TypeOK, NEW v \in Volumes, NEW path \in Paths,
      \/ CreateDir(v, path)
      \/ \E kind \in {"file", "dir"} : RemoveEntry(v, path, kind)
      \/ \E target \in Paths : Rename(v, path, target)
      \/ \E mode \in Modes, n \in 0..MaxSize : WriteStream(v, path, mode, n)
      \/ \E h \in Handles, mode \in Modes : Open(h, v, path, mode)
    PROVE StepShape
  BY DEF PathStep
<1>1. CASE CreateDir(v, path)
  BY <1>1, WriteVolumeShape DEF CreateDir, Covers
<1>2. ASSUME NEW kind \in {"file", "dir"}, RemoveEntry(v, path, kind) PROVE StepShape
  BY <1>2, WriteVolumeShape DEF RemoveEntry, Covers
<1>3. ASSUME NEW target \in Paths, Rename(v, path, target) PROVE StepShape
  BY <1>3, WriteVolumeShape DEF Rename, Covers
<1> QED
  BY <1>1, <1>2, <1>3, OpenShape, WriteStreamShape

LEMMA WriteStepShape ==
  ASSUME TypeOK, NEW h \in Handles, NEW n, Write(h, n)
  PROVE  StepShape
<1> DEFINE fl == files[h]
           v == fl.volume
<1>1. /\ fl # NoFile /\ fl \in OpenFile /\ v \in Volumes
      /\ mounts[v] # NoMount /\ Writable(v) /\ UNCHANGED bus
  BY DEF Write, Live, TypeOK, OpenFile
<1>2. ASSUME NEW k, files' = [files EXCEPT ![h] = Written(fl, k)] PROVE HandlesMove
  <2>1. files'[h].volume = v /\ files'[h].generation = fl.generation
    BY <1>1, <1>2 DEF TypeOK, Written, OpenFile
  <2>2. \A o \in Handles \ {h} : files'[o] = files[o]
    BY <1>2 DEF TypeOK
  <2> QED
    BY <1>1, <2>1, <2>2 DEF HandlesMove, Kept
<1>3. WriteShape /\ HandlesMove
  BY <1>1, <1>2, WriteEndsShape, SameHandles DEF Write
<1> QED
  BY <1>1, <1>3 DEF WriteShape, StepShape, RootUntouched, bus

(* A step that leaves the mounts, the media and the RAM disk alone.        *)
LEMMA QuietShape ==
  ASSUME TypeOK, UNCHANGED <<mounts, nextGeneration, disk>>, inside'[Ram] = inside[Ram],
         HandlesMove
  PROVE  StepShape
BY SameTable DEF StepShape, RootUntouched, ContentMoves

LEMMA HandleShape == TypeOK /\ HandleStep => StepShape
<1> SUFFICES ASSUME TypeOK, NEW h \in Handles,
      \/ Close(h)
      \/ \E n \in 0..MaxSize : Seek(h, n) \/ Write(h, n)
      \/ \E n \in 1..MaxSize : Read(h, n)
    PROVE StepShape
  BY DEF HandleStep
<1>1. CASE Close(h)
  <2>1. HandlesMove
    BY <1>1 DEF Close, HandlesMove, Kept, TypeOK
  <2> QED
    BY <1>1, <2>1, QuietShape DEF Close, bus
<1>2. ASSUME NEW o, files[h] # NoFile, files' = [files EXCEPT ![h].offset = o]
      PROVE  HandlesMove
  <2>1. files'[h].volume = files[h].volume /\ files'[h].generation = files[h].generation
    BY <1>2 DEF TypeOK, OpenFile
  <2>2. \A k \in Handles \ {h} : files'[k] = files[k]
    BY <1>2 DEF TypeOK
  <2> QED
    BY <1>2, <2>1, <2>2 DEF HandlesMove, Kept
<1>3. ASSUME NEW n \in 0..MaxSize, Seek(h, n) PROVE StepShape
  BY <1>2, <1>3, QuietShape DEF Seek, bus
<1>4. ASSUME NEW n \in 1..MaxSize, Read(h, n) PROVE StepShape
  BY <1>2, <1>4, QuietShape DEF Read, Live, bus
<1> QED
  BY <1>1, <1>3, <1>4, WriteStepShape

LEMMA BusShape == TypeOK /\ BusStep => StepShape
<1> SUFFICES ASSUME TypeOK, BusStep PROVE StepShape
  OBVIOUS
<1>1. UNCHANGED <<mounts, nextGeneration, disk, files>>
  BY DEF BusStep, Enumerated, Lost, Disconnected, MediumMoves, vfs
<1>2. inside'[Ram] = inside[Ram]
  BY VolumesAssumption
     DEF BusStep, Enumerated, Lost, Disconnected, MediumMoves, TypeOK
<1> QED
  BY <1>1, <1>2, SameHandles, QuietShape

LEMMA NextShape == TypeOK /\ RootStays /\ [Next]_vars => StepShape
<1> SUFFICES ASSUME TypeOK, RootStays, [Next]_vars PROVE StepShape
  OBVIOUS
<1>1. CASE UNCHANGED vars
  BY <1>1, SameHandles, QuietShape DEF vars
<1> QED
  BY <1>1, TableShape, PathShape, HandleShape, BusShape DEF Next

----------------------------------------------------------------------------
(* The theorems.                                                           *)

(* What every one of them rests on: types, the RAM disk, the counter.      *)
IInv == TypeOK /\ RootStays /\ GenerationsDistinct

LEMMA Inductive == Spec => []IInv
<1>1. Init => IInv
  <2> SUFFICES ASSUME Init PROVE IInv
    OBVIOUS
  <2>1. TypeOK
    BY InitTypes
  <2>2. RootStays
    BY VolumesAssumption DEF Init, RootStays
  <2>3. GenerationsDistinct
    BY VolumesAssumption DEF Init, GenerationsDistinct, RootMount
  <2> QED
    BY <2>1, <2>2, <2>3 DEF IInv
<1>2. IInv /\ [Next]_vars => IInv'
  <2> SUFFICES ASSUME IInv, [Next]_vars PROVE IInv'
    OBVIOUS
  <2>1. TypeOK' /\ StepShape
    BY TypeStep, NextShape DEF IInv
  <2>2. RootStays'
    BY <2>1 DEF IInv, StepShape, RootStays, RootUntouched, RootMount
  <2>3. nextGeneration \in Nat /\ nextGeneration' \in Nat /\ nextGeneration' >= nextGeneration
    BY <2>1 DEF IInv, TypeOK, StepShape, TableMoves
  <2>4. \A v \in Volumes : mounts[v] # NoMount => mounts[v].generation \in Nat
    BY DEF IInv, TypeOK, Mount, NoMount
  <2>5. \A h \in Handles : files[h] # NoFile =>
          files[h].generation \in Nat /\ files[h].volume \in Volumes
    BY DEF IInv, TypeOK, OpenFile, NoFile
  <2>6. /\ \A v \in Volumes : mounts'[v] # NoMount => mounts'[v].generation < nextGeneration'
        /\ \A v, w \in Volumes :
             mounts'[v] # NoMount /\ mounts'[w] # NoMount /\ v # w
               => mounts'[v].generation # mounts'[w].generation
    <3>1. CASE OnlyDropped
      BY <2>3, <2>4, <3>1 DEF OnlyDropped, IInv, GenerationsDistinct
    <3>2. ASSUME NEW w \in Volumes, Added(w)
          PROVE  /\ \A v \in Volumes : mounts'[v] # NoMount => mounts'[v].generation < nextGeneration'
                 /\ \A v, u \in Volumes :
                      mounts'[v] # NoMount /\ mounts'[u] # NoMount /\ v # u
                        => mounts'[v].generation # mounts'[u].generation
      BY <2>3, <2>4, <3>2 DEF Added, IInv, GenerationsDistinct
    <3> QED
      BY <2>1, <3>1, <3>2 DEF StepShape, TableMoves
  <2>7. ASSUME NEW h \in Handles, files'[h] # NoFile
        PROVE  files'[h].generation < nextGeneration'
    <3>1. Kept(h) \/ Fresh(h)
      BY <2>1, <2>7 DEF StepShape, HandlesMove
    <3>2. CASE Kept(h)
      BY <2>3, <2>5, <3>2 DEF Kept, IInv, GenerationsDistinct
    <3>3. CASE Fresh(h)
      BY <2>3, <2>4, <3>3 DEF Fresh, IInv, GenerationsDistinct
    <3> QED
      BY <3>1, <3>2, <3>3
  <2> QED
    BY <2>1, <2>2, <2>6, <2>7 DEF IInv, GenerationsDistinct
<1> QED
  BY <1>1, <1>2, PTL DEF Spec

\* However many volumes there are, no two mounts share a generation and no
\* handle names one that has not been given out (vfs.rs, next_generation).
THEOREM GenerationsAreDistinct == Spec => []GenerationsDistinct
BY Inductive, PTL DEF IInv

\* A handle whose mount is gone stays refused whatever is mounted later: the
\* counter makes the generation it names unreachable (vfs.rs, VolumeId).
THEOREM StaleHandlesStayStale == Spec => StaleStaysStale
<1> DEFINE Step == \A h \in Handles :
             files[h] # NoFile /\ ~Live(h) /\ files'[h] # NoFile => ~Live(h)'
<1>1. IInv /\ IInv' /\ [Next]_vars => Step
  <2> SUFFICES ASSUME IInv, IInv', [Next]_vars, NEW h \in Handles,
                      files[h] # NoFile, ~Live(h), files'[h] # NoFile, Live(h)'
               PROVE  FALSE
    OBVIOUS
  <2>1. StepShape
    BY NextShape DEF IInv
  <2>2. Kept(h)
    BY <2>1 DEF StepShape, HandlesMove, Fresh
  <2> DEFINE v == files[h].volume
  <2>3. v \in Volumes /\ files[h].generation < nextGeneration /\ files[h].generation \in Nat
    BY DEF IInv, TypeOK, OpenFile, NoFile, GenerationsDistinct
  <2>4. mounts'[v] # NoMount /\ mounts'[v].generation = files[h].generation
    BY <2>2 DEF Live, Kept
  <2>5. mounts'[v] # mounts[v]
    BY <2>4 DEF Live
  <2>6. nextGeneration \in Nat
    BY DEF IInv, TypeOK
  <2> QED
    BY <2>1, <2>3, <2>4, <2>5, <2>6 DEF StepShape, TableMoves, OnlyDropped, Added
<1>2. Step => [Step]_vars
  OBVIOUS
<1> QED
  BY <1>1, Inductive, PTL DEF Spec, StaleStaysStale

\* A write only ever lands on the medium its mount was made of, at the port it
\* has been connected to since (vfs.rs, confirm_medium and with_partition).
THEOREM WritesReachTheirMedium == Spec => WritesReachTheMountedMedium
<1> DEFINE Step == \A m \in Media, p \in Partitions :
       disk'[m][p] # disk[m][p] =>
         \E v \in Volumes :
           /\ mounts[v] # NoMount
           /\ PartitionOf[v] = p /\ inside[DeviceOf[v]] = m
           /\ mounts[v].print.digest = m
           /\ mounts[v].mode = "ReadWrite" /\ mounts[v].format = "FAT"
           /\ Stayed(v, mounts[v])
<1>1. IInv /\ [Next]_vars => Step
  <2> SUFFICES ASSUME IInv, [Next]_vars, NEW m \in Media, NEW p \in Partitions,
                      disk'[m][p] # disk[m][p]
               PROVE  \E v \in Volumes :
                        /\ mounts[v] # NoMount
                        /\ PartitionOf[v] = p /\ inside[DeviceOf[v]] = m
                        /\ mounts[v].print.digest = m
                        /\ mounts[v].mode = "ReadWrite" /\ mounts[v].format = "FAT"
                        /\ Stayed(v, mounts[v])
    OBVIOUS
  <2>1. PICK v \in Volumes : GrantedOn(v)
    BY NextShape DEF IInv, StepShape, ContentMoves
  <2>2. m = inside[DeviceOf[v]] /\ p = PartitionOf[v]
    BY <2>1 DEF GrantedOn
  <2>3. mounts[v].print.digest = m
    <3>1. CASE v = RamVolume
      BY <2>2, <3>1, VolumesAssumption DEF IInv, RootStays, RootMount
    <3>2. CASE v # RamVolume
      <4>1. PICK s \in (SUBSET Sources) \ {{}} : Identity(DeviceOf[v], s) = mounts[v].print
        BY <2>1, <3>2 DEF GrantedOn, WriteGranted, ConfirmMedium
      <4>2. Identity(DeviceOf[v], s).digest = inside[DeviceOf[v]]
        BY <4>1 DEF Identity
      <4> QED
        BY <2>2, <4>1, <4>2
    <3> QED
      BY <3>1, <3>2
  <2> QED
    BY <2>1, <2>2, <2>3 DEF GrantedOn, Writable, WriteGranted, Reaches
<1> QED
  BY <1>1, Inductive, PTL DEF Spec, WritesReachTheMountedMedium
----------------------------------------------------------------------------
(* What a handle that can be read was opened on.                           *)

(* A mount off the bus has no place whose epoch could move.                *)
OffTheBus == \A v \in Volumes :
  mounts[v] # NoMount /\ DeviceOf[v] \notin UsbIds =>
    mounts[v].location = NoPort /\ mounts[v].epoch = 0

(* A live handle was opened on the connection and on a medium of the       *)
(* capacity that its mount was made of.                                    *)
OpenedAsMounted == \A h \in Handles :
  Live(h) => /\ opened[h].epoch = mounts[files[h].volume].epoch
             /\ BlockCount[opened[h].medium] = mounts[files[h].volume].print.blocks

(* What a step can do to the handles together with what is known of them,  *)
(* and to one mount.  A mount that goes takes the generation on, or had no *)
(* handle that was live.                                                   *)
OpenedNow(h) ==
  /\ files[h] = NoFile /\ mounts' = mounts
  /\ \E v \in Volumes :
       /\ mounts[v] # NoMount /\ Reaches(v, mounts[v])
       /\ files'[h].volume = v
       /\ opened'[h] = [medium |-> inside[DeviceOf[v]], epoch |-> EpochAt(mounts[v].location)]
OpenedMoves == \A h \in Handles :
  files'[h] = NoFile \/ (Kept(h) /\ opened'[h] = opened[h]) \/ OpenedNow(h)
Made(v) ==
  /\ mounts[v] = NoMount
  /\ DeviceOf[v] \notin UsbIds => mounts'[v].location = NoPort /\ mounts'[v].epoch = 0
Gone(v) ==
  /\ mounts'[v] = NoMount
  /\ \/ nextGeneration' > nextGeneration
     \/ \A h \in Handles : ~(Live(h) /\ files[h].volume = v)
MountsMove == \A v \in Volumes : mounts'[v] = mounts[v] \/ Made(v) \/ Gone(v)

(* Dropping something takes the generation on.                             *)
LEMMA DropAllGone ==
  ASSUME TypeOK, NEW gone \in SUBSET Volumes, DropAll(gone)
  PROVE  MountsMove
<1> SUFFICES ASSUME NEW v \in Volumes, mounts'[v] # mounts[v] PROVE Gone(v)
  BY DEF MountsMove
<1>1. v \in gone /\ mounts'[v] = NoMount
  BY DEF DropAll, TypeOK
<1>2. IsFiniteSet(gone)
  BY VolumesAssumption, FS_Subset
<1>3. Cardinality(gone) \in Nat /\ Cardinality(gone) # 0
  BY <1>1, <1>2, FS_CardinalityType, FS_EmptySet
<1>4. nextGeneration \in Nat /\ nextGeneration' = nextGeneration + Cardinality(gone)
  BY DEF TypeOK, DropAll
<1> QED
  BY <1>1, <1>3, <1>4 DEF Gone

LEMMA SameMounts == ASSUME UNCHANGED mounts PROVE MountsMove
BY DEF MountsMove

(* The files are left alone, or one that is open is changed in place.      *)
SameOpen == /\ UNCHANGED opened
            /\ \A h \in Handles : files'[h] = NoFile \/ Kept(h)

LEMMA SameFiles == ASSUME UNCHANGED <<files, opened>> PROVE SameOpen
BY DEF SameOpen, Kept

LEMMA StillOpen == ASSUME SameOpen PROVE OpenedMoves
BY DEF SameOpen, OpenedMoves

LEMMA WriteEndsMove ==
  ASSUME TypeOK, NEW v \in Volumes
  PROVE  /\ WriteRefused(v) => MountsMove /\ UNCHANGED files
         /\ \A content : WriteAnswered(v, content) => MountsMove
         /\ \A leftovers : MediumFailed(v, leftovers) => MountsMove /\ UNCHANGED files
         /\ \A leftovers : MediumFailedUnseen(v, leftovers) => MountsMove /\ UNCHANGED files
BY DropAllGone, SameMounts DEF WriteRefused, WriteAnswered, MediumFailed, MediumFailedUnseen

LEMMA WriteVolumeMoves ==
  ASSUME TypeOK, NEW v \in Volumes, NEW possible, NEW after, WriteVolume(v, possible, after)
  PROVE  MountsMove /\ UNCHANGED files
BY WriteEndsMove DEF WriteVolume

LEMMA TableMoved == TypeOK /\ TableStep => MountsMove /\ OpenedMoves
<1> SUFFICES ASSUME TypeOK, TableStep PROVE MountsMove /\ OpenedMoves
  OBVIOUS
<1>1. OpenedMoves
  BY SameFiles, StillOpen DEF TableStep, MountVolume, Verify, PruneDisconnected, Umount
<1>2. ASSUME NEW v \in Volumes, NEW request \in {"Default", "ReadOnly"},
             NEW s \in SUBSET Sources, MountVolume(v, request, s)
      PROVE  MountsMove
  <2>1. mounts[v] = NoMount /\ \A w \in Volumes \ {v} : mounts'[w] = mounts[w]
    BY <1>2 DEF MountVolume, TypeOK
  <2>2. mounts'[v] = NewMount(v, request, s)
    BY <1>2 DEF MountVolume, TypeOK
  <2>3. Made(v)
    BY <2>1, <2>2 DEF Made, NewMount, LocationOf, EpochAt
  <2> QED
    BY <2>1, <2>3 DEF MountsMove
<1>3. ASSUME NEW silent \in SUBSET Volumes, NEW s \in [Volumes -> SUBSET Sources],
             Verify(silent, s)
      PROVE  MountsMove
  <2>1. PICK gone \in SUBSET Volumes : DropAll(gone)
    BY <1>3 DEF Verify
  <2> QED
    BY <2>1, DropAllGone
<1>4. ASSUME PruneDisconnected PROVE MountsMove
  BY <1>4, DropAllGone DEF PruneDisconnected
<1>5. ASSUME NEW v \in Volumes, Umount(v) PROVE MountsMove
  BY <1>5 DEF Umount, MountsMove, Gone, TypeOK
<1> QED
  BY <1>1, <1>2, <1>3, <1>4, <1>5 DEF TableStep

LEMMA OpenMoved ==
  ASSUME TypeOK, NEW h \in Handles, NEW v \in Volumes, NEW path, NEW mode \in Modes,
         Open(h, v, path, mode)
  PROVE  MountsMove /\ OpenedMoves
<1> DEFINE at == Within(v, path)
<1>1. files[h] = NoFile /\ mounts[v] # NoMount /\ Reaches(v, mounts[v])
  BY DEF Open, FreeHandle, Covers
<1>2. ASSUME NEW size, OpenWith(h, v, at, mode, size), UNCHANGED mounts
      PROVE  MountsMove /\ OpenedMoves
  <2>1. /\ files' = [files EXCEPT ![h] = NewFile(v, at, mode, size)]
        /\ opened' = [opened EXCEPT ![h] =
             [medium |-> inside[DeviceOf[v]], epoch |-> EpochAt(mounts[v].location)]]
    BY <1>2 DEF OpenWith
  <2>2. files'[h].volume = v
    BY <2>1 DEF NewFile, TypeOK
  <2>3. opened'[h] = [medium |-> inside[DeviceOf[v]], epoch |-> EpochAt(mounts[v].location)]
    BY <2>1 DEF TypeOK
  <2>4. \A k \in Handles \ {h} : files'[k] = files[k] /\ opened'[k] = opened[k]
    BY <2>1 DEF TypeOK
  <2>5. OpenedNow(h)
    BY <1>1, <1>2, <2>2, <2>3 DEF OpenedNow
  <2> QED
    BY <1>2, <2>4, <2>5, SameMounts DEF OpenedMoves, Kept
<1>3. CASE /\ OpenWith(h, v, at, mode, ContentOf(v)[at].size)
           /\ UNCHANGED <<mounts, nextGeneration, disk>>
  BY <1>2, <1>3
<1>4. CASE /\ WriteAnswered(v, With(ContentOf(v), at, File(0)))
           /\ OpenWith(h, v, at, mode, 0)
  BY <1>2, <1>4 DEF WriteAnswered
<1>5. CASE WriteVolume(v, FALSE, ContentOf(v)) /\ UNCHANGED opened
  BY <1>5, WriteVolumeMoves, SameFiles, StillOpen
<1>6. CASE /\ MediumFailed(v, {ContentOf(v), With(ContentOf(v), at, File(0))})
           /\ UNCHANGED opened
  BY <1>6, WriteEndsMove, SameFiles, StillOpen
<1> QED
  BY <1>3, <1>4, <1>5, <1>6 DEF Open

LEMMA PathMoved == TypeOK /\ PathStep => MountsMove /\ OpenedMoves
<1> SUFFICES ASSUME TypeOK, NEW v \in Volumes, NEW path \in Paths,
      \/ CreateDir(v, path)
      \/ \E kind \in {"file", "dir"} : RemoveEntry(v, path, kind)
      \/ \E target \in Paths : Rename(v, path, target)
      \/ \E mode \in Modes, n \in 0..MaxSize : WriteStream(v, path, mode, n)
      \/ \E h \in Handles, mode \in Modes : Open(h, v, path, mode)
    PROVE MountsMove /\ OpenedMoves
  BY DEF PathStep
<1>1. CASE CreateDir(v, path)
  BY <1>1, WriteVolumeMoves, SameFiles, StillOpen DEF CreateDir
<1>2. ASSUME NEW kind \in {"file", "dir"}, RemoveEntry(v, path, kind) PROVE MountsMove /\ OpenedMoves
  BY <1>2, WriteVolumeMoves, SameFiles, StillOpen DEF RemoveEntry
<1>3. ASSUME NEW target \in Paths, Rename(v, path, target) PROVE MountsMove /\ OpenedMoves
  BY <1>3, WriteVolumeMoves, SameFiles, StillOpen DEF Rename
<1>4. ASSUME NEW mode \in Modes, NEW n \in 0..MaxSize, WriteStream(v, path, mode, n)
      PROVE  MountsMove /\ OpenedMoves
  <2>1. MountsMove /\ UNCHANGED files
    BY <1>4, WriteEndsMove DEF WriteStream
  <2> QED
    BY <1>4, <2>1, SameFiles, StillOpen DEF WriteStream
<1> QED
  BY <1>1, <1>2, <1>3, <1>4, OpenMoved

LEMMA HandleMoved == TypeOK /\ HandleStep => MountsMove /\ OpenedMoves
<1> SUFFICES ASSUME TypeOK, NEW h \in Handles,
      \/ Close(h)
      \/ \E n \in 0..MaxSize : Seek(h, n) \/ Write(h, n)
      \/ \E n \in 1..MaxSize : Read(h, n)
    PROVE MountsMove /\ OpenedMoves
  BY DEF HandleStep
<1>1. CASE Close(h)
  BY <1>1, SameMounts DEF Close, OpenedMoves, Kept, TypeOK
<1>2. ASSUME NEW f, files[h] # NoFile, files' = [files EXCEPT ![h] = f], UNCHANGED opened,
             f.volume = files[h].volume, f.generation = files[h].generation
      PROVE  OpenedMoves
  BY <1>2, StillOpen DEF SameOpen, Kept, TypeOK
<1>3. ASSUME NEW n \in 0..MaxSize, Seek(h, n) PROVE MountsMove /\ OpenedMoves
  <2>1. files[h] \in OpenFile
    BY <1>3 DEF Seek, TypeOK
  <2>2. [files[h] EXCEPT !.offset = n].volume = files[h].volume
        /\ [files[h] EXCEPT !.offset = n].generation = files[h].generation
    BY <2>1 DEF OpenFile
  <2>3. files' = [files EXCEPT ![h] = [files[h] EXCEPT !.offset = n]]
    BY <1>3 DEF Seek
  <2> QED
    BY <1>2, <1>3, <2>2, <2>3, SameMounts DEF Seek
<1>4. ASSUME NEW n \in 1..MaxSize, Read(h, n) PROVE MountsMove /\ OpenedMoves
  <2>1. files[h] \in OpenFile
    BY <1>4 DEF Read, Live, TypeOK
  <2>2. \E o : files' = [files EXCEPT ![h] = [files[h] EXCEPT !.offset = o]]
    BY <1>4 DEF Read
  <2>3. PICK o : files' = [files EXCEPT ![h] = [files[h] EXCEPT !.offset = o]]
    BY <2>2
  <2>4. [files[h] EXCEPT !.offset = o].volume = files[h].volume
        /\ [files[h] EXCEPT !.offset = o].generation = files[h].generation
    BY <2>1 DEF OpenFile
  <2> QED
    BY <1>2, <1>4, <2>3, <2>4, SameMounts DEF Read, Live
<1>5. ASSUME NEW n \in 0..MaxSize, Write(h, n) PROVE MountsMove /\ OpenedMoves
  <2>1. files[h] \in OpenFile /\ files[h].volume \in Volumes /\ UNCHANGED opened
    BY <1>5 DEF Write, Live, TypeOK, OpenFile
  <2>2. ASSUME NEW k, files' = [files EXCEPT ![h] = Written(files[h], k)] PROVE OpenedMoves
    <3>1. Written(files[h], k).volume = files[h].volume
          /\ Written(files[h], k).generation = files[h].generation
      BY <2>1 DEF Written, OpenFile
    <3> QED
      BY <1>2, <1>5, <2>1, <2>2, <3>1 DEF Write, Live
  <2>3. MountsMove /\ (UNCHANGED files \/ \E k : files' = [files EXCEPT ![h] = Written(files[h], k)])
    BY <1>5, <2>1, WriteEndsMove DEF Write
  <2> QED
    BY <2>1, <2>2, <2>3, SameFiles, StillOpen
<1> QED
  BY <1>1, <1>3, <1>4, <1>5

LEMMA NextMoved == TypeOK /\ [Next]_vars => MountsMove /\ OpenedMoves
<1> SUFFICES ASSUME TypeOK, [Next]_vars PROVE MountsMove /\ OpenedMoves
  OBVIOUS
<1>1. CASE UNCHANGED vars
  BY <1>1, SameMounts, SameFiles, StillOpen DEF vars
<1>2. CASE BusStep
  <2>1. UNCHANGED <<mounts, files, opened>>
    BY <1>2 DEF BusStep, Enumerated, Lost, Disconnected, MediumMoves, vfs
  <2> QED
    BY <2>1, SameMounts, SameFiles, StillOpen
<1> QED
  BY <1>1, <1>2, TableMoved, PathMoved, HandleMoved DEF Next

(* A live handle is still served by the mount it had: where a mount was    *)
(* made its generation is new.                                             *)
LEMMA LiveWasLive ==
  ASSUME IInv, IInv', [Next]_vars, NEW h \in Handles, Live(h)', Kept(h)
  PROVE  Live(h) /\ mounts'[files[h].volume] = mounts[files[h].volume]
<1> DEFINE v == files[h].volume
<1>1. v \in Volumes /\ files[h].generation < nextGeneration /\ files[h].generation \in Nat
  BY DEF IInv, TypeOK, OpenFile, NoFile, GenerationsDistinct, Kept
<1>2. mounts'[v] # NoMount /\ mounts'[v].generation = files[h].generation
  BY DEF Live, Kept
<1>3. nextGeneration \in Nat
  BY DEF IInv, TypeOK
<1>4. mounts'[v] = mounts[v]
  BY <1>1, <1>2, <1>3, NextShape DEF IInv, StepShape, TableMoves, OnlyDropped, Added
<1> QED
  BY <1>2, <1>4 DEF Live, Kept

OInv == IInv /\ OffTheBus /\ OpenedAsMounted

LEMMA OpenedInductive == Spec => []OInv
<1>1. Init => OffTheBus /\ OpenedAsMounted
  BY VolumesAssumption DEF Init, OffTheBus, OpenedAsMounted, RootMount, Live
<1>2. IInv /\ IInv' /\ OffTheBus /\ OpenedAsMounted /\ [Next]_vars => OffTheBus' /\ OpenedAsMounted'
  <2> SUFFICES ASSUME IInv, IInv', OffTheBus, OpenedAsMounted, [Next]_vars
               PROVE  OffTheBus' /\ OpenedAsMounted'
    OBVIOUS
  <2>1. MountsMove /\ OpenedMoves
    BY NextMoved DEF IInv
  <2>2. OffTheBus'
    BY <2>1 DEF OffTheBus, MountsMove, Made, Gone
  <2>3. ASSUME NEW h \in Handles, Live(h)'
        PROVE  /\ opened'[h].epoch = mounts'[files'[h].volume].epoch
               /\ BlockCount[opened'[h].medium] = mounts'[files'[h].volume].print.blocks
    <3>1. files'[h] # NoFile
      BY <2>3 DEF Live
    <3>2. CASE Kept(h) /\ opened'[h] = opened[h]
      <4>1. Live(h) /\ mounts'[files[h].volume] = mounts[files[h].volume]
        BY <2>3, <3>2, LiveWasLive
      <4> QED
        BY <3>2, <4>1 DEF OpenedAsMounted, Kept
    <3>3. CASE OpenedNow(h)
      <4>1. PICK v \in Volumes :
              /\ mounts[v] # NoMount /\ Reaches(v, mounts[v])
              /\ files'[h].volume = v /\ mounts' = mounts
              /\ opened'[h] = [medium |-> inside[DeviceOf[v]], epoch |-> EpochAt(mounts[v].location)]
        BY <3>3 DEF OpenedNow
      <4>2. EpochAt(mounts[v].location) = mounts[v].epoch
        BY <4>1 DEF Reaches, Stayed, OffTheBus, EpochAt
      <4> QED
        BY <4>1, <4>2 DEF Reaches
    <3> QED
      BY <2>1, <3>1, <3>2, <3>3 DEF OpenedMoves
  <2> QED
    BY <2>2, <2>3 DEF OpenedAsMounted
<1> QED
  BY <1>1, <1>2, Inductive, PTL DEF Spec, OInv

\* What a handle reads has been connected without a break since the handle was
\* opened, on a medium of the capacity it was opened on (vfs.rs, with_volume).
THEOREM ReadersAreUninterrupted == Spec => []ReadableMeansUninterrupted
<1>1. OInv => ReadableMeansUninterrupted
  <2> SUFFICES ASSUME OInv, NEW h \in Handles, Live(h),
                      Reaches(files[h].volume, mounts[files[h].volume])
               PROVE  /\ opened[h].epoch = EpochAt(LocationOf(DeviceOf[files[h].volume]))
                      /\ BlockCount[opened[h].medium] = BlockCount[inside[DeviceOf[files[h].volume]]]
    BY DEF ReadableMeansUninterrupted
  <2> DEFINE v == files[h].volume
  <2>1. v \in Volumes /\ mounts[v] # NoMount
    BY DEF Live, OInv, IInv, TypeOK, OpenFile
  <2>2. mounts[v].epoch = EpochAt(LocationOf(DeviceOf[v]))
    BY <2>1 DEF Reaches, Stayed, OInv, OffTheBus, LocationOf, EpochAt
  <2> QED
    BY <2>2 DEF OInv, OpenedAsMounted, Reaches
<1> QED
  BY <1>1, OpenedInductive, PTL

\* umount never takes the volume from under an open file: a handle loses it
\* only where the generation moves on (vfs.rs, umount).
THEOREM UmountWaitsForHandles == Spec => UmountStrandsNoHandle
<1> DEFINE Step == \A h \in Handles :
             Live(h) /\ files'[h] = files[h] /\ ~Live(h)' => nextGeneration' > nextGeneration
<1>1. IInv /\ [Next]_vars => Step
  <2> SUFFICES ASSUME IInv, [Next]_vars, NEW h \in Handles,
                      Live(h), files'[h] = files[h], ~Live(h)'
               PROVE  nextGeneration' > nextGeneration
    OBVIOUS
  <2>1. files[h].volume \in Volumes
    BY DEF Live, IInv, TypeOK, OpenFile
  <2>2. mounts'[files[h].volume] # mounts[files[h].volume]
    BY DEF Live
  <2> QED
    BY <2>1, <2>2, NextMoved DEF IInv, MountsMove, Made, Gone, Live
<1> QED
  BY <1>1, Inductive, PTL DEF Spec, UmountStrandsNoHandle
----------------------------------------------------------------------------
(* The names kept on the RAM root.                                         *)

(* As `path` is spelled on the volume: /tmp, and /vol with all below it.   *)
Reserved(path) == path[1] = Vol \/ path = <<Tmp>>
Spares(before, after) == \A path \in Tree : Reserved(path) => after[path] = before[path]
ReservedKept == \A p \in Partitions : Spares(disk[RamMedium][p], disk'[RamMedium][p])

(* No other device answers with the memory behind the RAM disk.            *)
RamIsAlone == \A d \in Devices : inside[d] = RamMedium => d = Ram

(* A handle that can write on the RAM disk was not opened on such a name.  *)
OpenPathsAreFree == \A h \in Handles :
  files[h] # NoFile /\ files[h].volume = RamVolume /\ files[h].mode # "Read"
    => ~Reserved(files[h].path)

(* What reserved_mutation refuses as it is typed is what is reserved as it *)
(* is stored.                                                              *)
LEMMA RefusedIsReserved ==
  ASSUME NEW path \in Paths, ~ReservedMutation(RamVolume, path),
         Within(RamVolume, path) \in Tree
  PROVE  ~Reserved(Within(RamVolume, path))
<1> DEFINE at == Within(RamVolume, path)
<1>1. path \in Seq(DOMAIN FoldOf) /\ Len(path) \in Nat
  BY TreeAssumption
<1>2. at = Fold(path)
  <2>1. PointOf(RamVolume) = <<>>
    BY DEF PointOf
  <2>2. Len(PointOf(RamVolume)) + 1 = 1
    BY <2>1
  <2>3. SubSeq(path, 1, Len(path)) = path
    BY <1>1, SubSeqFull
  <2> QED
    BY <2>2, <2>3 DEF Within
<1>3. at # <<>> /\ at \in Seq(DOMAIN FoldOf)
  BY TreeAssumption
<1>4. DOMAIN at = 1..Len(path)
  BY <1>1, <1>2 DEF Fold
<1>5. Len(at) = Len(path)
  BY <1>1, <1>3, <1>4
<1>6. Len(path) > 0
  BY <1>1, <1>3, <1>5
<1>7. at[1] = FoldOf[path[1]] /\ path # <<>>
  BY <1>1, <1>2, <1>6 DEF Fold
<1>8. at[1] # Vol
  BY <1>7 DEF ReservedMutation
<1>9. at # <<Tmp>>
  <2>1. SUFFICES ASSUME at = <<Tmp>> PROVE FALSE
    OBVIOUS
  <2>2. at[1] = Tmp /\ Len(at) = 1
    BY <2>1
  <2> QED
    BY <1>5, <1>7, <2>2 DEF ReservedMutation
<1> QED
  BY <1>8, <1>9 DEF Reserved

(* Changes away from the reserved names leave them as they are.            *)
LEMMA WithSpares ==
  ASSUME NEW content \in Contents, NEW path, ~Reserved(path), NEW entry
  PROVE  Spares(content, With(content, path, entry))
BY DEF With, Spares, Contents

LEMMA ExtendedSpares ==
  ASSUME NEW content \in Contents, NEW path, ~Reserved(path), NEW fromStart, NEW n,
         NEW after \in Extended(content, path, fromStart, n)
  PROVE  Spares(content, after)
<1>1. PICK k : after = With(content, path, File((IF ~fromStart /\ IsFile(content, path) THEN content[path].size ELSE 0) + k))
  BY DEF Extended
<1> QED
  BY <1>1, WithSpares

(* A reserved name is not below one that is not.                           *)
LEMMA PrefixIsReserved ==
  ASSUME NEW from \in Tree, NEW path \in Tree, IsPrefix(from, path), Reserved(path)
  PROVE  Reserved(from)
<1>1. from \in Seq(DOMAIN FoldOf) /\ path \in Seq(DOMAIN FoldOf) /\ from # <<>>
  BY TreeAssumption
<1>2. Len(from) \in Nat /\ Len(from) > 0 /\ Len(path) \in Nat /\ Len(from) <= Len(path)
  BY <1>1 DEF IsPrefix
<1>3. SubSeq(from, 1, Len(from)) = from
  BY <1>1, SubSeqFull
<1>4. \A i \in 1..Len(from) : path[i] \in DOMAIN FoldOf
  BY <1>1, <1>2
<1>5. \A i \in 1..Len(from) : SubSeq(path, 1, Len(from))[i] = path[i]
  <2>1. \A i \in 1..Len(from) - 1 + 1 : SubSeq(path, 1, Len(from))[i] = path[1 + i - 1]
    BY <1>2, <1>4, SubSeqProperties
  <2> QED
    BY <1>2, <2>1
<1>6. \A i \in 1..Len(from) : from[i] = path[i]
  BY <1>3, <1>5 DEF IsPrefix
<1>7. from[1] = path[1]
  BY <1>2, <1>6
<1>8. CASE path = <<Tmp>>
  <2>1. Len(path) = 1 /\ path[1] = Tmp
    BY <1>8
  <2>2. Len(from) = 1 /\ from[1] = Tmp
    BY <1>2, <1>7, <2>1
  <2>3. from = <<Tmp>>
    BY <1>1, <2>2
  <2> QED
    BY <2>3 DEF Reserved
<1> QED
  BY <1>7, <1>8 DEF Reserved

LEMMA RenamedSpares ==
  ASSUME NEW content \in Contents, NEW from \in Tree, NEW to \in Tree,
         ~Reserved(from), ~Reserved(to)
  PROVE  Spares(content, Renamed(content, from, to))
<1> SUFFICES ASSUME NEW path \in Tree, Reserved(path)
             PROVE  Renamed(content, from, to)[path] = content[path]
  BY DEF Spares
<1>1. path \notin Under(from) /\ path \notin Under(to)
  BY PrefixIsReserved DEF Under
<1> QED
  BY <1>1 DEF Renamed

LEMMA PutSpares ==
  ASSUME TypeOK, RamIsAlone, NEW v \in Volumes, Answers(DeviceOf[v]), NEW content, Put(v, content),
         v = RamVolume => Spares(ContentOf(v), content)
  PROVE  ReservedKept
<1> DEFINE m == inside[DeviceOf[v]]
<1>1. m \in Media /\ DeviceOf[v] \in Devices /\ PartitionOf[v] \in Partitions
  BY VolumesAssumption DEF TypeOK, Answers
<1>2. disk' = [disk EXCEPT ![m][PartitionOf[v]] = content] /\ disk \in [Media -> [Partitions -> Contents]]
  BY DEF Put, TypeOK
<1>3. CASE m # RamMedium
  BY <1>2, <1>3, MediaAssumption DEF ReservedKept, Spares
<1>4. CASE m = RamMedium
  <2>1. v = RamVolume
    BY <1>1, <1>4, VolumesAssumption DEF RamIsAlone
  <2>2. Spares(disk[RamMedium][PartitionOf[v]], content)
    BY <1>4, <2>1 DEF ContentOf
  <2>3. ASSUME NEW p \in Partitions
        PROVE  disk'[RamMedium][p] = IF p = PartitionOf[v] THEN content ELSE disk[RamMedium][p]
    BY <1>1, <1>2, <1>4
  <2> QED
    BY <2>2, <2>3 DEF ReservedKept, Spares
<1> QED
  BY <1>3, <1>4

LEMMA SameDisk == ASSUME UNCHANGED disk PROVE ReservedKept
BY DEF ReservedKept, Spares

(* However a write ends, what it may leave spares the reserved names.      *)
LEMMA WriteEndsSpare ==
  ASSUME TypeOK, RamIsAlone, NEW v \in Volumes
  PROVE  /\ WriteRefused(v) => ReservedKept
         /\ \A content : WriteAnswered(v, content) /\ Spares(ContentOf(v), content) => ReservedKept
         /\ \A leftovers : MediumFailed(v, leftovers) => ReservedKept
         /\ \A leftovers : MediumFailedUnseen(v, leftovers) => ReservedKept
<1>1. WriteGranted(v) => Answers(DeviceOf[v])
  BY DEF WriteGranted, Reaches
<1>2. WriteRefused(v) => ReservedKept
  BY SameDisk DEF WriteRefused
<1>3. ASSUME NEW content, WriteAnswered(v, content), Spares(ContentOf(v), content) PROVE ReservedKept
  BY <1>1, <1>3, PutSpares DEF WriteAnswered
<1>4. ASSUME NEW leftovers, MediumFailed(v, leftovers) PROVE ReservedKept
  BY <1>1, <1>4, PutSpares DEF MediumFailed
<1>5. ASSUME NEW leftovers, MediumFailedUnseen(v, leftovers) PROVE ReservedKept
  BY <1>1, <1>5, PutSpares DEF MediumFailedUnseen
<1> QED
  BY <1>2, <1>3, <1>4, <1>5

LEMMA WriteVolumeSpares ==
  ASSUME TypeOK, RamIsAlone, NEW v \in Volumes, NEW possible, NEW after,
         WriteVolume(v, possible, after),
         v = RamVolume /\ WriteGranted(v) /\ possible => Spares(ContentOf(v), after)
  PROVE  ReservedKept
<1>1. CASE WriteGranted(v) /\ possible /\ WriteAnswered(v, after)
  <2>1. Answers(DeviceOf[v]) /\ Put(v, after)
    BY <1>1 DEF WriteAnswered, WriteGranted, Reaches
  <2> QED
    BY <1>1, <2>1, PutSpares
<1> QED
  BY <1>1, WriteEndsSpare DEF WriteVolume

LEMMA PathSpares == TypeOK /\ RamIsAlone /\ PathStep => ReservedKept
<1> SUFFICES ASSUME TypeOK, RamIsAlone, NEW v \in Volumes, NEW path \in Paths,
      \/ CreateDir(v, path)
      \/ \E kind \in {"file", "dir"} : RemoveEntry(v, path, kind)
      \/ \E target \in Paths : Rename(v, path, target)
      \/ \E mode \in Modes, n \in 0..MaxSize : WriteStream(v, path, mode, n)
      \/ \E h \in Handles, mode \in Modes : Open(h, v, path, mode)
    PROVE ReservedKept
  BY DEF PathStep
<1> DEFINE at == Within(v, path)
<1>0. WriteGranted(v) => Answers(DeviceOf[v]) /\ ContentOf(v) \in Contents
  BY ContentTypes DEF WriteGranted, Reaches
<1>1. v = RamVolume /\ ~ReservedMutation(v, path) /\ at \in Tree => ~Reserved(at)
  BY RefusedIsReserved
<1>2. ASSUME CreateDir(v, path) PROVE ReservedKept
  <2>1. ~ReservedMutation(v, path) /\ WriteVolume(v, Creatable(ContentOf(v), at), With(ContentOf(v), at, Directory))
    BY <1>2 DEF CreateDir
  <2>2. v = RamVolume /\ WriteGranted(v) /\ Creatable(ContentOf(v), at)
          => Spares(ContentOf(v), With(ContentOf(v), at, Directory))
    BY <1>0, <1>1, <2>1, WithSpares DEF Creatable, Absent
  <2> QED
    BY <2>1, <2>2, WriteVolumeSpares
<1>3. ASSUME NEW kind \in {"file", "dir"}, RemoveEntry(v, path, kind) PROVE ReservedKept
  <2>1. ~ReservedMutation(v, path) /\ WriteVolume(v, Removable(ContentOf(v), at, kind), With(ContentOf(v), at, Missing))
    BY <1>3 DEF RemoveEntry
  <2>2. v = RamVolume /\ WriteGranted(v) /\ Removable(ContentOf(v), at, kind)
          => Spares(ContentOf(v), With(ContentOf(v), at, Missing))
    BY <1>0, <1>1, <2>1, WithSpares DEF Removable
  <2> QED
    BY <2>1, <2>2, WriteVolumeSpares
<1>4. ASSUME NEW target \in Paths, Rename(v, path, target) PROVE ReservedKept
  <2> DEFINE to == Within(v, target)
  <2>1. /\ ~ReservedMutation(v, path) /\ ~ReservedMutation(v, target)
        /\ WriteVolume(v, Renamable(ContentOf(v), at, to), Renamed(ContentOf(v), at, to))
    BY <1>4 DEF Rename
  <2>2. v = RamVolume /\ to \in Tree => ~Reserved(to)
    BY <2>1, RefusedIsReserved
  <2>3. Renamable(ContentOf(v), at, to) => at \in Tree /\ to \in Tree
    BY DEF Renamable, Creatable, Absent
  <2>4. v = RamVolume /\ WriteGranted(v) /\ Renamable(ContentOf(v), at, to)
          => Spares(ContentOf(v), Renamed(ContentOf(v), at, to))
    BY <1>0, <1>1, <2>1, <2>2, <2>3, RenamedSpares
  <2> QED
    BY <2>1, <2>4, WriteVolumeSpares
<1>5. ASSUME NEW mode \in Modes, NEW n \in 0..MaxSize, WriteStream(v, path, mode, n) PROVE ReservedKept
  <2> DEFINE stages == Extended(ContentOf(v), at, mode = "Truncate", n)
  <2>1. ~ReservedMutation(v, path)
    BY <1>5 DEF WriteStream
  <2>2. ASSUME NEW content \in stages, WriteAnswered(v, content),
               IsFile(ContentOf(v), at) \/ Creatable(ContentOf(v), at)
        PROVE  ReservedKept
    <3>1. at \in Tree
      BY <2>2 DEF IsFile, Creatable, Absent
    <3>2. Answers(DeviceOf[v]) /\ Put(v, content) /\ ContentOf(v) \in Contents
      BY <1>0, <2>2 DEF WriteAnswered
    <3>3. v = RamVolume => Spares(ContentOf(v), content)
      BY <1>1, <2>1, <3>1, <3>2, ExtendedSpares
    <3> QED
      BY <3>2, <3>3, PutSpares
  <2> HIDE DEF stages
  <2>3. \/ WriteRefused(v)
        \/ \E leftovers : MediumFailed(v, leftovers)
        \/ \E leftovers : MediumFailedUnseen(v, leftovers)
        \/ /\ IsFile(ContentOf(v), at) \/ Creatable(ContentOf(v), at)
           /\ \E content \in stages : WriteAnswered(v, content)
    BY <1>5 DEF WriteStream, stages
  <2> QED
    BY <2>2, <2>3, WriteEndsSpare
<1>6. ASSUME NEW h \in Handles, NEW mode \in Modes, Open(h, v, path, mode) PROVE ReservedKept
  <2>1. ASSUME mode # "Read", Creatable(ContentOf(v), at), WriteAnswered(v, With(ContentOf(v), at, File(0)))
        PROVE  ReservedKept
    <3>1. ~ReservedMutation(v, path) /\ at \in Tree
      BY <1>6, <2>1 DEF Open, Creatable, Absent
    <3>2. Answers(DeviceOf[v]) /\ Put(v, With(ContentOf(v), at, File(0))) /\ ContentOf(v) \in Contents
      BY <1>0, <2>1 DEF WriteAnswered
    <3>3. v = RamVolume => Spares(ContentOf(v), With(ContentOf(v), at, File(0)))
      BY <1>1, <3>1, <3>2, WithSpares
    <3> QED
      BY <3>2, <3>3, PutSpares
  <2>2. \/ UNCHANGED disk
        \/ /\ mode # "Read" /\ Creatable(ContentOf(v), at)
           /\ WriteAnswered(v, With(ContentOf(v), at, File(0)))
        \/ WriteVolume(v, FALSE, ContentOf(v))
        \/ \E leftovers : MediumFailed(v, leftovers)
    BY <1>6 DEF Open
  <2>3. WriteVolume(v, FALSE, ContentOf(v)) => ReservedKept
    BY WriteVolumeSpares
  <2> QED
    BY <2>1, <2>2, <2>3, SameDisk, WriteEndsSpare
<1> QED
  BY <1>2, <1>3, <1>4, <1>5, <1>6

LEMMA WriteSpares ==
  ASSUME TypeOK, RamIsAlone, OpenPathsAreFree, NEW h \in Handles, NEW n \in 0..MaxSize, Write(h, n)
  PROVE  ReservedKept
<1> DEFINE fl == files[h]
           v == fl.volume
           before == ContentOf(v)
           start == IF FromStart(fl) THEN 0 ELSE before[fl.path].size
<1>1. fl # NoFile /\ fl \in OpenFile /\ v \in Volumes /\ fl.mode # "Read"
  BY DEF Write, Live, TypeOK, OpenFile
<1>2. v = RamVolume => ~Reserved(fl.path)
  BY <1>1 DEF OpenPathsAreFree
<1>3. ASSUME NEW size, WriteAnswered(v, With(before, fl.path, File(size))) PROVE ReservedKept
  <2>1. Answers(DeviceOf[v]) /\ Put(v, With(before, fl.path, File(size)))
    BY <1>3 DEF WriteAnswered, WriteGranted, Reaches
  <2>2. before \in Contents
    BY <1>1, <2>1, ContentTypes
  <2>3. v = RamVolume => Spares(before, With(before, fl.path, File(size)))
    BY <1>2, <2>2, WithSpares
  <2> QED
    BY <1>1, <2>1, <2>3, PutSpares
<1> HIDE DEF start
<1>4. \/ WriteRefused(v)
      \/ \E leftovers : MediumFailed(v, leftovers)
      \/ \E leftovers : MediumFailedUnseen(v, leftovers)
      \/ \E size : WriteAnswered(v, With(before, fl.path, File(size)))
  BY DEF Write, start
<1> QED
  BY <1>1, <1>3, <1>4, WriteEndsSpare

(* A handle keeps the name and the mode it was opened with.                *)
KeepsItsName(h) ==
  /\ files[h] # NoFile /\ files'[h].volume = files[h].volume
  /\ files'[h].path = files[h].path /\ files'[h].mode = files[h].mode
NamesMove == \A h \in Handles :
  \/ files'[h] = NoFile
  \/ KeepsItsName(h)
  \/ files'[h].volume = RamVolume /\ files'[h].mode # "Read" => ~Reserved(files'[h].path)

LEMMA SameNames == ASSUME UNCHANGED files PROVE NamesMove
BY DEF NamesMove, KeepsItsName

LEMMA OpenNames ==
  ASSUME TypeOK, NEW h \in Handles, NEW v \in Volumes, NEW path \in Paths, NEW mode \in Modes,
         Open(h, v, path, mode)
  PROVE  NamesMove
<1> DEFINE at == Within(v, path)
<1>1. ASSUME NEW size, OpenWith(h, v, at, mode, size), at \in Tree PROVE NamesMove
  <2>1. files' = [files EXCEPT ![h] = NewFile(v, at, mode, size)]
    BY <1>1 DEF OpenWith
  <2>2. files'[h].volume = v /\ files'[h].path = at /\ files'[h].mode = mode
    BY <2>1 DEF NewFile, TypeOK
  <2>3. \A k \in Handles \ {h} : files'[k] = files[k]
    BY <2>1 DEF TypeOK
  <2>4. v = RamVolume /\ mode # "Read" => ~Reserved(at)
    BY <1>1, RefusedIsReserved DEF Open
  <2> QED
    BY <2>2, <2>3, <2>4 DEF NamesMove, KeepsItsName
<1>2. CASE IsFile(ContentOf(v), at) /\ OpenWith(h, v, at, mode, ContentOf(v)[at].size)
  BY <1>1, <1>2 DEF IsFile
<1>3. CASE Creatable(ContentOf(v), at) /\ OpenWith(h, v, at, mode, 0)
  BY <1>1, <1>3 DEF Creatable, Absent
<1>4. CASE WriteVolume(v, FALSE, ContentOf(v))
  BY <1>4, WriteVolumeMoves, SameNames
<1>5. CASE MediumFailed(v, {ContentOf(v), With(ContentOf(v), at, File(0))})
  BY <1>5, WriteEndsMove, SameNames
<1> QED
  BY <1>2, <1>3, <1>4, <1>5 DEF Open

LEMMA HandleNames == TypeOK /\ HandleStep => NamesMove
<1> SUFFICES ASSUME TypeOK, NEW h \in Handles,
      \/ Close(h)
      \/ \E n \in 0..MaxSize : Seek(h, n) \/ Write(h, n)
      \/ \E n \in 1..MaxSize : Read(h, n)
    PROVE NamesMove
  BY DEF HandleStep
<1>1. CASE Close(h)
  BY <1>1 DEF Close, NamesMove, KeepsItsName, TypeOK
<1>2. ASSUME NEW f, files[h] # NoFile, files' = [files EXCEPT ![h] = f],
             f.volume = files[h].volume, f.path = files[h].path, f.mode = files[h].mode
      PROVE  NamesMove
  BY <1>2 DEF NamesMove, KeepsItsName, TypeOK
<1>3. ASSUME NEW o, files[h] # NoFile, files' = [files EXCEPT ![h].offset = o] PROVE NamesMove
  <2>1. files[h] \in OpenFile
    BY <1>3 DEF TypeOK
  <2>2. /\ [files[h] EXCEPT !.offset = o].volume = files[h].volume
        /\ [files[h] EXCEPT !.offset = o].path = files[h].path
        /\ [files[h] EXCEPT !.offset = o].mode = files[h].mode
    BY <2>1 DEF OpenFile
  <2>3. files' = [files EXCEPT ![h] = [files[h] EXCEPT !.offset = o]]
    BY <1>3
  <2> QED
    BY <1>2, <1>3, <2>2, <2>3
<1>4. ASSUME NEW n, Seek(h, n) \/ Read(h, n) PROVE NamesMove
  BY <1>3, <1>4 DEF Seek, Read, Live
<1>5. ASSUME NEW n \in 0..MaxSize, Write(h, n) PROVE NamesMove
  <2>1. files[h] \in OpenFile /\ files[h].volume \in Volumes
    BY <1>5 DEF Write, Live, TypeOK, OpenFile
  <2>2. ASSUME NEW k, files' = [files EXCEPT ![h] = Written(files[h], k)] PROVE NamesMove
    <3>1. /\ Written(files[h], k).volume = files[h].volume
          /\ Written(files[h], k).path = files[h].path
          /\ Written(files[h], k).mode = files[h].mode
      BY <2>1 DEF Written, OpenFile
    <3> QED
      BY <1>2, <1>5, <2>2, <3>1 DEF Write, Live
  <2>3. UNCHANGED files \/ \E k : files' = [files EXCEPT ![h] = Written(files[h], k)]
    BY <1>5, <2>1, WriteEndsMove DEF Write
  <2> QED
    BY <2>2, <2>3, SameNames
<1> QED
  BY <1>1, <1>4, <1>5

NInv == IInv /\ RamIsAlone /\ OpenPathsAreFree /\ ReservedNamespaceIntact

LEMMA NextSpares == NInv /\ [Next]_vars => ReservedKept /\ NamesMove /\ RamIsAlone'
<1> SUFFICES ASSUME NInv, [Next]_vars PROVE ReservedKept /\ NamesMove /\ RamIsAlone'
  OBVIOUS
<1>1. TypeOK /\ RootStays /\ RamIsAlone /\ OpenPathsAreFree
  BY DEF NInv, IInv
<1>2. CASE UNCHANGED vars
  BY <1>1, <1>2, SameDisk, SameNames DEF vars, RamIsAlone
<1>3. CASE TableStep
  <2>1. UNCHANGED <<files, disk, inside>>
    BY <1>3 DEF TableStep, MountVolume, Verify, PruneDisconnected, Umount, bus
  <2> QED
    BY <1>1, <2>1, SameDisk, SameNames DEF RamIsAlone
<1>4. CASE PathStep
  <2>1. UNCHANGED inside
    <3>1. \A v, path : CreateDir(v, path) => UNCHANGED bus
      BY DEF CreateDir
    <3>2. \A v, path, kind : RemoveEntry(v, path, kind) => UNCHANGED bus
      BY DEF RemoveEntry
    <3>3. \A v, path, target : Rename(v, path, target) => UNCHANGED bus
      BY DEF Rename
    <3>4. \A v, path, mode, n : WriteStream(v, path, mode, n) => UNCHANGED bus
      BY DEF WriteStream
    <3>5. \A h, v, path, mode : Open(h, v, path, mode) => UNCHANGED bus
      BY DEF Open
    <3>6. UNCHANGED bus
      BY <1>4, <3>1, <3>2, <3>3, <3>4, <3>5 DEF PathStep
    <3> QED
      BY <3>6 DEF bus
  <2>2. NamesMove
    <3>1. PICK v \in Volumes, path \in Paths :
            \/ CreateDir(v, path)
            \/ \E kind \in {"file", "dir"} : RemoveEntry(v, path, kind)
            \/ \E target \in Paths : Rename(v, path, target)
            \/ \E mode \in Modes, n \in 0..MaxSize : WriteStream(v, path, mode, n)
            \/ \E h \in Handles, mode \in Modes : Open(h, v, path, mode)
      BY <1>4 DEF PathStep
    <3>2. ASSUME NEW mode \in Modes, NEW n \in 0..MaxSize, WriteStream(v, path, mode, n) PROVE UNCHANGED files
      BY <1>1, <3>2, WriteEndsMove DEF WriteStream
    <3>3. (\E possible, after : WriteVolume(v, possible, after)) => UNCHANGED files
      BY <1>1, WriteVolumeMoves
    <3> QED
      BY <1>1, <3>1, <3>2, <3>3, OpenNames, SameNames DEF CreateDir, RemoveEntry, Rename
  <2> QED
    BY <1>1, <1>4, <2>1, <2>2, PathSpares DEF RamIsAlone
<1>5. CASE HandleStep
  <2>1. UNCHANGED inside
    BY <1>5 DEF HandleStep, Close, Seek, Read, Write, bus
  <2>2. ReservedKept
    <3>1. UNCHANGED disk \/ \E h \in Handles, n \in 0..MaxSize : Write(h, n)
      BY <1>5 DEF HandleStep, Close, Seek, Read
    <3> QED
      BY <1>1, <3>1, SameDisk, WriteSpares
  <2> QED
    BY <1>1, <1>5, <2>1, <2>2, HandleNames DEF RamIsAlone
<1>6. CASE BusStep
  <2>1. UNCHANGED <<files, disk>>
    BY <1>6 DEF BusStep, Enumerated, Lost, Disconnected, MediumMoves, vfs
  <2>2. InUse(RamMedium) /\ NoMedium # RamMedium
    BY <1>1, VolumesAssumption, MediaAssumption DEF RootStays, InUse
  <2>3. RamIsAlone'
    BY <1>1, <1>6, <2>2, VolumesAssumption
       DEF RamIsAlone, BusStep, Enumerated, Lost, Disconnected, MediumMoves, TypeOK
  <2> QED
    BY <2>1, <2>3, SameDisk, SameNames
<1> QED
  BY <1>2, <1>3, <1>4, <1>5, <1>6 DEF Next

\* Nothing is made, removed, renamed or written under the names kept on the RAM
\* root, in any spelling and whatever volumes come and go (vfs.rs,
\* reserved_mutation): /vol/usb0p1 without its volume is not a path on it.
THEOREM ReservedNamesStay == Spec => []ReservedNamespaceIntact
<1>1. Init => RamIsAlone /\ OpenPathsAreFree /\ ReservedNamespaceIntact
  BY MediaAssumption, VolumesAssumption DEF Init, RamIsAlone, OpenPathsAreFree, ReservedNamespaceIntact
<1>2. IInv /\ IInv' /\ RamIsAlone /\ OpenPathsAreFree /\ ReservedNamespaceIntact /\ [Next]_vars
        => RamIsAlone' /\ OpenPathsAreFree' /\ ReservedNamespaceIntact'
  <2> SUFFICES ASSUME IInv, RamIsAlone, OpenPathsAreFree, ReservedNamespaceIntact, [Next]_vars
               PROVE  RamIsAlone' /\ OpenPathsAreFree' /\ ReservedNamespaceIntact'
    OBVIOUS
  <2>1. ReservedKept /\ NamesMove /\ RamIsAlone'
    BY NextSpares DEF NInv
  <2>2. OpenPathsAreFree'
    BY <2>1 DEF OpenPathsAreFree, NamesMove, KeepsItsName
  <2>3. ReservedNamespaceIntact'
    BY <2>1 DEF ReservedNamespaceIntact, ReservedKept, Spares, Reserved
  <2> QED
    BY <2>1, <2>2, <2>3
<1> QED
  BY <1>1, <1>2, Inductive, PTL DEF Spec
=============================================================================
