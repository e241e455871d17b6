------------------------- MODULE UsbRegistryProofs -------------------------
(***************************************************************************)
(* Theorems about UsbRegistry, for a hub of any size, any number of usbM   *)
(* numbers that exceeds the places on the bus, and any devices: drives are *)
(* never given each other's numbers, and the registry, with all its scans, *)
(* sweeps and rescans, implements UsbNumbers.                              *)
(***************************************************************************)
EXTENDS UsbRegistry, FiniteSetTheorems, WellFoundedInduction, TLAPS

USE DEF cables, numbers, scanning, loop

----------------------------------------------------------------------------
(* The search for a free number.                                           *)

LEMMA LeastNat ==
  ASSUME NEW T \in SUBSET Nat, T # {} PROVE \E x \in T : \A y \in T : x <= y
<1> DEFINE R == OpToRel(<, Nat)
<1>1. IsWellFoundedOn(R, Nat)
  BY NatLessThanWellFounded
<1>2. ASSUME NEW x \in Nat, NEW y \in Nat, y < x PROVE <<y, x>> \in R
  BY <1>2 DEF OpToRel
<1> HIDE DEF R
<1>3. PICK x \in T : \A y \in T : ~(<<y, x>> \in R)
  BY <1>1, WFMin
<1>4. ASSUME NEW y \in T PROVE x <= y
  <2>1. x \in Nat /\ y \in Nat
    OBVIOUS
  <2>2. y < x => <<y, x>> \in R
    BY <1>2, <2>1
  <2>3. ~(y < x)
    BY <1>3, <2>2
  <2> QED BY <2>1, <2>3
<1> QED BY <1>4

\* There are more numbers than places.
LEMMA SomeIdIsFree ==
  ASSUME NEW kept \in [Slots -> Ids \cup {NoId}]
  PROVE  \E id \in Ids : \A l \in Slots : kept[l] # id
<1> DEFINE Used == {kept[l] : l \in Slots}
<1>1. IsFiniteSet(Slots) /\ Cardinality(Slots) = PortCount + 1
  BY FS_Interval, CountsAssumption DEF Slots
<1>2. IsFiniteSet(Ids) /\ Cardinality(Ids) = IdLimit
  BY FS_Interval, CountsAssumption DEF Ids
<1>3. [l \in Slots |-> kept[l]] \in Surjection(Slots, Used)
  BY DEF Surjection
<1>4. IsFiniteSet(Used) /\ Cardinality(Used) <= PortCount + 1
  BY <1>1, <1>3, FS_Surjection
<1>5. Ids \subseteq Used => Cardinality(Ids) <= Cardinality(Used)
  BY <1>4, FS_Subset
<1>6. Cardinality(Used) \in Nat
  BY <1>4, FS_CardinalityType
<1> QED BY <1>2, <1>4, <1>5, <1>6, CountsAssumption

\* Going round: an offset leads to a number, and back.
LEMMA Circle ==
  ASSUME NEW start \in Ids, NEW id \in Ids
  PROVE  /\ (start + id) % IdLimit \in Ids /\ (id - start) % IdLimit \in Ids
         /\ (start + ((id - start) % IdLimit)) % IdLimit = id
         /\ (((start + id) % IdLimit) - start) % IdLimit = id
<1> USE CountsAssumption DEF Ids
<1>1. (start + id) % IdLimit \in Ids /\ (id - start) % IdLimit \in Ids
  OBVIOUS
<1>2. (start + ((id - start) % IdLimit)) % IdLimit = id
  <2>1. CASE id >= start
    <3>1. (id - start) % IdLimit = id - start
      BY <2>1
    <3> QED BY <3>1
  <2>2. CASE id < start
    <3>1. (id - start) % IdLimit = id - start + IdLimit
      BY <2>2
    <3> QED BY <3>1
  <2> QED BY <2>1, <2>2
<1>3. (((start + id) % IdLimit) - start) % IdLimit = id
  <2>1. CASE start + id < IdLimit
    <3>1. (start + id) % IdLimit = start + id
      BY <2>1
    <3> QED BY <3>1
  <2>2. CASE start + id >= IdLimit
    <3>1. (start + id) % IdLimit = start + id - IdLimit
      BY <2>2
    <3>2. ((start + id - IdLimit) - start) % IdLimit = id
      BY <2>2
    <3> QED BY <3>1, <3>2
  <2> QED BY <2>1, <2>2
<1> QED BY <1>1, <1>2, <1>3

NumberTypes ==
  /\ reserved \in [Slots -> Ids \cup {NoId}] /\ current \subseteq Slots /\ nextId \in Ids

\* assign_storage_id hands out the first number from nextId on that no place holds.
LEMMA FreeIdIsNext ==
  ASSUME NumberTypes
  PROVE  /\ FreeId \in Ids /\ ~Held(FreeId)
         /\ \A other \in Ids :
              ~Held(other) => (FreeId - nextId) % IdLimit <= (other - nextId) % IdLimit
<1> DEFINE candidate(offset) == (nextId + offset) % IdLimit
           free == {offset \in Ids : ~Held(candidate(offset))}
<1>1. PICK id \in Ids : ~Held(id)
  <2>1. [l \in Slots |-> IF l \in current THEN reserved[l] ELSE NoId] \in [Slots -> Ids \cup {NoId}]
    BY DEF NumberTypes
  <2>2. PICK id \in Ids :
          \A l \in Slots : [k \in Slots |-> IF k \in current THEN reserved[k] ELSE NoId][l] # id
    BY <2>1, SomeIdIsFree
  <2> QED BY <2>2 DEF Held, NumberTypes
<1>2. \A other \in Ids : ~Held(other) =>
        (other - nextId) % IdLimit \in free /\ candidate((other - nextId) % IdLimit) = other
  BY Circle DEF NumberTypes
<1>3. free # {}
  BY <1>1, <1>2
<1>4. free \in SUBSET Nat
  BY CountsAssumption DEF Ids
<1> DEFINE first == CHOOSE o \in free : \A q \in free : o <= q
<1>5. first \in free /\ \A q \in free : first <= q
  BY <1>3, <1>4, LeastNat
<1>6. FreeId = candidate(first)
  BY <1>3 DEF FreeId
<1>7. (FreeId - nextId) % IdLimit = first /\ FreeId \in Ids
  BY <1>5, <1>6, Circle DEF NumberTypes
<1>8. ~Held(FreeId)
  BY <1>5, <1>6
<1> HIDE DEF first, free
<1>9. ASSUME NEW other \in Ids, ~Held(other)
      PROVE (FreeId - nextId) % IdLimit <= (other - nextId) % IdLimit
  BY <1>2, <1>5, <1>7, <1>9
<1> QED BY <1>7, <1>8, <1>9
----------------------------------------------------------------------------
(* Types.                                                                  *)

\* The scans that fail in a row are counted up to the limit, and no scan is
\* under way once they have been given up.
ScansCounted ==
  /\ paused \/ failures < GiveUp
  /\ at \in {"scan", "scanBind", "scanned"} => ~paused

Typed == TypeOK /\ ScansCounted

LEMMA AssignTypes ==
  ASSUME TypeOK, NEW l \in Slots, Assign(l)
  PROVE  NumberTypes' /\ untouched' \subseteq Slots
<1>1. NumberTypes
  BY DEF TypeOK, NumberTypes
<1>2. CASE l \in current
  BY <1>1, <1>2 DEF Assign, TypeOK, NumberTypes
<1>3. CASE l \notin current
  <2>1. FreeId \in Ids /\ (FreeId + 1) % IdLimit \in Ids
    BY <1>1, FreeIdIsNext, CountsAssumption DEF Ids
  <2> QED BY <1>1, <1>3, <2>1 DEF Assign, TypeOK, NumberTypes
<1> QED BY <1>2, <1>3

LEMMA BindTypes ==
  ASSUME TypeOK, NEW l \in Slots, plugged[l] \in Devices, Bind(l) \/ NotBound(l)
  PROVE  /\ NumberTypes' /\ untouched' \subseteq Slots
         /\ slots' \in [Slots -> Devices \cup {Nothing}]
         /\ unhandled' \subseteq Slots /\ moved' \in BOOLEAN
<1>1. CASE NotBound(l)
  BY <1>1 DEF NotBound, TypeOK, NumberTypes
<1>2. CASE Bind(l)
  <2>1. NumberTypes' /\ untouched' \subseteq Slots
    BY <1>2, AssignTypes DEF Bind, TypeOK, NumberTypes
  <2> QED BY <1>2, <2>1 DEF Bind, TypeOK
<1> QED BY <1>1, <1>2

LEMMA PortsAreSlots == Ports \subseteq Slots /\ 1 \in Ports /\ 0 \in Slots
BY CountsAssumption DEF Ports, Slots

LEMMA CableTypes == Typed /\ CableStep => Typed'
<1> SUFFICES ASSUME Typed, CableStep PROVE Typed'
  OBVIOUS
<1>1. PICK l \in Slots, d \in Devices \cup {HubDevice, Nothing} : CableMoves(l, d)
  BY DEF CableStep, Plug, Unplug
<1>2. moves' \in 0..MaxMoves
  BY <1>1, MovesAssumption DEF CableMoves, Typed, TypeOK
<1>3. latch' \subseteq Ports
  BY <1>1 DEF CableMoves, Typed, TypeOK, Slots, Ports
<1>4. hubAwake' \in BOOLEAN /\ rootEdge' \in BOOLEAN
  BY <1>1 DEF CableMoves, Typed, TypeOK
<1> QED BY <1>1, <1>2, <1>3, <1>4 DEF CableMoves, Typed, TypeOK, ScansCounted

LEMMA DetachTypes ==
  ASSUME TypeOK, NEW gone \in SUBSET Ports, Detach(gone)
  PROVE  /\ NumberTypes' /\ latch' \subseteq Ports
         /\ slots' \in [Slots -> Devices \cup {Nothing}] /\ unhandled' \subseteq Slots
         /\ paused' = FALSE /\ failures' \in 0..GiveUp /\ failures' < GiveUp /\ moved' = TRUE
BY CountsAssumption DEF Detach, TypeOK, NumberTypes

LEMMA ClearTypes ==
  ASSUME TypeOK, ClearRegistry
  PROVE  /\ hub' = FALSE /\ slots' \in [Slots -> Devices \cup {Nothing}]
         /\ paused' = FALSE /\ failures' = 0 /\ failures' \in 0..GiveUp /\ failures' < GiveUp
         /\ moved' = TRUE
BY CountsAssumption DEF ClearRegistry

LEMMA ServiceTypes == Typed /\ ServiceStep => Typed'
<1> SUFFICES ASSUME Typed, ServiceStep PROVE Typed'
  OBVIOUS
<1> USE CountsAssumption, PortsAreSlots
<1>1. CASE TakeEdge
  BY <1>1 DEF TakeEdge, Typed, TypeOK, ScansCounted
<1>2. CASE RootGone
  BY <1>2, ClearTypes DEF RootGone, Typed, TypeOK, ScansCounted
<1>3. CASE RootChanged \/ RootQuiet
  BY <1>3 DEF RootChanged, RootQuiet, Typed, TypeOK, ScansCounted
<1>4. CASE DetachStaleHid
  <2>1. PICK stale \in SUBSET Ports : Detach(stale)
    BY <1>4 DEF DetachStaleHid
  <2> QED BY <1>4, <2>1, DetachTypes
          DEF DetachStaleHid, Detach, Typed, TypeOK, ScansCounted, NumberTypes
<1>5. CASE Sweep
  BY <1>5 DEF Sweep, Typed, TypeOK, ScansCounted
<1>6. CASE SweepPast
  BY <1>6 DEF SweepPast, SweepNext, Ports, Typed, TypeOK, ScansCounted
<1>7. CASE SweepDetach
  <2>1. port' \in Ports /\ at' \in {"room", "sweeping"}
    BY <1>7 DEF SweepDetach, SweepNext, Ports, Typed, TypeOK
  <2>2. Detach({port}) /\ {port} \in SUBSET Ports /\ TypeOK
    BY <1>7 DEF SweepDetach, Typed, TypeOK
  <2>3. /\ NumberTypes' /\ latch' \subseteq Ports
        /\ slots' \in [Slots -> Devices \cup {Nothing}] /\ unhandled' \subseteq Slots
        /\ paused' = FALSE /\ failures' \in 0..GiveUp /\ failures' < GiveUp /\ moved' = TRUE
    BY <2>2, DetachTypes
  <2>4. UNCHANGED <<plugged, rootEdge, hubAwake, moves, hub, probed, back, cycled, untouched>>
    BY <2>2 DEF Detach
  <2> QED BY <2>1, <2>2, <2>3, <2>4 DEF Typed, TypeOK, ScansCounted, NumberTypes
<1>8. CASE Room
  BY <1>8 DEF Room, HasRoom, Typed, TypeOK, ScansCounted
<1>9. CASE ScanPast
  <2>1. port' \in Ports /\ at' \in {"scan", "scanned"}
    BY <1>9 DEF ScanPast, ScanNext, Ports, Typed, TypeOK
  <2> QED BY <1>9, <2>1 DEF ScanPast, Typed, TypeOK, ScansCounted
<1>10. CASE ScanFound
  BY <1>10 DEF ScanFound, Debounced, Typed, TypeOK, ScansCounted
<1>11. CASE ScanFails
  <2>0. failures \in 0..GiveUp /\ failures < GiveUp
    BY <1>11 DEF ScanFails, Typed, TypeOK, ScansCounted
  <2>a. failures' = failures + 1 /\ paused' = (failures + 1 >= GiveUp)
    BY <1>11 DEF ScanFails
  <2>b. paused' \in BOOLEAN
    BY <2>a
  <2>c. failures' \in 0..GiveUp
    BY <2>0, <2>a
  <2>d. paused' \/ failures' < GiveUp
    <3>1. CASE failures + 1 >= GiveUp
      BY <2>a, <3>1, Zenon
    <3>2. CASE ~(failures + 1 >= GiveUp)
      BY <2>0, <2>a, <3>2
    <3> QED BY <3>1, <3>2
  <2>1. failures' \in 0..GiveUp /\ paused' \in BOOLEAN /\ (paused' \/ failures' < GiveUp)
    BY <2>b, <2>c, <2>d
  <2>2. unhandled' \subseteq Slots
    BY <1>11 DEF ScanFails, Typed, TypeOK
  <2> QED BY <1>11, <2>1, <2>2 DEF ScanFails, Typed, TypeOK, ScansCounted
<1>12. CASE ScanEnds
  BY <1>12 DEF ScanEnds, Typed, TypeOK, ScansCounted
<1>13. CASE ScanBind
  <2>1. port' \in Ports /\ at' \in {"scan", "scanned"}
    BY <1>13 DEF ScanBind, ScanNext, Ports, Typed, TypeOK
  <2>2. /\ NumberTypes' /\ untouched' \subseteq Slots
        /\ slots' \in [Slots -> Devices \cup {Nothing}]
        /\ unhandled' \subseteq Slots /\ moved' \in BOOLEAN
    BY <1>13, BindTypes DEF ScanBind, AttachHubPort, Typed, TypeOK, NotBound, NumberTypes
  <2> QED BY <1>13, <2>1, <2>2 DEF ScanBind, Typed, TypeOK, ScansCounted, NumberTypes
<1> QED
  BY <1>1, <1>2, <1>3, <1>4, <1>5, <1>6, <1>7, <1>8, <1>9, <1>10, <1>11, <1>12, <1>13
     DEF ServiceStep

LEMMA RescanTypes == Typed /\ RescanStep => Typed'
<1> SUFFICES ASSUME Typed, RescanStep PROVE Typed'
  OBVIOUS
<1> USE CountsAssumption, PortsAreSlots
<1>1. CASE AskRescan
  BY <1>1 DEF AskRescan, Typed, TypeOK, ScansCounted
<1>2. CASE PowerCycle
  BY <1>2, ClearTypes DEF PowerCycle, Typed, TypeOK, ScansCounted
<1>3. CASE StartRescan
  <2>1. current' \subseteq Slots
    BY <1>3 DEF StartRescan, Typed, TypeOK
  <2> QED BY <1>3, <2>1, ClearTypes DEF StartRescan, Typed, TypeOK, ScansCounted
<1>4. CASE ProbeEmpty \/ ProbeUnreachable
  BY <1>4 DEF ProbeEmpty, ProbeUnreachable, BusReset, Typed, TypeOK, ScansCounted
<1>5. CASE ProbeDirect
  <2>1. /\ NumberTypes' /\ untouched' \subseteq Slots
        /\ slots' \in [Slots -> Devices \cup {Nothing}]
        /\ unhandled' \subseteq Slots /\ moved' \in BOOLEAN
    BY <1>5, BindTypes DEF ProbeDirect, Typed
  <2> QED BY <1>5, <2>1 DEF ProbeDirect, BusReset, Typed, TypeOK, ScansCounted, NumberTypes
<1>6. CASE ProbeHub
  BY <1>6 DEF ProbeHub, Typed, TypeOK, ScansCounted
<1>7. CASE PortEmpty
  <2>1. port' \in Ports /\ at' \in {"port", "tail"}
    BY <1>7 DEF PortEmpty, PortNext, Ports, Typed, TypeOK
  <2> QED BY <1>7, <2>1 DEF PortEmpty, Typed, TypeOK, ScansCounted
<1>8. CASE PortFound
  BY <1>8 DEF PortFound, Debounced, Typed, TypeOK, ScansCounted
<1>9. CASE PortFails
  BY <1>9 DEF PortFails, Typed, TypeOK, ScansCounted
<1>10. CASE PortBind
  <2>1. port' \in Ports /\ at' \in {"port", "tail"}
    BY <1>10 DEF PortBind, PortNext, Ports, Typed, TypeOK
  <2>2. /\ NumberTypes' /\ untouched' \subseteq Slots
        /\ slots' \in [Slots -> Devices \cup {Nothing}]
        /\ unhandled' \subseteq Slots /\ moved' \in BOOLEAN
    BY <1>10, BindTypes DEF PortBind, AttachHubPort, Typed, TypeOK, NotBound, NumberTypes
  <2> QED BY <1>10, <2>1, <2>2 DEF PortBind, Typed, TypeOK, ScansCounted, NumberTypes
<1>11. CASE PowerCycleWithin
  BY <1>11, ClearTypes DEF PowerCycleWithin, Typed, TypeOK, ScansCounted
<1>12. CASE RescanEnds
  BY <1>12 DEF RescanEnds, Typed, TypeOK, ScansCounted
<1> QED
  BY <1>1, <1>2, <1>3, <1>4, <1>5, <1>6, <1>7, <1>8, <1>9, <1>10, <1>11, <1>12
     DEF RescanStep

LEMMA TypedStep == Typed /\ [Next]_vars => Typed'
<1> SUFFICES ASSUME Typed, [Next]_vars PROVE Typed'
  OBVIOUS
<1>1. CASE AutomountLooks
  BY <1>1 DEF AutomountLooks, Typed, TypeOK, ScansCounted
<1>2. CASE UNCHANGED vars
  BY <1>2 DEF vars, Typed, TypeOK, ScansCounted
<1> QED BY <1>1, <1>2, CableTypes, ServiceTypes, RescanTypes DEF Next

LEMMA InitTyped == Init => Typed
<1> SUFFICES ASSUME Init PROVE Typed
  OBVIOUS
<1>1. 0 \in Ids /\ 0 \in 0..GiveUp /\ 0 < GiveUp /\ 0 \in 0..MaxMoves
  BY CountsAssumption, MovesAssumption DEF Ids
<1>2. reserved \in [Slots -> Ids \cup {NoId}] /\ slots \in [Slots -> Devices \cup {Nothing}]
      /\ plugged \in [Slots -> Devices \cup {HubDevice, Nothing}]
  BY DEF Init
<1> QED BY <1>1, <1>2, PortsAreSlots DEF Init, Typed, TypeOK, ScansCounted

\* The cables, the registry's tables and the frame loop keep their types, and the
\* scans that fail in a row never pass the threshold they are given up at
\* (registry.rs, scan_empty_hub_ports).
THEOREM TypeCorrect == Spec => []TypeOK
<1>1. Typed => TypeOK
  BY DEF Typed
<1> QED BY <1>1, InitTyped, TypedStep, PTL DEF Spec

----------------------------------------------------------------------------
(* Numbers.                                                                *)

Attached == {l \in Slots : slots[l] \in Drives}

\* Reservations are numbers, and no two drives or reservations share one.
Numbered ==
  /\ \A l \in current : reserved[l] \in Ids
  /\ NumbersDistinct

\* Between the edge that voids the reservations and the rescan that clears the
\* slots, drives are attached whose reservations are stale; never elsewhere.
Reserved == at \notin {"changed", "rescan"} => Attached \subseteq current

\* Whatever a scan or a rescan is about to bind, it binds to an empty slot.
AboutToBind ==
  /\ at = "probe" => \A l \in Slots : slots[l] = Nothing
  /\ at = "scanBind" => slots[port] = Nothing
  /\ at \in {"port", "portBind"} => \A p \in port..PortCount : slots[p] = Nothing

RInv == Typed /\ Numbered /\ Reserved /\ AboutToBind

\* Losing drives and reservations leaves the others' numbers alone.
LEMMA FewerStayNumbered ==
  ASSUME Typed, Numbered, reserved' = reserved, current' \subseteq current,
         Attached' \subseteq Attached
  PROVE  Numbered'
<1>1. \A l \in Slots : slots'[l] \in Drives => slots[l] \in Drives
  BY DEF Attached
<1> QED BY <1>1 DEF Numbered, NumbersDistinct

LEMMA StillNumbered ==
  ASSUME Typed, Numbered, UNCHANGED <<slots, numbers>>
  PROVE  Numbered' /\ Attached' = Attached /\ current' = current
<1>1. Attached' = Attached
  BY DEF Attached
<1> QED BY <1>1, FewerStayNumbered

\* A drive is numbered when it is found.
LEMMA BindNumbers ==
  ASSUME Typed, Numbered, Attached \subseteq current, NEW l \in Slots,
         plugged[l] \in Devices, Bind(l) \/ NotBound(l)
  PROVE  /\ Numbered' /\ Attached' \subseteq current'
         /\ \A k \in Slots \ {l} : slots'[k] = slots[k]
<1>1. CASE NotBound(l)
  <2>1. UNCHANGED <<slots, numbers>>
    BY <1>1 DEF NotBound
  <2> QED BY <2>1, StillNumbered
<1>2. CASE Bind(l)
  <2> USE DEF Numbered, NumbersDistinct, Attached
  <2>0. /\ slots' = [slots EXCEPT ![l] = plugged[l]]
        /\ slots \in [Slots -> Devices \cup {Nothing}]
        /\ reserved \in [Slots -> Ids \cup {NoId}] /\ current \subseteq Slots /\ nextId \in Ids
    BY <1>2 DEF Bind, Typed, TypeOK
  <2>1. \A k \in Slots \ {l} : slots'[k] = slots[k]
    BY <2>0
  <2>2. slots'[l] = plugged[l]
    BY <2>0
  <2>3. CASE UNCHANGED numbers /\ (plugged[l] \notin Drives \/ l \in current)
    <3> QED BY <2>0, <2>1, <2>2, <2>3
  <2>4. CASE plugged[l] \in Drives /\ l \notin current
    <3>1. /\ reserved' = [reserved EXCEPT ![l] = FreeId] /\ current' = current \cup {l}
      BY <1>2, <2>4 DEF Bind, Assign
    <3>2. FreeId \in Ids /\ ~Held(FreeId)
      BY <2>0, FreeIdIsNext DEF NumberTypes
    <3>3. \A k \in current : k # l /\ reserved'[k] = reserved[k] /\ reserved[k] # FreeId
      BY <2>0, <2>4, <3>1, <3>2 DEF Held
    <3>4. reserved'[l] = FreeId
      BY <2>0, <3>1
    <3>5. \A k \in current' : reserved'[k] \in Ids
      BY <3>1, <3>2, <3>3, <3>4
    <3>6. \A j, k \in current' : j # k => reserved'[j] # reserved'[k]
      BY <3>1, <3>3, <3>4
    <3>7. Attached' \subseteq current'
      BY <2>1, <3>1
    <3> QED BY <2>1, <3>5, <3>6, <3>7
  <2> QED BY <1>2, <2>3, <2>4 DEF Bind, Assign
<1> QED BY <1>1, <1>2

Kept == Numbered /\ Reserved /\ AboutToBind

\* Clearing the registry loses every drive, and no number.
LEMMA ClearKeeps ==
  ASSUME Typed, Numbered, ClearRegistry, reserved' = reserved, current' \subseteq current
  PROVE  Numbered' /\ Attached' = {} /\ \A l \in Slots : slots'[l] = Nothing
<1>1. Attached' = {} /\ \A l \in Slots : slots'[l] = Nothing
  BY DevicesAssumption DEF ClearRegistry, Attached, Devices
<1> QED BY <1>1, FewerStayNumbered

LEMMA DetachKeeps ==
  ASSUME Typed, Numbered, Attached \subseteq current, NEW gone \in SUBSET Ports, Detach(gone)
  PROVE  Numbered' /\ Attached' \subseteq current'
<1>1. Attached' \subseteq Attached \ gone
  BY DevicesAssumption DEF Detach, Attached, Devices
<1>2. reserved' = reserved /\ current' = current \ gone
  BY DEF Detach
<1> QED BY <1>1, <1>2, FewerStayNumbered

LEMMA CableKeeps == RInv /\ CableStep => Kept'
<1> SUFFICES ASSUME RInv, CableStep PROVE Kept'
  OBVIOUS
<1>1. UNCHANGED <<slots, numbers, at, port>>
  BY DEF CableStep, Plug, Unplug, CableMoves
<1> QED BY <1>1, StillNumbered DEF RInv, Kept, Reserved, AboutToBind, Typed

LEMMA ServiceKeeps == RInv /\ ServiceStep => Kept'
<1> SUFFICES ASSUME RInv, ServiceStep PROVE Kept'
  OBVIOUS
<1> USE DEF RInv, Kept, Reserved, AboutToBind
<1>1. CASE TakeEdge
  <2>1. UNCHANGED <<slots, reserved>> /\ current' \subseteq current
    BY <1>1 DEF TakeEdge
  <2>2. Attached' = Attached
    BY <2>1 DEF Attached
  <2>3. Numbered'
    BY <2>1, <2>2, FewerStayNumbered
  <2> QED BY <1>1, <2>2, <2>3 DEF TakeEdge
<1>2. CASE RootGone
  <2>1. Numbered' /\ Attached' = {}
    BY <1>2, ClearKeeps DEF RootGone
  <2> QED BY <1>2, <2>1 DEF RootGone
<1>3. CASE RootChanged \/ RootQuiet \/ Sweep \/ SweepPast \/ Room \/ ScanPast \/ ScanFails
           \/ ScanEnds
  <2>1. UNCHANGED <<slots, numbers>>
    BY <1>3 DEF RootChanged, RootQuiet, Sweep, SweepPast, Room, ScanPast, ScanFails, ScanEnds
  <2>2. /\ at \notin {"changed", "rescan"} \/ at' = "rescan"
        /\ at' \notin {"probe", "port", "portBind", "scanBind"}
    BY <1>3 DEF RootChanged, RootQuiet, Sweep, SweepPast, SweepNext, Room, ScanPast, ScanNext,
                ScanFails, ScanEnds
  <2> QED BY <2>1, <2>2, StillNumbered
<1>4. CASE DetachStaleHid
  <2>1. PICK stale \in SUBSET Ports : Detach(stale)
    BY <1>4 DEF DetachStaleHid
  <2>2. Attached \subseteq current
    BY <1>4 DEF DetachStaleHid
  <2>3. Numbered' /\ Attached' \subseteq current'
    BY <2>1, <2>2, DetachKeeps
  <2> QED BY <1>4, <2>3 DEF DetachStaleHid
<1>5. CASE SweepDetach
  <2>1. Detach({port}) /\ {port} \in SUBSET Ports /\ Attached \subseteq current
    BY <1>5 DEF SweepDetach, Typed, TypeOK
  <2>2. Numbered' /\ Attached' \subseteq current'
    BY <2>1, DetachKeeps
  <2>3. at' \in {"room", "sweeping"}
    BY <1>5 DEF SweepDetach, SweepNext
  <2> QED BY <2>2, <2>3
<1>6. CASE ScanFound
  <2>1. UNCHANGED <<slots, numbers>>
    BY <1>6 DEF ScanFound
  <2> QED BY <1>6, <2>1, StillNumbered DEF ScanFound
<1>7. CASE ScanBind
  <2>1. Attached \subseteq current /\ port \in Slots
    BY <1>7, PortsAreSlots DEF ScanBind, Typed, TypeOK
  <2>2. Numbered' /\ Attached' \subseteq current'
    <3>1. CASE NotBound(port)
      <4>1. UNCHANGED <<slots, numbers>>
        BY <3>1 DEF NotBound
      <4> QED BY <2>1, <4>1, StillNumbered
    <3>2. CASE plugged[port] \in Devices /\ Bind(port)
      BY <2>1, <3>2, BindNumbers
    <3> QED BY <1>7, <3>1, <3>2 DEF ScanBind, AttachHubPort
  <2>3. at' \in {"scan", "scanned"}
    BY <1>7 DEF ScanBind, ScanNext
  <2> QED BY <2>2, <2>3
<1> QED
  BY <1>1, <1>2, <1>3, <1>4, <1>5, <1>6, <1>7 DEF ServiceStep

LEMMA RescanKeeps == RInv /\ RescanStep => Kept'
<1> SUFFICES ASSUME RInv, RescanStep PROVE Kept'
  OBVIOUS
<1> USE DEF RInv, Kept, Reserved, AboutToBind
<1>1. CASE AskRescan \/ ProbeEmpty \/ ProbeUnreachable \/ PortFails \/ RescanEnds
  <2>1. UNCHANGED <<slots, numbers>>
    BY <1>1 DEF AskRescan, ProbeEmpty, ProbeUnreachable, PortFails, RescanEnds
  <2>2. /\ at \notin {"changed", "rescan"}
        /\ at' \notin {"probe", "port", "portBind", "scanBind"}
    BY <1>1 DEF AskRescan, ProbeEmpty, ProbeUnreachable, BusReset, PortFails, RescanEnds, Typed,
                TypeOK
  <2> QED BY <2>1, <2>2, StillNumbered
<1>2. CASE PowerCycle \/ StartRescan \/ PowerCycleWithin
  <2>1. ClearRegistry /\ reserved' = reserved /\ current' \subseteq current
    BY <1>2 DEF PowerCycle, StartRescan, PowerCycleWithin
  <2>2. Numbered' /\ Attached' = {} /\ \A l \in Slots : slots'[l] = Nothing
    BY <2>1, ClearKeeps
  <2>3. at' \notin {"port", "portBind", "scanBind"}
    BY <1>2 DEF PowerCycle, StartRescan, PowerCycleWithin
  <2> QED BY <2>2, <2>3
<1>3. CASE ProbeDirect
  <2>1. Attached \subseteq current
    BY <1>3 DEF ProbeDirect, BusReset
  <2>2. Numbered' /\ Attached' \subseteq current'
    BY <1>3, <2>1, BindNumbers, PortsAreSlots DEF ProbeDirect
  <2> QED BY <1>3, <2>2 DEF ProbeDirect
<1>4. CASE ProbeHub
  <2>1. UNCHANGED <<slots, numbers>>
    BY <1>4 DEF ProbeHub
  <2>2. at = "probe" /\ at' \in {"port", "tail"}
    BY <1>4 DEF ProbeHub
  <2>3. \A p \in 1..PortCount : p \in Slots
    BY CountsAssumption DEF Slots
  <2>4. at' = "port" => port' = 1
    BY <1>4 DEF ProbeHub
  <2> QED BY <2>1, <2>2, <2>3, <2>4, StillNumbered
<1>5. CASE PortEmpty \/ PortFound
  <2>1. UNCHANGED <<slots, numbers>>
    BY <1>5 DEF PortEmpty, PortFound
  <2>2. at \in {"port"} /\ at' \in {"port", "portBind", "tail"}
    BY <1>5 DEF PortEmpty, PortFound, PortNext
  <2>3. at' \in {"port", "portBind"} => port'..PortCount \subseteq port..PortCount
    BY <1>5, CountsAssumption DEF PortEmpty, PortFound, PortNext, Typed, TypeOK, Ports
  <2> QED BY <2>1, <2>2, <2>3, StillNumbered
<1>6. CASE PortBind
  <2>1. Attached \subseteq current /\ port \in Slots
    BY <1>6, PortsAreSlots DEF PortBind, Typed, TypeOK
  <2>2. Numbered' /\ Attached' \subseteq current' /\ \A k \in Slots \ {port} : slots'[k] = slots[k]
    <3>1. CASE NotBound(port)
      <4>1. UNCHANGED <<slots, numbers>>
        BY <3>1 DEF NotBound
      <4> QED BY <2>1, <4>1, StillNumbered
    <3>2. CASE plugged[port] \in Devices /\ Bind(port)
      BY <2>1, <3>2, BindNumbers
    <3> QED BY <1>6, <3>1, <3>2 DEF PortBind, AttachHubPort
  <2>3. /\ at = "portBind" /\ at' \in {"port", "tail"}
        /\ at' = "port" => port' = port + 1
    BY <1>6 DEF PortBind, PortNext
  <2>4. \A p \in (port + 1)..PortCount : p \in Slots \ {port} /\ p \in port..PortCount
    BY CountsAssumption DEF Typed, TypeOK, Ports, Slots
  <2> QED BY <2>2, <2>3, <2>4
<1> QED
  BY <1>1, <1>2, <1>3, <1>4, <1>5, <1>6 DEF RescanStep

LEMMA RInvStep == RInv /\ [Next]_vars => RInv'
<1> SUFFICES ASSUME RInv, [Next]_vars PROVE RInv'
  OBVIOUS
<1>1. Typed'
  BY TypedStep DEF RInv
<1>2. CASE AutomountLooks \/ UNCHANGED vars
  <2>1. UNCHANGED <<slots, numbers, at, port>>
    BY <1>2 DEF AutomountLooks, vars
  <2> QED BY <1>1, <2>1, StillNumbered DEF RInv, Reserved, AboutToBind
<1> QED BY <1>1, <1>2, CableKeeps, ServiceKeeps, RescanKeeps DEF Next, Kept, RInv

LEMMA InitRInv == Init => RInv
<1> SUFFICES ASSUME Init PROVE RInv
  OBVIOUS
<1>1. Attached = {}
  BY DevicesAssumption DEF Init, Attached, Devices
<1> QED BY <1>1, InitTyped
        DEF Init, RInv, Numbered, NumbersDistinct, Reserved, AboutToBind, Attached

\* No two attached drives answer to the same usbM number, at any point of any
\* scan, sweep or rescan (registry.rs, storage_id_held), and no two places on
\* the bus are promised the same one.
THEOREM NumbersStayDistinct == Spec => []NumbersDistinct
<1>1. RInv => NumbersDistinct
  BY DEF RInv, Numbered
<1> QED BY <1>1, InitRInv, RInvStep, PTL DEF Spec

----------------------------------------------------------------------------
(* The registry implements UsbNumbers.                                     *)

number == [l \in Slots |-> IF l \in current /\ slots[l] \in Drives THEN reserved[l] ELSE NoId]
kept == [l \in Slots |-> IF l \in current THEN reserved[l] ELSE NoId]

LEMMA StillMaps ==
  ASSUME UNCHANGED <<slots, numbers>> PROVE UNCHANGED Numbers!numbering
BY DEF Numbers!numbering

\* Reservations dropped at some places, with the drives there, are an unplug.
LEMMA UnplugMaps ==
  ASSUME NEW places \in SUBSET Slots, reserved' = reserved, nextId' = nextId,
         current' = current \ places,
         \A l \in Slots \ places : slots'[l] = slots[l]
  PROVE  Numbers!Next
<1>1. number' = [l \in Slots |-> IF l \in places THEN NoId ELSE number[l]]
  BY DEF number
<1>2. kept' = [l \in Slots |-> IF l \in places THEN NoId ELSE kept[l]]
  BY DEF kept
<1>3. Numbers!Unplug(places)
  BY <1>1, <1>2 DEF Numbers!Unplug, number, kept, Numbers!NoId, NoId
<1> QED BY <1>3 DEF Numbers!Next

LEMMA ClearMaps ==
  ASSUME ClearRegistry, UNCHANGED numbers PROVE Numbers!Next
<1>1. number' = [l \in Slots |-> NoId]
  BY DevicesAssumption DEF number, ClearRegistry, Devices
<1>2. UNCHANGED <<kept, nextId>>
  BY DEF kept
<1>3. Numbers!LoseAll
  BY <1>1, <1>2 DEF Numbers!LoseAll, number, kept, Numbers!NoId, NoId
<1> QED BY <1>3 DEF Numbers!Next

\* A drive bound to an empty slot is found, under the number its place kept or
\* the next free one; anything else that is bound is not noticed.
LEMMA BindMaps ==
  ASSUME Typed, Numbered, NEW l \in Slots, slots[l] = Nothing,
         plugged[l] \in Devices, Bind(l)
  PROVE  [Numbers!Next]_(Numbers!numbering)
<1>0. /\ slots' = [slots EXCEPT ![l] = plugged[l]]
      /\ slots \in [Slots -> Devices \cup {Nothing}]
      /\ NumberTypes
  BY DEF Bind, Typed, TypeOK, NumberTypes
<1>1. slots'[l] = plugged[l] /\ \A k \in Slots \ {l} : slots'[k] = slots[k]
  BY <1>0
<1>2. slots[l] \notin Drives
  BY DevicesAssumption DEF Devices
<1>3. number[l] = NoId
  BY <1>2 DEF number
<1>4. CASE plugged[l] \notin Drives
  <2>1. UNCHANGED numbers
    BY <1>4 DEF Bind
  <2>2. number' = number /\ kept' = kept /\ nextId' = nextId
    BY <1>1, <1>2, <1>4, <2>1 DEF number, kept
  <2> QED BY <2>2 DEF Numbers!numbering, number, kept, Numbers!NoId, NoId
<1>5. CASE plugged[l] \in Drives /\ l \in current
  <2>1. UNCHANGED numbers /\ kept' = kept /\ nextId' = nextId
    BY <1>5 DEF Bind, Assign, kept
  <2>2. kept[l] = reserved[l] /\ kept[l] # NoId
    BY <1>5, CountsAssumption DEF kept, Numbered, Ids, NoId
  <2>3. number' = [number EXCEPT ![l] = kept[l]]
    BY <1>1, <1>5, <2>1, <2>2 DEF number
  <2>4. Numbers!Find(l)
    BY <1>3, <2>1, <2>2, <2>3 DEF Numbers!Find, number, kept, Numbers!NoId, NoId
  <2> QED BY <2>4 DEF Numbers!Next
<1>6. CASE plugged[l] \in Drives /\ l \notin current
  <2>1. /\ reserved' = [reserved EXCEPT ![l] = FreeId] /\ current' = current \cup {l}
        /\ nextId' = (FreeId + 1) % IdLimit
    BY <1>6 DEF Bind, Assign
  <2>2. kept[l] = NoId
    BY <1>6 DEF kept
  <2>3. kept' = [kept EXCEPT ![l] = FreeId]
    BY <1>0, <2>1 DEF kept, NumberTypes
  <2>4. number' = [number EXCEPT ![l] = FreeId]
    BY <1>0, <1>1, <1>6, <2>1 DEF number, NumberTypes
  <2>5. \A id \in Ids : Numbers!Free(id) <=> ~Held(id)
    BY <1>0, CountsAssumption DEF Numbers!Free, Held, Ids, NoId, Numbers!NoId, NumberTypes
  <2>6. Numbers!NextFree(FreeId)
    BY <1>0, <2>5, FreeIdIsNext DEF Numbers!NextFree, Numbers!Ids, Ids
  <2>7. FreeId \in Numbers!Ids
    BY <2>6 DEF Numbers!NextFree
  <2>8. Numbers!Find(l)
    BY <1>3, <2>1, <2>2, <2>3, <2>4, <2>6, <2>7
       DEF Numbers!Find, number, kept, Numbers!NoId, NoId
  <2> QED BY <2>8 DEF Numbers!Next
<1> QED BY <1>4, <1>5, <1>6

LEMMA StepMaps == RInv /\ [Next]_vars => [Numbers!Next]_(Numbers!numbering)
<1> SUFFICES ASSUME RInv, [Next]_vars PROVE [Numbers!Next]_(Numbers!numbering)
  OBVIOUS
<1> USE DEF RInv
<1>1. CASE UNCHANGED vars \/ CableStep \/ AutomountLooks
  <2>1. UNCHANGED <<slots, numbers>>
    BY <1>1 DEF vars, CableStep, Plug, Unplug, CableMoves, AutomountLooks
  <2> QED BY <2>1, StillMaps
<1>2. CASE ServiceStep
  <2>1. CASE TakeEdge
    <3>1. UNCHANGED <<slots, reserved, nextId>>
      BY <2>1 DEF TakeEdge
    <3>2. current' = current \/ current' = current \ Slots
      BY <2>1 DEF TakeEdge, Typed, TypeOK
    <3> QED BY <3>1, <3>2, StillMaps, UnplugMaps
  <2>2. CASE RootGone
    <3>1. UNCHANGED <<reserved, nextId>> /\ current' = current \ Slots
      BY <2>2 DEF RootGone, Typed, TypeOK
    <3> QED BY <3>1, UnplugMaps
  <2>3. CASE DetachStaleHid \/ SweepDetach
    <3>1. PICK gone \in SUBSET Ports : Detach(gone)
      BY <2>3 DEF DetachStaleHid, SweepDetach, Typed, TypeOK
    <3>2. gone \in SUBSET Slots
      BY PortsAreSlots
    <3>3. /\ UNCHANGED <<reserved, nextId>> /\ current' = current \ gone
          /\ \A l \in Slots \ gone : slots'[l] = slots[l]
      BY <3>1 DEF Detach
    <3> QED BY <3>2, <3>3, UnplugMaps
  <2>4. CASE ScanBind
    <3>1. CASE NotBound(port)
      BY <3>1, StillMaps DEF NotBound
    <3>2. CASE plugged[port] \in Devices /\ Bind(port)
      <4>1. port \in Slots /\ slots[port] = Nothing
        BY <2>4, PortsAreSlots DEF ScanBind, AboutToBind, Typed, TypeOK
      <4> QED BY <3>2, <4>1, BindMaps
    <3> QED BY <2>4, <3>1, <3>2 DEF ScanBind, AttachHubPort
  <2>5. CASE RootChanged \/ RootQuiet \/ Sweep \/ SweepPast \/ Room \/ ScanPast \/ ScanFound
             \/ ScanFails \/ ScanEnds
    <3>1. UNCHANGED <<slots, numbers>>
      BY <2>5 DEF RootChanged, RootQuiet, Sweep, SweepPast, Room, ScanPast, ScanFound,
                  ScanFails, ScanEnds
    <3> QED BY <3>1, StillMaps
  <2> QED BY <1>2, <2>1, <2>2, <2>3, <2>4, <2>5 DEF ServiceStep
<1>3. CASE RescanStep
  <2>1. CASE PowerCycle \/ PowerCycleWithin
    BY <2>1, ClearMaps DEF PowerCycle, PowerCycleWithin
  <2>2. CASE StartRescan
    <3>1. CASE current' = current
      BY <2>2, <3>1, ClearMaps DEF StartRescan
    <3>2. CASE current' = {}
      <4>1. UNCHANGED <<reserved, nextId>> /\ current' = current \ Slots
        BY <2>2, <3>2 DEF StartRescan, Typed, TypeOK
      <4> QED BY <4>1, UnplugMaps
    <3> QED BY <2>2, <3>1, <3>2 DEF StartRescan
  <2>3. CASE ProbeDirect
    <3>1. CASE NotBound(0)
      BY <3>1, StillMaps DEF NotBound
    <3>2. CASE Bind(0)
      <4>1. 0 \in Slots /\ slots[0] = Nothing /\ plugged[0] \in Devices
        BY <2>3, PortsAreSlots DEF ProbeDirect, BusReset, AboutToBind
      <4> QED BY <3>2, <4>1, BindMaps
    <3> QED BY <2>3, <3>1, <3>2 DEF ProbeDirect
  <2>4. CASE PortBind
    <3>1. CASE NotBound(port)
      BY <3>1, StillMaps DEF NotBound
    <3>2. CASE plugged[port] \in Devices /\ Bind(port)
      <4>1. port \in Slots /\ port \in port..PortCount
        BY PortsAreSlots, CountsAssumption DEF Typed, TypeOK, Ports
      <4>2. slots[port] = Nothing
        BY <2>4, <4>1 DEF PortBind, AboutToBind
      <4> QED BY <3>2, <4>1, <4>2, BindMaps
    <3> QED BY <2>4, <3>1, <3>2 DEF PortBind, AttachHubPort
  <2>5. CASE AskRescan \/ ProbeEmpty \/ ProbeUnreachable \/ ProbeHub \/ PortEmpty \/ PortFound
             \/ PortFails \/ RescanEnds
    <3>1. UNCHANGED <<slots, numbers>>
      BY <2>5 DEF AskRescan, ProbeEmpty, ProbeUnreachable, ProbeHub, PortEmpty, PortFound,
                  PortFails, RescanEnds
    <3> QED BY <3>1, StillMaps
  <2> QED BY <1>3, <2>1, <2>2, <2>3, <2>4, <2>5 DEF RescanStep
<1> QED BY <1>1, <1>2, <1>3 DEF Next

LEMMA InitMaps == Init => Numbers!Init
<1> SUFFICES ASSUME Init PROVE Numbers!Init
  OBVIOUS
<1>1. number = [l \in Slots |-> NoId] /\ kept = [l \in Slots |-> NoId] /\ nextId = 0
  BY DEF Init, number, kept
<1> QED BY <1>1 DEF Numbers!Init, number, kept, Numbers!NoId, NoId

\* Edges, sweeps, incremental scans, rescans and power cycles, in any order and
\* with any of them failing, come to nothing but drives being found, lost and
\* unplugged: a number is kept for its place until then (registry.rs, StorageId).
THEOREM RegistryImplementsNumbers == Spec => ImplementsNumbers
<1> QED BY InitMaps, InitRInv, RInvStep, StepMaps, PTL DEF Spec, ImplementsNumbers, Numbers!Spec

----------------------------------------------------------------------------
(* What automount is told of.                                              *)

\* Whatever loses, finds or renumbers a drive tells automount of it, through the
\* one counter it compares (registry.rs, topology_epoch).
THEOREM AutomountIsTold == Spec => AutomountMissesNothing
<1>1. ASSUME [Next]_vars PROVE Inventory' # Inventory => moved'
  <2>1. UNCHANGED <<slots, reserved>> => Inventory' = Inventory
    BY DEF Inventory
  <2>2. CASE UNCHANGED vars \/ CableStep \/ AutomountLooks
    BY <2>1, <2>2 DEF vars, CableStep, Plug, Unplug, CableMoves, AutomountLooks
  <2>3. CASE ServiceStep
    BY <2>1, <2>3
       DEF ServiceStep, TakeEdge, RootGone, RootChanged, RootQuiet, DetachStaleHid, Sweep,
           SweepPast, SweepDetach, Detach, Room, ScanPast, ScanFound, ScanFails, ScanEnds,
           ScanBind, AttachHubPort, Bind, NotBound, ClearRegistry
  <2>4. CASE RescanStep
    BY <2>1, <2>4
       DEF RescanStep, AskRescan, PowerCycle, StartRescan, ProbeEmpty, ProbeUnreachable,
           ProbeDirect, ProbeHub, PortEmpty, PortFound, PortFails, PortBind,
           PowerCycleWithin, RescanEnds, AttachHubPort, Bind, NotBound, ClearRegistry
  <2> QED BY <1>1, <2>2, <2>3, <2>4 DEF Next
<1> QED BY <1>1, PTL DEF Spec, AutomountMissesNothing

----------------------------------------------------------------------------
(* Drives that stay where they are.                                        *)

InRescan == at \in {"probe", "port", "portBind", "tail"}

\* A drive that has not moved since it was numbered is still there, and the socket
\* in front of it is not empty.  While an edge of that socket is pending there is
\* no such drive, and no hub to find one behind, unless a rescan is under way that
\* will discard the edge.
UntouchedStay ==
  /\ untouched \subseteq Slots
  /\ \A l \in untouched : plugged[l] \in Drives
  /\ untouched # {} => plugged[0] # Nothing
  /\ rootEdge /\ ~InRescan => untouched = {} /\ ~hubAwake

LEMMA CableLeavesUntouched == Typed /\ UntouchedStay /\ CableStep => UntouchedStay'
<1> SUFFICES ASSUME Typed, UntouchedStay, CableStep PROVE UntouchedStay'
  OBVIOUS
<1>1. PICK l \in Slots, d \in Devices \cup {HubDevice, Nothing} : CableMoves(l, d)
  BY DEF CableStep, Plug, Unplug
<1>2. /\ plugged \in [Slots -> Devices \cup {HubDevice, Nothing}]
      /\ plugged' = [plugged EXCEPT ![l] = d] /\ at' = at
      /\ untouched' = untouched \ Behind(l)
      /\ rootEdge' = (rootEdge \/ l = 0) /\ hubAwake' = (hubAwake /\ l # 0)
  BY <1>1 DEF CableMoves, Typed, TypeOK
<1>3. CASE l = 0
  BY <1>2, <1>3 DEF Behind, UntouchedStay
<1>4. CASE l # 0
  <2>1. untouched' = untouched \ {l}
    BY <1>2, <1>4 DEF Behind
  <2>2. \A k \in Slots \ {l} : plugged'[k] = plugged[k]
    BY <1>2
  <2>3. plugged'[0] = plugged[0]
    BY <1>4, <2>2, PortsAreSlots
  <2>4. (rootEdge' <=> rootEdge) /\ (hubAwake' <=> hubAwake)
    BY <1>2, <1>4
  <2> QED BY <1>2, <2>1, <2>2, <2>3, <2>4 DEF UntouchedStay, InRescan
<1> QED BY <1>3, <1>4

\* A drive is numbered with its socket occupied.
LEMMA BindLeavesUntouched ==
  ASSUME NEW l \in Slots, UntouchedStay, UNCHANGED plugged, plugged[0] # Nothing,
         Bind(l) \/ NotBound(l)
  PROVE  /\ untouched' \subseteq Slots
         /\ \A k \in untouched' : plugged'[k] \in Drives
         /\ untouched' # {} => plugged'[0] # Nothing
BY DEF UntouchedStay, Bind, NotBound, Assign

LEMMA ServiceLeavesUntouched == Typed /\ UntouchedStay /\ ServiceStep => UntouchedStay'
<1> SUFFICES ASSUME Typed, UntouchedStay, ServiceStep PROVE UntouchedStay'
  OBVIOUS
<1>1. CASE ScanBind
  <2>1. UNCHANGED cables /\ at = "scanBind" /\ at' \in {"scan", "scanned"} /\ port \in Slots
    BY <1>1, PortsAreSlots DEF ScanBind, ScanNext, Typed, TypeOK
  <2>2. CASE NotBound(port)
    BY <2>1, <2>2 DEF NotBound, UntouchedStay, InRescan
  <2>3. CASE HubAnswers /\ Bind(port)
    <3>1. hubAwake /\ plugged[0] # Nothing
      BY <2>3, DevicesAssumption DEF HubAnswers
    <3>2. ~rootEdge
      BY <2>1, <3>1 DEF UntouchedStay, InRescan
    <3> QED BY <2>1, <2>3, <3>1, <3>2, BindLeavesUntouched DEF UntouchedStay
  <2> QED BY <1>1, <2>2, <2>3 DEF ScanBind, AttachHubPort
<1>2. CASE ServiceStep /\ ~ScanBind
  <2>1. UNCHANGED <<plugged, hubAwake, untouched>> /\ (rootEdge' => rootEdge) /\ ~InRescan
    BY <1>2 DEF ServiceStep, TakeEdge, RootGone, RootChanged, RootQuiet, DetachStaleHid, Sweep,
                SweepPast, SweepDetach, Detach, Room, ScanPast, ScanFound, ScanFails, ScanEnds,
                Debounced, InRescan
  <2> QED BY <2>1 DEF UntouchedStay
<1> QED BY <1>1, <1>2

LEMMA RescanLeavesUntouched == Typed /\ UntouchedStay /\ RescanStep => UntouchedStay'
<1> SUFFICES ASSUME Typed, UntouchedStay, RescanStep PROVE UntouchedStay'
  OBVIOUS
<1>1. CASE PortBind \/ ProbeDirect
  <2>1. PICK l \in Slots :
          NotBound(l) \/ (Bind(l) /\ plugged[0] # Nothing)
    BY <1>1, PortsAreSlots, DevicesAssumption
       DEF PortBind, ProbeDirect, AttachHubPort, HubAnswers, Typed, TypeOK, Devices
  <2>2. UNCHANGED plugged
    BY <1>1 DEF PortBind, ProbeDirect, BusReset
  <2>3. CASE at' \in {"probe", "port", "portBind", "tail"}
    <3>1. CASE NotBound(l)
      BY <2>2, <2>3, <3>1 DEF NotBound, UntouchedStay, InRescan
    <3>2. CASE Bind(l) /\ plugged[0] # Nothing
      BY <2>2, <2>3, <3>2, BindLeavesUntouched DEF UntouchedStay, InRescan
    <3> QED BY <2>1, <3>1, <3>2
  <2>4. at' \in {"port", "tail"}
    BY <1>1 DEF PortBind, PortNext, ProbeDirect
  <2> QED BY <2>3, <2>4
<1>2. CASE AskRescan \/ StartRescan \/ RescanEnds
  BY <1>2 DEF AskRescan, StartRescan, RescanEnds, UntouchedStay, InRescan
<1>3. CASE PowerCycle
  BY <1>3 DEF PowerCycle, UntouchedStay, InRescan
<1>4. CASE ProbeEmpty \/ ProbeUnreachable \/ ProbeHub \/ PortEmpty \/ PortFound \/ PortFails
           \/ PowerCycleWithin
  <2>1. UNCHANGED <<plugged, untouched>>
    BY <1>4 DEF ProbeEmpty, ProbeUnreachable, ProbeHub, BusReset, PortEmpty, PortFound,
                PortFails, PowerCycleWithin
  <2>2. at' \in {"probe", "port", "portBind", "tail"}
    BY <1>4 DEF ProbeEmpty, ProbeUnreachable, ProbeHub, PortEmpty, PortFound, PortNext,
                PortFails, PowerCycleWithin
  <2> QED BY <2>1, <2>2 DEF UntouchedStay, InRescan
<1> QED BY <1>1, <1>2, <1>3, <1>4 DEF RescanStep

LEMMA UntouchedStayStep == Typed /\ UntouchedStay /\ [Next]_vars => UntouchedStay'
<1> SUFFICES ASSUME Typed, UntouchedStay, [Next]_vars PROVE UntouchedStay'
  OBVIOUS
<1>1. CASE AutomountLooks \/ UNCHANGED vars
  BY <1>1 DEF AutomountLooks, vars, UntouchedStay, InRescan
<1> QED BY <1>1, CableLeavesUntouched, ServiceLeavesUntouched, RescanLeavesUntouched DEF Next

KeepsItsNumber ==
  \A l \in untouched \cap untouched' \cap current :
    l \notin latch => l \in current' /\ reserved'[l] = reserved[l]

LEMMA BindKeepsNumbers ==
  ASSUME Typed, NEW l \in Slots, Bind(l) \/ NotBound(l)
  PROVE  \A k \in current : k \in current' /\ reserved'[k] = reserved[k]
BY DEF Bind, NotBound, Assign, Typed, TypeOK

LEMMA StepKeepsNumbers == Typed /\ UntouchedStay /\ [Next]_vars => KeepsItsNumber
<1> SUFFICES ASSUME Typed, UntouchedStay, [Next]_vars PROVE KeepsItsNumber
  OBVIOUS
<1>1. CASE UNCHANGED <<reserved, current>>
  BY <1>1 DEF KeepsItsNumber
<1>2. CASE TakeEdge \/ StartRescan
  <2>1. ~InRescan /\ reserved' = reserved
    BY <1>2 DEF TakeEdge, StartRescan, InRescan
  <2> QED BY <1>2, <2>1 DEF TakeEdge, StartRescan, UntouchedStay, KeepsItsNumber
<1>3. CASE RootGone
  BY <1>3 DEF RootGone, RootDisconnected, UntouchedStay, KeepsItsNumber
<1>4. CASE DetachStaleHid \/ SweepDetach
  <2>1. PICK gone \in SUBSET Ports : Detach(gone) /\ \A p \in gone : PortGone(p)
    BY <1>4 DEF DetachStaleHid, SweepDetach, Typed, TypeOK
  <2>2. \A l \in untouched : l \notin latch => l \notin gone
    BY <2>1, DevicesAssumption DEF PortGone, UntouchedStay, Devices
  <2> QED BY <2>1, <2>2 DEF Detach, KeepsItsNumber
<1>5. CASE ScanBind \/ PortBind \/ ProbeDirect
  <2>1. PICK l \in Slots : Bind(l) \/ NotBound(l)
    BY <1>5, PortsAreSlots DEF ScanBind, PortBind, ProbeDirect, AttachHubPort, Typed, TypeOK
  <2> QED BY <2>1, BindKeepsNumbers DEF KeepsItsNumber
<1>6. CASE CableStep \/ AutomountLooks \/ UNCHANGED vars
  BY <1>1, <1>6 DEF CableStep, Plug, Unplug, CableMoves, AutomountLooks, vars
<1>7. CASE \/ RootChanged \/ RootQuiet \/ Sweep \/ SweepPast \/ Room \/ ScanPast
           \/ ScanFound \/ ScanFails \/ ScanEnds
  BY <1>1, <1>7 DEF RootChanged, RootQuiet, Sweep, SweepPast, Room, ScanPast, ScanFound,
                    ScanFails, ScanEnds
<1>8. CASE \/ AskRescan \/ PowerCycle \/ ProbeEmpty \/ ProbeUnreachable \/ ProbeHub
           \/ PortEmpty \/ PortFound \/ PortFails \/ PowerCycleWithin \/ RescanEnds
  BY <1>1, <1>8 DEF AskRescan, PowerCycle, ProbeEmpty, ProbeUnreachable, ProbeHub, PortEmpty,
                    PortFound, PortFails, PowerCycleWithin, RescanEnds
<1> QED
  BY <1>2, <1>3, <1>4, <1>5, <1>6, <1>7, <1>8 DEF Next, ServiceStep, RescanStep

\* A drive that was not moved keeps its usbM number through every rescan, power
\* cycle, failed scan and failed enumeration (registry.rs, assign_storage_id).
THEOREM UntouchedDrivesKeepTheirNumbers == Spec => UntouchedDriveKeepsItsNumber
<1>1. Init => UntouchedStay
  BY DEF Init, UntouchedStay
<1>2. KeepsItsNumber <=>
        \A l \in untouched \cap untouched' \cap current :
          l \notin latch => l \in current' /\ reserved'[l] = reserved[l]
  BY DEF KeepsItsNumber
<1> QED
  BY <1>1, <1>2, InitTyped, TypedStep, UntouchedStayStep, StepKeepsNumbers, PTL
     DEF Spec, UntouchedDriveKeepsItsNumber
=============================================================================
