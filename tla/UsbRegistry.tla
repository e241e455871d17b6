---------------------------- MODULE UsbRegistry ----------------------------
(***************************************************************************)
(* The registry of what is plugged into USB-A (src/src/usb/registry.rs)    *)
(* and the part of InputManager::service that drives it (src/src/input.rs).*)
(*                                                                         *)
(* Slot 0 is the USB-A socket, slot p the port p of a hub plugged into it. *)
(* A rescan resets the bus and finds everything again, an incremental scan *)
(* looks at the empty hub ports, a sweep looks at the occupied ones.  Each *)
(* takes up to seconds and one port at a time, and cables move meanwhile,  *)
(* so each is a sequence of steps with the physical world between them.    *)
(*                                                                         *)
(* Connection epochs only grow and are only ever compared with an earlier  *)
(* value of themselves.  So a reservation made under an epoch is kept with *)
(* whether that epoch is still the current one (`current`), and advancing  *)
(* an epoch makes the reservations it covers stale.  Frame counters become *)
(* a choice: at any frame a timer may be due or not.                       *)
(***************************************************************************)
EXTENDS Integers, FiniteSets

CONSTANTS
  PortCount,   \* ports of the hub, MAX_HUB_PORTS at most
  IdLimit,     \* STORAGE_ID_LIMIT
  GiveUp,      \* HUB_PORT_SCAN_FAILURE_GIVE_UP_THRESHOLD
  Drives,      \* Mass Storage devices
  Hids,        \* keyboards and mice
  HubDevice,   \* the hub
  Nothing,     \* an empty socket or slot
  MaxMoves     \* bound: cables moved

Ports == 1..PortCount
Slots == 0..PortCount
Ids == 0..(IdLimit - 1)
NoId == -1
Devices == Drives \cup Hids

ASSUME CountsAssumption ==
  PortCount \in Nat \ {0} /\ IdLimit \in Nat /\ IdLimit > PortCount + 1 /\ GiveUp \in Nat \ {0}
ASSUME DevicesAssumption ==
  /\ Nothing \notin Devices \cup {HubDevice} /\ HubDevice \notin Devices
  /\ Drives \cap Hids = {}
ASSUME MovesAssumption == MaxMoves \in Nat

VARIABLES
  plugged,    \* what is physically in each socket
  rootEdge,   \* USB_PORT_PENDING: a connection edge at USB-A, latched by the ISR
  latch,      \* C_PORT_CONNECTION: the ports whose hub latched an edge
  hubAwake,   \* the hub in USB-A holds the address it was given
  moves,      \* cables moved so far
  hub,        \* UsbHost.hub is Some
  slots,      \* UsbHost.slots
  unhandled,  \* UsbHost.unhandled_slots
  reserved,   \* UsbHost.storage_ids: the number of each slot
  current,    \* the slots whose reservation was made under the current epoch
  nextId,     \* UsbHost.next_storage_id
  paused,     \* UsbHost.hub_port_scan_paused
  failures,   \* UsbHost.hub_port_scan_failures
  probed,     \* UsbHost.last_probe is Some
  moved,      \* topology_epoch differs from the one automount saw last
  at,         \* where the frame loop is
  port,       \* the port a scan or sweep is at
  back,       \* where the frame loop goes on after a rescan
  cycled,     \* this rescan has had its power cycle
  untouched   \* history: slots whose cable has not moved since numbered

cables == <<plugged, rootEdge, latch, hubAwake, moves>>
numbers == <<reserved, current, nextId>>
scanning == <<paused, failures>>
loop == <<at, port, back, cycled>>
vars == <<plugged, rootEdge, latch, hubAwake, moves, hub, slots, unhandled, reserved,
          current, nextId, paused, failures, probed, moved, at, port,
          back, cycled, untouched>>

----------------------------------------------------------------------------
(* The physical world.                                                     *)

\* Anything plugged in behind the socket l, or in it, is affected.
Behind(l) == IF l = 0 THEN Slots ELSE {l}

CableMoves(l, d) ==
  /\ moves < MaxMoves
  /\ moves' = moves + 1
  /\ plugged' = [plugged EXCEPT ![l] = d]
  /\ rootEdge' = (rootEdge \/ l = 0)
  /\ latch' = IF l = 0 THEN latch ELSE latch \cup {l}
  /\ hubAwake' = (hubAwake /\ l # 0)
  /\ untouched' = untouched \ Behind(l)
  /\ UNCHANGED <<hub, slots, unhandled, numbers, scanning, probed, moved, loop>>

Plug(l, d) ==
  /\ plugged[l] = Nothing
  /\ l # 0 => plugged[0] = HubDevice
  /\ d \in IF l = 0 THEN Devices \cup {HubDevice} ELSE Devices
  /\ \A k \in Slots : plugged[k] # d
  /\ CableMoves(l, d)

Unplug(l) == plugged[l] # Nothing /\ CableMoves(l, Nothing)

\* The hub answers a request, or a transfer fails in spite of its retries.
HubAnswers == plugged[0] = HubDevice /\ hubAwake

----------------------------------------------------------------------------
(* Numbers.                                                                *)

\* Mutant: a number is only held by a drive that is attached now.
MutantHeld(id) == \E l \in current : slots[l] # Nothing /\ reserved[l] = id

\* storage_id_held: a reservation counts even while its slot sits empty.
Held(id) == \E l \in current : reserved[l] = id

\* The next free number, counting up from wherever the last one left off.
FreeId ==
  LET candidate(offset) == (nextId + offset) % IdLimit
      free == {offset \in Ids : ~Held(candidate(offset))}
  IN IF free = {} THEN nextId
     ELSE candidate(CHOOSE o \in free : \A q \in free : o <= q)

\* Mutant: a drive found again counts as a new one.
MutantAssign(l) ==
  /\ reserved' = [reserved EXCEPT ![l] = FreeId]
  /\ current' = current \cup {l}
  /\ nextId' = (FreeId + 1) % IdLimit
  /\ untouched' = untouched \cup {l}

\* assign_storage_id
Assign(l) ==
  IF l \in current
  THEN UNCHANGED <<numbers, untouched>>
  ELSE /\ reserved' = [reserved EXCEPT ![l] = FreeId]
       /\ current' = current \cup {l}
       /\ nextId' = (FreeId + 1) % IdLimit
       /\ untouched' = untouched \cup {l}

\* Bind the class driver of whatever is in socket l; a device no driver takes
\* is marked, like one that did not enumerate.
Bind(l) ==
  /\ slots' = [slots EXCEPT ![l] = plugged[l]]
  /\ unhandled' = unhandled \ {l}
  /\ moved' = TRUE
  /\ IF plugged[l] \in Drives THEN Assign(l) ELSE UNCHANGED <<numbers, untouched>>

NotBound(l) ==
  /\ unhandled' = unhandled \cup {l}
  /\ UNCHANGED <<slots, moved, numbers, untouched>>

\* Mutant: automount is only told of what is bound.
MutantClearRegistry ==
  /\ hub' = FALSE
  /\ slots' = [l \in Slots |-> Nothing]
  /\ paused' = FALSE /\ failures' = 0
  /\ moved' = moved

\* clear_registry: the reservations are left standing.
ClearRegistry ==
  /\ hub' = FALSE
  /\ slots' = [l \in Slots |-> Nothing]
  /\ paused' = FALSE /\ failures' = 0
  /\ moved' = TRUE

----------------------------------------------------------------------------
(* One frame of InputManager::service.                                     *)

\* take_root_connection_change: the edge covers every place on the bus.
TakeEdge ==
  /\ at = "frame"
  /\ rootEdge' = FALSE
  /\ current' = IF rootEdge THEN {} ELSE current
  /\ moved' = (moved \/ rootEdge)
  /\ at' = IF rootEdge THEN "changed" ELSE "quiet"
  /\ UNCHANGED <<plugged, latch, hubAwake, moves, hub, slots, unhandled, reserved,
                 nextId, scanning, probed, port, back, cycled, untouched>>

RootDisconnected == probed /\ plugged[0] = Nothing

\* clear_disconnected
RootGone ==
  /\ at \in {"changed", "quiet"} /\ RootDisconnected
  /\ ClearRegistry
  /\ current' = {}
  /\ probed' = FALSE
  /\ unhandled' = {}
  /\ at' = "sweep"
  /\ UNCHANGED <<cables, reserved, nextId, port, back, cycled, untouched>>

\* The session of a device failed, or the controller lost a channel: unless
\* the port it was on turns out to be empty, everything is found again.
NeedsReinit == \E l \in Slots : slots[l] # Nothing

RootChanged ==
  /\ at \in {"changed", "quiet"} /\ ~RootDisconnected
  /\ at = "changed" \/ NeedsReinit
  /\ at' = "rescan" /\ back' = "sweep"
  /\ UNCHANGED <<cables, hub, slots, unhandled, numbers, scanning, probed, moved,
                 port, cycled, untouched>>

RootQuiet ==
  /\ at = "quiet" /\ ~RootDisconnected
  /\ at' = "sweep"
  /\ UNCHANGED <<cables, hub, slots, unhandled, numbers, scanning, probed, moved,
                 port, back, cycled, untouched>>

\* detach_hub_ports, for ports that read empty or have a latched edge; an edge
\* on a port that is occupied again is acknowledged, which may fail.
PortGone(p) == HubAnswers /\ (plugged[p] = Nothing \/ p \in latch)

\* Mutant: the port's epoch stays, and with it the reservation.
MutantDetach(gone) ==
  /\ slots' = [l \in Slots |-> IF l \in gone THEN Nothing ELSE slots[l]]
  /\ unhandled' = unhandled \ gone
  /\ moved' = TRUE
  /\ paused' = FALSE /\ failures' = 0
  /\ \E acknowledged \in SUBSET {p \in gone : plugged[p] # Nothing} :
       latch' = latch \ acknowledged
  /\ UNCHANGED <<plugged, rootEdge, hubAwake, moves, hub, numbers, probed,
                 back, cycled, untouched>>

Detach(gone) ==
  /\ slots' = [l \in Slots |-> IF l \in gone THEN Nothing ELSE slots[l]]
  /\ unhandled' = unhandled \ gone
  /\ current' = current \ gone
  /\ moved' = TRUE
  /\ paused' = FALSE /\ failures' = 0
  /\ \E acknowledged \in SUBSET {p \in gone : plugged[p] # Nothing} :
       latch' = latch \ acknowledged
  /\ UNCHANGED <<plugged, rootEdge, hubAwake, moves, hub, reserved, nextId, probed,
                 back, cycled, untouched>>

\* detach_disconnected_stale_split_hid
DetachStaleHid ==
  /\ at = "quiet" /\ ~RootDisconnected /\ hub
  /\ \E stale \in (SUBSET {p \in Ports : slots[p] \in Hids /\ PortGone(p)}) \ {{}} :
       Detach(stale)
  /\ at' = "sweep"
  /\ UNCHANGED port

----------------------------------------------------------------------------
(* The sweep of the occupied ports: detach_disconnected_hub_ports.         *)

Sweep ==
  /\ at = "sweep"
  /\ \/ at' = "room" /\ UNCHANGED port
     \/ /\ hub /\ \E p \in Ports : slots[p] # Nothing
        /\ at' = "sweeping" /\ port' = 1
  /\ UNCHANGED <<cables, hub, slots, unhandled, numbers, scanning, probed, moved,
                 back, cycled, untouched>>

SweepNext == IF port = PortCount
             THEN at' = "room" /\ port' = 1
             ELSE port' = port + 1 /\ UNCHANGED at

\* A port that is empty here, still occupied, or did not answer.
SweepPast ==
  /\ at = "sweeping"
  /\ SweepNext
  /\ UNCHANGED <<cables, hub, slots, unhandled, numbers, scanning, probed, moved,
                 back, cycled, untouched>>

SweepDetach ==
  /\ at = "sweeping" /\ slots[port] # Nothing /\ PortGone(port)
  /\ Detach({port})
  /\ SweepNext

----------------------------------------------------------------------------
(* The incremental scan of the empty ports: scan_empty_hub_ports.          *)

\* has_room, and the timer behind it: a scan behind a hub, a rescan without.
HasRoom == IF hub THEN ~paused /\ \E p \in Ports : slots[p] = Nothing
                  ELSE slots[0] = Nothing

Room ==
  /\ at = "room"
  /\ \/ at' = "frame" /\ UNCHANGED <<port, back>>
     \/ HasRoom /\ hub /\ at' = "scan" /\ port' = 1 /\ UNCHANGED back
     \/ HasRoom /\ ~hub /\ at' = "rescan" /\ back' = "frame" /\ UNCHANGED port
  /\ UNCHANGED <<cables, hub, slots, unhandled, numbers, scanning, probed, moved,
                 cycled, untouched>>

ScanNext == IF port = PortCount
            THEN at' = "scanned" /\ port' = 1
            ELSE at' = "scan" /\ port' = port + 1

\* An occupied port, a failed device that has not moved, or an empty port.
ScanPast ==
  /\ at = "scan"
  /\ \/ slots[port] # Nothing /\ UNCHANGED unhandled
     \/ /\ port \in unhandled \ latch /\ HubAnswers /\ plugged[port] # Nothing
        /\ UNCHANGED unhandled
     \/ /\ slots[port] = Nothing /\ HubAnswers /\ plugged[port] = Nothing
        /\ unhandled' = unhandled \ {port}
  /\ ScanNext
  /\ UNCHANGED <<cables, hub, slots, numbers, scanning, probed, moved, back, cycled,
                 untouched>>

\* debounce_connected_port: something is there; acknowledging the edge may
\* fail, and then the edge stays latched.
Debounced(p) ==
  /\ HubAnswers /\ plugged[p] # Nothing
  /\ latch' \in {latch, latch \ {p}}

ScanFound ==
  /\ at = "scan" /\ slots[port] = Nothing
  /\ port \in unhandled => port \in latch
  /\ Debounced(port)
  /\ unhandled' = unhandled \ {port}
  /\ at' = "scanBind"
  /\ UNCHANGED <<plugged, rootEdge, hubAwake, moves, hub, slots, numbers, scanning, probed,
                 moved, port, back, cycled, untouched>>

\* Mutant: the scans never stop.
MutantScanFails ==
  /\ at = "scan" /\ slots[port] = Nothing
  /\ unhandled' = unhandled
  /\ failures' = failures + 1
  /\ paused' = (failures > GiveUp)
  /\ at' = "frame" /\ port' = 1
  /\ UNCHANGED <<cables, hub, slots, numbers, probed, moved, back, cycled, untouched>>

\* The hub did not answer: after GiveUp scans in a row, no more are made.
ScanFails ==
  /\ at = "scan" /\ slots[port] = Nothing
  /\ unhandled' \in {unhandled} \cup {unhandled \ {p} : p \in {port} \cap latch}
  /\ failures' = failures + 1
  /\ paused' = (failures + 1 >= GiveUp)
  /\ at' = "frame" /\ port' = 1
  /\ UNCHANGED <<cables, hub, slots, numbers, probed, moved, back, cycled, untouched>>

ScanEnds ==
  /\ at = "scanned"
  /\ failures' = 0
  /\ at' = "frame"
  /\ UNCHANGED <<cables, hub, slots, unhandled, numbers, paused, probed, moved, port,
                 back, cycled, untouched>>

\* attach_hub_port: reset, enumerate and bind whatever is there by now.
AttachHubPort ==
  \/ HubAnswers /\ plugged[port] \in Devices /\ Bind(port)
  \/ NotBound(port)

ScanBind ==
  /\ at = "scanBind"
  /\ UNCHANGED <<cables, hub, scanning, probed, back, cycled>>
  /\ AttachHubPort
  /\ ScanNext

----------------------------------------------------------------------------
(* A rescan, and the power cycles.                                         *)

\* usbrescan and the recovery loops of the shell.
AskRescan ==
  /\ at = "frame"
  /\ at' = "rescan" /\ back' = "frame"
  /\ UNCHANGED <<cables, hub, slots, unhandled, numbers, scanning, probed, moved,
                 port, cycled, untouched>>

\* power_cycle_and_rescan: the sessions go first.  Losing VBUS makes the root
\* port report a disconnect, which the rescan that follows finds pending.
PowerCycle ==
  /\ at = "frame"
  /\ ClearRegistry
  /\ probed' = FALSE
  /\ unhandled' = {}
  /\ \/ at' = "rescan" /\ back' = "frame"
        /\ hubAwake' = FALSE
        /\ rootEdge' = (rootEdge \/ plugged[0] # Nothing)
        /\ untouched' = IF plugged[0] # Nothing THEN {} ELSE untouched
     \/ UNCHANGED <<at, back, hubAwake, rootEdge, untouched>>
  /\ UNCHANGED <<plugged, latch, moves, numbers, port, cycled>>

\* rescan: an edge still pending is a physical one, and counts.
StartRescan ==
  /\ at = "rescan"
  /\ rootEdge' = FALSE
  /\ current' = IF rootEdge THEN {} ELSE current
  /\ ClearRegistry
  /\ cycled' = FALSE
  /\ at' = "probe"
  /\ UNCHANGED <<plugged, latch, hubAwake, moves, unhandled, reserved, nextId, probed, port, back, untouched>>

\* probe_port resets the bus; the hub forgets its address, and what it had
\* latched it keeps or reports afresh for every port.
BusReset ==
  /\ at = "probe"
  /\ probed' = TRUE
  /\ latch' \in {latch, {p \in Ports : plugged[p] # Nothing}}
  /\ UNCHANGED <<plugged, rootEdge, moves, hub, scanning, back, cycled>>

\* Nothing is connected: the socket is empty, or it did not connect in time.
ProbeEmpty ==
  /\ BusReset
  /\ hubAwake' = FALSE
  /\ unhandled' = unhandled \ {0}
  /\ at' = "tail"
  /\ UNCHANGED <<slots, moved, numbers, untouched, port>>

\* The device will not enable or enumerate.
ProbeUnreachable ==
  /\ plugged[0] # Nothing
  /\ BusReset
  /\ hubAwake' = FALSE
  /\ at' = "tail"
  /\ UNCHANGED <<slots, unhandled, moved, numbers, untouched, port>>

ProbeDirect ==
  /\ plugged[0] \in Devices
  /\ BusReset
  /\ hubAwake' = FALSE
  /\ Bind(0) \/ NotBound(0)
  /\ at' = "tail"
  /\ UNCHANGED port

\* The hub is opened; if it will not power its ports it is kept without them.
ProbeHub ==
  /\ plugged[0] = HubDevice
  /\ at = "probe"
  /\ probed' = TRUE
  /\ latch' \in {latch, {p \in Ports : plugged[p] # Nothing}}
  /\ hubAwake' = TRUE
  /\ hub' = TRUE
  /\ \/ at' = "port" /\ port' = 1
     \/ at' = "tail" /\ UNCHANGED port
  /\ UNCHANGED <<plugged, rootEdge, moves, slots, unhandled, numbers, scanning, moved,
                 back, cycled, untouched>>

PortNext == IF port = PortCount
            THEN at' = "tail" /\ port' = 1
            ELSE at' = "port" /\ port' = port + 1

PortEmpty ==
  /\ at = "port" /\ HubAnswers /\ plugged[port] = Nothing
  /\ unhandled' = unhandled \ {port}
  /\ PortNext
  /\ UNCHANGED <<cables, hub, slots, numbers, scanning, probed, moved, back, cycled,
                 untouched>>

PortFound ==
  /\ at = "port" /\ Debounced(port)
  /\ at' = "portBind"
  /\ UNCHANGED <<plugged, rootEdge, hubAwake, moves, hub, slots, unhandled, numbers,
                 scanning, probed, moved, port, back, cycled, untouched>>

\* The hub stopped answering: the ports after this one are not looked at.
PortFails ==
  /\ at = "port"
  /\ at' = "tail" /\ port' = 1
  /\ UNCHANGED <<cables, hub, slots, unhandled, numbers, scanning, probed, moved, back,
                 cycled, untouched>>

PortBind ==
  /\ at = "portBind"
  /\ UNCHANGED <<cables, hub, scanning, probed, back, cycled>>
  /\ AttachHubPort
  /\ PortNext

\* rescan_inner: one power cycle and a second pass, if the first pass or the
\* controller calls for it and the interval allows it.
PowerCycleWithin ==
  /\ at = "tail" /\ ~cycled
  /\ cycled' = TRUE
  /\ ClearRegistry
  /\ \/ at' = "probe" /\ hubAwake' = FALSE /\ rootEdge' = TRUE
     \/ UNCHANGED <<at, hubAwake, rootEdge>>
  /\ UNCHANGED <<plugged, latch, moves, unhandled, numbers, probed, port, back,
                 untouched>>

\* What the reset did to the root port is not mistaken for the user's doing.
RescanEnds ==
  /\ at = "tail"
  /\ rootEdge' = FALSE
  /\ at' = back /\ back' = "frame" /\ cycled' = FALSE /\ port' = 1
  /\ UNCHANGED <<plugged, latch, hubAwake, moves, hub, slots, unhandled, numbers, scanning,
                 probed, moved, untouched>>

----------------------------------------------------------------------------
(* Automount compares one integer per frame with the one it saw last.      *)

Inventory == {<<reserved[l], l>> : l \in {k \in Slots : slots[k] \in Drives}}

AutomountLooks ==
  /\ at = "frame" /\ moved
  /\ moved' = FALSE
  /\ UNCHANGED <<cables, hub, slots, unhandled, numbers, scanning, probed, loop, untouched>>

Init ==
  /\ plugged = [l \in Slots |-> Nothing]
  /\ rootEdge = FALSE /\ latch = {} /\ hubAwake = FALSE /\ moves = 0
  /\ hub = FALSE
  /\ slots = [l \in Slots |-> Nothing]
  /\ unhandled = {}
  /\ reserved = [l \in Slots |-> NoId] /\ current = {} /\ nextId = 0
  /\ paused = FALSE /\ failures = 0
  /\ probed = FALSE
  /\ moved = TRUE
  /\ at = "frame" /\ port = 1 /\ back = "frame" /\ cycled = FALSE
  /\ untouched = {}

CableStep == \E l \in Slots :
  \/ \E d \in Devices \cup {HubDevice} : Plug(l, d)
  \/ Unplug(l)

ServiceStep ==
  \/ TakeEdge \/ RootGone \/ RootChanged \/ RootQuiet \/ DetachStaleHid
  \/ Sweep \/ SweepPast \/ SweepDetach
  \/ Room \/ ScanPast \/ ScanFound \/ ScanFails \/ ScanEnds \/ ScanBind

RescanStep ==
  \/ AskRescan \/ PowerCycle \/ StartRescan
  \/ ProbeEmpty \/ ProbeUnreachable \/ ProbeDirect \/ ProbeHub
  \/ PortEmpty \/ PortFound \/ PortFails \/ PortBind
  \/ PowerCycleWithin \/ RescanEnds

Next == CableStep \/ ServiceStep \/ RescanStep \/ AutomountLooks

Spec == Init /\ [][Next]_vars

----------------------------------------------------------------------------
(* Properties.                                                             *)

\* Types of the cables, the registry's tables and the frame loop; the scans that
\* fail in a row never pass the threshold they are given up at.
TypeOK ==
  /\ plugged \in [Slots -> Devices \cup {HubDevice, Nothing}]
  /\ rootEdge \in BOOLEAN /\ latch \subseteq Ports /\ hubAwake \in BOOLEAN
  /\ moves \in 0..MaxMoves
  /\ hub \in BOOLEAN
  /\ slots \in [Slots -> Devices \cup {Nothing}]
  /\ unhandled \subseteq Slots
  /\ reserved \in [Slots -> Ids \cup {NoId}] /\ current \subseteq Slots /\ nextId \in Ids
  /\ paused \in BOOLEAN /\ failures \in 0..GiveUp
  /\ probed \in BOOLEAN /\ moved \in BOOLEAN
  /\ at \in {"frame", "changed", "quiet", "sweep", "sweeping", "room", "scan", "scanBind",
             "scanned", "rescan", "probe", "port", "portBind", "tail"}
  /\ port \in Ports /\ back \in {"frame", "sweep"} /\ cycled \in BOOLEAN
  /\ untouched \subseteq Slots

\* The number of a drive is never taken from a drive that is still attached,
\* nor from one a rescan is about to find again, at any point of a scan, and
\* although the edge that starts a rescan has already voided every
\* reservation (registry.rs, STORAGE_ID_LIMIT and storage_id_held).
NumbersDistinct ==
  /\ \A l, k \in Slots : l # k /\ slots[l] \in Drives /\ slots[k] \in Drives =>
       reserved[l] # reserved[k]
  /\ \A l, k \in current : l # k => reserved[l] # reserved[k]

\* A drive whose cable stays where it is keeps its number through every
\* rescan, recovery and failure to answer, found again or not yet, unless its
\* hub reports an edge there (registry.rs, assign_storage_id).
UntouchedDriveKeepsItsNumber ==
  [][\A l \in untouched \cap untouched' \cap current :
       l \notin latch => l \in current' /\ reserved'[l] = reserved[l]]_vars

\* One integer is enough for automount: whenever it finds it where it was, the
\* drives are the ones it saw (registry.rs, topology_epoch).
AutomountMissesNothing == [][Inventory' # Inventory => moved']_vars

\* The comment's claim: a drive taken out and replaced does not inherit the
\* number.  A reservation is only ever taken up again by a drive whose cable
\* has been where it is since the number was given.
ReplacedDriveDoesNotInherit ==
  [][\A l \in Ports :
       l \in current /\ slots[l] = Nothing /\ slots'[l] \in Drives => l \in untouched]_vars

Numbers == INSTANCE UsbNumbers WITH
  number <- [l \in Slots |->
               IF l \in current /\ slots[l] \in Drives THEN reserved[l] ELSE NoId],
  kept <- [l \in Slots |-> IF l \in current THEN reserved[l] ELSE NoId],
  nextNumber <- nextId

\* Scans, sweeps, rescans and edges in any order are nothing but drives being
\* found, lost and unplugged.
ImplementsNumbers == Numbers!Spec

----------------------------------------------------------------------------
(* What two states that behave alike have in common, for TLC's VIEW.       *)

\* Numbers are handed out in a circle, so only how far each is from the next
\* one matters; and the number of a slot that is neither reserved nor attached
\* is never read.
NumberSeen(l) == IF l \in current \/ slots[l] \in Drives
                 THEN (reserved[l] - nextId) % IdLimit ELSE NoId
Seen == <<cables, hub, slots, unhandled, [l \in Slots |-> NumberSeen(l)], current,
          scanning, probed, moved, loop, untouched>>
=============================================================================
