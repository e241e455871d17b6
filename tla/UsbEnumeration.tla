--------------------------- MODULE UsbEnumeration ---------------------------
(***************************************************************************)
(* How the devices behind a hub come onto the bus: src/src/usb/hub.rs (the *)
(* hub's own requests), src/src/usb/protocol.rs (control transfers and     *)
(* enumerate_device) and the sweep over the ports in                       *)
(* src/src/usb/registry.rs (attach_hub, enumerate_hub_port).               *)
(*                                                                         *)
(* A control transfer is one step per attempt.  An attempt that fails may  *)
(* have failed before or after the device acted on it: the caller cannot   *)
(* tell, and retries the whole transfer.                                   *)
(*                                                                         *)
(* The hub carries a reset out in its own time, keeps the completion edges *)
(* and the devices of an earlier session, and may have lost either.  A     *)
(* port that is disabled while its reset runs is assumed to end it.        *)
(***************************************************************************)
EXTENDS Integers, FiniteSets, FiniteSetsExt

CONSTANTS
    PortCount,   \* ports the hub says it has
    MaxPorts,    \* ports the registry tracks (MAX_PORTS, MAX_HUB_PORTS)
    Sayings,     \* what a device says of itself: records [size0, mps, total, has]
    Attempts,    \* CONTROL_TRANSFER_ATTEMPTS
    Faults,      \* bound: transfers' attempts that are lost
    Moves,       \* bound: devices pulled out or put in
    None

VARIABLE bus

Ports == 1 .. Min({PortCount, MaxPorts})

\* protocol::downstream_address: the hub itself is ROOT_DEVICE_ADDRESS.
Address(p) == p + 1

-----------------------------------------------------------------------------
(* The data stage of an IN transfer, packet by packet. *)

\* What a device with packets of "size" bytes and "has" bytes to say sends in
\* answer to a request for "want", read in packets of "mps": the bytes
\* received, or None when it sends more than the packet asked for.
DataStage(mps, want, size, has) ==
    LET sends == Min({want, has})
        read[got \in 0 .. want] ==
            LET chunk == Min({want - got, Max({mps, 1})})
                packet == Min({sends - got, size})
            IN  IF got = want THEN got
                ELSE IF packet > chunk THEN None
                ELSE IF packet < chunk THEN got + packet
                ELSE read[got + packet]
    IN  read[0]

\* The length asked for in the second read of the configuration descriptor.
ConfigHeader == 9
ConfigBufferMax == 256
Clamped(total) == Max({ConfigHeader, Min({total, ConfigBufferMax})})

DeviceDescriptor == 18

-----------------------------------------------------------------------------
(* The hub and what is plugged into it. *)

Reset == {"no", "wanted", "asserted"}

TypeOK ==
    /\ bus.pc \in {"configure", "descriptor", "power", "scan", "settle", "acknowledge",
                   "clear", "set", "poll", "clear2", "recover", "peek", "address",
                   "device", "header", "config", "failed", "off", "on", "disable", "end"}
    /\ bus.port \in Ports
    /\ bus.tries \in 0 .. Attempts - 1
    /\ \A p \in Ports :
        /\ bus.at[p].address \in {0} \cup {Address(q) : q \in Ports}
        /\ bus.at[p].reset \in Reset
        /\ bus.at[p].enabled => bus.at[p].plugged /\ bus.at[p].powered
    /\ bus.unhandled \subseteq Ports

\* A port before the sweep: a self-powered hub may have kept its device
\* enabled at the address of an earlier session, and an old completion edge.
Before ==
    [plugged : BOOLEAN, powered : {TRUE}, enabled : BOOLEAN, address : {0}, kept : BOOLEAN,
     reset : {"no"}, stuck : {FALSE}, edge : BOOLEAN, fresh : {FALSE}, moved : {FALSE}]

Init ==
    \E before \in [Ports -> {b \in Before : /\ b.kept => b.plugged
                                            /\ b.enabled = b.kept
                                            /\ b.edge => b.kept}],
       says \in [Ports -> Sayings], edges, perPort, isHub \in BOOLEAN :
        bus = [pc |-> "configure", port |-> 1, tries |-> 0, faults |-> Faults, moves |-> Moves,
               at |-> [p \in Ports |->
                        [before[p] EXCEPT !.address = IF before[p].kept THEN Address(p) ELSE 0,
                                          !.powered = before[p].kept]],
               says |-> says, edges |-> edges, perPort |-> perPort, isHub |-> isHub,
               saw |-> FALSE, cycled |-> FALSE, mayCycle |-> perPort,
               mps |-> 8, mine |-> None, total |-> 0,
               unhandled |-> {}, refused |-> {}, attached |-> [p \in Ports |-> None]]

Port(s) == s.at[s.port]
SetPort(s, port) == [s EXCEPT !.at[s.port] = port]
Connected(s) == Port(s).plugged /\ Port(s).powered

\* CLEAR_FEATURE and SET_FEATURE as the hub carries them out.
EdgeCleared(s) == SetPort(s, [Port(s) EXCEPT !.edge = FALSE])
ResetWanted(s) ==
    SetPort(s, [Port(s) EXCEPT !.reset = IF Connected(s) THEN "wanted" ELSE @])
PowerOff(s) ==
    SetPort(s, [Port(s) EXCEPT !.powered = FALSE, !.enabled = FALSE, !.reset = "no", !.stuck = FALSE])
PowerOn(s) == SetPort(s, [Port(s) EXCEPT !.powered = TRUE])
Disabled(s) == SetPort(s, [Port(s) EXCEPT !.enabled = FALSE, !.reset = "no", !.stuck = FALSE])

\* The hub carries out a reset it was asked for.
AssertReset(p) ==
    /\ bus.at[p].reset = "wanted" /\ ~bus.at[p].stuck
    /\ bus' = [bus EXCEPT !.at[p].reset = "asserted", !.at[p].enabled = FALSE]

CompleteReset(p) ==
    /\ bus.at[p].reset = "asserted" /\ ~bus.at[p].stuck
    /\ bus' = [bus EXCEPT !.at[p] = [@ EXCEPT !.reset = "no", !.enabled = TRUE, !.address = 0,
                                              !.edge = bus.edges, !.fresh = TRUE]]

\* A hub that never gets a reset done.
HubSticks(p) ==
    /\ bus.at[p].reset # "no" /\ ~bus.at[p].stuck /\ bus.faults > 0
    /\ bus' = [bus EXCEPT !.at[p].stuck = TRUE, !.faults = @ - 1]

\* Someone pulls a device out or puts one in.
Move(p) ==
    /\ bus.pc # "end" /\ bus.moves > 0
    /\ bus' = [bus EXCEPT !.moves = @ - 1,
                          !.at[p] = [@ EXCEPT !.plugged = ~@, !.enabled = FALSE, !.reset = "no",
                                              !.stuck = FALSE, !.moved = TRUE]]

-----------------------------------------------------------------------------
(* Control transfers. *)

\* retry_control_transfer: what one attempt at a transfer leaves.  "did" is
\* the state once the device has acted on it, "ok" what a good answer leads to.
Attempt(s, did, ok, otherwise) ==
    {[ok EXCEPT !.tries = 0]}
    \cup {IF s.tries + 1 = Attempts
          THEN [left EXCEPT !.pc = otherwise, !.tries = 0, !.faults = @ - 1]
          ELSE [left EXCEPT !.tries = @ + 1, !.faults = @ - 1]
            : left \in {x \in {s, did} : s.faults > 0}}

Ask(s, did, then, otherwise) == Attempt(s, did, [did EXCEPT !.pc = then], otherwise)

\* A transfer nothing answers fails however often it is tried.
Unanswered(s, otherwise) == {[s EXCEPT !.pc = otherwise, !.tries = 0]}

\* The devices that answer at an address; a collision is noise, or either of them.
Answering(s, address) == {p \in Ports : s.at[p].enabled /\ s.at[p].address = address}

\* A read of "want" bytes out of the "has" bytes of whoever answers: the
\* length each would send, and what is kept of the answer that is heard.
Sent(s, address, mps, want, has) ==
    [p \in Answering(s, address) |-> DataStage(mps, want, s.says[p].mps, has[p])]
Read(s, sent, kept, then) ==
    LET heard == {p \in DOMAIN sent : sent[p] # None}
    IN  UNION {Attempt(s, s, [kept[p] EXCEPT !.pc = then], "failed") : p \in heard}
        \cup IF Cardinality(heard) = 1 /\ heard = DOMAIN sent THEN {} ELSE Unanswered(s, "failed")

Device == [p \in Ports |-> DeviceDescriptor]
Configuration(s) == [p \in Ports |-> s.says[p].has]

-----------------------------------------------------------------------------
(* Opening the hub: Hub::open, read_descriptor, power_on_all_ports. *)

Configure(s) == Ask(s, s, "descriptor", "end")

\* Both passes; a device of another class has no hub descriptor to give.
ReadDescriptor(s) == IF s.isHub THEN Ask(s, s, "power", "end") ELSE Unanswered(s, "end")

PowerPort(s) ==
    IF s.port = Max(Ports)
    THEN Ask(s, PowerOn(s), "scan", "end")
           \* The sweep starts over at the first port.
    ELSE {IF t.pc = "scan" THEN [t EXCEPT !.pc = "power", !.port = @ + 1] ELSE t
            : t \in Ask(s, PowerOn(s), "scan", "end")}

-----------------------------------------------------------------------------
(* One port of the sweep. *)

NextPort(s) ==
    IF s.port = Max(Ports)
    THEN [s EXCEPT !.pc = "end", !.cycled = FALSE, !.saw = FALSE]
    ELSE [s EXCEPT !.pc = "scan", !.port = @ + 1, !.cycled = FALSE, !.saw = FALSE]

Marked(s) == NextPort([s EXCEPT !.unhandled = @ \cup {s.port}])

\* debounce_connected_port found nothing, or the hub stopped answering.
Empty(s) ==
    IF s.cycled THEN Marked(s) ELSE NextPort([s EXCEPT !.unhandled = @ \ {s.port}])
HubStopped(s) == IF s.cycled THEN Marked(s) ELSE [s EXCEPT !.pc = "end"]

\* GET_STATUS of the port, and what is made of a connection or of none.
Look(s, then) ==
    {CASE t.pc = "yes" -> IF Connected(s) THEN [t EXCEPT !.pc = then] ELSE Empty(t)
       [] t.pc = "no" -> HubStopped(t)
       [] OTHER -> t
        : t \in Ask(s, s, "yes", "no")}

\* The answer to clearing the connection edge is not looked at.
Acknowledge(s) == Ask(s, s, "clear", "clear")

\* reset_port.
ClearOldEdge(s) ==
    {[t EXCEPT !.at[s.port].fresh = FALSE] : t \in Ask(s, EdgeCleared(s), "set", "failed")}
StartReset(s) == Ask([s EXCEPT !.saw = FALSE], ResetWanted([s EXCEPT !.saw = FALSE]), "poll", "failed")

PollReset(s) ==
    LET saw == s.saw \/ Port(s).reset = "asserted"
        done == Port(s).edge \/ (saw /\ Port(s).reset # "asserted")
        over == Port(s).stuck \/ Port(s).reset = "no"
    IN  Ask(s, [s EXCEPT !.saw = saw], IF done THEN "clear2" ELSE "poll", "failed")
        \cup IF over /\ ~done THEN Unanswered(s, "failed") ELSE {}

ClearEdge(s) == Ask(s, EdgeCleared(s), "recover", "failed")

\* The recovery delay lets the hub finish whatever it was asked for.
Recover(s) ==
    IF Port(s).reset # "no" /\ ~Port(s).stuck THEN {}
    ELSE Ask(s, s, IF Port(s).enabled THEN "peek" ELSE "failed", "failed")

\* enumerate_device.
Peek(s) ==
    Read(s, Sent(s, 0, 8, 8, Device),
         [p \in Ports |-> [s EXCEPT !.mps = IF s.says[p].size0 = 0 THEN 8 ELSE s.says[p].size0]],
         "address")

Addressed(s, who) == [s EXCEPT !.at = [p \in Ports |-> IF p \in who
                                          THEN [s.at[p] EXCEPT !.address = Address(s.port)] ELSE s.at[p]]]
SetAddress(s) ==
    LET who == Answering(s, 0)
    IN  IF who = {} THEN Unanswered(s, "failed")
        ELSE Ask(s, Addressed(s, who), "device", "failed")

ReadDevice(s) ==
    Read(s, Sent(s, Address(s.port), s.mps, DeviceDescriptor, Device),
         [p \in Ports |-> [s EXCEPT !.mine = p,
                                    !.mps = IF s.says[p].size0 = 0 THEN @ ELSE s.says[p].size0]],
         "header")

ReadHeader(s) ==
    Read(s, Sent(s, Address(s.port), s.mps, ConfigHeader, Configuration(s)),
         [p \in Ports |-> [s EXCEPT !.total = s.says[p].total]], "config")

ReadConfig(s) ==
    LET sent == Sent(s, Address(s.port), s.mps, Clamped(s.total), Configuration(s))
        kept == [p \in DOMAIN sent |-> [s EXCEPT !.attached[s.port] =
                    [who |-> s.mine, address |-> Address(s.port), mps |-> s.mps,
                     total |-> s.total, length |-> sent[p]]]]
    IN  {IF t.pc = "done" THEN NextPort([t EXCEPT !.unhandled = @ \ {s.port}]) ELSE t
            : t \in Read(s, sent, kept, "done")}

\* enumerate_hub_port: a power cycle if one is allowed, then the quarantine.
Escalate(s) ==
    IF ~s.cycled /\ s.mayCycle
    THEN [s EXCEPT !.pc = "off", !.cycled = TRUE, !.mayCycle = FALSE]
    ELSE [s EXCEPT !.pc = "disable"]

CutPower(s) == Ask(s, PowerOff(s), "on", "disable")
RestorePower(s) == Ask(s, PowerOn(s), "scan", "disable")

\* disable_failed_hub_port.
Quarantine(s) ==
    {CASE t.pc = "yes" -> Marked(t)
       [] t.pc = "no" -> Marked([t EXCEPT !.refused = @ \cup {s.port}])
       [] OTHER -> t
        : t \in Ask(s, Disabled(s), "yes", "no")}

-----------------------------------------------------------------------------
At(pc, results(_)) == bus.pc = pc /\ \E t \in results(bus) : bus' = t

FirstPort(s) == IF s.pc = "scan" THEN [s EXCEPT !.port = 1] ELSE s

OpenHub ==
    \/ At("configure", Configure)
    \/ At("descriptor", ReadDescriptor)
    \/ At("power", LAMBDA s : {FirstPort(t) : t \in PowerPort(s)})

ScanPort ==
    \/ At("scan", LAMBDA s : Look(s, "settle"))
    \/ At("settle", LAMBDA s : Look(s, "acknowledge"))
    \/ At("acknowledge", Acknowledge)

ResetPort ==
    \/ At("clear", ClearOldEdge)
    \/ At("set", StartReset)
    \/ At("poll", PollReset)
    \/ At("clear2", ClearEdge)
    \/ At("recover", Recover)

Enumerate ==
    \/ At("peek", Peek)
    \/ At("address", SetAddress)
    \/ At("device", ReadDevice)
    \/ At("header", ReadHeader)
    \/ At("config", ReadConfig)

GiveUp ==
    \/ At("failed", LAMBDA s : {Escalate(s)})
    \/ At("off", CutPower)
    \/ At("on", RestorePower)
    \/ At("disable", Quarantine)

Next ==
    \/ OpenHub \/ ScanPort \/ ResetPort \/ Enumerate \/ GiveUp
    \/ \E p \in Ports : AssertReset(p) \/ CompleteReset(p) \/ HubSticks(p) \/ Move(p)

Spec == Init /\ [][Next]_bus

-----------------------------------------------------------------------------
(* Properties *)

\* Only one enabled device is ever in the Default state: the one on the port
\* being enumerated (disable_failed_hub_port; protocol::enumerate_device).
\* The exception is a port whose own disable request failed.
OneAtAddressZero ==
    {p \in Ports : bus.at[p].enabled /\ bus.at[p].address = 0} \subseteq {bus.port} \cup bus.refused

\* A reset is only believed finished once the hub has carried out one asked
\* for since: an edge left over from an earlier session does not end the wait
\* (Hub::reset_port).
ResetIsItsOwn ==
    bus.pc \in {"peek", "address"} /\ Port(bus).enabled => Port(bus).fresh

\* A device recorded as enumerated is the one on that port, answers at the
\* address it was given, and its descriptor is all of what it has, up to what
\* it said and what the buffer holds -- unless it was pulled out since, or an
\* unquarantined device shouted over it.
EnumeratedIsThere ==
    \A p \in Ports : bus.attached[p] # None /\ ~bus.at[p].moved /\ bus.refused = {} =>
        /\ bus.attached[p].who = p
        /\ bus.at[p].enabled /\ bus.at[p].address = Address(p)
        /\ bus.attached[p].length = Min({Clamped(bus.says[p].total), bus.says[p].has})
=============================================================================
