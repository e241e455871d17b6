------------------------------ MODULE RpcLink ------------------------------
(***************************************************************************)
(* Remote calls to the Wi-Fi coprocessor over its serial channel           *)
(* (wifi/rpc.rs).                                                          *)
(*                                                                         *)
(* One link carries three things: the answers to calls, events, and the    *)
(* frames of the station.  A call of the panel is begun and then polled    *)
(* for while the link is serviced once a frame; a call of the console      *)
(* blocks until its answer comes or it times out.  Requests are numbered;  *)
(* `of` is the request an answer was made for, which the code cannot see.  *)
(***************************************************************************)
EXTENDS Integers, Sequences, FiniteSetTheorems, SequenceTheorems, TLAPS

CONSTANTS
    Ids,           \* requests there are
    None,          \* no call
    MaxRequests,   \* bound: requests of one link
    MaxFrames,     \* bound: station frames of one link
    MaxEvents,     \* bound: events of one link
    MaxIncoming,   \* bound: frames waiting in the transport
    StationQueue,  \* station frames held for the network stack
    EventQueue     \* events held

VARIABLE rpc

Fresh(echoes) ==
    [echoes |-> echoes, up |-> TRUE, timedOut |-> FALSE, mode |-> "idle",
     wait |-> None, pending |-> None, reply |-> None, answer |-> None,
     sent |-> 0, asked |-> <<>>, incoming |-> <<>>, reassembly |-> <<>>,
     station |-> <<>>, arrived |-> 0, raised |-> 0, delivered |-> 0, dropped |-> 0,
     events |-> <<>>, overran |-> {}, orphaned |-> FALSE, torn |-> FALSE]
Init == \E echoes \in BOOLEAN : rpc = Fresh(echoes)

Alive == rpc.up /\ ~rpc.timedOut

---------------------------------------------------------------------------
(* The coprocessor (external): it answers a request when it likes, one     *)
(* that does not know the uid field with zero, in one fragment or two.     *)

Fragment(kind, id, of, uid, part, parts) ==
    [kind |-> kind, id |-> id, of |-> of, uid |-> uid, part |-> part, parts |-> parts]
Fragments(id, of, uid, parts) ==
    [i \in 1 .. parts |-> Fragment("response", id, of, uid, i, parts)]
Answer(parts) ==
    /\ rpc.up /\ rpc.asked # <<>> /\ Len(rpc.incoming) + parts <= MaxIncoming
    /\ LET q == Head(rpc.asked)
           uid == IF rpc.echoes THEN q.uid ELSE 0
       IN  rpc' = [rpc EXCEPT !.asked = Tail(@), !.incoming = @ \o Fragments(q.id, q.uid, uid, parts)]
Raise ==
    /\ rpc.up /\ rpc.raised < MaxEvents /\ Len(rpc.incoming) < MaxIncoming
    /\ rpc' = [rpc EXCEPT !.raised = @ + 1,
                          !.incoming = Append(@, Fragment("event", rpc.raised + 1, 0, 0, 1, 1))]
StationFrame ==
    /\ rpc.up /\ rpc.arrived < MaxFrames /\ Len(rpc.incoming) < MaxIncoming
    /\ rpc' = [rpc EXCEPT !.arrived = @ + 1,
                          !.incoming = Append(@, [kind |-> "station", of |-> rpc.arrived + 1])]
(* A frame of the serial channel that does not decode is lost.             *)
LoseFrame ==
    /\ rpc.incoming # <<>> /\ Head(rpc.incoming).kind # "station"
    /\ rpc' = [rpc EXCEPT !.incoming = Tail(@),
                          !.torn = @ \/ Head(rpc.incoming).parts > 1 \/ rpc.reassembly # <<>>]
LinkDies == rpc.up /\ rpc' = [rpc EXCEPT !.up = FALSE]

---------------------------------------------------------------------------
(* Reading *)

(* The oldest frame makes room where reading cannot stop for a full queue. *)
QueueStation(r, number) ==
    IF Len(r.station) >= StationQueue
    THEN [r EXCEPT !.station = Append(Tail(@), number), !.dropped = @ + 1,
                   !.overran = @ \cup {r.mode}]
    ELSE [r EXCEPT !.station = Append(@, number)]

PushEvent(r, id) ==
    [r EXCEPT !.events = Append(IF Len(@) >= EventQueue THEN Tail(@) ELSE @, id)]

(* A message decodes if it starts with an envelope and is as long as that  *)
(* says; whether the rest is its own cannot be seen.                       *)
Decoded(message) == message[1].part = 1 /\ Len(message) >= message[1].parts
Mixed(message) ==
    \/ Len(message) # message[1].parts
    \/ \E i \in 1 .. Len(message) : message[i] # [message[1] EXCEPT !.part = i]

(* The answer to a call: its message id, and its uid if the coprocessor    *)
(* sends one.                                                              *)
MutantMatches(call, m) == call # None /\ m.kind = "response" /\ m.id = call.id
Matches(call, m) ==
    /\ call # None /\ m.kind = "response" /\ m.id = call.id
    /\ m.uid = call.uid \/ m.uid = 0

Ended(r, call, m, mixed) ==
    [r EXCEPT !.mode = "idle", !.wait = None,
              !.answer = [to |-> call.uid, of |-> m.of, mixed |-> mixed]]
Dispatch(r, m, mixed) ==
    LET wanted == r.mode = "event" /\ m.kind = "event" /\ m.id \in r.wait
    IN  CASE wanted -> [r EXCEPT !.mode = "idle", !.wait = None]
          [] m.kind = "event" /\ ~wanted -> PushEvent(r, m.id)
          [] r.mode = "call" /\ Matches(r.wait, m) -> Ended(r, r.wait, m, mixed)
          [] r.mode = "idle" /\ Matches(r.pending, m) ->
                 [r EXCEPT !.reply = [of |-> m.of, mixed |-> mixed]]
          [] OTHER -> r

Collect(r, f) ==
    LET rest == [r EXCEPT !.incoming = Tail(@)]
        message == Append(r.reassembly, f)
    IN  CASE f.kind = "station" -> QueueStation(rest, f.of)
          [] f.kind # "station" /\ f.part < f.parts -> [rest EXCEPT !.reassembly = message]
          [] f.kind # "station" /\ f.part = f.parts /\ Decoded(message) ->
                 Dispatch([rest EXCEPT !.reassembly = <<>>], message[1], Mixed(message))
          [] OTHER -> [rest EXCEPT !.reassembly = <<>>]

(* Servicing stops where the station queue is full: the rest waits in the  *)
(* transport.                                                              *)
NextMessage(r) == IF Len(r.station) >= StationQueue THEN r ELSE Collect(r, Head(r.incoming))
Reads(r) ==
    LET read[n \in 0 .. Len(r.incoming)] == IF n = 0 THEN r ELSE NextMessage(read[n - 1])
    IN  read
Serviced(r) == Reads(r)[Len(r.incoming)]
Service == rpc.mode = "idle" /\ Alive /\ rpc' = Serviced(rpc)

Discard ==
    LET served == Serviced(rpc)
    IN  /\ rpc.mode = "idle" /\ Alive
        /\ rpc' = [served EXCEPT !.station = <<>>, !.dropped = @ + Len(served.station)]
TakeStationFrame ==
    /\ rpc.mode = "idle" /\ rpc.station # <<>>
    /\ rpc' = [rpc EXCEPT !.station = Tail(@), !.delivered = @ + 1]
TakeEvents == rpc.mode = "idle" /\ rpc.events # <<>> /\ rpc' = [rpc EXCEPT !.events = <<>>]

---------------------------------------------------------------------------
(* The panel's calls *)

Requested(id) ==
    [rpc EXCEPT !.sent = @ + 1, !.asked = Append(@, [id |-> id, uid |-> rpc.sent + 1]),
                !.answer = None]
MayRequest == rpc.mode = "idle" /\ Alive /\ rpc.pending = None /\ rpc.sent < MaxRequests

BeginCall(id) ==
    /\ MayRequest
    /\ rpc' = [Requested(id) EXCEPT !.reply = None, !.pending = [id |-> id, uid |-> rpc.sent + 1]]

Retired(r) == [r EXCEPT !.timedOut = TRUE, !.pending = None]
PollCall ==
    /\ rpc.mode = "idle" /\ rpc.pending # None
    /\ IF rpc.reply # None
       THEN rpc' = [rpc EXCEPT !.pending = None, !.reply = None,
                               !.answer = [to |-> rpc.pending.uid, of |-> rpc.reply.of,
                                           mixed |-> rpc.reply.mixed]]
       ELSE \* the deadline may have passed
            rpc' \in IF Alive THEN {rpc, Retired(rpc)} ELSE {Retired(rpc)}
Cancelled(r) == [Retired(r) EXCEPT !.reply = None]
CancelCall == rpc.mode = "idle" /\ rpc.pending # None /\ rpc' = Cancelled(rpc)

---------------------------------------------------------------------------
(* The console's calls *)

Call(id) ==
    /\ MayRequest
    /\ rpc' = [Requested(id) EXCEPT !.mode = "call", !.wait = [id |-> id, uid |-> rpc.sent + 1]]
WaitForEvent(wanted) ==
    /\ rpc.mode = "idle" /\ Alive
    /\ rpc' = [rpc EXCEPT !.mode = "event", !.wait = wanted]
Blocked ==
    /\ rpc.mode # "idle" /\ rpc.up /\ rpc.incoming # <<>>
    /\ rpc' = Collect(rpc, Head(rpc.incoming))
(* A call that timed out leaves its link in use.                           *)
TimeOut ==
    /\ rpc.mode # "idle"
    /\ rpc' = [rpc EXCEPT !.mode = "idle", !.wait = None,
                          !.orphaned = @ \/ rpc.mode = "call"]

(* A link that is no longer usable is brought up from its reset.           *)
Renew == rpc.mode = "idle" /\ ~Alive /\ rpc' = Fresh(rpc.echoes)

Next ==
    \/ \E parts \in 1 .. 2 : Answer(parts)
    \/ Raise \/ StationFrame \/ LoseFrame \/ LinkDies
    \/ Service \/ Discard \/ TakeStationFrame \/ TakeEvents
    \/ \E id \in Ids : BeginCall(id) \/ Call(id)
    \/ PollCall \/ CancelCall
    \/ \E wanted \in (SUBSET (1 .. MaxEvents)) \ {{}} : WaitForEvent(wanted)
    \/ Blocked \/ TimeOut \/ Renew

Spec == Init /\ [][Next]_rpc

---------------------------------------------------------------------------
(* Properties *)

TypeOK ==
    /\ rpc.mode \in {"idle", "call", "event"}
    /\ Len(rpc.station) <= StationQueue /\ Len(rpc.events) <= EventQueue
    /\ rpc.pending # None => rpc.mode # "call"
    /\ Len(rpc.incoming) <= MaxIncoming

(* A caller gets the answer to its own request.  The exception is a        *)
(* coprocessor that sends no uid, after a call of the console timed out:   *)
(* the code then takes the late answer for the next call of the same kind. *)
AnswersMatch ==
    rpc.answer # None => rpc.answer.of = rpc.answer.to \/ (~rpc.echoes /\ rpc.orphaned)

(* An answer is put together from its own fragments, unless one was lost:  *)
(* the code then fills the gap with the fragments of the next message.     *)
FragmentsBelongTogether == rpc.answer # None /\ rpc.answer.mixed => rpc.torn

(* Station frames reach the stack in the order they came, and each is      *)
(* waiting, delivered or counted as dropped: those that wait are the last  *)
(* that came, first in the queue and then in the transport.                *)
StationsOf(frames) == {i \in 1 .. Len(frames) : frames[i].kind = "station"}
FramesAccounted ==
    LET gone == rpc.delivered + rpc.dropped
        stations == StationsOf(rpc.incoming)
    IN  /\ gone + Len(rpc.station) <= rpc.arrived
        /\ \A i \in 1 .. Len(rpc.station) : rpc.station[i] = gone + i
        /\ {rpc.incoming[i].of : i \in stations} = gone + Len(rpc.station) + 1 .. rpc.arrived
        /\ \A i, j \in stations : i < j => rpc.incoming[i].of < rpc.incoming[j].of

(* Frames overrun the queue only where reading may not stop.               *)
ServicingHoldsBack == "idle" \notin rpc.overran

---------------------------------------------------------------------------
(* Proofs: the properties for any ids, any lengths of the queues and any   *)
(* number of requests, frames and events.  The invariant is a predicate of *)
(* the link, since servicing it runs many functions of it in one step.     *)

Calls == [id : Ids, uid : Nat \ {0}]

\* What the theorems assume of the constants.
Limits ==
    /\ MaxRequests \in Nat /\ MaxFrames \in Nat /\ MaxEvents \in Nat /\ MaxIncoming \in Nat
    /\ StationQueue \in Nat \ {0} /\ EventQueue \in Nat \ {0}
    /\ None \notin Calls

Events == [kind : {"event"}, id : Nat, of : Nat, uid : Nat, part : {1}, parts : {1}]
Responses == [kind : {"response"}, id : Ids, of : Nat \ {0}, uid : Nat, part : 1 .. 2, parts : 1 .. 2]
Stations == [kind : {"station"}, of : Nat]
Frames == Events \cup Responses \cup Stations
Links == [echoes : BOOLEAN, up : BOOLEAN, timedOut : BOOLEAN, mode : {"idle", "call", "event"},
          wait : {None} \cup Calls \cup SUBSET Nat, pending : {None} \cup Calls,
          reply : {None} \cup [of : Nat, mixed : BOOLEAN],
          answer : {None} \cup [to : Nat, of : Nat, mixed : BOOLEAN],
          sent : Nat, asked : Seq(Calls), incoming : Seq(Frames),
          reassembly : Seq(Responses),
          station : Seq(Nat), arrived : Nat, raised : Nat, delivered : Nat, dropped : Nat,
          events : Seq(Nat), overran : SUBSET {"idle", "call", "event"}, orphaned : BOOLEAN, torn : BOOLEAN]

\* The queues keep their bounds, and one call is under way at most.
Bounded(r) ==
    /\ Len(r.station) <= StationQueue /\ Len(r.events) <= EventQueue /\ Len(r.incoming) <= MaxIncoming
    /\ "idle" \notin r.overran
Modes(r) ==
    /\ r.mode = "call" => r.wait \in Calls /\ r.pending = None
    /\ r.mode = "event" => r.wait \in SUBSET Nat
    /\ r.mode # "idle" \/ r.pending # None => ~r.timedOut
    /\ r.reply # None => r.pending # None

\* The station frames of the queue and of the transport.
Accounted(r) ==
    LET gone == r.delivered + r.dropped
        stations == StationsOf(r.incoming)
    IN  /\ gone + Len(r.station) <= r.arrived
        /\ \A i \in 1 .. Len(r.station) : r.station[i] = gone + i
        /\ {r.incoming[i].of : i \in stations} = gone + Len(r.station) + 1 .. r.arrived
        /\ \A i, j \in stations : i < j => r.incoming[i].of < r.incoming[j].of

\* Fragments: what the coprocessor says of them, and that the first of two is
\* followed by the second unless one was lost.
First(f) == f.kind = "response" /\ f.part = 1
Opens(f) == First(f) /\ f.parts = 2
Second(f) == f.kind = "response" /\ f.part = 2
Echoed(r) ==
    /\ \A i \in 1 .. Len(r.reassembly) : Opens(r.reassembly[i])
    /\ \A i \in 1 .. Len(r.incoming) : r.incoming[i].kind = "response" =>
           /\ r.incoming[i].uid = IF r.echoes THEN r.incoming[i].of ELSE 0
           /\ Second(r.incoming[i]) => r.incoming[i].parts = 2
    /\ \A i \in 1 .. Len(r.reassembly) :
           r.reassembly[i].uid = IF r.echoes THEN r.reassembly[i].of ELSE 0
Follows(f, g) == Second(g) /\ g = [f EXCEPT !.part = 2]
Whole(r) ==
    ~r.torn =>
        /\ Len(r.reassembly) <= 1
        /\ r.reassembly # <<>> => r.incoming # <<>> /\ Follows(r.reassembly[1], r.incoming[1])
        /\ \A i \in 1 .. Len(r.incoming) :
               /\ Opens(r.incoming[i]) => i < Len(r.incoming) /\ Follows(r.incoming[i], r.incoming[i + 1])
               /\ Second(r.incoming[i]) =>
                      IF i = 1 THEN r.reassembly # <<>> ELSE Opens(r.incoming[i - 1])

\* The call that still needs an answer.
Current(r) ==
    IF r.mode = "call" THEN {r.wait.uid}
    ELSE IF r.pending # None /\ r.reply = None THEN {r.pending.uid} ELSE {}
\* Without uids an answer can only be told by there being no other: at most one
\* is due, to the call that needs it, wherever it is by now.
Starts(frames) == {i \in 1 .. Len(frames) : First(frames[i])}
Due(r) ==
    /\ Len(r.asked) <= 1 /\ \A i \in 1 .. Len(r.asked) : r.asked[i].uid \in Current(r)
    /\ \A i, j \in Starts(r.incoming) : i = j
    /\ \A i \in Starts(r.incoming) : r.incoming[i].of \in Current(r)
    /\ \A i, j \in Starts(r.reassembly) : i = j
    /\ \A i \in Starts(r.reassembly) : r.reassembly[i].of \in Current(r)
    /\ r.asked = <<>> \/ Starts(r.incoming) = {}
    /\ r.asked = <<>> \/ Starts(r.reassembly) = {}
    /\ Starts(r.incoming) = {} \/ Starts(r.reassembly) = {}
Alone(r) == ~r.echoes /\ ~r.orphaned /\ ~r.timedOut => Due(r)

\* What was taken as an answer.
Told(r) ==
    /\ r.answer # None =>
           /\ r.answer.of = r.answer.to \/ (~r.echoes /\ r.orphaned)
           /\ r.answer.mixed => r.torn
    /\ r.reply # None =>
           /\ r.reply.of = r.pending.uid \/ (~r.echoes /\ r.orphaned)
           /\ r.reply.mixed => r.torn

Sound(r) == r \in Links /\ Bounded(r) /\ Modes(r) /\ Accounted(r) /\ Echoed(r) /\ Whole(r) /\ Alone(r) /\ Told(r)

\* The inductive invariant.
IInv == Sound(rpc)

---------------------------------------------------------------------------
(* Induction *)

\* A set of numbers that is not empty has a least one: the segment up to any
\* member is finite.
LEMMA LeastNumber ==
  ASSUME NEW T \in SUBSET Nat, T # {}
  PROVE  \E x \in T : \A y \in T : x <= y
<1> DEFINE D == {0 .. x : x \in T}
           R == StrictSubsetOrdering(Nat)
<1>1. D \subseteq FiniteSubsetsOf(Nat)
  <2>1. \A x \in T : IsFiniteSet(0 .. x) /\ 0 .. x \subseteq Nat
    BY FS_Interval
  <2> QED BY <2>1 DEF FiniteSubsetsOf
<1>2. PICK d \in D : \A e \in D : ~ (<<e, d>> \in R)
  <2> HIDE DEF R
  <2>1. D # {}
    OBVIOUS
  <2>2. IsWellFoundedOn(R, FiniteSubsetsOf(Nat))
    BY FS_StrictSubsetOrderingWellFounded DEF R
  <2> QED BY <1>1, <2>1, <2>2, WFMin
<1>3. PICK x \in T : d = 0 .. x
  BY <1>2
<1>4. ASSUME NEW y \in T, ~(x <= y) PROVE FALSE
  <2>1. 0 .. y \subseteq 0 .. x /\ x \in 0 .. x /\ x \notin 0 .. y
    BY <1>4
  <2>2. 0 .. y \in D
    OBVIOUS
  <2>3. <<0 .. y, d>> \in R
    BY <2>1, <1>3 DEF StrictSubsetOrdering
  <2> QED BY <2>2, <2>3, <1>2
<1> QED BY <1>4

\* Induction over the numbers, about a set, so that it takes no operator.
LEMMA Induction ==
  ASSUME NEW T \in SUBSET Nat, 0 \in T, \A n \in Nat : n \in T => n + 1 \in T
  PROVE  T = Nat
<1> SUFFICES ASSUME Nat \ T # {} PROVE FALSE
  OBVIOUS
<1>1. PICK x \in Nat \ T : \A y \in Nat \ T : x <= y
  BY LeastNumber
<1>2. x # 0 /\ x - 1 \in Nat
  BY <1>1
<1>3. x - 1 \in T
  BY <1>1, <1>2
<1> QED BY <1>1, <1>2, <1>3

---------------------------------------------------------------------------
(* The simple changes *)

\* A link stays one when a field of it is given another value of its kind.
LEMMA SetSent ==
  ASSUME NEW r \in Links, NEW v \in Nat
  PROVE  [r EXCEPT !.sent = v] \in Links
BY DEF Links

LEMMA SetAsked ==
  ASSUME NEW r \in Links, NEW v \in Seq(Calls)
  PROVE  [r EXCEPT !.asked = v] \in Links
BY DEF Links

LEMMA SetAnswer ==
  ASSUME NEW r \in Links, NEW v \in {None} \cup [to : Nat, of : Nat, mixed : BOOLEAN]
  PROVE  [r EXCEPT !.answer = v] \in Links
BY DEF Links

LEMMA SetReply ==
  ASSUME NEW r \in Links, NEW v \in {None} \cup [of : Nat, mixed : BOOLEAN]
  PROVE  [r EXCEPT !.reply = v] \in Links
BY DEF Links

LEMMA SetPending ==
  ASSUME NEW r \in Links, NEW v \in {None} \cup Calls
  PROVE  [r EXCEPT !.pending = v] \in Links
BY DEF Links

LEMMA SetMode ==
  ASSUME NEW r \in Links, NEW v \in {"idle", "call", "event"}
  PROVE  [r EXCEPT !.mode = v] \in Links
BY DEF Links

LEMMA SetWait ==
  ASSUME NEW r \in Links, NEW v \in {None} \cup Calls \cup SUBSET Nat
  PROVE  [r EXCEPT !.wait = v] \in Links
BY DEF Links

LEMMA SetTimedOut ==
  ASSUME NEW r \in Links, NEW v \in BOOLEAN
  PROVE  [r EXCEPT !.timedOut = v] \in Links
BY DEF Links

LEMMA SetStation ==
  ASSUME NEW r \in Links, NEW v \in Seq(Nat)
  PROVE  [r EXCEPT !.station = v] \in Links
BY DEF Links

LEMMA SetDropped ==
  ASSUME NEW r \in Links, NEW v \in Nat
  PROVE  [r EXCEPT !.dropped = v] \in Links
BY DEF Links

LEMMA SetOverran ==
  ASSUME NEW r \in Links, NEW v \in SUBSET {"idle", "call", "event"}
  PROVE  [r EXCEPT !.overran = v] \in Links
BY DEF Links

LEMMA FreshSound ==
  ASSUME Limits, NEW e \in BOOLEAN
  PROVE  Sound(Fresh(e))
<1> DEFINE r == Fresh(e)
<1>1. <<>> \in Seq(Calls) /\ <<>> \in Seq(Frames) /\ <<>> \in Seq(Responses) /\ <<>> \in Seq(Nat) /\ Len(<<>>) = 0
  BY EmptySeq
<1>2. r \in Links
  BY <1>1 DEF Fresh, Links, Frames
<1>3. /\ r.echoes = e /\ r.mode = "idle" /\ r.pending = None /\ r.reply = None /\ r.answer = None
      /\ r.asked = <<>> /\ r.incoming = <<>> /\ r.reassembly = <<>> /\ r.station = <<>> /\ r.events = <<>>
      /\ r.arrived = 0 /\ r.delivered = 0 /\ r.dropped = 0 /\ r.overran = {}
  BY DEF Fresh
<1> HIDE DEF r
<1>4. Bounded(r) /\ Modes(r)
  BY <1>1, <1>3 DEF Bounded, Modes, Limits
<1>5. Accounted(r)
  BY <1>1, <1>3 DEF Accounted, StationsOf
<1>6. Echoed(r) /\ Whole(r)
  BY <1>1, <1>3 DEF Echoed, Whole
<1>7. Alone(r) /\ Told(r)
  BY <1>1, <1>3 DEF Alone, Due, Starts, Told
<1> QED BY <1>2, <1>4, <1>5, <1>6, <1>7 DEF Sound, r

\* What does not touch the frames on their way leaves their accounts alone.
LEMMA SameAccounts ==
  ASSUME NEW r, NEW s, Accounted(r), s.delivered = r.delivered, s.dropped = r.dropped,
         s.station = r.station, s.incoming = r.incoming, s.arrived = r.arrived
  PROVE  Accounted(s)
BY DEF Accounted, StationsOf

LEMMA SameFragments ==
  ASSUME NEW r, NEW s, Echoed(r), Whole(r), s.echoes = r.echoes, r.torn => s.torn,
         s.incoming = r.incoming, s.reassembly = r.reassembly
  PROVE  Echoed(s) /\ Whole(s)
BY DEF Echoed, Whole

LEMMA SameDue ==
  ASSUME NEW r, NEW s, Alone(r), s.echoes = r.echoes, r.orphaned => s.orphaned, r.timedOut => s.timedOut,
         s.asked = r.asked, s.incoming = r.incoming, s.reassembly = r.reassembly,
         s.orphaned \/ s.timedOut \/ Current(s) = Current(r)
  PROVE  Alone(s)
BY DEF Alone, Due

---------------------------------------------------------------------------
(* The next frame *)

LEMMA TailIs ==
  ASSUME NEW S, NEW q \in Seq(S), q # <<>>
  PROVE  /\ Tail(q) \in Seq(S) /\ Len(q) \in Nat \ {0} /\ Len(Tail(q)) = Len(q) - 1
         /\ Head(q) = q[1] /\ q[1] \in S
         /\ \A i \in 1 .. Len(Tail(q)) : Tail(q)[i] = q[i + 1]
BY HeadTailProperties, EmptySeq

\* A frame that is not the station's is none of its accounts.
LEMMA OtherTaken ==
  ASSUME NEW r, NEW s, r \in Links, Accounted(r), r.incoming # <<>>, r.incoming[1].kind # "station",
         s.delivered = r.delivered, s.dropped = r.dropped, s.station = r.station,
         s.incoming = Tail(r.incoming), s.arrived = r.arrived
  PROVE  Accounted(s)
<1> DEFINE p == r.incoming
           q == s.incoming
<1>1. p \in Seq(Frames)
  BY DEF Links, Frames
<1>2. /\ Len(p) \in Nat \ {0} /\ Len(q) = Len(p) - 1 /\ \A i \in 1 .. Len(q) : q[i] = p[i + 1]
  BY <1>1, TailIs
<1> HIDE DEF p, q
<1>3. \A i \in StationsOf(q) : i + 1 \in StationsOf(p) /\ q[i] = p[i + 1] /\ i \in Nat
  BY <1>2 DEF StationsOf
<1>4. \A i \in StationsOf(p) : i - 1 \in StationsOf(q) /\ p[i] = q[i - 1]
  <2> SUFFICES ASSUME NEW i \in StationsOf(p) PROVE i - 1 \in StationsOf(q) /\ p[i] = q[i - 1]
    OBVIOUS
  <2>1. i \in 1 .. Len(p) /\ i # 1
    BY DEF StationsOf, p
  <2>2. i - 1 \in 1 .. Len(q) /\ (i - 1) + 1 = i
    BY <2>1, <1>2
  <2> QED BY <2>2, <1>2 DEF StationsOf
<1>5. {q[i].of : i \in StationsOf(q)} = {p[i].of : i \in StationsOf(p)}
  BY <1>3, <1>4
<1>6. \A i, j \in StationsOf(q) : i < j => q[i].of < q[j].of
  <2>1. \A i, j \in StationsOf(p) : i < j => p[i].of < p[j].of
    BY DEF Accounted, p
  <2> SUFFICES ASSUME NEW i \in StationsOf(q), NEW j \in StationsOf(q), i < j PROVE q[i].of < q[j].of
    OBVIOUS
  <2>2. i + 1 < j + 1
    BY <1>3
  <2> QED BY <2>1, <2>2, <1>3
<1> QED BY <1>5, <1>6 DEF Accounted, p, q

\* The station's next frame is the one after those that wait, and the rest
\* come after it.
LEMMA StationTaken ==
  ASSUME NEW r, r \in Links, Accounted(r), r.incoming # <<>>, r.incoming[1].kind = "station"
  PROVE  LET next == r.delivered + r.dropped + Len(r.station) + 1
             q == Tail(r.incoming)
         IN  /\ Head(r.incoming).of = next /\ next <= r.arrived
             /\ {q[i].of : i \in StationsOf(q)} = next + 1 .. r.arrived
             /\ \A i, j \in StationsOf(q) : i < j => q[i].of < q[j].of
<1> DEFINE p == r.incoming
           q == Tail(p)
           a == r.delivered + r.dropped + Len(r.station) + 1
           arrived == r.arrived
<1>1. p \in Seq(Frames) /\ a \in Nat /\ arrived \in Nat
  BY DEF Links, Frames
<1>2. /\ Len(p) \in Nat \ {0} /\ Len(q) = Len(p) - 1 /\ \A i \in 1 .. Len(q) : q[i] = p[i + 1]
      /\ Head(p) = p[1] /\ p \in Seq(Frames)
  BY <1>1, TailIs
<1>3. /\ {p[i].of : i \in StationsOf(p)} = a .. arrived
      /\ \A i, j \in StationsOf(p) : i < j => p[i].of < p[j].of
      /\ 1 \in StationsOf(p)
  BY <1>2 DEF Accounted, StationsOf
<1> HIDE DEF p, q, a, arrived
<1>4. \A i \in StationsOf(q) : i + 1 \in StationsOf(p) /\ q[i] = p[i + 1] /\ i \in Nat \ {0}
  BY <1>2 DEF StationsOf
<1>5. \A i \in StationsOf(p) : i = 1 \/ (i - 1 \in StationsOf(q) /\ p[i] = q[i - 1] /\ 1 < i)
  <2> SUFFICES ASSUME NEW i \in StationsOf(p), i # 1
               PROVE  i - 1 \in StationsOf(q) /\ p[i] = q[i - 1] /\ 1 < i
    OBVIOUS
  <2>1. i \in 1 .. Len(p)
    BY DEF StationsOf
  <2>2. i - 1 \in 1 .. Len(q) /\ (i - 1) + 1 = i /\ 1 < i
    BY <2>1, <1>2
  <2> QED BY <2>2, <1>2 DEF StationsOf
<1>6. p[1].of = a /\ a <= arrived
  <2>1. p[1].of \in a .. arrived
    BY <1>3
  <2>2. a \in a .. arrived
    BY <2>1, <1>1
  <2>3. PICK j \in StationsOf(p) : p[j].of = a
    BY <2>2, <1>3
  <2>4. CASE j = 1
    BY <2>1, <2>3, <2>4, <1>1
  <2>5. CASE j # 1
    <3>1. p[1].of < p[j].of
      BY <2>5, <1>3, <1>5
    <3> QED BY <3>1, <2>1, <2>3, <1>1
  <2> QED BY <2>4, <2>5
<1>7. {q[i].of : i \in StationsOf(q)} = a + 1 .. arrived
  <2>1. ASSUME NEW i \in StationsOf(q) PROVE q[i].of \in a + 1 .. arrived
    <3>1. i + 1 \in StationsOf(p) /\ 1 < i + 1 /\ q[i] = p[i + 1]
      BY <1>4
    <3>2. p[1].of < p[i + 1].of /\ p[i + 1].of \in a .. arrived
      BY <3>1, <1>3
    <3> QED BY <3>1, <3>2, <1>1, <1>6
  <2>2. ASSUME NEW x \in a + 1 .. arrived PROVE \E i \in StationsOf(q) : q[i].of = x
    <3>1. x \in a .. arrived /\ x # a
      BY <1>1
    <3>2. PICK j \in StationsOf(p) : p[j].of = x
      BY <3>1, <1>3
    <3> QED BY <3>1, <3>2, <1>5, <1>6
  <2> QED BY <2>1, <2>2
<1>8. \A i, j \in StationsOf(q) : i < j => q[i].of < q[j].of
  <2> SUFFICES ASSUME NEW i \in StationsOf(q), NEW j \in StationsOf(q), i < j PROVE q[i].of < q[j].of
    OBVIOUS
  <2>2. i + 1 < j + 1
    BY <1>4
  <2> QED BY <2>2, <1>3, <1>4
<1> QED BY <1>2, <1>6, <1>7, <1>8 DEF p, q, a, arrived

\* What is left when a frame was taken that opens nothing.
LEMMA FragmentsLeft ==
  ASSUME NEW r, NEW s, r \in Links, Echoed(r), Whole(r), r.incoming # <<>>, s.echoes = r.echoes,
         s.incoming = Tail(r.incoming), s.reassembly \in {<<>>, r.reassembly},
         ~s.torn => ~r.torn /\ s.reassembly = <<>> /\ ~Opens(r.incoming[1])
  PROVE  Echoed(s) /\ Whole(s)
<1> DEFINE p == r.incoming
           q == s.incoming
<1>1. /\ p \in Seq(Frames) /\ Len(p) \in Nat \ {0} /\ Len(q) = Len(p) - 1
      /\ \A i \in 1 .. Len(q) : q[i] = p[i + 1]
  <2>1. p \in Seq(Frames)
    BY DEF Links
  <2> QED BY <2>1, TailIs
<1>2. Echoed(s)
  <2>1. \A i \in 1 .. Len(s.reassembly) : i \in 1 .. Len(r.reassembly) /\ s.reassembly[i] = r.reassembly[i]
    BY EmptySeq
  <2>2. ASSUME NEW i \in 1 .. Len(q), q[i].kind = "response"
        PROVE  q[i].uid = (IF s.echoes THEN q[i].of ELSE 0) /\ (Second(q[i]) => q[i].parts = 2)
    <3>1. i + 1 \in 1 .. Len(p) /\ q[i] = p[i + 1]
      BY <1>1
    <3> QED BY <3>1, <2>2 DEF Echoed
  <2> QED BY <2>1, <2>2 DEF Echoed
<1>3. ASSUME ~s.torn PROVE Whole(s)
  <2>1. s.reassembly = <<>> /\ Len(s.reassembly) = 0 /\ ~Opens(p[1]) /\ ~r.torn
    BY <1>3
  <2>2. ASSUME NEW i \in 1 .. Len(q), Opens(q[i]) PROVE i < Len(q) /\ Follows(q[i], q[i + 1])
    <3>1. i + 1 \in 1 .. Len(p) /\ q[i] = p[i + 1] /\ Opens(p[i + 1])
      BY <1>1, <2>2
    <3>2. i + 1 < Len(p) /\ Follows(p[i + 1], p[(i + 1) + 1])
      BY <2>1, <3>1 DEF Whole
    <3>3. i + 1 \in 1 .. Len(q) /\ q[i + 1] = p[(i + 1) + 1]
      BY <1>1, <3>2
    <3> QED BY <1>1, <3>1, <3>2, <3>3
  <2>3. ASSUME NEW i \in 1 .. Len(q), Second(q[i]) PROVE i # 1 /\ Opens(q[i - 1])
    <3>1. i + 1 \in 1 .. Len(p) /\ q[i] = p[i + 1] /\ i + 1 # 1 /\ (i + 1) - 1 = i /\ Second(p[i + 1])
      BY <1>1, <2>3
    <3>2. Opens(p[i])
      BY <2>1, <3>1 DEF Whole
    <3>3. i # 1 => i - 1 \in 1 .. Len(q) /\ (i - 1) + 1 = i
      BY <1>1
    <3> QED BY <1>1, <2>1, <3>2, <3>3
  <2> HIDE DEF p
  <2> QED BY <2>1, <2>2, <2>3 DEF Whole
<1> QED BY <1>2, <1>3 DEF Whole

\* A first fragment has been put by: its second is the next frame.
LEMMA FragmentPutBy ==
  ASSUME NEW r, NEW s, r \in Links, Echoed(r), Whole(r), r.incoming # <<>>, s.echoes = r.echoes, s.torn = r.torn,
         Opens(r.incoming[1]),
         s.incoming = Tail(r.incoming), s.reassembly = Append(r.reassembly, r.incoming[1])
  PROVE  Echoed(s) /\ Whole(s)
<1> DEFINE p == r.incoming
           q == s.incoming
           had == r.reassembly
           has == s.reassembly
<1>1. /\ p \in Seq(Frames) /\ Len(p) \in Nat \ {0} /\ Len(q) = Len(p) - 1
      /\ \A i \in 1 .. Len(q) : q[i] = p[i + 1]
  <2>1. p \in Seq(Frames)
    BY DEF Links
  <2> QED BY <2>1, TailIs
<1>2. /\ Len(had) \in Nat /\ Len(has) = Len(had) + 1 /\ has[Len(had) + 1] = p[1]
      /\ \A i \in 1 .. Len(had) : has[i] = had[i]
      /\ (had = <<>> <=> Len(had) = 0) /\ has # <<>>
  <2>1. had \in Seq(Responses) /\ p[1] \in Responses
    <3>1. p[1] \in Frames
      BY <1>1
    <3> QED BY <3>1 DEF Links, Opens, First, Frames, Events, Stations
  <2> QED BY <2>1, AppendProperties, EmptySeq
<1>3. Echoed(s)
  <2>1. ASSUME NEW i \in 1 .. Len(has)
        PROVE  Opens(has[i]) /\ has[i].uid = IF s.echoes THEN has[i].of ELSE 0
    <3>1. CASE i = Len(had) + 1
      <4>1. p[1].kind = "response" /\ 1 \in 1 .. Len(p)
        BY <1>1 DEF Opens, First
      <4> QED BY <3>1, <1>2, <4>1 DEF Echoed
    <3>2. CASE i # Len(had) + 1
      <4>1. i \in 1 .. Len(had) /\ has[i] = had[i]
        BY <3>2, <1>2
      <4> QED BY <4>1 DEF Echoed
    <3> QED BY <3>1, <3>2
  <2>2. ASSUME NEW i \in 1 .. Len(q), q[i].kind = "response"
        PROVE  q[i].uid = (IF s.echoes THEN q[i].of ELSE 0) /\ (Second(q[i]) => q[i].parts = 2)
    <3>1. i + 1 \in 1 .. Len(p) /\ q[i] = p[i + 1]
      BY <1>1
    <3> QED BY <3>1, <2>2 DEF Echoed
  <2> QED BY <2>1, <2>2 DEF Echoed
<1>4. ASSUME ~s.torn PROVE Whole(s)
  <2>1. had = <<>>
    BY <1>4 DEF Whole, Follows, Opens, First, Second
  <2>2. 1 < Len(p) /\ Follows(p[1], p[1 + 1])
    BY <1>1, <1>4 DEF Whole
  <2>3. Len(has) = 1 /\ has[1] = p[1] /\ q[1] = p[1 + 1] /\ q # <<>>
    <3> HIDE DEF p, q, had, has
    <3>1. Len(has) = 1 /\ has[1] = p[1]
      BY <1>2, <2>1
    <3>2. 1 \in 1 .. Len(q)
      BY <1>1, <2>2
    <3> QED BY <1>1, <3>1, <3>2, EmptySeq
  <2>4. ASSUME NEW i \in 1 .. Len(q), Opens(q[i]) PROVE i < Len(q) /\ Follows(q[i], q[i + 1])
    <3>1. i + 1 \in 1 .. Len(p) /\ q[i] = p[i + 1] /\ Opens(p[i + 1])
      BY <1>1, <2>4
    <3>2. i + 1 < Len(p) /\ Follows(p[i + 1], p[(i + 1) + 1])
      BY <1>4, <3>1 DEF Whole
    <3>3. i + 1 \in 1 .. Len(q) /\ q[i + 1] = p[(i + 1) + 1]
      BY <1>1, <3>2
    <3> QED BY <1>1, <3>1, <3>2, <3>3
  <2>5. ASSUME NEW i \in 1 .. Len(q), Second(q[i]), i # 1 PROVE Opens(q[i - 1])
    <3>1. i + 1 \in 1 .. Len(p) /\ q[i] = p[i + 1] /\ i + 1 # 1 /\ (i + 1) - 1 = i /\ Second(p[i + 1])
      BY <1>1, <2>5
    <3>2. Opens(p[i])
      BY <1>4, <3>1 DEF Whole
    <3>3. i - 1 \in 1 .. Len(q) /\ (i - 1) + 1 = i
      BY <1>1, <2>5
    <3> QED BY <1>1, <3>2, <3>3
  <2>6. Len(has) <= 1 /\ (has # <<>> => q # <<>> /\ Follows(has[1], q[1]))
    BY <2>2, <2>3
  <2> HIDE DEF p
  <2> QED BY <1>2, <2>4, <2>5, <2>6 DEF Whole
<1> QED BY <1>3, <1>4 DEF Whole

\* The answers due after a frame was taken, which may have been one.
LEMMA DueLeft ==
  ASSUME NEW r, NEW s, r \in Links, Due(r), r.incoming # <<>>, s.asked = r.asked, Current(s) = Current(r),
         s.incoming = Tail(r.incoming), s.reassembly \in {<<>>, r.reassembly}
  PROVE  Due(s)
<1> DEFINE p == r.incoming
           q == s.incoming
<1>1. /\ p \in Seq(Frames) /\ Len(p) \in Nat \ {0} /\ Len(q) = Len(p) - 1
      /\ \A i \in 1 .. Len(q) : q[i] = p[i + 1]
  <2>1. p \in Seq(Frames)
    BY DEF Links
  <2> QED BY <2>1, TailIs
<1>2. \A i \in Starts(q) : i + 1 \in Starts(p) /\ q[i] = p[i + 1] /\ i \in Nat
  BY <1>1 DEF Starts
<1>3. \A i \in Starts(s.reassembly) : i \in Starts(r.reassembly) /\ s.reassembly[i] = r.reassembly[i]
  BY EmptySeq DEF Starts
<1>4. /\ \A i, j \in Starts(p) : i = j
      /\ \A i \in Starts(p) : p[i].of \in Current(r)
      /\ r.asked = <<>> \/ Starts(p) = {}
      /\ Starts(p) = {} \/ Starts(r.reassembly) = {}
  BY DEF Due
<1> HIDE DEF p, q
<1>5. \A i, j \in Starts(q) : i = j
  <2>1. \A i, j \in Starts(q) : i + 1 = j + 1
    BY <1>2, <1>4
  <2> QED BY <2>1, <1>2
<1>6. \A i \in Starts(q) : q[i].of \in Current(s)
  BY <1>2, <1>4
<1>7. (s.asked = <<>> \/ Starts(q) = {}) /\ (Starts(q) = {} \/ Starts(s.reassembly) = {})
  BY <1>2, <1>3, <1>4
<1>8. /\ \A i, j \in Starts(s.reassembly) : i = j
      /\ \A i \in Starts(s.reassembly) : s.reassembly[i].of \in Current(s)
      /\ s.asked = <<>> \/ Starts(s.reassembly) = {}
  BY <1>3 DEF Due
<1>9. Len(s.asked) <= 1 /\ \A i \in 1 .. Len(s.asked) : s.asked[i].uid \in Current(s)
  BY DEF Due
<1> QED BY <1>5, <1>6, <1>7, <1>8, <1>9 DEF Due, q

LEMMA DuePutBy ==
  ASSUME NEW r, NEW s, r \in Links, Due(r), r.incoming # <<>>, s.asked = r.asked, Current(s) = Current(r),
         Opens(r.incoming[1]),
         s.incoming = Tail(r.incoming), s.reassembly = Append(r.reassembly, r.incoming[1])
  PROVE  Due(s)
<1> DEFINE p == r.incoming
           q == s.incoming
           had == r.reassembly
           has == s.reassembly
<1>1. /\ p \in Seq(Frames) /\ Len(p) \in Nat \ {0} /\ Len(q) = Len(p) - 1
      /\ \A i \in 1 .. Len(q) : q[i] = p[i + 1]
  <2>1. p \in Seq(Frames)
    BY DEF Links
  <2> QED BY <2>1, TailIs
<1>2. /\ Len(had) \in Nat /\ Len(has) = Len(had) + 1 /\ has[Len(had) + 1] = p[1]
      /\ \A i \in 1 .. Len(had) : has[i] = had[i]
  <2>1. had \in Seq(Responses) /\ p[1] \in Responses
    <3>1. p[1] \in Frames
      BY <1>1
    <3> QED BY <3>1 DEF Links, Opens, First, Frames, Events, Stations
  <2> QED BY <2>1, AppendProperties
<1>3. 1 \in Starts(p)
  BY <1>1 DEF Starts, Opens
<1>4. /\ \A i, j \in Starts(p) : i = j
      /\ \A i \in Starts(p) : p[i].of \in Current(r)
      /\ s.asked = <<>> /\ Starts(had) = {} /\ Len(s.asked) = 0
  BY <1>3, EmptySeq DEF Due
<1>5. Starts(q) = {}
  <2>1. \A i \in Starts(q) : i + 1 \in Starts(p) /\ i + 1 # 1
    BY <1>1 DEF Starts
  <2> QED BY <2>1, <1>3, <1>4
<1>6. \A i \in Starts(has) : i = Len(had) + 1
  BY <1>2, <1>4 DEF Starts
<1>7. /\ \A i, j \in Starts(has) : i = j
      /\ \A i \in Starts(has) : has[i].of \in Current(s)
  BY <1>2, <1>3, <1>4, <1>6
<1> HIDE DEF p, had
<1> QED BY <1>4, <1>5, <1>7 DEF Due

---------------------------------------------------------------------------
(* One message *)

\* Whoever is given an answer is the one it was made for: the coprocessor says
\* so, or no other is due.
LEMMA DispatchSound ==
  ASSUME Limits, NEW r, Sound(r), NEW m \in Events \cup Responses, NEW mixed \in BOOLEAN, mixed => r.torn,
         m.kind = "response" => m.uid = IF r.echoes THEN m.of ELSE 0,
         m.kind = "response" /\ ~r.echoes /\ ~r.orphaned /\ ~r.timedOut =>
             /\ m.of \in Current(r) /\ r.asked = <<>>
             /\ Starts(r.incoming) = {} /\ Starts(r.reassembly) = {}
  PROVE  Sound(Dispatch(r, m, mixed)) /\ Dispatch(r, m, mixed).incoming = r.incoming
<1> DEFINE wanted == r.mode = "event" /\ m.kind = "event" /\ m.id \in r.wait
<1>1. r \in Links /\ Bounded(r) /\ Modes(r) /\ Accounted(r) /\ Echoed(r) /\ Whole(r) /\ Alone(r) /\ Told(r)
  BY DEF Sound
<1>2. CASE wanted
  <2> DEFINE s == [r EXCEPT !.mode = "idle", !.wait = None]
  <2>1. Dispatch(r, m, mixed) = s
    BY <1>2 DEF Dispatch, Matches
  <2>2. s \in Links
    BY <1>1 DEF Links
  <2>3. /\ s.echoes = r.echoes /\ s.up = r.up /\ s.timedOut = r.timedOut /\ s.mode = "idle"
        /\ s.pending = r.pending /\ s.reply = r.reply /\ s.answer = r.answer /\ s.asked = r.asked
        /\ s.incoming = r.incoming /\ s.reassembly = r.reassembly /\ s.station = r.station
        /\ s.arrived = r.arrived /\ s.delivered = r.delivered /\ s.dropped = r.dropped
        /\ s.events = r.events /\ s.overran = r.overran /\ s.orphaned = r.orphaned /\ s.torn = r.torn
    BY <1>1 DEF Links
  <2> HIDE DEF s
  <2>4. Bounded(s) /\ Modes(s) /\ Told(s)
    BY <1>1, <1>2, <2>3 DEF Bounded, Modes, Told
  <2>5. Current(s) = Current(r)
    BY <1>2, <2>3 DEF Current
  <2>6. Accounted(s) /\ Echoed(s) /\ Whole(s) /\ Alone(s)
    BY <1>1, <2>3, <2>5, SameAccounts, SameFragments, SameDue
  <2> QED BY <2>1, <2>2, <2>3, <2>4, <2>6 DEF Sound
<1>3. CASE m.kind = "event" /\ ~wanted
  <2> DEFINE kept == IF Len(r.events) >= EventQueue THEN Tail(r.events) ELSE r.events
             s == [r EXCEPT !.events = Append(kept, m.id)]
  <2>1. Dispatch(r, m, mixed) = s
    BY <1>3 DEF Dispatch, Matches, PushEvent
  <2>2. kept \in Seq(Nat) /\ Len(kept) + 1 <= EventQueue /\ Len(kept) \in Nat
    <3>1. r.events \in Seq(Nat) /\ Len(r.events) \in Nat /\ Len(r.events) <= EventQueue /\ EventQueue \in Nat \ {0}
      BY <1>1 DEF Links, Bounded, Limits
    <3>2. CASE Len(r.events) >= EventQueue
      <4>1. r.events # <<>>
        BY <3>1, <3>2
      <4> QED BY <3>1, <3>2, <4>1, TailIs
    <3>3. CASE ~(Len(r.events) >= EventQueue)
      BY <3>1, <3>3
    <3> QED BY <3>2, <3>3
  <2> HIDE DEF kept
  <2>3. Append(kept, m.id) \in Seq(Nat) /\ Len(Append(kept, m.id)) <= EventQueue
    <3>1. m.id \in Nat
      BY <1>3 DEF Events, Responses
    <3> QED BY <2>2, <3>1, AppendProperties
  <2>4. s \in Links
    BY <1>1, <2>3 DEF Links
  <2>5. /\ s.echoes = r.echoes /\ s.up = r.up /\ s.timedOut = r.timedOut /\ s.mode = r.mode /\ s.wait = r.wait
        /\ s.pending = r.pending /\ s.reply = r.reply /\ s.answer = r.answer /\ s.asked = r.asked
        /\ s.incoming = r.incoming /\ s.reassembly = r.reassembly /\ s.station = r.station
        /\ s.arrived = r.arrived /\ s.delivered = r.delivered /\ s.dropped = r.dropped
        /\ s.events = Append(kept, m.id) /\ s.overran = r.overran /\ s.orphaned = r.orphaned /\ s.torn = r.torn
    BY <1>1 DEF Links
  <2> HIDE DEF s
  <2>6. Bounded(s) /\ Modes(s) /\ Told(s)
    BY <1>1, <2>3, <2>5 DEF Bounded, Modes, Told
  <2>7. Current(s) = Current(r)
    BY <2>5 DEF Current
  <2>8. Accounted(s) /\ Echoed(s) /\ Whole(s) /\ Alone(s)
    BY <1>1, <2>5, <2>7, SameAccounts, SameFragments, SameDue
  <2> QED BY <2>1, <2>4, <2>5, <2>6, <2>8 DEF Sound
<1>4. ASSUME NEW call \in {None} \cup Calls, Matches(call, m), Current(r) \subseteq {call.uid}, ~r.timedOut
      PROVE  m.of = call.uid \/ (~r.echoes /\ r.orphaned)
  <2>1. m \in Responses
    BY <1>4 DEF Matches, Events
  <2>2. m.of \in Nat \ {0} /\ (m.uid = call.uid \/ m.uid = 0)
    BY <1>4, <2>1 DEF Matches, Responses
  <2> QED BY <1>4, <2>1, <2>2 DEF Matches
<1>5. CASE r.mode = "call" /\ Matches(r.wait, m)
  <2> DEFINE s == Ended(r, r.wait, m, mixed)
  <2>1. Dispatch(r, m, mixed) = s
    BY <1>5 DEF Dispatch, Matches
  <2>2. r.wait \in Calls /\ r.pending = None /\ ~r.timedOut /\ Current(r) = {r.wait.uid} /\ r.reply = None
    BY <1>1, <1>5 DEF Modes, Current
  <2>3. m.of = r.wait.uid \/ (~r.echoes /\ r.orphaned)
    BY <1>4, <1>5, <2>2
  <2>4. m \in Responses
    BY <1>5 DEF Matches, Events
  <2>5. s \in Links
    <3>1. [to |-> r.wait.uid, of |-> m.of, mixed |-> mixed] \in [to : Nat, of : Nat, mixed : BOOLEAN]
      BY <2>2, <2>4 DEF Calls, Responses
    <3> QED BY <1>1, <3>1 DEF Links, Ended
  <2>6. /\ s.echoes = r.echoes /\ s.up = r.up /\ s.timedOut = r.timedOut /\ s.mode = "idle"
        /\ s.pending = r.pending /\ s.reply = r.reply /\ s.asked = r.asked
        /\ s.answer = [to |-> r.wait.uid, of |-> m.of, mixed |-> mixed]
        /\ s.incoming = r.incoming /\ s.reassembly = r.reassembly /\ s.station = r.station
        /\ s.arrived = r.arrived /\ s.delivered = r.delivered /\ s.dropped = r.dropped
        /\ s.events = r.events /\ s.overran = r.overran /\ s.orphaned = r.orphaned /\ s.torn = r.torn
    BY <1>1 DEF Links, Ended
  <2> HIDE DEF s
  <2>7. Bounded(s) /\ Modes(s)
    BY <1>1, <2>2, <2>6 DEF Bounded, Modes
  <2>8. Told(s)
    BY <1>1, <2>2, <2>3, <2>6 DEF Told
  <2>9. Alone(s)
    <3>1. SUFFICES ASSUME ~s.echoes, ~s.orphaned, ~s.timedOut PROVE Due(s)
      BY DEF Alone
    <3>2. s.asked = <<>> /\ Starts(s.incoming) = {} /\ Starts(s.reassembly) = {}
      BY <1>5, <2>6, <3>1 DEF Matches
    <3> QED BY <3>2, EmptySeq DEF Due
  <2>10. Accounted(s) /\ Echoed(s) /\ Whole(s)
    BY <1>1, <2>6, SameAccounts, SameFragments
  <2> QED BY <2>1, <2>5, <2>6, <2>7, <2>8, <2>9, <2>10 DEF Sound
<1>6. CASE r.mode = "idle" /\ Matches(r.pending, m)
  <2> DEFINE s == [r EXCEPT !.reply = [of |-> m.of, mixed |-> mixed]]
  <2>1. Dispatch(r, m, mixed) = s
    BY <1>6 DEF Dispatch, Matches
  <2>2. r.pending \in Calls /\ r.pending # None /\ ~r.timedOut /\ Current(r) \subseteq {r.pending.uid}
    BY <1>1, <1>6 DEF Modes, Current, Matches, Links
  <2>3. m.of = r.pending.uid \/ (~r.echoes /\ r.orphaned)
    BY <1>4, <1>6, <2>2
  <2>4. m \in Responses
    BY <1>6 DEF Matches, Events
  <2>5. s \in Links
    <3>1. [of |-> m.of, mixed |-> mixed] \in [of : Nat, mixed : BOOLEAN]
      BY <2>4 DEF Responses
    <3> QED BY <1>1, <3>1 DEF Links
  <2>6. /\ s.echoes = r.echoes /\ s.up = r.up /\ s.timedOut = r.timedOut /\ s.mode = r.mode /\ s.wait = r.wait
        /\ s.pending = r.pending /\ s.answer = r.answer /\ s.asked = r.asked
        /\ s.reply = [of |-> m.of, mixed |-> mixed]
        /\ s.incoming = r.incoming /\ s.reassembly = r.reassembly /\ s.station = r.station
        /\ s.arrived = r.arrived /\ s.delivered = r.delivered /\ s.dropped = r.dropped
        /\ s.events = r.events /\ s.overran = r.overran /\ s.orphaned = r.orphaned /\ s.torn = r.torn
    BY <1>1 DEF Links
  <2> HIDE DEF s
  <2>7. Bounded(s) /\ Modes(s)
    BY <1>1, <1>6, <2>2, <2>6 DEF Bounded, Modes
  <2>8. Told(s)
    BY <1>1, <2>2, <2>3, <2>6 DEF Told
  <2>9. Alone(s)
    <3>1. SUFFICES ASSUME ~s.echoes, ~s.orphaned, ~s.timedOut PROVE Due(s)
      BY DEF Alone
    <3>2. s.asked = <<>> /\ Starts(s.incoming) = {} /\ Starts(s.reassembly) = {}
      BY <1>6, <2>6, <3>1 DEF Matches
    <3> QED BY <3>2, EmptySeq DEF Due
  <2>10. Accounted(s) /\ Echoed(s) /\ Whole(s)
    BY <1>1, <2>6, SameAccounts, SameFragments
  <2> QED BY <2>1, <2>5, <2>6, <2>7, <2>8, <2>9, <2>10 DEF Sound
<1>7. CASE /\ m.kind # "event" /\ ~(r.mode = "call" /\ Matches(r.wait, m))
           /\ ~(r.mode = "idle" /\ Matches(r.pending, m))
  <2>1. Dispatch(r, m, mixed) = r
    BY <1>7 DEF Dispatch
  <2> QED BY <2>1
<1> QED BY <1>2, <1>3, <1>5, <1>6, <1>7

---------------------------------------------------------------------------
(* One frame *)

\* A station frame is queued, in the place of the oldest if it must be.
LEMMA StationSound ==
  ASSUME Limits, NEW r, Sound(r), r.incoming # <<>>, r.incoming[1].kind = "station",
         r.mode # "idle" \/ Len(r.station) < StationQueue
  PROVE  LET rest == [r EXCEPT !.incoming = Tail(@)]
             s == QueueStation(rest, Head(r.incoming).of)
         IN  Sound(s) /\ s.incoming = Tail(r.incoming)
<1> DEFINE rest == [r EXCEPT !.incoming = Tail(@)]
           number == Head(r.incoming).of
           full == Len(r.station) >= StationQueue
           s == QueueStation(rest, number)
           kept == IF full THEN Tail(r.station) ELSE r.station
           lost == IF full THEN 1 ELSE 0
           gone == r.delivered + r.dropped
<1>1. r \in Links /\ Bounded(r) /\ Modes(r) /\ Accounted(r) /\ Echoed(r) /\ Whole(r) /\ Alone(r) /\ Told(r)
  BY DEF Sound
<1>2. /\ Tail(r.incoming) \in Seq(Frames) /\ Len(Tail(r.incoming)) = Len(r.incoming) - 1
      /\ Len(r.incoming) \in Nat \ {0} /\ number \in Nat
  <2>1. r.incoming \in Seq(Frames)
    BY <1>1 DEF Links
  <2>2. Head(r.incoming) = r.incoming[1] /\ r.incoming[1] \in Frames
    BY <2>1, TailIs
  <2> QED BY <2>1, <2>2, TailIs DEF Frames, Events, Responses, Stations
<1>3. /\ kept \in Seq(Nat) /\ Len(kept) \in Nat /\ Len(kept) + 1 <= StationQueue
      /\ Len(kept) + lost = Len(r.station)
      /\ \A i \in 1 .. Len(kept) : kept[i] = gone + lost + i
  <2>1. r.station \in Seq(Nat) /\ Len(r.station) \in Nat /\ Len(r.station) <= StationQueue /\ StationQueue \in Nat \ {0}
    BY <1>1 DEF Links, Bounded, Limits
  <2>2. gone \in Nat /\ \A i \in 1 .. Len(r.station) : r.station[i] = gone + i
    <3>1. gone \in Nat
      BY <1>1 DEF Links
    <3>2. \A i \in 1 .. Len(r.station) : r.station[i] = gone + i
      BY <1>1 DEF Accounted
    <3> QED BY <3>1, <3>2
  <2> HIDE DEF gone
  <2>3. CASE full
    <3>1. r.station # <<>>
      BY <2>1, <2>3
    <3>2. /\ kept \in Seq(Nat) /\ Len(kept) = Len(r.station) - 1
          /\ \A i \in 1 .. Len(kept) : kept[i] = r.station[i + 1]
      BY <2>1, <2>3, <3>1, TailIs
    <3>3. \A i \in 1 .. Len(kept) : i + 1 \in 1 .. Len(r.station) /\ gone + (i + 1) = gone + 1 + i
      BY <2>1, <2>2, <3>2
    <3>4. lost = 1
      BY <2>3
    <3>5. Len(kept) \in Nat /\ Len(kept) + 1 <= StationQueue /\ Len(kept) + 1 = Len(r.station)
      <4> HIDE DEF kept
      <4> QED BY <2>1, <2>3, <3>1, <3>2, EmptySeq
    <3>6. \A i \in 1 .. Len(kept) : kept[i] = gone + 1 + i
      <4> HIDE DEF kept
      <4> QED BY <2>2, <3>2, <3>3
    <3> HIDE DEF kept, lost
    <3> QED BY <3>2, <3>4, <3>5, <3>6
  <2>4. CASE ~full
    <3>1. \A i \in 1 .. Len(kept) : gone + i = gone + 0 + i
      BY <2>2
    <3> QED BY <2>1, <2>2, <2>4, <3>1
  <2> QED BY <2>3, <2>4
<1> HIDE DEF kept
<1>4. /\ Append(kept, number) \in Seq(Nat) /\ Len(Append(kept, number)) = Len(kept) + 1
      /\ Append(kept, number)[Len(kept) + 1] = number
      /\ \A i \in 1 .. Len(kept) : Append(kept, number)[i] = kept[i]
  BY <1>2, <1>3, AppendProperties
<1>5. s \in Links
  <2>1. r.dropped + 1 \in Nat /\ r.overran \cup {r.mode} \in SUBSET {"idle", "call", "event"}
    BY <1>1 DEF Links
  <2>2. rest \in Links
    BY <1>1, <1>2 DEF Links
  <2>3. rest.station = r.station /\ rest.dropped = r.dropped /\ rest.overran = r.overran /\ rest.mode = r.mode
    BY <1>1 DEF Links
  <2> HIDE DEF rest
  <2> DEFINE held == [rest EXCEPT !.station = Append(kept, number)]
             counted == [held EXCEPT !.dropped = r.dropped + 1]
             marked == [counted EXCEPT !.overran = r.overran \cup {r.mode}]
  <2>4. held \in Links
    BY <1>4, <2>2, SetStation
  <2>5. counted \in Links
    BY <2>1, <2>4, SetDropped
  <2>6. marked \in Links
    BY <2>1, <2>5, SetOverran
  <2>7. s = IF full THEN marked ELSE held
    BY <2>3 DEF QueueStation, kept
  <2> QED BY <2>4, <2>6, <2>7
<1>6. /\ s.echoes = r.echoes /\ s.up = r.up /\ s.timedOut = r.timedOut /\ s.mode = r.mode /\ s.wait = r.wait
      /\ s.pending = r.pending /\ s.reply = r.reply /\ s.answer = r.answer /\ s.asked = r.asked
      /\ s.incoming = Tail(r.incoming) /\ s.reassembly = r.reassembly
      /\ s.arrived = r.arrived /\ s.delivered = r.delivered
      /\ s.events = r.events /\ s.orphaned = r.orphaned /\ s.torn = r.torn
  <2> HIDE DEF number
  <2> QED BY <1>1 DEF QueueStation, Links
<1>7. /\ s.station = Append(kept, number) /\ s.dropped = r.dropped + lost
      /\ s.overran = IF full THEN r.overran \cup {r.mode} ELSE r.overran
  <2> HIDE DEF number
  <2>1. r.dropped + 0 = r.dropped
    BY <1>1 DEF Links
  <2> QED BY <1>1, <2>1 DEF QueueStation, Links, kept
<1> HIDE DEF s
<1>8. Bounded(s)
  <2>1. "idle" \notin s.overran
    <3>1. full => r.mode # "idle"
      BY <1>1 DEF Links, Limits
    <3> QED BY <1>1, <1>7, <3>1 DEF Bounded
  <2> QED BY <1>1, <1>2, <1>3, <1>4, <1>6, <1>7, <2>1 DEF Bounded, Limits
<1>9. Modes(s) /\ Told(s)
  BY <1>1, <1>6 DEF Modes, Told
<1>10. Accounted(s)
  <2> DEFINE q == Tail(r.incoming)
             next == gone + Len(r.station) + 1
  <2>1. /\ number = next /\ next <= r.arrived /\ {q[i].of : i \in StationsOf(q)} = next + 1 .. r.arrived
        /\ \A i, j \in StationsOf(q) : i < j => q[i].of < q[j].of
    BY <1>1, StationTaken
  <2>2. /\ gone \in Nat /\ lost \in Nat /\ s.delivered + s.dropped = gone + lost
        /\ gone + lost + Len(s.station) + 1 = next + 1
        /\ gone + lost + (Len(kept) + 1) = next
    <3>1. lost \in Nat
      OBVIOUS
    <3>2. r.delivered \in Nat /\ r.dropped \in Nat
      BY <1>1 DEF Links
    <3>3. Len(kept) \in Nat /\ Len(kept) + lost = Len(r.station) /\ Len(s.station) = Len(kept) + 1
      BY <1>3, <1>4, <1>7
    <3>4. s.delivered = r.delivered /\ s.dropped = r.dropped + lost
      BY <1>6, <1>7
    <3> HIDE DEF lost, s, kept
    <3>5. gone \in Nat /\ s.delivered + s.dropped = gone + lost
      BY <3>1, <3>2, <3>4
    <3>6. next = gone + (Len(kept) + lost) + 1 /\ Len(s.station) = Len(kept) + 1
      BY <3>3
    <3> HIDE DEF gone, next
    <3>7. gone + lost + Len(s.station) + 1 = next + 1
      BY <3>1, <3>3, <3>5, <3>6
    <3>8. gone + lost + (Len(kept) + 1) = next
      BY <3>1, <3>3, <3>5, <3>6
    <3> QED BY <3>1, <3>5, <3>7, <3>8
  <2>3. \A i \in 1 .. Len(s.station) : s.station[i] = gone + lost + i
    <3> SUFFICES ASSUME NEW i \in 1 .. Len(s.station) PROVE s.station[i] = gone + lost + i
      OBVIOUS
    <3>1. CASE i = Len(kept) + 1
      BY <3>1, <1>4, <1>7, <2>1, <2>2
    <3>2. CASE i # Len(kept) + 1
      <4>1. i \in 1 .. Len(kept)
        BY <3>2, <1>3, <1>4, <1>7
      <4> QED BY <4>1, <1>3, <1>4, <1>7
    <3> QED BY <3>1, <3>2
  <2>5. gone + lost + Len(s.station) <= r.arrived
    <3>1. Len(s.station) = Len(kept) + 1
      BY <1>4, <1>7
    <3> HIDE DEF next, gone, lost, number, q
    <3> QED BY <2>1, <2>2, <3>1
  <2> HIDE DEF q, next, gone, lost, number
  <2>4. s.incoming = q /\ s.arrived = r.arrived
    BY <1>6 DEF q
  <2> QED BY <2>1, <2>2, <2>3, <2>4, <2>5 DEF Accounted
<1>11. Echoed(s) /\ Whole(s)
  <2>1. ~Opens(r.incoming[1]) /\ ~Second(r.incoming[1])
    BY DEF Opens, First, Second
  <2>2. ~r.torn => r.reassembly = <<>>
    BY <1>1, <2>1 DEF Whole, Follows
  <2> QED BY <1>1, <1>6, <2>1, <2>2, FragmentsLeft
<1>12. Alone(s)
  <2>1. Current(s) = Current(r)
    BY <1>6 DEF Current
  <2>2. Due(r) => Due(s)
    BY <1>1, <1>6, <2>1, DueLeft
  <2> QED BY <1>1, <1>6, <2>2 DEF Alone
<1> QED BY <1>5, <1>6, <1>8, <1>9, <1>10, <1>11, <1>12 DEF Sound, s

\* A fragment that is not the last is put by.
LEMMA PutBySound ==
  ASSUME Limits, NEW r, Sound(r), r.incoming # <<>>, Opens(r.incoming[1])
  PROVE  LET s == [r EXCEPT !.incoming = Tail(@), !.reassembly = Append(@, r.incoming[1])]
         IN  Sound(s) /\ s.incoming = Tail(r.incoming)
<1> DEFINE s == [r EXCEPT !.incoming = Tail(@), !.reassembly = Append(@, r.incoming[1])]
<1>1. r \in Links /\ Bounded(r) /\ Modes(r) /\ Accounted(r) /\ Echoed(r) /\ Whole(r) /\ Alone(r) /\ Told(r)
  BY DEF Sound
<1>2. /\ Tail(r.incoming) \in Seq(Frames) /\ Len(Tail(r.incoming)) = Len(r.incoming) - 1
      /\ Len(r.incoming) \in Nat \ {0} /\ r.incoming[1] \in Responses
  <2>1. r.incoming \in Seq(Frames)
    BY <1>1 DEF Links
  <2>2. r.incoming[1] \in Frames
    BY <2>1, TailIs
  <2> QED BY <2>1, <2>2, TailIs DEF Frames, Events, Stations, Opens, First
<1>3. s \in Links
  <2>1. Append(r.reassembly, r.incoming[1]) \in Seq(Responses)
    BY <1>1, <1>2, AppendProperties DEF Links
  <2> QED BY <1>1, <1>2, <2>1 DEF Links
<1>4. /\ s.echoes = r.echoes /\ s.up = r.up /\ s.timedOut = r.timedOut /\ s.mode = r.mode /\ s.wait = r.wait
      /\ s.pending = r.pending /\ s.reply = r.reply /\ s.answer = r.answer /\ s.asked = r.asked
      /\ s.incoming = Tail(r.incoming) /\ s.reassembly = Append(r.reassembly, r.incoming[1])
      /\ s.station = r.station /\ s.arrived = r.arrived /\ s.delivered = r.delivered /\ s.dropped = r.dropped
      /\ s.events = r.events /\ s.overran = r.overran /\ s.orphaned = r.orphaned /\ s.torn = r.torn
  BY <1>1 DEF Links
<1> HIDE DEF s
<1>5. Bounded(s)
  BY <1>1, <1>2, <1>4 DEF Bounded, Limits
<1>6. Modes(s) /\ Told(s)
  BY <1>1, <1>4 DEF Modes, Told
<1>7. Accounted(s)
  BY <1>1, <1>4, OtherTaken DEF Opens, First
<1>8. Echoed(s) /\ Whole(s)
  BY <1>1, <1>4, FragmentPutBy
<1>9. Alone(s)
  <2>1. Current(s) = Current(r)
    BY <1>4 DEF Current
  <2>2. Due(r) => Due(s)
    BY <1>1, <1>4, <2>1, DuePutBy
  <2> QED BY <1>1, <1>4, <2>2 DEF Alone
<1> QED BY <1>3, <1>4, <1>5, <1>6, <1>7, <1>8, <1>9 DEF Sound, s

\* A message, whether it decodes or not, leaves nothing behind.
LEMMA TakenSound ==
  ASSUME Limits, NEW r, Sound(r), r.incoming # <<>>, r.incoming[1].kind # "station", ~Opens(r.incoming[1])
  PROVE  LET s == [r EXCEPT !.incoming = Tail(@), !.reassembly = <<>>]
         IN  /\ Sound(s) /\ s.incoming = Tail(r.incoming) /\ Current(s) = Current(r)
             /\ s.echoes = r.echoes /\ s.torn = r.torn /\ s.orphaned = r.orphaned /\ s.timedOut = r.timedOut
             /\ s.asked = r.asked /\ s.reassembly = <<>>
<1> DEFINE s == [r EXCEPT !.incoming = Tail(@), !.reassembly = <<>>]
<1>1. r \in Links /\ Bounded(r) /\ Modes(r) /\ Accounted(r) /\ Echoed(r) /\ Whole(r) /\ Alone(r) /\ Told(r)
  BY DEF Sound
<1>2. /\ Tail(r.incoming) \in Seq(Frames) /\ Len(Tail(r.incoming)) = Len(r.incoming) - 1
      /\ Len(r.incoming) \in Nat \ {0}
  <2>1. r.incoming \in Seq(Frames)
    BY <1>1 DEF Links
  <2> QED BY <2>1, TailIs
<1>3. s \in Links
  <2>1. <<>> \in Seq(Responses)
    BY EmptySeq
  <2> QED BY <1>1, <1>2, <2>1 DEF Links
<1>4. /\ s.echoes = r.echoes /\ s.up = r.up /\ s.timedOut = r.timedOut /\ s.mode = r.mode /\ s.wait = r.wait
      /\ s.pending = r.pending /\ s.reply = r.reply /\ s.answer = r.answer /\ s.asked = r.asked
      /\ s.incoming = Tail(r.incoming) /\ s.reassembly = <<>>
      /\ s.station = r.station /\ s.arrived = r.arrived /\ s.delivered = r.delivered /\ s.dropped = r.dropped
      /\ s.events = r.events /\ s.overran = r.overran /\ s.orphaned = r.orphaned /\ s.torn = r.torn
  BY <1>1 DEF Links
<1> HIDE DEF s
<1>5. Bounded(s)
  BY <1>1, <1>2, <1>4 DEF Bounded, Limits
<1>6. Modes(s) /\ Told(s)
  BY <1>1, <1>4 DEF Modes, Told
<1>7. Accounted(s)
  BY <1>1, <1>4, OtherTaken
<1>8. Echoed(s) /\ Whole(s)
  BY <1>1, <1>4, FragmentsLeft
<1>9. Current(s) = Current(r)
  BY <1>4 DEF Current
<1>10. Alone(s)
  <2>1. Due(r) => Due(s)
    BY <1>1, <1>4, <1>9, DueLeft
  <2> QED BY <1>1, <1>4, <2>1 DEF Alone
<1> QED BY <1>3, <1>4, <1>5, <1>6, <1>7, <1>8, <1>9, <1>10 DEF Sound, s

LEMMA OneIs == \A n \in Nat : n # 0 /\ n <= 1 => n = 1
OBVIOUS

\* A message that decodes is its own, unless a fragment was lost, and if it is
\* an answer that is due there is no other.
LEMMA MessageIs ==
  ASSUME Limits, NEW r, Sound(r), r.incoming # <<>>, r.incoming[1].kind # "station",
         r.incoming[1].part = r.incoming[1].parts,
         LET message == Append(r.reassembly, r.incoming[1]) IN Decoded(message)
  PROVE  LET message == Append(r.reassembly, r.incoming[1])
             m == message[1]
         IN  /\ m \in Events \cup Responses
             /\ m.kind = "response" => m.uid = IF r.echoes THEN m.of ELSE 0
             /\ Mixed(message) => r.torn
             /\ m.kind = "response" /\ Due(r) =>
                    /\ m.of \in Current(r) /\ r.asked = <<>>
                    /\ Starts(Tail(r.incoming)) = {}
<1> DEFINE f == r.incoming[1]
           had == r.reassembly
           message == Append(had, f)
           m == message[1]
           p == r.incoming
<1>1. r \in Links /\ Echoed(r) /\ Whole(r)
  BY DEF Sound
<1>2. /\ p \in Seq(Frames) /\ Len(p) \in Nat \ {0} /\ 1 \in 1 .. Len(p) /\ f \in Events \cup Responses
      /\ Len(Tail(p)) = Len(p) - 1 /\ \A i \in 1 .. Len(Tail(p)) : Tail(p)[i] = p[i + 1]
  <2>1. p \in Seq(Frames)
    BY <1>1 DEF Links
  <2>2. f \in Frames
    BY <2>1, TailIs
  <2> QED BY <2>1, <2>2, TailIs DEF Frames, Stations
<1>3. /\ had \in Seq(Responses) /\ Len(had) \in Nat /\ (had = <<>> <=> Len(had) = 0)
      /\ Len(message) = Len(had) + 1 /\ message[Len(had) + 1] = f
      /\ \A i \in 1 .. Len(had) : message[i] = had[i]
  <2>1. had \in Seq(Responses)
    BY <1>1 DEF Links
  <2>2. had \in Seq(Events \cup Responses)
    BY <2>1
  <2> HIDE DEF f, had
  <2> QED BY <1>2, <2>1, <2>2, AppendProperties, EmptySeq
<1>4. f.part = f.parts /\ m.part = 1 /\ Len(message) >= m.parts
  BY DEF Decoded
<1> HIDE DEF f, message
<1>5. CASE had = <<>>
  <2>1. m = f /\ Len(message) = 1 /\ Len(had) = 0
    BY <1>3, <1>5
  <2>2. m.kind = "response" => m.uid = IF r.echoes THEN m.of ELSE 0
    BY <1>1, <1>2, <2>1 DEF Echoed, f
  <2>3. ~Mixed(message)
    <3>1. f = [f EXCEPT !.part = 1]
      BY <1>2, <1>4, <2>1 DEF Events, Responses
    <3> QED BY <1>4, <2>1, <3>1 DEF Mixed
  <2>4. ASSUME m.kind = "response", Due(r)
        PROVE  m.of \in Current(r) /\ r.asked = <<>> /\ Starts(Tail(p)) = {}
    <3>1. 1 \in Starts(p)
      BY <1>2, <1>4, <2>1, <2>4 DEF Starts, First, f
    <3>2. m.of \in Current(r) /\ r.asked = <<>>
      BY <2>1, <2>4, <3>1 DEF Due, f
    <3>3. \A i \in Starts(Tail(p)) : i + 1 \in Starts(p) /\ i + 1 # 1
      BY <1>2 DEF Starts
    <3>4. \A i \in Starts(p) : i = 1
      BY <2>4, <3>1 DEF Due
    <3> QED BY <3>2, <3>3, <3>4
  <2> QED BY <1>2, <2>1, <2>2, <2>3, <2>4 DEF f, message
<1>6. CASE had # <<>>
  <2>1. 1 \in 1 .. Len(had) /\ m = had[1] /\ m \in Responses
    BY <1>3, <1>6
  <2>2. Opens(m) /\ m.uid = IF r.echoes THEN m.of ELSE 0
    BY <1>1, <2>1 DEF Echoed
  <2>3. ASSUME ~r.torn PROVE ~Mixed(message)
    <3>1. Len(had) = 1 /\ Follows(m, f)
      <4>1. Len(had) <= 1 /\ Follows(had[1], f)
        BY <1>1, <1>6, <2>3 DEF Whole, f
      <4>2. Follows(m, f)
        BY <2>1, <4>1
      <4>3. Len(had) = 1
        <5>1. Len(had) \in Nat /\ Len(had) # 0 /\ Len(had) <= 1
          BY <1>3, <1>6, <4>1
        <5> QED BY <5>1, OneIs
      <4> QED BY <4>2, <4>3
    <3>2. Len(message) = 2 /\ message[2] = f
      BY <1>3, <3>1
    <3>3. f = [m EXCEPT !.part = 2] /\ m = [m EXCEPT !.part = 1] /\ m.parts = 2
      BY <1>4, <2>1, <2>2, <3>1 DEF Follows, Responses, Opens
    <3>4. \A i \in 1 .. Len(message) : i = 1 \/ i = 2
      BY <3>2
    <3> QED BY <3>2, <3>3, <3>4 DEF Mixed
  <2>4. ASSUME Due(r)
        PROVE  m.of \in Current(r) /\ r.asked = <<>> /\ Starts(Tail(p)) = {}
    <3>1. 1 \in Starts(had)
      BY <2>1, <2>2 DEF Starts, Opens
    <3>2. m.of \in Current(r) /\ r.asked = <<>> /\ Starts(p) = {}
      BY <2>1, <2>4, <3>1 DEF Due
    <3>3. \A i \in Starts(Tail(p)) : i + 1 \in Starts(p)
      BY <1>2 DEF Starts
    <3> QED BY <3>2, <3>3
  <2> QED BY <2>1, <2>2, <2>3, <2>4 DEF f, message
<1> QED BY <1>5, <1>6

LEMMA CollectSound ==
  ASSUME Limits, NEW r, Sound(r), r.incoming # <<>>, r.mode # "idle" \/ Len(r.station) < StationQueue
  PROVE  Sound(Collect(r, Head(r.incoming))) /\ Collect(r, Head(r.incoming)).incoming = Tail(r.incoming)
<1> DEFINE f == Head(r.incoming)
           rest == [r EXCEPT !.incoming = Tail(@)]
           message == Append(r.reassembly, f)
<1>1. r \in Links /\ Echoed(r) /\ Alone(r)
  BY DEF Sound
<1>2. f = r.incoming[1] /\ f \in Frames
  <2>1. r.incoming \in Seq(Frames)
    BY <1>1 DEF Links
  <2> QED BY <2>1, TailIs
<1>3. CASE f.kind = "station"
  <2>1. Collect(r, f) = QueueStation(rest, f.of)
    BY <1>3 DEF Collect
  <2> QED BY <1>2, <1>3, <2>1, StationSound
<1>4. CASE f.kind # "station" /\ f.part < f.parts
  <2>1. Opens(f)
    BY <1>2, <1>4 DEF Frames, Events, Responses, Stations, Opens, First
  <2>2. Collect(r, f) = [rest EXCEPT !.reassembly = message]
    <3>1. f.part # f.parts
      BY <2>1, <1>4 DEF Opens, First
    <3> HIDE DEF f
    <3> QED BY <1>4, <3>1 DEF Collect
  <2>3. [rest EXCEPT !.reassembly = message] = [r EXCEPT !.incoming = Tail(@), !.reassembly = Append(@, r.incoming[1])]
    BY <1>1, <1>2 DEF Links
  <2> DEFINE opened == [r EXCEPT !.incoming = Tail(@), !.reassembly = Append(@, r.incoming[1])]
  <2>4. Opens(r.incoming[1])
    BY <1>2, <2>1
  <2>5. Sound(opened) /\ opened.incoming = Tail(r.incoming)
    <3> HIDE DEF f, message, rest
    <3> QED BY <2>4, PutBySound
  <2>6. Collect(r, f) = opened
    BY <2>2, <2>3
  <2> HIDE DEF opened, message, rest
  <2> QED BY <2>5, <2>6
<1>5. CASE f.kind # "station" /\ ~(f.part < f.parts)
  <2> DEFINE t == [r EXCEPT !.incoming = Tail(@), !.reassembly = <<>>]
             m == message[1]
             mixed == Mixed(message)
  <2>1. [rest EXCEPT !.reassembly = <<>>] = t
    BY <1>1 DEF Links
  <2>2. ~Opens(f)
    BY <1>5 DEF Opens, First
  <2>3. /\ Sound(t) /\ t.incoming = Tail(r.incoming) /\ Current(t) = Current(r)
        /\ t.echoes = r.echoes /\ t.torn = r.torn /\ t.orphaned = r.orphaned /\ t.timedOut = r.timedOut
        /\ t.asked = r.asked /\ t.reassembly = <<>>
    BY <1>2, <1>5, <2>2, TakenSound
  <2>4. CASE f.part = f.parts /\ Decoded(message)
    <3>1. Collect(r, f) = Dispatch(t, m, mixed)
      BY <1>5, <2>1, <2>4 DEF Collect
    <3>2. /\ m \in Events \cup Responses
          /\ m.kind = "response" => m.uid = IF r.echoes THEN m.of ELSE 0
          /\ mixed => r.torn
          /\ m.kind = "response" /\ Due(r) =>
                 m.of \in Current(r) /\ r.asked = <<>> /\ Starts(Tail(r.incoming)) = {}
      BY <1>2, <1>5, <2>4, MessageIs
    <3>3. mixed \in BOOLEAN
      BY DEF Mixed
    <3>4. Starts(t.reassembly) = {}
      BY <2>3, EmptySeq DEF Starts
    <3> HIDE DEF t, m, mixed
    <3>5. m.kind = "response" /\ ~t.echoes /\ ~t.orphaned /\ ~t.timedOut =>
              m.of \in Current(t) /\ t.asked = <<>> /\ Starts(t.incoming) = {} /\ Starts(t.reassembly) = {}
      BY <1>1, <2>3, <3>2, <3>4 DEF Alone
    <3>6. Sound(Dispatch(t, m, mixed)) /\ Dispatch(t, m, mixed).incoming = t.incoming
      BY <2>3, <3>2, <3>3, <3>5, DispatchSound
    <3> QED BY <2>3, <3>1, <3>6
  <2>5. CASE ~(f.part = f.parts /\ Decoded(message))
    <3>1. Collect(r, f) = t
      BY <1>5, <2>1, <2>5 DEF Collect
    <3> QED BY <2>3, <3>1
  <2> QED BY <2>4, <2>5
<1> QED BY <1>3, <1>4, <1>5

---------------------------------------------------------------------------
(* Servicing *)

ReadsOf(read, n, r) ==
    read = [k \in 0 .. n |-> IF k = 0 THEN r ELSE NextMessage(read[k - 1])]

\* The readings of a link exist, by induction over how many there are.
LEMMA ReadsExist ==
  ASSUME NEW r
  PROVE  \A n \in Nat : \E read : ReadsOf(read, n, r)
<1> DEFINE T == {n \in Nat : \E read : ReadsOf(read, n, r)}
<1>1. 0 \in T
  <2>1. ReadsOf([k \in 0 .. 0 |-> r], 0, r)
    BY DEF ReadsOf
  <2> QED BY <2>1
<1>2. ASSUME NEW n \in Nat, n \in T PROVE n + 1 \in T
  <2>1. PICK f : ReadsOf(f, n, r)
    BY <1>2
  <2> DEFINE g == [k \in 0 .. n + 1 |-> IF k = n + 1 THEN NextMessage(f[n]) ELSE f[k]]
  <2>2. ASSUME NEW k \in 0 .. n + 1
        PROVE  g[k] = IF k = 0 THEN r ELSE NextMessage(g[k - 1])
    <3>1. CASE k = n + 1
      <4>1. g[k] = NextMessage(f[n]) /\ g[k - 1] = f[n]
        BY <3>1
      <4> QED BY <3>1, <4>1
    <3>2. CASE k # n + 1
      <4>1. k \in 0 .. n /\ g[k] = f[k]
        BY <3>2
      <4>2. k # 0 => g[k - 1] = f[k - 1]
        BY <4>1
      <4>3. f[k] = IF k = 0 THEN r ELSE NextMessage(f[k - 1])
        BY <2>1, <4>1 DEF ReadsOf
      <4> QED BY <4>1, <4>2, <4>3
    <3> QED BY <3>1, <3>2
  <2>3. ReadsOf(g, n + 1, r)
    <3>1. g = [k \in 0 .. n + 1 |-> g[k]]
      OBVIOUS
    <3> HIDE DEF g
    <3> QED BY <3>1, <2>2 DEF ReadsOf
  <2> QED BY <2>3
<1> HIDE DEF T
<1>3. T = Nat
  BY <1>1, <1>2, Induction DEF T
<1> QED BY <1>3 DEF T

\* Servicing a link keeps it sound, frame by frame.
LEMMA ServicedSound ==
  ASSUME Limits, NEW r, Sound(r)
  PROVE  Sound(Serviced(r))
<1> DEFINE n == Len(r.incoming)
           full(s) == Len(s.station) >= StationQueue
<1>1. n \in Nat /\ r.incoming \in Seq(Frames)
  BY DEF Sound, Links
<1>2. Reads(r) = CHOOSE read : ReadsOf(read, n, r)
  BY DEF Reads, ReadsOf
<1>3. ReadsOf(Reads(r), n, r)
  BY <1>1, <1>2, ReadsExist
<1>4. Reads(r)[0] = r /\ \A k \in 1 .. n : Reads(r)[k] = NextMessage(Reads(r)[k - 1])
  <2> HIDE DEF n
  <2> QED BY <1>1, <1>3 DEF ReadsOf
<1> DEFINE T == {k \in Nat : k <= n =>
                    /\ Sound(Reads(r)[k])
                    /\ full(Reads(r)[k]) \/ Len(Reads(r)[k].incoming) = n - k}
<1>5. 0 \in T
  BY <1>1, <1>4
<1>6. ASSUME NEW k \in Nat, k \in T PROVE k + 1 \in T
  <2> DEFINE s == Reads(r)[k]
  <2> SUFFICES ASSUME k + 1 <= n
               PROVE  /\ Sound(Reads(r)[k + 1])
                      /\ full(Reads(r)[k + 1]) \/ Len(Reads(r)[k + 1].incoming) = n - (k + 1)
    OBVIOUS
  <2>1. Sound(s) /\ (full(s) \/ Len(s.incoming) = n - k)
    BY <1>1, <1>6
  <2>2. Reads(r)[k + 1] = NextMessage(s)
    <3>1. k + 1 \in 1 .. n /\ (k + 1) - 1 = k
      BY <1>1
    <3> HIDE DEF n
    <3> QED BY <1>4, <3>1
  <2>3. CASE full(s)
    BY <2>1, <2>2, <2>3 DEF NextMessage
  <2>4. CASE ~full(s)
    <3>1. s.incoming \in Seq(Frames) /\ Len(s.station) \in Nat
      <4> HIDE DEF s
      <4>1. s.incoming \in Seq(Frames) /\ s.station \in Seq(Nat)
        BY <2>1 DEF Sound, Links
      <4> QED BY <4>1
    <3>2. s.incoming # <<>>
      BY <1>1, <2>1, <2>4, <3>1
    <3>3. Len(s.station) < StationQueue
      BY <2>4, <3>1 DEF Limits
    <3> HIDE DEF s, n
    <3>4. NextMessage(s) = Collect(s, Head(s.incoming))
      BY <2>4 DEF NextMessage
    <3>5. Sound(NextMessage(s)) /\ NextMessage(s).incoming = Tail(s.incoming)
      BY <2>1, <3>2, <3>3, <3>4, CollectSound
    <3>6. Len(Tail(s.incoming)) = Len(s.incoming) - 1
      BY <3>1, <3>2, TailIs
    <3> QED BY <1>1, <2>1, <2>2, <2>4, <3>5, <3>6
  <2> QED BY <2>3, <2>4
<1> HIDE DEF T
<1>7. T = Nat
  BY <1>5, <1>6, Induction DEF T
<1>8. n \in T
  BY <1>1, <1>7
<1> QED BY <1>1, <1>8 DEF T, Serviced

---------------------------------------------------------------------------
(* What is added to the transport *)

LEMMA AppendIs ==
  ASSUME NEW S, NEW q \in Seq(S), NEW f \in S
  PROVE  /\ Append(q, f) \in Seq(S) /\ Len(q) \in Nat /\ Len(Append(q, f)) = Len(q) + 1
         /\ Append(q, f)[Len(q) + 1] = f /\ \A i \in 1 .. Len(q) : Append(q, f)[i] = q[i]
         /\ (q = <<>> <=> Len(q) = 0) /\ Append(q, f) # <<>>
BY AppendProperties, EmptySeq

\* Any number of frames behind those there are.
LEMMA BehindIs ==
  ASSUME NEW q \in Seq(Frames), NEW g \in Seq(Frames)
  PROVE  /\ q \o g \in Seq(Frames) /\ Len(q) \in Nat /\ Len(g) \in Nat /\ Len(q \o g) = Len(q) + Len(g)
         /\ \A i \in 1 .. Len(q) : (q \o g)[i] = q[i]
         /\ \A i \in 1 .. Len(g) : (q \o g)[Len(q) + i] = g[i]
         /\ \A i \in 1 .. Len(q) + Len(g) :
                i \in 1 .. Len(q) \/ (i - Len(q) \in 1 .. Len(g) /\ i = Len(q) + (i - Len(q)))
BY ConcatProperties

\* Whole messages that come in keep the fragments in order.
LEMMA FragmentsBehind ==
  ASSUME NEW r, NEW s, r \in Links, Echoed(r), Whole(r), s.echoes = r.echoes, s.torn = r.torn,
         s.reassembly = r.reassembly, NEW g \in Seq(Frames), s.incoming = r.incoming \o g,
         \A i \in 1 .. Len(g) :
             /\ g[i].kind = "response" =>
                    /\ g[i].uid = IF r.echoes THEN g[i].of ELSE 0
                    /\ Second(g[i]) => g[i].parts = 2
             /\ Opens(g[i]) => i < Len(g) /\ Follows(g[i], g[i + 1])
             /\ Second(g[i]) => i # 1 /\ Opens(g[i - 1])
  PROVE  Echoed(s) /\ Whole(s)
<1> DEFINE p == r.incoming
           q == s.incoming
<1>1. p \in Seq(Frames)
  BY DEF Links
<1>2. /\ Len(p) \in Nat /\ Len(g) \in Nat /\ Len(q) = Len(p) + Len(g)
      /\ \A i \in 1 .. Len(p) : q[i] = p[i]
      /\ \A i \in 1 .. Len(g) : q[Len(p) + i] = g[i]
      /\ \A i \in 1 .. Len(q) :
             i \in 1 .. Len(p) \/ (i - Len(p) \in 1 .. Len(g) /\ i = Len(p) + (i - Len(p)))
  BY <1>1, BehindIs
<1>3. Echoed(s)
  <2>1. ASSUME NEW i \in 1 .. Len(q), q[i].kind = "response"
        PROVE  q[i].uid = (IF s.echoes THEN q[i].of ELSE 0) /\ (Second(q[i]) => q[i].parts = 2)
    <3>1. CASE i \in 1 .. Len(p)
      <4>1. q[i] = p[i]
        BY <1>2, <3>1
      <4> QED BY <2>1, <3>1, <4>1 DEF Echoed
    <3>2. CASE i - Len(p) \in 1 .. Len(g) /\ i = Len(p) + (i - Len(p))
      <4>1. q[i] = g[i - Len(p)]
        BY <1>2, <3>2
      <4> QED BY <2>1, <3>2, <4>1
    <3> QED BY <1>2, <3>1, <3>2
  <2> QED BY <2>1 DEF Echoed
<1>4. ASSUME ~s.torn PROVE Whole(s)
  <2>1. ASSUME NEW i \in 1 .. Len(q), Opens(q[i]) PROVE i < Len(q) /\ Follows(q[i], q[i + 1])
    <3>1. CASE i \in 1 .. Len(p)
      <4>1. q[i] = p[i]
        BY <1>2, <3>1
      <4>2. i < Len(p) /\ Follows(p[i], p[i + 1])
        BY <1>4, <2>1, <3>1, <4>1 DEF Whole
      <4>3. i + 1 \in 1 .. Len(p)
        BY <1>2, <3>1, <4>2
      <4>4. i < Len(q)
        BY <1>2, <3>1, <4>2
      <4> QED BY <1>2, <4>1, <4>2, <4>3, <4>4
    <3>2. CASE i - Len(p) \in 1 .. Len(g) /\ i = Len(p) + (i - Len(p))
      <4> DEFINE k == i - Len(p)
      <4>1. q[i] = g[k] /\ k \in 1 .. Len(g)
        BY <1>2, <3>2
      <4>2. k < Len(g) /\ Follows(g[k], g[k + 1])
        BY <2>1, <4>1
      <4>3. k + 1 \in 1 .. Len(g) /\ Len(p) + (k + 1) = i + 1 /\ i < Len(q)
        BY <1>2, <3>2, <4>2
      <4>4. q[i + 1] = g[k + 1]
        BY <1>2, <4>3
      <4> QED BY <4>1, <4>2, <4>3, <4>4
    <3> QED BY <1>2, <3>1, <3>2
  <2>2. ASSUME NEW i \in 1 .. Len(q), Second(q[i])
        PROVE  IF i = 1 THEN s.reassembly # <<>> ELSE Opens(q[i - 1])
    <3>1. CASE i \in 1 .. Len(p)
      <4>1. q[i] = p[i] /\ (i # 1 => i - 1 \in 1 .. Len(p) /\ q[i - 1] = p[i - 1])
        <5> HIDE DEF p, q
        <5>1. i # 1 => i - 1 \in 1 .. Len(p)
          BY <1>2, <3>1
        <5> QED BY <1>2, <3>1, <5>1
      <4>2. IF i = 1 THEN r.reassembly # <<>> ELSE Opens(p[i - 1])
        BY <1>4, <2>2, <3>1, <4>1 DEF Whole
      <4> QED BY <4>1, <4>2
    <3>2. CASE i - Len(p) \in 1 .. Len(g) /\ i = Len(p) + (i - Len(p))
      <4> DEFINE k == i - Len(p)
      <4>1. q[i] = g[k] /\ k \in 1 .. Len(g)
        BY <1>2, <3>2
      <4>2. k # 1 /\ Opens(g[k - 1])
        BY <2>2, <4>1
      <4>3. k - 1 \in 1 .. Len(g) /\ Len(p) + (k - 1) = i - 1 /\ i # 1
        BY <1>2, <3>2, <4>2
      <4>4. q[i - 1] = g[k - 1]
        BY <1>2, <4>3
      <4> QED BY <4>2, <4>3, <4>4
    <3> QED BY <1>2, <3>1, <3>2
  <2>3. Len(s.reassembly) <= 1
    BY <1>4 DEF Whole
  <2>4. ASSUME s.reassembly # <<>> PROVE q # <<>> /\ Follows(s.reassembly[1], q[1])
    <3>1. p # <<>> /\ Follows(s.reassembly[1], p[1])
      BY <1>4, <2>4 DEF Whole
    <3>2. 1 \in 1 .. Len(p)
      BY <1>1, <3>1, EmptySeq
    <3>3. 1 \in 1 .. Len(q)
      BY <1>2, <3>2
    <3>4. q # <<>>
      BY <3>3, EmptySeq
    <3> QED BY <1>2, <3>1, <3>2, <3>4
  <2> HIDE DEF q
  <2> QED BY <2>1, <2>2, <2>3, <2>4 DEF Whole, q
<1> QED BY <1>3, <1>4 DEF Whole

\* What is not of the station leaves its accounts alone.
LEMMA AccountsBehind ==
  ASSUME NEW r, NEW s, r \in Links, Accounted(r), s.delivered = r.delivered, s.dropped = r.dropped,
         s.station = r.station, s.arrived = r.arrived, NEW g \in Seq(Frames), s.incoming = r.incoming \o g,
         \A i \in 1 .. Len(g) : g[i].kind # "station"
  PROVE  Accounted(s)
<1> DEFINE p == r.incoming
           q == s.incoming
<1>1. p \in Seq(Frames)
  BY DEF Links
<1>2. /\ Len(p) \in Nat /\ Len(g) \in Nat /\ Len(q) = Len(p) + Len(g)
      /\ \A i \in 1 .. Len(p) : q[i] = p[i]
      /\ \A i \in 1 .. Len(g) : q[Len(p) + i] = g[i]
      /\ \A i \in 1 .. Len(q) :
             i \in 1 .. Len(p) \/ (i - Len(p) \in 1 .. Len(g) /\ i = Len(p) + (i - Len(p)))
  BY <1>1, BehindIs
<1>3. \A i \in 1 .. Len(p) : i \in 1 .. Len(q)
  BY <1>2
<1> HIDE DEF p, q
<1>4. StationsOf(q) = StationsOf(p)
  <2>1. \A i \in StationsOf(q) : i \in StationsOf(p)
    <3> SUFFICES ASSUME NEW i \in StationsOf(q) PROVE i \in StationsOf(p)
      OBVIOUS
    <3>1. i \in 1 .. Len(q) /\ q[i].kind = "station"
      BY DEF StationsOf
    <3>2. CASE i \in 1 .. Len(p)
      BY <1>2, <3>1, <3>2 DEF StationsOf
    <3>3. CASE i - Len(p) \in 1 .. Len(g) /\ i = Len(p) + (i - Len(p))
      <4>1. q[i] = g[i - Len(p)]
        BY <1>2, <3>3
      <4> QED BY <3>1, <3>3, <4>1
    <3> QED BY <1>2, <3>1, <3>2, <3>3
  <2>2. \A i \in StationsOf(p) : i \in StationsOf(q)
    BY <1>2, <1>3 DEF StationsOf
  <2> QED BY <2>1, <2>2
<1>5. \A i \in StationsOf(p) : q[i] = p[i]
  BY <1>2 DEF StationsOf
<1>6. {q[i].of : i \in StationsOf(q)} = {p[i].of : i \in StationsOf(p)}
  BY <1>4, <1>5
<1>7. \A i, j \in StationsOf(q) : i < j => q[i].of < q[j].of
  BY <1>4, <1>5 DEF Accounted, p
<1> QED BY <1>6, <1>7 DEF Accounted, p, q

---------------------------------------------------------------------------
(* The actions *)

\* What leaves the frames alone.
LEMMA StillSound ==
  ASSUME NEW r, NEW s, Sound(r), s \in Links, s.echoes = r.echoes, s.torn = r.torn,
         s.incoming = r.incoming, s.reassembly = r.reassembly, s.station = r.station, s.arrived = r.arrived,
         s.delivered = r.delivered, s.dropped = r.dropped, s.overran = r.overran,
         Len(s.events) <= EventQueue, Modes(s), Told(s), Alone(s)
  PROVE  Sound(s)
<1>1. Bounded(r) /\ Accounted(r) /\ Echoed(r) /\ Whole(r)
  BY DEF Sound
<1>2. Bounded(s)
  BY <1>1 DEF Bounded
<1>3. Accounted(s) /\ Echoed(s) /\ Whole(s)
  BY <1>1, SameAccounts, SameFragments
<1> QED BY <1>2, <1>3 DEF Sound

LEMMA AnswerKeeps ==
  ASSUME Limits, NEW r, Sound(r), r.asked # <<>>, NEW parts \in 1 .. 2, Len(r.incoming) + parts <= MaxIncoming
  PROVE  LET q == Head(r.asked)
             uid == IF r.echoes THEN q.uid ELSE 0
         IN  Sound([r EXCEPT !.asked = Tail(@), !.incoming = @ \o Fragments(q.id, q.uid, uid, parts)])
<1> DEFINE q == Head(r.asked)
           uid == IF r.echoes THEN q.uid ELSE 0
           g == Fragments(q.id, q.uid, uid, parts)
           s == [r EXCEPT !.asked = Tail(@), !.incoming = @ \o g]
<1>1. r \in Links /\ Bounded(r) /\ Modes(r) /\ Accounted(r) /\ Echoed(r) /\ Whole(r) /\ Alone(r) /\ Told(r)
  BY DEF Sound
<1>2. /\ q \in Calls /\ q = r.asked[1] /\ Tail(r.asked) \in Seq(Calls) /\ Len(r.asked) \in Nat \ {0}
      /\ Len(Tail(r.asked)) = Len(r.asked) - 1
  <2>1. r.asked \in Seq(Calls)
    BY <1>1 DEF Links
  <2> QED BY <2>1, TailIs
<1>3. q.id \in Ids /\ q.uid \in Nat \ {0} /\ uid \in Nat
  BY <1>2 DEF Calls
<1> HIDE DEF q
<1>4. /\ Len(g) = parts
      /\ \A i \in 1 .. parts : /\ g[i] \in Responses /\ g[i].part = i /\ g[i].parts = parts
                               /\ g[i].of = q.uid /\ g[i].uid = uid /\ g[i].id = q.id
                               /\ g[i].kind = "response"
                               /\ g[i] = Fragment("response", q.id, q.uid, uid, i, parts)
  <2> HIDE DEF uid
  <2>1. \A i \in 1 .. parts : g[i] = Fragment("response", q.id, q.uid, uid, i, parts)
    BY DEF Fragments
  <2>2. \A i \in 1 .. parts : i \in 1 .. 2
    OBVIOUS
  <2>3. Len(g) = parts
    BY DEF Fragments
  <2> QED BY <1>3, <2>1, <2>2, <2>3 DEF Fragment, Responses
<1>5. g \in Seq(Frames)
  <2>1. \A i \in 1 .. parts : g[i] \in Frames
    BY <1>4 DEF Frames
  <2>2. g = [i \in 1 .. parts |-> g[i]]
    BY DEF Fragments
  <2>3. parts \in Nat
    OBVIOUS
  <2> HIDE DEF g
  <2> QED BY <2>1, <2>2, <2>3
<1> HIDE DEF g, uid
<1>6. /\ r.incoming \in Seq(Frames) /\ r.incoming \o g \in Seq(Frames)
      /\ Len(r.incoming \o g) = Len(r.incoming) + parts /\ Len(r.incoming) \in Nat
      /\ \A i \in 1 .. Len(r.incoming) : (r.incoming \o g)[i] = r.incoming[i]
      /\ \A i \in 1 .. Len(g) : (r.incoming \o g)[Len(r.incoming) + i] = g[i]
      /\ \A i \in 1 .. Len(r.incoming) + Len(g) :
             i \in 1 .. Len(r.incoming)
             \/ (i - Len(r.incoming) \in 1 .. Len(g) /\ i = Len(r.incoming) + (i - Len(r.incoming)))
  <2>1. r.incoming \in Seq(Frames)
    BY <1>1 DEF Links
  <2> QED BY <2>1, <1>4, <1>5, BehindIs
<1>7. s \in Links
  BY <1>1, <1>2, <1>6 DEF Links
<1>8. /\ s.echoes = r.echoes /\ s.up = r.up /\ s.timedOut = r.timedOut /\ s.mode = r.mode /\ s.wait = r.wait
      /\ s.pending = r.pending /\ s.reply = r.reply /\ s.answer = r.answer /\ s.asked = Tail(r.asked)
      /\ s.incoming = r.incoming \o g /\ s.reassembly = r.reassembly
      /\ s.station = r.station /\ s.arrived = r.arrived /\ s.delivered = r.delivered /\ s.dropped = r.dropped
      /\ s.events = r.events /\ s.overran = r.overran /\ s.orphaned = r.orphaned /\ s.torn = r.torn
  BY <1>1 DEF Links
<1> HIDE DEF s
<1>9. Bounded(s)
  BY <1>1, <1>6, <1>8 DEF Bounded
<1>10. Modes(s) /\ Told(s)
  BY <1>1, <1>8 DEF Modes, Told
<1>11. Accounted(s)
  <2>1. \A i \in 1 .. Len(g) : g[i].kind # "station"
    BY <1>4
  <2> QED BY <1>1, <1>5, <1>8, <2>1, AccountsBehind
<1>12. Echoed(s) /\ Whole(s)
  <2>1. ASSUME NEW i \in 1 .. Len(g)
        PROVE  /\ g[i].kind = "response" =>
                      /\ g[i].uid = IF r.echoes THEN g[i].of ELSE 0
                      /\ Second(g[i]) => g[i].parts = 2
               /\ Opens(g[i]) => i < Len(g) /\ Follows(g[i], g[i + 1])
               /\ Second(g[i]) => i # 1 /\ Opens(g[i - 1])
    <3>1. i \in 1 .. parts
      BY <1>4
    <3>2. g[i].uid = IF r.echoes THEN g[i].of ELSE 0
      BY <1>4, <3>1 DEF uid
    <3>3. Second(g[i]) => i = 2 /\ parts = 2
      BY <1>4, <3>1 DEF Second
    <3>4. ASSUME Opens(g[i]) PROVE i < Len(g) /\ Follows(g[i], g[i + 1])
      <4>1. i = 1 /\ parts = 2 /\ 1 \in 1 .. parts /\ 2 \in 1 .. parts
        BY <1>4, <3>1, <3>4 DEF Opens, First
      <4>2. /\ g[1] = Fragment("response", q.id, q.uid, uid, 1, parts)
            /\ g[2] = Fragment("response", q.id, q.uid, uid, 2, parts)
            /\ g[2].kind = "response" /\ g[2].part = 2
        BY <1>4, <4>1
      <4>3. g[2] = [g[1] EXCEPT !.part = 2]
        BY <4>2 DEF Fragment
      <4> QED BY <1>4, <4>1, <4>2, <4>3 DEF Follows, Second
    <3>5. ASSUME Second(g[i]) PROVE i # 1 /\ Opens(g[i - 1])
      <4>1. i = 2 /\ i - 1 = 1 /\ parts = 2 /\ 1 \in 1 .. parts
        BY <3>3, <3>5
      <4> QED BY <1>4, <4>1 DEF Opens, First
    <3>6. Second(g[i]) => g[i].parts = 2
      BY <1>4, <3>1, <3>3
    <3> QED BY <3>2, <3>4, <3>5, <3>6
  <2> QED BY <1>1, <1>5, <1>8, <2>1, FragmentsBehind
<1>13. Alone(s)
  <2> SUFFICES ASSUME ~s.echoes, ~s.orphaned, ~s.timedOut PROVE Due(s)
    BY DEF Alone
  <2>1. Due(r)
    BY <1>1, <1>8 DEF Alone
  <2>2. Current(s) = Current(r)
    BY <1>8 DEF Current
  <2>3. /\ Len(r.asked) = 1 /\ q.uid \in Current(r) /\ Starts(r.incoming) = {} /\ Starts(r.reassembly) = {}
    <3>1. /\ Len(r.asked) <= 1 /\ Starts(r.incoming) = {} /\ Starts(r.reassembly) = {}
          /\ \A i \in 1 .. Len(r.asked) : r.asked[i].uid \in Current(r)
      BY <2>1 DEF Due
    <3>2. Len(r.asked) \in Nat /\ Len(r.asked) # 0 /\ 1 \in 1 .. Len(r.asked)
      BY <1>2
    <3>3. Len(r.asked) = 1
      BY <3>1, <3>2, OneIs
    <3> QED BY <1>2, <3>1, <3>2, <3>3
  <2>4. s.asked = <<>> /\ Len(s.asked) = 0
    <3>1. Len(Tail(r.asked)) = 0
      BY <1>2, <2>3
    <3> QED BY <1>2, <1>8, <3>1, EmptySeq
  <2>5. ASSUME NEW i \in Starts(s.incoming) PROVE i = Len(r.incoming) + 1 /\ s.incoming[i].of = q.uid
    <3>1. i \in 1 .. Len(r.incoming) + Len(g) /\ First(s.incoming[i])
      BY <1>4, <1>6, <1>8 DEF Starts
    <3>2. CASE i \in 1 .. Len(r.incoming)
      BY <1>6, <1>8, <2>3, <3>1, <3>2 DEF Starts
    <3>3. CASE i - Len(r.incoming) \in 1 .. Len(g) /\ i = Len(r.incoming) + (i - Len(r.incoming))
      <4>1. s.incoming[i] = g[i - Len(r.incoming)]
        BY <1>6, <1>8, <3>3
      <4>2. i - Len(r.incoming) = 1
        BY <1>4, <3>1, <3>3, <4>1 DEF First
      <4> QED BY <1>4, <1>6, <3>3, <4>1, <4>2
    <3> QED BY <1>6, <3>1, <3>2, <3>3
  <2>6. \A i \in 1 .. Len(s.asked) : s.asked[i].uid \in Current(s)
    BY <2>4
  <2>7. Starts(s.reassembly) = {}
    BY <1>8, <2>3
  <2>8. \A i, j \in Starts(s.incoming) : i = j
    BY <2>5
  <2>9. \A i \in Starts(s.incoming) : s.incoming[i].of \in Current(s)
    BY <2>2, <2>3, <2>5
  <2>10. Len(s.asked) <= 1
    BY <2>4
  <2> QED BY <2>4, <2>6, <2>7, <2>8, <2>9, <2>10 DEF Due
<1> QED BY <1>7, <1>9, <1>10, <1>11, <1>12, <1>13 DEF Sound, s, g, uid, q

LEMMA RaiseKeeps ==
  ASSUME Limits, NEW r, Sound(r), Len(r.incoming) < MaxIncoming
  PROVE  Sound([r EXCEPT !.raised = @ + 1, !.incoming = Append(@, Fragment("event", r.raised + 1, 0, 0, 1, 1))])
<1> DEFINE f == Fragment("event", r.raised + 1, 0, 0, 1, 1)
           g == <<f>>
           s == [r EXCEPT !.raised = @ + 1, !.incoming = Append(@, f)]
<1>1. r \in Links /\ Bounded(r) /\ Modes(r) /\ Accounted(r) /\ Echoed(r) /\ Whole(r) /\ Alone(r) /\ Told(r)
  BY DEF Sound
<1>2. r.raised + 1 \in Nat /\ r.incoming \in Seq(Frames)
  BY <1>1 DEF Links
<1>3. f \in Frames /\ f.kind = "event"
  BY <1>2 DEF Fragment, Frames, Events
<1> HIDE DEF f
<1>4. /\ g \in Seq(Frames) /\ Len(g) = 1 /\ g[1] = f /\ Append(r.incoming, f) = r.incoming \o g
      /\ \A i \in 1 .. Len(g) : g[i] = f
  BY <1>2, <1>3, AppendIsConcat
<1>5. /\ Append(r.incoming, f) \in Seq(Frames) /\ Len(Append(r.incoming, f)) = Len(r.incoming) + 1
      /\ Len(r.incoming) \in Nat /\ Append(r.incoming, f)[Len(r.incoming) + 1] = f
      /\ \A i \in 1 .. Len(r.incoming) : Append(r.incoming, f)[i] = r.incoming[i]
  BY <1>2, <1>3, AppendIs
<1>6. s \in Links
  BY <1>1, <1>2, <1>5 DEF Links
<1>7. /\ s.echoes = r.echoes /\ s.up = r.up /\ s.timedOut = r.timedOut /\ s.mode = r.mode /\ s.wait = r.wait
      /\ s.pending = r.pending /\ s.reply = r.reply /\ s.answer = r.answer /\ s.asked = r.asked
      /\ s.incoming = Append(r.incoming, f) /\ s.reassembly = r.reassembly
      /\ s.station = r.station /\ s.arrived = r.arrived /\ s.delivered = r.delivered /\ s.dropped = r.dropped
      /\ s.events = r.events /\ s.overran = r.overran /\ s.orphaned = r.orphaned /\ s.torn = r.torn
  BY <1>1 DEF Links
<1> HIDE DEF s, g
<1>8. Bounded(s)
  BY <1>1, <1>5, <1>7 DEF Bounded, Limits
<1>9. Modes(s) /\ Told(s)
  BY <1>1, <1>7 DEF Modes, Told
<1>10. Accounted(s)
  BY <1>1, <1>3, <1>4, <1>7, AccountsBehind
<1>11. Echoed(s) /\ Whole(s)
  <2>1. \A i \in 1 .. Len(g) : g[i].kind # "response" /\ ~Opens(g[i]) /\ ~Second(g[i])
    BY <1>3, <1>4 DEF Opens, First, Second
  <2>2. r \in Links /\ Echoed(r) /\ Whole(r)
    BY <1>1
  <2>3. /\ s.echoes = r.echoes /\ s.torn = r.torn /\ s.reassembly = r.reassembly /\ s.incoming = r.incoming \o g
    BY <1>4, <1>7
  <2>4. g \in Seq(Frames)
    BY <1>4
  <2> HIDE DEF s, g
  <2> QED BY <2>1, <2>2, <2>3, <2>4, FragmentsBehind
<1>12. Alone(s)
  <2>1. Current(s) = Current(r)
    BY <1>7 DEF Current
  <2>2. Starts(s.incoming) = Starts(r.incoming)
    <3>1. ~First(f)
      BY <1>3 DEF First
    <3>2. \A i \in 1 .. Len(r.incoming) + 1 : i \in 1 .. Len(r.incoming) \/ i = Len(r.incoming) + 1
      BY <1>5
    <3>3. \A i \in 1 .. Len(r.incoming) : i \in 1 .. Len(r.incoming) + 1
      BY <1>5
    <3> QED BY <1>5, <1>7, <3>1, <3>2, <3>3 DEF Starts
  <2>3. \A i \in Starts(r.incoming) : s.incoming[i] = r.incoming[i]
    BY <1>5, <1>7 DEF Starts
  <2> QED BY <1>1, <1>7, <2>1, <2>2, <2>3 DEF Alone, Due
<1> QED BY <1>6, <1>8, <1>9, <1>10, <1>11, <1>12 DEF Sound, s, f

LEMMA StationFrameKeeps ==
  ASSUME Limits, NEW r, Sound(r), Len(r.incoming) < MaxIncoming
  PROVE  Sound([r EXCEPT !.arrived = @ + 1,
                         !.incoming = Append(@, [kind |-> "station", of |-> r.arrived + 1])])
<1> DEFINE f == [kind |-> "station", of |-> r.arrived + 1]
           s == [r EXCEPT !.arrived = @ + 1, !.incoming = Append(@, f)]
           p == r.incoming
           q == s.incoming
           g == <<f>>
<1>1. r \in Links /\ Bounded(r) /\ Modes(r) /\ Accounted(r) /\ Echoed(r) /\ Whole(r) /\ Alone(r) /\ Told(r)
  BY DEF Sound
<1>2. r.arrived + 1 \in Nat /\ r.incoming \in Seq(Frames) /\ r.arrived \in Nat
  BY <1>1 DEF Links
<1>3. f \in Frames /\ f.kind = "station" /\ f.of = r.arrived + 1
  BY <1>2 DEF Frames, Stations
<1> HIDE DEF f
<1>4. /\ g \in Seq(Frames) /\ Len(g) = 1 /\ Append(p, f) = p \o g /\ \A i \in 1 .. Len(g) : g[i] = f
  BY <1>2, <1>3, AppendIsConcat
<1>5. /\ Append(p, f) \in Seq(Frames) /\ Len(Append(p, f)) = Len(p) + 1
      /\ Len(p) \in Nat /\ Append(p, f)[Len(p) + 1] = f
      /\ \A i \in 1 .. Len(p) : Append(p, f)[i] = p[i]
  BY <1>2, <1>3, AppendIs
<1>6. s \in Links
  BY <1>1, <1>2, <1>5 DEF Links
<1>7. /\ s.echoes = r.echoes /\ s.up = r.up /\ s.timedOut = r.timedOut /\ s.mode = r.mode /\ s.wait = r.wait
      /\ s.pending = r.pending /\ s.reply = r.reply /\ s.answer = r.answer /\ s.sent = r.sent /\ s.asked = r.asked
      /\ s.incoming = Append(r.incoming, f) /\ s.reassembly = r.reassembly /\ s.station = r.station /\ s.arrived = r.arrived + 1 /\ s.delivered = r.delivered
      /\ s.dropped = r.dropped /\ s.events = r.events /\ s.overran = r.overran /\ s.orphaned = r.orphaned /\ s.torn = r.torn
  BY <1>1 DEF Links
<1> HIDE DEF s, g
<1>8. Bounded(s)
  BY <1>1, <1>5, <1>7 DEF Bounded, Limits
<1>9. Modes(s) /\ Told(s)
  BY <1>1, <1>7 DEF Modes, Told
<1>10. /\ Len(q) = Len(p) + 1 /\ q[Len(p) + 1] = f /\ \A i \in 1 .. Len(p) : q[i] = p[i] /\ i \in 1 .. Len(q)
       /\ \A i \in 1 .. Len(q) : i \in 1 .. Len(p) \/ i = Len(p) + 1
       /\ Len(p) + 1 \in 1 .. Len(q)
  <2>1. q = Append(p, f)
    BY <1>7
  <2>2. /\ \A i \in 1 .. Len(p) : i \in 1 .. Len(p) + 1
        /\ \A i \in 1 .. Len(p) + 1 : i \in 1 .. Len(p) \/ i = Len(p) + 1
        /\ Len(p) + 1 \in 1 .. Len(p) + 1
    BY <1>5
  <2> QED BY <1>5, <2>1, <2>2
<1>11. Accounted(s)
  <2> DEFINE a == r.delivered + r.dropped + Len(r.station) + 1
             x == r.arrived
             new == Len(p) + 1
  <2>1. /\ a \in Nat /\ x \in Nat
        /\ {p[i].of : i \in StationsOf(p)} = a .. x
        /\ \A i, j \in StationsOf(p) : i < j => p[i].of < p[j].of
    <3>1. a \in Nat
      BY <1>1 DEF Links
    <3> QED BY <1>1, <1>2, <3>1 DEF Accounted
  <2>2. \A i \in 1 .. Len(r.station) : r.station[i] = r.delivered + r.dropped + i
    BY <1>1 DEF Accounted
  <2>3. a <= x + 1
    <3>1. r.delivered + r.dropped + Len(r.station) <= x
      BY <1>1 DEF Accounted
    <3> HIDE DEF x
    <3> QED BY <1>1, <2>1, <3>1 DEF Links
  <2>4. StationsOf(q) = StationsOf(p) \cup {new}
    BY <1>3, <1>10 DEF StationsOf
  <2>5. \A i \in StationsOf(p) : q[i] = p[i] /\ i < new /\ p[i].of \in a .. x
    <3>1. \A i \in StationsOf(p) : i \in 1 .. Len(p)
      BY DEF StationsOf
    <3>2. \A i \in 1 .. Len(p) : i < new
      BY <1>5
    <3> QED BY <1>10, <2>1, <3>1, <3>2
  <2>6. q[new].of = x + 1
    BY <1>3, <1>10
  <2> HIDE DEF p, q, x, a, new
  <2>7. {q[i].of : i \in StationsOf(q)} = (a .. x) \cup {x + 1}
    BY <2>1, <2>4, <2>5, <2>6
  <2>8. (a .. x) \cup {x + 1} = a .. x + 1
    BY <2>1, <2>3
  <2>9. \A i, j \in StationsOf(q) : i < j => q[i].of < q[j].of
    <3> SUFFICES ASSUME NEW i \in StationsOf(q), NEW j \in StationsOf(q), i < j PROVE q[i].of < q[j].of
      OBVIOUS
    <3>1. CASE i \in StationsOf(p) /\ j \in StationsOf(p)
      BY <2>1, <2>5, <3>1
    <3>2. CASE i \in StationsOf(p) /\ j = new
      <4>1. q[i].of \in a .. x
        BY <2>5, <3>2
      <4> QED BY <2>1, <2>6, <3>2, <4>1
    <3>3. CASE i = new /\ j \in StationsOf(p)
      <4>1. j < new /\ new \in Nat /\ j \in Nat
        BY <1>5, <2>5, <3>3 DEF new, StationsOf, p
      <4> QED BY <3>3, <4>1
    <3>4. CASE i = new /\ j = new
      <4>1. new \in Nat
        BY <1>5 DEF new
      <4> QED BY <3>4, <4>1
    <3> QED BY <2>4, <3>1, <3>2, <3>3, <3>4
  <2>10. r.delivered + r.dropped + Len(r.station) <= x + 1
    <3>1. r.delivered + r.dropped + Len(r.station) <= x
      BY <1>1 DEF Accounted, x
    <3>2. r.delivered + r.dropped + Len(r.station) \in Nat
      BY <1>1 DEF Links
    <3> QED BY <2>1, <3>1, <3>2
  <2> QED BY <1>7, <2>2, <2>7, <2>8, <2>9, <2>10 DEF Accounted, a, x, q
<1>12. Echoed(s) /\ Whole(s)
  <2>1. \A i \in 1 .. Len(g) : g[i].kind # "response" /\ ~Opens(g[i]) /\ ~Second(g[i])
    BY <1>3, <1>4 DEF Opens, First, Second
  <2>2. r \in Links /\ Echoed(r) /\ Whole(r)
    BY <1>1
  <2>3. /\ s.echoes = r.echoes /\ s.torn = r.torn /\ s.reassembly = r.reassembly /\ s.incoming = r.incoming \o g
    BY <1>4, <1>7
  <2>4. g \in Seq(Frames)
    BY <1>4
  <2> HIDE DEF s, g
  <2> QED BY <2>1, <2>2, <2>3, <2>4, FragmentsBehind
<1>13. Alone(s)
  <2>1. Current(s) = Current(r)
    BY <1>7 DEF Current
  <2>2. ~First(f)
    BY <1>3 DEF First
  <2>3. Starts(q) = Starts(p)
    BY <1>10, <2>2 DEF Starts
  <2>4. \A i \in Starts(p) : q[i] = p[i]
    BY <1>10 DEF Starts
  <2> QED BY <1>1, <1>7, <2>1, <2>3, <2>4 DEF Alone, Due
<1> QED BY <1>6, <1>8, <1>9, <1>11, <1>12, <1>13 DEF Sound, s, f

LEMMA LoseFrameKeeps ==
  ASSUME Limits, NEW r, Sound(r), r.incoming # <<>>, Head(r.incoming).kind # "station"
  PROVE  Sound([r EXCEPT !.incoming = Tail(@),
                         !.torn = @ \/ Head(r.incoming).parts > 1 \/ r.reassembly # <<>>])
<1> DEFINE t == r.torn \/ Head(r.incoming).parts > 1 \/ r.reassembly # <<>>
           s == [r EXCEPT !.incoming = Tail(@), !.torn = t]
<1>1. r \in Links /\ Bounded(r) /\ Modes(r) /\ Accounted(r) /\ Echoed(r) /\ Whole(r) /\ Alone(r) /\ Told(r)
  BY DEF Sound
<1>2. /\ r.incoming \in Seq(Frames) /\ Tail(r.incoming) \in Seq(Frames) /\ Head(r.incoming) = r.incoming[1]
      /\ Len(Tail(r.incoming)) = Len(r.incoming) - 1 /\ Len(r.incoming) \in Nat \ {0}
  <2>1. r.incoming \in Seq(Frames)
    BY <1>1 DEF Links
  <2> QED BY <2>1, TailIs
<1>3. t \in BOOLEAN /\ (r.torn => t) /\ (~t => r.reassembly = <<>> /\ ~Opens(r.incoming[1]))
  <2>1. r.torn \in BOOLEAN
    BY <1>1 DEF Links
  <2>2. Opens(r.incoming[1]) => Head(r.incoming).parts > 1
    BY <1>2 DEF Opens
  <2> QED BY <2>1, <2>2
<1> HIDE DEF t
<1>4. s \in Links
  BY <1>1, <1>2, <1>3 DEF Links
<1>5. /\ s.echoes = r.echoes /\ s.up = r.up /\ s.timedOut = r.timedOut /\ s.mode = r.mode /\ s.wait = r.wait
      /\ s.pending = r.pending /\ s.reply = r.reply /\ s.answer = r.answer /\ s.sent = r.sent /\ s.asked = r.asked
      /\ s.incoming = Tail(r.incoming) /\ s.reassembly = r.reassembly /\ s.station = r.station /\ s.arrived = r.arrived /\ s.delivered = r.delivered
      /\ s.dropped = r.dropped /\ s.events = r.events /\ s.overran = r.overran /\ s.orphaned = r.orphaned /\ s.torn = t
  BY <1>1 DEF Links
<1> HIDE DEF s
<1>6. Bounded(s)
  BY <1>1, <1>2, <1>5 DEF Bounded, Limits
<1>7. Modes(s) /\ Told(s)
  BY <1>1, <1>3, <1>5 DEF Modes, Told
<1>8. Accounted(s)
  BY <1>1, <1>2, <1>5, OtherTaken
<1>9. Echoed(s) /\ Whole(s)
  BY <1>1, <1>3, <1>5, FragmentsLeft
<1>10. Alone(s)
  <2>1. Current(s) = Current(r)
    BY <1>5 DEF Current
  <2>2. Due(r) => Due(s)
    BY <1>1, <1>5, <2>1, DueLeft
  <2> QED BY <1>1, <1>5, <2>2 DEF Alone
<1> QED BY <1>4, <1>6, <1>7, <1>8, <1>9, <1>10 DEF Sound, s, t

\* The link dies.
LEMMA LinkDiesKeeps ==
  ASSUME Limits, NEW r, Sound(r)
  PROVE  Sound([r EXCEPT !.up = FALSE])
<1> DEFINE s == [r EXCEPT !.up = FALSE]
<1>1. r \in Links /\ Bounded(r) /\ Modes(r) /\ Alone(r) /\ Told(r)
  BY DEF Sound
<1>2. s \in Links
  BY <1>1 DEF Links
<1>3. /\ s.echoes = r.echoes /\ s.up = FALSE /\ s.timedOut = r.timedOut /\ s.mode = r.mode /\ s.wait = r.wait
      /\ s.pending = r.pending /\ s.reply = r.reply /\ s.answer = r.answer /\ s.sent = r.sent /\ s.asked = r.asked
      /\ s.incoming = r.incoming /\ s.reassembly = r.reassembly /\ s.station = r.station /\ s.arrived = r.arrived /\ s.delivered = r.delivered
      /\ s.dropped = r.dropped /\ s.events = r.events /\ s.overran = r.overran /\ s.orphaned = r.orphaned /\ s.torn = r.torn
  BY <1>1 DEF Links
<1> HIDE DEF s
<1>4. Modes(s) /\ Told(s) /\ Len(s.events) <= EventQueue
  BY <1>1, <1>3 DEF Bounded, Modes, Told
<1>5. Alone(s)
  <2>1. Current(s) = Current(r)
    BY <1>3 DEF Current
  <2> QED BY <1>1, <1>3, <2>1, SameDue
<1> QED BY <1>2, <1>3, <1>4, <1>5, StillSound DEF s

\* The events are taken.
LEMMA TakeEventsKeeps ==
  ASSUME Limits, NEW r, Sound(r)
  PROVE  Sound([r EXCEPT !.events = <<>>])
<1> DEFINE s == [r EXCEPT !.events = <<>>]
<1>1. r \in Links /\ Bounded(r) /\ Modes(r) /\ Alone(r) /\ Told(r)
  BY DEF Sound
<1>2. s \in Links
  <2>1. <<>> \in Seq(Nat)
    BY EmptySeq
  <2> QED BY <1>1, <2>1 DEF Links
<1>3. /\ s.echoes = r.echoes /\ s.up = r.up /\ s.timedOut = r.timedOut /\ s.mode = r.mode /\ s.wait = r.wait
      /\ s.pending = r.pending /\ s.reply = r.reply /\ s.answer = r.answer /\ s.sent = r.sent /\ s.asked = r.asked
      /\ s.incoming = r.incoming /\ s.reassembly = r.reassembly /\ s.station = r.station /\ s.arrived = r.arrived /\ s.delivered = r.delivered
      /\ s.dropped = r.dropped /\ s.events = <<>> /\ s.overran = r.overran /\ s.orphaned = r.orphaned /\ s.torn = r.torn
  BY <1>1 DEF Links
<1> HIDE DEF s
<1>4. Modes(s) /\ Told(s) /\ Len(s.events) <= EventQueue
  <2>1. Len(<<>>) = 0
    BY EmptySeq
  <2> QED BY <1>1, <1>3, <2>1 DEF Modes, Told, Limits
<1>5. Alone(s)
  <2>1. Current(s) = Current(r)
    BY <1>3 DEF Current
  <2> QED BY <1>1, <1>3, <2>1, SameDue
<1> QED BY <1>2, <1>3, <1>4, <1>5, StillSound DEF s

\* The console waits for an event.
LEMMA WaitForEventKeeps ==
  ASSUME Limits, NEW r, Sound(r), r.mode = "idle", ~r.timedOut, NEW wanted \in SUBSET Nat
  PROVE  Sound([r EXCEPT !.mode = "event", !.wait = wanted])
<1> DEFINE s == [r EXCEPT !.mode = "event", !.wait = wanted]
<1>1. r \in Links /\ Bounded(r) /\ Modes(r) /\ Alone(r) /\ Told(r)
  BY DEF Sound
<1>2. s \in Links
  BY <1>1 DEF Links
<1>3. /\ s.echoes = r.echoes /\ s.up = r.up /\ s.timedOut = r.timedOut /\ s.mode = "event" /\ s.wait = wanted
      /\ s.pending = r.pending /\ s.reply = r.reply /\ s.answer = r.answer /\ s.sent = r.sent /\ s.asked = r.asked
      /\ s.incoming = r.incoming /\ s.reassembly = r.reassembly /\ s.station = r.station /\ s.arrived = r.arrived /\ s.delivered = r.delivered
      /\ s.dropped = r.dropped /\ s.events = r.events /\ s.overran = r.overran /\ s.orphaned = r.orphaned /\ s.torn = r.torn
  BY <1>1 DEF Links
<1> HIDE DEF s
<1>4. Modes(s) /\ Told(s) /\ Len(s.events) <= EventQueue
  BY <1>1, <1>3 DEF Bounded, Modes, Told
<1>5. Alone(s)
  <2>1. Current(s) = Current(r)
    BY <1>3 DEF Current
  <2> QED BY <1>1, <1>3, <2>1, SameDue
<1> QED BY <1>2, <1>3, <1>4, <1>5, StillSound DEF s

\* A call or a wait of the console times out.
LEMMA TimeOutKeeps ==
  ASSUME Limits, NEW r, Sound(r), r.mode # "idle"
  PROVE  Sound([r EXCEPT !.mode = "idle", !.wait = None, !.orphaned = @ \/ r.mode = "call"])
<1> DEFINE o == r.orphaned \/ r.mode = "call"
           s == [r EXCEPT !.mode = "idle", !.wait = None, !.orphaned = o]
<1>1. r \in Links /\ Bounded(r) /\ Modes(r) /\ Alone(r) /\ Told(r)
  BY DEF Sound
<1>0. o \in BOOLEAN /\ (r.orphaned => o) /\ (r.mode = "call" => o)
  BY <1>1 DEF Links
<1> HIDE DEF o
<1>2. s \in Links
  BY <1>0, <1>1 DEF Links
<1>3. /\ s.echoes = r.echoes /\ s.up = r.up /\ s.timedOut = r.timedOut /\ s.mode = "idle" /\ s.wait = None
      /\ s.pending = r.pending /\ s.reply = r.reply /\ s.answer = r.answer /\ s.sent = r.sent /\ s.asked = r.asked
      /\ s.incoming = r.incoming /\ s.reassembly = r.reassembly /\ s.station = r.station /\ s.arrived = r.arrived /\ s.delivered = r.delivered
      /\ s.dropped = r.dropped /\ s.events = r.events /\ s.overran = r.overran /\ s.orphaned = o /\ s.torn = r.torn
  BY <1>1 DEF Links
<1> HIDE DEF s
<1>4. Modes(s) /\ Told(s) /\ Len(s.events) <= EventQueue
  BY <1>0, <1>1, <1>3 DEF Bounded, Modes, Told
<1>5. Alone(s)
  <2>1. r.mode = "call" \/ Current(s) = Current(r)
    BY <1>3 DEF Current
  <2> QED BY <1>0, <1>1, <1>3, <2>1, SameDue
<1> QED BY <1>2, <1>3, <1>4, <1>5, StillSound DEF s, o

\* A call of the panel is given up, and its link with it.
LEMMA RetiredKeeps ==
  ASSUME Limits, NEW r, Sound(r), r.mode = "idle", r.reply = None
  PROVE  Sound([r EXCEPT !.timedOut = TRUE, !.pending = None])
<1> DEFINE marked == [r EXCEPT !.timedOut = TRUE]
           s == [marked EXCEPT !.pending = None]
<1>1. r \in Links /\ Bounded(r) /\ Modes(r) /\ Alone(r) /\ Told(r)
  BY DEF Sound
<1>2. s \in Links
  <2>1. marked \in Links
    BY <1>1, SetTimedOut
  <2> QED BY <2>1, SetPending
<1>3. /\ s.echoes = r.echoes /\ s.up = r.up /\ s.timedOut = TRUE /\ s.mode = r.mode /\ s.wait = r.wait
      /\ s.pending = None /\ s.reply = r.reply /\ s.answer = r.answer /\ s.sent = r.sent /\ s.asked = r.asked
      /\ s.incoming = r.incoming /\ s.reassembly = r.reassembly /\ s.station = r.station /\ s.arrived = r.arrived /\ s.delivered = r.delivered
      /\ s.dropped = r.dropped /\ s.events = r.events /\ s.overran = r.overran /\ s.orphaned = r.orphaned /\ s.torn = r.torn
  BY <1>1 DEF Links
<1> HIDE DEF s
<1>4. Modes(s) /\ Told(s) /\ Len(s.events) <= EventQueue
  BY <1>1, <1>3 DEF Bounded, Modes, Told
<1>5. Alone(s)
  BY <1>1, <1>3, SameDue
<1> QED BY <1>2, <1>3, <1>4, <1>5, StillSound DEF s, marked

\* A call of the panel is called off, and its link with it.
LEMMA CancelledKeeps ==
  ASSUME Limits, NEW r, Sound(r), r.mode = "idle"
  PROVE  Sound([r EXCEPT !.timedOut = TRUE, !.pending = None, !.reply = None])
<1> DEFINE s == [r EXCEPT !.timedOut = TRUE, !.pending = None, !.reply = None]
<1>1. r \in Links /\ Bounded(r) /\ Modes(r) /\ Alone(r) /\ Told(r)
  BY DEF Sound
<1>2. s \in Links
  BY <1>1 DEF Links
<1>3. /\ s.echoes = r.echoes /\ s.up = r.up /\ s.timedOut = TRUE /\ s.mode = r.mode /\ s.wait = r.wait
      /\ s.pending = None /\ s.reply = None /\ s.answer = r.answer /\ s.sent = r.sent /\ s.asked = r.asked
      /\ s.incoming = r.incoming /\ s.reassembly = r.reassembly /\ s.station = r.station /\ s.arrived = r.arrived /\ s.delivered = r.delivered
      /\ s.dropped = r.dropped /\ s.events = r.events /\ s.overran = r.overran /\ s.orphaned = r.orphaned /\ s.torn = r.torn
  BY <1>1 DEF Links
<1> HIDE DEF s
<1>4. Modes(s) /\ Told(s) /\ Len(s.events) <= EventQueue
  BY <1>1, <1>3 DEF Bounded, Modes, Told
<1>5. Alone(s)
  BY <1>1, <1>3, SameDue
<1> QED BY <1>2, <1>3, <1>4, <1>5, StillSound DEF s

\* The panel is given its answer.
LEMMA AnsweredKeeps ==
  ASSUME Limits, NEW r, Sound(r), r.mode = "idle", r.pending # None, r.reply # None
  PROVE  Sound([r EXCEPT !.pending = None, !.reply = None,
                         !.answer = [to |-> r.pending.uid, of |-> r.reply.of, mixed |-> r.reply.mixed]])
<1> DEFINE a == [to |-> r.pending.uid, of |-> r.reply.of, mixed |-> r.reply.mixed]
           s == [r EXCEPT !.pending = None, !.reply = None, !.answer = a]
<1>1. r \in Links /\ Bounded(r) /\ Modes(r) /\ Alone(r) /\ Told(r)
  BY DEF Sound
<1>0. a \in [to : Nat, of : Nat, mixed : BOOLEAN] /\ a.to = r.pending.uid /\ a.of = r.reply.of /\ a.mixed = r.reply.mixed
  BY <1>1 DEF Links, Calls
<1> HIDE DEF a
<1>2. s \in Links
  BY <1>0, <1>1 DEF Links
<1>3. /\ s.echoes = r.echoes /\ s.up = r.up /\ s.timedOut = r.timedOut /\ s.mode = r.mode /\ s.wait = r.wait
      /\ s.pending = None /\ s.reply = None /\ s.answer = a /\ s.sent = r.sent /\ s.asked = r.asked
      /\ s.incoming = r.incoming /\ s.reassembly = r.reassembly /\ s.station = r.station /\ s.arrived = r.arrived /\ s.delivered = r.delivered
      /\ s.dropped = r.dropped /\ s.events = r.events /\ s.overran = r.overran /\ s.orphaned = r.orphaned /\ s.torn = r.torn
  BY <1>1 DEF Links
<1> HIDE DEF s
<1>4. Modes(s) /\ Told(s) /\ Len(s.events) <= EventQueue
  BY <1>0, <1>1, <1>3 DEF Bounded, Modes, Told
<1>5. Alone(s)
  <2>1. Current(s) = Current(r)
    BY <1>3 DEF Current
  <2> QED BY <1>1, <1>3, <2>1, SameDue
<1> QED BY <1>2, <1>3, <1>4, <1>5, StillSound DEF s, a

\* The panel begins a call.
LEMMA BeginCallKeeps ==
  ASSUME Limits, NEW r, Sound(r), r.mode = "idle", ~r.timedOut, r.pending = None,
         NEW call \in Calls, call # None
  PROVE  Sound([r EXCEPT !.sent = r.sent + 1, !.asked = Append(@, call), !.answer = None, !.reply = None, !.pending = call])
<1> DEFINE asked == Append(r.asked, call)
           counted == [r EXCEPT !.sent = r.sent + 1]
           queued == [counted EXCEPT !.asked = asked]
           asking == [queued EXCEPT !.answer = None]
           emptied == [asking EXCEPT !.reply = None]
           s == [emptied EXCEPT !.pending = call]
<1>1. r \in Links /\ Bounded(r) /\ Modes(r) /\ Alone(r) /\ Told(r)
  BY DEF Sound
<1>2. s \in Links /\ Len(asked) = Len(r.asked) + 1 /\ Len(r.asked) \in Nat /\ asked[Len(r.asked) + 1] = call
  <2>1. r.asked \in Seq(Calls) /\ r.sent + 1 \in Nat
    BY <1>1 DEF Links
  <2>2. /\ asked \in Seq(Calls) /\ Len(asked) = Len(r.asked) + 1 /\ Len(r.asked) \in Nat
        /\ asked[Len(r.asked) + 1] = call
    BY <2>1, AppendIs
  <2> HIDE DEF asked
  <2>3. counted \in Links
    BY <1>1, <2>1, SetSent
  <2>4. queued \in Links
    BY <2>2, <2>3, SetAsked
  <2>5. asking \in Links
    BY <2>4, SetAnswer
  <2>6. emptied \in Links
    BY <2>5, SetReply
  <2>7. s \in Links
    BY <2>6, SetPending
  <2> QED BY <2>2, <2>7
<1> HIDE DEF asked
<1>3. /\ s.echoes = r.echoes /\ s.up = r.up /\ s.timedOut = r.timedOut /\ s.mode = r.mode /\ s.wait = r.wait
      /\ s.pending = call /\ s.reply = None /\ s.answer = None /\ s.sent = r.sent + 1 /\ s.asked = asked
      /\ s.incoming = r.incoming /\ s.reassembly = r.reassembly /\ s.station = r.station /\ s.arrived = r.arrived /\ s.delivered = r.delivered
      /\ s.dropped = r.dropped /\ s.events = r.events /\ s.overran = r.overran /\ s.orphaned = r.orphaned /\ s.torn = r.torn
  BY <1>1 DEF Links
<1> HIDE DEF s
<1>4. Modes(s) /\ Told(s) /\ Len(s.events) <= EventQueue
  BY <1>1, <1>3 DEF Bounded, Modes, Told
<1>5. Alone(s)
  <2> SUFFICES ASSUME ~s.echoes, ~s.orphaned, ~s.timedOut PROVE Due(s)
    BY DEF Alone
  <2>1. Due(r) /\ Current(r) = {} /\ Current(s) = {call.uid}
    BY <1>1, <1>3 DEF Alone, Current
  <2>2. /\ Len(r.asked) <= 1 /\ \A i \in 1 .. Len(r.asked) : FALSE
        /\ Starts(r.incoming) = {} /\ Starts(r.reassembly) = {}
    BY <2>1 DEF Due
  <2>3. Len(r.asked) = 0
    <3>1. ASSUME Len(r.asked) # 0 PROVE 1 \in 1 .. Len(r.asked)
      BY <1>2, <3>1
    <3> QED BY <2>2, <3>1
  <2>4. Len(s.asked) = 1 /\ s.asked[1] = call
    BY <1>2, <1>3, <2>3
  <2>5. \A i \in 1 .. Len(s.asked) : s.asked[i].uid \in Current(s)
    BY <2>1, <2>4
  <2>6. Starts(s.incoming) = {} /\ Starts(s.reassembly) = {} /\ Len(s.asked) <= 1
    BY <1>3, <2>2, <2>4
  <2> QED BY <2>5, <2>6 DEF Due
<1> QED BY <1>2, <1>3, <1>4, <1>5, StillSound DEF s, asking, asked

\* The console makes a call.
LEMMA CallKeeps ==
  ASSUME Limits, NEW r, Sound(r), r.mode = "idle", ~r.timedOut, r.pending = None,
         NEW call \in Calls, call # None
  PROVE  Sound([r EXCEPT !.sent = r.sent + 1, !.asked = Append(@, call), !.answer = None, !.mode = "call", !.wait = call])
<1> DEFINE asked == Append(r.asked, call)
           counted == [r EXCEPT !.sent = r.sent + 1]
           queued == [counted EXCEPT !.asked = asked]
           asking == [queued EXCEPT !.answer = None]
           calling == [asking EXCEPT !.mode = "call"]
           s == [calling EXCEPT !.wait = call]
<1>1. r \in Links /\ Bounded(r) /\ Modes(r) /\ Alone(r) /\ Told(r)
  BY DEF Sound
<1>2. s \in Links /\ Len(asked) = Len(r.asked) + 1 /\ Len(r.asked) \in Nat /\ asked[Len(r.asked) + 1] = call
  <2>1. r.asked \in Seq(Calls) /\ r.sent + 1 \in Nat
    BY <1>1 DEF Links
  <2>2. /\ asked \in Seq(Calls) /\ Len(asked) = Len(r.asked) + 1 /\ Len(r.asked) \in Nat
        /\ asked[Len(r.asked) + 1] = call
    BY <2>1, AppendIs
  <2> HIDE DEF asked
  <2>3. counted \in Links
    BY <1>1, <2>1, SetSent
  <2>4. queued \in Links
    BY <2>2, <2>3, SetAsked
  <2>5. asking \in Links
    BY <2>4, SetAnswer
  <2>6. calling \in Links
    BY <2>5, SetMode
  <2>7. s \in Links
    BY <2>6, SetWait
  <2> QED BY <2>2, <2>7
<1> HIDE DEF asked
<1>3. /\ s.echoes = r.echoes /\ s.up = r.up /\ s.timedOut = r.timedOut /\ s.mode = "call" /\ s.wait = call
      /\ s.pending = r.pending /\ s.reply = r.reply /\ s.answer = None /\ s.sent = r.sent + 1 /\ s.asked = asked
      /\ s.incoming = r.incoming /\ s.reassembly = r.reassembly /\ s.station = r.station /\ s.arrived = r.arrived /\ s.delivered = r.delivered
      /\ s.dropped = r.dropped /\ s.events = r.events /\ s.overran = r.overran /\ s.orphaned = r.orphaned /\ s.torn = r.torn
  BY <1>1 DEF Links
<1> HIDE DEF s
<1>4. Modes(s) /\ Told(s) /\ Len(s.events) <= EventQueue
  BY <1>1, <1>3 DEF Bounded, Modes, Told
<1>5. Alone(s)
  <2> SUFFICES ASSUME ~s.echoes, ~s.orphaned, ~s.timedOut PROVE Due(s)
    BY DEF Alone
  <2>1. Due(r) /\ Current(r) = {} /\ Current(s) = {call.uid}
    BY <1>1, <1>3 DEF Alone, Current
  <2>2. /\ Len(r.asked) <= 1 /\ \A i \in 1 .. Len(r.asked) : FALSE
        /\ Starts(r.incoming) = {} /\ Starts(r.reassembly) = {}
    BY <2>1 DEF Due
  <2>3. Len(r.asked) = 0
    <3>1. ASSUME Len(r.asked) # 0 PROVE 1 \in 1 .. Len(r.asked)
      BY <1>2, <3>1
    <3> QED BY <2>2, <3>1
  <2>4. Len(s.asked) = 1 /\ s.asked[1] = call
    BY <1>2, <1>3, <2>3
  <2>5. \A i \in 1 .. Len(s.asked) : s.asked[i].uid \in Current(s)
    BY <2>1, <2>4
  <2>6. Starts(s.incoming) = {} /\ Starts(s.reassembly) = {} /\ Len(s.asked) <= 1
    BY <1>3, <2>2, <2>4
  <2> QED BY <2>5, <2>6 DEF Due
<1> QED BY <1>2, <1>3, <1>4, <1>5, StillSound DEF s, asking, asked

\* The queue of the station is emptied.
LEMMA DiscardKeeps ==
  ASSUME Limits, NEW r, Sound(r)
  PROVE  Sound([r EXCEPT !.station = <<>>, !.dropped = r.dropped + Len(r.station)])
<1> DEFINE s == [r EXCEPT !.station = <<>>, !.dropped = r.dropped + Len(r.station)]
<1>1. r \in Links /\ Bounded(r) /\ Modes(r) /\ Accounted(r) /\ Echoed(r) /\ Whole(r) /\ Alone(r) /\ Told(r)
  BY DEF Sound
<1>2. /\ r.station \in Seq(Nat) /\ Len(r.station) \in Nat /\ r.delivered \in Nat /\ r.dropped \in Nat
      /\ r.arrived \in Nat
  BY <1>1 DEF Links
<1>3. <<>> \in Seq(Nat) /\ Len(<<>>) = 0
  BY EmptySeq
<1>4. s \in Links
  <2>1. r.dropped + Len(r.station) \in Nat
    BY <1>2
  <2> QED BY <1>1, <1>3, <2>1 DEF Links
<1>5. /\ s.echoes = r.echoes /\ s.up = r.up /\ s.timedOut = r.timedOut /\ s.mode = r.mode /\ s.wait = r.wait
      /\ s.pending = r.pending /\ s.reply = r.reply /\ s.answer = r.answer /\ s.sent = r.sent /\ s.asked = r.asked
      /\ s.incoming = r.incoming /\ s.reassembly = r.reassembly /\ s.station = <<>> /\ s.arrived = r.arrived /\ s.delivered = r.delivered
      /\ s.dropped = r.dropped + Len(r.station) /\ s.events = r.events /\ s.overran = r.overran /\ s.orphaned = r.orphaned /\ s.torn = r.torn
  BY <1>1 DEF Links
<1> HIDE DEF s
<1>6. Bounded(s) /\ Modes(s) /\ Told(s)
  <2>1. Len(s.station) <= StationQueue
    BY <1>1, <1>2, <1>3, <1>5 DEF Bounded, Limits
  <2> QED BY <1>1, <1>5, <2>1 DEF Bounded, Modes, Told
<1>7. Accounted(s)
  <2>1. s.delivered + s.dropped + Len(s.station) = r.delivered + r.dropped + Len(r.station)
    BY <1>2, <1>3, <1>5
  <2>2. \A i \in 1 .. Len(s.station) : s.station[i] = s.delivered + s.dropped + i
    BY <1>3, <1>5
  <2> HIDE DEF s
  <2> QED BY <1>1, <1>5, <2>1, <2>2 DEF Accounted
<1>8. Echoed(s) /\ Whole(s)
  BY <1>1, <1>5, SameFragments
<1>9. Alone(s)
  <2>1. Current(s) = Current(r)
    BY <1>5 DEF Current
  <2> QED BY <1>1, <1>5, <2>1, SameDue
<1> QED BY <1>4, <1>6, <1>7, <1>8, <1>9 DEF Sound, s

\* The network stack takes the oldest frame of the station.
LEMMA OneTaken ==
  \A d, e, n, m, x, y \in Nat : n # 0 /\ m = n - 1 /\ x = d + 1 /\ y = e =>
      /\ x + y + m = d + e + n
      /\ \A i \in 1 .. m : i + 1 \in 1 .. n /\ d + e + (i + 1) = x + y + i
OBVIOUS

LEMMA TakeStationFrameKeeps ==
  ASSUME Limits, NEW r, Sound(r), r.station # <<>>
  PROVE  Sound([r EXCEPT !.station = Tail(r.station), !.delivered = r.delivered + 1])
<1> DEFINE s == [r EXCEPT !.station = Tail(r.station), !.delivered = r.delivered + 1]
<1>1. r \in Links /\ Bounded(r) /\ Modes(r) /\ Accounted(r) /\ Echoed(r) /\ Whole(r) /\ Alone(r) /\ Told(r)
  BY DEF Sound
<1>2. /\ r.station \in Seq(Nat) /\ Len(r.station) \in Nat /\ r.delivered \in Nat /\ r.dropped \in Nat
      /\ r.arrived \in Nat
  BY <1>1 DEF Links
<1>3. /\ Tail(r.station) \in Seq(Nat) /\ Len(Tail(r.station)) = Len(r.station) - 1 /\ Len(r.station) # 0
      /\ \A i \in 1 .. Len(Tail(r.station)) : Tail(r.station)[i] = r.station[i + 1]
  BY <1>2, TailIs
<1>4. s \in Links
  <2>1. r.delivered + 1 \in Nat
    BY <1>2
  <2> QED BY <1>1, <1>3, <2>1 DEF Links
<1>5. /\ s.echoes = r.echoes /\ s.up = r.up /\ s.timedOut = r.timedOut /\ s.mode = r.mode /\ s.wait = r.wait
      /\ s.pending = r.pending /\ s.reply = r.reply /\ s.answer = r.answer /\ s.sent = r.sent /\ s.asked = r.asked
      /\ s.incoming = r.incoming /\ s.reassembly = r.reassembly /\ s.station = Tail(r.station) /\ s.arrived = r.arrived /\ s.delivered = r.delivered + 1
      /\ s.dropped = r.dropped /\ s.events = r.events /\ s.overran = r.overran /\ s.orphaned = r.orphaned /\ s.torn = r.torn
  BY <1>1 DEF Links
<1> HIDE DEF s
<1>6. Bounded(s) /\ Modes(s) /\ Told(s)
  <2>1. Len(s.station) <= StationQueue
    BY <1>1, <1>2, <1>3, <1>5 DEF Bounded, Limits
  <2> QED BY <1>1, <1>5, <2>1 DEF Bounded, Modes, Told
<1>7. Accounted(s)
  <2>0. s.delivered = r.delivered + 1 /\ s.dropped = r.dropped /\ Len(s.station) = Len(r.station) - 1
    BY <1>3, <1>5
  <2>4. /\ s.delivered \in Nat /\ s.dropped \in Nat /\ Len(s.station) \in Nat /\ Len(r.station) # 0
         /\ Len(r.station) \in Nat /\ r.delivered \in Nat /\ r.dropped \in Nat
    <3>1. s.station \in Seq(Nat)
      BY <1>3, <1>5
    <3> QED BY <1>2, <1>3, <2>0, <3>1
  <2>1. s.delivered + s.dropped + Len(s.station) = r.delivered + r.dropped + Len(r.station)
    BY <2>0, <2>4, OneTaken
  <2>2. \A i \in 1 .. Len(s.station) : s.station[i] = s.delivered + s.dropped + i
    <3>1. \A i \in 1 .. Len(r.station) : r.station[i] = r.delivered + r.dropped + i
      BY <1>1 DEF Accounted
    <3>2. \A i \in 1 .. Len(s.station) :
             /\ i + 1 \in 1 .. Len(r.station)
             /\ r.delivered + r.dropped + (i + 1) = s.delivered + s.dropped + i
      BY <2>0, <2>4, OneTaken
    <3> QED BY <1>3, <1>5, <3>1, <3>2
  <2> HIDE DEF s
  <2> QED BY <1>1, <1>5, <2>1, <2>2 DEF Accounted
<1>8. Echoed(s) /\ Whole(s)
  BY <1>1, <1>5, SameFragments
<1>9. Alone(s)
  <2>1. Current(s) = Current(r)
    BY <1>5 DEF Current
  <2> QED BY <1>1, <1>5, <2>1, SameDue
<1> QED BY <1>4, <1>6, <1>7, <1>8, <1>9 DEF Sound, s

LEMMA RequestKeeps ==
  ASSUME Limits, IInv, NEW id \in Ids, BeginCall(id) \/ Call(id)
  PROVE  IInv'
<1> DEFINE call == [id |-> id, uid |-> rpc.sent + 1]
<1>1. Sound(rpc) /\ rpc \in Links /\ rpc.mode = "idle" /\ ~rpc.timedOut /\ rpc.pending = None
  BY DEF IInv, Sound, BeginCall, Call, MayRequest, Alive
<1>2. call \in Calls /\ call # None
  <2>1. rpc.sent + 1 \in Nat \ {0}
    BY <1>1 DEF Links
  <2> QED BY <2>1 DEF Calls, Limits
<1> HIDE DEF call
<1>3. CASE BeginCall(id)
  <2> DEFINE s == [rpc EXCEPT !.sent = @ + 1, !.asked = Append(@, call), !.answer = None,
                              !.reply = None, !.pending = call]
  <2>1. rpc' = s
    BY <1>1, <1>3 DEF BeginCall, Requested, Links, call
  <2>2. Sound(s)
    BY <1>1, <1>2, BeginCallKeeps
  <2> QED BY <2>1, <2>2 DEF IInv
<1>4. CASE Call(id)
  <2> DEFINE s == [rpc EXCEPT !.sent = @ + 1, !.asked = Append(@, call), !.answer = None,
                              !.mode = "call", !.wait = call]
  <2>1. rpc' = s
    BY <1>1, <1>4 DEF Call, Requested, Links, call
  <2>2. Sound(s)
    BY <1>1, <1>2, CallKeeps
  <2> QED BY <2>1, <2>2 DEF IInv
<1> QED BY <1>3, <1>4

LEMMA PollCallKeeps ==
  ASSUME Limits, IInv, PollCall
  PROVE  IInv'
<1>1. Sound(rpc) /\ rpc.mode = "idle" /\ rpc.pending # None
  BY DEF IInv, PollCall
<1>2. CASE rpc.reply # None
  <2>1. rpc' = [rpc EXCEPT !.pending = None, !.reply = None,
                           !.answer = [to |-> rpc.pending.uid, of |-> rpc.reply.of, mixed |-> rpc.reply.mixed]]
    BY <1>2 DEF PollCall
  <2> QED BY <1>1, <1>2, <2>1, AnsweredKeeps DEF IInv
<1>3. CASE rpc.reply = None
  <2>1. rpc' = rpc \/ rpc' = Retired(rpc)
    BY <1>3 DEF PollCall
  <2>2. Sound(Retired(rpc))
    BY <1>1, <1>3, RetiredKeeps DEF Retired
  <2> QED BY <1>1, <2>1, <2>2 DEF IInv
<1> QED BY <1>2, <1>3

LEMMA NextKeeps ==
  ASSUME Limits, IInv, [Next]_rpc
  PROVE  IInv'
<1>1. Sound(rpc) /\ rpc \in Links
  BY DEF IInv, Sound
<1>2. ASSUME NEW parts \in 1 .. 2, Answer(parts) PROVE IInv'
  BY <1>1, <1>2, AnswerKeeps DEF Answer, IInv
<1>3. CASE Raise
  BY <1>1, <1>3, RaiseKeeps DEF Raise, IInv
<1>4. CASE StationFrame
  BY <1>1, <1>4, StationFrameKeeps DEF StationFrame, IInv
<1>5. CASE LoseFrame
  BY <1>1, <1>5, LoseFrameKeeps DEF LoseFrame, IInv
<1>6. CASE LinkDies
  BY <1>1, <1>6, LinkDiesKeeps DEF LinkDies, IInv
<1>7. CASE Service
  BY <1>1, <1>7, ServicedSound DEF Service, IInv
<1>8. CASE Discard
  <2> DEFINE served == Serviced(rpc)
  <2>1. Sound(served)
    BY <1>1, ServicedSound
  <2>2. rpc' = [served EXCEPT !.station = <<>>, !.dropped = @ + Len(served.station)]
    BY <1>8 DEF Discard
  <2> HIDE DEF served
  <2> QED BY <2>1, <2>2, DiscardKeeps DEF IInv
<1>9. CASE TakeStationFrame
  BY <1>1, <1>9, TakeStationFrameKeeps DEF TakeStationFrame, IInv
<1>10. CASE TakeEvents
  BY <1>1, <1>10, TakeEventsKeeps DEF TakeEvents, IInv
<1>11. ASSUME NEW id \in Ids, BeginCall(id) \/ Call(id) PROVE IInv'
  BY <1>11, RequestKeeps
<1>12. CASE PollCall
  BY <1>12, PollCallKeeps
<1>13. CASE CancelCall
  <2>1. rpc.mode = "idle" /\ rpc' = [rpc EXCEPT !.timedOut = TRUE, !.pending = None, !.reply = None]
    BY <1>1, <1>13 DEF CancelCall, Cancelled, Retired, Links
  <2> QED BY <1>1, <2>1, CancelledKeeps DEF IInv
<1>14. ASSUME NEW wanted \in (SUBSET (1 .. MaxEvents)) \ {{}}, WaitForEvent(wanted) PROVE IInv'
  <2>1. wanted \in SUBSET Nat
    OBVIOUS
  <2> QED BY <1>1, <1>14, <2>1, WaitForEventKeeps DEF WaitForEvent, Alive, IInv
<1>15. CASE Blocked
  BY <1>1, <1>15, CollectSound DEF Blocked, IInv
<1>16. CASE TimeOut
  BY <1>1, <1>16, TimeOutKeeps DEF TimeOut, IInv
<1>17. CASE Renew
  <2>1. rpc.echoes \in BOOLEAN
    BY <1>1 DEF Links
  <2> QED BY <1>17, <2>1, FreshSound DEF Renew, IInv
<1>18. CASE UNCHANGED rpc
  BY <1>1, <1>18 DEF IInv
<1> QED BY <1>2, <1>3, <1>4, <1>5, <1>6, <1>7, <1>8, <1>9, <1>10, <1>11, <1>12, <1>13, <1>14,
           <1>15, <1>16, <1>17, <1>18 DEF Next

---------------------------------------------------------------------------
(* The theorems *)

(* The inductive invariant: calls, answers, fragments and station frames,  *)
(* whatever is lost, late, given up or brought up again.                   *)
THEOREM Inductive == ASSUME Limits PROVE Spec => []IInv
<1>1. ASSUME Init PROVE IInv
  BY <1>1, FreshSound DEF Init, IInv
<1>2. ASSUME IInv, [Next]_rpc PROVE IInv'
  BY <1>2, NextKeeps
<1> QED BY <1>1, <1>2, PTL DEF Spec

(* The queues keep their bounds and one call is under way at a time.       *)
THEOREM TypeCorrect == ASSUME Limits PROVE Spec => []TypeOK
<1>1. ASSUME IInv PROVE TypeOK
  BY <1>1 DEF IInv, Sound, Links, Bounded, Modes, TypeOK
<1> QED BY <1>1, Inductive, PTL

(* Whoever is given an answer asked for it.                                *)
THEOREM AnswersAreMatched == ASSUME Limits PROVE Spec => []AnswersMatch
<1>1. ASSUME IInv PROVE AnswersMatch
  BY <1>1 DEF IInv, Sound, Told, AnswersMatch
<1> QED BY <1>1, Inductive, PTL

(* An answer is mixed from two messages only after a fragment was lost.    *)
THEOREM FragmentsStayTogether == ASSUME Limits PROVE Spec => []FragmentsBelongTogether
<1>1. ASSUME IInv PROVE FragmentsBelongTogether
  BY <1>1 DEF IInv, Sound, Told, FragmentsBelongTogether
<1> QED BY <1>1, Inductive, PTL

(* No station frame is lost without being counted, repeated or overtaken.  *)
THEOREM FramesAreAccounted == ASSUME Limits PROVE Spec => []FramesAccounted
<1>1. ASSUME IInv PROVE FramesAccounted
  BY <1>1 DEF IInv, Sound, Accounted, FramesAccounted
<1> QED BY <1>1, Inductive, PTL

(* Servicing the link never overruns the station's queue.                  *)
THEOREM ServicingIsHeldBack == ASSUME Limits PROVE Spec => []ServicingHoldsBack
<1>1. ASSUME IInv PROVE ServicingHoldsBack
  BY <1>1 DEF IInv, Sound, Bounded, ServicingHoldsBack
<1> QED BY <1>1, Inductive, PTL
=============================================================================
