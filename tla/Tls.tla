--------------------------------- MODULE Tls ---------------------------------
(***************************************************************************)
(* net/tls.rs: one TLS connection of the frame loop.  A future runs the    *)
(* library's engine between four queues; Poll fills the inbound one from   *)
(* the socket, steps the future once and drains the outbound one.          *)
(*                                                                         *)
(* The peer sends records of Pieces pieces: its certificate, the signature *)
(* over the handshake, Finished, data and a close_notify.  A record can be *)
(* decrypted when it is whole.  The library is external: it is what run    *)
(* sees of it.  A step of the future runs to the next place it yields.     *)
(***************************************************************************)
EXTENDS Integers, Sequences

CONSTANTS Peers,      \* [signs, finishes : BOOLEAN, key, says : sequence of records]
          Policies,   \* [pins : set of keys, required : BOOLEAN]
          Pieces, Budgets, RxSpace, CipherTxCap, PlainRxCap, MaxRequest, None

VARIABLE tls

Finished(t) == t.state \in {"complete", "failed"}
Fail(t, error) == [t EXCEPT !.state = "failed", !.error = error]

---------------------------------------------------------------------------
(* The verifier. *)

Refuse(t, outcome, error) == [t EXCEPT !.outcome = outcome, !.result = error]

\* The leaf's key is held against the pins before it has signed anything.
VerifyCertificate(t) ==
  IF t.policy.pins = {}
  THEN IF t.policy.required THEN Refuse(t, "PinMissing", "InvalidCertificate")
       ELSE [t EXCEPT !.pending = "Unverified", !.at = "verify"]
  ELSE IF t.peer.key \in t.policy.pins THEN [t EXCEPT !.pending = "Pinned", !.at = "verify"]
       ELSE Refuse(t, "PinMismatch", "InvalidCertificate")

VerifySignature(t) ==
  IF t.peer.signs THEN [t EXCEPT !.outcome = t.pending, !.at = "finished"]
  ELSE Refuse(t, "BadCertificate", "InvalidSignature")

---------------------------------------------------------------------------
(* The future. *)

Yield(t) == [t EXCEPT !.yielded = TRUE]

\* Io::read: what has come, within the budget of this poll; the end is only
\* the end once the queue is empty.
ReadIo(t) ==
  CASE t.cipherRx /= <<>> /\ t.budget > 0 ->
         [t EXCEPT !.record = Append(@, Head(t.cipherRx)), !.cipherRx = Tail(@), !.budget = @ - 1]
    [] t.closed /\ t.cipherRx = <<>>      -> [t EXCEPT !.eof = TRUE, !.result = "IoError"]
    [] OTHER                              -> Yield(t)

\* Io::write takes a record when the queue is below its limit.
WriteIo(t, record, next) ==
  IF Len(t.cipherTx) < CipherTxCap THEN [t EXCEPT !.cipherTx = Append(@, record), !.at = next] ELSE Yield(t)

\* A whole record, taken as what the phase expects; anything else is an error
\* of the library's.
HandshakeRecord(t) ==
  LET name == t.record[1] u == [t EXCEPT !.record = <<>>]
  IN  CASE name = "alert"                         -> [u EXCEPT !.result = "HandshakeAborted"]
        [] t.at = "cert" /\ name = "cert"         -> VerifyCertificate(u)
        [] t.at = "verify" /\ name = "verify"     -> VerifySignature(u)
        [] t.at = "finished" /\ name = "finished" ->
             IF t.peer.finishes THEN [u EXCEPT !.at = "reply"] ELSE [u EXCEPT !.result = "Bad"]
        [] OTHER                                  -> [u EXCEPT !.result = "Bad"]

\* A close_notify ends the response in order; data goes to the caller.
ResponseRecord(t) ==
  LET name == t.record[1] u == [t EXCEPT !.record = <<>>]
  IN  CASE name = "notify" -> [u EXCEPT !.result = "Ok"]
        [] name = "alert"  -> [u EXCEPT !.result = "HandshakeAborted"]
        [] OTHER           -> [u EXCEPT !.plainRx = Append(@, name)]

\* A transport at its end and one that broke reach the library alike.
EndOfTransport(t) == [t EXCEPT !.quiet = t.eof, !.result = IF t.eof THEN "Ok" ELSE "IoError"]

\* One step of run.
Advance(t) ==
  CASE t.at = "hello" -> WriteIo(t, "hello", "cert")
    [] t.at \in {"cert", "verify", "finished"} /\ Len(t.record) < Pieces -> ReadIo(t)
    [] t.at \in {"cert", "verify", "finished"} /\ Len(t.record) = Pieces -> HandshakeRecord(t)
    [] t.at = "reply" -> LET u == WriteIo(t, "finished", "request") IN IF u.yielded THEN u ELSE [u EXCEPT !.done = TRUE]
    [] t.at = "request" ->
         CASE t.plainTx /= <<>>                      -> [t EXCEPT !.held = @ \o t.plainTx, !.plainTx = <<>>]
           [] t.plainTx = <<>> /\ t.requestComplete  -> [t EXCEPT !.at = "flush"]
           [] OTHER                                  -> Yield(t)
    [] t.at = "flush" -> LET u == WriteIo(t, t.held, "response") IN IF u.yielded THEN u ELSE [u EXCEPT !.held = <<>>]
    [] t.at = "response" /\ t.record = <<>> /\ Len(t.plainRx) >= PlainRxCap -> Yield(t)
    [] t.at = "response" /\ Len(t.record) = Pieces -> ResponseRecord(t)
    [] OTHER -> LET u == ReadIo(t) IN IF u.result = "IoError" THEN EndOfTransport(u) ELSE u

RECURSIVE Run(_)
Run(t) == IF t.yielded \/ t.result /= None THEN t ELSE Run(Advance(t))

\* Both conditions: the signature is checked before Finished is.
NoteOutcome(t) ==
  IF t.authentication = None /\ t.done /\ t.outcome \in {"Unverified", "Pinned"}
  THEN [t EXCEPT !.authentication = t.outcome] ELSE t

\* The verifier's own conclusion wins over the library's word for it.
Classify(t) ==
  LET verdicts == [PinMismatch |-> "Pin", PinMissing |-> "PinMissing", BadCertificate |-> "Certificate"]
  IN  IF t.outcome \in DOMAIN verdicts THEN verdicts[t.outcome]
      ELSE CASE t.result = "HandshakeAborted" -> "Alert"
             [] t.result = "IoError"          -> "Connect"
             [] OTHER                         -> "Local"

StepEngine(t) == IF t.result /= None THEN t ELSE NoteOutcome(Run([t EXCEPT !.yielded = FALSE]))

---------------------------------------------------------------------------
(* The pump. *)

Least(a, b) == IF a < b THEN a ELSE b

\* The peer is gone for the socket when nothing is left to receive.
FillFromSocket(t, budget) ==
  LET count == Least(budget, Len(t.rx))
  IN  [t EXCEPT !.cipherRx = @ \o SubSeq(t.rx, 1, count), !.rx = SubSeq(@, count + 1, Len(@)), !.budget = budget,
                !.closed = @ \/ (t.socket \in {"fin", "reset"} /\ count = Len(t.rx))]

\* What the socket does not take goes back to the front of the queue.
DrainToSocket(t, room) ==
  [t EXCEPT !.sent = @ \o SubSeq(t.cipherTx, 1, room), !.cipherTx = SubSeq(@, room + 1, Len(@))]

\* What a poll makes of the step: an error, a connection idle too long, the
\* handshake just finished, or an end once the caller has taken everything.
Judged(before, t, moved, late) ==
  LET authenticated == before.authentication = None /\ t.authentication /= None
  IN  IF t.result \notin {None, "Ok"} /\ before.result = None THEN Fail(t, Classify(t))
      ELSE IF ~moved /\ t.plainRx = <<>> /\ late THEN Fail(t, "TimedOut")
      ELSE IF ~authenticated /\ t.result /= None /\ t.plainRx = <<>> THEN [t EXCEPT !.state = "complete"]
      ELSE t

Pumped(before, t, budget, room, late) ==
  LET filled == FillFromSocket(t, budget)
      stepped == StepEngine(filled)
      count == IF t.socket = "reset" THEN 0 ELSE Least(room, Len(stepped.cipherTx))
  IN  Judged(before, DrainToSocket(stepped, count), filled.cipherRx /= t.cipherRx \/ count > 0, late)

Poll(budget, room, late) ==
  /\ ~Finished(tls) /\ ~tls.gone
  /\ tls' = IF tls.state = "connecting" /\ tls.socket \notin {"open", "fin"}
            THEN IF late THEN Fail(tls, "Connect") ELSE tls
            ELSE Pumped(tls, [tls EXCEPT !.state = "running"], budget, room, late)

\* The stack loses the coprocessor's link.
LoseLink == ~Finished(tls) /\ ~tls.gone /\ tls' = Fail(tls, "LinkLost")

---------------------------------------------------------------------------
(* The caller. *)

Write ==
  /\ ~tls.requestComplete /\ tls.asked < MaxRequest /\ ~tls.gone
  /\ tls' = [tls EXCEPT !.plainTx = Append(@, tls.asked + 1), !.asked = @ + 1]
FinishRequest == ~tls.requestComplete /\ ~tls.gone /\ tls' = [tls EXCEPT !.requestComplete = TRUE]
Read == tls.plainRx /= <<>> /\ ~tls.gone /\ tls' = [tls EXCEPT !.taken = Append(@, Head(tls.plainRx)), !.plainRx = Tail(@)]
\* The future is dropped with everything it held.
Cancel == ~Finished(tls) /\ ~tls.gone /\ tls' = Fail([tls EXCEPT !.result = "IoError"], "Cancelled")
Close == Finished(tls) /\ ~tls.gone /\ tls' = [tls EXCEPT !.gone = TRUE, !.socket = "reset", !.rx = <<>>]

---------------------------------------------------------------------------
(* The peer. *)

Accept == tls.socket = "connecting" /\ tls' = [tls EXCEPT !.socket = "open"]
\* It answers the hello, and sends data once it has the client's Finished.
PeerSends ==
  /\ tls.socket = "open" /\ tls.script /= <<>> /\ Len(tls.rx) < RxSpace
  /\ Len(tls.sent) >= IF Head(tls.script) \in {"cert", "verify", "finished", "alert"} THEN 1 ELSE 2
  /\ tls' = [tls EXCEPT !.rx = Append(@, Head(tls.script)), !.script = Tail(@)]
PeerShuts == tls.socket = "open" /\ tls' = [tls EXCEPT !.socket = "fin"]
\* A reset refuses the connection or breaks it.
PeerResets == tls.socket \in {"connecting", "open", "fin"} /\ tls' = [tls EXCEPT !.socket = "reset"]

---------------------------------------------------------------------------

RECURSIVE Wire(_)
Wire(records) ==
  IF records = <<>> THEN <<>> ELSE [i \in 1 .. Pieces |-> Head(records)] \o Wire(Tail(records))

\* start seeds the engine before a socket is opened.
Init ==
  \E peer \in Peers, policy \in Policies :
    tls = [state |-> "connecting", error |-> None, at |-> "hello", result |-> None, yielded |-> FALSE,
           socket |-> "connecting", rx |-> <<>>, script |-> Wire(peer.says), peer |-> peer, policy |-> policy,
           cipherRx |-> <<>>, cipherTx |-> <<>>, plainRx |-> <<>>, plainTx |-> <<>>, record |-> <<>>, held |-> <<>>,
           budget |-> 0, closed |-> FALSE, eof |-> FALSE, quiet |-> FALSE, done |-> FALSE, requestComplete |-> FALSE,
           outcome |-> None, pending |-> None, authentication |-> None, asked |-> 0, taken |-> <<>>, sent |-> <<>>,
           gone |-> FALSE]

Next ==
  \/ \E budget \in Budgets, room \in 0 .. 1, late \in BOOLEAN : Poll(budget, room, late)
  \/ LoseLink \/ Write \/ FinishRequest \/ Read \/ Cancel \/ Close
  \/ Accept \/ PeerSends \/ PeerShuts \/ PeerResets

Spec == Init /\ [][Next]_tls

----------------------------------------------------------------------------
(* Properties *)

TypeOK ==
  /\ tls.state \in {"connecting", "running", "complete", "failed"}
  /\ Len(tls.cipherTx) <= CipherTxCap /\ Len(tls.plainRx) <= PlainRxCap /\ Len(tls.record) <= Pieces
  /\ (tls.error /= None) = (tls.state = "failed")

IsData(record) == record \notin {"cert", "verify", "finished", "alert", "notify"}
DataOf(records) == SelectSeq(records, IsData)
Begins(short, long) == Len(short) <= Len(long) /\ short = SubSeq(long, 1, Len(short))

\* The caller is told who is on the other end only of a peer that signed with
\* the key it showed and finished the handshake: a pinned one when the host has
\* pins, and never an unverified one where a pin is required.
AuthenticationIsEarned ==
  tls.authentication /= None =>
    /\ tls.peer.signs /\ tls.peer.finishes /\ tls.done
    /\ tls.authentication = "Pinned" => tls.peer.key \in tls.policy.pins
    /\ tls.authentication = "Unverified" => tls.policy.pins = {} /\ ~tls.policy.required

\* The caller gets what the peer's application sent, in order, without a gap,
\* however the pieces arrived; and nothing of a peer that has not passed.
BodyIsThePeers ==
  /\ Begins(tls.taken \o tls.plainRx, DataOf(tls.peer.says))
  /\ tls.taken \o tls.plainRx /= <<>> => tls.peer.signs /\ tls.peer.finishes

\* A stream that ended in order, without the mark that it did not, is whole.
WholeUnlessMarked == tls.state = "complete" /\ ~tls.quiet => tls.taken = DataOf(tls.peer.says)

\* What went out is the hello, Finished and the request, each once and in that
\* order, whatever the socket took of it at a time.
SentInOrder ==
  LET request == [i \in 1 .. tls.asked |-> i]
  IN  /\ Len(tls.sent) <= 3
      /\ Len(tls.sent) >= 1 => tls.sent[1] = "hello"
      /\ Len(tls.sent) >= 2 => tls.sent[2] = "finished" /\ tls.done
      /\ Len(tls.sent) = 3 => tls.sent[3] = request /\ tls.requestComplete

=============================================================================
