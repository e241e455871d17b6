-------------------------------- MODULE Http --------------------------------
(***************************************************************************)
(* One HTTP transaction (net/http.rs) over a plain connection              *)
(* (net/transport.rs).                                                     *)
(*                                                                         *)
(* A reply arrives in pieces cut anywhere; the parser is fed what a poll   *)
(* finds, may have to stop in the middle of anything, and must hand on     *)
(* exactly the bytes of the body, whichever way its end is told.  Bytes    *)
(* are tokens: the ones the framing is made of and "x" for any other.      *)
(***************************************************************************)
EXTENDS Integers, SequencesExt

CONSTANTS
    Replies,     \* what servers answer: see Reply
    MaxBody,
    MaxHeader,   \* MAX_HEADER_BYTES
    MaxChunk,    \* MAX_CHUNK_SIZE
    MaxDigits,   \* MAX_CHUNK_SIZE_DIGITS
    ReadChunk,   \* READ_CHUNK
    PollBudget,  \* reads in one poll
    RequestSize,
    Quiet,       \* the time-outs: connecting, writing, idle
    None

VARIABLE http

Terminator == <<"cr", "lf", "cr", "lf">>

---------------------------------------------------------------------------
(* What a server sends (external).  body: what its author meant, None when *)
(* the reply is malformed                                                  *)
Digits == [n \in 0 .. 3 |-> CASE n = 0 -> "0" [] n = 1 -> "1" [] n = 2 -> "2" [] n = 3 -> "3"]
ValueOf == [d \in Range(Digits) |-> CHOOSE n \in DOMAIN Digits : Digits[n] = d]
Chunk(data, extension) ==
    <<Digits[Len(data)]>> \o extension \o <<"cr", "lf">> \o data \o <<"cr", "lf">>
LastChunk(trailer) == <<"0", "cr", "lf">> \o trailer \o <<"cr", "lf">>
Reply(chunked, length, identity, payload, body) ==
    [chunked |-> chunked, length |-> length, identity |-> identity,
     wire |-> <<"x">> \o Terminator \o payload, body |-> body]

NoBody == [framing |-> None, remaining |-> 0, at |-> "size", value |-> 0, digits |-> 0,
           lineStart |-> TRUE, seenCr |-> FALSE]
Idle(reply) ==
    [reply |-> reply, wire |-> reply.wire, arrived |-> <<>>, peerClosed |-> FALSE,
     linkAlive |-> TRUE, socket |-> "connecting", localFailure |-> FALSE,
     phase |-> "connecting", sent |-> 0, quiet |-> 0, buffer |-> <<>>, head |-> FALSE,
     told |-> FALSE, delivered |-> <<>>, error |-> None] @@ NoBody

Init == http \in {[Idle(reply) EXCEPT !.localFailure = failure] :
                      reply \in Replies, failure \in BOOLEAN}

Fail(s, error) == [s EXCEPT !.phase = "failed", !.error = error]
Complete(s) == [s EXCEPT !.phase = "complete"]
Finished(s) == s.phase \in {"complete", "failed"}

---------------------------------------------------------------------------
(* Chunked framing *)

(* A byte of the framing, not of a chunk's data                            *)
StepChunked(s, byte) ==
    CASE s.at = "size" /\ byte \in Range(Digits) ->
            LET value == s.value * 16 + ValueOf[byte]
            IN  IF s.digits >= MaxDigits \/ value > MaxChunk THEN Fail(s, "chunk framing")
                ELSE [s EXCEPT !.value = value, !.digits = @ + 1]
      [] s.at = "size" /\ byte \in {";", "cr"} /\ s.digits > 0 ->
            [s EXCEPT !.at = IF byte = ";" THEN "extension" ELSE "size lf"]
      [] s.at = "extension" -> IF byte = "cr" THEN [s EXCEPT !.at = "size lf"] ELSE s
      [] s.at = "size lf" /\ byte = "lf" ->
            IF s.value = 0 THEN [s EXCEPT !.at = "trailer", !.lineStart = TRUE, !.seenCr = FALSE]
            ELSE [s EXCEPT !.at = "data", !.remaining = s.value]
      [] s.at = "data cr" /\ byte = "cr" -> [s EXCEPT !.at = "data lf"]
      [] s.at = "data lf" /\ byte = "lf" -> [s EXCEPT !.at = "size", !.value = 0, !.digits = 0]
      [] s.at = "trailer" /\ byte = "cr" -> [s EXCEPT !.seenCr = TRUE]
      [] s.at = "trailer" /\ byte = "lf" /\ s.lineStart /\ s.seenCr -> [s EXCEPT !.at = "done"]
      [] s.at = "trailer" /\ byte = "lf" -> [s EXCEPT !.lineStart = TRUE, !.seenCr = FALSE]
      [] s.at = "trailer" -> [s EXCEPT !.lineStart = FALSE, !.seenCr = FALSE]
      [] OTHER -> Fail(s, "chunk framing")

Deliver(s, bytes) ==
    IF Len(s.delivered) + Len(bytes) > MaxBody THEN Fail(s, "body too long")
    ELSE [s EXCEPT !.delivered = @ \o bytes]

(* A chunk's data is handed on as it comes, here a byte at a time.         *)
ConsumeChunked(s, bytes) ==
    LET step(t, byte) ==
            CASE Finished(t) \/ t.at = "done" -> t
              [] t.at = "data" /\ ~Finished(t) ->
                    LET more == [t EXCEPT !.remaining = @ - 1]
                    IN  Deliver(IF more.remaining = 0 THEN [more EXCEPT !.at = "data cr"]
                                ELSE more, <<byte>>)
              [] OTHER -> StepChunked(t, byte)
        fed == FoldLeft(step, s, bytes)
    IN  IF fed.at = "done" /\ ~Finished(fed) THEN Complete(fed) ELSE fed

ConsumeBody(s, bytes) ==
    CASE s.framing = "until close" -> Deliver(s, bytes)
      [] s.framing = "length" ->
            LET take == IF s.remaining < Len(bytes) THEN s.remaining ELSE Len(bytes)
                taken == Deliver([s EXCEPT !.remaining = @ - take], SubSeq(bytes, 1, take))
            IN  IF taken.remaining = 0 /\ ~Finished(taken) THEN Complete(taken) ELSE taken
      [] s.framing = "chunked" -> ConsumeChunked(s, bytes)

---------------------------------------------------------------------------
(* The head *)

FramingFor(s) ==
    CASE ~s.reply.identity -> Fail(s, "unsupported encoding")
      [] s.reply.identity /\ s.reply.chunked -> [s EXCEPT !.framing = "chunked", !.phase = "body"]
      [] s.reply.identity /\ ~s.reply.chunked /\ s.reply.length = None ->
            [s EXCEPT !.framing = "until close", !.phase = "body"]
      [] OTHER -> IF s.reply.length > MaxBody THEN Fail(s, "body too long")
                  ELSE [s EXCEPT !.framing = "length", !.remaining = s.reply.length,
                                 !.phase = "body"]

(* Only what the terminator can still be part of is searched again.        *)
SearchedFrom(buffer) == IF Len(buffer) > 3 THEN Len(buffer) - 3 ELSE 0
FindHeaderEnd(buffer, from) ==
    LET at == {i \in from .. Len(buffer) - 4 : SubSeq(buffer, i + 1, i + 4) = Terminator}
    IN  IF at = {} THEN None ELSE CHOOSE i \in at : \A j \in at : i <= j

ConsumeHead(s, bytes) ==
    LET buffer == s.buffer \o bytes
        end == FindHeaderEnd(buffer, SearchedFrom(s.buffer))
    IN  CASE end = None /\ Len(buffer) > MaxHeader -> Fail(s, "headers too long")
          [] end = None /\ Len(buffer) <= MaxHeader -> [s EXCEPT !.buffer = buffer]
          [] OTHER -> FramingFor([s EXCEPT !.head = TRUE,
                                           !.buffer = SubSeq(buffer, end + 5, Len(buffer))])

---------------------------------------------------------------------------
(* One poll *)

Read(s) ==
    LET count == IF Len(s.arrived) < ReadChunk THEN Len(s.arrived) ELSE ReadChunk
        bytes == SubSeq(s.arrived, 1, count)
        left == [s EXCEPT !.arrived = SubSeq(@, count + 1, Len(@)), !.quiet = 0]
    IN  CASE count = 0 -> s
          [] count > 0 /\ s.phase = "head" -> ConsumeHead(left, bytes)
          [] OTHER -> ConsumeBody(left, bytes)

(* The body bytes the head's last read brought along, before the socket    *)
(* is read again                                                           *)
MutantCarried(s) == s
Carried(s) ==
    LET carried == IF s.phase = "body" /\ s.buffer # <<>>
                   THEN ConsumeBody([s EXCEPT !.buffer = <<>>], s.buffer) ELSE s
    IN  IF carried.phase = "body" /\ carried.framing = "length" /\ carried.remaining = 0
        THEN Complete(carried) ELSE carried

(* Reads until the budget is spent, nothing is left, or the head is ready  *)
Reads(s) ==
    FoldLeft(LAMBDA t, i : IF Finished(t) \/ t.head # s.head THEN t ELSE Read(t),
             s, [i \in 1 .. PollBudget |-> i])

FinishAtClose(s) ==
    IF s.phase = "body" /\ (s.framing = "until close" \/ (s.framing = "length" /\ s.remaining = 0))
    THEN Complete(s) ELSE Fail(s, "truncated")

AtEnd(s) == s.peerClosed /\ s.arrived = <<>>
PollReceiving(s) ==
    LET carried == Carried(s)
        read == IF Finished(carried) THEN carried ELSE Reads(carried)
    IN  CASE Finished(read) -> read
          [] ~Finished(read) /\ read.head # s.head -> [read EXCEPT !.told = TRUE]
          [] ~Finished(read) /\ read.head = s.head /\ read.delivered # s.delivered -> read
          [] OTHER -> IF AtEnd(read) THEN FinishAtClose(read)
                      ELSE IF read.quiet > Quiet THEN Fail(read, "timed out") ELSE read

PollSending(s) ==
    {LET sent == [s EXCEPT !.sent = @ + count, !.quiet = IF count > 0 THEN 0 ELSE @]
     IN  CASE sent.sent >= RequestSize -> [sent EXCEPT !.phase = "head"]
           [] sent.sent < RequestSize /\ sent.quiet > Quiet -> Fail(sent, "timed out")
           [] OTHER -> sent
     : count \in 0 .. RequestSize - s.sent} \cup
    (IF s.peerClosed THEN {Fail(s, "local")} ELSE {})

Polled(s) ==
    CASE s.localFailure -> {Fail(s, "local")}
      [] ~s.localFailure /\ ~s.linkAlive -> {Fail(s, "link lost")}
      [] OTHER ->
            CASE s.phase = "connecting" /\ s.socket = "established" ->
                    PollSending([s EXCEPT !.phase = "sending", !.quiet = 0])
              [] s.phase = "connecting" /\ s.socket = "connecting" ->
                    {IF s.quiet > Quiet THEN Fail(s, "not connected") ELSE s}
              [] s.phase = "sending" -> PollSending(s)
              [] OTHER -> {PollReceiving(s)}
Poll == http.socket # "removed" /\ ~Finished(http) /\ http' \in Polled(http)

(* A caller closes the transaction when it is done with it, or has had     *)
(* enough of it.                                                           *)
Cancelled(s) == IF Finished(s) THEN s ELSE Fail(s, "cancelled")
Cancel == http.socket # "removed" /\ ~Finished(http) /\ http' = Cancelled(http)
Close == http.socket # "removed" /\ http' = [http EXCEPT !.socket = "removed"]

---------------------------------------------------------------------------
(* The peer and the time (external) *)

Establish == http.socket = "connecting" /\ ~http.localFailure /\ http' = [http EXCEPT !.socket = "established"]
Arrive ==
    /\ http.socket = "established" /\ ~http.peerClosed /\ http.sent > 0
    /\ \E count \in 1 .. Len(http.wire) :
           http' = [http EXCEPT !.arrived = @ \o SubSeq(http.wire, 1, count),
                                !.wire = SubSeq(@, count + 1, Len(@))]
PeerCloses == http.socket = "established" /\ ~http.peerClosed
              /\ http' = [http EXCEPT !.peerClosed = TRUE]
LinkLost == http.linkAlive /\ http' = [http EXCEPT !.linkAlive = FALSE]
Wait == http.quiet <= Quiet /\ ~Finished(http) /\ http' = [http EXCEPT !.quiet = @ + 1]

Next == Poll \/ Cancel \/ Close \/ Establish \/ Arrive \/ PeerCloses \/ LinkLost \/ Wait

---------------------------------------------------------------------------
(* Properties *)

TypeOK ==
    /\ http.phase \in {"connecting", "sending", "head", "body", "complete", "failed"}
    /\ http.phase = "body" => http.framing # None
    /\ (http.phase = "failed") = (http.error # None)
    /\ Len(http.delivered) <= MaxBody

(* However the reply is cut into reads, what is handed on is a prefix of   *)
(* the body the server meant, never a byte of the framing; nothing is      *)
(* handed on before the head has been reported.                            *)
BodyIsPrefix ==
    /\ http.reply.body # None => IsPrefix(http.delivered, http.reply.body)
    /\ http.delivered # <<>> => http.told

(* Complete means the whole body, when the reply says where it ends; a     *)
(* malformed reply, or one cut short, is never complete.                   *)
CompleteMeansWhole ==
    http.phase = "complete" =>
        /\ http.reply.body # None
        /\ http.framing # "until close" => http.delivered = http.reply.body
        /\ http.framing = "until close" =>
               http.delivered \o http.wire = http.reply.body /\ http.peerClosed
=============================================================================
