-------------------------------- MODULE Tftp --------------------------------
(***************************************************************************)
(* The TFTP client (net/tftp.rs): one block, one acknowledgement, over a   *)
(* network that loses and repeats datagrams.                               *)
(*                                                                         *)
(* A request that is repeated may start a second transfer at the server,   *)
(* on a port of its own, and from then on both send the same file; the     *)
(* client answers whichever port it heard from last.  Block numbers are    *)
(* taken modulo Wrap, and the file may be longer than that.                *)
(***************************************************************************)
EXTENDS Integers, SequencesExt

CONSTANTS
    Ports,       \* of the server's transfers
    Blocks,      \* blocks of the file, the last one short
    Wrap,        \* block numbers: 2 ^ 16
    Retries,
    Capacity,    \* datagrams under way to or from one port
    None

VARIABLE tftp

RequestPort == "69"
Request == [kind |-> "request", block |-> 0, n |-> 0]
Ack(block) == [kind |-> "ack", block |-> block, n |-> 0]
(* n: which block of the file it is, which the datagram does not say       *)
Data(n) == [kind |-> "data", block |-> n % Wrap, n |-> n]
Refusal == [kind |-> "error", block |-> 0, n |-> 0]
Garbage == [kind |-> "other", block |-> 0, n |-> 0]

Init ==
    tftp = [phase |-> "sending", peer |-> RequestPort, outgoing |-> Request,
            attempts |-> 0, expected |-> 1, sunk |-> <<>>, result |-> None,
            sending |-> [p \in Ports |-> 0],
            down |-> [p \in Ports |-> <<>>],
            up |-> [p \in Ports \cup {RequestPort} |-> <<>>]]

---------------------------------------------------------------------------
(* The server (external).  A transfer sends block `sending` until it is    *)
(* acknowledged.                                                           *)

Accept(p) ==
    /\ tftp.up[RequestPort] # <<>> /\ tftp.sending[p] = 0
    /\ \E answer \in {Data(1), Refusal} :
           tftp' = [tftp EXCEPT !.up[RequestPort] = Tail(@),
                                !.sending[p] = 1,
                                !.down[p] = Append(@, answer)]
Acknowledged(p) ==
    /\ tftp.up[p] # <<>>
    /\ LET moves == Head(tftp.up[p]).block = tftp.sending[p] % Wrap
                    /\ tftp.sending[p] \in 1 .. Blocks
           heard == [tftp EXCEPT !.up[p] = Tail(@)]
       IN  tftp' = IF ~moves THEN heard
                   ELSE IF tftp.sending[p] = Blocks THEN [heard EXCEPT !.sending[p] = Blocks + 1]
                   ELSE [heard EXCEPT !.sending[p] = @ + 1,
                                      !.down[p] = Append(@, Data(tftp.sending[p] + 1))]
Resend(p) ==
    /\ tftp.sending[p] \in 1 .. Blocks /\ Len(tftp.down[p]) < Capacity
    /\ \E datagram \in {Data(tftp.sending[p]), Garbage} :
           tftp' = [tftp EXCEPT !.down[p] = Append(@, datagram)]

LoseDown(p) == tftp.down[p] # <<>> /\ tftp' = [tftp EXCEPT !.down[p] = Tail(@)]
LoseUp(p) == tftp.up[p] # <<>> /\ tftp' = [tftp EXCEPT !.up[p] = Tail(@)]
RepeatDown(p) ==
    /\ tftp.down[p] # <<>> /\ Len(tftp.down[p]) < Capacity
    /\ tftp' = [tftp EXCEPT !.down[p] = <<Head(@)>> \o @]

---------------------------------------------------------------------------
(* The client *)

End(s, result) == [s EXCEPT !.phase = "over", !.result = result]

(* Sends what was sent last; the transfer is given up after the first try  *)
(* and as many again as there are retries.                                 *)
Send ==
    /\ tftp.phase = "sending"
    /\ tftp' = IF tftp.attempts > Retries THEN End(tftp, "timed out")
               ELSE LET sent == [tftp EXCEPT !.attempts = @ + 1, !.phase = "waiting"]
                    IN  IF Len(tftp.up[tftp.peer]) = Capacity THEN sent
                        ELSE [sent EXCEPT !.up[tftp.peer] = Append(@, tftp.outgoing)]
NoReply == tftp.phase = "waiting"
           /\ tftp' \in {[tftp EXCEPT !.phase = "sending"], End(tftp, "link lost")}

Sunk(s, data) ==
    IF data.block = s.expected
    THEN [s EXCEPT !.sunk = Append(@, data.n), !.expected = (@ + 1) % Wrap]
    ELSE s
Short(data) == data.n = Blocks

Receive(p) ==
    /\ tftp.phase = "waiting" /\ tftp.down[p] # <<>>
    /\ LET datagram == Head(tftp.down[p])
           heard == [tftp EXCEPT !.down[p] = Tail(@)]
           taken == [Sunk([heard EXCEPT !.peer = p], datagram)
                        EXCEPT !.outgoing = Ack(datagram.block), !.attempts = 0,
                               !.phase = "sending"]
       IN  CASE datagram.kind = "other" -> tftp' = [heard EXCEPT !.phase = "sending"]
             [] datagram.kind = "error" -> tftp' = End(heard, "refused")
             [] OTHER ->
                  \/ /\ datagram.block = tftp.expected
                     /\ tftp' = End(heard, "sink refused")
                  \/ tftp' = IF Short(datagram) THEN End(taken, "done") ELSE taken
(* Of the link only: the acknowledgement of the short block is sent once.  *)
Over == tftp.phase = "over" /\ UNCHANGED tftp

Next ==
    \/ \E p \in Ports :
           \/ Accept(p) \/ Acknowledged(p) \/ Resend(p)
           \/ LoseDown(p) \/ LoseUp(p) \/ RepeatDown(p) \/ Receive(p)
    \/ Send \/ NoReply \/ Over

Spec == Init /\ [][Next]_tftp

---------------------------------------------------------------------------
(* Properties *)

TypeOK ==
    /\ tftp.phase \in {"sending", "waiting", "over"}
    /\ tftp.expected \in 0 .. Wrap - 1
    /\ tftp.attempts <= Retries + 1

(* Whatever is lost, repeated, or sent by two transfers at once, the sink  *)
(* is handed the file's blocks in order, each once.                        *)
BlocksInOrder == \A i \in 1 .. Len(tftp.sunk) : tftp.sunk[i] = i

(* A transfer that ends well handed over the whole file.                   *)
DoneMeansWhole == tftp.result = "done" => Len(tftp.sunk) = Blocks
=============================================================================
