----------------------------- MODULE MCNetwork -----------------------------
(***************************************************************************)
(* The network side of the program in one run: small instances of the      *)
(* coprocessor's transport and its calls, the IP stack with its resolver,  *)
(* TFTP, HTTP, TLS and the page fetch.  Each is a model of its own, of one *)
(* layer against the layers below it as they may behave, so a behaviour    *)
(* runs one of them: `focus` is chosen at the beginning among Parts, and   *)
(* the others stand still.  A property says of each part what its module   *)
(* says of it.                                                             *)
(***************************************************************************)
EXTENDS Integers, Sequences, TLC

CONSTANTS Parts, None

VARIABLES focus, link, rpc, messages, net, tftp, http, tls, fetch

---------------------------------------------------------------------------
(* The instances                                                           *)

Link == INSTANCE HostedLink WITH
    Sizes <- {1, 2}, Radix <- 2, RxByteMax <- 4, TxBufferMax <- 3, Staging <- 2,
    MaxUnread <- 3, Pool <- 2, Numbers <- 4

Rpc == INSTANCE RpcLink WITH
    Ids <- {"a", "b"}, MaxRequests <- 2, MaxFrames <- 2, MaxEvents <- 1, MaxIncoming <- 3,
    StationQueue <- 1, EventQueue <- 1

Messages == INSTANCE RpcMessages WITH
    Group <- 4, Groups <- 4, Wide <- 256, Narrow <- 16, Ids <- {4, 5},
    Texts <- {<<>>, <<1>>, <<2, 3>>, <<3, 1, 5>>}, NameMax <- 3

Stack == INSTANCE NetStack WITH
    Addresses <- {"a", "b", "c"},
    Lists <- {<<>>, <<"a">>, <<"a", "b">>, <<"b", "c", "a">>},
    MaxServers <- 2, MaxStall <- 2, MaxLost <- 1

Transfer == INSTANCE Tftp WITH
    Ports <- {"p", "q"}, Blocks <- 3, Wrap <- 3, Retries <- 1, Capacity <- 2

Chunk(data, extension) ==
    <<IF Len(data) = 2 THEN "2" ELSE "1">> \o extension \o <<"cr", "lf">> \o data \o <<"cr", "lf">>
LastChunk(trailer) == <<"0", "cr", "lf">> \o trailer \o <<"cr", "lf">>
Reply(chunked, length, identity, payload, body) ==
    [chunked |-> chunked, length |-> length, identity |-> identity,
     wire |-> <<"x", "cr", "lf", "cr", "lf">> \o payload, body |-> body]
\* By length, by chunks, until the connection closes; cut short, malformed,
\* too long, and with a body that looks like framing.
Replies == {
    Reply(FALSE, None, TRUE, <<"x", "lf", "y">>, <<"x", "lf", "y">>),
    Reply(FALSE, 0, TRUE, <<"x">>, <<>>),
    Reply(FALSE, 2, TRUE, <<"x", "lf", "y">>, <<"x", "lf">>),
    Reply(FALSE, 4, TRUE, <<"x", "lf", "y", "x">>, None),
    Reply(FALSE, 1, FALSE, <<"x">>, None),
    Reply(TRUE, 1, TRUE, Chunk(<<"cr", "lf">>, <<";", "x">>) \o Chunk(<<"0">>, <<>>) \o LastChunk(<<>>),
          <<"cr", "lf", "0">>),
    Reply(TRUE, None, TRUE, LastChunk(<<"x", "cr", "lf">>) \o <<"y">>, <<>>),
    Reply(TRUE, None, TRUE, <<"x">> \o LastChunk(<<>>), None),
    Reply(TRUE, None, TRUE, <<"2", "cr", "lf", "x", "cr", "lf">> \o LastChunk(<<>>), None),
    Reply(TRUE, None, TRUE, Chunk(<<"x", "y">>, <<>>) \o Chunk(<<"x", "y">>, <<>>) \o LastChunk(<<>>), None),
    Reply(TRUE, None, TRUE, <<"1", "1", "1">>, None),
    [chunked |-> FALSE, length |-> None, identity |-> TRUE, body |-> None,
     wire |-> <<"x", "x", "lf", "x", "x", "x", "lf">>]}
Web == INSTANCE Http WITH
    MaxBody <- 3, MaxHeader <- 5, MaxChunk <- 20, MaxDigits <- 2, ReadChunk <- 2,
    PollBudget <- 2, RequestSize <- 2, Quiet <- 1

\* Peers by how they end: with a notification, without, unsigned, without a
\* Finished of their own, with an alert, and without a certificate.
Peer(signs, finishes, says) == [signs |-> signs, finishes |-> finishes, key |-> "k", says |-> says]
Greeting == <<"cert", "verify", "finished">>
Secure == INSTANCE Tls WITH
    Peers <- {Peer(TRUE, TRUE, Greeting \o <<"d1", "d2", "notify">>), Peer(TRUE, TRUE, Greeting \o <<"d1">>),
              Peer(FALSE, TRUE, Greeting \o <<"d1">>), Peer(TRUE, FALSE, Greeting \o <<"d1">>),
              Peer(TRUE, TRUE, <<"cert", "alert">>), Peer(TRUE, TRUE, <<"finished">>)},
    Policies <- {[pins |-> {}, required |-> FALSE], [pins |-> {}, required |-> TRUE],
                 [pins |-> {"k"}, required |-> TRUE], [pins |-> {"j"}, required |-> FALSE]},
    Pieces <- 2, Budgets <- {1, 3}, RxSpace <- 3, CipherTxCap <- 1, PlainRxCap <- 1, MaxRequest <- 1

Url(scheme, origin, pinned, literal) ==
    [scheme |-> scheme, origin |-> origin, pinned |-> pinned, literal |-> literal]
Fetch == INSTANCE PageFetch WITH
    Urls <- {Url("http", "a", FALSE, FALSE), Url("https", "a", TRUE, FALSE),
             Url("https", "b", FALSE, TRUE), Url("file", "f", FALSE, FALSE)},
    MaxRedirects <- 2, MaxEntry <- 1, MaxPieces <- 2, MaxHops <- 1

---------------------------------------------------------------------------
(* One part runs                                                           *)

Init ==
    /\ focus \in Parts
    /\ Link!Init /\ Messages!Init /\ Stack!Init /\ Transfer!Init /\ Fetch!Init
    /\ IF focus = "rpc" THEN Rpc!Init ELSE rpc = None
    /\ IF focus = "http" THEN Web!Init ELSE http = None
    /\ IF focus = "tls" THEN Secure!Init ELSE tls = None

Runs(part, others) == focus = part /\ UNCHANGED <<focus, others>>

Next ==
    \/ Runs("link", <<rpc, messages, net, tftp, http, tls, fetch>>) /\ Link!Next
    \/ Runs("rpc", <<link, messages, net, tftp, http, tls, fetch>>) /\ Rpc!Next
    \/ Runs("messages", <<link, rpc, net, tftp, http, tls, fetch>>) /\ Messages!Next
    \/ Runs("net", <<link, rpc, messages, tftp, http, tls, fetch>>) /\ Stack!Next
    \/ Runs("tftp", <<link, rpc, messages, net, http, tls, fetch>>) /\ Transfer!Next
    \/ Runs("http", <<link, rpc, messages, net, tftp, tls, fetch>>) /\ Web!Next
    \/ Runs("tls", <<link, rpc, messages, net, tftp, http, fetch>>) /\ Secure!Next
    \/ Runs("fetch", <<link, rpc, messages, net, tftp, http, tls>>) /\ Fetch!Next

Spec == Init /\ [][Next]_<<focus, link, rpc, messages, net, tftp, http, tls, fetch>>

---------------------------------------------------------------------------
(* Properties *)

(* What the two sides of a connection count stays in step, and what is     *)
(* taken is given back: the byte and buffer counters of the link at every  *)
(* wrap, the frames of the station, the resolvers of the configuration,    *)
(* the one DNS slot, the socket of a fetch, the hops of a chain.           *)
CountsStayInStep ==
    /\ focus = "link" => Link!TypeOK /\ Link!InStep /\ Link!BuffersInStep
    /\ focus = "rpc" => Rpc!TypeOK /\ Rpc!FramesAccounted /\ Rpc!ServicingHoldsBack
    /\ focus = "net" => Stack!TypeOK /\ Stack!ResolversInStep /\ Stack!SlotReleasedOnce
    /\ focus = "fetch" => Fetch!TypeOK /\ Fetch!ResourcesReleased /\ Fetch!ChainIsBounded

(* Whatever is lost, repeated, late or cut into pieces, what a caller is   *)
(* given is what the other side sent, in order, each part once, and it is  *)
(* called whole only when it is: frames of the link, messages and their    *)
(* fields, blocks of TFTP, bodies of HTTP, records of TLS.                 *)
WhatArrivesIsWhatWasSent ==
    /\ focus = "link" => Link!InOrder
    /\ focus = "messages" => /\ Messages!FieldsRoundTrip /\ Messages!TruncationLosesTheEnd
                             /\ Messages!RequestsRoundTrip /\ Messages!ConfigRoundTrip
    /\ focus = "tftp" => Transfer!TypeOK /\ Transfer!BlocksInOrder /\ Transfer!DoneMeansWhole
    /\ focus = "http" => Web!TypeOK /\ Web!BodyIsPrefix /\ Web!CompleteMeansWhole
    /\ focus = "tls" => Secure!TypeOK /\ Secure!BodyIsThePeers /\ Secure!WholeUnlessMarked /\ Secure!SentInOrder

(* An answer belongs to the question it ends, and says what happened: an   *)
(* RPC answer is its caller's, an address comes from the selected source,  *)
(* "not found" was said by a server after every resolver was tried, a peer *)
(* is named only when it proved itself, a body goes where the reader       *)
(* allowed it, and the cache learns only what was answered.                *)
AnswersAreTheirQuestions ==
    /\ focus = "rpc" => Rpc!AnswersMatch /\ Rpc!FragmentsBelongTogether
    /\ focus = "net" => Stack!SourceDecides /\ Stack!NotFoundWasAnswered /\ Stack!FallbackIsReached
    /\ focus = "tls" => Secure!AuthenticationIsEarned
    /\ focus = "fetch" => Fetch!BodyGoesWhereAllowed /\ Fetch!CacheLearnsTheTruth

(* A redirect never leaves a secure connection for a plaintext one, nor an *)
(* identity that was checked for one that is not.                          *)
NeverLessSecure == Fetch!NeverLessSecure
=============================================================================
