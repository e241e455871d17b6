------------------------------ MODULE PageFetch ------------------------------
(***************************************************************************)
(* One page or image fetched from its address to its end (app/fetch.rs),   *)
(* and what the browser does with how it ended (app/browser.rs).           *)
(*                                                                         *)
(* Redirects make one request of many: each hop gives back the connection  *)
(* of the one before, forgets what was learned from it, and may be refused *)
(* or have to be confirmed.  A transaction is what it reports to its       *)
(* caller; an address is what the rules look at.                           *)
(***************************************************************************)
EXTENDS Integers

CONSTANTS
    Urls,        \* records: scheme, origin, pinned, literal (an IP address)
    MaxRedirects,
    MaxEntry,    \* MAX_HTTP_CACHE_ENTRY_BYTES, in pieces of a body
    MaxPieces,   \* of a body
    MaxHops,     \* confirmed hops in a session
    None

VARIABLE fetch

Http == "http"
Https == "https"
Networked(url) == url.scheme \in {Http, Https}

(* Heads of replies.  A redirect without a target is a broken one.         *)
Redirects == [status : {303, 307}, target : Urls \cup {None}, storable : {FALSE}, kind : {"html"}]
Plain == [status : {200, 304, 404}, target : {None}, storable : BOOLEAN,
          kind : {"html", "image", "other"}]
NotHttp == [status |-> 0, target |-> None, storable |-> FALSE, kind |-> "html"]
Heads == Redirects \cup Plain \cup {NotHttp}
IsRedirect(head) == head.status \in {303, 307}
IsSuccess(head) == head.status = 200

(* phase, slots and sockets: of the browser and of the stack; posted and   *)
(* allowed: to which origins the body went, and where the reader said it   *)
(* may; the fields from url on are the fetch's own                         *)
Nothing == [phase |-> "none", slots |-> 0, sockets |-> 0, posted |-> {}, allowed |-> {},
            shown |-> None, offer |-> None, stored |-> None,
            changed |-> {}, invalidated |-> {}, hops |-> 0,
            url |-> None, method |-> "get", image |-> FALSE, useCache |-> FALSE,
            validated |-> FALSE, redirects |-> 0, security |-> None, query |-> FALSE,
            transaction |-> FALSE, requestStarted |-> FALSE, headSeen |-> FALSE,
            reading |-> FALSE, pieces |-> 0, status |-> None, confirm |-> None,
            meta |-> FALSE, capture |-> None, finalStatus |-> None, outcome |-> "working"]
Fresh(keep, url, method, image, cache, validator, redirects) ==
    [keep EXCEPT !.url = url, !.method = method, !.image = image, !.useCache = cache,
                 !.validated = validator /\ method = "get", !.redirects = redirects]
Init == fetch = Nothing

Ended(s, outcome) == [s EXCEPT !.outcome = outcome]

---------------------------------------------------------------------------
(* Opening *)

Connect(s) ==
    {Ended(s, "cannot connect")} \cup
    (IF ~Networked(s.url) THEN {}
     ELSE {[s EXCEPT !.transaction = TRUE, !.sockets = @ + 1, !.requestStarted = FALSE,
                     !.headSeen = FALSE]})
(* A literal address is connected to; a name is asked for.                 *)
Open(s) ==
    IF s.url.literal THEN Connect(s)
    ELSE {[s EXCEPT !.query = TRUE, !.slots = @ + 1], Ended(s, "dns")}

Started(request) ==
    IF request.redirects > MaxRedirects THEN {Ended(request, "redirect limit")}
    ELSE IF ~Networked(request.url) THEN {Ended(request, "not network")}
    ELSE Open(request)

---------------------------------------------------------------------------
(* The name *)

CancelQuery(s) == [s EXCEPT !.query = FALSE, !.slots = @ - 1]
StepQuery(s) ==
    {s, Ended(CancelQuery(s), "dns")} \cup Connect(CancelQuery(s))

---------------------------------------------------------------------------
(* Redirects *)

CloseTransaction(s) ==
    IF s.transaction THEN [s EXCEPT !.transaction = FALSE, !.sockets = @ - 1] ELSE s
(* What was learned from a hop goes with it.                               *)
Forget(s) ==
    [CloseTransaction(s) EXCEPT !.requestStarted = FALSE, !.headSeen = FALSE,
                                !.reading = FALSE, !.pieces = 0, !.status = None,
                                !.security = None, !.validated = FALSE, !.meta = FALSE,
                                !.capture = None]

RequestTo(s, status, target) ==
    [s EXCEPT !.url = target,
              !.method = IF @ = "post" /\ status = 303 THEN "get" ELSE @]

SameOrigin(url, other) == url.scheme = other.scheme /\ url.origin = other.origin
HostIsPinned(url) == url.scheme = Https /\ url.pinned

MayResend(s, status, target) ==
    s.method # "post" \/ status # 307 \/ SameOrigin(s.url, target)

(* An identity that was checked on this hop is not given up for the next.  *)
MutantLosesIdentity(s, target) == Forget(s).security = "pinned" /\ ~HostIsPinned(target)
LosesIdentity(s, target) == s.security = "pinned" /\ ~HostIsPinned(target)
RedirectTo(s, status, target) ==
    LET forgot == Forget(s)
    IN  CASE ~Networked(target) -> {Ended(forgot, "file redirect")}
          [] s.url.scheme = Https /\ target.scheme = Http -> {Ended(forgot, "https downgrade")}
          [] Networked(target) /\ ~(s.url.scheme = Https /\ target.scheme = Http) ->
                IF LosesIdentity(s, target) THEN {Ended(forgot, "authentication downgrade")}
                ELSE IF ~MayResend(s, status, target)
                THEN {[Ended(forgot, "confirm") EXCEPT !.confirm = [status |-> status, url |-> target]]}
                ELSE Open([RequestTo(forgot, status, target) EXCEPT !.redirects = @ + 1])

(* A POST the server took changed what its address, and a redirect within  *)
(* the origin, will answer next.                                           *)
NoteInvalidation(s, head) ==
    IF s.method # "post" \/ head.status \notin 200 .. 399 THEN s
    ELSE [s EXCEPT !.invalidated = @ \cup {s.url} \cup
              (IF head.target # None /\ SameOrigin(head.target, s.url) THEN {head.target} ELSE {})]

---------------------------------------------------------------------------
(* The head and the body *)

Storable(s, head) ==
    head.status = 200 /\ head.storable /\ s.useCache /\ s.redirects = 0

Answered(s, head) ==
    LET noted == [NoteInvalidation(s, head) EXCEPT !.finalStatus = head.status,
                                                   !.meta = Storable(s, head)]
        keeping == [noted EXCEPT !.capture = IF noted.meta THEN 0 ELSE None]
    IN  IF head.status = 304 /\ s.redirects = 0 /\ s.validated
        THEN Ended(NoteInvalidation(s, head), "not modified")
        ELSE IF s.image
        THEN CASE ~IsSuccess(head) -> Ended(noted, "refused")
               [] IsSuccess(head) /\ head.kind # "image" -> Ended(noted, "not an image")
               [] OTHER -> [noted EXCEPT !.reading = TRUE]
        ELSE IF head.kind # "html" THEN Ended(keeping, "not html")
        ELSE [keeping EXCEPT !.reading = TRUE,
                             !.status = IF IsSuccess(head) THEN None ELSE head.status]

(* What is learned of the connection on the way to the head                *)
NoteSecurity(s) ==
    LET told == IF s.url.scheme = Http THEN "cleartext"
                ELSE IF s.url.pinned THEN "pinned" ELSE "unverified"
    IN  IF s.security # None THEN s ELSE [s EXCEPT !.security = told]

HeadReady(s, head) ==
    IF ~IsRedirect(head)
    THEN {IF head.status = 0 THEN Ended(s, "not http") ELSE Answered(s, head)}
    ELSE IF s.redirects >= MaxRedirects THEN {Ended(s, "redirect limit")}
    ELSE IF head.target = None THEN {Ended(s, "broken redirect")}
    ELSE RedirectTo(NoteInvalidation(s, head), head.status, head.target)

(* A copy that would grow too large for the cache is given up.             *)
Sink(s) ==
    [s EXCEPT !.pieces = @ + 1,
              !.capture = IF @ = None THEN None ELSE IF @ < MaxEntry THEN @ + 1 ELSE None]

Complete(s) ==
    CASE s.image ->
            IF s.pieces = 0 THEN Ended(s, "empty")
            ELSE [Ended(s, "image") EXCEPT
                    !.capture = IF s.meta /\ s.pieces <= MaxEntry THEN s.pieces ELSE None]
      [] ~s.image /\ ~s.reading -> Ended(s, "empty")
      [] OTHER -> IF s.status # None /\ s.pieces = 0 THEN Ended(s, "refused")
                  ELSE Ended(s, "page")

(* What the transaction may report (net/http.rs) in its place              *)
Send(s) == [NoteSecurity(s) EXCEPT !.requestStarted = TRUE,
                   !.posted = IF s.method = "post" THEN @ \cup {s.url.origin} ELSE @]
StepTransfer(s) ==
    {s, Ended(s, "failed")} \cup
    CASE ~s.requestStarted -> {Send(s)}
      [] s.requestStarted /\ ~s.headSeen ->
            UNION {HeadReady([NoteSecurity(s) EXCEPT !.headSeen = TRUE], head) : head \in Heads}
      [] OTHER -> (IF s.pieces < MaxPieces THEN {Sink(s)} ELSE {}) \cup {Complete(s)}
             \* the parser, or memory, gives out
             \cup {Ended(Sink(s), "cannot show")}

---------------------------------------------------------------------------
(* The browser *)

Close(s) == CloseTransaction(IF s.query THEN CancelQuery(s) ELSE s)

TakeCacheUpdate(s) ==
    CASE ~s.useCache \/ s.redirects # 0 \/ s.finalStatus = None -> "keep"
      [] s.useCache /\ s.redirects = 0 /\ s.finalStatus # None ->
            IF s.meta /\ s.capture # None THEN "store" ELSE "remove"

(* What the reader is offered after a POST that ended without a page       *)
EndPost(s) ==
    CASE s.outcome = "confirm" ->
            [url |-> s.confirm.url, redirects |-> s.redirects + 1, reason |-> "redirect"]
      [] s.outcome # "confirm" /\ s.requestStarted /\ s.headSeen -> None
      [] OTHER -> [url |-> s.url, redirects |-> 0,
                   reason |-> IF s.requestStarted THEN "unknown" ELSE "not sent"]

Shown(s) ==
    LET closed == [Close(s) EXCEPT !.phase = "ended", !.shown = s.outcome,
                                   !.changed = @ \cup s.invalidated, !.invalidated = {}]
    IN  CASE s.outcome \in {"page", "image"} ->
                [closed EXCEPT !.stored = IF TakeCacheUpdate(s) = "keep" THEN None
                                          ELSE [update |-> TakeCacheUpdate(s), url |-> s.url,
                                                size |-> s.capture, pieces |-> s.pieces]]
          [] s.outcome \notin {"page", "image"} /\ s.method = "post" ->
                [closed EXCEPT !.offer = EndPost(s)]
          [] OTHER -> closed
Settled(s) == IF s.outcome = "working" THEN s ELSE Shown(s)

Begin(request) ==
    {IF s.outcome = "working" THEN s
     ELSE [s EXCEPT !.phase = "ended", !.shown = s.outcome] : s \in Started(request)}
Keep == [Nothing EXCEPT !.phase = "open", !.hops = fetch.hops]
Get == \E url \in Urls, image, validator \in BOOLEAN :
           /\ fetch.phase # "open" /\ fetch.offer = None
           /\ fetch' \in Begin(Fresh(Keep, url, "get", image, TRUE, validator, 0))
Post == \E url \in Urls :
           /\ fetch.phase # "open" /\ fetch.offer = None
           /\ fetch' \in Begin(Fresh([Keep EXCEPT !.allowed = {url.origin}],
                                     url, "post", FALSE, FALSE, FALSE, 0))
Step == /\ fetch.phase = "open"
        /\ \E s \in IF fetch.query THEN StepQuery(fetch) ELSE StepTransfer(fetch) :
               fetch' = Settled(s)
Stop == fetch.phase = "open" /\ fetch' = [Shown(fetch) EXCEPT !.offer = None, !.shown = "stopped"]
(* Only an explicit yes sends it.                                          *)
Confirm ==
    /\ fetch.phase = "ended" /\ fetch.offer # None /\ fetch.hops < MaxHops
    /\ LET keep == [Keep EXCEPT !.allowed = fetch.allowed \cup {fetch.offer.url.origin},
                                !.posted = fetch.posted, !.hops = @ + 1]
       IN  fetch' \in Begin(Fresh(keep, fetch.offer.url, "post", FALSE, FALSE, FALSE,
                                  fetch.offer.redirects))
Decline == fetch.offer # None /\ fetch' = [fetch EXCEPT !.offer = None]

Next == Get \/ Post \/ Step \/ Stop \/ Confirm \/ Decline

Spec == Init /\ [][Next]_fetch

---------------------------------------------------------------------------
(* Properties *)

TypeOK ==
    /\ fetch.phase \in {"none", "open", "ended"}
    /\ fetch.phase = "open" => fetch.outcome = "working" /\ Networked(fetch.url)
    /\ fetch.redirects <= MaxRedirects + 1
    /\ ~(fetch.query /\ fetch.transaction)

(* However a fetch ends - shown, refused, stopped, in the middle of a      *)
(* chain of redirects - its DNS slot and its socket have been given back,  *)
(* and while it runs it holds one of the two at most.                      *)
ResourcesReleased ==
    /\ fetch.slots = (IF fetch.query THEN 1 ELSE 0)
    /\ fetch.sockets = (IF fetch.transaction THEN 1 ELSE 0)
    /\ fetch.phase # "open" => fetch.slots + fetch.sockets = 0

(* The body of a POST goes only where the reader sent it, or where they    *)
(* agreed to have it sent, whatever the servers on the way ask for.        *)
BodyGoesWhereAllowed == fetch.posted \subseteq fetch.allowed

(* The cache keeps a body only whole, under the address that answered      *)
(* without a redirect, and never the answer to a POST.                     *)
CacheLearnsTheTruth ==
    fetch.stored # None /\ fetch.stored.update = "store" =>
        /\ fetch.shown \in {"page", "image"} /\ fetch.redirects = 0 /\ fetch.method = "get"
        /\ fetch.stored.size = fetch.stored.pieces /\ fetch.stored.size <= MaxEntry

(* A chain of redirects, with the hops the reader confirmed in it, is no   *)
(* longer than the limit.                                                  *)
ChainIsBounded == fetch.phase = "open" => fetch.redirects <= MaxRedirects

(* A secure connection is never left for a plaintext one, nor an identity  *)
(* that was checked for one that is not, because a server asked.           *)
NeverLessSecure ==
    [][fetch.phase = "open" /\ fetch'.phase = "open" /\ fetch'.redirects > fetch.redirects =>
           /\ fetch.url.scheme = Https => fetch'.url.scheme = Https
           /\ fetch.security = "pinned" => fetch'.url.pinned]_fetch

(* A POST that reached a server is not said to be unsent.                  *)
NotSentMeansNotSent ==
    fetch.offer # None /\ fetch.offer.reason = "not sent" => fetch.posted = {}
=============================================================================
