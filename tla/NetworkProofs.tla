--------------------------- MODULE NetworkProofs ---------------------------
(***************************************************************************)
(* What is proved of the network's parts, for any values of their          *)
(* constants: the fetch of a page (PageFetch), the commands that keep a    *)
(* download (Downloads), a TFTP transfer (Tftp), the IP stack with its     *)
(* name queries (NetStack), and the browser's cache (BrowserCache).  Each  *)
(* part runs by itself here: what another gives it is chosen in the part's *)
(* own actions.                                                            *)
(***************************************************************************)
EXTENDS PageFetch, SequenceTheorems, FiniteSetTheorems, TLAPS

---------------------------------------------------------------------------
(* Proofs: all but the last of the properties, for any addresses and any   *)
(* limits.  A step is a chain of functions of the fetch, so the invariant  *)
(* is a predicate of it that each keeps, up to its end, when the browser   *)
(* closes what is left of it and it is at rest.                            *)

\* What the theorems assume of the constants: the limits are numbers, and what is
\* known of no connection is not taken for an identity.
Limits == MaxRedirects \in Nat /\ MaxEntry \in Nat /\ None # "pinned"

\* A fetch has all of its fields.
Formed(s) ==
    DOMAIN s = {"phase", "slots", "sockets", "posted", "allowed", "shown", "offer", "stored",
                "changed", "invalidated", "hops", "url", "method", "image", "useCache",
                "validated", "redirects", "security", "query", "transaction",
                "requestStarted", "headSeen", "reading", "pieces", "status", "confirm",
                "meta", "capture", "finalStatus", "outcome"}

\* The socket and the DNS slot are held by the parts that say so, one at a time.
Held(s) ==
    /\ s.slots = (IF s.query THEN 1 ELSE 0)
    /\ s.sockets = (IF s.transaction THEN 1 ELSE 0)
    /\ ~(s.query /\ s.transaction)

\* The body has gone where it may, and may go where it is being sent.
Allowed(s) ==
    /\ s.posted \subseteq s.allowed
    /\ s.method = "post" => s.url.origin \in s.allowed

\* The copy for the cache is what has been read, of an answer that may be kept: to
\* a GET that was not redirected.
Cached(s) ==
    /\ s.useCache => s.method = "get"
    /\ s.meta => s.useCache /\ s.redirects = 0
    /\ s.pieces \in Nat /\ (s.pieces # 0 => s.headSeen /\ ~s.query)
    /\ s.capture # None => s.capture = s.pieces /\ s.pieces <= MaxEntry

\* A fetch under way: the invariant of every function on the way through a step.
Core(s) ==
    /\ Formed(s) /\ s.phase = "open" /\ Networked(s.url)
    /\ s.redirects \in 0 .. MaxRedirects
    /\ Held(s) /\ Allowed(s) /\ Cached(s)
    /\ s.stored = None /\ s.offer = None

\* A fetch that ends is closed and judged later.
LEMMA EndedCore ==
  ASSUME NEW s, Core(s), NEW outcome
  PROVE  Core(Ended(s, outcome))
BY DEF Core, Formed, Held, Allowed, Cached, Ended

\* connect.
LEMMA ConnectCore ==
  ASSUME NEW s, Core(s), ~s.query, ~s.transaction, s.pieces = 0, NEW t \in Connect(s)
  PROVE  Core(t) /\ t.url = s.url /\ t.redirects = s.redirects
<1>1. CASE t = Ended(s, "cannot connect")
  BY <1>1, EndedCore DEF Ended, Core, Formed
<1>2. CASE t = [s EXCEPT !.transaction = TRUE, !.sockets = @ + 1, !.requestStarted = FALSE,
                         !.headSeen = FALSE]
  BY <1>2 DEF Core, Formed, Held, Allowed, Cached
<1> QED BY <1>1, <1>2 DEF Connect

\* open.
LEMMA OpenCore ==
  ASSUME NEW s, Core(s), ~s.query, ~s.transaction, s.pieces = 0, NEW t \in Open(s)
  PROVE  Core(t) /\ t.url = s.url /\ t.redirects = s.redirects
<1>1. CASE t \in Connect(s)
  BY <1>1, ConnectCore
<1>2. CASE t = [s EXCEPT !.query = TRUE, !.slots = @ + 1]
  BY <1>2 DEF Core, Formed, Held, Allowed, Cached
<1>3. CASE t = Ended(s, "dns")
  BY <1>3, EndedCore DEF Ended, Core, Formed
<1> QED BY <1>1, <1>2, <1>3 DEF Open

\* A name that is no longer asked for gives its slot back.
LEMMA CancelQueryCore ==
  ASSUME NEW s, Core(s), s.query, NEW t, t = CancelQuery(s)
  PROVE  Core(t) /\ ~t.query /\ ~t.transaction /\ t.pieces = 0 /\ t.url = s.url
         /\ t.redirects = s.redirects
BY DEF Core, Formed, Held, Allowed, Cached, CancelQuery

\* step_query.
LEMMA StepQueryCore ==
  ASSUME NEW s, Core(s), s.query, NEW t \in StepQuery(s)
  PROVE  Core(t) /\ t.url = s.url /\ t.redirects = s.redirects
<1> DEFINE c == CancelQuery(s)
<1>1. Core(c) /\ ~c.query /\ ~c.transaction /\ c.pieces = 0 /\ c.url = s.url /\ c.redirects = s.redirects
  BY CancelQueryCore
<1> HIDE DEF c
<1>2. CASE t = s
  BY <1>2
<1>3. CASE t = Ended(c, "dns")
  BY <1>1, <1>3, EndedCore DEF Ended, Core, Formed
<1>4. CASE t \in Connect(c)
  BY <1>1, <1>4, ConnectCore
<1> QED BY <1>2, <1>3, <1>4 DEF StepQuery, c

\* What is left of a hop when a redirect is followed or refused.
LEMMA ForgetCore ==
  ASSUME NEW s, Core(s), ~s.query, NEW t, t = Forget(s)
  PROVE  Core(t) /\ ~t.query /\ ~t.transaction /\ t.pieces = 0 /\ t.url = s.url
         /\ t.redirects = s.redirects /\ t.method = s.method /\ t.allowed = s.allowed /\ ~t.meta
<1> DEFINE c == CloseTransaction(s)
<1>1. /\ Core(c) /\ ~c.query /\ ~c.transaction /\ c.url = s.url /\ c.redirects = s.redirects
      /\ c.method = s.method /\ c.allowed = s.allowed
  BY DEF Core, Formed, Held, Allowed, Cached, CloseTransaction
<1> HIDE DEF c
<1>2. t = [c EXCEPT !.requestStarted = FALSE, !.headSeen = FALSE, !.reading = FALSE, !.pieces = 0,
                    !.status = None, !.security = None, !.validated = FALSE, !.meta = FALSE,
                    !.capture = None]
  BY DEF Forget, c
<1>3. /\ Formed(t) /\ t.phase = c.phase /\ t.url = c.url /\ t.redirects = c.redirects
      /\ t.method = c.method /\ t.allowed = c.allowed /\ t.posted = c.posted
      /\ t.slots = c.slots /\ t.sockets = c.sockets /\ t.query = c.query
      /\ t.transaction = c.transaction /\ t.useCache = c.useCache
      /\ t.stored = c.stored /\ t.offer = c.offer
  BY <1>1, <1>2, ZenonT(40) DEF Core, Formed
<1>4. t.pieces = 0 /\ t.capture = None /\ ~t.meta
  BY <1>1, <1>2 DEF Core, Formed
<1> QED BY <1>1, <1>3, <1>4 DEF Core, Held, Allowed, Cached

\* What a redirect asks for and what it may not.
Secure(s, t) ==
    t.redirects > s.redirects =>
        /\ s.url.scheme = Https => t.url.scheme = Https
        /\ s.security = "pinned" => t.url.pinned

\* A redirect is refused, or offered to the reader, or followed to where the body
\* may go and the connection is no less secure.
LEMMA RedirectCore ==
  ASSUME Limits, NEW s, Core(s), ~s.query, s.redirects < MaxRedirects,
         NEW status \in {303, 307}, NEW target, NEW t \in RedirectTo(s, status, target)
  PROVE  Core(t) /\ Secure(s, t)
<1> DEFINE f == Forget(s)
<1>1. /\ Core(f) /\ ~f.query /\ ~f.transaction /\ f.pieces = 0 /\ f.url = s.url
      /\ f.redirects = s.redirects /\ f.method = s.method /\ f.allowed = s.allowed
      /\ ~f.meta
  BY ForgetCore
<1> HIDE DEF f
<1>2. ASSUME NEW outcome, t = Ended(f, outcome)
      PROVE  Core(t) /\ Secure(s, t)
  BY <1>1, <1>2, EndedCore DEF Ended, Core, Formed, Secure
<1>3. ASSUME t = [Ended(f, "confirm") EXCEPT !.confirm = [status |-> status, url |-> target]]
      PROVE  Core(t) /\ Secure(s, t)
  BY <1>1, <1>3 DEF Ended, Core, Formed, Held, Allowed, Cached, Secure
<1>4. ASSUME Networked(target), ~(s.url.scheme = Https /\ target.scheme = Http),
             ~LosesIdentity(s, target), MayResend(s, status, target),
             t \in Open([RequestTo(f, status, target) EXCEPT !.redirects = @ + 1])
      PROVE  Core(t) /\ Secure(s, t)
  <2> DEFINE q == [RequestTo(f, status, target) EXCEPT !.redirects = @ + 1]
  <2>1. /\ q.url = target /\ q.redirects = s.redirects + 1 /\ ~q.query /\ ~q.transaction
        /\ q.pieces = 0 /\ Formed(q)
    BY <1>1 DEF RequestTo, Core, Formed
  <2>2. Allowed(q)
    <3>1. q.posted = f.posted /\ q.allowed = f.allowed
          /\ q.method = IF f.method = "post" /\ status = 303 THEN "get" ELSE f.method
      BY <1>1 DEF RequestTo, Core, Formed
    <3> QED BY <1>1, <1>4, <2>1, <3>1 DEF Core, Allowed, MayResend, SameOrigin
  <2>3. Cached(q) /\ Held(q)
    BY <1>1 DEF RequestTo, Core, Formed, Cached, Held
  <2>4. Core(q)
    BY <1>1, <1>4, <2>1, <2>2, <2>3 DEF RequestTo, Core, Formed, Limits
  <2>. t \in Open(q)
    BY <1>4
  <2> HIDE DEF q
  <2>5. Core(t) /\ t.url = target
    BY <2>1, <2>4, OpenCore
  <2>6. Secure(s, t)
    BY <1>4, <2>5 DEF Secure, LosesIdentity, HostIsPinned, Networked, Http, Https
  <2> QED BY <2>5, <2>6
<1>5. \/ \E outcome : t = Ended(f, outcome)
      \/ t = [Ended(f, "confirm") EXCEPT !.confirm = [status |-> status, url |-> target]]
      \/ /\ Networked(target) /\ ~(s.url.scheme = Https /\ target.scheme = Http)
         /\ ~LosesIdentity(s, target) /\ MayResend(s, status, target)
         /\ t \in Open([RequestTo(f, status, target) EXCEPT !.redirects = @ + 1])
  <2>1. CASE ~Networked(target)
    BY <2>1 DEF RedirectTo, f
  <2>2. CASE Networked(target) /\ s.url.scheme = Https /\ target.scheme = Http
    BY <2>2 DEF RedirectTo, f
  <2>3. CASE Networked(target) /\ ~(s.url.scheme = Https /\ target.scheme = Http)
    <3>1. RedirectTo(s, status, target) =
            IF LosesIdentity(s, target) THEN {Ended(f, "authentication downgrade")}
            ELSE IF ~MayResend(s, status, target)
            THEN {[Ended(f, "confirm") EXCEPT !.confirm = [status |-> status, url |-> target]]}
            ELSE Open([RequestTo(f, status, target) EXCEPT !.redirects = @ + 1])
      BY <2>3, Zenon DEF RedirectTo, f
    <3>2. CASE LosesIdentity(s, target)
      <4>1. t = Ended(f, "authentication downgrade")
        BY <3>1, <3>2
      <4> QED BY <4>1
    <3>3. CASE ~LosesIdentity(s, target) /\ ~MayResend(s, status, target)
      BY <3>1, <3>3
    <3>4. CASE ~LosesIdentity(s, target) /\ MayResend(s, status, target)
      BY <2>3, <3>1, <3>4
    <3> QED BY <3>2, <3>3, <3>4
  <2> QED BY <2>1, <2>2, <2>3
<1> QED BY <1>2, <1>3, <1>4, <1>5

\* What else a step changes.
LEMMA NotesCore ==
  ASSUME NEW s, Core(s), NEW head
  PROVE  /\ Core(NoteInvalidation(s, head)) /\ NoteInvalidation(s, head).security = s.security
         /\ NoteInvalidation(s, head).url = s.url /\ NoteInvalidation(s, head).query = s.query
         /\ NoteInvalidation(s, head).redirects = s.redirects
         /\ NoteInvalidation(s, head).pieces = s.pieces
         /\ NoteInvalidation(s, head).useCache = s.useCache
         /\ NoteInvalidation(s, head).headSeen = s.headSeen
<1>1. CASE NoteInvalidation(s, head) = s
  BY <1>1
<1>2. CASE NoteInvalidation(s, head) # s
  <2> DEFINE more == s.invalidated \cup {s.url} \cup
              (IF head.target # None /\ SameOrigin(head.target, s.url) THEN {head.target} ELSE {})
  <2>1. NoteInvalidation(s, head) = [s EXCEPT !.invalidated = more]
    BY <1>2 DEF NoteInvalidation
  <2> HIDE DEF more
  <2> QED BY <2>1 DEF Core, Formed, Held, Allowed, Cached
<1> QED BY <1>1, <1>2

\* An identity that was noted stays noted until the hop is left.
LEMMA NoteSecurityCore ==
  ASSUME Limits, NEW s, Core(s), NEW t, t = NoteSecurity(s)
  PROVE  /\ Core(t) /\ t.url = s.url /\ t.redirects = s.redirects /\ t.query = s.query
         /\ t.pieces = s.pieces /\ t.method = s.method /\ t.posted = s.posted
         /\ t.allowed = s.allowed
         /\ s.security = "pinned" => t.security = "pinned"
<1>1. CASE s.security # None
  BY <1>1 DEF NoteSecurity
<1>2. CASE s.security = None
  <2> DEFINE told == IF s.url.scheme = Http THEN "cleartext"
                     ELSE IF s.url.pinned THEN "pinned" ELSE "unverified"
  <2>1. t = [s EXCEPT !.security = told]
    BY <1>2 DEF NoteSecurity
  <2> HIDE DEF told
  <2> QED BY <1>2, <2>1 DEF Core, Formed, Held, Allowed, Cached, Limits
<1> QED BY <1>1, <1>2

\* A head that is no redirect.
LEMMA AnsweredCore ==
  ASSUME Limits, NEW s, Core(s), ~s.query, s.headSeen, s.pieces = 0, NEW head,
         NEW t, t = Answered(s, head)
  PROVE  Core(t) /\ t.redirects = s.redirects
<1> DEFINE n == NoteInvalidation(s, head)
           noted == [n EXCEPT !.finalStatus = head.status, !.meta = Storable(s, head)]
           keeping == [noted EXCEPT !.capture = IF noted.meta THEN 0 ELSE None]
<1>1. /\ Core(n) /\ ~n.query /\ n.redirects = s.redirects /\ n.pieces = 0 /\ n.headSeen
      /\ n.useCache = s.useCache
  BY NotesCore
<1> HIDE DEF n
<1>2. Core(noted) /\ noted.redirects = s.redirects /\ noted.pieces = 0
  BY <1>1 DEF Core, Formed, Held, Allowed, Cached, Storable
<1> HIDE DEF noted
<1>3. Core(keeping) /\ keeping.redirects = s.redirects
  BY <1>2 DEF Core, Formed, Held, Allowed, Cached, Limits
<1> HIDE DEF keeping
<1>4. ASSUME NEW u, Core(u), u.redirects = s.redirects, NEW outcome, t = Ended(u, outcome)
      PROVE  Core(t) /\ t.redirects = s.redirects
  BY <1>4, EndedCore DEF Ended, Core, Formed
<1>5. CASE head.status = 304 /\ s.redirects = 0 /\ s.validated
  <2>1. t = Ended(n, "not modified")
    BY <1>5 DEF Answered, n
  <2> QED BY <1>1, <1>4, <2>1
<1>6. CASE ~(head.status = 304 /\ s.redirects = 0 /\ s.validated) /\ s.image
  <2>1. \/ t = Ended(noted, "refused") \/ t = Ended(noted, "not an image")
        \/ t = [noted EXCEPT !.reading = TRUE]
    BY <1>6 DEF Answered, noted, n
  <2>2. CASE t = [noted EXCEPT !.reading = TRUE]
    BY <1>2, <2>2 DEF Core, Formed, Held, Allowed, Cached
  <2> QED BY <1>2, <1>4, <2>1, <2>2
<1>7. CASE ~(head.status = 304 /\ s.redirects = 0 /\ s.validated) /\ ~s.image
  <2>1. \/ t = Ended(keeping, "not html")
        \/ \E status : t = [keeping EXCEPT !.reading = TRUE, !.status = status]
    BY <1>7 DEF Answered, keeping, noted, n
  <2>2. ASSUME NEW status, t = [keeping EXCEPT !.reading = TRUE, !.status = status]
        PROVE  Core(t) /\ t.redirects = s.redirects
    BY <1>3, <2>2 DEF Core, Formed, Held, Allowed, Cached
  <2> QED BY <1>3, <1>4, <2>1, <2>2
<1> QED BY <1>5, <1>6, <1>7

\* Every head.
LEMMA HeadReadyCore ==
  ASSUME Limits, NEW s, Core(s), ~s.query, s.headSeen, s.pieces = 0, NEW head \in Heads,
         NEW t \in HeadReady(s, head)
  PROVE  Core(t) /\ Secure(s, t)
<1> DEFINE n == NoteInvalidation(s, head)
<1>1. /\ Core(n) /\ ~n.query /\ n.redirects = s.redirects /\ n.security = s.security
      /\ n.url = s.url
  BY NotesCore
<1> HIDE DEF n
<1>2. ASSUME NEW outcome, t = Ended(s, outcome)
      PROVE  Core(t) /\ Secure(s, t)
  BY <1>2, EndedCore DEF Ended, Core, Formed, Secure
<1>3. CASE IsRedirect(head) /\ s.redirects >= MaxRedirects
  BY <1>2, <1>3 DEF HeadReady
<1>4. CASE IsRedirect(head) /\ s.redirects < MaxRedirects /\ head.target = None
  BY <1>2, <1>4 DEF HeadReady, Core, Limits
<1>5. CASE IsRedirect(head) /\ s.redirects < MaxRedirects /\ head.target # None
  <2>1. HeadReady(s, head) = RedirectTo(n, head.status, head.target)
    <3>1. ~(s.redirects >= MaxRedirects)
      BY <1>5 DEF Core, Limits
    <3> QED BY <1>5, <3>1, Zenon DEF HeadReady, n
  <2>2. n.redirects < MaxRedirects /\ head.status \in {303, 307}
    BY <1>1, <1>5 DEF IsRedirect
  <2>3. Core(t) /\ Secure(n, t)
    BY <1>1, <2>1, <2>2, RedirectCore
  <2> QED BY <1>1, <2>3 DEF Secure
<1>6. CASE ~IsRedirect(head) /\ head.status = 0
  BY <1>2, <1>6 DEF HeadReady
<1>7. CASE ~IsRedirect(head) /\ head.status # 0
  <2>1. t = Answered(s, head)
    BY <1>7 DEF HeadReady
  <2> QED BY <2>1, AnsweredCore DEF Secure, Core
<1>8. s.redirects \in Nat /\ MaxRedirects \in Nat
  BY DEF Core, Limits
<1> QED BY <1>3, <1>4, <1>5, <1>6, <1>7, <1>8

\* A piece of the body, with its copy or without.
LEMMA SinkCore ==
  ASSUME Limits, NEW s, Core(s), ~s.query, s.headSeen, NEW t, t = Sink(s)
  PROVE  Core(t) /\ t.redirects = s.redirects
<1> DEFINE capture == IF s.capture = None THEN None ELSE IF s.capture < MaxEntry THEN s.capture + 1 ELSE None
<1>1. t = [s EXCEPT !.pieces = @ + 1, !.capture = capture]
  BY DEF Sink
<1>2. capture # None => capture = s.pieces + 1 /\ s.pieces + 1 <= MaxEntry
  BY DEF Core, Cached, Limits
<1> HIDE DEF capture
<1> QED BY <1>1, <1>2 DEF Core, Formed, Held, Allowed, Cached

\* The end of the body.
LEMMA CompleteCore ==
  ASSUME NEW s, Core(s), NEW t, t = Complete(s)
  PROVE  Core(t) /\ t.redirects = s.redirects
<1>1. ASSUME NEW outcome, t = Ended(s, outcome)
      PROVE  Core(t) /\ t.redirects = s.redirects
  BY <1>1, EndedCore DEF Ended, Core, Formed
<1>2. ASSUME t = [Ended(s, "image") EXCEPT
                    !.capture = IF s.meta /\ s.pieces <= MaxEntry THEN s.pieces ELSE None]
      PROVE  Core(t) /\ t.redirects = s.redirects
  BY <1>2 DEF Ended, Core, Formed, Held, Allowed, Cached
<1>3. \/ t = Ended(s, "empty") \/ t = Ended(s, "refused") \/ t = Ended(s, "page")
      \/ t = [Ended(s, "image") EXCEPT
                    !.capture = IF s.meta /\ s.pieces <= MaxEntry THEN s.pieces ELSE None]
  BY DEF Complete
<1> QED BY <1>1, <1>2, <1>3

\* The request leaves, with its body.
LEMMA SendCore ==
  ASSUME Limits, NEW s, Core(s), NEW t, t = Send(s)
  PROVE  Core(t) /\ t.redirects = s.redirects
<1> DEFINE n == NoteSecurity(s)
<1>1. Core(n) /\ n.redirects = s.redirects /\ n.method = s.method /\ n.url = s.url
  BY NoteSecurityCore
<1>2. t = [n EXCEPT !.requestStarted = TRUE,
                    !.posted = IF s.method = "post" THEN @ \cup {s.url.origin} ELSE @]
  BY DEF Send
<1> HIDE DEF n
<1> QED BY <1>1, <1>2 DEF Core, Formed, Held, Allowed, Cached

\* step_transfer.
LEMMA StepTransferCore ==
  ASSUME Limits, NEW s, Core(s), ~s.query, NEW t \in StepTransfer(s)
  PROVE  Core(t) /\ Secure(s, t)
<1>1. ASSUME Core(t), t.redirects = s.redirects
      PROVE  Core(t) /\ Secure(s, t)
  BY <1>1 DEF Core, Secure
<1>2. CASE t = s
  BY <1>1, <1>2
<1>3. CASE t = Ended(s, "failed")
  BY <1>1, <1>3, EndedCore DEF Ended, Core, Formed
<1>4. CASE t = Send(s)
  BY <1>1, <1>4, SendCore
<1>5. ASSUME ~s.headSeen, NEW head \in Heads,
             t \in HeadReady([NoteSecurity(s) EXCEPT !.headSeen = TRUE], head)
      PROVE  Core(t) /\ Secure(s, t)
  <2> DEFINE n == NoteSecurity(s)
             h == [n EXCEPT !.headSeen = TRUE]
  <2>1. /\ Core(n) /\ n.url = s.url /\ n.redirects = s.redirects /\ n.query = s.query
        /\ n.pieces = s.pieces /\ (s.security = "pinned" => n.security = "pinned")
    BY NoteSecurityCore
  <2>2. s.pieces = 0
    BY <1>5 DEF Core, Cached
  <2> HIDE DEF n
  <2>3. /\ Core(h) /\ h.url = s.url /\ h.redirects = s.redirects /\ ~h.query /\ h.headSeen
        /\ h.pieces = 0 /\ (s.security = "pinned" => h.security = "pinned")
    BY <2>1, <2>2 DEF Core, Formed, Held, Allowed, Cached
  <2>4. t \in HeadReady(h, head)
    BY <1>5 DEF n
  <2> HIDE DEF h
  <2>5. Core(t) /\ Secure(h, t)
    BY <2>3, <2>4, HeadReadyCore
  <2> QED BY <2>3, <2>5 DEF Secure
<1>6. CASE s.headSeen /\ t = Sink(s)
  BY <1>1, <1>6, SinkCore
<1>7. CASE t = Complete(s)
  BY <1>1, <1>7, CompleteCore
<1>8. CASE s.headSeen /\ t = Ended(Sink(s), "cannot show")
  <2> DEFINE k == Sink(s)
  <2>1. Core(k) /\ k.redirects = s.redirects
    BY <1>8, SinkCore
  <2> HIDE DEF k
  <2>2. t = Ended(k, "cannot show")
    BY <1>8 DEF k
  <2> QED BY <1>1, <2>1, <2>2, EndedCore DEF Ended, Core, Formed
<1>9. \/ t = s \/ t = Ended(s, "failed") \/ t = Send(s)
      \/ ~s.headSeen /\ \E head \in Heads : t \in HeadReady([NoteSecurity(s) EXCEPT !.headSeen = TRUE], head)
      \/ s.headSeen /\ t = Sink(s)
      \/ t = Complete(s)
      \/ s.headSeen /\ t = Ended(Sink(s), "cannot show")
  <2>1. CASE ~s.requestStarted
    BY <2>1 DEF StepTransfer
  <2>2. CASE s.requestStarted /\ ~s.headSeen
    BY <2>2 DEF StepTransfer
  <2>3. CASE s.requestStarted /\ s.headSeen
    BY <2>3 DEF StepTransfer
  <2> QED BY <2>1, <2>2, <2>3
<1> QED BY <1>2, <1>3, <1>4, <1>5, <1>6, <1>7, <1>8, <1>9

(* What is left when nothing is being fetched. *)
Truth(s) ==
    s.stored # None /\ s.stored.update = "store" =>
        /\ s.shown \in {"page", "image"} /\ s.redirects = 0 /\ s.method = "get"
        /\ s.stored.size = s.stored.pieces /\ s.stored.size <= MaxEntry
\* A hop the reader is asked about is at most one past the limit.
Offered(s) == s.offer # None => s.offer.redirects \in 0 .. MaxRedirects + 1
\* Nothing is being fetched.
Rest(s) ==
    /\ Formed(s) /\ s.phase \in {"none", "ended"}
    /\ ~s.query /\ ~s.transaction /\ s.slots = 0 /\ s.sockets = 0
    /\ s.posted \subseteq s.allowed /\ s.redirects \in 0 .. MaxRedirects + 1
    /\ Offered(s) /\ Truth(s)

\* Whatever was held is given back.
LEMMA CloseRest ==
  ASSUME NEW s, Core(s), NEW t, t = Close(s)
  PROVE  /\ Formed(t) /\ ~t.query /\ ~t.transaction /\ t.slots = 0 /\ t.sockets = 0
         /\ t.posted = s.posted /\ t.allowed = s.allowed /\ t.redirects = s.redirects
         /\ t.method = s.method /\ t.stored = s.stored /\ t.offer = s.offer
<1>1. CASE s.query
  BY <1>1 DEF Core, Formed, Held, Close, CancelQuery, CloseTransaction
<1>2. CASE ~s.query
  BY <1>2 DEF Core, Formed, Held, Close, CloseTransaction
<1> QED BY <1>1, <1>2

\* What the browser makes of how a fetch ended.
LEMMA ShownRest ==
  ASSUME Limits, NEW s, Core(s), NEW t, t = Shown(s)
  PROVE  Rest(t) /\ (s.outcome = "working" => t.stored = None)
<1> DEFINE c == Close(s)
           closed == [c EXCEPT !.phase = "ended", !.shown = s.outcome,
                               !.changed = @ \cup s.invalidated, !.invalidated = {}]
<1>1. /\ Formed(c) /\ ~c.query /\ ~c.transaction /\ c.slots = 0 /\ c.sockets = 0
      /\ c.posted = s.posted /\ c.allowed = s.allowed /\ c.redirects = s.redirects
      /\ c.method = s.method /\ c.stored = s.stored /\ c.offer = s.offer
  BY CloseRest
<1> HIDE DEF c
<1>2. /\ Formed(closed) /\ closed.phase = "ended" /\ ~closed.query /\ ~closed.transaction
      /\ closed.slots = 0 /\ closed.sockets = 0 /\ closed.posted \subseteq closed.allowed
      /\ closed.redirects = s.redirects /\ closed.method = s.method /\ closed.shown = s.outcome
      /\ closed.stored = None /\ closed.offer = None
  BY <1>1 DEF Core, Formed, Allowed
<1>3. s.redirects \in 0 .. MaxRedirects + 1
  BY DEF Core, Limits
<1>4. CASE s.outcome \in {"page", "image"}
  <2> DEFINE stored == IF TakeCacheUpdate(s) = "keep" THEN None
                       ELSE [update |-> TakeCacheUpdate(s), url |-> s.url,
                             size |-> s.capture, pieces |-> s.pieces]
  <2>1. t = [closed EXCEPT !.stored = stored]
    BY <1>4 DEF Shown, c
  <2>2. stored # None /\ stored.update = "store" =>
          /\ s.redirects = 0 /\ s.method = "get"
          /\ stored.size = stored.pieces /\ stored.size <= MaxEntry
    BY DEF TakeCacheUpdate, Core, Cached
  <2> HIDE DEF stored, closed
  <2>3. Formed(t) /\ t.phase = closed.phase /\ t.stored = stored /\ t.offer = None
        /\ t.query = closed.query /\ t.transaction = closed.transaction /\ t.slots = 0 /\ t.sockets = 0
        /\ t.posted = closed.posted /\ t.allowed = closed.allowed /\ t.redirects = s.redirects
        /\ t.method = s.method /\ t.shown = s.outcome
    BY <1>2, <2>1 DEF Formed
  <2> QED BY <1>2, <1>3, <1>4, <2>2, <2>3 DEF Rest, Offered, Truth
<1>5. CASE s.outcome \notin {"page", "image"} /\ s.method = "post"
  <2> DEFINE offer == EndPost(s)
  <2>1. t = [closed EXCEPT !.offer = offer]
    BY <1>5 DEF Shown, c
  <2>2. offer # None => offer.redirects \in 0 .. MaxRedirects + 1
    <3>1. CASE s.outcome = "confirm"
      BY <3>1 DEF EndPost, Core, Limits
    <3>2. CASE s.outcome # "confirm" /\ s.requestStarted /\ s.headSeen
      BY <3>2 DEF EndPost
    <3>3. CASE s.outcome # "confirm" /\ ~(s.requestStarted /\ s.headSeen)
      <4>1. EndPost(s) = [url |-> s.url, redirects |-> 0,
                          reason |-> IF s.requestStarted THEN "unknown" ELSE "not sent"]
        BY <3>3 DEF EndPost
      <4>2. 0 \in 0 .. MaxRedirects + 1
        BY DEF Limits
      <4>3. EndPost(s).redirects = [url |-> s.url, redirects |-> 0,
                reason |-> IF s.requestStarted THEN "unknown" ELSE "not sent"].redirects
        BY <4>1, Zenon
      <4> QED BY <4>2, <4>3
    <3> QED BY <3>1, <3>2, <3>3
  <2> HIDE DEF offer, closed
  <2>3. Formed(t) /\ t.phase = closed.phase /\ t.stored = None /\ t.offer = offer
        /\ t.query = closed.query /\ t.transaction = closed.transaction /\ t.slots = 0 /\ t.sockets = 0
        /\ t.posted = closed.posted /\ t.allowed = closed.allowed /\ t.redirects = s.redirects
    BY <1>2, <2>1 DEF Formed
  <2> QED BY <1>2, <1>3, <2>2, <2>3 DEF Rest, Offered, Truth
<1>6. CASE s.outcome \notin {"page", "image"} /\ s.method # "post"
  <2>1. t = closed
    BY <1>6 DEF Shown, c
  <2> HIDE DEF closed
  <2> QED BY <1>2, <1>3, <2>1 DEF Rest, Offered, Truth
<1> QED BY <1>4, <1>5, <1>6

(* A request as Get, Post and Confirm make it. *)
Asked(s) ==
    /\ Formed(s) /\ s.phase = "open" /\ s.redirects \in 0 .. MaxRedirects + 1
    /\ Held(s) /\ Allowed(s) /\ Cached(s) /\ ~s.query /\ ~s.transaction /\ s.pieces = 0
    /\ s.stored = None /\ s.offer = None /\ s.outcome = "working"

\* The inductive invariant: nothing is being fetched, or a fetch is under way.
IInv == Rest(fetch) \/ (Core(fetch) /\ fetch.outcome = "working")

\* A request that ended before it began.
LEMMA EndedRest ==
  ASSUME NEW s, Formed(s), Allowed(s), Held(s), ~s.query, ~s.transaction, s.stored = None, s.offer = None,
         s.redirects \in 0 .. MaxRedirects + 1, NEW shown,
         NEW t, t = [s EXCEPT !.phase = "ended", !.shown = shown]
  PROVE  Rest(t)
BY DEF Formed, Allowed, Held, Rest, Offered, Truth

\* A request begins, or ends at once.
LEMMA BeginKeeps ==
  ASSUME Limits, NEW s, Asked(s), fetch' \in Begin(s)
  PROVE  IInv'
<1>1. PICK t \in Started(s) :
        fetch' = IF t.outcome = "working" THEN t ELSE [t EXCEPT !.phase = "ended", !.shown = t.outcome]
  BY DEF Begin
<1>2. ASSUME NEW outcome, outcome # "working", t = Ended(s, outcome)
      PROVE  IInv'
  <2>1. t.outcome = outcome /\ Formed(t) /\ Allowed(t) /\ Held(t) /\ ~t.query /\ ~t.transaction
        /\ t.stored = None /\ t.offer = None /\ t.redirects = s.redirects
    BY <1>2 DEF Ended, Asked, Formed, Allowed, Held
  <2>2. fetch' = [t EXCEPT !.phase = "ended", !.shown = t.outcome]
    BY <1>1, <1>2, <2>1
  <2>3. Rest(fetch')
    BY <2>1, <2>2, EndedRest DEF Asked
  <2> QED BY <2>3 DEF IInv, Rest, Formed, Offered, Truth
<1>3. CASE s.redirects > MaxRedirects
  BY <1>1, <1>2, <1>3 DEF Started
<1>4. CASE ~(s.redirects > MaxRedirects) /\ ~Networked(s.url)
  BY <1>1, <1>2, <1>4 DEF Started
<1>5. CASE ~(s.redirects > MaxRedirects) /\ Networked(s.url)
  <2>1. t \in Open(s)
    BY <1>1, <1>5 DEF Started
  <2>2. Core(s)
    BY <1>5 DEF Asked, Core, Limits
  <2>3. Core(t)
    BY <2>1, <2>2, OpenCore DEF Asked
  <2>4. CASE t.outcome = "working"
    BY <1>1, <2>3, <2>4 DEF IInv
  <2>5. CASE t.outcome # "working"
    <3>1. t \in {Ended(s, "dns"), Ended(s, "cannot connect")}
      BY <2>1, <2>5 DEF Open, Connect, Asked, Formed
    <3> QED BY <1>2, <3>1
  <2> QED BY <2>4, <2>5
<1> QED BY <1>3, <1>4, <1>5

\* The fields of a request.
LEMMA FreshAsked ==
  ASSUME Limits, NEW keep, Formed(keep), keep.phase = "open", keep.slots = 0, keep.sockets = 0,
         ~keep.query, ~keep.transaction, keep.pieces = 0, keep.stored = None, keep.offer = None,
         keep.outcome = "working", ~keep.meta, keep.capture = None,
         keep.posted \subseteq keep.allowed,
         NEW url, NEW method, method = "post" => url.origin \in keep.allowed, NEW image,
         NEW cache, cache => method = "get", NEW validator,
         NEW redirects \in 0 .. MaxRedirects + 1,
         NEW t, t = Fresh(keep, url, method, image, cache, validator, redirects)
  PROVE  Asked(t)
<1>1. /\ Formed(t) /\ t.phase = "open" /\ t.slots = 0 /\ t.sockets = 0 /\ ~t.query
      /\ ~t.transaction /\ t.pieces = 0 /\ t.stored = None /\ t.offer = None
      /\ t.outcome = "working" /\ ~t.meta /\ t.capture = None
      /\ t.posted = keep.posted /\ t.allowed = keep.allowed /\ t.url = url
      /\ t.method = method /\ t.useCache = cache /\ t.redirects = redirects
  BY DEF Fresh, Formed
<1> QED BY <1>1 DEF Asked, Held, Allowed, Cached

(* What a request starts from. *)
LEMMA KeepIsFresh ==
  /\ Formed(Keep) /\ Keep.phase = "open" /\ Keep.slots = 0 /\ Keep.sockets = 0
  /\ ~Keep.query /\ ~Keep.transaction /\ Keep.pieces = 0 /\ Keep.stored = None /\ Keep.offer = None
  /\ Keep.outcome = "working" /\ ~Keep.meta /\ Keep.capture = None /\ Keep.posted = {}
BY DEF Keep, Nothing, Formed

\* A page or an image is asked for.
LEMMA GetKeeps ==
  ASSUME Limits, Get
  PROVE  IInv'
<1>1. PICK url \in Urls, image \in BOOLEAN, validator \in BOOLEAN :
        fetch' \in Begin(Fresh(Keep, url, "get", image, TRUE, validator, 0))
  BY DEF Get
<1>2. Keep.posted \subseteq Keep.allowed /\ 0 \in 0 .. MaxRedirects + 1 /\ ~("get" = "post")
  BY KeepIsFresh DEF Limits
<1>3. Asked(Fresh(Keep, url, "get", image, TRUE, validator, 0))
  BY <1>2, KeepIsFresh, FreshAsked
<1> QED BY <1>1, <1>3, BeginKeeps

\* A form is sent.
LEMMA PostKeeps ==
  ASSUME Limits, Post
  PROVE  IInv'
<1>1. PICK url \in Urls :
        fetch' \in Begin(Fresh([Keep EXCEPT !.allowed = {url.origin}], url, "post", FALSE, FALSE, FALSE, 0))
  BY DEF Post
<1> DEFINE keep == [Keep EXCEPT !.allowed = {url.origin}]
<1>2. /\ Formed(keep) /\ keep.phase = "open" /\ keep.slots = 0 /\ keep.sockets = 0
      /\ ~keep.query /\ ~keep.transaction /\ keep.pieces = 0 /\ keep.stored = None /\ keep.offer = None
      /\ keep.outcome = "working" /\ ~keep.meta /\ keep.capture = None
      /\ keep.posted \subseteq keep.allowed /\ url.origin \in keep.allowed
      /\ 0 \in 0 .. MaxRedirects + 1
  BY KeepIsFresh DEF Formed, Limits
<1>3. fetch' \in Begin(Fresh(keep, url, "post", FALSE, FALSE, FALSE, 0))
  BY <1>1
<1> HIDE DEF keep
<1>4. Asked(Fresh(keep, url, "post", FALSE, FALSE, FALSE, 0))
  BY <1>2, FreshAsked
<1> QED BY <1>3, <1>4, BeginKeeps

\* The reader agrees to a hop.
LEMMA ConfirmKeeps ==
  ASSUME Limits, IInv, Confirm
  PROVE  IInv'
<1> DEFINE url == fetch.offer.url
           redirects == fetch.offer.redirects
           keep == [Keep EXCEPT !.allowed = fetch.allowed \cup {url.origin},
                                !.posted = fetch.posted, !.hops = @ + 1]
<1>1. fetch' \in Begin(Fresh(keep, url, "post", FALSE, FALSE, FALSE, redirects))
  BY DEF Confirm
<1>2. fetch.posted \subseteq fetch.allowed /\ redirects \in 0 .. MaxRedirects + 1
  BY DEF Confirm, IInv, Rest, Core, Offered
<1>3. /\ Formed(keep) /\ keep.phase = "open" /\ keep.slots = 0 /\ keep.sockets = 0
      /\ ~keep.query /\ ~keep.transaction /\ keep.pieces = 0 /\ keep.stored = None /\ keep.offer = None
      /\ keep.outcome = "working" /\ ~keep.meta /\ keep.capture = None
      /\ keep.posted = fetch.posted /\ keep.allowed = fetch.allowed \cup {url.origin}
  BY KeepIsFresh DEF Formed
<1> HIDE DEF keep, url, redirects
<1>4. Asked(Fresh(keep, url, "post", FALSE, FALSE, FALSE, redirects))
  BY <1>2, <1>3, FreshAsked DEF Limits
<1> QED BY <1>1, <1>4, BeginKeeps

\* A frame of a fetch.
LEMMA StepKeeps ==
  ASSUME Limits, IInv, Step
  PROVE  IInv' /\ (fetch'.phase = "open" => Secure(fetch, fetch'))
<1>1. Core(fetch) /\ fetch.outcome = "working"
  BY DEF IInv, Step, Rest
<1>2. PICK t \in IF fetch.query THEN StepQuery(fetch) ELSE StepTransfer(fetch) : fetch' = Settled(t)
  BY DEF Step
<1>3. Core(t) /\ Secure(fetch, t)
  <2>1. CASE fetch.query
    BY <1>1, <1>2, <2>1, StepQueryCore DEF Secure, Core
  <2>2. CASE ~fetch.query
    BY <1>1, <1>2, <2>2, StepTransferCore
  <2> QED BY <2>1, <2>2
<1>4. CASE t.outcome = "working"
  BY <1>2, <1>3, <1>4 DEF Settled, IInv
<1>5. CASE t.outcome # "working"
  <2>1. fetch' = Shown(t)
    BY <1>2, <1>5 DEF Settled
  <2>2. Rest(fetch')
    BY <1>3, <2>1, ShownRest
  <2> QED BY <2>2 DEF IInv, Rest, Formed, Offered, Truth
<1> QED BY <1>4, <1>5

\* The reader stops it.
LEMMA StopKeeps ==
  ASSUME Limits, IInv, Stop
  PROVE  IInv' /\ fetch'.phase # "open"
<1>1. Core(fetch) /\ fetch.outcome = "working"
  BY DEF IInv, Stop, Rest
<1> DEFINE t == Shown(fetch)
<1>2. Rest(t) /\ t.stored = None
  BY <1>1, ShownRest
<1>3. fetch' = [t EXCEPT !.offer = None, !.shown = "stopped"]
  BY DEF Stop
<1> HIDE DEF t
<1>4. Rest(fetch')
  BY <1>2, <1>3 DEF Rest, Formed, Offered, Truth
<1> QED BY <1>4 DEF IInv, Rest, Formed, Offered, Truth

\* The reader does not agree.
LEMMA DeclineKeeps ==
  ASSUME IInv, Decline
  PROVE  IInv' /\ fetch'.redirects = fetch.redirects
<1>1. Rest(fetch)
  BY DEF IInv, Core, Decline
<1>2. Rest(fetch') /\ fetch'.redirects = fetch.redirects
  BY <1>1 DEF Decline, Rest, Formed, Offered, Truth
<1> QED BY <1>2 DEF IInv, Rest, Formed, Offered, Truth

\* The first state.
LEMMA InitKeeps ==
  ASSUME Limits, Init
  PROVE  IInv
<1>1. Rest(Nothing)
  BY DEF Rest, Formed, Offered, Truth, Nothing, Limits
<1> QED BY <1>1 DEF Init, IInv

\* Every step, and that it is no less secure.
LEMMA NextKeeps ==
  ASSUME Limits, IInv, [Next]_fetch
  PROVE  /\ IInv'
         /\ fetch.phase = "open" /\ fetch'.phase = "open" => Secure(fetch, fetch')
<1>1. CASE UNCHANGED fetch
  <2>1. IInv'
    BY <1>1 DEF IInv, Rest, Core, Formed, Held, Allowed, Cached, Offered, Truth
  <2>2. fetch.redirects \in Nat
    BY DEF IInv, Rest, Core, Limits
  <2> QED BY <1>1, <2>1, <2>2 DEF Secure
<1>2. CASE Get
  BY <1>2, GetKeeps DEF Get
<1>3. CASE Post
  BY <1>3, PostKeeps DEF Post
<1>4. CASE Step
  BY <1>4, StepKeeps
<1>5. CASE Stop
  BY <1>5, StopKeeps
<1>6. CASE Confirm
  BY <1>6, ConfirmKeeps DEF Confirm
<1>7. CASE Decline
  <2>1. fetch.redirects \in Nat
    BY DEF IInv, Rest, Core, Limits
  <2> QED BY <1>7, <2>1, DeclineKeeps DEF Secure
<1> QED BY <1>1, <1>2, <1>3, <1>4, <1>5, <1>6, <1>7 DEF Next

\* Whatever the servers, the network and the reader do, the inductive invariant
\* holds of every state.
THEOREM Inductive == ASSUME Limits PROVE Spec => []IInv
<1>1. Init => IInv
  BY InitKeeps
<1>2. IInv /\ [Next]_fetch => IInv'
  BY NextKeeps
<1> QED BY <1>1, <1>2, PTL DEF Spec

\* A fetch is at a phase there is, at a network address, within its limit of hops,
\* and asks for a name or talks to a server but not both.
THEOREM TypeCorrect == ASSUME Limits PROVE Spec => []TypeOK
<1>1. IInv => TypeOK
  BY DEF IInv, Rest, Core, Held, TypeOK, Limits
<1> QED BY <1>1, Inductive, PTL

\* CloseTransaction, CancelQuery and Close: however a fetch ends, its slot and its
\* socket have been given back.
THEOREM Released == ASSUME Limits PROVE Spec => []ResourcesReleased
<1>1. IInv => ResourcesReleased
  BY DEF IInv, Rest, Core, Held, ResourcesReleased
<1> QED BY <1>1, Inductive, PTL

\* MayResend and Confirm: whatever redirects are asked for, the body of a POST has
\* only gone to origins the reader sent it to or agreed to.
THEOREM BodiesGoWhereAllowed == ASSUME Limits PROVE Spec => []BodyGoesWhereAllowed
<1>1. IInv => BodyGoesWhereAllowed
  BY DEF IInv, Rest, Core, Allowed, BodyGoesWhereAllowed
<1> QED BY <1>1, Inductive, PTL

\* TakeCacheUpdate: only a whole body, of a GET answered without a redirect and no
\* larger than an entry, is given to the cache.
THEOREM CacheIsTold == ASSUME Limits PROVE Spec => []CacheLearnsTheTruth
<1>1. IInv => CacheLearnsTheTruth
  BY DEF IInv, Rest, Core, Truth, CacheLearnsTheTruth
<1> QED BY <1>1, Inductive, PTL

\* HeadReady and Started: a chain of redirects, with the hops the reader agreed to,
\* is no longer than the limit.
THEOREM ChainsAreBounded == ASSUME Limits PROVE Spec => []ChainIsBounded
<1>1. IInv => ChainIsBounded
  BY DEF IInv, Rest, Core, Limits, ChainIsBounded
<1> QED BY <1>1, Inductive, PTL

\* RedirectTo: no redirect leaves https for http, nor an identity that was checked
\* for a host without a pin.
THEOREM RedirectsStaySecure == ASSUME Limits PROVE Spec => NeverLessSecure
<1>1. IInv /\ [Next]_fetch =>
        [fetch.phase = "open" /\ fetch'.phase = "open" /\ fetch'.redirects > fetch.redirects =>
           /\ fetch.url.scheme = Https => fetch'.url.scheme = Https
           /\ fetch.security = "pinned" => fetch'.url.pinned]_fetch
  BY NextKeeps DEF Secure
<1> QED BY <1>1, Inductive, PTL DEF Spec, NeverLessSecure

---------------------------------------------------------------------------
(* Downloads.  How far a command has come decides what each of the two     *)
(* names holds; what it said last follows from that.                       *)

CONSTANTS Blocks, Space
VARIABLE download

Files == INSTANCE Downloads

Says == {"none", "cannot write", "discarded", "left", "saved", "saved as part", "power", "whole"}
Reports == {None} \cup Says

\* What the theorems about downloads assume: the file that is there and the one of
\* the user fit on the volume, and no outcome is the marker for none.
RoomForFiles == Blocks \in Nat /\ Space \in Nat /\ Space >= 2 /\ None \notin Says

Shapes ==
  [phase : {"idle", "named", "transfer", "finish", "rename"}, kind : {None, "tftp", "http"},
   destination : {"none", "old", "whole"}, part : {"none", "user", "some", "page", "whole"},
   sent : Nat, mounted : BOOLEAN, open : SUBSET {"destination", "part"},
   outcome : {None, "whole", "failed", "interrupted", "page"}, report : Reports, had : BOOLEAN]

\* The two names, what has arrived and what the command knows of it.
Forms(d) ==
  /\ d \in Shapes
  /\ Files!Free(d) >= 0

\* How far a command has come says what is under the temporary name, and the old
\* file is only gone while the whole new one is there.
UnderWay(d) ==
  /\ d.phase # "idle" => d.report = None
  /\ d.phase = "named" => d.outcome = None
  /\ d.phase = "transfer" => d.part = "some" /\ (d.outcome = "whole" => d.sent = Blocks)
  /\ d.phase = "finish" =>
       d.part = CASE d.outcome = "whole" -> "whole" [] d.outcome = "page" -> "page" [] OTHER -> "some"
  /\ d.phase = "rename" => d.part = "whole" /\ d.destination = "none"
  /\ d.phase \in {"named", "transfer", "finish"} => (d.had => d.destination \in Files!Kept)

\* What a command that ended has said.
Said(d) ==
  d.phase = "idle" =>
    /\ d.report = "saved" => d.destination = "whole" /\ d.part = "none"
    /\ d.report = "saved as part" => d.part = "whole"
    /\ d.report = "discarded" => d.part = "none"
    /\ d.report = "left" => d.part \in {"some", "page"}
    /\ d.had /\ d.report \notin {"saved as part", "power"} => d.destination \in Files!Kept

Downloading == Forms(download) /\ UnderWay(download) /\ Said(download)

\* What each file holds.
LEMMA HeldIs ==
  ASSUME RoomForFiles, NEW d
  PROVE  /\ Files!HeldBy(d, "none") = 0 /\ Files!HeldBy(d, "old") = 1 /\ Files!HeldBy(d, "user") = 1
         /\ Files!HeldBy(d, "whole") = Blocks
         /\ Files!HeldBy(d, "some") = d.sent /\ Files!HeldBy(d, "page") = d.sent
<1>1. DOMAIN Files!Sizes = {"old", "user", "whole"}
  BY DEF Files!Sizes
<1>2. Files!Sizes["old"] = 1 /\ Files!Sizes["user"] = 1 /\ Files!Sizes["whole"] = Blocks
  BY DEF Files!Sizes
<1> QED BY <1>1, <1>2 DEF Files!HeldBy, RoomForFiles

LEMMA FreeIs ==
  ASSUME RoomForFiles, NEW d, d.destination \in {"none", "old", "whole"},
         d.part \in {"none", "user", "some", "page", "whole"}, d.sent \in Nat
  PROVE  Files!Free(d) =
           Space - (IF d.destination = "none" THEN 0 ELSE IF d.destination = "old" THEN 1 ELSE Blocks)
                 - (IF d.part = "none" THEN 0 ELSE IF d.part = "user" THEN 1
                    ELSE IF d.part = "whole" THEN Blocks ELSE d.sent)
BY HeldIs DEF Files!Free, RoomForFiles

LEMMA EndedIs ==
  ASSUME RoomForFiles, NEW d, Forms(d), NEW report \in Reports
  PROVE  /\ Files!Ended(d, report) =
              [d EXCEPT !.phase = "idle", !.report = report, !.kind = None,
                        !.sent = IF d.part = "none" THEN 0 ELSE IF d.part = "user" THEN 1
                                 ELSE IF d.part = "whole" THEN Blocks ELSE d.sent]
         /\ Forms(Files!Ended(d, report))
<1> DEFINE held == IF d.part = "none" THEN 0 ELSE IF d.part = "user" THEN 1
                   ELSE IF d.part = "whole" THEN Blocks ELSE d.sent
           t == [d EXCEPT !.phase = "idle", !.report = report, !.kind = None, !.sent = held]
<1>1. Files!HeldBy(d, d.part) = held /\ held \in Nat
  BY HeldIs DEF Forms, Shapes, RoomForFiles
<1>2. Files!Ended(d, report) = t
  BY <1>1 DEF Files!Ended
<1>3. t \in Shapes
  BY <1>1 DEF Forms, Shapes
<1>4. Files!Free(t) = Files!Free(d)
  <2>1. /\ t.destination = d.destination /\ t.part = d.part /\ t.sent = held
        /\ d.destination \in {"none", "old", "whole"} /\ d.sent \in Nat
        /\ d.part \in {"none", "user", "some", "page", "whole"}
    BY DEF Forms, Shapes
  <2> HIDE DEF t
  <2>2. Files!Free(t) =
           Space - (IF d.destination = "none" THEN 0 ELSE IF d.destination = "old" THEN 1 ELSE Blocks)
                 - (IF d.part = "none" THEN 0 ELSE IF d.part = "user" THEN 1
                    ELSE IF d.part = "whole" THEN Blocks ELSE held)
    BY <1>1, <2>1, FreeIs
  <2> QED BY <2>1, <2>2, FreeIs
<1> QED BY <1>2, <1>3, <1>4 DEF Forms, Shapes

LEMMA UnmountedForms ==
  ASSUME RoomForFiles, NEW d, Forms(d)
  PROVE  Forms(Files!Unmounted(d))
<1>1. /\ Files!Unmounted(d).destination = d.destination /\ Files!Unmounted(d).part = d.part
      /\ Files!Unmounted(d).sent = d.sent
  BY DEF Forms, Shapes, Files!Unmounted
<1>2. Files!Free(Files!Unmounted(d)) = Files!Free(d)
  BY <1>1, FreeIs DEF Forms, Shapes
<1> QED BY <1>2 DEF Forms, Shapes, Files!Unmounted

LEMMA DownloadsBegin == RoomForFiles /\ Files!Init => Downloading
<1> SUFFICES ASSUME RoomForFiles, Files!Init PROVE Downloading
  OBVIOUS
<1>1. PICK destination \in {"none", "old"}, part \in {"none", "user"} :
    download = [phase |-> "idle", kind |-> None, destination |-> destination, part |-> part, sent |-> 0, mounted |-> TRUE,
                open |-> {}, outcome |-> None, report |-> None, had |-> FALSE]
  BY DEF Files!Init
<1>2. Files!Free(download) >= 0
  BY <1>1, FreeIs DEF RoomForFiles
<1>3. Forms(download)
  BY <1>1, <1>2 DEF Forms, Shapes, Reports
<1>4. UnderWay(download) /\ Said(download)
  BY <1>1 DEF UnderWay, Said, RoomForFiles, Says
<1> QED BY <1>3, <1>4 DEF Downloading

\* A command ends with what is under the two names as it is.
LEMMA EndedKeeps ==
  ASSUME RoomForFiles, NEW d, Forms(d), NEW report \in Reports,
         Said([d EXCEPT !.phase = "idle", !.report = report])
  PROVE  LET t == Files!Ended(d, report) IN Forms(t) /\ UnderWay(t) /\ Said(t)
<1> DEFINE t == Files!Ended(d, report)
<1>1. Forms(t)
  BY EndedIs
<1>5. t = [d EXCEPT !.phase = "idle", !.report = report, !.kind = None,
                    !.sent = IF d.part = "none" THEN 0 ELSE IF d.part = "user" THEN 1
                             ELSE IF d.part = "whole" THEN Blocks ELSE d.sent]
  BY EndedIs
<1> HIDE DEF t
<1>2. /\ t.phase = "idle" /\ t.report = report /\ t.destination = d.destination
      /\ t.part = d.part /\ t.had = d.had
  BY <1>5 DEF Forms, Shapes
<1>3. UnderWay(t)
  BY <1>2 DEF UnderWay
<1>4. Said(t)
  <2> DEFINE e == [d EXCEPT !.phase = "idle", !.report = report]
  <2>1. /\ e.phase = "idle" /\ e.report = report /\ e.destination = d.destination
        /\ e.part = d.part /\ e.had = d.had
    BY DEF Forms, Shapes
  <2>2. Said(e)
    OBVIOUS
  <2> HIDE DEF e
  <2> QED BY <1>2, <2>1, <2>2 DEF Said
<1> QED BY <1>1, <1>3, <1>4 DEF t

\* What is free depends on the two names and on what has arrived.
LEMMA FreeStays ==
  ASSUME RoomForFiles, NEW d, Forms(d), NEW t \in Shapes,
         t.destination = d.destination, t.part = d.part, t.sent = d.sent
  PROVE  Forms(t)
<1>1. Files!Free(t) = Files!Free(d)
  BY FreeIs DEF Forms, Shapes
<1> QED BY <1>1 DEF Forms

LEMMA DownloadsStep ==
  ASSUME RoomForFiles, Downloading, Files!Next
  PROVE  Downloading'
<1> DEFINE d == download
<1> SUFFICES Forms(download') /\ UnderWay(download') /\ Said(download')
  BY DEF Downloading, Forms, UnderWay, Said
<1>0. Forms(d) /\ UnderWay(d) /\ Said(d)
  BY DEF Downloading
\* One that ends, with the mount or without it, whatever it says.
<1>1. ASSUME NEW report \in Reports,
             \/ download' = Files!Ended(d, report)
             \/ download' = Files!Ended(Files!Unmounted(d), report),
             /\ report \notin {"saved", "discarded"}
             /\ report = "saved as part" => d.part = "whole"
             /\ report = "left" => d.part \in {"some", "page"}
             /\ d.had /\ report \notin {"saved as part", "power"} => d.destination \in Files!Kept
      PROVE  Forms(download') /\ UnderWay(download') /\ Said(download')
  <2>1. CASE download' = Files!Ended(d, report)
    <3>1. Said([d EXCEPT !.phase = "idle", !.report = report])
      BY <1>0, <1>1 DEF Said, Forms, Shapes
    <3> QED BY <1>0, <2>1, <3>1, EndedKeeps
  <2>2. CASE download' = Files!Ended(Files!Unmounted(d), report)
    <3> DEFINE u == Files!Unmounted(d)
    <3>1. Forms(u) /\ u = [d EXCEPT !.mounted = FALSE, !.open = {}]
      BY <1>0, UnmountedForms DEF Files!Unmounted
    <3> HIDE DEF u
    <3>2. Said([u EXCEPT !.phase = "idle", !.report = report])
      BY <1>0, <1>1, <3>1, ZenonT(40) DEF Said, Forms, Shapes
    <3> QED BY <2>2, <3>1, <3>2, EndedKeeps DEF u
  <2> QED BY <1>1, <2>1, <2>2
<1>2. ASSUME NEW kind \in {"tftp", "http"}, Files!Begin(kind)
      PROVE  Forms(download') /\ UnderWay(download') /\ Said(download')
  <2>1. /\ d.phase = "idle"
        /\ download' = [d EXCEPT !.phase = "named", !.kind = kind, !.outcome = None, !.report = None,
                                 !.had = d.destination \in Files!Kept]
    BY <1>2 DEF Files!Begin, Files!At
  <2> DEFINE had == d.destination \in Files!Kept
  <2>5. had \in BOOLEAN
    OBVIOUS
  <2> HIDE DEF had
  <2>2. download' \in Shapes
    BY <1>0, <2>1, <2>5 DEF Forms, Shapes, Reports, had
  <2>3. /\ download'.destination = d.destination /\ download'.part = d.part /\ download'.sent = d.sent
        /\ download'.phase = "named" /\ download'.report = None
        /\ download'.had = (d.destination \in Files!Kept) /\ download'.outcome = None
    BY <1>0, <2>1 DEF Forms, Shapes
  <2>4. Forms(download')
    BY <1>0, <2>2, <2>3, FreeStays
  <2> QED BY <1>0, <2>1, <2>3, <2>4 DEF UnderWay, Said
<1>3. CASE Files!NoServer
  <2>1. d.phase = "named" /\ download' = Files!Ended(d, "none")
    BY <1>3 DEF Files!NoServer, Files!At
  <2>2. "none" \in Reports /\ (d.had => d.destination \in Files!Kept)
    BY <1>0, <2>1 DEF UnderWay, Reports, Says
  <2> QED BY <1>1, <2>1, <2>2
<1>4. CASE Files!OpenPart
  <2>1. CASE download' = [d EXCEPT !.phase = "transfer", !.part = "some", !.sent = 0]
    <3>1. d.phase = "named"
      BY <1>4 DEF Files!OpenPart, Files!At
    <3>2. download' \in Shapes
      BY <1>0, <2>1 DEF Forms, Shapes
    <3>3. /\ download'.destination = d.destination /\ download'.part = "some" /\ download'.sent = 0
          /\ download'.phase = "transfer" /\ download'.report = d.report
          /\ download'.had = d.had /\ download'.outcome = d.outcome
      BY <1>0, <2>1 DEF Forms, Shapes
    <3>4. Files!Free(download') >= 0
      BY <1>0, <3>3, FreeIs DEF Forms, Shapes, RoomForFiles
    <3> QED BY <1>0, <3>1, <3>2, <3>3, <3>4 DEF Forms, UnderWay, Said, RoomForFiles, Says
  <2>2. CASE \/ download' = Files!Ended(d, "cannot write")
             \/ download' = Files!Ended(Files!Unmounted(d), "cannot write")
    <3>1. "cannot write" \in Reports /\ (d.had => d.destination \in Files!Kept)
      BY <1>0, <1>4 DEF Files!OpenPart, Files!At, UnderWay, Reports, Says
    <3> QED BY <1>1, <2>2, <3>1
  <2> QED BY <1>4, <2>1, <2>2 DEF Files!OpenPart
<1>5. CASE Files!Arrive
  <2>1. d.phase = "transfer" /\ d.outcome = None
    BY <1>5 DEF Files!Arrive, Files!At
  <2>2. CASE Files!Free(d) > 0 /\ d.sent < Blocks /\ download' = [d EXCEPT !.sent = @ + 1]
    <3>1. download' \in Shapes
      BY <1>0, <2>2 DEF Forms, Shapes
    <3>2. /\ download'.destination = d.destination /\ download'.part = d.part
          /\ download'.sent = d.sent + 1 /\ download'.phase = d.phase
          /\ download'.report = d.report /\ download'.had = d.had /\ download'.outcome = d.outcome
      BY <1>0, <2>2 DEF Forms, Shapes
    <3>3. d.part = "some"
      BY <1>0, <2>1 DEF UnderWay
    <3>4. Files!Free(download') >= 0
      BY <1>0, <2>2, <3>2, <3>3, FreeIs DEF Forms, Shapes, RoomForFiles
    <3> QED BY <1>0, <2>1, <3>1, <3>2, <3>4 DEF Forms, UnderWay, Said, RoomForFiles, Says
  <2>3. CASE download' = [d EXCEPT !.outcome = "interrupted"]
    <3>1. download' \in Shapes
      BY <1>0, <2>3 DEF Forms, Shapes
    <3>2. /\ download'.destination = d.destination /\ download'.part = d.part
          /\ download'.sent = d.sent /\ download'.phase = d.phase
          /\ download'.report = d.report /\ download'.had = d.had /\ download'.outcome = "interrupted"
      BY <1>0, <2>3 DEF Forms, Shapes
    <3>3. Forms(download')
      BY <1>0, <3>1, <3>2, FreeStays
    <3> QED BY <1>0, <2>1, <3>2, <3>3 DEF UnderWay, Said
  <2> QED BY <1>5, <2>2, <2>3 DEF Files!Arrive
<1>6. CASE Files!Close
  <2>1. PICK outcome \in {"whole", "failed", "page"} :
          /\ d.phase = "transfer" /\ download' = [d EXCEPT !.outcome = outcome]
          /\ outcome = "whole" => d.sent = Blocks
    BY <1>6 DEF Files!Close, Files!At
  <2>2. download' \in Shapes
    BY <1>0, <2>1 DEF Forms, Shapes
  <2>3. /\ download'.destination = d.destination /\ download'.part = d.part
        /\ download'.sent = d.sent /\ download'.phase = d.phase
        /\ download'.report = d.report /\ download'.had = d.had /\ download'.outcome = outcome
    BY <1>0, <2>1 DEF Forms, Shapes
  <2>4. Forms(download')
    BY <1>0, <2>2, <2>3, FreeStays
  <2> QED BY <1>0, <2>1, <2>3, <2>4 DEF UnderWay, Said
<1>7. CASE Files!Commit
  <2> DEFINE content == CASE d.outcome = "whole" -> "whole" [] d.outcome = "page" -> "page" [] OTHER -> "some"
  <2>1. d.phase = "transfer"
    BY <1>7 DEF Files!Commit, Files!At
  <2>2. CASE download' = [d EXCEPT !.phase = "finish", !.part = content]
    <3>1. download' \in Shapes
      BY <1>0, <2>2 DEF Forms, Shapes
    <3>2. /\ download'.destination = d.destination /\ download'.part = content
          /\ download'.sent = d.sent /\ download'.phase = "finish"
          /\ download'.report = d.report /\ download'.had = d.had /\ download'.outcome = d.outcome
      BY <1>0, <2>2 DEF Forms, Shapes
    <3>3. d.part = "some" /\ (d.outcome = "whole" => d.sent = Blocks)
      BY <1>0, <2>1 DEF UnderWay
    <3>4. Files!Free(download') >= 0
      BY <1>0, <3>2, <3>3, FreeIs DEF Forms, Shapes, RoomForFiles
    <3> QED BY <1>0, <2>1, <3>1, <3>2, <3>4 DEF Forms, UnderWay, Said
  <2>3. CASE download' = Files!Ended(Files!Unmounted(d), "cannot write")
    <3>1. "cannot write" \in Reports /\ (d.had => d.destination \in Files!Kept)
      BY <1>0, <2>1 DEF UnderWay, Reports, Says
    <3> QED BY <1>1, <2>3, <3>1
  <2> QED BY <1>7, <2>2, <2>3 DEF Files!Commit
<1>8. CASE Files!FinishDownload
  <2>1. d.phase = "finish" /\ d.outcome # "whole"
    BY <1>8 DEF Files!FinishDownload, Files!At, Files!Complete
  <2>2. CASE download' = Files!Ended([d EXCEPT !.part = "none"], "discarded")
    <3> DEFINE e == [d EXCEPT !.part = "none"]
    <3>1. /\ e \in Shapes /\ e.part = "none" /\ e.destination = d.destination /\ e.sent = d.sent
          /\ e.had = d.had
      BY <1>0 DEF Forms, Shapes
    <3>2. Files!Free(e) >= 0
      BY <1>0, <3>1, FreeIs DEF Forms, Shapes, RoomForFiles
    <3>3. Said([e EXCEPT !.phase = "idle", !.report = "discarded"])
      BY <1>0, <2>1, <3>1 DEF Said, UnderWay, Shapes
    <3> HIDE DEF e
    <3>4. Forms(e) /\ "discarded" \in Reports
      BY <3>1, <3>2 DEF Forms, Reports, Says
    <3>5. download' = Files!Ended(e, "discarded")
      BY <2>2 DEF e
    <3> QED BY <3>3, <3>4, <3>5, EndedKeeps
  <2>3. CASE \/ download' = Files!Ended(d, "left")
             \/ download' = Files!Ended(Files!Unmounted(d), "left")
    <3>1. /\ "left" \in Reports /\ d.part \in {"some", "page"}
          /\ d.had => d.destination \in Files!Kept
      BY <1>0, <2>1 DEF UnderWay, Reports, Says
    <3> QED BY <1>1, <2>3, <3>1
  <2> QED BY <1>8, <2>2, <2>3 DEF Files!FinishDownload
<1>9. CASE Files!CommitDownload
  <2>1. d.phase = "finish" /\ d.outcome = "whole"
    BY <1>9 DEF Files!CommitDownload, Files!At, Files!Complete
  <2>2. CASE download' = [d EXCEPT !.destination = "none", !.phase = "rename"]
    <3>1. download' \in Shapes
      BY <1>0, <2>2 DEF Forms, Shapes
    <3>2. /\ download'.destination = "none" /\ download'.part = d.part
          /\ download'.sent = d.sent /\ download'.phase = "rename"
          /\ download'.report = d.report /\ download'.had = d.had /\ download'.outcome = d.outcome
      BY <1>0, <2>2 DEF Forms, Shapes
    <3>3. d.part = "whole"
      BY <1>0, <2>1 DEF UnderWay
    <3>4. Files!Free(download') >= 0
      BY <1>0, <3>2, FreeIs DEF Forms, Shapes, RoomForFiles
    <3> QED BY <1>0, <2>1, <3>1, <3>2, <3>3, <3>4 DEF Forms, UnderWay, Said
  <2>3. CASE \/ download' = Files!Ended(d, "saved as part")
             \/ download' = Files!Ended(Files!Unmounted(d), "saved as part")
    <3>1. "saved as part" \in Reports /\ d.part = "whole"
      BY <1>0, <2>1 DEF UnderWay, Reports, Says
    <3> QED BY <1>1, <2>3, <3>1
  <2> QED BY <1>9, <2>2, <2>3 DEF Files!CommitDownload
<1>10. CASE Files!Rename
  <2>1. d.phase = "rename" /\ d.part = "whole" /\ d.destination = "none"
    BY <1>0, <1>10 DEF Files!Rename, Files!At, UnderWay
  <2>2. CASE download' = Files!Ended([d EXCEPT !.destination = d.part, !.part = "none"], "saved")
    <3> DEFINE e == [d EXCEPT !.destination = d.part, !.part = "none"]
    <3>1. e \in Shapes /\ e.part = "none" /\ e.destination = "whole" /\ e.sent = d.sent
      BY <1>0, <2>1 DEF Forms, Shapes
    <3>2. Files!Free(e) >= 0
      <4> HIDE DEF e
      <4>1. Files!Free(d) = Space - 0 - Blocks /\ Files!Free(d) >= 0
        BY <1>0, <2>1, FreeIs DEF Forms, Shapes
      <4>2. Files!Free(e) = Space - Blocks - 0
        BY <3>1, FreeIs DEF Shapes
      <4> QED BY <4>1, <4>2 DEF RoomForFiles
    <3>3. Said([e EXCEPT !.phase = "idle", !.report = "saved"])
      BY <3>1 DEF Said, Shapes, Files!Kept
    <3> HIDE DEF e
    <3>4. Forms(e) /\ "saved" \in Reports
      BY <3>1, <3>2 DEF Forms, Reports, Says
    <3>5. download' = Files!Ended(e, "saved")
      BY <2>2 DEF e
    <3> QED BY <3>3, <3>4, <3>5, EndedKeeps
  <2>3. CASE \/ download' = Files!Ended(d, "saved as part")
             \/ download' = Files!Ended(Files!Unmounted(d), "saved as part")
    <3>1. "saved as part" \in Reports
      BY DEF Reports, Says
    <3> QED BY <1>1, <2>1, <2>3, <3>1
  <2> QED BY <1>10, <2>2, <2>3 DEF Files!Rename
\* Nothing of these touches the files.
<1>11. ASSUME NEW open \in SUBSET {"destination", "part"}, NEW mounted \in BOOLEAN, d.phase = "idle",
              download' = [d EXCEPT !.open = open, !.mounted = mounted]
       PROVE  Forms(download') /\ UnderWay(download') /\ Said(download')
  <2>1. download' \in Shapes
    BY <1>0, <1>11 DEF Forms, Shapes
  <2>2. /\ download'.destination = d.destination /\ download'.part = d.part
        /\ download'.sent = d.sent /\ download'.phase = d.phase
        /\ download'.report = d.report /\ download'.had = d.had /\ download'.outcome = d.outcome
    BY <1>0, <1>11 DEF Forms, Shapes
  <2>3. Forms(download')
    BY <1>0, <2>1, <2>2, FreeStays
  <2> QED BY <1>0, <1>11, <2>2, <2>3 DEF UnderWay, Said
<1>12. ASSUME NEW name \in {"destination", "part"}, Files!OpenFile(name) \/ Files!CloseFile(name)
       PROVE  Forms(download') /\ UnderWay(download') /\ Said(download')
  <2>1. PICK open \in SUBSET {"destination", "part"} :
          d.phase = "idle" /\ download' = [d EXCEPT !.open = open]
    BY <1>0, <1>12 DEF Files!OpenFile, Files!CloseFile, Files!At, Forms, Shapes
  <2>2. download' = [d EXCEPT !.open = open, !.mounted = d.mounted] /\ d.mounted \in BOOLEAN
    BY <1>0, <2>1 DEF Forms, Shapes
  <2> QED BY <1>11, <2>1, <2>2
<1>13. CASE Files!Mount
  <2>1. /\ download' = [d EXCEPT !.open = d.open, !.mounted = TRUE] /\ d.phase = "idle"
        /\ d.open \in SUBSET {"destination", "part"}
    BY <1>0, <1>13 DEF Files!Mount, Files!At, Forms, Shapes
  <2> QED BY <1>11, <2>1
<1>14. CASE Files!PowerLoss
  <2>1. Files!Ended(Files!Unmounted(d), "power") = [Files!Ended(Files!Unmounted(d), None) EXCEPT !.report = "power"]
    BY <1>0 DEF Files!Ended, Files!Unmounted, Forms, Shapes
  <2> QED BY <1>1, <1>14, <2>1 DEF Files!PowerLoss, Reports, Says
<1> QED BY <1>2, <1>3, <1>4, <1>5, <1>6, <1>7, <1>8, <1>9, <1>10, <1>12, <1>13, <1>14 DEF Files!Next

LEMMA DownloadsInductive == ASSUME RoomForFiles PROVE Files!Spec => []Downloading
<1>1. Downloading /\ [Files!Next]_download => Downloading'
  BY DownloadsStep DEF Downloading, Forms, UnderWay, Said
<1> QED BY <1>1, DownloadsBegin, PTL DEF Files!Spec

\* Whatever fails and whenever the power goes, there is no part of a file under
\* the name asked for, and while a file is replaced the old one or the whole new
\* one is on the volume (app/files.rs, commit_download; app/shell.rs, tftpget).
THEOREM DownloadsReplaceWholeFiles ==
  ASSUME RoomForFiles PROVE Files!Spec => [](Files!DestinationIsWhole /\ Files!OneOfThemIsThere)
<1>1. Downloading => Files!DestinationIsWhole
  BY DEF Downloading, Forms, Shapes, Files!DestinationIsWhole
<1>2. Downloading => Files!OneOfThemIsThere
  BY DEF Downloading, Forms, Shapes, UnderWay, Files!OneOfThemIsThere, Files!Busy
<1> QED BY <1>1, <1>2, DownloadsInductive, PTL

\* What tftpget and httpget say last is true of the volume, whichever step failed,
\* and no more is kept than there is room for (app/files.rs, finish_download).
THEOREM DownloadsReportTheTruth ==
  ASSUME RoomForFiles
  PROVE  Files!Spec => [](Files!TypeOK /\ Files!ReportsAreTrue /\ Files!ReplacedOnlyByTheWhole)
<1>1. Downloading => Files!TypeOK
  <2> SUFFICES ASSUME Downloading PROVE Files!TypeOK
    OBVIOUS
  <2>1. Files!Free(download) \in 0 .. Space
    BY FreeIs DEF Downloading, Forms, Shapes, RoomForFiles
  <2> QED BY <2>1 DEF Downloading, Forms, Shapes, Files!TypeOK
<1>2. Downloading => Files!ReportsAreTrue
  BY DEF Downloading, Forms, Shapes, UnderWay, Said, RoomForFiles, Says, Files!ReportsAreTrue, Files!Busy
<1>3. Downloading => Files!ReplacedOnlyByTheWhole
  BY DEF Downloading, Forms, Shapes, Said, Files!ReplacedOnlyByTheWhole, Files!Busy
<1> QED BY <1>1, <1>2, <1>3, DownloadsInductive, PTL

---------------------------------------------------------------------------
(* TFTP.  A client that has n blocks expects the next, and whatever is     *)
(* under way to it, from either transfer of the server, is of blocks up to *)
(* the next: the server is only as far as what was acknowledged.           *)

CONSTANTS Ports, Wrap, Retries, Capacity
VARIABLE tftp

Transfer == INSTANCE Tftp

\* What the theorems about TFTP assume: a file has a block, and no more blocks than
\* there are numbers for them, or a second transfer that was left behind could be
\* taken for the next one; the marker for no result is none.
BlocksAreNumbered ==
  /\ Blocks \in Nat \ {0} /\ Wrap \in Nat /\ Wrap > 1 /\ Blocks <= Wrap
  /\ Retries \in Nat /\ Transfer!RequestPort \notin Ports /\ None # "done"

\* What is under way to the client when it has n blocks: of the next block at most,
\* to a transfer of the server: acknowledgements of what it has.
Downs(n) == {Transfer!Data(k) : k \in 1 .. Blocks \cap 1 .. n + 1} \cup {Transfer!Refusal, Transfer!Garbage}
Acks(n) == {Transfer!Ack(k % Wrap) : k \in 1 .. n}
Heard == Ports \cup {Transfer!RequestPort}

TransferShapes ==
  [phase : {"sending", "waiting", "over"}, peer : Heard, outgoing : {Transfer!Request} \cup Acks(Blocks),
   attempts : 0 .. Retries + 1, expected : 0 .. Wrap - 1, sunk : Seq(1 .. Blocks),
   result : {None, "timed out", "link lost", "refused", "sink refused", "done"},
   sending : [Ports -> 0 .. Blocks + 1],
   down : [Ports -> Seq(Downs(Blocks))],
   up : [Heard -> Seq({Transfer!Request} \cup Acks(Blocks))]]

\* The client has the first n blocks, and nobody is ahead of it.
Has(t, n) ==
  /\ n \in 0 .. Blocks /\ Len(t.sunk) = n /\ \A i \in 1 .. n : t.sunk[i] = i
  /\ t.expected = (n + 1) % Wrap
  /\ t.phase # "over" => n < Blocks /\ t.result = None
  /\ t.result = "done" => n = Blocks
  /\ IF t.peer \in Ports THEN t.outgoing \in Acks(n) ELSE t.outgoing = Transfer!Request
  /\ \A p \in Ports : t.sending[p] <= n + 1 /\ t.down[p] \in Seq(Downs(n)) /\ t.up[p] \in Seq(Acks(n))

Transferring == tftp \in TransferShapes /\ Has(tftp, Len(tftp.sunk))

\* Numbers of blocks tell the blocks apart.
LEMMA NumberIs ==
  ASSUME BlocksAreNumbered, NEW a \in 1 .. Wrap
  PROVE  a % Wrap = IF a = Wrap THEN 0 ELSE a
<1>1. CASE a = Wrap
  <2>1. (0 + Wrap) % Wrap = 0
    BY DEF BlocksAreNumbered
  <2> QED BY <1>1, <2>1 DEF BlocksAreNumbered
<1>2. CASE a # Wrap
  BY <1>2 DEF BlocksAreNumbered
<1> QED BY <1>1, <1>2

LEMMA NumbersDiffer ==
  ASSUME BlocksAreNumbered, NEW a \in 1 .. Wrap, NEW b \in 1 .. Wrap, a % Wrap = b % Wrap
  PROVE  a = b
BY NumberIs DEF BlocksAreNumbered

LEMMA Later ==
  ASSUME NEW n \in Nat
  PROVE  /\ Downs(n) \subseteq Downs(n + 1) /\ Acks(n) \subseteq Acks(n + 1)
         /\ Seq(Downs(n)) \subseteq Seq(Downs(n + 1)) /\ Seq(Acks(n)) \subseteq Seq(Acks(n + 1))
<1>1. Downs(n) \subseteq Downs(n + 1) /\ Acks(n) \subseteq Acks(n + 1)
  BY DEF Downs, Acks
<1> QED BY <1>1

LEMMA TransferBegins ==
  ASSUME BlocksAreNumbered PROVE Transfer!Init => Transferring
<1> SUFFICES ASSUME Transfer!Init PROVE Transferring
  OBVIOUS
<1>1. tftp \in TransferShapes
  BY DEF Transfer!Init, TransferShapes, BlocksAreNumbered, Heard
<1>2. 1 % Wrap = 1
  BY NumberIs DEF BlocksAreNumbered
<1>3. Has(tftp, 0)
  BY <1>2 DEF Transfer!Init, Has, BlocksAreNumbered
<1>4. Len(tftp.sunk) = 0
  BY DEF Transfer!Init
<1> QED BY <1>1, <1>3, <1>4 DEF Transferring

\* Requests to the server, and one of its transfers, have moved.
Moved(t, p, asked, block, down, up) ==
  [t EXCEPT !.up = [@ EXCEPT ![Transfer!RequestPort] = asked, ![p] = up],
            !.sending = [@ EXCEPT ![p] = block], !.down = [@ EXCEPT ![p] = down]]

\* What the server or the network does leaves the client as it is.
LEMMA OutsideKeeps ==
  ASSUME BlocksAreNumbered, NEW t \in TransferShapes, NEW n \in Nat, Has(t, n), NEW p \in Ports,
         NEW asked \in Seq({Transfer!Request} \cup Acks(Blocks)), NEW block \in 0 .. n + 1, block <= Blocks + 1,
         NEW down \in Seq(Downs(n)), NEW up \in Seq(Acks(n))
  PROVE  LET u == Moved(t, p, asked, block, down, up)
         IN u \in TransferShapes /\ Has(u, n) /\ u.sunk = t.sunk
<1> DEFINE ups == [t.up EXCEPT ![Transfer!RequestPort] = asked, ![p] = up]
           sendings == [t.sending EXCEPT ![p] = block]
           downs == [t.down EXCEPT ![p] = down]
           u == [t EXCEPT !.up = ups, !.sending = sendings, !.down = downs]
<1>1. n \in 0 .. Blocks /\ Seq(Downs(n)) \subseteq Seq(Downs(Blocks)) /\ Acks(n) \subseteq Acks(Blocks)
  <2>1. n \in 0 .. Blocks
    BY DEF Has
  <2>2. 1 .. n \subseteq 1 .. Blocks /\ 1 .. n + 1 \subseteq 1 .. Blocks + 1
    BY <2>1 DEF BlocksAreNumbered
  <2>3. Downs(n) \subseteq Downs(Blocks)
    BY <2>2 DEF Downs
  <2>4. Acks(n) \subseteq Acks(Blocks)
    BY <2>2 DEF Acks
  <2> QED BY <2>1, <2>3, <2>4
<1>2. ups \in [Heard -> Seq({Transfer!Request} \cup Acks(Blocks))]
  <2>1. up \in Seq({Transfer!Request} \cup Acks(Blocks))
    BY <1>1
  <2>2. t.up \in [Heard -> Seq({Transfer!Request} \cup Acks(Blocks))]
    BY DEF TransferShapes
  <2> QED BY <2>1, <2>2
<1>3. sendings \in [Ports -> 0 .. Blocks + 1] /\ downs \in [Ports -> Seq(Downs(Blocks))]
  <2>1. t.sending \in [Ports -> 0 .. Blocks + 1] /\ t.down \in [Ports -> Seq(Downs(Blocks))]
    BY DEF TransferShapes
  <2>2. down \in Seq(Downs(Blocks)) /\ block \in 0 .. Blocks + 1
    BY <1>1
  <2> QED BY <2>1, <2>2
<1>4. \A q \in Ports : sendings[q] <= n + 1 /\ downs[q] \in Seq(Downs(n)) /\ ups[q] \in Seq(Acks(n))
  <2> TAKE q \in Ports
  <2>1. q # Transfer!RequestPort /\ p # Transfer!RequestPort /\ q \in Heard /\ p \in Heard
    BY DEF BlocksAreNumbered, Heard
  <2>2. t.sending[q] <= n + 1 /\ t.down[q] \in Seq(Downs(n)) /\ t.up[q] \in Seq(Acks(n))
    BY DEF Has
  <2>3. /\ sendings[q] = IF q = p THEN block ELSE t.sending[q]
        /\ downs[q] = IF q = p THEN down ELSE t.down[q]
        /\ ups[q] = IF q = p THEN up ELSE t.up[q]
    BY <2>1 DEF TransferShapes
  <2> QED BY <1>1, <2>2, <2>3
<1> HIDE DEF ups, sendings, downs
<1>5. u \in TransferShapes
  BY <1>2, <1>3 DEF TransferShapes
<1>6. /\ u.sunk = t.sunk /\ u.expected = t.expected /\ u.phase = t.phase /\ u.result = t.result
      /\ u.peer = t.peer /\ u.outgoing = t.outgoing
      /\ u.sending = sendings /\ u.down = downs /\ u.up = ups
  BY DEF TransferShapes
<1> HIDE DEF u
<1>7. Has(u, n)
  BY <1>4, <1>6 DEF Has
<1> QED BY <1>5, <1>6, <1>7 DEF Moved, u, ups, sendings, downs

LEMMA OutsideStep ==
  ASSUME BlocksAreNumbered, Transferring, NEW p \in Ports,
         \/ Transfer!Accept(p) \/ Transfer!Acknowledged(p) \/ Transfer!Resend(p)
         \/ Transfer!LoseDown(p) \/ Transfer!LoseUp(p) \/ Transfer!RepeatDown(p)
  PROVE  Transferring'
<1> DEFINE n == Len(tftp.sunk)
           t == tftp
           r == Transfer!RequestPort
<1>1. /\ t \in TransferShapes /\ Has(t, n) /\ n \in 0 .. Blocks /\ r \in Heard /\ p \in Heard /\ p # r
      /\ t.up \in [Heard -> Seq({Transfer!Request} \cup Acks(Blocks))]
      /\ t.sending \in [Ports -> 0 .. Blocks + 1] /\ t.down \in [Ports -> Seq(Downs(Blocks))]
      /\ t.sending[p] <= n + 1 /\ t.down[p] \in Seq(Downs(n)) /\ t.up[p] \in Seq(Acks(n))
  BY DEF Transferring, Has, TransferShapes, Heard, BlocksAreNumbered
<1>2. /\ Transfer!Refusal \in Downs(n) /\ Transfer!Garbage \in Downs(n)
      /\ \A k \in 1 .. Blocks : k <= n + 1 => Transfer!Data(k) \in Downs(n)
      /\ 1 \in 1 .. Blocks /\ 1 <= n + 1
  <2>1. 1 \in 1 .. Blocks /\ 1 <= n + 1
    BY <1>1 DEF BlocksAreNumbered
  <2>2. \A k \in 1 .. Blocks : k <= n + 1 => k \in 1 .. Blocks \cap 1 .. n + 1
    BY <1>1
  <2> QED BY <2>1, <2>2 DEF Downs
<1> HIDE DEF n
<1>3. ASSUME NEW asked \in Seq({Transfer!Request} \cup Acks(Blocks)), NEW block \in 0 .. n + 1, block <= Blocks + 1,
             NEW down \in Seq(Downs(n)), NEW up \in Seq(Acks(n)),
             tftp' = Moved(t, p, asked, block, down, up)
      PROVE  Transferring'
  <2> DEFINE u == Moved(t, p, asked, block, down, up)
  <2>1. t \in TransferShapes /\ Has(t, n) /\ n \in Nat
    BY <1>1 DEF BlocksAreNumbered
  <2> HIDE DEF t
  <2>2. u \in TransferShapes /\ Has(u, n) /\ u.sunk = t.sunk
    BY <1>3, <2>1, OutsideKeeps, ZenonT(40)
  <2>3. tftp' = u
    BY <1>3
  <2> HIDE DEF u
  <2>4. tftp' \in TransferShapes /\ Has(tftp', n) /\ Len(tftp'.sunk) = n
    <3>1. n = Len(t.sunk)
      BY DEF n, t
    <3> QED BY <2>2, <2>3, <3>1
  <2> QED BY <2>4 DEF Transferring
<1>4. CASE Transfer!Accept(p)
  <2>1. PICK answer \in {Transfer!Data(1), Transfer!Refusal} :
          /\ t.up[r] # <<>>
          /\ tftp' = [t EXCEPT !.up[r] = Tail(@), !.sending[p] = 1, !.down[p] = Append(@, answer)]
    BY <1>4 DEF Transfer!Accept
  <2>2. Tail(t.up[r]) \in Seq({Transfer!Request} \cup Acks(Blocks))
    BY <1>1, <2>1
  <2>3. Append(t.down[p], answer) \in Seq(Downs(n))
    <3>1. answer \in Downs(n)
      BY <1>2, <2>1
    <3> QED BY <1>1, <3>1
  <2>4. tftp' = Moved(t, p, Tail(t.up[r]), 1, Append(t.down[p], answer), t.up[p])
    BY <1>1, <2>1 DEF Moved
  <2>5. 1 \in 0 .. n + 1 /\ 1 <= Blocks + 1
    BY <1>1 DEF BlocksAreNumbered
  <2> QED BY <1>1, <1>3, <2>2, <2>3, <2>4, <2>5
<1>5. CASE Transfer!Acknowledged(p)
  <2> DEFINE block == t.sending[p]
             rest == Tail(t.up[p])
  <2>1. rest \in Seq(Acks(n)) /\ t.up[r] \in Seq({Transfer!Request} \cup Acks(Blocks))
    BY <1>1, <1>5 DEF Transfer!Acknowledged
  <2>2. CASE /\ Head(t.up[p]).block = block % Wrap /\ block \in 1 .. Blocks
    <3>1. PICK k \in 1 .. n : Head(t.up[p]) = Transfer!Ack(k % Wrap)
      BY <1>1, <1>5 DEF Transfer!Acknowledged, Acks
    <3>2. block = k
      <4>1. block % Wrap = k % Wrap
        BY <2>2, <3>1 DEF Transfer!Ack
      <4>2. block \in 1 .. Wrap /\ k \in 1 .. Wrap
        BY <1>1, <2>2 DEF BlocksAreNumbered
      <4> HIDE DEF block
      <4> QED BY <4>1, <4>2, NumbersDiffer
    <3>3. CASE block = Blocks
      <4>1. tftp' = Moved(t, p, t.up[r], Blocks + 1, t.down[p], rest)
        BY <1>1, <1>5, <2>2, <3>3 DEF Transfer!Acknowledged, Moved
      <4>2. Blocks + 1 \in 0 .. n + 1 /\ Blocks + 1 <= Blocks + 1
        BY <1>1, <3>2, <3>3 DEF BlocksAreNumbered
      <4> QED BY <1>1, <1>3, <2>1, <4>1, <4>2
    <3>4. CASE block # Blocks
      <4>1. tftp' = Moved(t, p, t.up[r], block + 1, Append(t.down[p], Transfer!Data(block + 1)), rest)
        BY <1>1, <1>5, <2>2, <3>4 DEF Transfer!Acknowledged, Moved
      <4>2. block + 1 \in 0 .. n + 1 /\ block + 1 \in 1 .. Blocks /\ block + 1 <= Blocks + 1
        BY <1>1, <2>2, <3>2, <3>4 DEF BlocksAreNumbered
      <4>3. Transfer!Data(block + 1) \in Downs(n)
        BY <1>1, <1>2, <4>2
      <4>4. Append(t.down[p], Transfer!Data(block + 1)) \in Seq(Downs(n))
        BY <1>1, <4>3
      <4> QED BY <1>1, <1>3, <2>1, <4>1, <4>2, <4>4
    <3> QED BY <3>3, <3>4
  <2>3. CASE ~(Head(t.up[p]).block = block % Wrap /\ block \in 1 .. Blocks)
    <3>1. tftp' = Moved(t, p, t.up[r], block, t.down[p], rest)
      BY <1>1, <1>5, <2>3 DEF Transfer!Acknowledged, Moved
    <3>2. block \in 0 .. n + 1 /\ block <= Blocks + 1
      BY <1>1
    <3> QED BY <1>1, <1>3, <2>1, <3>1, <3>2
  <2> QED BY <2>2, <2>3
<1>6. t.sending[p] \in 0 .. n + 1 /\ t.sending[p] <= Blocks + 1
      /\ t.up[r] \in Seq({Transfer!Request} \cup Acks(Blocks))
  BY <1>1
<1>7. ASSUME NEW down \in Seq(Downs(n)), NEW up \in Seq(Acks(n)),
             tftp' = [t EXCEPT !.down[p] = down, !.up[p] = up]
      PROVE  Transferring'
  <2>1. tftp' = Moved(t, p, t.up[r], t.sending[p], down, up)
    BY <1>1, <1>7 DEF Moved, TransferShapes
  <2> QED BY <1>3, <1>6, <2>1
<1>8. CASE Transfer!Resend(p)
  <2>1. PICK datagram \in {Transfer!Data(t.sending[p]), Transfer!Garbage} :
          t.sending[p] \in 1 .. Blocks /\ tftp' = [t EXCEPT !.down[p] = Append(@, datagram)]
    BY <1>8 DEF Transfer!Resend
  <2>2. Append(t.down[p], datagram) \in Seq(Downs(n))
    BY <1>1, <1>2, <2>1
  <2>3. tftp' = [t EXCEPT !.down[p] = Append(t.down[p], datagram), !.up[p] = t.up[p]]
    BY <1>1, <2>1 DEF TransferShapes
  <2> QED BY <1>1, <1>7, <2>2, <2>3
<1>9. CASE Transfer!LoseDown(p)
  <2>1. Tail(t.down[p]) \in Seq(Downs(n))
    BY <1>1, <1>9 DEF Transfer!LoseDown
  <2>2. tftp' = [t EXCEPT !.down[p] = Tail(t.down[p]), !.up[p] = t.up[p]]
    BY <1>1, <1>9 DEF Transfer!LoseDown, TransferShapes
  <2> QED BY <1>1, <1>7, <2>1, <2>2
<1>10. CASE Transfer!LoseUp(p)
  <2>1. Tail(t.up[p]) \in Seq(Acks(n))
    BY <1>1, <1>10 DEF Transfer!LoseUp
  <2>2. tftp' = [t EXCEPT !.down[p] = t.down[p], !.up[p] = Tail(t.up[p])]
    BY <1>1, <1>10 DEF Transfer!LoseUp, TransferShapes
  <2> QED BY <1>1, <1>7, <2>1, <2>2
<1>11. CASE Transfer!RepeatDown(p)
  <2>1. <<Head(t.down[p])>> \o t.down[p] \in Seq(Downs(n))
    BY <1>1, <1>11 DEF Transfer!RepeatDown
  <2>2. tftp' = [t EXCEPT !.down[p] = <<Head(t.down[p])>> \o t.down[p], !.up[p] = t.up[p]]
    BY <1>1, <1>11 DEF Transfer!RepeatDown, TransferShapes
  <2> QED BY <1>1, <1>7, <2>1, <2>2
<1> QED BY <1>4, <1>5, <1>8, <1>9, <1>10, <1>11


\* What is known of the client's fields, and of the datagrams, one by one.
Fields(t) ==
  /\ t.phase \in {"sending", "waiting", "over"} /\ t.peer \in Heard
  /\ t.outgoing \in {Transfer!Request} \cup Acks(Blocks)
  /\ t.attempts \in 0 .. Retries + 1 /\ t.expected \in 0 .. Wrap - 1 /\ t.sunk \in Seq(1 .. Blocks)
  /\ t.result \in {None, "timed out", "link lost", "refused", "sink refused", "done"}
  /\ t.sending \in [Ports -> 0 .. Blocks + 1] /\ t.down \in [Ports -> Seq(Downs(Blocks))]
  /\ t.up \in [Heard -> Seq({Transfer!Request} \cup Acks(Blocks))]

LEMMA ClientStep ==
  ASSUME BlocksAreNumbered, Transferring, Transfer!Send \/ Transfer!NoReply \/ Transfer!Over
  PROVE  Transferring'
<1> DEFINE n == Len(tftp.sunk)
           t == tftp
           u == tftp'
<1>1. t \in TransferShapes /\ Fields(t) /\ Has(t, n)
  BY DEF Transferring, TransferShapes, Fields
<1>2. ASSUME NEW phase \in {"sending", "waiting", "over"}, NEW result \in {None, "timed out", "link lost"},
             NEW attempts \in 0 .. Retries + 1, NEW up \in [Heard -> Seq({Transfer!Request} \cup Acks(Blocks))],
             \A p \in Ports : up[p] \in Seq(Acks(n)), t.phase # "over",
             phase # "over" => result = None,
             u = [t EXCEPT !.phase = phase, !.result = result, !.attempts = attempts, !.up = up]
      PROVE  Transferring'
  <2>1. u \in TransferShapes
    BY <1>1, <1>2 DEF TransferShapes
  <2>2. /\ u.phase = phase /\ u.result = result /\ u.up = up /\ u.sunk = t.sunk /\ u.expected = t.expected
        /\ u.peer = t.peer /\ u.outgoing = t.outgoing /\ u.sending = t.sending /\ u.down = t.down
    BY <1>1, <1>2 DEF TransferShapes
  <2>3. result # "done"
    BY <1>2 DEF BlocksAreNumbered
  <2>4. Len(u.sunk) = n
    BY <2>2
  <2> HIDE DEF u, n, t
  <2>5. Has(u, n)
    BY <1>1, <1>2, <2>2, <2>3 DEF Has
  <2> QED BY <2>1, <2>4, <2>5 DEF Transferring, u
<1>3. CASE Transfer!Send
  <2>1. \A p \in Ports : t.up[p] \in Seq(Acks(n))
    BY <1>1 DEF Has
  <2>2. t.phase = "sending" /\ t.phase # "over"
    BY <1>3 DEF Transfer!Send
  <2>3. CASE t.attempts > Retries
    <3>1. u = [t EXCEPT !.phase = "over", !.result = "timed out", !.attempts = t.attempts, !.up = t.up]
      BY <1>1, <1>3, <2>3 DEF Transfer!Send, Transfer!End, TransferShapes
    <3> QED BY <1>1, <1>2, <2>1, <2>2, <3>1 DEF Fields
  <2>4. CASE ~(t.attempts > Retries)
    <3>1. t.attempts + 1 \in 0 .. Retries + 1 /\ t.result = None
      <4>1. t.attempts \in 0 .. Retries + 1 /\ t.result = None
        BY <1>1, <2>2 DEF Fields, Has
      <4> QED BY <2>4, <4>1 DEF BlocksAreNumbered
    <3>2. CASE Len(t.up[t.peer]) = Capacity
      <4>1. u = [t EXCEPT !.phase = "waiting", !.result = t.result, !.attempts = t.attempts + 1, !.up = t.up]
        BY <1>1, <1>3, <2>4, <3>2 DEF Transfer!Send, TransferShapes
      <4> QED BY <1>1, <1>2, <2>1, <2>2, <3>1, <4>1 DEF Fields
    <3>3. CASE Len(t.up[t.peer]) # Capacity
      <4> DEFINE up == [t.up EXCEPT ![t.peer] = Append(@, t.outgoing)]
      <4>1. u = [t EXCEPT !.phase = "waiting", !.result = t.result, !.attempts = t.attempts + 1, !.up = up]
        BY <1>1, <1>3, <2>4, <3>3 DEF Transfer!Send, TransferShapes
      <4>2. up \in [Heard -> Seq({Transfer!Request} \cup Acks(Blocks))]
        <5>1. /\ t.up \in [Heard -> Seq({Transfer!Request} \cup Acks(Blocks))] /\ t.peer \in Heard
              /\ t.outgoing \in {Transfer!Request} \cup Acks(Blocks)
          BY <1>1 DEF Fields
        <5> HIDE DEF t
        <5>2. Append(t.up[t.peer], t.outgoing) \in Seq({Transfer!Request} \cup Acks(Blocks))
          BY <5>1
        <5> QED BY <5>1, <5>2
      <4>3. \A p \in Ports : up[p] \in Seq(Acks(n))
        <5> TAKE p \in Ports
        <5>1. p \in Heard /\ t.up[p] \in Seq(Acks(n))
          BY <2>1 DEF Heard
        <5>2. CASE p = t.peer
          <6>1. t.outgoing \in Acks(n) /\ up[p] = Append(t.up[p], t.outgoing)
            BY <1>1, <5>1, <5>2 DEF Has, Fields
          <6> HIDE DEF n, t, up
          <6> QED BY <5>1, <6>1
        <5>3. CASE p # t.peer
          BY <1>1, <5>1, <5>3 DEF Fields
        <5> QED BY <5>2, <5>3
      <4> HIDE DEF up
      <4> QED BY <1>1, <1>2, <2>1, <2>2, <3>1, <4>1, <4>2, <4>3
    <3> QED BY <3>2, <3>3
  <2> QED BY <2>3, <2>4
<1>4. CASE Transfer!NoReply
  <2>1. \A p \in Ports : t.up[p] \in Seq(Acks(n))
    BY <1>1 DEF Has
  <2>2. t.phase = "waiting" /\ t.phase # "over" /\ u \in {[t EXCEPT !.phase = "sending"], Transfer!End(t, "link lost")}
    BY <1>4 DEF Transfer!NoReply
  <2>3. CASE u = [t EXCEPT !.phase = "sending"]
    <3>1. u = [t EXCEPT !.phase = "sending", !.result = t.result, !.attempts = t.attempts, !.up = t.up]
      BY <1>1, <2>3 DEF TransferShapes
    <3>2. t.result = None
      BY <1>1, <2>2 DEF Fields, Has
    <3> QED BY <1>1, <1>2, <2>1, <2>2, <3>1, <3>2 DEF Fields
  <2>4. CASE u = Transfer!End(t, "link lost")
    <3>1. u = [t EXCEPT !.phase = "over", !.result = "link lost", !.attempts = t.attempts, !.up = t.up]
      BY <1>1, <2>4 DEF Transfer!End, TransferShapes
    <3> QED BY <1>1, <1>2, <2>1, <2>2, <3>1 DEF Fields
  <2> QED BY <2>2, <2>3, <2>4
<1>5. CASE Transfer!Over
  BY <1>5 DEF Transfer!Over, Transferring
<1> QED BY <1>3, <1>4, <1>5


\* The number after a block's is that of the block after it.
LEMMA NextNumber ==
  ASSUME BlocksAreNumbered, NEW a \in 1 .. Wrap
  PROVE  ((a % Wrap) + 1) % Wrap = (a + 1) % Wrap
<1>1. CASE a = Wrap
  <2>1. a % Wrap = 0 /\ 1 % Wrap = 1
    BY <1>1, NumberIs DEF BlocksAreNumbered
  <2>2. (1 + Wrap) % Wrap = 1 % Wrap
    BY DEF BlocksAreNumbered
  <2> QED BY <1>1, <2>1, <2>2 DEF BlocksAreNumbered
<1>2. CASE a # Wrap
  BY <1>2, NumberIs
<1> QED BY <1>1, <1>2

\* A transfer has heard a datagram from a port.
Told(t, p, c) ==
  [t EXCEPT !.down = [t.down EXCEPT ![p] = Tail(t.down[p])], !.phase = c.phase, !.peer = c.peer, !.outgoing = c.outgoing,
            !.attempts = c.attempts, !.expected = c.expected, !.sunk = c.sunk, !.result = c.result]

\* A client that has the first n blocks.
Client(c, n) ==
  /\ n \in 0 .. Blocks /\ c.phase \in {"sending", "over"} /\ c.peer \in Heard
  /\ c.attempts \in 0 .. Retries + 1 /\ c.expected \in 0 .. Wrap - 1 /\ c.sunk \in Seq(1 .. Blocks)
  /\ c.result \in {None, "refused", "sink refused", "done"}
  /\ IF c.peer \in Ports THEN c.outgoing \in Acks(n) ELSE c.outgoing = Transfer!Request
  /\ c.phase # "over" => n < Blocks /\ c.result = None
  /\ c.result = "done" => n = Blocks
  /\ c.expected = (n + 1) % Wrap /\ Len(c.sunk) = n /\ \A i \in 1 .. n : c.sunk[i] = i

LEMMA ClientHears ==
  ASSUME BlocksAreNumbered, NEW t \in TransferShapes, NEW n \in Nat, Has(t, n), NEW p \in Ports, t.down[p] # <<>>,
         NEW m \in {n, n + 1}, NEW c, Client(c, m)
  PROVE  LET u == Told(t, p, c)
         IN u \in TransferShapes /\ Has(u, m) /\ Len(u.sunk) = m
<1> DEFINE downs == [t.down EXCEPT ![p] = Tail(t.down[p])]
           u == [t EXCEPT !.down = downs, !.phase = c.phase, !.peer = c.peer, !.outgoing = c.outgoing,
            !.attempts = c.attempts, !.expected = c.expected, !.sunk = c.sunk, !.result = c.result]
<1>1. n \in 0 .. Blocks /\ m \in 0 .. Blocks /\ m \in Nat /\ n <= m /\ Blocks \in Nat
  <2>1. n \in 0 .. Blocks /\ m \in 0 .. Blocks
    BY DEF Has, Client
  <2>2. Blocks \in Nat
    BY DEF BlocksAreNumbered
  <2> QED BY <2>1, <2>2
<1>2. Acks(m) \subseteq Acks(Blocks)
  <2>1. 1 .. m \subseteq 1 .. Blocks
    BY <1>1
  <2> QED BY <2>1 DEF Acks
<1>3. Seq(Downs(n)) \subseteq Seq(Downs(m)) /\ Seq(Acks(n)) \subseteq Seq(Acks(m))
  BY <1>1, Later
<1>4. downs \in [Ports -> Seq(Downs(Blocks))]
  <2>1. t.down \in [Ports -> Seq(Downs(Blocks))]
    BY DEF TransferShapes
  <2>2. Tail(t.down[p]) \in Seq(Downs(Blocks))
    <3>1. t.down[p] \in Seq(Downs(Blocks))
      BY <2>1
    <3> QED BY <3>1
  <2> QED BY <2>1, <2>2
<1>5. ASSUME NEW q \in Ports
      PROVE  t.sending[q] <= m + 1 /\ downs[q] \in Seq(Downs(m)) /\ t.up[q] \in Seq(Acks(m))
  <2>1. t.sending[q] <= n + 1 /\ t.down[q] \in Seq(Downs(n)) /\ t.up[q] \in Seq(Acks(n))
        /\ t.sending[q] \in 0 .. Blocks + 1
    BY DEF Has, TransferShapes
  <2>2. t.sending[q] <= m + 1
    BY <2>1, <1>1
  <2>3. downs[q] = IF q = p THEN Tail(t.down[q]) ELSE t.down[q]
    BY DEF TransferShapes
  <2>4. downs[q] \in Seq(Downs(n))
    <3>1. CASE q = p
      <4>1. downs[q] = Tail(t.down[q]) /\ t.down[q] # <<>>
        BY <2>3, <3>1
      <4> HIDE DEF downs
      <4> QED BY <2>1, <4>1
    <3>2. CASE q # p
      BY <2>1, <2>3, <3>2
    <3> QED BY <3>1, <3>2
  <2> QED BY <1>3, <2>1, <2>2, <2>4
<1> HIDE DEF downs
<1>6. u \in TransferShapes
  <2>1. c.outgoing \in {Transfer!Request} \cup Acks(Blocks)
    BY <1>2 DEF Client
  <2>2. /\ c.phase \in {"sending", "waiting", "over"} /\ c.peer \in Heard
        /\ c.attempts \in 0 .. Retries + 1 /\ c.expected \in 0 .. Wrap - 1 /\ c.sunk \in Seq(1 .. Blocks)
        /\ c.result \in {None, "timed out", "link lost", "refused", "sink refused", "done"}
    BY DEF Client
  <2> QED BY <1>4, <2>1, <2>2 DEF TransferShapes
<1>7. /\ u.sunk = c.sunk /\ u.expected = c.expected /\ u.phase = c.phase /\ u.result = c.result
      /\ u.peer = c.peer /\ u.outgoing = c.outgoing
      /\ u.sending = t.sending /\ u.down = downs /\ u.up = t.up
  BY DEF TransferShapes
<1> HIDE DEF u
<1>8. Has(u, m)
  BY <1>1, <1>5, <1>7 DEF Has, Client
<1>9. Len(u.sunk) = m
  BY <1>7 DEF Client
<1>10. u = Told(t, p, c)
  BY DEF Told, u, downs
<1> QED BY <1>6, <1>8, <1>9, <1>10


LEMMA ReceiveStep ==
  ASSUME BlocksAreNumbered, Transferring, NEW p \in Ports, Transfer!Receive(p)
  PROVE  Transferring'
<1> DEFINE n == Len(tftp.sunk)
           t == tftp
           datagram == Head(t.down[p])
           heard == [t EXCEPT !.down[p] = Tail(@)]
           taken == [Transfer!Sunk([heard EXCEPT !.peer = p], datagram)
                        EXCEPT !.outgoing = Transfer!Ack(datagram.block), !.attempts = 0, !.phase = "sending"]
           At(phase, peer, outgoing, attempts, expected, sunk, result) ==
             [phase |-> phase, peer |-> peer, outgoing |-> outgoing, attempts |-> attempts,
              expected |-> expected, sunk |-> sunk, result |-> result]
<1>1. t \in TransferShapes /\ Fields(t) /\ Has(t, n)
  BY DEF Transferring, TransferShapes, Fields
<1>2. /\ t.phase = "waiting" /\ t.down[p] # <<>>
      /\ CASE datagram.kind = "other" -> tftp' = [heard EXCEPT !.phase = "sending"]
           [] datagram.kind = "error" -> tftp' = Transfer!End(heard, "refused")
           [] OTHER ->
                \/ /\ datagram.block = t.expected
                   /\ tftp' = Transfer!End(heard, "sink refused")
                \/ tftp' = IF Transfer!Short(datagram) THEN Transfer!End(taken, "done") ELSE taken
  BY DEF Transfer!Receive
<1>3. /\ n \in Nat /\ n \in 0 .. Blocks /\ n < Blocks /\ t.result = None /\ p \in Heard /\ Blocks \in Nat
      /\ t.expected = (n + 1) % Wrap /\ datagram \in Downs(n)
      /\ IF t.peer \in Ports THEN t.outgoing \in Acks(n) ELSE t.outgoing = Transfer!Request
  <2>1. n \in 0 .. Blocks /\ n < Blocks /\ t.result = None /\ t.expected = (n + 1) % Wrap
        /\ IF t.peer \in Ports THEN t.outgoing \in Acks(n) ELSE t.outgoing = Transfer!Request
    BY <1>1, <1>2 DEF Has
  <2>2. t.down[p] \in Seq(Downs(n)) /\ t.down[p] # <<>>
    BY <1>1, <1>2 DEF Has
  <2> HIDE DEF n, t
  <2>3. datagram \in Downs(n)
    BY <2>2
  <2> QED BY <2>1, <2>3 DEF Heard, BlocksAreNumbered
<1> HIDE DEF n
<1>4. ASSUME NEW m \in {n, n + 1}, NEW c, Client(c, m), tftp' = Told(t, p, c)
      PROVE  Transferring'
  <2> DEFINE u == Told(t, p, c)
  <2>1. t \in TransferShapes /\ Has(t, n) /\ n \in Nat /\ t.down[p] # <<>>
    BY <1>1, <1>2, <1>3
  <2> HIDE DEF t
  <2>2. u \in TransferShapes /\ Has(u, m) /\ Len(u.sunk) = m
    BY <1>4, <2>1, ClientHears
  <2>3. tftp' = u
    BY <1>4
  <2> HIDE DEF u
  <2> QED BY <2>2, <2>3 DEF Transferring
<1>5. CASE datagram.kind = "other"
  <2> DEFINE c == At("sending", t.peer, t.outgoing, t.attempts, t.expected, t.sunk, t.result)
  <2>1. tftp' = Told(t, p, c)
    BY <1>1, <1>2, <1>5 DEF Told, TransferShapes
  <2>2. Client(c, n)
    BY <1>1, <1>3 DEF Client, Fields, Has
  <2> QED BY <1>4, <2>1, <2>2
<1>6. ASSUME NEW result \in {"refused", "sink refused"}, tftp' = Transfer!End(heard, result)
      PROVE  Transferring'
  <2> DEFINE c == At("over", t.peer, t.outgoing, t.attempts, t.expected, t.sunk, result)
  <2>1. tftp' = Told(t, p, c)
    BY <1>1, <1>6 DEF Told, TransferShapes, Transfer!End
  <2>2. Client(c, n)
    BY <1>1, <1>3, <1>6 DEF Client, Fields, Has
  <2> QED BY <1>4, <2>1, <2>2
<1>7. CASE ~(datagram.kind = "other") /\ ~(datagram.kind = "error")
           /\ tftp' = IF Transfer!Short(datagram) THEN Transfer!End(taken, "done") ELSE taken
  <2>1. PICK k \in 1 .. Blocks \cap 1 .. n + 1 : datagram = Transfer!Data(k)
    BY <1>3, <1>7 DEF Downs, Transfer!Refusal, Transfer!Garbage
  <2>2. datagram.block = k % Wrap /\ datagram.n = k
    BY <2>1 DEF Transfer!Data
  <2>3. k \in 1 .. Wrap /\ n + 1 \in 1 .. Wrap /\ k \in Nat /\ k <= n + 1 /\ k >= 1
    BY <1>3 DEF BlocksAreNumbered
  <2> DEFINE next == k = n + 1
             m == IF next THEN n + 1 ELSE n
             c == At(IF k = Blocks THEN "over" ELSE "sending", p, Transfer!Ack(k % Wrap), 0, (m + 1) % Wrap,
                     IF next THEN Append(t.sunk, k) ELSE t.sunk, IF k = Blocks THEN "done" ELSE t.result)
  <2>4. (datagram.block = t.expected) = next
    BY <1>3, <2>2, <2>3, NumbersDiffer
  <2>5. (t.expected + 1) % Wrap = (n + 1 + 1) % Wrap
    BY <1>3, <2>3, NextNumber
  <2>6. tftp' = Told(t, p, c)
    <3>1. CASE next /\ k = Blocks
      BY <1>1, <1>7, <2>2, <2>4, <2>5, <3>1, ZenonT(40)
        DEF Told, TransferShapes, Transfer!End, Transfer!Sunk, Transfer!Short
    <3>2. CASE next /\ k # Blocks
      BY <1>1, <1>7, <2>2, <2>4, <2>5, <3>2, ZenonT(40)
        DEF Told, TransferShapes, Transfer!End, Transfer!Sunk, Transfer!Short
    <3>3. CASE ~next /\ k = Blocks
      BY <1>1, <1>3, <1>7, <2>2, <2>4, <2>5, <3>3, ZenonT(40)
        DEF Told, TransferShapes, Transfer!End, Transfer!Sunk, Transfer!Short
    <3>4. CASE ~next /\ k # Blocks
      BY <1>1, <1>3, <1>7, <2>2, <2>4, <2>5, <3>4, ZenonT(40)
        DEF Told, TransferShapes, Transfer!End, Transfer!Sunk, Transfer!Short
    <3> QED BY <3>1, <3>2, <3>3, <3>4
  <2>7. Client(c, m)
    <3>1. m \in 0 .. Blocks /\ k \in 1 .. m /\ (k = Blocks => m = Blocks) /\ (k # Blocks => m < Blocks)
      BY <1>3, <2>3
    <3>2. Transfer!Ack(k % Wrap) \in Acks(m)
      BY <3>1 DEF Acks
    <3>3. c.sunk \in Seq(1 .. Blocks) /\ Len(c.sunk) = m /\ \A i \in 1 .. m : c.sunk[i] = i
      <4>1. t.sunk \in Seq(1 .. Blocks) /\ Len(t.sunk) = n /\ \A i \in 1 .. n : t.sunk[i] = i
        BY <1>1 DEF Has, Fields
      <4>2. c.sunk = IF next THEN Append(t.sunk, k) ELSE t.sunk
        OBVIOUS
      <4> HIDE DEF t, c
      <4>3. CASE next
        <5>1. k \in 1 .. Blocks /\ c.sunk = Append(t.sunk, k) /\ m = n + 1
          BY <2>1, <4>2, <4>3
        <5> HIDE DEF m
        <5> QED BY <1>3, <4>1, <4>3, <5>1
      <4>4. CASE ~next
        BY <4>1, <4>2, <4>4
      <4> QED BY <4>3, <4>4
    <3>4. (m + 1) % Wrap \in 0 .. Wrap - 1
      BY <1>3 DEF BlocksAreNumbered
    <3> HIDE DEF t, m
    <3> QED BY <1>3, <3>1, <3>2, <3>3, <3>4 DEF Client, BlocksAreNumbered
  <2> HIDE DEF c
  <2> QED BY <1>4, <2>6, <2>7
<1>8. CASE datagram.kind = "error"
  BY <1>2, <1>6, <1>8
<1>9. CASE ~(datagram.kind = "other") /\ ~(datagram.kind = "error")
  BY <1>2, <1>6, <1>7, <1>9
<1> QED BY <1>5, <1>8, <1>9


LEMMA TransferStep ==
  ASSUME BlocksAreNumbered PROVE Transferring /\ [Transfer!Next]_tftp => Transferring'
<1> SUFFICES ASSUME Transferring, [Transfer!Next]_tftp PROVE Transferring'
  OBVIOUS
<1>1. CASE \E p \in Ports : \/ Transfer!Accept(p) \/ Transfer!Acknowledged(p) \/ Transfer!Resend(p)
                            \/ Transfer!LoseDown(p) \/ Transfer!LoseUp(p) \/ Transfer!RepeatDown(p)
  BY <1>1, OutsideStep
<1>2. CASE \E p \in Ports : Transfer!Receive(p)
  BY <1>2, ReceiveStep
<1>3. CASE Transfer!Send \/ Transfer!NoReply \/ Transfer!Over
  BY <1>3, ClientStep
<1>4. CASE UNCHANGED tftp
  BY <1>4 DEF Transferring
<1> QED BY <1>1, <1>2, <1>3, <1>4 DEF Transfer!Next

\* Whatever is lost, repeated, or sent by two transfers of the server at once, the sink
\* is handed the blocks of the file in order, each once; and no more tries are made than
\* the client allows itself (`download_to_sink`, net/tftp.rs).
THEOREM TransfersAreInOrder ==
  ASSUME BlocksAreNumbered PROVE Transfer!Spec => [](Transfer!TypeOK /\ Transfer!BlocksInOrder)
<1>1. Transferring => Transfer!TypeOK
  <2> SUFFICES ASSUME Transferring PROVE Transfer!TypeOK
    OBVIOUS
  <2>1. /\ tftp.phase \in {"sending", "waiting", "over"} /\ tftp.expected \in 0 .. Wrap - 1
        /\ tftp.attempts \in 0 .. Retries + 1
    BY DEF Transferring, TransferShapes
  <2> QED BY <2>1 DEF Transfer!TypeOK, BlocksAreNumbered
<1>2. Transferring => Transfer!BlocksInOrder
  BY DEF Transferring, Has, Transfer!BlocksInOrder
<1>3. Transfer!Spec => []Transferring
  BY TransferBegins, TransferStep, PTL DEF Transfer!Spec
<1> QED BY <1>1, <1>2, <1>3, PTL

\* A transfer that ends well handed over every block of the file, not just what came
\* before a short block that was heard twice.
THEOREM DoneTransfersAreWhole ==
  ASSUME BlocksAreNumbered PROVE Transfer!Spec => []Transfer!DoneMeansWhole
<1>1. Transferring => Transfer!DoneMeansWhole
  BY DEF Transferring, Has, Transfer!DoneMeansWhole
<1>2. Transfer!Spec => []Transferring
  BY TransferBegins, TransferStep, PTL DEF Transfer!Spec
<1> QED BY <1>1, <1>2, PTL

---------------------------------------------------------------------------
(* The IP stack.  Address, resolvers, source and DHCP client change        *)
(* together; a query either waits with its slot or is settled without it;  *)
(* and how long it has waited says which resolvers were asked.             *)

CONSTANTS Addresses, Lists, MaxServers, MaxStall, MaxLost
VARIABLE net

Stack == INSTANCE NetStack

Leases == [held : BOOLEAN, servers : Seq(Addresses)]
Sources == {"dhcp", "static"}
Outcomes == {"no servers", "timed out", "ready", "not found", "link lost"}

\* What the theorems about the stack assume: lists are of addresses, and the marker
\* for none is no lease, configuration, source, answer or outcome.
ListsAreNamed ==
  /\ Lists \subseteq Seq(Addresses) /\ MaxServers \in Nat /\ MaxStall \in Nat
  /\ None \notin Leases /\ None \notin [servers : Seq(Addresses), from : Sources]
  /\ None \notin Sources /\ None \notin {"found", "nothing"} /\ None \notin Outcomes

\* The lists there may be of resolvers, after those too many were left out.
Resolvers == {<<>>} \cup {Stack!Truncated(list) : list \in Lists}
Configs == [servers : Resolvers, from : Sources]

SlotShapes ==
  [state : {"free", "pending", "completed", "failed"}, server : Nat \ {0}, waited : Nat, asked : SUBSET Addresses]
QueryShapes ==
  [open : BOOLEAN, settled : BOOLEAN, budget : Nat, elapsed : Nat, outcome : {None} \cup Outcomes,
   answered : BOOLEAN, disturbed : BOOLEAN]
StackShapes ==
  [link : BOOLEAN, source : {"none"} \cup Sources, client : {"absent", "asking", "held"},
   config : {None} \cup Configs, address : {None} \cup Sources, servers : Resolvers, lost : Nat, losses : Nat,
   slot : SlotShapes, query : QueryShapes, panicked : BOOLEAN]

\* Address, resolvers, source and client go together.
Fits(s) ==
  /\ s \in StackShapes
  /\ s.servers = Stack!ConfigServers(s)
  /\ s.address = None <=> s.config = None
  /\ s.config # None => s.config.from = s.source
  /\ s.client = "absent" <=> s.source # "dhcp"
  /\ s.client = "asking" => s.config = None
  /\ s.lost <= s.losses

\* What a new configuration leaves alone: all of a query, unless it is marked.
Marked(query) == [query EXCEPT !.disturbed = TRUE]
Reconfigured(s, t) ==
  /\ t.link = s.link /\ t.slot = s.slot /\ t.panicked = s.panicked
  /\ (t.query = s.query /\ t.servers = s.servers) \/ t.query = Marked(s.query)

LEMMA TruncatedIs ==
  ASSUME ListsAreNamed, NEW list \in Seq(Addresses)
  PROVE  /\ Stack!Truncated(list) \in Seq(Addresses) /\ Len(Stack!Truncated(list)) <= MaxServers
         /\ Len(Stack!Truncated(list)) <= Len(list)
         /\ \A i \in 1 .. Len(Stack!Truncated(list)) : Stack!Truncated(list)[i] = list[i]
<1> DEFINE n == IF Len(list) < MaxServers THEN Len(list) ELSE MaxServers
<1>1. n \in 0 .. Len(list) /\ n <= MaxServers /\ n \in Nat
  BY DEF ListsAreNamed
<1> HIDE DEF n
<1>2. /\ SubSeq(list, 1, n) \in Seq(Addresses) /\ Len(SubSeq(list, 1, n)) = n
      /\ \A i \in 1 .. n : SubSeq(list, 1, n)[i] = list[i]
  BY <1>1, SubSeqProperties
<1> QED BY <1>1, <1>2 DEF Stack!Truncated, n

LEMMA ResolversAre ==
  ASSUME ListsAreNamed, NEW list \in Resolvers
  PROVE  list \in Seq(Addresses) /\ Len(list) <= MaxServers /\ Len(list) \in Nat
<1>1. CASE list = <<>>
  BY <1>1 DEF ListsAreNamed
<1>2. CASE list # <<>>
  <2>1. PICK long \in Lists : list = Stack!Truncated(long)
    BY <1>2 DEF Resolvers
  <2> QED BY <2>1, TruncatedIs DEF ListsAreNamed
<1> QED BY <1>1, <1>2

LEMMA ConfigsAreSome == ListsAreNamed => None \notin Configs
<1> SUFFICES ASSUME ListsAreNamed PROVE None \notin Configs
  OBVIOUS
<1>1. Resolvers \subseteq Seq(Addresses)
  BY ResolversAre
<1> QED BY <1>1 DEF Configs, ListsAreNamed

LEMMA UpdateKeeps ==
  ASSUME NEW s \in StackShapes, NEW list \in Resolvers
  PROVE  LET t == Stack!UpdateServers(s, list)
         IN /\ t \in StackShapes /\ Reconfigured(s, t) /\ t.servers = list
            /\ t.source = s.source /\ t.client = s.client /\ t.config = s.config /\ t.address = s.address
            /\ t.lost = s.lost /\ t.losses = s.losses
<1>1. CASE list = s.servers
  BY <1>1 DEF Stack!UpdateServers, Reconfigured
<1>2. CASE list # s.servers
  <2> DEFINE t == [s EXCEPT !.query = Marked(s.query), !.servers = list]
  <2>1. Marked(s.query) \in QueryShapes
    BY DEF Marked, StackShapes, QueryShapes
  <2>2. t = Stack!UpdateServers(s, list)
    BY <1>2 DEF Stack!UpdateServers, Stack!Disturbed, Marked, StackShapes
  <2>3. t \in StackShapes
    BY <2>1 DEF StackShapes
  <2>4. /\ t.link = s.link /\ t.slot = s.slot /\ t.panicked = s.panicked /\ t.query = Marked(s.query)
        /\ t.source = s.source /\ t.client = s.client /\ t.config = s.config /\ t.address = s.address
        /\ t.lost = s.lost /\ t.losses = s.losses /\ t.servers = list
    BY DEF StackShapes
  <2> HIDE DEF t
  <2> QED BY <2>2, <2>3, <2>4 DEF Reconfigured
<1> QED BY <1>1, <1>2

LEMMA ClearKeeps ==
  ASSUME NEW s, Fits(s)
  PROVE  LET t == Stack!ClearAddresses(s)
         IN /\ Fits(t) /\ Reconfigured(s, t) /\ t.config = None /\ t.address = None
            /\ t.source = s.source /\ t.client = s.client /\ t.lost = s.lost /\ t.losses = s.losses
<1> DEFINE u == Stack!UpdateServers(s, <<>>)
           t == [u EXCEPT !.config = None, !.address = None]
<1>1. s \in StackShapes /\ <<>> \in Resolvers
  BY DEF Fits, Resolvers
<1>2. /\ u \in StackShapes /\ Reconfigured(s, u) /\ u.servers = <<>>
      /\ u.source = s.source /\ u.client = s.client /\ u.lost = s.lost /\ u.losses = s.losses
  BY <1>1, UpdateKeeps
<1> HIDE DEF u
<1>3. t \in StackShapes
  BY <1>2 DEF StackShapes
<1>4. /\ t.link = u.link /\ t.slot = u.slot /\ t.panicked = u.panicked /\ t.query = u.query
      /\ t.source = u.source /\ t.client = u.client /\ t.config = None /\ t.address = None
      /\ t.lost = u.lost /\ t.losses = u.losses /\ t.servers = u.servers
  BY <1>2 DEF StackShapes
<1> HIDE DEF t
<1>5. Fits(t)
  BY <1>2, <1>3, <1>4 DEF Fits, Stack!ConfigServers
<1>6. Reconfigured(s, t)
  BY <1>2, <1>4 DEF Reconfigured
<1> QED BY <1>2, <1>4, <1>5, <1>6 DEF Stack!ClearAddresses, t, u

\* A list put in a configuration that the stack now has is asked from then on.
LEMMA InstallKeeps ==
  ASSUME ListsAreNamed, NEW s, Fits(s), NEW config \in Configs, NEW address \in Sources,
         config.from = s.source, s.client # "asking"
  PROVE  LET t == Stack!InstallDnsServers([s EXCEPT !.config = config, !.address = address])
         IN /\ Fits(t) /\ Reconfigured(s, t)
            /\ t.source = s.source /\ t.client = s.client /\ t.lost = s.lost /\ t.losses = s.losses
<1> DEFINE u == [s EXCEPT !.config = config, !.address = address]
           t == Stack!UpdateServers(u, config.servers)
<1>1. s \in StackShapes /\ config.servers \in Resolvers /\ config # None /\ address # None
  BY ConfigsAreSome DEF Fits, Configs, ListsAreNamed
<1>2. u \in StackShapes
  BY <1>1 DEF StackShapes
<1>3. /\ u.link = s.link /\ u.slot = s.slot /\ u.panicked = s.panicked /\ u.query = s.query
      /\ u.source = s.source /\ u.client = s.client /\ u.config = config /\ u.address = address
      /\ u.lost = s.lost /\ u.losses = s.losses /\ u.servers = s.servers
  BY <1>1 DEF StackShapes
<1>4. t = Stack!InstallDnsServers(u)
  BY <1>1, <1>3 DEF Stack!InstallDnsServers
<1> HIDE DEF u
<1>5. /\ t \in StackShapes /\ Reconfigured(u, t) /\ t.servers = config.servers
      /\ t.source = u.source /\ t.client = u.client /\ t.config = u.config /\ t.address = u.address
      /\ t.lost = u.lost /\ t.losses = u.losses
  BY <1>1, <1>2, UpdateKeeps
<1> HIDE DEF t
<1>6. Fits(t)
  BY <1>1, <1>3, <1>5 DEF Fits, Stack!ConfigServers
<1>7. Reconfigured(s, t)
  BY <1>3, <1>5 DEF Reconfigured
<1> QED BY <1>3, <1>4, <1>5, <1>6, <1>7 DEF u

LEMMA ApplyKeeps ==
  ASSUME ListsAreNamed, NEW s, Fits(s), NEW list \in Lists \cup {<<>>}, s.source \in Sources, s.client # "asking"
  PROVE  LET t == Stack!ApplyConfig(s, [servers |-> list, from |-> s.source])
         IN /\ Fits(t) /\ Reconfigured(s, t)
            /\ t.source = s.source /\ t.client = s.client /\ t.lost = s.lost /\ t.losses = s.losses
<1> DEFINE config == [servers |-> Stack!Truncated(list), from |-> s.source]
           u == [s EXCEPT !.config = config, !.address = s.source]
<1>1. Stack!Truncated(list) \in Resolvers
  <2>1. CASE list \in Lists
    BY <2>1 DEF Resolvers
  <2>2. CASE list = <<>>
    <3>1. <<>> \in Seq(Addresses) /\ Len(<<>>) = 0
      OBVIOUS
    <3>2. Stack!Truncated(<<>>) \in Seq(Addresses) /\ Len(Stack!Truncated(<<>>)) <= 0
      BY <3>1, TruncatedIs
    <3>3. Stack!Truncated(<<>>) = <<>>
      BY <3>2
    <3> QED BY <2>2, <3>3 DEF Resolvers
  <2> QED BY <2>1, <2>2
<1>2. config \in Configs /\ config.from = s.source
  BY <1>1 DEF Configs
<1>3. Stack!ApplyConfig(s, [servers |-> list, from |-> s.source]) = Stack!InstallDnsServers(u)
  <2> DEFINE given == [servers |-> list, from |-> s.source]
  <2>1. [given EXCEPT !.servers = Stack!Truncated(@)] = config /\ given.from = s.source
    OBVIOUS
  <2> HIDE DEF given, config
  <2>2. Stack!ApplyConfig(s, given) = Stack!InstallDnsServers(u)
    BY <2>1 DEF Stack!ApplyConfig
  <2> QED BY <2>2 DEF given
<1> HIDE DEF config
<1> QED BY <1>2, <1>3, InstallKeeps, ZenonT(40)

\* Whatever the DHCP client decides.
LEMMA DhcpKeeps ==
  ASSUME ListsAreNamed, NEW s, Fits(s), NEW event \in Stack!DhcpEvents(s)
  PROVE  LET t == Stack!PollDhcp(s, event)
         IN Fits(t) /\ Reconfigured(s, t)
<1>1. s \in StackShapes
  BY DEF Fits
<1>2. Stack!NoLease # None /\ \A list \in Lists : Stack!Lease(list) # None /\ Stack!Lease(list) # Stack!NoLease
                                                 /\ Stack!Lease(list).servers = list
  <2>1. Stack!NoLease \in Leases /\ \A list \in Lists : Stack!Lease(list) \in Leases
    BY DEF Stack!NoLease, Stack!Lease, Leases, ListsAreNamed
  <2>2. \A list \in Lists : Stack!Lease(list).held /\ ~Stack!NoLease.held /\ Stack!Lease(list).servers = list
    BY DEF Stack!NoLease, Stack!Lease
  <2> QED BY <2>1, <2>2 DEF ListsAreNamed
<1>3. CASE event = None
  BY <1>2, <1>3 DEF Stack!PollDhcp, Reconfigured
<1>4. CASE event = Stack!NoLease
  <2> DEFINE u == Stack!ClearAddresses(s)
             lost == IF s.config # None THEN s.lost + 1 ELSE s.lost
             losses == IF s.client = "held" THEN s.losses + 1 ELSE s.losses
             t == [u EXCEPT !.lost = lost, !.losses = losses, !.client = "asking"]
  <2>1. /\ Fits(u) /\ Reconfigured(s, u) /\ u.config = None /\ u.address = None
        /\ u.source = s.source /\ u.client = s.client /\ u.lost = s.lost /\ u.losses = s.losses
    BY ClearKeeps
  <2> HIDE DEF u
  <2>2. u \in StackShapes
    BY <2>1 DEF Fits
  <2>3. s.client # "absent" /\ s.client \in {"asking", "held"}
    BY <1>1, <1>2, <1>4 DEF Stack!DhcpEvents, StackShapes
  <2>4. lost \in Nat /\ losses \in Nat /\ lost <= losses
    BY <1>1, <2>3 DEF Fits, StackShapes
  <2>5. t = Stack!PollDhcp(s, event)
    BY <1>2, <1>4, <2>1, <2>2 DEF Stack!PollDhcp, u, StackShapes
  <2> HIDE DEF lost, losses
  <2>6. t \in StackShapes
    BY <2>2, <2>4 DEF StackShapes
  <2>7. /\ t.link = u.link /\ t.slot = u.slot /\ t.panicked = u.panicked /\ t.query = u.query
        /\ t.source = u.source /\ t.client = "asking" /\ t.config = u.config /\ t.address = u.address
        /\ t.lost = lost /\ t.losses = losses /\ t.servers = u.servers
    BY <2>2 DEF StackShapes
  <2> HIDE DEF t
  <2>8. Fits(t)
    BY <2>1, <2>3, <2>4, <2>6, <2>7 DEF Fits, Stack!ConfigServers
  <2>9. Reconfigured(s, t)
    BY <2>1, <2>7 DEF Reconfigured
  <2> QED BY <2>5, <2>8, <2>9
<1>5. CASE event # None /\ event # Stack!NoLease
  <2>1. PICK list \in Lists : event = Stack!Lease(list) /\ s.client # "absent"
    BY <1>5 DEF Stack!DhcpEvents
  <2> DEFINE u == [s EXCEPT !.client = "held"]
             t == Stack!ApplyConfig(u, [servers |-> list, from |-> "dhcp"])
  <2>2. u \in StackShapes
    BY <1>1 DEF StackShapes
  <2>3. /\ u.link = s.link /\ u.slot = s.slot /\ u.panicked = s.panicked /\ u.query = s.query
        /\ u.source = s.source /\ u.client = "held" /\ u.config = s.config /\ u.address = s.address
        /\ u.lost = s.lost /\ u.losses = s.losses /\ u.servers = s.servers
    BY <1>1 DEF StackShapes
  <2>4. s.source = "dhcp"
    BY <2>1 DEF Fits
  <2>5. t = Stack!PollDhcp(s, event)
    BY <1>2, <1>5, <2>1 DEF Stack!PollDhcp
  <2> HIDE DEF u
  <2>6. Fits(u)
    BY <2>2, <2>3, <2>4 DEF Fits, Stack!ConfigServers
  <2>7. Fits(t) /\ Reconfigured(u, t)
    <3>1. u.source = "dhcp" /\ "dhcp" \in Sources /\ u.client # "asking" /\ list \in Lists \cup {<<>>}
      BY <2>3, <2>4 DEF Sources
    <3> QED BY <2>6, <3>1, ApplyKeeps
  <2> HIDE DEF t
  <2>8. Reconfigured(s, t)
    BY <2>3, <2>7 DEF Reconfigured
  <2> QED BY <2>5, <2>7, <2>8
<1> QED BY <1>3, <1>4, <1>5

\* The slot is the query's, and is in use until the query is settled.
SlotHeld(s) ==
  /\ ~s.panicked
  /\ s.slot.state = "free" <=> s.query.settled
  /\ ~s.query.open => s.query.settled
  /\ ~s.query.settled => s.query.outcome = None

LEMMA ReconfiguredHolds ==
  ASSUME NEW s \in StackShapes, NEW t, Reconfigured(s, t)
  PROVE  /\ t.query.open = s.query.open /\ t.query.settled = s.query.settled /\ t.query.budget = s.query.budget
         /\ t.query.elapsed = s.query.elapsed /\ t.query.outcome = s.query.outcome
         /\ t.query.answered = s.query.answered /\ t.slot = s.slot /\ t.link = s.link /\ t.panicked = s.panicked
         /\ ~t.query.disturbed => t.query = s.query /\ t.servers = s.servers
         /\ SlotHeld(s) => SlotHeld(t)
<1>1. s.query \in QueryShapes
  BY DEF StackShapes
<1>2. CASE t.query = s.query /\ t.servers = s.servers
  BY <1>2 DEF Reconfigured, SlotHeld
<1>3. CASE t.query = Marked(s.query)
  <2>1. /\ t.query.open = s.query.open /\ t.query.settled = s.query.settled /\ t.query.budget = s.query.budget
        /\ t.query.elapsed = s.query.elapsed /\ t.query.outcome = s.query.outcome
        /\ t.query.answered = s.query.answered /\ t.query.disturbed
    BY <1>1, <1>3 DEF Marked, QueryShapes
  <2> QED BY <2>1 DEF Reconfigured, SlotHeld
<1> QED BY <1>2, <1>3 DEF Reconfigured

\* Only the slot and the query have changed.
Queried(s, slot, query) == [s EXCEPT !.slot = slot, !.query = query]

LEMMA QueriedIs ==
  ASSUME NEW s, Fits(s), NEW slot \in SlotShapes, NEW query \in QueryShapes
  PROVE  LET t == Queried(s, slot, query)
         IN /\ Fits(t) /\ t.slot = slot /\ t.query = query /\ t.link = s.link /\ t.panicked = s.panicked
            /\ t.servers = s.servers /\ t.client = s.client /\ t.losses = s.losses
<1> DEFINE t == [s EXCEPT !.slot = slot, !.query = query]
<1>1. s \in StackShapes
  BY DEF Fits
<1>2. t \in StackShapes
  BY <1>1 DEF StackShapes
<1>3. /\ t.slot = slot /\ t.query = query /\ t.link = s.link /\ t.panicked = s.panicked
      /\ t.servers = s.servers /\ t.client = s.client /\ t.losses = s.losses
      /\ t.source = s.source /\ t.config = s.config /\ t.address = s.address /\ t.lost = s.lost
  BY <1>1 DEF StackShapes
<1> HIDE DEF t
<1>4. Fits(t)
  BY <1>2, <1>3 DEF Fits, Stack!ConfigServers
<1> QED BY <1>3, <1>4 DEF t, Queried

\* The resolver whose turn it is.
Turn(slot) ==
  IF slot.waited > Stack!PerServer THEN [slot EXCEPT !.server = @ + 1, !.waited = 0] ELSE slot
\* What packets in and out make of the slot and the query.
Exchange(s, slot, query) ==
  \/ s.slot.state # "pending" /\ slot = s.slot /\ query = s.query
  \/ /\ s.slot.state = "pending" /\ query = [s.query EXCEPT !.answered = TRUE]
     /\ slot \in {[s.slot EXCEPT !.state = "completed"], [s.slot EXCEPT !.state = "failed"]}
  \/ /\ s.slot.state = "pending" /\ query = s.query
     /\ IF Turn(s.slot).server > Len(s.servers) THEN slot = [s.slot EXCEPT !.state = "failed"]
        ELSE slot = [Turn(s.slot) EXCEPT !.asked = @ \cup {s.servers[Turn(s.slot).server]}]

LEMMA ExchangeShapes ==
  ASSUME ListsAreNamed, NEW s, Fits(s), NEW slot, NEW query, Exchange(s, slot, query)
  PROVE  slot \in SlotShapes /\ query \in QueryShapes
<1>1. s.slot \in SlotShapes /\ s.query \in QueryShapes /\ s.servers \in Resolvers
  BY DEF Fits, StackShapes
<1>2. s.servers \in Seq(Addresses) /\ Len(s.servers) \in Nat
  BY <1>1, ResolversAre
<1>3. Turn(s.slot) \in SlotShapes
  <2>1. s.slot.server + 1 \in Nat \ {0}
    BY <1>1 DEF SlotShapes
  <2>2. [s.slot EXCEPT !.server = s.slot.server + 1, !.waited = 0] \in SlotShapes
    BY <1>1, <2>1 DEF SlotShapes
  <2> QED BY <1>1, <2>2 DEF Turn
<1>4. /\ [s.query EXCEPT !.answered = TRUE] \in QueryShapes
      /\ [s.slot EXCEPT !.state = "completed"] \in SlotShapes /\ [s.slot EXCEPT !.state = "failed"] \in SlotShapes
  BY <1>1 DEF QueryShapes, SlotShapes
<1>5. ASSUME Turn(s.slot).server <= Len(s.servers)
      PROVE  [Turn(s.slot) EXCEPT !.asked = @ \cup {s.servers[Turn(s.slot).server]}] \in SlotShapes
  <2> DEFINE turn == Turn(s.slot)
  <2>1. turn \in SlotShapes /\ turn.server \in Nat \ {0} /\ turn.server <= Len(s.servers)
    BY <1>3, <1>5 DEF SlotShapes
  <2> HIDE DEF turn
  <2>2. s.servers[turn.server] \in Addresses
    BY <1>2, <2>1
  <2>3. [turn EXCEPT !.asked = @ \cup {s.servers[turn.server]}] \in SlotShapes
    BY <2>1, <2>2 DEF SlotShapes
  <2> QED BY <2>3 DEF turn
<1>6. CASE Turn(s.slot).server > Len(s.servers)
  BY <1>1, <1>4, <1>6 DEF Exchange
<1>7. CASE ~(Turn(s.slot).server > Len(s.servers))
  <2>1. Turn(s.slot).server <= Len(s.servers)
    BY <1>2, <1>3, <1>7 DEF SlotShapes
  <2> QED BY <1>1, <1>4, <1>5, <1>7, <2>1 DEF Exchange
<1> QED BY <1>6, <1>7

\* One turn of the crank is an exchange and what the DHCP client decides.
LEMMA PolledIs ==
  ASSUME ListsAreNamed, NEW s, Fits(s), NEW t \in Stack!Polled(s)
  PROVE  \E slot \in SlotShapes, query \in QueryShapes :
           Exchange(s, slot, query) /\ Fits(t) /\ Reconfigured(Queried(s, slot, query), t)
<1>1. PICK answer \in Stack!Answers(s), event \in Stack!DhcpEvents(s) :
        t = Stack!PollDhcp(Stack!Dispatch(Stack!Process(s, answer)), event)
  BY DEF Stack!Polled
<1>2. s \in StackShapes /\ s.slot \in SlotShapes /\ s.query \in QueryShapes
  BY DEF Fits, StackShapes
<1> DEFINE heard == Stack!Process(s, answer)
           told == Stack!Dispatch(heard)
<1>3. ASSUME NEW slot, NEW query, Exchange(s, slot, query), told = Queried(s, slot, query)
      PROVE  \E a \in SlotShapes, b \in QueryShapes :
               Exchange(s, a, b) /\ Fits(t) /\ Reconfigured(Queried(s, a, b), t)
  <2>1. slot \in SlotShapes /\ query \in QueryShapes
    BY <1>3, ExchangeShapes
  <2> DEFINE u == Queried(s, slot, query)
  <2>2. Fits(u) /\ u.client = s.client /\ u.losses = s.losses
    BY <2>1, QueriedIs
  <2> HIDE DEF u
  <2>3. event \in Stack!DhcpEvents(u)
    BY <2>2 DEF Stack!DhcpEvents
  <2>4. Fits(Stack!PollDhcp(u, event)) /\ Reconfigured(u, Stack!PollDhcp(u, event))
    BY <2>2, <2>3, DhcpKeeps
  <2>5. t = Stack!PollDhcp(u, event)
    BY <1>1, <1>3 DEF u
  <2> QED BY <1>3, <2>1, <2>4, <2>5 DEF u
<1>4. CASE answer = None
  <2>1. heard = s
    BY <1>4 DEF Stack!Process, ListsAreNamed
  <2>2. CASE s.slot.state # "pending"
    <3>1. told = Queried(s, s.slot, s.query)
      BY <1>2, <2>1, <2>2 DEF Stack!Dispatch, Queried, StackShapes
    <3> QED BY <1>3, <2>2, <3>1 DEF Exchange
  <2>3. CASE s.slot.state = "pending" /\ Turn(s.slot).server > Len(s.servers)
    <3>1. told = Queried(s, [s.slot EXCEPT !.state = "failed"], s.query)
      BY <1>2, <2>1, <2>3 DEF Stack!Dispatch, Queried, Turn, StackShapes
    <3> QED BY <1>3, <2>3, <3>1 DEF Exchange
  <2>4. CASE s.slot.state = "pending" /\ ~(Turn(s.slot).server > Len(s.servers))
    <3>1. told = Queried(s, [Turn(s.slot) EXCEPT !.asked = @ \cup {s.servers[Turn(s.slot).server]}], s.query)
      <4> DEFINE slot == [Turn(s.slot) EXCEPT !.asked = @ \cup {s.servers[Turn(s.slot).server]}]
      <4>1. told = [s EXCEPT !.slot = slot]
        BY <2>1, <2>4 DEF Stack!Dispatch, Turn
      <4> HIDE DEF slot
      <4>2. [s EXCEPT !.slot = slot] = Queried(s, slot, s.query)
        BY <1>2 DEF Queried, StackShapes
      <4> QED BY <4>1, <4>2 DEF slot
    <3> QED BY <1>3, <2>4, <3>1 DEF Exchange
  <2> QED BY <2>2, <2>3, <2>4
<1>5. CASE answer # None
  <2>1. s.slot.state = "pending" /\ answer \in {"found", "nothing"}
    BY <1>1, <1>5 DEF Stack!Answers
  <2> DEFINE state == IF answer = "found" THEN "completed" ELSE "failed"
             slot == [s.slot EXCEPT !.state = state]
             query == [s.query EXCEPT !.answered = TRUE]
  <2>2. heard = Queried(s, slot, query)
    BY <1>2, <1>5, <2>1 DEF Stack!Process, Queried, StackShapes
  <2>3. heard.slot.state # "pending"
    BY <1>2, <2>2 DEF Queried, StackShapes, SlotShapes
  <2>4. told = heard
    BY <2>3 DEF Stack!Dispatch
  <2>5. Exchange(s, slot, query)
    BY <2>1 DEF Exchange
  <2> QED BY <1>3, <2>2, <2>4, <2>5
<1> QED BY <1>4, <1>5

\* The time between two polls is less than what a query is given beyond the first resolver.
StallsAreShort == MaxStall <= 2

\* How far a query has come that nothing disturbed: nobody was asked, the first
\* resolver, or it and, when it had its time, the second.
InTurn(servers, slot, query) ==
  /\ Len(servers) >= 1 /\ query.budget = Stack!Budget(servers)
  /\ \/ slot.asked = {} /\ slot.server = 1 /\ slot.waited = 0 /\ query.elapsed <= MaxStall
     \/ /\ slot.asked = {servers[1]} /\ slot.server = 1
        /\ slot.waited <= query.elapsed /\ query.elapsed <= slot.waited + MaxStall
     \/ /\ slot.asked = {servers[1], servers[2]} /\ slot.server = 2 /\ Len(servers) > 1
        /\ slot.waited + Stack!PerServer < query.elapsed
Pending(s) == s.slot.state = "pending" /\ ~s.query.disturbed
Paced(s) ==
  Pending(s) => /\ InTurn(s.servers, s.slot, s.query) /\ s.query.elapsed < s.query.budget
                /\ s.slot.waited <= Stack!PerServer /\ (s.slot.asked = {} => s.query.elapsed = 0)
Honest(s) ==
  ~s.query.disturbed =>
    (s.slot.state = "failed" => s.query.answered) /\ (s.query.outcome = "not found" => s.query.answered)

\* The time a resolver is given is up before another is asked, and there is one to ask.
LEMMA ExchangePaces ==
  ASSUME ListsAreNamed, StallsAreShort, NEW s, Fits(s), s.slot.state = "pending",
         InTurn(s.servers, s.slot, s.query), s.query.elapsed < s.query.budget + MaxStall,
         NEW slot, NEW query, Exchange(s, slot, query)
  PROVE  \/ slot.state \in {"completed", "failed"} /\ query = [s.query EXCEPT !.answered = TRUE]
         \/ /\ slot.state = "pending" /\ query = s.query /\ InTurn(s.servers, slot, query)
            /\ slot.waited <= Stack!PerServer /\ slot.asked # {}
<1>1. s.slot \in SlotShapes /\ s.query \in QueryShapes /\ s.servers \in Resolvers
  BY DEF Fits, StackShapes
<1>2. s.servers \in Seq(Addresses) /\ Len(s.servers) \in Nat
  BY <1>1, ResolversAre
<1>3. CASE query = [s.query EXCEPT !.answered = TRUE]
           /\ slot \in {[s.slot EXCEPT !.state = "completed"], [s.slot EXCEPT !.state = "failed"]}
  BY <1>1, <1>3 DEF SlotShapes
<1>4. CASE query = s.query /\ IF Turn(s.slot).server > Len(s.servers) THEN slot = [s.slot EXCEPT !.state = "failed"]
           ELSE slot = [Turn(s.slot) EXCEPT !.asked = @ \cup {s.servers[Turn(s.slot).server]}]
  <2> DEFINE n == Len(s.servers)
             first == s.servers[1]
             second == s.servers[2]
             elapsed == s.query.elapsed
             waited == s.slot.waited
  <2>1. /\ n \in Nat /\ elapsed \in Nat /\ waited \in Nat /\ MaxStall \in Nat /\ MaxStall <= 2 /\ n >= 1
        /\ elapsed < (IF n > 1 THEN 13 ELSE 5) + MaxStall
    BY <1>1, <1>2 DEF SlotShapes, QueryShapes, ListsAreNamed, StallsAreShort, InTurn, Stack!Budget, Stack!Fallback,
                      Stack!SingleServer, Stack!PerServer
  <2>2. /\ s.slot.state = "pending" /\ s.slot = [state |-> "pending", server |-> s.slot.server, waited |-> waited,
                                              asked |-> s.slot.asked]
    BY <1>1 DEF SlotShapes
  <2>3. CASE s.slot.asked = {} /\ s.slot.server = 1 /\ waited = 0 /\ elapsed <= MaxStall
    <3>1. Turn(s.slot) = s.slot /\ ~(Turn(s.slot).server > n)
      BY <2>1, <2>3 DEF Turn, Stack!PerServer
    <3>2. slot = [s.slot EXCEPT !.asked = {first}]
      BY <1>1, <1>4, <2>3, <3>1 DEF SlotShapes
    <3>3. slot.state = "pending" /\ slot.asked = {first} /\ slot.server = 1 /\ slot.waited = 0
      BY <2>2, <2>3, <3>2
    <3> QED BY <1>4, <2>1, <2>3, <3>3 DEF InTurn, Stack!PerServer
  <2>4. CASE s.slot.asked = {first} /\ s.slot.server = 1 /\ waited <= elapsed /\ elapsed <= waited + MaxStall
    <3>1. CASE waited > 10
      <4>1. n > 1
        BY <2>1, <2>4, <3>1
      <4>2. Turn(s.slot) = [state |-> "pending", server |-> 2, waited |-> 0, asked |-> {first}]
        <5>1. Turn(s.slot) = [s.slot EXCEPT !.server = s.slot.server + 1, !.waited = 0]
          BY <3>1 DEF Turn, Stack!PerServer
        <5>2. s.slot.server + 1 = 2
          BY <2>4
        <5> QED BY <2>2, <2>4, <5>1, <5>2
      <4>3. slot = [Turn(s.slot) EXCEPT !.asked = {first, second}]
        BY <1>4, <2>1, <4>1, <4>2
      <4>4. slot.state = "pending" /\ slot.asked = {first, second} /\ slot.server = 2 /\ slot.waited = 0
        BY <4>2, <4>3
      <4> QED BY <1>4, <2>1, <2>4, <3>1, <4>1, <4>4 DEF InTurn, Stack!PerServer
    <3>2. CASE ~(waited > 10)
      <4>1. Turn(s.slot) = s.slot /\ ~(Turn(s.slot).server > n)
        BY <2>1, <2>4, <3>2 DEF Turn, Stack!PerServer
      <4>2. slot = [s.slot EXCEPT !.asked = {first}]
        BY <1>1, <1>4, <2>4, <4>1 DEF SlotShapes
      <4>3. slot.state = "pending" /\ slot.asked = {first} /\ slot.server = 1 /\ slot.waited = waited
        BY <2>2, <2>4, <4>2
      <4> QED BY <1>4, <2>1, <2>4, <3>2, <4>3 DEF InTurn, Stack!PerServer
    <3> QED BY <3>1, <3>2
  <2>5. CASE s.slot.asked = {first, second} /\ s.slot.server = 2 /\ n > 1 /\ waited + 10 < elapsed
    <3>1. ~(waited > 10)
      BY <2>1, <2>5
    <3>2. Turn(s.slot) = s.slot /\ ~(Turn(s.slot).server > n)
      BY <2>1, <2>5, <3>1 DEF Turn, Stack!PerServer
    <3>3. slot = [s.slot EXCEPT !.asked = {first, second}]
      BY <1>1, <1>4, <2>5, <3>2 DEF SlotShapes
    <3>4. slot.state = "pending" /\ slot.asked = {first, second} /\ slot.server = 2 /\ slot.waited = waited
      BY <2>2, <2>5, <3>3
    <3> QED BY <1>4, <2>1, <2>5, <3>1, <3>4 DEF InTurn, Stack!PerServer
  <2> QED BY <2>3, <2>4, <2>5 DEF InTurn, Stack!PerServer
<1> QED BY <1>3, <1>4 DEF Exchange

\* The invariants, of any stalls and of short ones.
Resolving == Fits(net) /\ SlotHeld(net)
Pacing == Paced(net) /\ Honest(net)

\* What leaves slot, query and resolvers as they are, or marks the query, keeps both.
LEMMA ReconfiguredKeeps ==
  ASSUME NEW s \in StackShapes, NEW t, Reconfigured(s, t)
  PROVE  (Paced(s) => Paced(t)) /\ (Honest(s) => Honest(t))
BY ReconfiguredHolds DEF Paced, Honest, Pending

LEMMA ConfigurationStep ==
  ASSUME ListsAreNamed, Fits(net), Stack!StartDhcp \/ Stack!Release \/ Stack!SetStatic \/ Stack!ReplaceServers
  PROVE  Fits(net') /\ Reconfigured(net, net')
<1> DEFINE u == Stack!ClearAddresses(net)
           Selected(source, client) == [u EXCEPT !.client = client, !.source = source]
<1>1. /\ Fits(u) /\ Reconfigured(net, u) /\ u.config = None /\ u.address = None
      /\ u.source = net.source /\ u.client = net.client /\ u.lost = net.lost /\ u.losses = net.losses
  BY ClearKeeps
<1> HIDE DEF u
<1>2. ASSUME NEW source \in {"none", "dhcp", "static"}, NEW client \in {"absent", "asking"},
             client = "absent" <=> source # "dhcp"
      PROVE  /\ Fits(Selected(source, client)) /\ Reconfigured(net, Selected(source, client))
             /\ Selected(source, client).source = source /\ Selected(source, client).client = client
  <2> DEFINE t == Selected(source, client)
  <2>1. u \in StackShapes
    BY <1>1 DEF Fits
  <2>2. t \in StackShapes
    BY <2>1 DEF StackShapes, Sources
  <2>3. /\ t.link = u.link /\ t.slot = u.slot /\ t.panicked = u.panicked /\ t.query = u.query
        /\ t.source = source /\ t.client = client /\ t.config = u.config /\ t.address = u.address
        /\ t.lost = u.lost /\ t.losses = u.losses /\ t.servers = u.servers
    BY <2>1 DEF StackShapes
  <2> HIDE DEF Selected
  <2>4. Fits(t)
    BY <1>1, <1>2, <2>2, <2>3 DEF Fits, Stack!ConfigServers
  <2>5. Reconfigured(net, t)
    BY <1>1, <2>3 DEF Reconfigured
  <2> QED BY <2>3, <2>4, <2>5
<1>3. net \in StackShapes /\ u \in StackShapes
  BY <1>1 DEF Fits
<1>4. CASE Stack!StartDhcp
  <2>1. net' = Selected("dhcp", "asking")
    BY <1>4 DEF Stack!StartDhcp, u
  <2> QED BY <1>2, <2>1
<1>5. CASE Stack!Release
  <2>1. net' = Selected("none", "absent")
    BY <1>5 DEF Stack!Release, Stack!Released, u
  <2> QED BY <1>2, <2>1
<1>6. CASE Stack!SetStatic
  <2> DEFINE t == Selected("static", "absent")
  <2>1. [Stack!Released(net) EXCEPT !.source = "static"] = t
    BY <1>3 DEF Stack!Released, u, StackShapes
  <2>2. net' = Stack!ApplyConfig(t, [servers |-> <<>>, from |-> "static"])
    BY <1>6, <2>1 DEF Stack!SetStatic
  <2>3. Fits(t) /\ Reconfigured(net, t) /\ t.source = "static" /\ t.client # "asking" /\ "static" \in Sources
    BY <1>2 DEF Sources
  <2> HIDE DEF Selected
  <2>4. <<>> \in Lists \cup {<<>>}
    OBVIOUS
  <2>5. Fits(net') /\ Reconfigured(t, net')
    BY <2>2, <2>3, <2>4, ApplyKeeps
  <2>6. Marked(Marked(net.query)) = Marked(net.query)
    BY DEF Marked
  <2> QED BY <2>3, <2>5, <2>6 DEF Reconfigured
<1>7. CASE Stack!ReplaceServers
  <2>1. PICK list \in Lists : net.config # None /\ net' = Stack!SetDnsServers(net, list)
    BY <1>7 DEF Stack!ReplaceServers
  <2> DEFINE config == [net.config EXCEPT !.servers = Stack!Truncated(list)]
             v == [net EXCEPT !.config = config, !.address = net.address]
  <2>2. net.config \in Configs /\ net.address \in Sources /\ net.client # "asking" /\ net.config.from = net.source
    BY <1>3, <2>1 DEF Fits, StackShapes
  <2>3. config \in Configs /\ config.from = net.source
    BY <2>2 DEF Configs, Resolvers
  <2>4. net' = Stack!InstallDnsServers(v)
    <3>1. [net EXCEPT !.config.servers = Stack!Truncated(list)] = v
      BY <1>3 DEF StackShapes
    <3> QED BY <2>1, <3>1 DEF Stack!SetDnsServers
  <2> HIDE DEF config
  <2> QED BY <2>2, <2>3, <2>4, InstallKeeps
<1> QED BY <1>4, <1>5, <1>6, <1>7

\* A query that is settled, and one that is not and has come so far.
LEMMA QueriedHolds ==
  ASSUME NEW s, Fits(s), SlotHeld(s), NEW slot \in SlotShapes, NEW query \in QueryShapes,
         slot.state = "free" <=> query.settled, ~query.open => query.settled, ~query.settled => query.outcome = None
  PROVE  Fits(Queried(s, slot, query)) /\ SlotHeld(Queried(s, slot, query))
BY QueriedIs DEF SlotHeld

EndedAs(query, outcome) == [query EXCEPT !.settled = TRUE, !.outcome = outcome]

LEMMA EndedAsIs ==
  ASSUME NEW query \in QueryShapes, NEW outcome \in {None} \cup Outcomes
  PROVE  LET q == EndedAs(query, outcome)
         IN /\ q \in QueryShapes /\ q.settled /\ q.outcome = outcome /\ q.open = query.open
            /\ q.answered = query.answered /\ q.disturbed = query.disturbed
BY DEF EndedAs, QueryShapes

LEMMA FreeSlotIs == Stack!FreeSlot \in SlotShapes /\ Stack!FreeSlot.state = "free"
BY DEF Stack!FreeSlot, SlotShapes

\* What a poll makes of a query that waits: it is settled, or it waits on.
LEMMA QueryPolledIs ==
  ASSUME NEW s, Fits(s), SlotHeld(s), ~s.query.settled
  PROVE  \/ /\ s.slot.state = "pending" /\ s.query.elapsed < s.query.budget /\ Stack!QueryPolled(s) = s
         \/ \E outcome \in Outcomes :
              /\ Stack!QueryPolled(s) = Queried(s, Stack!FreeSlot, EndedAs(s.query, outcome))
              /\ outcome = "not found" => s.slot.state = "failed"
              /\ outcome = "timed out" => s.slot.state = "pending" /\ s.query.elapsed >= s.query.budget
<1>1. s \in StackShapes /\ s.slot \in SlotShapes /\ s.query \in QueryShapes /\ s.slot.state # "free"
  BY DEF Fits, StackShapes, SlotHeld
<1>2. s.query.elapsed \in Nat /\ s.query.budget \in Nat
  BY <1>1 DEF QueryShapes
<1>3. ASSUME NEW outcome
      PROVE  Stack!Settle(Stack!FreeOf(s), outcome) = Queried(s, Stack!FreeSlot, EndedAs(s.query, outcome))
  <2>1. Stack!FreeOf(s) = [s EXCEPT !.slot = Stack!FreeSlot]
    BY <1>1 DEF Stack!FreeOf
  <2> HIDE DEF Stack!FreeSlot
  <2> QED BY <1>1, <2>1 DEF Stack!Settle, Queried, EndedAs, StackShapes
<1>4. CASE s.slot.state = "pending"
  <2>1. CASE s.query.elapsed >= s.query.budget
    <3>1. Stack!QueryPolled(s) = Stack!Settle(Stack!FreeOf(s), "timed out")
      BY <1>4, <2>1 DEF Stack!QueryPolled, Stack!Fail
    <3> QED BY <1>3, <1>4, <2>1, <3>1 DEF Outcomes
  <2>2. CASE ~(s.query.elapsed >= s.query.budget)
    <3>1. Stack!QueryPolled(s) = s
      BY <1>4, <2>2 DEF Stack!QueryPolled
    <3>2. s.query.elapsed < s.query.budget
      BY <1>2, <2>2
    <3> QED BY <1>4, <3>1, <3>2
  <2> QED BY <2>1, <2>2
<1>5. CASE s.slot.state = "completed"
  <2>1. Stack!QueryPolled(s) = Stack!Settle(Stack!FreeOf(s), "ready")
    BY <1>5 DEF Stack!QueryPolled
  <2> QED BY <1>3, <2>1 DEF Outcomes
<1>6. CASE s.slot.state = "failed"
  <2>1. Stack!QueryPolled(s) = Stack!Settle(Stack!FreeOf(s), "not found")
    BY <1>6 DEF Stack!QueryPolled
  <2> QED BY <1>3, <1>6, <2>1 DEF Outcomes
<1> QED BY <1>1, <1>4, <1>5, <1>6 DEF SlotShapes

\* Packets in and out keep a query that is under way under way.
LEMMA PolledHolds ==
  ASSUME ListsAreNamed, NEW s, Fits(s), SlotHeld(s), NEW t \in Stack!Polled(s)
  PROVE  /\ Fits(t) /\ SlotHeld(t) /\ t.query.settled = s.query.settled /\ t.query.open = s.query.open
         /\ t.query.outcome = s.query.outcome /\ t.query.elapsed = s.query.elapsed /\ t.query.budget = s.query.budget
         /\ (t.slot.state = "free") = (s.slot.state = "free")
<1>1. PICK slot \in SlotShapes, query \in QueryShapes :
        Exchange(s, slot, query) /\ Fits(t) /\ Reconfigured(Queried(s, slot, query), t)
  BY PolledIs
<1> DEFINE u == Queried(s, slot, query)
<1>2. s.slot \in SlotShapes /\ s.query \in QueryShapes
  BY DEF Fits, StackShapes
<1>3. /\ query.settled = s.query.settled /\ query.open = s.query.open /\ query.outcome = s.query.outcome
      /\ query.elapsed = s.query.elapsed /\ query.budget = s.query.budget
  BY <1>1, <1>2 DEF Exchange, QueryShapes
<1>4. (slot.state = "free") = (s.slot.state = "free")
  BY <1>1, <1>2 DEF Exchange, SlotShapes, Turn
<1>5. /\ slot.state = "free" <=> query.settled
      /\ ~query.open => query.settled
      /\ ~query.settled => query.outcome = None
  BY <1>3, <1>4 DEF SlotHeld
<1>6. Fits(u) /\ SlotHeld(u) /\ u.slot = slot /\ u.query = query
  BY <1>5, QueriedHolds, QueriedIs
<1> HIDE DEF u
<1>7. u \in StackShapes /\ Reconfigured(u, t)
  BY <1>1, <1>6 DEF Fits, u
<1> QED BY <1>1, <1>3, <1>4, <1>6, <1>7, ReconfiguredHolds

\* And on its way: of a query that nothing disturbs, the right resolvers are asked.
LEMMA PolledPaces ==
  ASSUME ListsAreNamed, StallsAreShort, NEW s, Fits(s), SlotHeld(s), Honest(s), NEW t \in Stack!Polled(s),
         Pending(s) => InTurn(s.servers, s.slot, s.query) /\ s.query.elapsed < s.query.budget + MaxStall
  PROVE  /\ Honest(t)
         /\ Pending(t) => /\ InTurn(t.servers, t.slot, t.query) /\ t.slot.waited <= Stack!PerServer
                          /\ t.slot.asked # {}
<1>1. PICK slot \in SlotShapes, query \in QueryShapes :
        Exchange(s, slot, query) /\ Fits(t) /\ Reconfigured(Queried(s, slot, query), t)
  BY PolledIs
<1> DEFINE u == Queried(s, slot, query)
<1>2. s.slot \in SlotShapes /\ s.query \in QueryShapes
  BY DEF Fits, StackShapes
<1>3. Fits(u) /\ u.slot = slot /\ u.query = query /\ u.servers = s.servers /\ u \in StackShapes
  BY QueriedIs DEF Fits
<1> HIDE DEF u
<1>4. Reconfigured(u, t)
  BY <1>1 DEF u
<1>5. CASE s.slot.state # "pending"
  <2>1. slot = s.slot /\ query = s.query
    BY <1>1, <1>5 DEF Exchange
  <2>2. Honest(u)
    BY <1>3, <2>1 DEF Honest
  <2>3. t.slot.state # "pending"
    BY <1>3, <1>4, <1>5, <2>1 DEF Reconfigured
  <2> QED BY <1>3, <1>4, <2>2, <2>3, ReconfiguredKeeps DEF Pending
<1>6. CASE s.slot.state = "pending" /\ s.query.disturbed
  <2>1. query.disturbed
    BY <1>1, <1>2, <1>6 DEF Exchange, QueryShapes
  <2>2. t.query.disturbed
    BY <1>3, <1>4, <2>1, ReconfiguredHolds
  <2> QED BY <2>2 DEF Honest, Pending
<1>7. CASE s.slot.state = "pending" /\ ~s.query.disturbed
  <2>1. InTurn(s.servers, s.slot, s.query) /\ s.query.elapsed < s.query.budget + MaxStall
    BY <1>7 DEF Pending
  <2>2. \/ slot.state \in {"completed", "failed"} /\ query = [s.query EXCEPT !.answered = TRUE]
        \/ /\ slot.state = "pending" /\ query = s.query /\ InTurn(s.servers, slot, query)
           /\ slot.waited <= Stack!PerServer /\ slot.asked # {}
    BY <1>1, <1>7, <2>1, ExchangePaces
  <2>3. CASE slot.state \in {"completed", "failed"} /\ query = [s.query EXCEPT !.answered = TRUE]
    <3>1. query.answered
      BY <1>2, <2>3 DEF QueryShapes
    <3>2. Honest(u)
      BY <1>3, <3>1 DEF Honest
    <3>3. t.slot.state # "pending"
      BY <1>3, <1>4, <2>3 DEF Reconfigured
    <3> QED BY <1>3, <1>4, <3>2, <3>3, ReconfiguredKeeps DEF Pending
  <2>4. CASE /\ slot.state = "pending" /\ query = s.query /\ InTurn(s.servers, slot, query)
             /\ slot.waited <= Stack!PerServer /\ slot.asked # {}
    <3>1. Honest(u)
      BY <1>3, <2>4 DEF Honest
    <3>2. Pending(t) => t.query = query /\ t.servers = s.servers /\ t.slot = slot
      BY <1>3, <1>4, ReconfiguredHolds DEF Pending
    <3> QED BY <1>3, <1>4, <2>4, <3>1, <3>2, ReconfiguredKeeps
  <2> QED BY <2>2, <2>3, <2>4
<1> QED BY <1>5, <1>6, <1>7

\* Time passes.
LEMMA AfterIs ==
  ASSUME ListsAreNamed, NEW s, Fits(s), SlotHeld(s), NEW seconds \in 0 .. MaxStall
  PROVE  LET u == Stack!After(s, seconds)
         IN /\ Fits(u) /\ SlotHeld(u) /\ u.query.settled = s.query.settled /\ u.query.disturbed = s.query.disturbed
            /\ u.servers = s.servers /\ u.query.open = s.query.open
            /\ Honest(s) => Honest(u)
            /\ Paced(s) => (Pending(u) => /\ InTurn(u.servers, u.slot, u.query)
                                          /\ u.query.elapsed < u.query.budget + MaxStall)
<1> DEFINE later == IF s.slot.asked # {} THEN s.slot.waited + seconds ELSE s.slot.waited
           query == [s.query EXCEPT !.elapsed = s.query.elapsed + seconds]
           slot == [s.slot EXCEPT !.waited = later]
           u == Queried(s, slot, query)
<1>1. s \in StackShapes /\ s.slot \in SlotShapes /\ s.query \in QueryShapes /\ s.servers \in Resolvers
  BY DEF Fits, StackShapes
<1>2. /\ s.query.elapsed \in Nat /\ s.query.budget \in Nat /\ s.slot.waited \in Nat /\ seconds \in Nat
      /\ seconds <= MaxStall /\ MaxStall \in Nat
  BY <1>1 DEF QueryShapes, SlotShapes, ListsAreNamed
<1>3. u = Stack!After(s, seconds)
  BY <1>1 DEF Stack!After, Queried, StackShapes
<1>4. later \in Nat /\ (s.slot.asked # {} => later = s.slot.waited + seconds)
      /\ (s.slot.asked = {} => later = s.slot.waited)
  BY <1>2
<1> HIDE DEF later
<1>5. query \in QueryShapes /\ slot \in SlotShapes
  BY <1>1, <1>2, <1>4 DEF QueryShapes, SlotShapes
<1>6. /\ query.open = s.query.open /\ query.settled = s.query.settled /\ query.budget = s.query.budget
      /\ query.elapsed = s.query.elapsed + seconds /\ query.outcome = s.query.outcome
      /\ query.answered = s.query.answered /\ query.disturbed = s.query.disturbed
      /\ slot.state = s.slot.state /\ slot.server = s.slot.server /\ slot.waited = later /\ slot.asked = s.slot.asked
  BY <1>1 DEF QueryShapes, SlotShapes
<1> HIDE DEF query, slot
<1>7. Fits(u) /\ u.slot = slot /\ u.query = query /\ u.servers = s.servers /\ u.panicked = s.panicked
  BY <1>5, QueriedIs
<1> HIDE DEF u
<1>8. SlotHeld(u)
  BY <1>6, <1>7 DEF SlotHeld
<1>9. Honest(s) => Honest(u)
  BY <1>6, <1>7 DEF Honest
<1>10. ASSUME Paced(s), Pending(u)
       PROVE  InTurn(u.servers, u.slot, u.query) /\ u.query.elapsed < u.query.budget + MaxStall
  <2>1. /\ InTurn(s.servers, s.slot, s.query) /\ s.query.elapsed < s.query.budget
        /\ s.slot.asked = {} => s.query.elapsed = 0
    BY <1>6, <1>7, <1>10 DEF Paced, Pending
  <2>2. query.elapsed < query.budget + MaxStall
    BY <1>2, <1>6, <2>1
  <2>3. InTurn(s.servers, slot, query)
    <3>1. CASE s.slot.asked = {}
      <4>1. s.servers[1] \in {s.servers[1]} /\ s.servers[1] \in {s.servers[1], s.servers[2]}
        OBVIOUS
      <4>2. s.slot.server = 1 /\ s.slot.waited = 0
        BY <2>1, <3>1, <4>1 DEF InTurn
      <4>3. later = 0 /\ s.query.elapsed = 0
        BY <1>4, <2>1, <3>1, <4>2
      <4>4. query.elapsed <= MaxStall
        BY <1>2, <1>6, <4>3
      <4>5. Len(s.servers) >= 1 /\ s.query.budget = Stack!Budget(s.servers)
        BY <2>1 DEF InTurn
      <4> QED BY <1>6, <3>1, <4>2, <4>3, <4>4, <4>5 DEF InTurn
    <3>2. CASE s.slot.asked # {}
      <4>1. later = s.slot.waited + seconds
        BY <1>4, <3>2
      <4>2. CASE /\ s.slot.asked = {s.servers[1]} /\ s.slot.server = 1
                 /\ s.slot.waited <= s.query.elapsed /\ s.query.elapsed <= s.slot.waited + MaxStall
        <5>1. later <= query.elapsed /\ query.elapsed <= later + MaxStall
          BY <1>2, <1>6, <4>1, <4>2
        <5> QED BY <1>6, <2>1, <4>2, <5>1 DEF InTurn
      <4>3. CASE /\ s.slot.asked = {s.servers[1], s.servers[2]} /\ s.slot.server = 2 /\ Len(s.servers) > 1
                 /\ s.slot.waited + Stack!PerServer < s.query.elapsed
        <5>1. later + Stack!PerServer < query.elapsed
          BY <1>2, <1>6, <4>1, <4>3 DEF Stack!PerServer
        <5> QED BY <1>6, <2>1, <4>3, <5>1 DEF InTurn
      <4> QED BY <2>1, <3>2, <4>2, <4>3 DEF InTurn
    <3> QED BY <3>1, <3>2
  <2> QED BY <1>7, <2>2, <2>3
<1> QED BY <1>3, <1>6, <1>7, <1>8, <1>9, <1>10

LEMMA PollStep ==
  ASSUME ListsAreNamed, Resolving, Stack!Poll
  PROVE  Resolving' /\ (StallsAreShort /\ Pacing => Pacing')
<1>1. net' \in Stack!Polled(net) /\ Fits(net) /\ SlotHeld(net)
  BY DEF Stack!Poll, Resolving
<1>2. /\ Fits(net') /\ SlotHeld(net')
      /\ net'.query.elapsed = net.query.elapsed /\ net'.query.budget = net.query.budget
  BY <1>1, PolledHolds
<1>3. ASSUME StallsAreShort, Pacing PROVE Pacing'
  <2>1. Paced(net) /\ Honest(net)
    BY <1>3 DEF Pacing
  <2>2. Pending(net) => /\ InTurn(net.servers, net.slot, net.query)
                        /\ net.query.elapsed < net.query.budget
    BY <2>1 DEF Paced
  <2>3. net.query.elapsed \in Nat /\ net.query.budget \in Nat /\ MaxStall \in Nat
    BY <1>1 DEF Fits, StackShapes, QueryShapes, ListsAreNamed
  <2>4. Pending(net) => InTurn(net.servers, net.slot, net.query) /\ net.query.elapsed < net.query.budget + MaxStall
    BY <2>2, <2>3
  <2>5. /\ Honest(net')
        /\ Pending(net') => /\ InTurn(net'.servers, net'.slot, net'.query) /\ net'.slot.waited <= Stack!PerServer
                            /\ net'.slot.asked # {}
    BY <1>1, <1>3, <2>1, <2>4, PolledPaces
  <2>6. Pending(net') => Pending(net)
    <3>1. PICK slot \in SlotShapes, query \in QueryShapes :
            Exchange(net, slot, query) /\ Fits(net') /\ Reconfigured(Queried(net, slot, query), net')
      BY <1>1, PolledIs
    <3> DEFINE u == Queried(net, slot, query)
    <3>2. u.slot = slot /\ u.query = query /\ u \in StackShapes
      BY <1>1, QueriedIs DEF Fits
    <3> HIDE DEF u
    <3>3. Reconfigured(u, net')
      BY <3>1 DEF u
    <3>4. Pending(net') => slot.state = "pending" /\ ~query.disturbed
      BY <3>2, <3>3, ReconfiguredHolds DEF Pending
    <3>5. net.slot \in SlotShapes /\ net.query \in QueryShapes
      BY <1>1 DEF Fits, StackShapes
    <3>6. slot.state = "pending" /\ ~query.disturbed => net.slot.state = "pending" /\ ~net.query.disturbed
      BY <3>1, <3>5 DEF Exchange, SlotShapes, QueryShapes
    <3> QED BY <3>4, <3>6 DEF Pending
  <2> QED BY <1>2, <2>2, <2>5, <2>6 DEF Pacing, Paced
<1> QED BY <1>2, <1>3 DEF Resolving

LEMMA PollQueryStep ==
  ASSUME ListsAreNamed, Resolving, NEW seconds \in 0 .. MaxStall, Stack!PollQuery(seconds)
  PROVE  Resolving' /\ (StallsAreShort /\ Pacing => Pacing')
<1>1. Fits(net) /\ SlotHeld(net) /\ net.query.open /\ ~net.query.settled /\ net \in StackShapes
  BY DEF Resolving, Stack!PollQuery, Fits
<1>2. ASSUME NEW s, Fits(s), SlotHeld(s), ~s.query.settled, NEW outcome \in Outcomes,
             net' = Queried(s, Stack!FreeSlot, EndedAs(s.query, outcome))
      PROVE  Resolving' /\ (Honest(s) /\ (outcome = "not found" => s.slot.state = "failed") => Pacing')
  <2>1. s.query \in QueryShapes
    BY <1>2 DEF Fits, StackShapes
  <2> DEFINE q == EndedAs(s.query, outcome)
             u == Queried(s, Stack!FreeSlot, q)
  <2>2. /\ q \in QueryShapes /\ q.settled /\ q.outcome = outcome /\ q.open = s.query.open
        /\ q.answered = s.query.answered /\ q.disturbed = s.query.disturbed
    BY <2>1, EndedAsIs
  <2> HIDE DEF q
  <2>3. Fits(u) /\ u.slot = Stack!FreeSlot /\ u.query = q /\ u.panicked = s.panicked
    BY <1>2, <2>2, FreeSlotIs, QueriedIs
  <2> HIDE DEF u
  <2>4. SlotHeld(u)
    BY <1>2, <2>2, <2>3, FreeSlotIs DEF SlotHeld
  <2>5. Honest(s) /\ (outcome = "not found" => s.slot.state = "failed") => Honest(u) /\ Paced(u)
    BY <2>2, <2>3, FreeSlotIs DEF Honest, Paced, Pending
  <2>6. net' = u
    BY <1>2 DEF u, q
  <2>7. Resolving' <=> Fits(u) /\ SlotHeld(u)
    BY <2>6 DEF Resolving
  <2>8. Pacing' <=> Honest(u) /\ Paced(u)
    BY <2>6 DEF Pacing
  <2> QED BY <2>3, <2>4, <2>5, <2>7, <2>8
<1>3. CASE net.link
  <2> DEFINE u == Stack!After(net, seconds)
  <2>1. PICK s \in Stack!Polled(u) : net' = Stack!QueryPolled(s)
    BY <1>3 DEF Stack!PollQuery
  <2>2. Fits(u) /\ SlotHeld(u) /\ u.query.settled = net.query.settled
    BY <1>1, AfterIs
  <2>3. /\ Honest(net) => Honest(u)
        /\ Paced(net) => (Pending(u) => /\ InTurn(u.servers, u.slot, u.query)
                                        /\ u.query.elapsed < u.query.budget + MaxStall)
    BY <1>1, AfterIs
  <2> HIDE DEF u
  <2>4. Fits(s) /\ SlotHeld(s) /\ s.query.settled = u.query.settled
    BY <2>1, <2>2, PolledHolds
  <2>5. ~s.query.settled
    BY <1>1, <2>2, <2>4
  <2>6. ASSUME StallsAreShort, Pacing
        PROVE  /\ Honest(s)
               /\ Pending(s) => /\ InTurn(s.servers, s.slot, s.query) /\ s.slot.waited <= Stack!PerServer
                                /\ s.slot.asked # {}
    <3>1. Honest(u) /\ (Pending(u) => /\ InTurn(u.servers, u.slot, u.query)
                                      /\ u.query.elapsed < u.query.budget + MaxStall)
      BY <2>3, <2>6 DEF Pacing
    <3> QED BY <2>1, <2>2, <2>6, <3>1, PolledPaces
  <2>7. \/ s.slot.state = "pending" /\ s.query.elapsed < s.query.budget /\ Stack!QueryPolled(s) = s
        \/ \E outcome \in Outcomes :
             /\ Stack!QueryPolled(s) = Queried(s, Stack!FreeSlot, EndedAs(s.query, outcome))
             /\ outcome = "not found" => s.slot.state = "failed"
             /\ outcome = "timed out" => s.slot.state = "pending" /\ s.query.elapsed >= s.query.budget
    BY <2>4, <2>5, QueryPolledIs
  <2>8. CASE s.slot.state = "pending" /\ s.query.elapsed < s.query.budget /\ Stack!QueryPolled(s) = s
    <3>1. net' = s
      BY <2>1, <2>8
    <3>2. Resolving'
      BY <2>4, <3>1 DEF Resolving
    <3>3. StallsAreShort /\ Pacing => Honest(s) /\ Paced(s)
      BY <2>6, <2>8 DEF Paced
    <3> QED BY <3>1, <3>2, <3>3 DEF Pacing
  <2>9. CASE \E outcome \in Outcomes :
               /\ Stack!QueryPolled(s) = Queried(s, Stack!FreeSlot, EndedAs(s.query, outcome))
               /\ outcome = "not found" => s.slot.state = "failed"
    <3>1. PICK outcome \in Outcomes :
               /\ net' = Queried(s, Stack!FreeSlot, EndedAs(s.query, outcome))
               /\ outcome = "not found" => s.slot.state = "failed"
      BY <2>1, <2>9
    <3> QED BY <1>2, <2>4, <2>5, <2>6, <3>1
  <2> QED BY <2>7, <2>8, <2>9
<1>4. CASE ~net.link
  <2>1. net' = Stack!Settle(Stack!FreeOf(net), "link lost")
    BY <1>1, <1>4 DEF Stack!PollQuery, Stack!Fail
  <2>2. net' = Queried(net, Stack!FreeSlot, EndedAs(net.query, "link lost"))
    <3>1. Stack!FreeOf(net) = [net EXCEPT !.slot = Stack!FreeSlot]
      BY <1>1 DEF Stack!FreeOf, SlotHeld
    <3> HIDE DEF Stack!FreeSlot
    <3> QED BY <1>1, <2>1, <3>1 DEF Stack!Settle, Queried, EndedAs, StackShapes
  <2>3. "link lost" \in Outcomes
    BY DEF Outcomes
  <2> QED BY <1>1, <1>2, <2>2, <2>3 DEF Pacing
<1> QED BY <1>3, <1>4

LEMMA StartQueryStep ==
  ASSUME ListsAreNamed, Resolving, Stack!StartQuery
  PROVE  Resolving' /\ (StallsAreShort /\ Pacing => Pacing')
<1>1. Fits(net) /\ SlotHeld(net) /\ ~net.query.open /\ net.query.settled /\ net.slot.state = "free"
      /\ net \in StackShapes /\ net.servers = Stack!ConfigServers(net) /\ net.servers \in Resolvers
  BY DEF Resolving, Stack!StartQuery, SlotHeld, Fits, StackShapes
<1>2. net.slot \in SlotShapes /\ net.query \in QueryShapes
  BY <1>1 DEF StackShapes
<1>3. CASE net.servers = <<>>
  <2> DEFINE query == [Stack!NoQuery EXCEPT !.outcome = "no servers"]
             u == Queried(net, net.slot, query)
  <2>1. query \in QueryShapes /\ query.settled /\ query.outcome = "no servers" /\ ~query.disturbed
    BY DEF Stack!NoQuery, QueryShapes, Outcomes
  <2>2. net' = [net EXCEPT !.query = query]
    BY <1>1, <1>3 DEF Stack!StartQuery, Stack!Start
  <2> HIDE DEF query
  <2>3. net' = u
    BY <1>1, <2>2 DEF Queried, StackShapes
  <2>4. Fits(u) /\ u.slot = net.slot /\ u.query = query /\ u.panicked = net.panicked
    <3>1. Fits(net) /\ net.slot \in SlotShapes /\ query \in QueryShapes
      BY <1>1, <1>2, <2>1
    <3> QED BY <3>1, QueriedIs
  <2> HIDE DEF u
  <2>5. SlotHeld(u) /\ Paced(u) /\ Honest(u)
    BY <1>1, <2>1, <2>4 DEF SlotHeld, Paced, Pending, Honest
  <2> QED BY <2>3, <2>4, <2>5 DEF Resolving, Pacing
<1>4. CASE net.servers # <<>>
  <2> DEFINE budget == Stack!Budget(net.servers)
             query == [Stack!NoQuery EXCEPT !.open = TRUE, !.settled = FALSE, !.budget = budget]
             slot == [Stack!FreeSlot EXCEPT !.state = "pending"]
             u == Queried(net, slot, query)
  <2>1. budget \in Nat /\ budget > 0
    BY DEF Stack!Budget, Stack!Fallback, Stack!SingleServer, Stack!PerServer
  <2>2. net' = [net EXCEPT !.slot = slot, !.query = query]
    BY <1>1, <1>4 DEF Stack!StartQuery, Stack!Start
  <2>3. Len(net.servers) >= 1
    BY <1>1, <1>4, ResolversAre
  <2> HIDE DEF budget
  <2>4. /\ query \in QueryShapes /\ query.open /\ ~query.settled /\ query.outcome = None /\ ~query.disturbed
        /\ query.elapsed = 0 /\ query.budget = budget
    BY <2>1 DEF Stack!NoQuery, QueryShapes
  <2>5. slot \in SlotShapes /\ slot.state = "pending" /\ slot.asked = {} /\ slot.server = 1 /\ slot.waited = 0
    BY DEF Stack!FreeSlot, SlotShapes
  <2> HIDE DEF query, slot
  <2>6. Fits(u) /\ u.slot = slot /\ u.query = query /\ u.panicked = net.panicked /\ u.servers = net.servers
    BY <1>1, <2>4, <2>5, QueriedIs
  <2>7. net' = u
    BY <2>2 DEF Queried
  <2> HIDE DEF u
  <2>8. SlotHeld(u)
    BY <1>1, <2>4, <2>5, <2>6 DEF SlotHeld
  <2>9. Honest(u)
    BY <2>4, <2>5, <2>6 DEF Honest, Outcomes, ListsAreNamed
  <2>10. Paced(u)
    <3>1. InTurn(net.servers, slot, query)
      BY <2>3, <2>4, <2>5 DEF InTurn, budget, ListsAreNamed
    <3> QED BY <2>1, <2>4, <2>5, <2>6, <3>1 DEF Paced, Stack!PerServer
  <2> QED BY <2>6, <2>7, <2>8, <2>9, <2>10 DEF Resolving, Pacing
<1> QED BY <1>3, <1>4

LEMMA CancelQueryStep ==
  ASSUME ListsAreNamed, Resolving, Stack!CancelQuery
  PROVE  Resolving' /\ (StallsAreShort /\ Pacing => Pacing')
<1>1. Fits(net) /\ SlotHeld(net) /\ net.query.open /\ net \in StackShapes
  BY DEF Resolving, Stack!CancelQuery, Fits
<1>2. net.slot \in SlotShapes /\ net.query \in QueryShapes
  BY <1>1 DEF StackShapes
<1> DEFINE query == [net.query EXCEPT !.settled = TRUE, !.open = FALSE]
           u == Queried(net, Stack!FreeSlot, query)
<1>3. net' = u \/ (net.query.settled /\ net' = Queried(net, net.slot, query))
  <2>1. CASE net.query.settled
    <3>1. net' = [net EXCEPT !.query.open = FALSE]
      BY <1>1, <2>1 DEF Stack!CancelQuery, Stack!Cancelled
    <3>2. [net.query EXCEPT !.open = FALSE] = query
      BY <1>2, <2>1 DEF QueryShapes
    <3> HIDE DEF query
    <3> QED BY <1>1, <2>1, <3>1, <3>2 DEF Queried, StackShapes
  <2>2. CASE ~net.query.settled
    <3>1. Stack!FreeOf(net) = [net EXCEPT !.slot = Stack!FreeSlot]
      BY <1>1, <2>2 DEF Stack!FreeOf, SlotHeld
    <3> HIDE DEF Stack!FreeSlot
    <3>2. net' = [[[net EXCEPT !.slot = Stack!FreeSlot] EXCEPT !.query.settled = TRUE] EXCEPT !.query.open = FALSE]
      BY <1>1, <2>2, <3>1 DEF Stack!CancelQuery, Stack!Cancelled
    <3> QED BY <1>1, <3>2 DEF Queried, StackShapes
  <2> QED BY <2>1, <2>2
<1>4. /\ query \in QueryShapes /\ query.settled /\ query.outcome = net.query.outcome
      /\ query.answered = net.query.answered /\ query.disturbed = net.query.disturbed
  BY <1>2 DEF QueryShapes
<1> HIDE DEF query
<1>5. ASSUME NEW slot \in SlotShapes, slot.state = "free", net' = Queried(net, slot, query)
      PROVE  Resolving' /\ (StallsAreShort /\ Pacing => Pacing')
  <2> DEFINE v == Queried(net, slot, query)
  <2>1. Fits(v) /\ v.slot = slot /\ v.query = query /\ v.panicked = net.panicked
    BY <1>1, <1>4, <1>5, QueriedIs
  <2>2. net' = v
    BY <1>5
  <2> HIDE DEF v
  <2>3. SlotHeld(v) /\ (Honest(net) => Honest(v)) /\ Paced(v)
    BY <1>1, <1>4, <1>5, <2>1 DEF SlotHeld, Honest, Paced, Pending
  <2> QED BY <2>1, <2>2, <2>3 DEF Resolving, Pacing
<1> QED BY <1>1, <1>2, <1>3, <1>5, FreeSlotIs DEF SlotHeld

LEMMA LinkStep ==
  ASSUME ListsAreNamed, Resolving, Stack!LoseLink \/ Stack!Rebuild
  PROVE  Resolving' /\ (StallsAreShort /\ Pacing => Pacing')
<1>1. Fits(net) /\ SlotHeld(net) /\ net \in StackShapes
  BY DEF Resolving, Fits
<1>2. CASE Stack!LoseLink
  <2> DEFINE u == [net EXCEPT !.link = FALSE]
  <2>1. u \in StackShapes
    BY <1>1 DEF StackShapes
  <2>2. /\ u.slot = net.slot /\ u.panicked = net.panicked /\ u.query = net.query
        /\ u.source = net.source /\ u.client = net.client /\ u.config = net.config /\ u.address = net.address
        /\ u.lost = net.lost /\ u.losses = net.losses /\ u.servers = net.servers
    BY <1>1 DEF StackShapes
  <2>3. net' = u
    BY <1>2 DEF Stack!LoseLink
  <2> HIDE DEF u
  <2>4. Fits(u) /\ SlotHeld(u)
    BY <1>1, <2>1, <2>2 DEF Fits, SlotHeld, Stack!ConfigServers
  <2>5. Pacing => Paced(u) /\ Honest(u)
    BY <2>2 DEF Pacing, Paced, Honest, Pending
  <2> QED BY <2>3, <2>4, <2>5 DEF Resolving, Pacing
<1>3. CASE Stack!Rebuild
  <2> DEFINE u == [net EXCEPT !.link = TRUE, !.source = "none", !.client = "absent",
                              !.config = None, !.address = None, !.servers = <<>>,
                              !.lost = 0, !.losses = 0, !.query = Stack!NoQuery]
  <2>1. Stack!NoQuery \in QueryShapes /\ Stack!NoQuery.settled /\ Stack!NoQuery.outcome = None
        /\ ~Stack!NoQuery.disturbed
    BY DEF Stack!NoQuery, QueryShapes
  <2>2. net.slot.state = "free"
    BY <1>1, <1>3 DEF Stack!Rebuild, SlotHeld
  <2>3. net' = u
    BY <1>3 DEF Stack!Rebuild
  <2> HIDE DEF Stack!NoQuery
  <2>4. u \in StackShapes
    BY <1>1, <2>1 DEF StackShapes, Resolvers
  <2>5. /\ u.slot = net.slot /\ u.panicked = net.panicked /\ u.query = Stack!NoQuery
        /\ u.source = "none" /\ u.client = "absent" /\ u.config = None /\ u.address = None
        /\ u.lost = 0 /\ u.losses = 0 /\ u.servers = <<>>
    BY <1>1 DEF StackShapes
  <2> HIDE DEF u
  <2>6. Fits(u)
    BY <2>4, <2>5 DEF Fits, Stack!ConfigServers
  <2>7. SlotHeld(u)
    BY <1>1, <2>1, <2>2, <2>5 DEF SlotHeld
  <2>8. Paced(u) /\ Honest(u)
    BY <2>1, <2>2, <2>5 DEF Paced, Honest, Pending, ListsAreNamed, Outcomes
  <2> QED BY <2>3, <2>6, <2>7, <2>8 DEF Resolving, Pacing
<1> QED BY <1>2, <1>3

LEMMA StackStep ==
  ASSUME ListsAreNamed
  PROVE  Resolving /\ [Stack!Next]_net => Resolving' /\ (StallsAreShort /\ Pacing => Pacing')
<1> SUFFICES ASSUME Resolving, [Stack!Next]_net PROVE Resolving' /\ (StallsAreShort /\ Pacing => Pacing')
  OBVIOUS
<1>1. CASE Stack!StartDhcp \/ Stack!Release \/ Stack!SetStatic \/ Stack!ReplaceServers
  <2>1. net \in StackShapes /\ Fits(net') /\ Reconfigured(net, net')
    BY <1>1, ConfigurationStep DEF Resolving, Fits
  <2>2. SlotHeld(net') /\ (Paced(net) => Paced(net')) /\ (Honest(net) => Honest(net'))
    BY <2>1, ReconfiguredHolds, ReconfiguredKeeps DEF Resolving
  <2> QED BY <2>1, <2>2 DEF Resolving, Pacing
<1>2. CASE UNCHANGED net
  BY <1>2 DEF Resolving, Pacing
<1>3. CASE \E seconds \in 0 .. MaxStall : Stack!PollQuery(seconds)
  BY <1>3, PollQueryStep
<1> QED BY <1>1, <1>2, <1>3, PollStep, StartQueryStep, CancelQueryStep, LinkStep DEF Stack!Next

LEMMA StackBegins ==
  ASSUME ListsAreNamed
  PROVE  Stack!Init => Resolving /\ Pacing
<1> SUFFICES ASSUME Stack!Init PROVE Resolving /\ Pacing
  OBVIOUS
<1>1. Stack!NoQuery \in QueryShapes /\ Stack!NoQuery.settled /\ Stack!NoQuery.outcome = None
      /\ ~Stack!NoQuery.disturbed /\ Stack!FreeSlot \in SlotShapes /\ Stack!FreeSlot.state = "free"
  BY FreeSlotIs DEF Stack!NoQuery, QueryShapes
<1> HIDE DEF Stack!NoQuery, Stack!FreeSlot
<1>2. Fits(net)
  BY <1>1 DEF Stack!Init, Fits, StackShapes, Stack!ConfigServers, Resolvers
<1>3. SlotHeld(net) /\ Paced(net) /\ Honest(net)
  BY <1>1 DEF Stack!Init, SlotHeld, Paced, Honest, Pending, ListsAreNamed, Outcomes
<1> QED BY <1>2, <1>3 DEF Resolving, Pacing

\* The socket asks the resolvers of the configuration the stack has and no others,
\* whatever lease, command or lost link replaces it, and an address given up does not
\* come back: it is always of the source that is selected (net/stack.rs).
THEOREM ConfigurationIsOfItsSource ==
  ASSUME ListsAreNamed
  PROVE  Stack!Spec => [](Stack!TypeOK /\ Stack!ResolversInStep /\ Stack!SourceDecides)
<1>1. Resolving => Stack!TypeOK /\ Stack!ResolversInStep /\ Stack!SourceDecides
  <2> SUFFICES ASSUME Resolving PROVE Stack!TypeOK /\ Stack!ResolversInStep /\ Stack!SourceDecides
    OBVIOUS
  <2>1. Fits(net) /\ net \in StackShapes
    BY DEF Resolving, Fits
  <2>2. Len(net.servers) <= MaxServers
    BY <2>1, ResolversAre DEF StackShapes
  <2>3. Stack!TypeOK
    BY <2>1, <2>2 DEF Fits, StackShapes, SlotShapes, Sources, Stack!TypeOK
  <2>4. Stack!ResolversInStep /\ Stack!SourceDecides
    BY <2>1 DEF Fits, Stack!ResolversInStep, Stack!SourceDecides
  <2> QED BY <2>3, <2>4
<1>2. Stack!Spec => []Resolving
  BY StackBegins, StackStep, PTL DEF Stack!Spec
<1> QED BY <1>1, <1>2, PTL

\* The one slot of the DNS socket is given back exactly once, by whichever of answer,
\* deadline, lost link and drop comes first, so nothing asks for a slot that is free,
\* which would panic (`DnsQuery`, net/dns.rs).
THEOREM DnsSlotIsReleasedOnce ==
  ASSUME ListsAreNamed PROVE Stack!Spec => []Stack!SlotReleasedOnce
<1>1. Resolving => Stack!SlotReleasedOnce
  <2> SUFFICES ASSUME Resolving PROVE Stack!SlotReleasedOnce
    OBVIOUS
  <2>1. SlotHeld(net) /\ net.query.settled \in BOOLEAN
    BY DEF Resolving, Fits, StackShapes, QueryShapes
  <2> QED BY <2>1 DEF SlotHeld, Stack!SlotReleasedOnce
<1>2. Stack!Spec => []Resolving
  BY StackBegins, StackStep, PTL DEF Stack!Spec
<1> QED BY <1>1, <1>2, PTL

LEMMA StackPaces ==
  ASSUME ListsAreNamed, StallsAreShort
  PROVE  Stack!Spec => [](Resolving /\ Pacing)
BY StackBegins, StackStep, PTL DEF Stack!Spec

\* A name is only said not to exist when a server answered that, not when all of the
\* resolvers are dead, as long as they stayed those the query started with: the
\* deadline is over before the socket would run out of resolvers (net/dns.rs).
THEOREM NotFoundIsAnAnswer ==
  ASSUME ListsAreNamed, StallsAreShort PROVE Stack!Spec => []Stack!NotFoundWasAnswered
<1>1. Pacing => Stack!NotFoundWasAnswered
  BY DEF Pacing, Honest, Stack!NotFoundWasAnswered
<1> QED BY <1>1, StackPaces, PTL

\* No list names a resolver twice.
OneEach == \A list \in Lists : \A i, j \in 1 .. Len(list) : list[i] = list[j] => i = j

LEMMA SecondDiffers ==
  ASSUME ListsAreNamed, OneEach, NEW list \in Resolvers, Len(list) > 1
  PROVE  list[1] # list[2]
<1>1. Len(list) \in Nat /\ list # <<>>
  BY ResolversAre
<1>2. PICK long \in Lists : list = Stack!Truncated(long)
  BY <1>1 DEF Resolvers
<1>3. /\ long \in Seq(Addresses) /\ Len(list) <= Len(long)
      /\ \A i \in 1 .. Len(list) : list[i] = long[i]
  BY <1>2, TruncatedIs DEF ListsAreNamed
<1>4. list[1] = long[1] /\ list[2] = long[2] /\ 1 \in 1 .. Len(long) /\ 2 \in 1 .. Len(long)
  BY <1>1, <1>3
<1> QED BY <1>4 DEF OneEach

LEMMA SecondWasAsked ==
  ASSUME ListsAreNamed, StallsAreShort, NEW s, Fits(s), Len(s.servers) > 1, InTurn(s.servers, s.slot, s.query),
         s.slot.waited <= Stack!PerServer, s.slot.asked # {}, s.query.elapsed >= s.query.budget
  PROVE  s.slot.asked = {s.servers[1], s.servers[2]}
<1> DEFINE elapsed == s.query.elapsed
           waited == s.slot.waited
<1>1. elapsed \in Nat /\ waited \in Nat /\ MaxStall \in Nat
  BY DEF Fits, StackShapes, QueryShapes, SlotShapes, ListsAreNamed
<1>2. s.query.budget = 13
  BY DEF InTurn, Stack!Budget, Stack!Fallback, Stack!PerServer
<1>3. elapsed >= 13 /\ waited <= 10 /\ MaxStall <= 2
  BY <1>2 DEF StallsAreShort, Stack!PerServer
<1> HIDE DEF elapsed, waited
<1>4. ~(elapsed <= waited + MaxStall)
  BY <1>1, <1>3
<1> QED BY <1>4 DEF InTurn, elapsed, waited

\* A query that times out although there was a second resolver to ask had asked it:
\* its budget is longer than what the first is given (`query_timeout`, net/dns.rs).
THEOREM FallbackIsAsked ==
  ASSUME ListsAreNamed, StallsAreShort, OneEach PROVE Stack!Spec => []Stack!FallbackIsReached
<1>1. Resolving /\ Pacing => Stack!FallbackIsReached
  <2> SUFFICES ASSUME Resolving, Pacing, NEW seconds \in 0 .. MaxStall, NEW s \in Stack!Polled(Stack!After(net, seconds)),
                      ~net.query.settled, ~s.query.disturbed, Len(s.servers) > 1,
                      Stack!QueryPolled(s).query.outcome = "timed out"
               PROVE  \E a, b \in s.slot.asked : a # b
    BY DEF Stack!FallbackIsReached
  <2> DEFINE u == Stack!After(net, seconds)
  <2>1. Fits(net) /\ SlotHeld(net) /\ Paced(net) /\ Honest(net)
    BY DEF Resolving, Pacing
  <2>2. /\ Fits(u) /\ SlotHeld(u) /\ u.query.settled = net.query.settled /\ Honest(u)
        /\ Pending(u) => InTurn(u.servers, u.slot, u.query) /\ u.query.elapsed < u.query.budget + MaxStall
    BY <2>1, AfterIs
  <2> HIDE DEF u
  <2>3. s \in Stack!Polled(u)
    BY DEF u
  <2>4. Fits(s) /\ SlotHeld(s) /\ s.query.settled = u.query.settled
    BY <2>2, <2>3, PolledHolds
  <2>5. ~s.query.settled /\ s.query.outcome = None /\ s.query \in QueryShapes /\ s.slot \in SlotShapes
        /\ s.servers \in Resolvers
    BY <2>2, <2>4 DEF SlotHeld, Fits, StackShapes
  <2>6. None # "timed out"
    BY DEF ListsAreNamed, Outcomes
  <2>7. PICK outcome \in Outcomes :
          /\ Stack!QueryPolled(s) = Queried(s, Stack!FreeSlot, EndedAs(s.query, outcome))
          /\ outcome = "timed out" => s.slot.state = "pending" /\ s.query.elapsed >= s.query.budget
    BY <2>4, <2>5, <2>6, QueryPolledIs
  <2>8. EndedAs(s.query, outcome) \in QueryShapes /\ EndedAs(s.query, outcome).outcome = outcome
    BY <2>5, EndedAsIs
  <2>9. Stack!QueryPolled(s).query = EndedAs(s.query, outcome)
    <3> DEFINE q == EndedAs(s.query, outcome)
    <3>1. q \in QueryShapes
      BY <2>8
    <3> HIDE DEF q
    <3>2. Queried(s, Stack!FreeSlot, q).query = q
      BY <2>4, <3>1, FreeSlotIs, QueriedIs
    <3> QED BY <2>7, <3>2 DEF q
  <2>10. s.slot.state = "pending" /\ s.query.elapsed >= s.query.budget /\ Pending(s)
    BY <2>7, <2>8, <2>9 DEF Pending
  <2>11. InTurn(s.servers, s.slot, s.query) /\ s.slot.waited <= Stack!PerServer /\ s.slot.asked # {}
    BY <2>2, <2>3, <2>10, PolledPaces
  <2>12. s.slot.asked = {s.servers[1], s.servers[2]}
    BY <2>4, <2>10, <2>11, SecondWasAsked
  <2>13. s.servers[1] # s.servers[2]
    BY <2>5, SecondDiffers
  <2> QED BY <2>12, <2>13
<1> QED BY <1>1, StackPaces, PTL

---------------------------------------------------------------------------
(* The browser's cache.  A write, a read and a sweep take a step of a      *)
(* frame each and may be given up after any, so what is proved is what is  *)
(* on the volume between two of them.                                      *)

CONSTANTS Hashes, HashOf, BucketOf, Posts, Responses, MaxTime, MaxVersion
VARIABLE cache

Cache == INSTANCE BrowserCache

Answers == Urls \X Nat
Records == [url : Urls \cup {None}, version : Nat, size : Nat, stored : Nat, expires : Int, used : Nat,
            revalidate : BOOLEAN]
Writes == [hash : Hashes, open : BOOLEAN, written : Nat, record : Records]
Readers == [hash : Hashes, url : Urls, size : Nat, got : Seq(Answers), revalidated : BOOLEAN]
CacheShapes ==
  [meta : [Hashes -> {None} \cup Records], body : [Hashes -> {None} \cup Seq(Answers)],
   write : {None} \cup Writes, reader : {None} \cup Readers, now : Nat, version : Nat,
   sweep : {None} \cup Nat, nextSweep : Nat, stale : [Urls -> Nat]]

\* What the theorems about the cache assume: an address has a hash, an answer a size and a
\* lifetime, and the marker for none is none of the things it stands for.
AddressesAreHashed ==
  /\ HashOf \in [Urls -> Hashes] /\ Responses \subseteq [size : Nat, lifetime : Nat, revalidate : BOOLEAN]
  /\ None \notin Urls /\ None \notin Nat /\ None \notin Records /\ None \notin Seq(Answers)
  /\ None \notin Writes /\ None \notin Readers

\* Every step of a body is of one answer.
Of(body, url, version) == \A i \in DOMAIN body : body[i] = <<url, version>>

\* A record is of an address of its hash, newer than what was posted to any such, and
\* its body is its own when it has its size.
Vouches(s, h) ==
  LET record == s.meta[h]
  IN  Cache!Decodes(record) =>
        /\ HashOf[record.url] = h /\ record.version <= s.version
        /\ \A url \in Urls : HashOf[url] = h => record.version > s.stale[url]
        /\ s.body[h] # None /\ Len(s.body[h]) = record.size => Of(s.body[h], record.url, record.version)
Vouched(s) ==
  /\ \A url \in Urls : s.stale[url] <= s.version
  /\ \A h \in Hashes : Vouches(s, h)

\* What is written is of an address of its hash, newer than what was posted to any such.
Named(s) ==
  LET record == s.write.record
  IN  /\ s.write # None /\ s.reader = None
      /\ record.url \in Urls /\ s.write.hash = HashOf[record.url] /\ record.version <= s.version
      /\ \A url \in Urls : HashOf[url] = s.write.hash => record.version > s.stale[url]

\* A body being written has no record, and is as far as is known of it.
Written(s) ==
  LET record == s.write.record
      body == s.body[s.write.hash]
  IN  /\ s.write.written <= record.size /\ s.meta[s.write.hash] = None
      /\ s.write.open => body # None
      /\ ~s.write.open => s.write.written = 0
      /\ s.write.written # 0 => Len(body) = s.write.written /\ Of(body, record.url, record.version)
Writing(s) == s.write # None => Named(s) /\ Written(s)

\* A body being read stays, and is of one answer.
Reading(s) ==
  s.reader # None =>
    /\ s.write = None /\ s.body[s.reader.hash] # None
    /\ \E version \in Nat :
         Of(s.body[s.reader.hash], s.reader.url, version) /\ Of(s.reader.got, s.reader.url, version)

Sound(s) == s \in CacheShapes /\ Vouched(s) /\ Writing(s) /\ Reading(s)

LEMMA NothingIsOf ==
  ASSUME NEW url, NEW version
  PROVE  Of(<<>>, url, version)
BY DEF Of

LEMMA CacheBegins ==
  ASSUME AddressesAreHashed, Cache!Init
  PROVE  Sound(cache)
<1>1. cache \in CacheShapes
  BY DEF Cache!Init, CacheShapes
<1>2. Vouched(cache) /\ Writing(cache) /\ Reading(cache)
  BY DEF Cache!Init, Vouched, Vouches, Writing, Reading, Cache!Decodes
<1> QED BY <1>1, <1>2 DEF Sound

---------------------------------------------------------------------------
\* What is left of s when files were removed from it.
Left(s, t) ==
  /\ t \in CacheShapes
  /\ t.now = s.now /\ t.version = s.version /\ t.stale = s.stale
  /\ \A h \in Hashes : t.meta[h] \in {None, s.meta[h]} /\ t.body[h] \in {None, s.body[h]}

LEMMA LeftVouches ==
  ASSUME NEW s, NEW t, Vouched(s), Left(s, t)
  PROVE  Vouched(t)
<1>1. \A url \in Urls : t.stale[url] <= t.version
  BY DEF Left, Vouched
<1>2. ASSUME NEW h \in Hashes PROVE Vouches(t, h)
  <2>1. /\ Vouches(s, h) /\ t.meta[h] \in {None, s.meta[h]} /\ t.body[h] \in {None, s.body[h]}
        /\ t.version = s.version /\ t.stale = s.stale
    BY <1>2 DEF Left, Vouched
  <2> QED BY <2>1 DEF Vouches, Cache!Decodes
<1> QED BY <1>1, <1>2 DEF Vouched

LEMMA RemovePathsIs ==
  ASSUME NEW s \in CacheShapes, NEW h \in Hashes
  PROVE  LET t == Cache!RemovePaths(s, h)
         IN  /\ t \in CacheShapes /\ Left(s, t)
             /\ t.write = s.write /\ t.reader = s.reader /\ t.sweep = s.sweep /\ t.nextSweep = s.nextSweep
             /\ t.meta[h] = None /\ (~Cache!Open(s, h) => t.body[h] = None)
             /\ (Cache!Open(s, h) => t.body[h] = s.body[h])
             /\ \A g \in Hashes \ {h} : t.meta[g] = s.meta[g] /\ t.body[g] = s.body[g]
<1> DEFINE t == Cache!RemovePaths(s, h)
           meta == [s.meta EXCEPT ![h] = None]
           body == IF Cache!Open(s, h) THEN s.body ELSE [s.body EXCEPT ![h] = None]
<1>1. t = [s EXCEPT !.meta = meta, !.body = body]
  BY DEF Cache!RemovePaths, Cache!RemoveBody, Cache!RemoveMeta, Cache!Open, CacheShapes
<1>2. s.meta \in [Hashes -> {None} \cup Records] /\ s.body \in [Hashes -> {None} \cup Seq(Answers)]
  BY DEF CacheShapes
<1>3. /\ meta \in [Hashes -> {None} \cup Records] /\ meta[h] = None
      /\ \A g \in Hashes \ {h} : meta[g] = s.meta[g]
  BY <1>2
<1>4. /\ body \in [Hashes -> {None} \cup Seq(Answers)]
      /\ (~Cache!Open(s, h) => body[h] = None) /\ (Cache!Open(s, h) => body[h] = s.body[h])
      /\ \A g \in Hashes \ {h} : body[g] = s.body[g]
  BY <1>2
<1> HIDE DEF meta, body, t
<1>5. /\ t \in CacheShapes /\ t.meta = meta /\ t.body = body /\ t.write = s.write /\ t.reader = s.reader
      /\ t.sweep = s.sweep /\ t.nextSweep = s.nextSweep /\ t.now = s.now /\ t.version = s.version /\ t.stale = s.stale
  BY <1>1, <1>3, <1>4 DEF CacheShapes
<1>6. Left(s, t)
  BY <1>3, <1>4, <1>5 DEF Left
<1> QED BY <1>3, <1>4, <1>5, <1>6 DEF t

LEMMA RemoveAllIs ==
  ASSUME NEW s \in CacheShapes, NEW hs \in SUBSET Hashes
  PROVE  LET t == Cache!RemoveAll(s, hs)
         IN  /\ t \in CacheShapes /\ Left(s, t)
             /\ t.write = s.write /\ t.reader = s.reader /\ t.sweep = s.sweep /\ t.nextSweep = s.nextSweep
             /\ \A h \in hs : t.meta[h] = None /\ (~Cache!Open(s, h) => t.body[h] = None)
             /\ \A h \in Hashes \ hs : t.meta[h] = s.meta[h] /\ t.body[h] = s.body[h]
<1> DEFINE t == Cache!RemoveAll(s, hs)
           meta == [h \in Hashes |-> IF h \in hs THEN None ELSE s.meta[h]]
           body == [h \in Hashes |-> IF h \in hs /\ ~Cache!Open(s, h) THEN None ELSE s.body[h]]
<1>1. t = [s EXCEPT !.meta = meta, !.body = body]
  BY DEF Cache!RemoveAll, CacheShapes
<1>2. s.meta \in [Hashes -> {None} \cup Records] /\ s.body \in [Hashes -> {None} \cup Seq(Answers)]
  BY DEF CacheShapes
<1>3. /\ meta \in [Hashes -> {None} \cup Records]
      /\ \A h \in hs : meta[h] = None
      /\ \A h \in Hashes \ hs : meta[h] = s.meta[h]
  BY <1>2
<1>4. /\ body \in [Hashes -> {None} \cup Seq(Answers)]
      /\ \A h \in Hashes : body[h] \in {None, s.body[h]}
      /\ \A h \in hs : ~Cache!Open(s, h) => body[h] = None
      /\ \A h \in Hashes \ hs : body[h] = s.body[h]
  BY <1>2
<1> HIDE DEF meta, body, t
<1>5. /\ t \in CacheShapes /\ t.meta = meta /\ t.body = body /\ t.write = s.write /\ t.reader = s.reader
      /\ t.sweep = s.sweep /\ t.nextSweep = s.nextSweep /\ t.now = s.now /\ t.version = s.version /\ t.stale = s.stale
  BY <1>1, <1>3, <1>4 DEF CacheShapes
<1>6. Left(s, t)
  BY <1>3, <1>4, <1>5 DEF Left
<1> QED BY <1>3, <1>4, <1>5, <1>6 DEF t

\* Nothing is read or written: what is removed is just gone.
LEMMA LeftKeeps ==
  ASSUME NEW s, NEW t, Vouched(s), Left(s, t), t.write = None, t.reader = None
  PROVE  Sound(t)
BY LeftVouches DEF Sound, Left, Writing, Reading

\* Nothing of this is about the clock or the sweep.
LEMMA SameKeeps ==
  ASSUME NEW s, NEW t \in CacheShapes, Sound(s), t.meta = s.meta, t.body = s.body, t.write = s.write,
         t.reader = s.reader, t.version = s.version, t.stale = s.stale
  PROVE  Sound(t)
BY DEF Sound, Vouched, Vouches, Writing, Named, Written, Reading

\* A record is replaced by one of the same answer, or by none that decodes.
LEMMA UpdateRecordKeeps ==
  ASSUME AddressesAreHashed, NEW s, Sound(s), s.write = None, NEW h \in Hashes, Cache!Decodes(s.meta[h]),
         NEW record \in Records, record.url = s.meta[h].url, record.version = s.meta[h].version,
         record.size = s.meta[h].size, NEW t \in Cache!UpdateRecord(s, h, record)
  PROVE  /\ Sound(t) /\ t.write = None /\ t.reader = s.reader /\ t.body = s.body
<1>1. s \in CacheShapes /\ s.meta \in [Hashes -> {None} \cup Records] /\ s.meta[h] \in Records /\ Vouches(s, h)
  BY DEF Sound, CacheShapes, Vouched, Cache!Decodes
<1>2. CASE t = s
  BY <1>2
<1>3. ASSUME NEW new \in Records, t = [s EXCEPT !.meta[h] = new],
             new.url = None \/ (new.url = record.url /\ new.version = record.version /\ new.size = record.size)
      PROVE  /\ Sound(t) /\ t.write = None /\ t.reader = s.reader /\ t.body = s.body
  <2> DEFINE meta == [s.meta EXCEPT ![h] = new]
  <2>1. meta \in [Hashes -> {None} \cup Records] /\ meta[h] = new /\ \A g \in Hashes \ {h} : meta[g] = s.meta[g]
    BY <1>1
  <2>2. t = [s EXCEPT !.meta = meta]
    BY <1>1, <1>3 DEF CacheShapes
  <2> HIDE DEF meta
  <2>3. /\ t \in CacheShapes /\ t.meta = meta /\ t.body = s.body /\ t.write = s.write /\ t.reader = s.reader
        /\ t.version = s.version /\ t.stale = s.stale
    BY <1>1, <2>1, <2>2 DEF CacheShapes
  <2>4. ASSUME NEW g \in Hashes PROVE Vouches(t, g)
    <3>1. Vouches(s, g)
      BY DEF Sound, Vouched
    <3>2. CASE g # h
      BY <2>1, <2>3, <3>1, <3>2 DEF Vouches
    <3>3. CASE g = h
      BY <1>1, <1>3, <2>1, <2>3, <3>3 DEF Vouches, Cache!Decodes
    <3> QED BY <3>2, <3>3
  <2>5. Vouched(t)
    BY <2>3, <2>4 DEF Sound, Vouched
  <2>6. Writing(t) /\ Reading(t)
    BY <2>3 DEF Sound, Writing, Reading
  <2> QED BY <2>3, <2>5, <2>6 DEF Sound
<1>4. Cache!NoRecord \in Records /\ Cache!NoRecord.url = None
  BY DEF Cache!NoRecord, Records
<1> QED BY <1>2, <1>3, <1>4 DEF Cache!UpdateRecord

---------------------------------------------------------------------------
LEMMA FoundIs ==
  ASSUME AddressesAreHashed, NEW s \in CacheShapes, NEW url \in Urls, Cache!Find(s, url) # None
  PROVE  LET record == Cache!Find(s, url)
         IN  /\ record = s.meta[HashOf[url]] /\ record \in Records /\ Cache!Decodes(record) /\ record.url = url
             /\ HashOf[url] \in Hashes
<1>1. HashOf[url] \in Hashes /\ s.meta[HashOf[url]] \in {None} \cup Records
  BY DEF AddressesAreHashed, CacheShapes
<1> QED BY <1>1 DEF Cache!Find, Cache!Decodes

LEMMA StartReadIs ==
  ASSUME AddressesAreHashed, NEW s, Sound(s), NEW url \in Urls, Cache!Find(s, url) # None,
         NEW record \in Records, record.size = Cache!Find(s, url).size,
         NEW read, read = Cache!StartRead(s, url, record), read # None
  PROVE  /\ read \in Readers /\ read.url = url /\ read.got = <<>> /\ s.body[read.hash] # None
         /\ \E version \in Nat : Of(s.body[read.hash], url, version)
<1> DEFINE found == Cache!Find(s, url)
<1>1. /\ found = s.meta[HashOf[url]] /\ found \in Records /\ Cache!Decodes(found) /\ found.url = url
      /\ HashOf[url] \in Hashes
  BY FoundIs DEF Sound
<1>2. /\ read = [hash |-> HashOf[url], url |-> url, size |-> record.size, got |-> <<>>, revalidated |-> FALSE]
      /\ s.body[HashOf[url]] # None /\ Len(s.body[HashOf[url]]) = record.size
  BY DEF Cache!StartRead
<1>3. read \in Readers /\ read.hash = HashOf[url]
  BY <1>1, <1>2 DEF Readers, Records
<1>4. Vouches(s, HashOf[url])
  BY <1>1 DEF Sound, Vouched
<1>5. Of(s.body[HashOf[url]], url, found.version)
  BY <1>1, <1>2, <1>4 DEF Vouches
<1>6. found.version \in Nat
  BY <1>1 DEF Records
<1> HIDE DEF found
<1> QED BY <1>2, <1>3, <1>5, <1>6

LEMMA ReadingKeeps ==
  ASSUME AddressesAreHashed, NEW s, Sound(s), s.write = None, NEW read \in Readers, s.body[read.hash] # None,
         NEW version \in Nat, Of(s.body[read.hash], read.url, version), Of(read.got, read.url, version)
  PROVE  Sound([s EXCEPT !.reader = read])
<1> DEFINE t == [s EXCEPT !.reader = read]
<1>1. /\ t \in CacheShapes /\ t.meta = s.meta /\ t.body = s.body /\ t.write = None /\ t.reader = read
      /\ t.version = s.version /\ t.stale = s.stale
  BY DEF Sound, CacheShapes
<1> HIDE DEF t
<1>2. Vouched(t)
  BY <1>1 DEF Sound, Vouched, Vouches
<1>3. Writing(t) /\ Reading(t)
  BY <1>1 DEF Writing, Reading
<1> QED BY <1>1, <1>2, <1>3 DEF Sound, t

LEMMA AbandonedKeeps ==
  ASSUME NEW s, Sound(s)
  PROVE  LET t == Cache!Abandoned(s)
         IN  /\ Sound(t) /\ t.reader = None /\ t.write = s.write /\ t.body = s.body /\ t.meta = s.meta
             /\ t \in CacheShapes
<1> DEFINE t == Cache!Abandoned(s)
<1>1. /\ t \in CacheShapes /\ t.meta = s.meta /\ t.body = s.body /\ t.write = s.write /\ t.reader = None
      /\ t.version = s.version /\ t.stale = s.stale
  BY DEF Sound, CacheShapes, Cache!Abandoned
<1> HIDE DEF t
<1>2. Vouched(t)
  BY <1>1 DEF Sound, Vouched, Vouches
<1>3. Writing(t) /\ Reading(t)
  BY <1>1 DEF Sound, Writing, Named, Written, Reading
<1> QED BY <1>1, <1>2, <1>3 DEF Sound, t

\* An entry goes while nothing is being read or written.
LEMMA EntryGoes ==
  ASSUME NEW s, Sound(s), s.write = None, s.reader = None, NEW h \in Hashes
  PROVE  Sound(Cache!RemovePaths(s, h))
BY RemovePathsIs, LeftKeeps DEF Sound

LEMMA UseKeeps ==
  ASSUME AddressesAreHashed, Sound(cache), NEW url \in Urls, Cache!Use(url)
  PROVE  Sound(cache')
<1> DEFINE record == Cache!Find(cache, url)
           read == Cache!StartRead(cache, url, record)
           used == [record EXCEPT !.used = cache.now]
           reading == [cache EXCEPT !.reader = read]
<1>1. /\ cache.reader = None /\ cache.write = None
      /\ \/ UNCHANGED cache
         \/ record # None /\ cache' = Cache!RemovePaths(cache, HashOf[url])
         \/ record # None /\ read # None /\ \E s \in Cache!UpdateRecord(reading, HashOf[url], used) : cache' = s
  BY DEF Cache!Use
<1>2. CASE UNCHANGED cache
  BY <1>2
<1>3. CASE record # None /\ cache' = Cache!RemovePaths(cache, HashOf[url])
  BY <1>1, <1>3, EntryGoes DEF AddressesAreHashed
<1>4. CASE record # None /\ read # None /\ \E s \in Cache!UpdateRecord(reading, HashOf[url], used) : cache' = s
  <2>1. /\ record = cache.meta[HashOf[url]] /\ record \in Records /\ Cache!Decodes(record) /\ record.url = url
        /\ HashOf[url] \in Hashes /\ cache \in CacheShapes /\ cache.now \in Nat
    BY <1>4, FoundIs DEF Sound, CacheShapes
  <2>2. used \in Records /\ used.url = record.url /\ used.version = record.version /\ used.size = record.size
    BY <2>1 DEF Records
  <2>3. read \in Readers /\ read.url = url /\ read.got = <<>> /\ cache.body[read.hash] # None
        /\ \E version \in Nat : Of(cache.body[read.hash], url, version)
    <3>1. /\ record \in Records /\ record.size = Cache!Find(cache, url).size /\ Cache!Find(cache, url) # None
          /\ read = Cache!StartRead(cache, url, record) /\ read # None
      BY <1>4, <2>1
    <3> HIDE DEF read, used, record
    <3> QED BY <3>1, StartReadIs
  <2> HIDE DEF read, used, record
  <2>4. Sound(reading)
    BY <1>1, <2>3, NothingIsOf, ReadingKeeps
  <2>5. reading.write = None /\ reading.meta = cache.meta
    BY <1>1, <2>1 DEF CacheShapes
  <2> HIDE DEF reading
  <2> QED BY <1>4, <2>1, <2>2, <2>4, <2>5, UpdateRecordKeeps
<1> QED BY <1>1, <1>2, <1>3, <1>4

LEMMA NotModifiedKeeps ==
  ASSUME AddressesAreHashed, Sound(cache), NEW url \in Urls, Cache!NotModified(url)
  PROVE  Sound(cache')
<1> DEFINE record == Cache!Find(cache, url)
<1>1. PICK said \in {[lifetime |-> None, revalidate |-> FALSE]} \cup Responses :
        LET fresh == Cache!Refreshed(record, cache.now, said.lifetime, said.revalidate)
            read == Cache!StartRead(cache, url, fresh)
        IN  \E s \in Cache!UpdateRecord(cache, HashOf[url], fresh) :
              cache' = IF read = None THEN Cache!RemovePaths(s, HashOf[url])
                       ELSE [s EXCEPT !.reader = [read EXCEPT !.revalidated = TRUE]]
  BY DEF Cache!NotModified
<1> DEFINE fresh == Cache!Refreshed(record, cache.now, said.lifetime, said.revalidate)
           read == Cache!StartRead(cache, url, fresh)
           again == [read EXCEPT !.revalidated = TRUE]
<1>2. cache.reader = None /\ cache.write = None /\ record # None
  BY DEF Cache!NotModified
<1>3. /\ record = cache.meta[HashOf[url]] /\ record \in Records /\ Cache!Decodes(record) /\ record.url = url
      /\ HashOf[url] \in Hashes /\ cache \in CacheShapes /\ cache.now \in Nat
  BY <1>2, FoundIs DEF Sound, CacheShapes
<1>4. said.lifetime \in {None} \cup Nat /\ said.revalidate \in BOOLEAN
  <2>1. CASE said = [lifetime |-> None, revalidate |-> FALSE]
    BY <2>1
  <2>2. CASE said \in Responses
    BY <2>2 DEF AddressesAreHashed
  <2> QED BY <2>1, <2>2
<1>5. fresh \in Records /\ fresh.url = record.url /\ fresh.version = record.version /\ fresh.size = record.size
  <2> DEFINE expires == cache.now + (IF said.lifetime = None THEN record.expires - record.stored ELSE said.lifetime)
             revalidate == record.revalidate \/ said.revalidate
  <2>1. expires \in Int /\ revalidate \in BOOLEAN
    BY <1>3, <1>4 DEF Records
  <2>2. fresh = [record EXCEPT !.stored = cache.now, !.used = cache.now, !.expires = expires, !.revalidate = revalidate]
    BY <1>3 DEF Cache!Refreshed, Records
  <2> HIDE DEF expires, revalidate, fresh
  <2> QED BY <1>3, <2>1, <2>2 DEF Records
<1>6. PICK s \in Cache!UpdateRecord(cache, HashOf[url], fresh) :
        cache' = IF read = None THEN Cache!RemovePaths(s, HashOf[url]) ELSE [s EXCEPT !.reader = again]
  BY <1>1
<1>7. Sound(s) /\ s.write = None /\ s.reader = None /\ s.body = cache.body
  BY <1>2, <1>3, <1>5, UpdateRecordKeeps
<1>8. CASE read = None
  BY <1>3, <1>6, <1>7, <1>8, EntryGoes
<1>9. CASE read # None
  <2>1. /\ read \in Readers /\ read.url = url /\ read.got = <<>> /\ cache.body[read.hash] # None
        /\ \E version \in Nat : Of(cache.body[read.hash], url, version)
    <3>1. /\ fresh \in Records /\ fresh.size = Cache!Find(cache, url).size /\ Cache!Find(cache, url) # None
          /\ read = Cache!StartRead(cache, url, fresh) /\ read # None
      BY <1>2, <1>5, <1>9
    <3> HIDE DEF read, fresh
    <3> QED BY <3>1, StartReadIs
  <2> HIDE DEF read
  <2>2. again \in Readers /\ again.url = url /\ again.got = <<>> /\ again.hash = read.hash
    BY <2>1 DEF Readers
  <2> HIDE DEF again
  <2>3. cache' = [s EXCEPT !.reader = again]
    BY <1>6, <1>9 DEF read
  <2> QED BY <1>7, <2>1, <2>2, <2>3, NothingIsOf, ReadingKeeps
<1> QED BY <1>8, <1>9

LEMMA StepReadKeeps ==
  ASSUME AddressesAreHashed, Sound(cache), Cache!StepRead
  PROVE  Sound(cache')
<1> DEFINE read == cache.reader
           done == Cache!Abandoned(cache)
           i == Len(read.got) + 1
           body == cache.body[read.hash]
           got == [cache EXCEPT !.reader.got = Append(@, body[i])]
<1>1. cache.reader # None /\ cache \in CacheShapes /\ cache.write = None
  BY DEF Cache!StepRead, Sound, Reading
<1>2. read \in Readers /\ read.hash \in Hashes /\ body # None /\ body \in Seq(Answers) /\ read.got \in Seq(Answers)
  BY <1>1 DEF Sound, Reading, CacheShapes, Readers
<1>3. Sound(done) /\ done.reader = None /\ done.write = None
  BY <1>1, AbandonedKeeps
<1>4. Sound(Cache!RemovePaths(done, read.hash))
  BY <1>2, <1>3, EntryGoes
<1>5. \/ cache' = got /\ i <= Len(body)
      \/ cache' = Cache!RemovePaths(done, read.hash)
      \/ cache' = done
  BY <1>1, <1>2 DEF Cache!StepRead, Cache!Step
<1>6. CASE cache' = got /\ i <= Len(body)
  <2> DEFINE next == [read EXCEPT !.got = Append(read.got, body[i])]
  <2>1. i \in DOMAIN body /\ body[i] \in Answers
    BY <1>2, <1>6
  <2>2. /\ next \in Readers /\ next.hash = read.hash /\ next.url = read.url
        /\ next.got = Append(read.got, body[i])
    <3>1. Append(read.got, body[i]) \in Seq(Answers)
      BY <1>2, <2>1
    <3> DEFINE more == Append(read.got, body[i])
    <3> HIDE DEF more, i, body, read
    <3> QED BY <1>2, <3>1 DEF Readers, more
  <2>3. PICK version \in Nat : Of(body, read.url, version) /\ Of(read.got, read.url, version)
    BY <1>1 DEF Sound, Reading
  <2>4. Of(next.got, next.url, version)
    <3>1. next.got = Append(read.got, body[i]) /\ next.url = read.url /\ body[i] = <<read.url, version>>
      BY <2>1, <2>2, <2>3 DEF Of
    <3> DEFINE answer == body[i]
               old == read.got
    <3>2. old \in Seq(Answers) /\ answer \in Answers
      BY <1>2, <2>1
    <3> HIDE DEF next, answer, old, body, i
    <3>3. \A k \in DOMAIN Append(old, answer) :
             Append(old, answer)[k] = IF k \in DOMAIN old THEN old[k] ELSE answer
      BY <3>2
    <3> QED BY <2>3, <3>1, <3>3 DEF Of, answer, old
  <2>5. cache' = [cache EXCEPT !.reader = next]
    BY <1>1, <1>6 DEF CacheShapes
  <2> HIDE DEF next
  <2> QED BY <1>1, <1>2, <2>2, <2>3, <2>4, <2>5, ReadingKeeps
<1> QED BY <1>3, <1>4, <1>5, <1>6

---------------------------------------------------------------------------
\* s with other files, and another write.
Put(s, meta, body, write) == [s EXCEPT !.meta = meta, !.body = body, !.write = write]

LEMMA PutIs ==
  ASSUME NEW s \in CacheShapes, NEW meta \in [Hashes -> {None} \cup Records],
         NEW body \in [Hashes -> {None} \cup Seq(Answers)], NEW write \in {None} \cup Writes
  PROVE  LET t == Put(s, meta, body, write)
         IN  /\ t \in CacheShapes /\ t.meta = meta /\ t.body = body /\ t.write = write
             /\ t.reader = s.reader /\ t.now = s.now /\ t.version = s.version /\ t.stale = s.stale
BY DEF Put, CacheShapes

LEMMA WriteIs ==
  ASSUME AddressesAreHashed, NEW s \in CacheShapes, s.write # None
  PROVE  /\ s.write \in Writes /\ s.write.hash \in Hashes /\ s.write.open \in BOOLEAN /\ s.write.written \in Nat
         /\ s.write.record \in Records /\ s.write.record.size \in Nat /\ s.write.record.version \in Nat
         /\ s.meta \in [Hashes -> {None} \cup Records] /\ s.body \in [Hashes -> {None} \cup Seq(Answers)]
BY DEF CacheShapes, Writes, Records

LEMMA ResetIs ==
  ASSUME AddressesAreHashed, NEW s \in CacheShapes, s.write # None
  PROVE  LET t == Cache!Reset(s)
         IN  /\ t \in CacheShapes /\ Left(s, t)
             /\ t.write = [s.write EXCEPT !.open = FALSE, !.written = 0] /\ t.write # None /\ t.reader = s.reader
             /\ t.meta[s.write.hash] = None
             /\ \A g \in Hashes \ {s.write.hash} : t.meta[g] = s.meta[g] /\ t.body[g] = s.body[g]
<1> DEFINE write == [s.write EXCEPT !.open = FALSE, !.written = 0]
           closed == Put(s, s.meta, s.body, write)
           h == s.write.hash
           t == Cache!Reset(s)
<1>1. write \in Writes /\ h \in Hashes /\ write # None
  <2>1. s.write \in Writes /\ h \in Hashes /\ None \notin Writes
    BY WriteIs DEF AddressesAreHashed
  <2>2. write \in Writes
    BY <2>1 DEF Writes
  <2> QED BY <2>1, <2>2
<1> HIDE DEF write
<1>2. t = Cache!RemovePaths(closed, h)
  <2>1. [s EXCEPT !.write.open = FALSE, !.write.written = 0] = closed
    BY WriteIs DEF CacheShapes, Put, write, Writes
  <2> QED BY <2>1 DEF Cache!Reset
<1>3. /\ closed \in CacheShapes /\ closed.meta = s.meta /\ closed.body = s.body /\ closed.write = write
      /\ closed.reader = s.reader /\ closed.now = s.now /\ closed.version = s.version /\ closed.stale = s.stale
  BY <1>1, PutIs, WriteIs
<1> HIDE DEF closed, h, t
<1>4. /\ t \in CacheShapes /\ Left(closed, t) /\ t.write = write /\ t.reader = s.reader /\ t.meta[h] = None
      /\ \A g \in Hashes \ {h} : t.meta[g] = s.meta[g] /\ t.body[g] = s.body[g]
  BY <1>1, <1>2, <1>3, RemovePathsIs
<1>5. Left(s, t)
  BY <1>3, <1>4 DEF Left
<1> QED BY <1>1, <1>4, <1>5 DEF write, h, t

LEMMA NotKeptKeeps ==
  ASSUME AddressesAreHashed, NEW s \in CacheShapes, Vouched(s), s.write # None, s.reader = None
  PROVE  LET t == Cache!NotKept(s)
         IN  /\ Sound(t) /\ t.write = None
             /\ \A g \in Hashes \ {s.write.hash} : t.meta[g] = s.meta[g] /\ t.body[g] = s.body[g]
<1> DEFINE r == Cache!Reset(s)
           t == [r EXCEPT !.write = None]
           h == s.write.hash
<1>1. /\ r \in CacheShapes /\ Left(s, r) /\ r.reader = None
      /\ \A g \in Hashes \ {h} : r.meta[g] = s.meta[g] /\ r.body[g] = s.body[g]
  BY ResetIs
<1> HIDE DEF r
<1>2. /\ t \in CacheShapes /\ t.meta = r.meta /\ t.body = r.body /\ t.write = None /\ t.reader = None
      /\ t.now = r.now /\ t.version = r.version /\ t.stale = r.stale
  BY <1>1 DEF CacheShapes
<1> HIDE DEF t
<1>3. Left(s, t)
  BY <1>1, <1>2 DEF Left
<1>4. Sound(t)
  BY <1>2, <1>3, LeftKeeps
<1> QED BY <1>1, <1>2, <1>4 DEF Cache!NotKept, r, t

\* The file of a body that is to be written is opened, and its record is gone.
LEMMA OpenedKeeps ==
  ASSUME AddressesAreHashed, NEW s \in CacheShapes, Vouched(s), Named(s), s.write.written = 0
  PROVE  LET t == Cache!Opened(s)
         IN  Sound(t) /\ t.write # None /\ t.write.written = 0 /\ t.write.hash = s.write.hash
             /\ \A g \in Hashes \ {s.write.hash} : t.meta[g] = s.meta[g] /\ t.body[g] = s.body[g]
<1> DEFINE h == s.write.hash
           meta == [s.meta EXCEPT ![h] = None]
           body == [s.body EXCEPT ![h] = IF s.body[h] = None THEN <<>> ELSE s.body[h]]
           write == [s.write EXCEPT !.open = TRUE]
           t == Put(s, meta, body, write)
<1>1. /\ s.write \in Writes /\ h \in Hashes /\ s.write.record.size \in Nat /\ s.write # None /\ s.reader = None
      /\ s.meta \in [Hashes -> {None} \cup Records] /\ s.body \in [Hashes -> {None} \cup Seq(Answers)]
  BY WriteIs DEF Named
<1>2. Cache!Opened(s) = t
  BY <1>1 DEF Cache!Opened, Cache!RemoveMeta, Put, CacheShapes
<1>3. /\ write \in Writes /\ write # None /\ write.hash = h /\ write.record = s.write.record
      /\ write.written = 0 /\ write.open
  BY <1>1 DEF Writes, AddressesAreHashed
<1>4. /\ meta \in [Hashes -> {None} \cup Records] /\ meta[h] = None
      /\ \A g \in Hashes \ {h} : meta[g] = s.meta[g]
  BY <1>1
<1>5. /\ body \in [Hashes -> {None} \cup Seq(Answers)] /\ body[h] # None
      /\ \A g \in Hashes \ {h} : body[g] = s.body[g]
  <2>1. <<>> \in Seq(Answers) /\ <<>> # None
    <3>1. <<>> \in Seq(Answers)
      OBVIOUS
    <3>2. None \notin Seq(Answers)
      BY DEF AddressesAreHashed
    <3> QED BY <3>1, <3>2
  <2> DEFINE empty == <<>>
  <2> HIDE DEF empty
  <2> QED BY <1>1, <2>1 DEF empty
<1> HIDE DEF meta, body, write
<1>6. /\ t \in CacheShapes /\ t.meta = meta /\ t.body = body /\ t.write = write
      /\ t.reader = s.reader /\ t.now = s.now /\ t.version = s.version /\ t.stale = s.stale
  BY <1>3, <1>4, <1>5, PutIs
<1> HIDE DEF t
<1>7. Vouched(t)
  <2>1. ASSUME NEW g \in Hashes PROVE Vouches(t, g)
    <3>1. Vouches(s, g)
      BY DEF Vouched
    <3>2. CASE g = h
      BY <1>4, <1>6, <3>2 DEF Vouches, Cache!Decodes
    <3>3. CASE g # h
      BY <1>4, <1>5, <1>6, <3>1, <3>3 DEF Vouches
    <3> QED BY <3>2, <3>3
  <2> QED BY <1>6, <2>1 DEF Vouched
<1>8. Writing(t)
  <2>1. Named(t)
    BY <1>1, <1>3, <1>6 DEF Named
  <2>2. Written(t)
    BY <1>1, <1>3, <1>4, <1>5, <1>6 DEF Written
  <2> QED BY <2>1, <2>2 DEF Writing
<1>9. Reading(t)
  BY <1>1, <1>6 DEF Reading
<1>10. Sound(t) /\ t.write # None /\ t.write.written = 0 /\ t.write.hash = h
  BY <1>3, <1>6, <1>7, <1>8, <1>9 DEF Sound
<1> QED BY <1>2, <1>4, <1>5, <1>6, <1>10

\* One more step of a body is written.
LEMMA WrittenKeeps ==
  ASSUME AddressesAreHashed, NEW s, Sound(s), s.write # None, s.write.open, s.write.written < s.write.record.size
  PROVE  LET t == Cache!Written(s)
         IN  Sound(t) /\ t.write # None /\ t.write.written = s.write.written + 1 /\ t.meta = s.meta
<1> DEFINE h == s.write.hash
           record == s.write.record
           answer == <<record.url, record.version>>
           old == IF s.write.written = 0 THEN <<>> ELSE s.body[h]
           more == Append(old, answer)
           body == [s.body EXCEPT ![h] = more]
           write == [s.write EXCEPT !.written = s.write.written + 1]
           t == Put(s, s.meta, body, write)
<1>1. /\ s \in CacheShapes /\ s.write \in Writes /\ h \in Hashes /\ record \in Records
      /\ record.size \in Nat /\ record.version \in Nat /\ s.write.written \in Nat
      /\ s.meta \in [Hashes -> {None} \cup Records] /\ s.body \in [Hashes -> {None} \cup Seq(Answers)]
  BY WriteIs DEF Sound
<1>2. Named(s) /\ Written(s) /\ s.reader = None /\ record.url \in Urls
  BY DEF Sound, Writing, Named
<1>3. Cache!Written(s) = t
  BY <1>1 DEF Cache!Written, Cache!Response, Put, CacheShapes
<1>4. answer \in Answers
  BY <1>1, <1>2 DEF Answers
<1>5. /\ old \in Seq(Answers) /\ Len(old) = s.write.written /\ Of(old, record.url, record.version)
  <2>1. CASE s.write.written = 0
    BY <2>1, NothingIsOf
  <2>2. CASE s.write.written # 0
    BY <1>1, <1>2, <2>2 DEF Written
  <2> QED BY <2>1, <2>2
<1> HIDE DEF old, answer
<1>6. more \in Seq(Answers) /\ Len(more) = s.write.written + 1 /\ Of(more, record.url, record.version)
  <2>1. more \in Seq(Answers) /\ Len(more) = s.write.written + 1
    BY <1>4, <1>5
  <2>2. \A i \in DOMAIN more : more[i] = IF i \in DOMAIN old THEN old[i] ELSE answer
    BY <1>4, <1>5
  <2>3. Of(more, record.url, record.version)
    BY <1>5, <2>2 DEF Of, answer
  <2> QED BY <2>1, <2>3
<1>7. None \notin Seq(Answers) /\ None \notin Writes
  BY DEF AddressesAreHashed
<1>8. /\ write \in Writes /\ write # None /\ write.hash = h /\ write.record = record
      /\ write.written = s.write.written + 1 /\ write.open
  <2>1. /\ write \in Writes /\ write.hash = h /\ write.record = record
        /\ write.written = s.write.written + 1 /\ write.open
    BY <1>1 DEF Writes
  <2> QED BY <1>7, <2>1
<1> HIDE DEF more
<1>9. /\ body \in [Hashes -> {None} \cup Seq(Answers)] /\ body[h] = more /\ body[h] # None
      /\ \A g \in Hashes \ {h} : body[g] = s.body[g]
  BY <1>1, <1>6, <1>7
<1> HIDE DEF body, write
<1>10. /\ t \in CacheShapes /\ t.meta = s.meta /\ t.body = body /\ t.write = write
       /\ t.reader = s.reader /\ t.now = s.now /\ t.version = s.version /\ t.stale = s.stale
  BY <1>1, <1>8, <1>9, PutIs
<1> HIDE DEF t
<1>11. Vouched(t)
  <2>1. ASSUME NEW g \in Hashes PROVE Vouches(t, g)
    <3>1. Vouches(s, g)
      BY DEF Sound, Vouched
    <3>2. CASE g = h
      BY <1>2, <1>10, <3>2 DEF Vouches, Cache!Decodes, Written
    <3>3. CASE g # h
      BY <1>9, <1>10, <3>1, <3>3 DEF Vouches
    <3> QED BY <3>2, <3>3
  <2> QED BY <1>10, <2>1 DEF Sound, Vouched
<1>12. Named(t)
  BY <1>2, <1>8, <1>10 DEF Named
<1>13. Written(t)
  BY <1>1, <1>2, <1>6, <1>8, <1>9, <1>10 DEF Written
<1>14. Reading(t)
  BY <1>2, <1>10 DEF Reading
<1>15. Sound(t) /\ t.write # None /\ t.write.written = s.write.written + 1 /\ t.meta = s.meta
  BY <1>8, <1>10, <1>11, <1>12, <1>13, <1>14 DEF Sound, Writing
<1> QED BY <1>3, <1>15

\* The record of a body that is whole is written, and vouches for it.
LEMMA StoredKeeps ==
  ASSUME AddressesAreHashed, NEW s, Sound(s), s.write # None, s.write.open, ~(s.write.written < s.write.record.size)
  PROVE  LET t == Cache!Stored(s)
         IN  /\ Sound(t) /\ t.write = None
             /\ \A g \in Hashes \ {s.write.hash} : t.meta[g] = s.meta[g] /\ t.body[g] = s.body[g]
<1> DEFINE h == s.write.hash
           record == s.write.record
           meta == [s.meta EXCEPT ![h] = record]
           t == Put(s, meta, s.body, None)
<1>1. /\ s \in CacheShapes /\ s.write \in Writes /\ h \in Hashes /\ record \in Records
      /\ record.size \in Nat /\ record.version \in Nat /\ s.write.written \in Nat
      /\ s.meta \in [Hashes -> {None} \cup Records] /\ s.body \in [Hashes -> {None} \cup Seq(Answers)]
  BY WriteIs DEF Sound
<1>2. Named(s) /\ Written(s) /\ s.reader = None
  BY DEF Sound, Writing, Named
<1>3. Cache!Stored(s) = t
  BY <1>1 DEF Cache!Stored, Put, CacheShapes
<1>4. s.write.written = record.size
  BY <1>1, <1>2 DEF Written
<1>5. /\ meta \in [Hashes -> {None} \cup Records] /\ meta[h] = record
      /\ \A g \in Hashes \ {h} : meta[g] = s.meta[g]
  BY <1>1
<1> HIDE DEF meta
<1>6. /\ t \in CacheShapes /\ t.meta = meta /\ t.body = s.body /\ t.write = None
      /\ t.reader = s.reader /\ t.now = s.now /\ t.version = s.version /\ t.stale = s.stale
  BY <1>1, <1>5, PutIs
<1> HIDE DEF t
<1>7. s.body[h] # None /\ Len(s.body[h]) = record.size => Of(s.body[h], record.url, record.version)
  <2>1. CASE s.write.written # 0
    BY <1>2, <2>1 DEF Written
  <2>2. ASSUME s.write.written = 0, s.body[h] # None, Len(s.body[h]) = record.size
        PROVE  Of(s.body[h], record.url, record.version)
    <3>1. s.body[h] \in Seq(Answers) /\ Len(s.body[h]) = 0
      BY <1>1, <1>4, <2>2
    <3> QED BY <3>1 DEF Of
  <2> QED BY <2>1, <2>2
<1>8. Vouched(t)
  <2>1. ASSUME NEW g \in Hashes PROVE Vouches(t, g)
    <3>1. Vouches(s, g)
      BY DEF Sound, Vouched
    <3>2. CASE g = h
      BY <1>2, <1>5, <1>6, <1>7, <3>2 DEF Vouches, Named
    <3>3. CASE g # h
      BY <1>5, <1>6, <3>1, <3>3 DEF Vouches
    <3> QED BY <3>2, <3>3
  <2> QED BY <1>6, <2>1 DEF Sound, Vouched
<1>9. Sound(t)
  BY <1>2, <1>6, <1>8 DEF Sound, Writing, Reading
<1> QED BY <1>3, <1>5, <1>6, <1>9

---------------------------------------------------------------------------
\* What a purge takes: entries of other hashes that are there, and the whole ones among
\* them only when they have expired or were used longest ago.
LEMMA PurgedIs ==
  ASSUME NEW s, NEW hs \in SUBSET Hashes
  PROVE  /\ Cache!Purged(s, hs) \subseteq Cache!Whole(s, hs)
         /\ \A h \in Cache!Purged(s, hs) :
              \/ s.meta[h].expires <= s.now
              \/ \A g \in Cache!Whole(s, hs) : s.meta[h].used <= s.meta[g].used
BY DEF Cache!Purged

LEMMA NoneAreCounted == Cache!Cardinality({}) = 0
BY FS_EmptySet DEF Cardinality, Cache!Cardinality

LEMMA PurgeIs ==
  ASSUME AddressesAreHashed, NEW s, Sound(s), s.write # None, ~s.write.open
  PROVE  LET t == Cache!PurgeForSpace(s).after
         IN  /\ Sound(t) /\ t.write = s.write /\ t.reader = None /\ t \in CacheShapes
             /\ Cache!PurgeForSpace(s).removed # 0 =>
                  \E h \in Hashes \ {s.write.hash} :
                     \/ s.body[h] # None /\ t.body[h] = None
                     \/ s.meta[h] # None /\ t.meta[h] = None
             /\ \A g, h \in Hashes \ {s.write.hash} :
                  /\ Cache!Decodes(s.meta[g]) /\ Cache!Decodes(s.meta[h])
                  /\ s.body[g] # None /\ s.body[h] # None
                  /\ t.meta[h] = None /\ s.meta[h].expires > s.now
                  => s.meta[h].used <= s.meta[g].used
<1> DEFINE hs == Hashes \ {s.write.hash}
           gone == Cache!Purged(s, hs) \cup Cache!Stray(s, hs) \cup Cache!Broken(s, hs)
           t == Cache!RemoveAll(s, gone)
<1>1. Cache!PurgeForSpace(s) = [after |-> t, removed |-> Cache!Cardinality(gone)]
  BY DEF Cache!PurgeForSpace
<1>2. s \in CacheShapes /\ Named(s) /\ Written(s) /\ s.reader = None /\ s.write \in Writes /\ s.write.hash \in Hashes
  BY WriteIs DEF Sound, Writing, Named
<1>3. Cache!Whole(s, hs) \subseteq hs /\ Cache!Stray(s, hs) \subseteq hs /\ Cache!Broken(s, hs) \subseteq hs
  BY DEF Cache!Whole, Cache!Stray, Cache!Broken
<1>4. gone \subseteq hs /\ gone \subseteq Hashes
  BY <1>3, PurgedIs
<1>5. /\ t \in CacheShapes /\ Left(s, t) /\ t.write = s.write /\ t.reader = s.reader
      /\ \A h \in gone : t.meta[h] = None /\ (~Cache!Open(s, h) => t.body[h] = None)
      /\ \A h \in Hashes \ gone : t.meta[h] = s.meta[h] /\ t.body[h] = s.body[h]
  <2> HIDE DEF gone
  <2> QED BY <1>2, <1>4, RemoveAllIs
<1>6. \A h \in Hashes : ~Cache!Open(s, h)
  BY <1>2 DEF Cache!Open
<1>7. \A h \in gone : s.body[h] # None \/ s.meta[h] # None
  BY PurgedIs DEF Cache!Whole, Cache!Stray, Cache!Broken
<1>8. \A g, h \in hs :
         /\ Cache!Decodes(s.meta[g]) /\ Cache!Decodes(s.meta[h])
         /\ s.body[g] # None /\ s.body[h] # None
         /\ h \in gone /\ s.meta[h].expires > s.now
         => s.meta[h].used <= s.meta[g].used
  <2> SUFFICES ASSUME NEW g \in hs, NEW h \in hs, Cache!Decodes(s.meta[g]), Cache!Decodes(s.meta[h]),
                      s.body[g] # None, s.body[h] # None, h \in gone, s.meta[h].expires > s.now
               PROVE  s.meta[h].used <= s.meta[g].used
    OBVIOUS
  <2>1. h \in Cache!Purged(s, hs)
    BY DEF Cache!Stray, Cache!Broken, Cache!Decodes
  <2>2. g \in Cache!Whole(s, hs)
    BY DEF Cache!Whole
  <2>3. s.meta[h].expires \in Int /\ s.now \in Nat
    BY <1>2 DEF CacheShapes, Records, Cache!Decodes
  <2> HIDE DEF hs
  <2> QED BY <2>1, <2>2, <2>3, PurgedIs DEF hs
<1>9. Cache!Cardinality(gone) # 0 => gone # {}
  BY NoneAreCounted
<1> HIDE DEF hs, gone, t
<1>10. Sound(t)
  <2>1. Vouched(t)
    BY <1>5, LeftVouches DEF Sound
  <2>2. Named(t)
    BY <1>2, <1>5 DEF Named, Left
  <2>3. Written(t)
    BY <1>2, <1>4, <1>5 DEF Written, hs
  <2>4. Reading(t)
    BY <1>2, <1>5 DEF Reading
  <2> QED BY <1>5, <2>1, <2>2, <2>3, <2>4 DEF Sound, Writing
<1>11. Cache!Cardinality(gone) # 0 =>
         \E h \in hs : \/ s.body[h] # None /\ t.body[h] = None
                       \/ s.meta[h] # None /\ t.meta[h] = None
  BY <1>4, <1>5, <1>6, <1>7, <1>9
<1>12. \A h \in hs : t.meta[h] = None /\ Cache!Decodes(s.meta[h]) => h \in gone
  BY <1>5 DEF hs, Cache!Decodes
<1> QED BY <1>1, <1>2, <1>5, <1>8, <1>10, <1>11, <1>12 DEF hs

LEMMA NoSpaceIs ==
  ASSUME AddressesAreHashed, NEW s, Sound(s), s.write # None
  PROVE  LET t == Cache!NoSpace(s)
         IN  /\ Sound(t)
             /\ t.write # None =>
                  \E h \in Hashes \ {s.write.hash} :
                     \/ s.body[h] # None /\ t.body[h] = None
                     \/ s.meta[h] # None /\ t.meta[h] = None
             /\ \A g, h \in Hashes \ {s.write.hash} :
                  /\ Cache!Decodes(s.meta[g]) /\ Cache!Decodes(s.meta[h])
                  /\ s.body[g] # None /\ s.body[h] # None
                  /\ t.meta[h] = None /\ s.meta[h].expires > s.now
                  => s.meta[h].used <= s.meta[g].used
<1> DEFINE r == Cache!Reset(s)
           u == Cache!PurgeForSpace(r).after
           removed == Cache!PurgeForSpace(r).removed
           gone == [u EXCEPT !.write = None]
           t == Cache!NoSpace(s)
<1>1. s \in CacheShapes /\ Named(s) /\ Written(s) /\ s.reader = None /\ s.write \in Writes
  BY WriteIs DEF Sound, Writing, Named
<1>2. /\ r \in CacheShapes /\ Left(s, r) /\ r.write = [s.write EXCEPT !.open = FALSE, !.written = 0]
      /\ r.write # None /\ r.reader = None /\ r.meta[s.write.hash] = None
      /\ \A g \in Hashes \ {s.write.hash} : r.meta[g] = s.meta[g] /\ r.body[g] = s.body[g]
  BY <1>1, ResetIs
<1>3. /\ r.write.hash = s.write.hash /\ r.write.record = s.write.record /\ ~r.write.open /\ r.write.written = 0
      /\ r.now = s.now
  BY <1>1, <1>2 DEF Writes, Left
<1> HIDE DEF r
<1>4. Sound(r)
  <2>1. Vouched(r) /\ Reading(r)
    BY <1>2, LeftVouches DEF Sound, Reading
  <2>2. Named(r)
    BY <1>1, <1>2, <1>3 DEF Named, Left
  <2>3. Written(r)
    BY <1>1, <1>2, <1>3 DEF Written, Writes, Records
  <2> QED BY <1>2, <2>1, <2>2, <2>3 DEF Sound, Writing
<1>5. /\ Sound(u) /\ u.write = r.write /\ u.reader = None /\ u \in CacheShapes
      /\ removed # 0 =>
           \E h \in Hashes \ {s.write.hash} :
              \/ s.body[h] # None /\ u.body[h] = None
              \/ s.meta[h] # None /\ u.meta[h] = None
      /\ \A g, h \in Hashes \ {s.write.hash} :
           /\ Cache!Decodes(s.meta[g]) /\ Cache!Decodes(s.meta[h])
           /\ s.body[g] # None /\ s.body[h] # None
           /\ u.meta[h] = None /\ s.meta[h].expires > s.now
           => s.meta[h].used <= s.meta[g].used
  <2>1. /\ Sound(u) /\ u.write = r.write /\ u.reader = None /\ u \in CacheShapes
        /\ removed # 0 =>
             \E h \in Hashes \ {r.write.hash} :
                \/ r.body[h] # None /\ u.body[h] = None
                \/ r.meta[h] # None /\ u.meta[h] = None
        /\ \A g, h \in Hashes \ {r.write.hash} :
             /\ Cache!Decodes(r.meta[g]) /\ Cache!Decodes(r.meta[h])
             /\ r.body[g] # None /\ r.body[h] # None
             /\ u.meta[h] = None /\ r.meta[h].expires > r.now
             => r.meta[h].used <= r.meta[g].used
    BY <1>2, <1>3, <1>4, PurgeIs
  <2> HIDE DEF u, removed
  <2> QED BY <1>2, <1>3, <2>1
<1>6. t = IF removed = 0 THEN gone ELSE u
  BY DEF Cache!NoSpace, r
<1> HIDE DEF u, removed
<1>7. /\ gone \in CacheShapes /\ gone.meta = u.meta /\ gone.body = u.body /\ gone.write = None /\ gone.reader = None
      /\ gone.now = u.now /\ gone.version = u.version /\ gone.stale = u.stale
  BY <1>5 DEF CacheShapes
<1> HIDE DEF gone, t
<1>8. Sound(gone)
  <2>1. Left(u, gone)
    BY <1>7 DEF Left
  <2> QED BY <1>5, <1>7, <2>1, LeftKeeps DEF Sound
<1>9. t.meta = u.meta /\ (t.write # None => removed # 0 /\ t.body = u.body) /\ Sound(t)
  BY <1>5, <1>6, <1>7, <1>8
<1> QED BY <1>5, <1>9 DEF t

---------------------------------------------------------------------------
LEMMA KeepKeeps ==
  ASSUME AddressesAreHashed, Sound(cache), NEW url \in Urls, Cache!Keep(url)
  PROVE  Sound(cache')
<1>1. PICK response \in Responses :
        LET write == [hash |-> HashOf[url], open |-> FALSE, written |-> 0,
                      record |-> [url |-> url, version |-> cache.version + 1, size |-> response.size,
                                  stored |-> cache.now, used |-> cache.now,
                                  expires |-> cache.now + response.lifetime,
                                  revalidate |-> response.revalidate]]
            begun == [cache EXCEPT !.version = @ + 1, !.write = write]
        IN  cache' \in {Cache!Opened(begun), Cache!NotKept(begun)}
  BY DEF Cache!Keep
<1> DEFINE record == [url |-> url, version |-> cache.version + 1, size |-> response.size,
                      stored |-> cache.now, used |-> cache.now, expires |-> cache.now + response.lifetime,
                      revalidate |-> response.revalidate]
           write == [hash |-> HashOf[url], open |-> FALSE, written |-> 0, record |-> record]
           begun == [cache EXCEPT !.version = cache.version + 1, !.write = write]
<1>2. cache.reader = None /\ cache.write = None /\ cache \in CacheShapes /\ cache.now \in Nat /\ cache.version \in Nat
  BY DEF Cache!Keep, Sound, CacheShapes
<1>3. HashOf[url] \in Hashes /\ response.size \in Nat /\ response.lifetime \in Nat /\ response.revalidate \in BOOLEAN
      /\ None \notin Writes
  BY DEF AddressesAreHashed
<1>4. record \in Records /\ record.url = url /\ record.version = cache.version + 1
  BY <1>2, <1>3 DEF Records
<1> HIDE DEF record
<1>5. /\ write \in Writes /\ write.hash = HashOf[url] /\ write.written = 0 /\ write.record = record
      /\ write # None
  <2>1. write \in Writes /\ write.hash = HashOf[url] /\ write.written = 0 /\ write.record = record
    BY <1>3, <1>4 DEF Writes
  <2> QED BY <1>3, <2>1
<1>6. cache' \in {Cache!Opened(begun), Cache!NotKept(begun)}
  BY <1>1, <1>2 DEF record, CacheShapes
<1> HIDE DEF write
<1>7. /\ begun \in CacheShapes /\ begun.meta = cache.meta /\ begun.body = cache.body /\ begun.write = write
      /\ begun.reader = None /\ begun.version = cache.version + 1 /\ begun.stale = cache.stale
  <2> DEFINE next == cache.version + 1
  <2>1. next \in Nat
    BY <1>2
  <2> HIDE DEF next
  <2>2. begun = [cache EXCEPT !.version = next, !.write = write]
    BY DEF next
  <2> HIDE DEF begun
  <2> QED BY <1>2, <1>5, <2>1, <2>2 DEF CacheShapes, next
<1> HIDE DEF begun
<1>8. \A u \in Urls : cache.stale[u] \in Nat /\ cache.stale[u] <= cache.version
  BY <1>2 DEF CacheShapes, Sound, Vouched
<1>9. Vouched(begun)
  <2>1. ASSUME NEW h \in Hashes PROVE Vouches(begun, h)
    <3>1. Vouches(cache, h)
      BY DEF Sound, Vouched
    <3>2. Cache!Decodes(cache.meta[h]) => cache.meta[h].version \in Nat
      BY <1>2 DEF CacheShapes, Records, Cache!Decodes
    <3> QED BY <1>2, <1>7, <3>1, <3>2 DEF Vouches
  <2> QED BY <1>2, <1>7, <1>8, <2>1 DEF Vouched
<1>10. Named(begun)
  BY <1>2, <1>4, <1>5, <1>7, <1>8 DEF Named
<1> QED BY <1>5, <1>6, <1>7, <1>9, <1>10, OpenedKeeps, NotKeptKeeps

LEMMA ForgetKeeps ==
  ASSUME AddressesAreHashed, Sound(cache), NEW url \in Urls, Cache!Forget(url)
  PROVE  Sound(cache')
BY EntryGoes DEF Cache!Forget, AddressesAreHashed

LEMMA StepWriteIs ==
  ASSUME AddressesAreHashed, Sound(cache), Cache!StepWrite
  PROVE  /\ cache.write # None
         /\ \/ cache' = Cache!NotKept(cache)
            \/ cache' = Cache!Opened(cache) /\ ~cache.write.open
            \/ cache' = Cache!Written(cache) /\ cache.write.open /\ cache.write.written < cache.write.record.size
            \/ cache' = Cache!Stored(cache) /\ cache.write.open /\ ~(cache.write.written < cache.write.record.size)
            \/ cache' = Cache!NoSpace(cache)
BY DEF Cache!StepWrite, Cache!WriteSteps

LEMMA StepWriteKeeps ==
  ASSUME AddressesAreHashed, Sound(cache), Cache!StepWrite
  PROVE  Sound(cache')
<1>1. cache.write # None /\ cache \in CacheShapes /\ Vouched(cache) /\ Named(cache) /\ Written(cache) /\ cache.reader = None
  BY StepWriteIs DEF Sound, Writing, Named
<1>2. CASE cache' = Cache!NotKept(cache)
  BY <1>1, <1>2, NotKeptKeeps
<1>3. CASE cache' = Cache!Opened(cache) /\ ~cache.write.open
  BY <1>1, <1>3, OpenedKeeps DEF Written
<1>4. CASE cache' = Cache!Written(cache) /\ cache.write.open /\ cache.write.written < cache.write.record.size
  BY <1>1, <1>4, WrittenKeeps
<1>5. CASE cache' = Cache!Stored(cache) /\ cache.write.open /\ ~(cache.write.written < cache.write.record.size)
  BY <1>1, <1>5, StoredKeeps
<1>6. CASE cache' = Cache!NoSpace(cache)
  BY <1>1, <1>6, NoSpaceIs
<1> QED BY <1>2, <1>3, <1>4, <1>5, <1>6, StepWriteIs

LEMMA SuspendKeeps ==
  ASSUME AddressesAreHashed, Sound(cache), Cache!Suspend
  PROVE  Sound(cache')
<1> DEFINE s == Cache!Abandoned(cache)
           t == [s EXCEPT !.write = None]
<1>1. Sound(s) /\ s.reader = None /\ s \in CacheShapes
  BY AbandonedKeeps
<1>2. cache' = t
  BY DEF Cache!Suspend
<1> HIDE DEF s
<1>3. /\ t \in CacheShapes /\ t.meta = s.meta /\ t.body = s.body /\ t.write = None /\ t.reader = None
      /\ t.now = s.now /\ t.version = s.version /\ t.stale = s.stale
  BY <1>1 DEF CacheShapes
<1> HIDE DEF t
<1>4. Left(s, t)
  BY <1>3 DEF Left
<1> QED BY <1>1, <1>2, <1>3, <1>4, LeftKeeps DEF Sound

\* What a POST changed: its entry and a write for it are gone, so nothing older is left.
LEMMA InvalidateIs ==
  ASSUME AddressesAreHashed, Sound(cache), NEW url \in Urls, Cache!Invalidate(url)
  PROVE  /\ Sound(cache')
         /\ cache'.stale[url] = cache.version
         /\ cache'.write = None \/ cache'.write = cache.write
         /\ \A g \in Hashes : g # HashOf[url] => cache'.meta[g] = cache.meta[g]
<1> DEFINE h == HashOf[url]
           s == IF Cache!IsFor(cache, url) THEN [cache EXCEPT !.write = None] ELSE cache
           r == Cache!RemovePaths(s, h)
           stale == [cache.stale EXCEPT ![url] = cache.version]
           t == [r EXCEPT !.stale = stale]
<1>1. h \in Hashes /\ cache \in CacheShapes /\ cache.version \in Nat /\ cache.stale \in [Urls -> Nat]
  BY DEF AddressesAreHashed, Sound, CacheShapes
<1>2. /\ s \in CacheShapes /\ s.meta = cache.meta /\ s.body = cache.body /\ s.reader = cache.reader
      /\ s.version = cache.version /\ s.stale = cache.stale
      /\ s.write = None \/ (s.write = cache.write /\ s.write.hash # h)
  BY <1>1 DEF CacheShapes, Cache!IsFor
<1>3. cache' = [r EXCEPT !.stale[url] = cache.version]
  BY DEF Cache!Invalidate
<1> HIDE DEF s
<1>4. /\ r \in CacheShapes /\ Left(s, r) /\ r.write = s.write /\ r.reader = s.reader /\ r.meta[h] = None
      /\ Cache!Open(s, h) => r.body[h] = s.body[h]
      /\ \A g \in Hashes \ {h} : r.meta[g] = s.meta[g] /\ r.body[g] = s.body[g]
  BY <1>1, <1>2, RemovePathsIs
<1> HIDE DEF r
<1>5. /\ stale \in [Urls -> Nat] /\ stale[url] = cache.version
      /\ \A u \in Urls \ {url} : stale[u] = cache.stale[u]
  BY <1>1
<1>6. r.stale = cache.stale /\ r.version = cache.version
  BY <1>2, <1>4 DEF Left
<1>7. cache' = t
  BY <1>3, <1>4, <1>6 DEF CacheShapes
<1> HIDE DEF stale
<1>8. /\ t \in CacheShapes /\ t.meta = r.meta /\ t.body = r.body /\ t.write = r.write /\ t.reader = r.reader
      /\ t.version = cache.version /\ t.stale = stale
  BY <1>4, <1>5, <1>6 DEF CacheShapes
<1> HIDE DEF t, h
<1>9. Vouched(t)
  <2>1. ASSUME NEW g \in Hashes PROVE Vouches(t, g)
    <3>1. Vouches(cache, g)
      BY DEF Sound, Vouched
    <3>2. CASE g = h
      BY <1>4, <1>8, <3>2 DEF Vouches, Cache!Decodes
    <3>3. CASE g # h
      <4>1. \A u \in Urls : HashOf[u] = g => stale[u] = cache.stale[u]
        BY <1>5, <3>3 DEF h
      <4> QED BY <1>2, <1>4, <1>8, <3>1, <3>3, <4>1 DEF Vouches
    <3> QED BY <3>2, <3>3
  <2>2. ASSUME NEW u \in Urls PROVE stale[u] <= cache.version
    <3>1. cache.stale[u] <= cache.version
      BY DEF Sound, Vouched
    <3>2. CASE u = url
      BY <1>1, <1>5, <3>2
    <3>3. CASE u # url
      BY <1>5, <3>1, <3>3
    <3> QED BY <3>2, <3>3
  <2> QED BY <1>8, <2>1, <2>2 DEF Vouched
<1>10. Writing(t)
  <2> SUFFICES ASSUME t.write # None PROVE Named(t) /\ Written(t)
    BY DEF Writing
  <2>1. t.write = cache.write /\ t.write.hash # h /\ Named(cache) /\ Written(cache) /\ cache.write # None
    BY <1>2, <1>4, <1>8 DEF Sound, Writing
  <2>2. t.write.hash \in Hashes
    BY <1>1, <2>1, WriteIs
  <2>3. \A u \in Urls : HashOf[u] = t.write.hash => stale[u] = cache.stale[u]
    BY <1>5, <2>1 DEF h
  <2>4. Named(t)
    BY <1>2, <1>4, <1>8, <2>1, <2>3 DEF Named
  <2>5. Written(t)
    BY <1>2, <1>4, <1>8, <2>1, <2>2 DEF Written
  <2> QED BY <2>4, <2>5
<1>11. Reading(t)
  <2> SUFFICES ASSUME t.reader # None PROVE Reading(t)
    BY DEF Reading
  <2>1. t.reader = cache.reader /\ cache.reader # None /\ cache.write = None /\ s.write = None /\ t.write = None
    BY <1>2, <1>4, <1>8 DEF Sound, Reading
  <2>2. cache.reader.hash \in Hashes
    BY <1>1, <2>1 DEF CacheShapes, Readers
  <2>3. t.body[cache.reader.hash] = cache.body[cache.reader.hash]
    BY <1>2, <1>4, <1>8, <2>1, <2>2 DEF Cache!Open
  <2> QED BY <2>1, <2>3 DEF Sound, Reading
<1>12. Sound(t)
  BY <1>8, <1>9, <1>10, <1>11 DEF Sound
<1> QED BY <1>2, <1>4, <1>5, <1>7, <1>8, <1>12 DEF h

LEMMA SweepKeeps ==
  ASSUME AddressesAreHashed, Sound(cache), Cache!Sweep
  PROVE  Sound(cache')
<1>1. cache.write = None /\ cache.reader = None /\ cache \in CacheShapes /\ cache.now + 1 \in Nat
  BY DEF Cache!Sweep, Sound, CacheShapes
<1>2. CASE cache.sweep = None
  <2> DEFINE t == [cache EXCEPT !.sweep = 0]
  <2>1. cache' = t
    BY <1>2 DEF Cache!Sweep
  <2>2. /\ t \in CacheShapes /\ t.meta = cache.meta /\ t.body = cache.body /\ t.write = cache.write
        /\ t.reader = cache.reader /\ t.version = cache.version /\ t.stale = cache.stale
    BY <1>1 DEF CacheShapes
  <2> QED BY <2>1, <2>2, SameKeeps
<1>3. CASE cache.sweep # None
  <2> DEFINE hs == Cache!InBucket(cache.sweep, None)
             gone == {h \in Cache!Whole(cache, hs) : cache.meta[h].expires <= cache.now}
                     \cup Cache!Stray(cache, hs) \cup Cache!Broken(cache, hs)
             r == Cache!RemoveAll(cache, gone)
  <2>1. gone \subseteq Hashes
    BY DEF Cache!InBucket, Cache!Whole, Cache!Stray, Cache!Broken
  <2>2. PICK sweep \in {None} \cup Nat, nextSweep \in Nat : cache' = [r EXCEPT !.sweep = sweep, !.nextSweep = nextSweep]
    <3> DEFINE last == cache.sweep + 1 = Cache!Cardinality(Cache!Buckets)
    <3>1. /\ r \in CacheShapes /\ r.sweep = cache.sweep /\ r.nextSweep = cache.nextSweep
      <4> HIDE DEF gone
      <4> QED BY <1>1, <2>1, RemoveAllIs
    <3>2. cache' = [r EXCEPT !.sweep = IF last THEN None ELSE cache.sweep + 1,
                             !.nextSweep = IF last THEN cache.now + 1 ELSE cache.nextSweep]
      <4>1. cache' = [r EXCEPT !.sweep = IF last THEN None ELSE @ + 1,
                               !.nextSweep = IF last THEN cache.now + 1 ELSE @]
        BY <1>3 DEF Cache!Sweep
      <4> HIDE DEF r, last
      <4> QED BY <3>1, <4>1
    <3>3. cache.sweep + 1 \in Nat /\ cache.nextSweep \in Nat
      BY <1>1, <1>3 DEF CacheShapes
    <3> HIDE DEF r, last
    <3> QED BY <1>1, <3>2, <3>3
  <2> HIDE DEF gone
  <2>3. r \in CacheShapes /\ Left(cache, r) /\ r.write = None /\ r.reader = None
    BY <1>1, <2>1, RemoveAllIs
  <2> HIDE DEF r
  <2>4. Sound(r)
    BY <2>3, LeftKeeps DEF Sound
  <2> DEFINE t == [r EXCEPT !.sweep = sweep, !.nextSweep = nextSweep]
  <2>5. /\ t \in CacheShapes /\ t.meta = r.meta /\ t.body = r.body /\ t.write = r.write
        /\ t.reader = r.reader /\ t.version = r.version /\ t.stale = r.stale
    BY <2>3 DEF CacheShapes
  <2> HIDE DEF t
  <2>6. Sound(t)
    BY <2>4, <2>5, SameKeeps
  <2> QED BY <2>2, <2>6 DEF t
<1> QED BY <1>2, <1>3

LEMMA TickKeeps ==
  ASSUME Sound(cache), Cache!Tick
  PROVE  Sound(cache')
<1> DEFINE t == [cache EXCEPT !.now = cache.now + 1]
<1>1. cache' = t
  BY DEF Cache!Tick, Sound, CacheShapes
<1>2. /\ t \in CacheShapes /\ t.meta = cache.meta /\ t.body = cache.body /\ t.write = cache.write
      /\ t.reader = cache.reader /\ t.version = cache.version /\ t.stale = cache.stale
  BY DEF Sound, CacheShapes
<1> QED BY <1>1, <1>2, SameKeeps

LEMMA CacheStep ==
  ASSUME AddressesAreHashed, Sound(cache), [Cache!Next]_cache
  PROVE  Sound(cache)'
<1>1. CASE UNCHANGED cache
  BY <1>1
<1>2. ASSUME NEW url \in Urls, Cache!Use(url) \/ Cache!NotModified(url) \/ Cache!Keep(url) \/ Cache!Forget(url)
                                \/ Cache!Invalidate(url)
      PROVE  Sound(cache')
  BY <1>2, UseKeeps, NotModifiedKeeps, KeepKeeps, ForgetKeeps, InvalidateIs
<1>3. CASE Cache!StepRead \/ Cache!Suspend \/ Cache!StepWrite \/ Cache!Sweep \/ Cache!Tick
  BY <1>3, StepReadKeeps, SuspendKeeps, StepWriteKeeps, SweepKeeps, TickKeeps
<1> QED BY <1>1, <1>2, <1>3 DEF Cache!Next

LEMMA CacheInductive ==
  ASSUME AddressesAreHashed PROVE Cache!Init /\ [][Cache!Next]_cache => []Sound(cache)
<1>1. Cache!Init => Sound(cache)
  BY CacheBegins
<1>2. Sound(cache) /\ [Cache!Next]_cache => Sound(cache)'
  BY CacheStep
<1> QED BY <1>1, <1>2, PTL

\* A record on the volume is of its hash, and a body of its size beside it is its own from
\* end to end, whatever was given up, replaced, purged or ran out of space half way
\* (browser/src/cache.rs).
THEOREM RecordsVouchForTheirBodies ==
  ASSUME AddressesAreHashed
  PROVE  Cache!Init /\ [][Cache!Next]_cache => [](Cache!TypeOK /\ Cache!RecordVouches)
<1>1. Sound(cache) => Cache!TypeOK /\ Cache!RecordVouches
  <2> SUFFICES ASSUME Sound(cache) PROVE Cache!TypeOK /\ Cache!RecordVouches
    OBVIOUS
  <2>1. \A h \in Hashes : Vouches(cache, h)
    BY DEF Sound, Vouched
  <2>2. Cache!TypeOK
    BY <2>1 DEF Cache!TypeOK, Vouches, Sound, Writing, Written
  <2>3. Cache!RecordVouches
    BY <2>1 DEF Cache!RecordVouches, Vouches, Of, Cache!Response
  <2> QED BY <2>2, <2>3
<1> QED BY <1>1, CacheInductive, PTL

\* What is read back is one answer of its own address from end to end, and what is found
\* of an address is newer than what was last posted to it.
THEOREM WhatIsShownIsCurrent ==
  ASSUME AddressesAreHashed
  PROVE  Cache!Init /\ [][Cache!Next]_cache => [](Cache!ShownIsOneResponse /\ Cache!NothingStaleIsFound)
<1>1. Sound(cache) => Cache!ShownIsOneResponse
  BY DEF Sound, Reading, Of, Cache!ShownIsOneResponse
<1>2. Sound(cache) => Cache!NothingStaleIsFound
  <2> SUFFICES ASSUME Sound(cache), NEW url \in Urls, Cache!Find(cache, url) # None
               PROVE  Cache!Find(cache, url).version > cache.stale[url]
    BY DEF Cache!NothingStaleIsFound
  <2>1. HashOf[url] \in Hashes /\ Cache!Find(cache, url) = cache.meta[HashOf[url]] /\ Cache!Decodes(cache.meta[HashOf[url]])
    BY FoundIs DEF Sound
  <2> QED BY <2>1 DEF Sound, Vouched, Vouches
<1> QED BY <1>1, <1>2, CacheInductive, PTL

---------------------------------------------------------------------------
\* While a body is being written: nobody reads, so this is what a step may be.
LEMMA StepsOfAWrite ==
  ASSUME AddressesAreHashed, Sound(cache), cache.write # None, [Cache!Next]_cache
  PROVE  \/ cache'.meta = cache.meta /\ (cache'.write = None \/ cache'.write = cache.write)
         \/ Cache!StepWrite
         \/ \E url \in Urls : Cache!Invalidate(url)
<1>1. cache.reader = None /\ cache \in CacheShapes
  BY DEF Sound, Writing, Named
<1>2. CASE Cache!Suspend
  <2> DEFINE s == Cache!Abandoned(cache)
  <2>1. s \in CacheShapes /\ s.meta = cache.meta
    BY AbandonedKeeps
  <2>2. cache' = [s EXCEPT !.write = None]
    BY <1>2 DEF Cache!Suspend
  <2> HIDE DEF s
  <2> QED BY <2>1, <2>2 DEF CacheShapes
<1>3. CASE Cache!Tick
  BY <1>1, <1>3 DEF Cache!Tick, CacheShapes
<1> QED BY <1>1, <1>2, <1>3 DEF Cache!Next, Cache!Use, Cache!NotModified, Cache!Keep, Cache!Forget, Cache!StepRead, Cache!Sweep

\* What a write for want of space takes of the whole entries is what has expired, or what
\* was used longest ago (`PurgeForSpace`).
LEMMA StepPurges ==
  ASSUME AddressesAreHashed, Sound(cache), cache.write # None, [Cache!Next]_cache,
         NEW g \in Hashes \ {cache.write.hash}, NEW h \in Hashes \ {cache.write.hash},
         Cache!Decodes(cache.meta[g]), Cache!Decodes(cache.meta[h]),
         cache.body[g] # None, cache.body[h] # None,
         cache'.meta[h] = None, cache.meta[h].expires > cache.now, cache'.stale = cache.stale
  PROVE  cache.meta[h].used <= cache.meta[g].used
<1>1. cache \in CacheShapes /\ Vouched(cache) /\ Named(cache) /\ Written(cache) /\ cache.reader = None
      /\ cache.meta[h] # None
  BY DEF Sound, Writing, Named, Cache!Decodes
<1>2. CASE Cache!StepWrite
  <2>1. CASE cache' = Cache!NotKept(cache)
    BY <1>1, <2>1, NotKeptKeeps
  <2>2. CASE cache' = Cache!Opened(cache) /\ ~cache.write.open
    BY <1>1, <2>2, OpenedKeeps DEF Written
  <2>3. CASE cache' = Cache!Written(cache) /\ cache.write.open /\ cache.write.written < cache.write.record.size
    BY <1>1, <2>3, WrittenKeeps
  <2>4. CASE cache' = Cache!Stored(cache) /\ cache.write.open /\ ~(cache.write.written < cache.write.record.size)
    BY <1>1, <2>4, StoredKeeps
  <2>5. CASE cache' = Cache!NoSpace(cache)
    BY <1>1, <2>5, NoSpaceIs
  <2> QED BY <1>2, <2>1, <2>2, <2>3, <2>4, <2>5, StepWriteIs
<1>3. ASSUME NEW url \in Urls, Cache!Invalidate(url)
      PROVE  FALSE
  <2>1. /\ cache'.stale[url] = cache.version
        /\ \A k \in Hashes : k # HashOf[url] => cache'.meta[k] = cache.meta[k]
    BY <1>3, InvalidateIs
  <2>2. HashOf[url] = h
    BY <1>1, <2>1
  <2>3. Vouches(cache, h)
    BY <1>1 DEF Vouched
  <2>4. cache.meta[h].version <= cache.version /\ cache.meta[h].version > cache.stale[url]
    BY <2>2, <2>3 DEF Vouches
  <2>5. cache.meta[h].version \in Nat /\ cache.version \in Nat
    BY <1>1 DEF CacheShapes, Records, Cache!Decodes
  <2> QED BY <2>1, <2>4, <2>5
<1> QED BY <1>1, <1>2, <1>3, StepsOfAWrite

\* Space is made of what has expired and then of what was used longest ago.
THEOREM OldestGoFirst ==
  ASSUME AddressesAreHashed
  PROVE  Cache!Init /\ [][Cache!Next]_cache => Cache!PurgeTakesTheOldest
<1>1. Sound(cache) /\ [Cache!Next]_cache =>
        [cache.write # None =>
           \A g, h \in Hashes \ {cache.write.hash} :
              /\ Cache!Decodes(cache.meta[g]) /\ Cache!Decodes(cache.meta[h])
              /\ cache.body[g] # None /\ cache.body[h] # None
              /\ cache'.meta[h] = None /\ cache'.meta[g] = cache.meta[g]
              /\ cache.meta[h].expires > cache.now
              /\ (cache'.write = None \/ cache'.write.hash = cache.write.hash) /\ cache'.stale = cache.stale
              => cache.meta[h].used <= cache.meta[g].used]_cache
  BY StepPurges
<1> QED BY <1>1, CacheInductive, PTL DEF Cache!PurgeTakesTheOldest

\* A write starts over only when something of another entry was given up for it, so it
\* does not go round for ever on a volume that is full (`poll_cache_writer`, app/browser.rs).
THEOREM WritesDoNotGoRound ==
  ASSUME AddressesAreHashed
  PROVE  Cache!Init /\ [][Cache!Next]_cache => Cache!WritesMakeProgress
<1>1. ASSUME Sound(cache), [Cache!Next]_cache, cache.write # None, cache'.write # None
      PROVE  \/ cache'.write.written >= cache.write.written
             \/ \E h \in Hashes \ {cache.write.hash} :
                   \/ cache.body[h] # None /\ cache'.body[h] = None
                   \/ cache.meta[h] # None /\ cache'.meta[h] = None
  <2>1. cache \in CacheShapes /\ Vouched(cache) /\ Named(cache) /\ Written(cache) /\ cache.reader = None
        /\ cache.write.written \in Nat
    BY <1>1, WriteIs DEF Sound, Writing, Named
  <2>2. CASE cache'.write = cache.write
    BY <2>1, <2>2
  <2>3. CASE Cache!StepWrite
    <3>1. CASE cache' = Cache!NotKept(cache)
      BY <1>1, <2>1, <3>1, NotKeptKeeps
    <3>2. CASE cache' = Cache!Opened(cache) /\ ~cache.write.open
      BY <2>1, <3>2, <1>1, OpenedKeeps DEF Written
    <3>3. CASE cache' = Cache!Written(cache) /\ cache.write.open /\ cache.write.written < cache.write.record.size
      BY <1>1, <2>1, <3>3, WrittenKeeps
    <3>4. CASE cache' = Cache!Stored(cache) /\ cache.write.open /\ ~(cache.write.written < cache.write.record.size)
      BY <1>1, <3>4, StoredKeeps
    <3>5. CASE cache' = Cache!NoSpace(cache)
      BY <1>1, <3>5, NoSpaceIs
    <3> QED BY <1>1, <2>3, <3>1, <3>2, <3>3, <3>4, <3>5, StepWriteIs
  <2> QED BY <1>1, <2>2, <2>3, StepsOfAWrite, InvalidateIs
<1>2. Sound(cache) /\ [Cache!Next]_cache =>
        [cache.write # None /\ cache'.write # None =>
           \/ cache'.write.written >= cache.write.written
           \/ \E h \in Hashes \ {cache.write.hash} :
                 \/ cache.body[h] # None /\ cache'.body[h] = None
                 \/ cache.meta[h] # None /\ cache'.meta[h] = None]_cache
  BY <1>1
<1> QED BY <1>2, CacheInductive, PTL DEF Cache!WritesMakeProgress
=============================================================================
