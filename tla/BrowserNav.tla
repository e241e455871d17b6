----------------------------- MODULE BrowserNav -----------------------------
(***************************************************************************)
(* Navigation in the browser screen (app/browser.rs): the page on screen,  *)
(* the two stacks behind Back and Forward, the question asked before a     *)
(* form is sent again, and the one transfer in flight.                     *)
(*                                                                         *)
(* Keys and taps only leave a request; the tick acts on it, later, against *)
(* whatever has landed, failed or been taken away in between.  A form that *)
(* was sent is told apart by its body, and what it answered by the body it *)
(* answered.  `loading` is what the toolbar shows of the transfer, kept    *)
(* apart from it by the code; `overtaken` is history: a request that was   *)
(* answered without one came while something was loading.                  *)
(***************************************************************************)
EXTENDS Integers, FiniteSets, SequencesExt

CONSTANTS
    Links,         \* addresses followed, [doc |-> , frag |-> ]
    Forms,         \* addresses a form posts to
    Home,          \* the page the browser opens with
    BuiltIn,       \* documents that come with the browser
    MaxBodies,     \* forms filled in
    MaxHistory, MaxResults, MaxRequests,
    States,        \* of the network: "up", "recovering", "down"
    None

VARIABLE nav

Page(url, method, post, body, error) ==
    [url |-> url, method |-> method, post |-> post, body |-> body, error |-> error]
Init ==
    nav = [page |-> Page(Home, "get", None, None, FALSE),
           history |-> <<>>, forward |-> <<>>,
           request |-> None, confirm |-> None, pending |-> None,
           loading |-> FALSE, overtaken |-> FALSE,
           wifi |-> "up", bodies |-> 0]

BeginLoading(s) == [s EXCEPT !.loading = TRUE, !.overtaken = FALSE]
FinishLoading(s) == [s EXCEPT !.loading = FALSE, !.overtaken = FALSE]
(* Nothing in the paths that answer at once ends what was shown loading.   *)
Answered(s) == [s EXCEPT !.overtaken = s.loading]

SameDocument(u, v) == u.doc = v.doc
Navigation(url, how, method) ==
    [kind |-> "get", url |-> url, how |-> how, method |-> method]
Fresh(url) == Navigation(url, "fresh", "get")
Submission(body, url, how, source, entry, approved) ==
    [kind |-> "post", body |-> body, url |-> url, how |-> how, source |-> source,
     entry |-> entry, approved |-> approved]

---------------------------------------------------------------------------
(* What is kept of forms: results, then requests, go farthest first.       *)

Entries(s) == {<<"history", i>> : i \in DOMAIN s.history} \cup {<<"forward", i>> : i \in DOMAIN s.forward}
EntryAt(s, at) == IF at[1] = "history" THEN s.history[at[2]] ELSE s.forward[at[2]]
Distance(s, at) == (IF at[1] = "history" THEN Len(s.history) ELSE Len(s.forward)) - at[2]
Keeping(s, field) == {at \in Entries(s) : EntryAt(s, at).post # None /\ EntryAt(s, at).post[field] # None}
OverResults(s) == Cardinality(Keeping(s, "result")) > MaxResults
OverRequests(s) == Cardinality(Keeping(s, "request")) > MaxRequests
Farthest(s, ats) ==
    CHOOSE at \in ats : \A other \in ats :
        \/ Distance(s, at) > Distance(s, other)
        \/ Distance(s, at) = Distance(s, other) /\ (at[1] = "history" \/ other[1] = "forward")
Forgotten(s, at, field) ==
    IF at[1] = "history" THEN [s EXCEPT !.history[at[2]].post[field] = None]
    ELSE [s EXCEPT !.forward[at[2]].post[field] = None]
(* One step of the loop drops one; no stack change adds more than one.     *)
EnforcePostBudget(s) ==
    LET step(t) == IF OverResults(t) THEN Forgotten(t, Farthest(t, Keeping(t, "result")), "result")
                   ELSE IF OverRequests(t) THEN Forgotten(t, Farthest(t, Keeping(t, "request")), "request")
                   ELSE t
    IN  step(step(s))

Pushed(stack, entry) == Append(IF Len(stack) >= MaxHistory THEN Tail(stack) ELSE stack, entry)
OnHistory(s, entry) == EnforcePostBudget([s EXCEPT !.history = Pushed(@, entry)])
OnForward(s, entry) == EnforcePostBudget([s EXCEPT !.forward = Pushed(@, entry)])

---------------------------------------------------------------------------
(* The question *)

PutBackEntry(s, entry, how) ==
    CASE entry # None /\ how = "back" -> OnHistory(s, entry)
      [] entry # None /\ how = "forward" -> OnForward(s, entry)
      [] OTHER -> s
MutantPutBackSubmission(s, submission) == s
PutBackSubmission(s, submission) ==
    LET entry == submission.entry
    IN  PutBackEntry(s, IF entry = None \/ entry.post = None THEN entry
                        ELSE [entry EXCEPT !.post.request = submission.body], submission.how)
DropConfirmation(s) ==
    IF s.confirm = None THEN s ELSE PutBackSubmission([s EXCEPT !.confirm = None], s.confirm)
Ask(s, submission) == [DropConfirmation(s) EXCEPT !.confirm = submission]

Request(s, navigation) == [DropConfirmation(s) EXCEPT !.request = navigation]

---------------------------------------------------------------------------
(* The stacks *)

(* The result itself is attached once the page has been replaced.          *)
PushCurrent(page) ==
    [url |-> page.url, method |-> page.method, body |-> page.body,
     post |-> IF page.method # "post" \/ page.post = None THEN None
              ELSE [request |-> page.post.request, source |-> page.post.source, result |-> None]]
SettleHistory(s, how) ==
    CASE how = "fresh" -> [OnHistory(s, PushCurrent(s.page)) EXCEPT !.forward = <<>>]
      [] how = "back" -> OnForward(s, PushCurrent(s.page))
      [] how = "forward" -> OnHistory(s, PushCurrent(s.page))
      [] OTHER -> s

MutantRetainPostResult(s, left, how) ==
    LET stack == IF how = "forward" THEN s.forward ELSE s.history
        entry == Last(stack)
        kept == [stack EXCEPT ![Len(stack)].post.result = left.body]
    IN  IF \/ left.error \/ left.method # "post" \/ left.post = None \/ how = "reload" \/ stack = <<>>
        THEN s
        ELSE IF ~left.post.keep \/ entry.url # left.url \/ entry.post = None THEN s
        ELSE EnforcePostBudget(IF how = "forward" THEN [s EXCEPT !.forward = kept]
                               ELSE [s EXCEPT !.history = kept])
RetainPostResult(s, left, how) ==
    LET stack == IF how = "back" THEN s.forward ELSE s.history
        entry == Last(stack)
        kept == [stack EXCEPT ![Len(stack)].post.result = left.body]
    IN  IF \/ left.error \/ left.method # "post" \/ left.post = None \/ how = "reload" \/ stack = <<>>
        THEN s
        ELSE IF ~left.post.keep \/ entry.url # left.url \/ entry.post = None THEN s
        ELSE EnforcePostBudget(IF how = "back" THEN [s EXCEPT !.forward = kept]
                               ELSE [s EXCEPT !.history = kept])
ReplacePage(s, page, how) ==
    RetainPostResult([FinishLoading(DropConfirmation(s)) EXCEPT !.page = page], s.page, how)
ShowDocument(s, page, how) ==
    ReplacePage(SettleHistory(s, how), page, how)

(* An error page over another one pushes nothing.                          *)
ShowError(s, url, how) ==
    LET settled == IF ~s.page.error THEN SettleHistory(s, how)
                   ELSE IF how = "fresh" THEN [s EXCEPT !.forward = <<>>] ELSE s
    IN  ReplacePage(settled, Page(url, "get", None, None, TRUE), how)

(* To an entry that has already left its stack                             *)
ReturnTo(s, entry, how) ==
    LET internal == s.page.method = entry.method /\ SameDocument(s.page.url, entry.url)
    IN  CASE entry.method # "post" \/ internal -> Request(s, Navigation(entry.url, how, entry.method))
          [] entry.method = "post" /\ ~internal /\ entry.post = None -> PutBackEntry(s, entry, how)
          [] OTHER ->
                CASE entry.post.result # None ->
                        [DropConfirmation(s) EXCEPT !.request =
                            [kind |-> "restore", entry |-> entry, how |-> how]]
                  [] entry.post.result = None /\ entry.post.request # None ->
                        Ask(s, Submission(entry.post.request, entry.url, how, entry.post.source,
                                          [entry EXCEPT !.post.request = None], FALSE))
                  [] OTHER -> IF entry.post.source # None
                              THEN Request(s, Navigation(entry.post.source, how, "get"))
                              ELSE PutBackEntry(s, entry, how)

RestorePost(s, entry, how) ==
    LET post == [request |-> entry.post.request, source |-> entry.post.source, keep |-> TRUE]
    IN  { ReplacePage(SettleHistory(s, how), Page(entry.url, "post", post, entry.post.result, FALSE), how),
          \* not enough memory to lay it out
          ReturnTo(Answered(s), [entry EXCEPT !.post.result = None], how) }

---------------------------------------------------------------------------
(* The reader *)

(* A tap elsewhere is a no, and then whatever that tap means.              *)
Tapped(s) == DropConfirmation(s)

Follow(url) == nav' = Request(Tapped(nav), Fresh(url))
Submit(url) ==
    /\ nav.bodies < MaxBodies /\ ~nav.page.error
    /\ nav' = [Request(Tapped(nav), Submission(nav.bodies + 1, url, "fresh", nav.page.url, None, TRUE))
                   EXCEPT !.bodies = @ + 1]
GoBack ==
    LET s == Tapped(nav)
    IN  /\ s.history # <<>>
        /\ nav' = ReturnTo([s EXCEPT !.history = Front(@)], Last(s.history), "back")
GoForward ==
    LET s == Tapped(nav)
    IN  /\ s.forward # <<>>
        /\ nav' = ReturnTo([s EXCEPT !.forward = Front(@)], Last(s.forward), "forward")
Reload ==
    LET s == Tapped(nav)
        post == s.page.post
    IN  nav' = CASE s.page.method # "post" -> Request(s, Navigation(s.page.url, "reload", "get"))
                 [] s.page.method = "post" /\ post # None /\ post.request # None ->
                        Ask(s, Submission(post.request, s.page.url, "reload", post.source, None, FALSE))
                 [] OTHER -> IF post # None /\ post.source # None THEN Request(s, Fresh(post.source)) ELSE s
AcceptConfirmation ==
    /\ nav.confirm # None
    /\ nav' = [nav EXCEPT !.confirm = None, !.request = [nav.confirm EXCEPT !.approved = TRUE]]
CancelConfirmation == nav.confirm # None /\ nav' = DropConfirmation(nav)

---------------------------------------------------------------------------
(* The transfer *)

IsPost(pending) == pending.source = "network" /\ pending.method = "post"
Addressed(s) == s.wifi = "up"

(* A form that did not land is never sent again by itself: it is offered   *)
(* as a question, unless the reader stopped it or its answer was an error, *)
(* and then an entry taken for it goes back.                               *)
EndPost(s, pending, offered) ==
    LET closed == FinishLoading([s EXCEPT !.pending = None])
    IN  IF offered
        THEN Ask(closed, Submission(pending.body, pending.url, pending.how, pending.post.source,
                                    pending.post.entry, FALSE))
        ELSE PutBackEntry(closed, pending.post.entry, pending.how)
Waiting(s, pending) ==
    [s EXCEPT !.pending = [pending EXCEPT !.source = "waiting", !.method = "get", !.body = None,
                                          !.post = None]]

StopPending ==
    /\ nav.pending # None
    /\ LET s == Tapped(nav)
       IN  nav' = IF IsPost(s.pending) THEN EndPost(s, s.pending, FALSE)
                  ELSE FinishLoading([s EXCEPT !.pending = None])

(* Another screen takes over: a GET starts again on return.                *)
Suspend ==
    /\ nav.pending # None /\ nav.pending.source = "network"
    /\ nav' = IF IsPost(nav.pending) THEN EndPost(nav, nav.pending, TRUE) ELSE Waiting(nav, nav.pending)

SuspendOrFail(s) ==
    CASE s.pending = None \/ (s.pending # None /\ s.pending.source # "network") \/ Addressed(s) -> s
      [] OTHER -> IF IsPost(s.pending) THEN EndPost(s, s.pending, TRUE)
                  ELSE IF s.wifi = "recovering" THEN BeginLoading(Waiting(s, s.pending))
                  ELSE ShowError([s EXCEPT !.pending = None], s.pending.url, s.pending.how)

Pending(navigation, source) ==
    [source |-> source, method |-> navigation.kind, url |-> navigation.url, how |-> navigation.how,
     body |-> None, post |-> None]

(* Going to a part of the page on screen needs no transfer.                *)
Internal(s, navigation) ==
    /\ SameDocument(s.page.url, navigation.url)
    /\ navigation.how \in {"back", "forward"} \/ (navigation.how = "fresh" /\ navigation.url.frag # None)
PageNavigation(s, navigation) ==
    LET repeated == navigation.how = "fresh" /\ navigation.url = s.page.url
    IN  [IF repeated THEN Answered(s) ELSE SettleHistory(Answered(s), navigation.how)
            EXCEPT !.page.url = navigation.url]

Begin(s, navigation) ==
    CASE Internal(s, navigation) -> {PageNavigation(s, navigation)}
      [] ~Internal(s, navigation) /\ navigation.url.doc \in BuiltIn ->
            {ShowDocument(s, Page(navigation.url, "get", None, None, FALSE), navigation.how)}
      [] OTHER ->
            {[BeginLoading(s) EXCEPT !.pending = Pending(navigation, "cache")]} \cup
            IF Addressed(s)
            THEN {[BeginLoading(s) EXCEPT !.pending = Pending(navigation, "network")],
                  FinishLoading(s)}
            ELSE IF s.wifi = "recovering"
            THEN {[BeginLoading(s) EXCEPT !.pending = Pending(navigation, "waiting")]}
            ELSE {ShowError(s, navigation.url, navigation.how)}
BeginSubmission(s, submission) ==
    LET sent == [BeginLoading(s) EXCEPT !.pending =
                    [Pending(submission, "network") EXCEPT
                        !.body = submission.body,
                        !.post = [source |-> submission.source, entry |-> submission.entry,
                                  approved |-> submission.approved]]]
        not == PutBackEntry(Answered(s), submission.entry, submission.how)
    IN  IF Addressed(s) THEN {sent, not} ELSE {not}

(* What is in flight is given up first, and the entry it had taken goes    *)
(* back before the new navigation settles the stacks.                      *)
TakeRequest(s) ==
    LET r == s.request
        entry == IF s.pending = None \/ s.pending.post = None THEN None ELSE s.pending.post.entry
        back == IF entry = None THEN s ELSE PutBackEntry(s, entry, s.pending.how)
        closed == [back EXCEPT !.request = None, !.pending = None]
    IN  CASE r = None -> {s}
          [] r # None /\ r.kind = "get" -> Begin(closed, r)
          [] r # None /\ r.kind = "post" -> BeginSubmission(closed, r)
          [] OTHER -> RestorePost(closed, r.entry, r.how)

Await(s) ==
    IF s.pending = None \/ (s.pending # None /\ s.pending.source # "waiting") THEN {s}
    ELSE LET none == [s EXCEPT !.pending = None]
             again == [Navigation(s.pending.url, s.pending.how, "get") EXCEPT !.url = s.pending.url]
         IN  IF Addressed(s) THEN Begin(none, again)
             ELSE IF s.wifi = "recovering" THEN {s}
             ELSE {ShowError(none, s.pending.url, s.pending.how)}

(* A page arrives: what a form answered, or what it redirected to.         *)
Landed(s) ==
    LET p == s.pending
        none == [s EXCEPT !.pending = None]
        post(keep) == [request |-> p.body, source |-> p.post.source, keep |-> keep]
    IN  IF IsPost(p)
        THEN {ShowDocument(none, Page(p.url, "post", post(keep), p.body, FALSE), p.how) : keep \in BOOLEAN}
        ELSE {ShowDocument(none, Page(p.url, "get", None, None, FALSE), p.how)}
Failed(s) ==
    LET p == s.pending
        none == [s EXCEPT !.pending = None]
    IN  CASE p.source = "cache" -> {[Request(none, Fresh(p.url)) EXCEPT !.request.how = p.how]}
          [] IsPost(p) -> {EndPost(s, p, offered) : offered \in BOOLEAN}
          [] OTHER -> {ShowError(none, p.url, p.how)}
(* 304: the copy is read, or fetched whole when it has gone                *)
NotModified(s) ==
    LET p == s.pending
    IN  {[s EXCEPT !.pending = [p EXCEPT !.source = "cache", !.post = None]],
         [Request([s EXCEPT !.pending = None], Fresh(p.url)) EXCEPT !.request.how = p.how]}
Step(s) ==
    IF s.pending = None \/ (s.pending # None /\ s.pending.source = "waiting") THEN {s}
    ELSE LET p == s.pending
         IN  {s} \cup Landed(s) \cup Failed(s) \cup
             \* 303: what follows is an ordinary page
             (IF IsPost(p) THEN {[s EXCEPT !.pending.method = "get"]} ELSE {}) \cup
             IF p.source = "network" /\ p.method = "get" THEN NotModified(s) ELSE {}

Tick == nav' \in UNION {UNION {Step(b) : b \in Await(a)} : a \in TakeRequest(SuspendOrFail(nav))}
Wifi == \E w \in States \ {nav.wifi} : nav' = [nav EXCEPT !.wifi = w]

Next ==
    \/ \E url \in Links : Follow(url)
    \/ \E url \in Forms : Submit(url)
    \/ GoBack \/ GoForward \/ Reload \/ AcceptConfirmation \/ CancelConfirmation
    \/ StopPending \/ Suspend \/ Tick \/ Wifi

---------------------------------------------------------------------------
(* Properties *)

TypeOK ==
    /\ Len(nav.history) <= MaxHistory /\ Len(nav.forward) <= MaxHistory
    /\ nav.pending # None => nav.pending.source \in {"network", "cache", "waiting"}

(* Whatever the order of answers, losses and keys, a form is sent only by  *)
(* the reader's own submission or yes.                                     *)
NothingSentUnasked ==
    nav.pending # None /\ nav.pending.post # None => nav.pending.post.approved

(* What is kept of forms stays within its budgets on every path that moves *)
(* an entry.                                                               *)
BudgetsHold == ~OverResults(nav) /\ ~OverRequests(nav)

(* An entry taken off its stack for a question goes on in the form that is *)
(* sent, or back to its stack - unless that is the one a fresh page empties. *)
QuestionKeepsEntry ==
    [][nav.confirm # None /\ nav.confirm.entry # None =>
        \/ nav'.confirm = nav.confirm
        \/ nav'.request # None /\ nav'.request.kind = "post" /\ nav'.request.entry = nav.confirm.entry
        \/ \E stack \in {nav'.history, nav'.forward} : \E i \in DOMAIN stack :
              stack[i].url = nav.confirm.entry.url /\ stack[i].body = nav.confirm.entry.body
        \/ nav.confirm.how = "forward" /\ nav'.forward = <<>>
        \/ \E r \in {nav'.confirm, nav'.request} :
              r # None /\ "entry" \in DOMAIN r /\ r.entry # None /\ r.entry.body = nav.confirm.entry.body]_nav

(* A newer navigation gives the entry of the form in flight back first (one *)
(* that was answered with a redirect to a page loses it when that stops).  *)
FlightKeepsEntry ==
    [][nav.pending # None /\ IsPost(nav.pending) /\ nav.pending.post.entry # None
          /\ nav.request # None /\ nav'.request = None
        => LET entry == nav.pending.post.entry
           IN  \/ \E stack \in {nav'.history, nav'.forward} : \E i \in DOMAIN stack :
                    stack[i].url = entry.url /\ stack[i].body = entry.body
               \/ nav'.forward = <<>> \/ Len(nav'.history) = MaxHistory
               \/ nav'.confirm # None /\ nav'.confirm.entry = entry]_nav

(* The toolbar's third button, the lock and the status line go by          *)
(* `loading`, and stopping goes by the transfer: they agree, except after  *)
(* a request that was answered at once while something was loading         *)
(* (`overtaken`), where nothing is left to stop and the button stays.      *)
StopStopsSomething ==
    nav.loading /\ ~nav.overtaken => nav.pending # None \/ nav.request # None

(* "Reload or stop depending on whether anything is arriving"              *)
(* (draw_buttons)                                                          *)
LoadingIsTrue == nav.loading => nav.pending # None \/ nav.request # None

(* "Attaches a POST result's document to the history entry that            *)
(* settle_history just made for it" (retain_post_result)                   *)
ResultIsItsOwn ==
    \A at \in Keeping(nav, "result") : EntryAt(nav, at).post.result = EntryAt(nav, at).body

(* "Emptied by any navigation that is not a back or a forward" (forward)   *)
ForwardIsEmptied ==
    [][Len(nav'.history) > Len(nav.history) /\ nav'.page # nav.page /\ nav.pending # None
          /\ nav.pending.how = "fresh" /\ nav'.pending = None /\ nav.request = None
        => nav'.forward = <<>>]_nav

(* "Never a document: going back re-fetches" (HistoryEntry): back from     *)
(* what a form answered, to the page the form was on                       *)
GoingBackLeavesTheResult ==
    [][nav.request # None /\ nav.request.kind = "get" /\ nav.request.how = "back"
          /\ nav.request.method = "get" /\ nav.page.method = "post" /\ nav'.request = None
          /\ Len(nav'.forward) > Len(nav.forward)
        => nav'.page.method = "get"]_nav
=============================================================================
