----------------------------- MODULE MCBrowser -----------------------------
(***************************************************************************)
(* The browser in one run: small instances of its navigation, its cache,   *)
(* the images and the controls of a page, its text editor, and of the way  *)
(* from bytes to a page: encoding, tokens, document, layout, addresses.    *)
(* A behaviour runs one of them: `focus` is chosen at the beginning among  *)
(* Parts, and the others stand still.                                      *)
(***************************************************************************)
EXTENDS Integers, Sequences, SequencesExt, TLC

CONSTANTS
    Parts,
    NavLinks,  \* the addresses the page's links lead to
    None

VARIABLES focus, nav, cache, volume, images, input, edit, bars, asked, controls, decoder, html, doc, layout, url

---------------------------------------------------------------------------
(* Navigation, the cache, images                                           *)

At(name) == [doc |-> name, frag |-> None]
LinksTo == {At(name) : name \in NavLinks}
Nav == INSTANCE BrowserNav WITH
    Links <- LinksTo, Forms <- {At("p")}, Home <- At("a"), BuiltIn <- {"a"}, MaxBodies <- 2,
    MaxHistory <- 2, MaxResults <- 1, MaxRequests <- 1, States <- {"up", "recovering"}

\* Two addresses that share a hash, and two hashes that share a bucket.
Kept == INSTANCE BrowserCache WITH
    Urls <- {"u", "v", "w"}, Posts <- {"u", "v", "w"}, Hashes <- {"h", "g"}, HashOf <- "u" :> "h" @@ "v" :> "h" @@ "w" :> "g",
    BucketOf <- "h" :> 0 @@ "g" :> 1,
    Responses <- {[size |-> 2, lifetime |-> 2, revalidate |-> FALSE], [size |-> 2, lifetime |-> 1, revalidate |-> TRUE]},
    Space <- 4, MaxTime <- 2, MaxVersion <- 2
\* Three small entries in a volume that holds two.
Oldest == INSTANCE BrowserCache WITH
    Urls <- {"u", "w", "x"}, Posts <- {"u"}, Hashes <- {"h", "g", "k"}, HashOf <- "u" :> "h" @@ "w" :> "g" @@ "x" :> "k",
    BucketOf <- "h" :> 0 @@ "g" :> 1 @@ "k" :> 1,
    Responses <- {[size |-> 1, lifetime |-> 2, revalidate |-> FALSE]}, Space <- 4, MaxTime <- 1, MaxVersion <- 3,
    cache <- volume

Pictures == INSTANCE BrowserImages WITH
    Count <- 3, UrlOf <- <<"u", "v", "u">>, SizeOf <- "u" :> 2 @@ "v" :> 2, Local <- {}, Scheme <- "http",
    Soft <- 2, Hard <- 3, Height <- 1

---------------------------------------------------------------------------
(* The controls of a page, and an editor of text                           *)

Fields == INSTANCE BrowserInput WITH
    Order <- <<"link", "t", "r", "q", "l", "go">>,
    Kind <- "t" :> "text" @@ "r" :> "radio" @@ "q" :> "radio" @@ "l" :> "select" @@ "go" :> "submit" @@ "k" :> "checkbox",
    Disabled <- {"k"}, Overlong <- {}, Group <- "r" :> "g" @@ "q" :> "g", Options <- "l" :> 3,
    Closed <- {<<"l", 2>>}, Marked <- {<<"l", 3>>}, Multiple <- {}, Texts <- {"a"}, Empty <- "",
    MaxRows <- 2, Bottom <- 1, Height <- 5

Editor == INSTANCE TextInput WITH
    Chars <- {"a", "e"}, LineBreak <- "lf", BytesOf <- "a" :> 1 @@ "e" :> 2 @@ "lf" :> 1,
    WidthOf <- "a" :> 1 @@ "e" :> 3 @@ "lf" :> 0,
    Initial <- {<<>>, <<"a", "lf", "e">>, <<"e", "e", "e", "e">>}, MaxBytes <- 5, Width <- 4

---------------------------------------------------------------------------
(* What is repainted: the toolbar and the status line through transfers,   *)
(* through forms sent again, and the rows of a page of controls.           *)

Kinds == "a" :> "link" @@ "s" :> "select" @@ "t" :> "text" @@ "k" :> "check"
Bars == INSTANCE BrowserScreen WITH
    Lines <- "p" :> <<"a">> @@ "e" :> <<None>>, Kind <- Kinds, Target <- "a" :> [page |-> "e", row |-> None],
    Multiple <- {}, Answers <- {"transfer"}, Options <- 2, ListRows <- 2, Height <- 1, FocusSlots <- 2,
    MaxHistory <- 1, MaxEvents <- 1, screen <- bars
Asked == INSTANCE BrowserScreen WITH
    Lines <- "p" :> <<None>>, Kind <- Kinds, Target <- "a" :> [page |-> "p", row |-> 1],
    Multiple <- {}, Answers <- {"form"}, Options <- 2, ListRows <- 2, Height <- 1, FocusSlots <- 2,
    MaxHistory <- 1, MaxEvents <- 1, screen <- asked
Rows == INSTANCE BrowserScreen WITH
    Lines <- "p" :> <<"s", "t", "k", "a">>, Kind <- Kinds, Target <- "a" :> [page |-> "p", row |-> 4],
    Multiple <- {}, Answers <- {"page"}, Options <- 2, ListRows <- 2, Height <- 3, FocusSlots <- 2,
    MaxHistory <- 0, MaxEvents <- 2, screen <- controls

---------------------------------------------------------------------------
(* From bytes to a page                                                    *)

\* Beginnings with a mark, a declaration, one that names nothing, one in
\* mid-arrival, and one that crosses the end of the window.
Decoded == INSTANCE Encoding WITH
    Heads <- {<<>>, <<"bom">>, <<"<meta", "charset=", "sjis", ">">>,
              <<"<meta", " ", ">", "<meta", " ", "charset=", "euc", " ", ">">>,
              <<"bom", "<meta", "charset=", "sjis", ">">>, <<"charset=", "sjis">>,
              <<"<meta", "charset=", "x", ">", "<meta", "charset=", "euc", " ">>,
              <<"x", "x", "x", "x", "x", "<meta", "charset=", "euc", ">">>,
              <<"x", "x", "x", "x", "x", "x", "<meta", "charset=", "euc", ">">>},
    Labels <- "sjis" :> "sjis" @@ "euc" :> "euc" @@ "utf8" :> "utf8",
    Bytes <- {"<", "A", "K", "L", "E", "F", "I"}, MaxBody <- 2, Unassigned <- {<<"L", "K">>, <<"E", "A">>},
    Declared <- {None, "sjis", "euc", "x"}, Window <- 8, MaxPieces <- 3

Tokens == INSTANCE Html WITH
    MaxTagName <- 2, MaxValue <- 3, MaxEntity <- 4, MaxAttributes <- 3, Threshold <- 2, MaxPieces <- 2,
    SelfClosedTextarea <- FALSE

Tag(name) == [name |-> name, id |-> None, href |-> None, type |-> None, named |-> None,
              value |-> None, alt |-> <<>>, on |-> FALSE, disabled |-> FALSE,
              multiple |-> FALSE, rowspan |-> 1, colspan |-> 1]
T(names) == {Tag(name) : name \in names}
Vocabularies == {
    T({"p", "h2", "b", "i", "li"}) \cup {[href |-> "ok", id |-> "x"] @@ Tag("a")},
    T({"pre", "br", "hr", "title", "ul", "img"}) \cup {[alt |-> <<"y">>] @@ Tag("img")},
    T({"table", "td", "img", "b", "h2"}),
    T({"table", "td", "textarea", "input", "form", "title"}),
    T({"table", "tr", "p"}) \cup {[rowspan |-> 2] @@ Tag("td"), [colspan |-> 2] @@ Tag("td")},
    T({"form", "b", "textarea"}) \cup {[type |-> "radio", named |-> "g", on |-> TRUE] @@ Tag("input"),
        [value |-> "i"] @@ Tag("label"), [id |-> "i", type |-> "hidden"] @@ Tag("input")},
    T({"select", "input"}) \cup {[on |-> TRUE] @@ Tag("option"), [value |-> "v"] @@ Tag("option"),
        [disabled |-> TRUE] @@ Tag("optgroup")},
    T({"button", "b", "i", "img", "select", "form"})}
Page == INSTANCE Document WITH
    Chars <- {"x"}, Space <- "sp", LineBreak <- "lf", MaxEvents <- 5, MaxItems <- 8, MaxDepth <- 3,
    MaxColumns <- 3, MaxValue <- 3, Proper <- TRUE

Advance(c, face) == CASE c \in {"m", "lf"} -> 0 [] c = "w" \/ face = "mono" -> 2 [] OTHER -> 1
Control(at, width, height, hidden) == [at |-> at, width |-> width, height |-> height, hidden |-> hidden]
Cell(row, column, rowspan, colspan, prefers, area) ==
    [row |-> row, column |-> column, rowspan |-> rowspan, colspan |-> colspan, prefers |-> prefers, area |-> area]
Item(dy, x, width, link) == [dy |-> dy, x |-> x, width |-> width, link |-> link]
Band(gap, items) == [gap |-> gap, image |-> FALSE, items |-> items]
Picture(gap, height, link) == [gap |-> gap, image |-> TRUE, height |-> height, width |-> 2, link |-> link]
Lines == INSTANCE Layout WITH
    Chars <- {"a", "w", " ", ")", "(", "m", "lf"}, Space <- " ", LineBreak <- "lf", Combining <- "m",
    NoStart <- {")"}, NoEnd <- {"("}, Width <- Advance, Shift <- 2, MaxText <- 4, Budget <- 3, TextHeight <- 2,
    Mixed <- FALSE, Available <- 14, Floor <- 3, Padding <- 1, MaxBands <- 3,
    Controls <- {<<>>, <<Control(1, 2, 4, FALSE)>>, <<Control(0, 1, 1, FALSE), Control(2, 9, 3, FALSE)>>,
                 <<Control(1, 1, 1, TRUE), Control(1, 1, 4, FALSE)>>, <<Control(0, 2, 2, FALSE), Control(0, 2, 2, FALSE)>>},
    Grids <- {<<Cell(1, 1, 1, 1, p, a), Cell(1, 2, 1, c, q, b), Cell(2, 1, 1, 1, p, b)>> :
                  p \in 3 .. 9, q \in 3 .. 9, c \in 1 .. 2, a \in 0 .. 5, b \in {1, 9}}
        \cup {<<Cell(1, 1, 2, 1, p, a), Cell(1, 2, 1, 2, q, b), Cell(2, 2, 2, 1, p, b), Cell(2, 3, 1, 1, q, a)>> :
                  p \in 3 .. 9, q \in 3 .. 9, a \in 0 .. 5, b \in {1, 9}}
        \cup {<<Cell(1, 1, 1, 4, p, a), Cell(1, 5, 1, 2, q, b)>> :
                  p \in 3 .. 19, q \in 3 .. 9, a \in 0 .. 5, b \in {1, 9}},
    Bands <- {Band(1, <<Item(0, 0, 2, "k")>>), Band(0, <<Item(0, 0, 1, "l"), Item(0, 1, 1, "k")>>),
              Band(0, <<Item(0, 0, 2, None), Item(1, 2, 2, "l")>>), Band(0, <<Item(0, 1, 2, None)>>),
              Picture(1, 3, "m"), Picture(0, 1, None)}

Starts == {<<"http", ":">>, <<"http", ":", "/", "/">>, <<"http", ":", "/", "/", "x">>, <<"https", ":", "/", "/">>,
           <<"file", ":">>, <<"file", ":", "/", "/">>, <<>>, <<" ">>}
Rests == {<<>>, <<"/">>, <<"/", ".", ".">>, <<"/", "x">>, <<"x">>, <<"X", ".">>, <<"x", ":", "1">>,
          <<"x", ":", "9", "9", "9">>, <<"x", ":", "2", "/">>, <<"1", ".", "1">>, <<"1", ".", "2", "/">>,
          <<"0", "1", ".", "1">>, <<"1">>, <<"localhost">>, <<"localhost", "/", "x">>, <<"/", "x", "/", "x">>,
          <<"/", "x", "?", "?">>, <<"x", "@", "x">>, <<"/", "é">>, <<"?", "#", "/">>, <<"/", "?", "x", "#", "x">>,
          <<".">>, <<"x", ":">>}
Address == INSTANCE Url WITH
    Typed <- {start \o rest : start \in Starts, rest \in Rests},
    References <- BoundedSeq({"/", ".", "?", "#", ":", "x", "é"}, 3)
        \cup {start \o rest : start \in Starts, rest \in {<<"x">>, <<"/">>, <<"x", "/", "x">>}}
        \cup {<<" ", "x", " ">>, <<"x", " ", "x">>, <<"/", "/", "x", ":", "1">>, <<".", ".", "/", ".", ".", "/", "x">>},
    Queries <- {<<>>, <<"x">>}, Names <- {<<"x">>, <<".", "x">>, <<"é">>},
    Ports <- "http" :> 1 @@ "https" :> 2 @@ "file" :> 0,
    PortMax <- 12, OctetMax <- 1, Quad <- 2, MaxDigits <- 2, MaxUrl <- 8

---------------------------------------------------------------------------
(* One part runs                                                           *)

Init ==
    /\ focus \in Parts
    /\ Nav!Init /\ Kept!Init /\ Oldest!Init /\ Pictures!Init /\ Fields!Init /\ Lines!Init
    /\ IF focus = "edit" THEN Editor!Init ELSE edit = None
    /\ IF focus = "bars" THEN Bars!Init ELSE bars = None
    /\ IF focus = "asked" THEN Asked!Init ELSE asked = None
    /\ IF focus = "controls" THEN Rows!Init ELSE controls = None
    /\ IF focus = "decoder" THEN Decoded!Init ELSE decoder = None
    /\ IF focus = "html" THEN Tokens!Init ELSE html = None
    /\ IF focus = "doc" THEN Page!Init ELSE doc = None
    /\ IF focus = "url" THEN Address!Init ELSE url = None

Runs(part, others) == focus = part /\ UNCHANGED <<focus, others>>

Next ==
    \/ Runs("nav", <<cache, volume, images, input, edit, bars, asked, controls, decoder, html, doc, layout, url>>) /\ Nav!Next
    \/ Runs("kept", <<nav, volume, images, input, edit, bars, asked, controls, decoder, html, doc, layout, url>>) /\ Kept!Next
    \/ Runs("oldest", <<nav, cache, images, input, edit, bars, asked, controls, decoder, html, doc, layout, url>>) /\ Oldest!Next
    \/ Runs("images", <<nav, cache, volume, input, edit, bars, asked, controls, decoder, html, doc, layout, url>>) /\ Pictures!Next
    \/ Runs("input", <<nav, cache, volume, images, edit, bars, asked, controls, decoder, html, doc, layout, url>>) /\ Fields!Next
    \/ Runs("edit", <<nav, cache, volume, images, input, bars, asked, controls, decoder, html, doc, layout, url>>) /\ Editor!Next
    \/ Runs("bars", <<nav, cache, volume, images, input, edit, asked, controls, decoder, html, doc, layout, url>>) /\ Bars!Next
    \/ Runs("asked", <<nav, cache, volume, images, input, edit, bars, controls, decoder, html, doc, layout, url>>) /\ Asked!Next
    \/ Runs("controls", <<nav, cache, volume, images, input, edit, bars, asked, decoder, html, doc, layout, url>>) /\ Rows!Next
    \/ Runs("decoder", <<nav, cache, volume, images, input, edit, bars, asked, controls, html, doc, layout, url>>) /\ Decoded!Next
    \/ Runs("html", <<nav, cache, volume, images, input, edit, bars, asked, controls, decoder, doc, layout, url>>) /\ Tokens!Next
    \/ Runs("doc", <<nav, cache, volume, images, input, edit, bars, asked, controls, decoder, html, layout, url>>) /\ Page!Next
    \/ Runs("layout", <<nav, cache, volume, images, input, edit, bars, asked, controls, decoder, html, doc, url>>) /\ Lines!Next
    \/ Runs("url", <<nav, cache, volume, images, input, edit, bars, asked, controls, decoder, html, doc, layout>>) /\ Address!Next

Spec == Init /\ [][Next]_<<focus, nav, cache, volume, images, input, edit, bars, asked, controls, decoder, html, doc, layout, url>>

---------------------------------------------------------------------------
(* Properties *)

(* However the bytes of a page fall into pieces, runs, frames and lines,   *)
(* what is shown is what was sent: the encoding is the document's, every   *)
(* character is in the page once and in order, in its own style, cell,     *)
(* label and line, a link leads where its address says, and repainting     *)
(* what was marked leaves nothing of a moment ago on the screen.           *)
PageIsWhatWasSent ==
    /\ focus = "decoder" => /\ Decoded!TypeOK /\ Decoded!EncodingIsTheDocuments
                            /\ Decoded!PiecesDoNotMatter /\ Decoded!MarkupSurvives
    /\ focus = "html" => /\ Tokens!TypeOK /\ Tokens!RoundTrips /\ Tokens!EarlyEndKeepsTheRest
                         /\ Tokens!ScriptsAreDropped
    /\ focus = "doc" => /\ Page!TypeOK /\ Page!PageIsItsText /\ Page!ControlsArePlaced /\ Page!OneOptionIsSelected
                        /\ Page!ButtonsAreTheirLabels /\ Page!LabelsCutNoRun /\ Page!CellsFit /\ Page!StylesEnd
    /\ focus = "layout" => /\ Lines!TextIsKept /\ Lines!LinesFit /\ Lines!NothingLiesOver /\ Lines!TableFitsThePage
                           /\ Lines!LinksAreWhereTheyAreDrawn /\ Lines!VisibleIsDrawn
                           /\ Lines!ReadingPositionIsKeptBelow
    /\ focus = "bars" => Bars!TypeOK /\ Bars!ScreenShowsState
    /\ focus = "asked" => Asked!TypeOK /\ Asked!ScreenShowsState
    /\ focus = "controls" => Rows!TypeOK /\ Rows!ScreenShowsState
    /\ focus = "url" => /\ Address!TypeOK /\ Address!ShownIsConnected /\ Address!LinksLeadWhereTheirSegmentsDo
                        /\ Address!LinksStayOnTheirSite /\ Address!EntriesAreInside

(* Nothing the reader typed, chose or agreed to is lost, sent twice, sent  *)
(* unasked or given to another page or control, in whatever order answers, *)
(* losses, keys and taps come.                                             *)
ReadersChoicesAreKept ==
    /\ focus = "nav" => Nav!TypeOK /\ Nav!NothingSentUnasked /\ Nav!ResultIsItsOwn
                        /\ Nav!StopStopsSomething
    /\ focus = "input" => /\ Fields!TypeOK /\ Fields!OneOwnerOfTheKeys /\ Fields!TypedTextIsKept
                          /\ Fields!ChoicesExclude /\ Fields!HighlightIsDrawn
    /\ focus = "edit" => /\ Editor!EndsOnBoundaries /\ Editor!KeysUndoEachOther
                         /\ Editor!RowsAreTheText /\ Editor!VerticalMovesAreTrue
                         /\ Editor!CaretIsVisible

(* What is kept of pages, forms and images stays within its budget, and    *)
(* what is left of it is whole: a record vouches for its own body, one     *)
(* source feeds one image of the page that is shown.                       *)
WhatIsKeptIsWhole ==
    /\ focus = "nav" => Nav!BudgetsHold
    /\ focus = "kept" => /\ Kept!TypeOK /\ Kept!RecordVouches /\ Kept!ShownIsOneResponse
                         /\ Kept!NothingStaleIsFound
    /\ focus = "oldest" => Oldest!TypeOK /\ Oldest!RecordVouches /\ Oldest!ShownIsOneResponse
    /\ focus = "images" => /\ Pictures!TypeOK /\ Pictures!MemoryIsBounded /\ Pictures!OneSourceAtATime
                           /\ Pictures!OneBodyIsHeld /\ Pictures!SourcesServeThePage

(* A question or a form in flight gives its entry back, a submission sends *)
(* what was shown, a visible image is not given up, one stop stops one     *)
(* image, and space is taken from the oldest while a write makes progress. *)
StepsKeepTheirPromises ==
    /\ Nav!QuestionKeepsEntry /\ Nav!FlightKeepsEntry
    /\ Fields!SubmittedAsShown
    /\ Pictures!VisibleStays /\ Pictures!StopIsStable
    /\ Kept!PurgeTakesTheOldest /\ Kept!WritesMakeProgress
    /\ Oldest!PurgeTakesTheOldest /\ Oldest!WritesMakeProgress

(* BrowserNav: what HistoryEntry says of going back, for a link to the     *)
(* address the form posts to.                                              *)
GoingBackLeavesTheResult == Nav!GoingBackLeavesTheResult
=============================================================================
