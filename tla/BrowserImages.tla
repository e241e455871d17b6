---------------------------- MODULE BrowserImages ----------------------------
(***************************************************************************)
(* The images of the page on screen (app/browser.rs): which is fetched     *)
(* next, the source it is read from, and the memory the decoded ones hold. *)
(*                                                                         *)
(* Image i is a box in row i of the page.  A decoded image is named by the *)
(* image it was decoded for: images with the same address may share it.    *)
(* The access generations are the order of last use, oldest first.         *)
(***************************************************************************)
EXTENDS Integers, FiniteSets, SequencesExt

CONSTANTS
    Count,       \* images of a page
    UrlOf,       \* image -> address
    Local,       \* the addresses of files
    Scheme,      \* of the page: "file", "http" or "https"
    SizeOf,      \* address -> bytes decoded
    Soft, Hard,  \* MAX_DECODED_IMAGE_SOFT_BYTES and _HARD_BYTES
    Height       \* rows in the viewport

VARIABLE images

Images == 1 .. Count
Urls == {UrlOf[i] : i \in Images}
Sources == {"local", "cached", "network"}

NewPage == [decoded |-> [i \in Images |-> 0], failed |-> [i \in Images |-> FALSE],
            recent |-> <<>>, view |-> 1, focus |-> 0]
Init == images = NewPage @@
    [source |-> [k \in Sources |-> 0], loading |-> FALSE, pending |-> FALSE, bypass |-> FALSE,
     writing |-> FALSE, entry |-> [u \in Urls |-> "none"], up |-> TRUE]

---------------------------------------------------------------------------
(* Memory *)

Intersects(s, i, margin) == i > s.view - 1 - margin /\ i < s.view + Height + margin
Resident(s) == {s.decoded[i] : i \in Images} \ {0}
RECURSIVE Bytes(_)
Bytes(held) == IF held = {} THEN 0
               ELSE LET d == CHOOSE d \in held : TRUE IN SizeOf[UrlOf[d]] + Bytes(held \ {d})
Visible(s, d) == \E i \in Images : s.decoded[i] = d /\ Intersects(s, i, 0)

Touched(s, d) == [s EXCEPT !.recent = Append(Remove(@, d), d)]
TouchImage(s, i) == IF s.decoded[i] = 0 THEN s ELSE Touched(s, s.decoded[i])
(* Every image sharing an allocation loses it together.                    *)
Evicted(s, d) == [s EXCEPT !.decoded = [i \in Images |-> IF @[i] = d THEN 0 ELSE @[i]],
                           !.recent = Remove(@, d)]
Victims(s, kept) == SelectSeq(s.recent, LAMBDA d : d # kept /\ ~Visible(s, d))
RECURSIVE MakeRoom(_, _, _)
MakeRoom(s, bytes, kept) ==
    IF bytes > Hard \/ Bytes(Resident(s)) + bytes <= Soft \/ Victims(s, kept) = <<>> THEN s
    ELSE MakeRoom(Evicted(s, Head(Victims(s, kept))), bytes, kept)
Fits(s, bytes) == bytes <= Hard /\ Bytes(Resident(s)) + bytes <= Hard

Fail(s, i) == [s EXCEPT !.failed[i] = TRUE]
(* A layout that cannot be built leaves the room made and the image out.   *)
InstallImage(s, i, d) ==
    LET bytes == IF d \in Resident(s) THEN 0 ELSE SizeOf[UrlOf[d]]
        room == MakeRoom(s, bytes, d)
    IN  IF Fits(room, bytes) THEN {Fail(room, i), Touched([room EXCEPT !.decoded[i] = d], d)}
        ELSE {Fail(room, i)}
(* A format the header parser does not know is decoded without making room.*)
DecodeImage(s, i) ==
    LET bytes == SizeOf[UrlOf[i]]
        room == MakeRoom(s, bytes, 0)
    IN  {Fail(s, i), Fail(room, i)} \cup
        (IF Fits(room, bytes) THEN InstallImage(room, i, i) ELSE {})

---------------------------------------------------------------------------
(* What to fetch next *)

Priority(s, i) == CASE Intersects(s, i, 0) -> 0
                    [] Intersects(s, i, Height) /\ ~Intersects(s, i, 0) -> 1
                    [] s.focus = i /\ ~Intersects(s, i, Height) -> 2
                    [] OTHER -> 3
Wanted(s, local) == {i \in Images : /\ s.decoded[i] = 0 /\ ~s.failed[i]
                                    /\ (UrlOf[i] \in Local) = local /\ Priority(s, i) < 3}
NeededImage(s, local) ==
    CHOOSE i \in Wanted(s, local) : \A j \in Wanted(s, local) :
        \/ Priority(s, i) < Priority(s, j)
        \/ Priority(s, i) = Priority(s, j) /\ i <= j
(* The first image before this one that has the address decoded.           *)
Sharing(s, i) == {j \in 1 .. i - 1 : UrlOf[j] = UrlOf[i] /\ s.decoded[j] # 0}
FromShared(s, i) ==
    LET j == CHOOSE j \in Sharing(s, i) : \A k \in Sharing(s, i) : j <= k
    IN  InstallImage(s, i, s.decoded[j])

Open(s, kind, i) == [s EXCEPT !.source[kind] = i, !.loading = TRUE]
CloseSource(s, kind) == IF s.source[kind] = 0 THEN s
                        ELSE [s EXCEPT !.source[kind] = 0, !.loading = FALSE]

---------------------------------------------------------------------------
(* Files *)

RECURSIVE StartLocal(_)
StartLocal(s) ==
    IF s.source["local"] # 0 \/ Wanted(s, TRUE) = {} THEN {s}
    ELSE LET i == NeededImage(s, TRUE)
             more == IF Sharing(s, i) # {} THEN FromShared(s, i) ELSE {Fail(s, i)}
             opened == IF Sharing(s, i) = {} /\ Scheme = "file" THEN {Open(s, "local", i)} ELSE {}
         IN  opened \cup UNION {StartLocal(t) : t \in more}
ReadLocal(s) ==
    LET i == s.source["local"] closed == CloseSource(s, "local")
    IN  IF i = 0 THEN {s} ELSE {s, Fail(closed, i)} \cup DecodeImage(closed, i)
StepLocalImages(s) == UNION {ReadLocal(t) : t \in StartLocal(s)}

---------------------------------------------------------------------------
(* The cache and the network *)

(* An unreadable entry goes, and the image is fetched whole.               *)
ReadCached(s) ==
    LET i == s.source["cached"] closed == CloseSource(s, "cached")
    IN  {s, [closed EXCEPT !.entry[UrlOf[i]] = "none"]} \cup DecodeImage(closed, i)

(* Without a network nothing is started, and what was found in the cache   *)
(* to be unreadable has gone.                                              *)
RECURSIVE StartNetwork(_)
StartNetwork(s) ==
    IF Wanted(s, FALSE) = {} THEN {s}
    ELSE LET i == NeededImage(s, FALSE)
             found == IF s.bypass THEN "none" ELSE s.entry[UrlOf[i]]
             left == IF found = "fresh" THEN [s EXCEPT !.entry[UrlOf[i]] = "none"] ELSE s
             hit == IF found = "fresh" THEN {Open(s, "cached", i)} ELSE {}
             asked == IF s.up THEN {Open(left, "network", i)} \cup StartNetwork(Fail(left, i))
                      ELSE {left}
         IN  IF Sharing(s, i) # {} THEN UNION {StartNetwork(t) : t \in FromShared(s, i)}
             ELSE IF Scheme = "https" THEN StartNetwork(Fail(s, i))
             ELSE hit \cup asked
Answered(s) ==
    LET i == s.source["network"] u == UrlOf[i] closed == CloseSource(s, "network")
        stored == {closed, [closed EXCEPT !.writing = TRUE]}
    IN  {s, Fail(closed, i)} \cup UNION {DecodeImage(t, i) : t \in stored} \cup
        (IF s.bypass \/ s.entry[u] # "stale" THEN {}
         ELSE {Open([closed EXCEPT !.entry[u] = "fresh"], "cached", i),
               [closed EXCEPT !.entry[u] = "none"]})
ReadNetwork(s) == IF s.source["network"] = 0 \/ ~s.up THEN {s} ELSE Answered(s)
(* A body on its way to the RAM disk holds memory: the next image waits.   *)
HeldBack(s) == s.source["network"] = 0 /\ s.writing
AfterCache(s) ==
    IF s.source["cached"] # 0 \/ HeldBack(s) THEN {s}
    ELSE UNION {ReadNetwork(t) : t \in IF s.source["network"] = 0 THEN StartNetwork(s) ELSE {s}}
StepNetworkImages(s) ==
    IF s.source["local"] # 0 THEN {s}
    ELSE UNION {AfterCache(t) : t \in IF s.source["cached"] # 0 THEN ReadCached(s) ELSE {s}}

(* The body being written ends, kept or not.                               *)
StepWrite(s, writing) ==
    IF ~writing THEN {s}
    ELSE {s, [s EXCEPT !.writing = FALSE]} \cup
         {[s EXCEPT !.writing = FALSE, !.entry[u] = "fresh"] : u \in Urls \ Local}

---------------------------------------------------------------------------
(* The frame *)

LostWithTheLink(s) == IF s.up THEN s ELSE CloseSource(s, "network")
Tick ==
    LET s == LostWithTheLink(images)
        stepped == IF s.pending THEN {s}
                   ELSE UNION {StepNetworkImages(t) : t \in StepLocalImages(s)}
    IN  images' \in UNION {StepWrite(t, t.writing) : t \in stepped}

CloseAll(s) == CloseSource(CloseSource(CloseSource(s, "local"), "network"), "cached")
(* A navigation closes every source and finishes the write before it       *)
(* starts; one inside the page starts nothing.                             *)
TakeRequest ==
    \E pending, bypass \in BOOLEAN :
        images' = [CloseAll(images) EXCEPT !.writing = FALSE, !.pending = pending,
                                           !.bypass = bypass]
Land ==
    /\ images.pending
    /\ \E writing \in BOOLEAN :
           images' = NewPage @@ [images EXCEPT !.pending = FALSE, !.writing = writing]
StopPending == images.pending /\ images' = [images EXCEPT !.pending = FALSE]

(* The one a stop is about: the last of local, cached and network.         *)
Stopped(s) == CASE s.source["network"] # 0 -> s.source["network"]
                [] s.source["network"] = 0 /\ s.source["cached"] # 0 -> s.source["cached"]
                [] OTHER -> s.source["local"]
StopImage ==
    /\ ~images.pending /\ images.loading
    /\ LET i == Stopped(images) closed == [CloseAll(images) EXCEPT !.loading = FALSE]
       IN  images' = IF i = 0 THEN closed ELSE Fail(closed, i)

Suspend == images' = CloseSource(images, "network")
Scroll == \E view \in 1 .. Count : images' = [images EXCEPT !.view = view]
FocusNext ==
    \E i \in Images, view \in 1 .. Count :
        /\ Intersects([images EXCEPT !.view = view], i, 0)
        /\ images' = [images EXCEPT !.focus = i, !.view = view]
Draw ==
    LET shown == {i \in Images : Intersects(images, i, 0)}
    IN  images' = FoldLeft(TouchImage, images, SetToSortSeq(shown, <))

(* Outside: the network, and the entries of the cache, which age.          *)
Network == images' = [images EXCEPT !.up = ~@]
Age == \E u \in Urls : images.entry[u] = "fresh" /\ images' = [images EXCEPT !.entry[u] = "stale"]

Next == \/ Tick \/ TakeRequest \/ Land \/ StopPending \/ StopImage \/ Suspend
        \/ Scroll \/ FocusNext \/ Draw \/ Network \/ Age

---------------------------------------------------------------------------
(* Properties *)

TypeOK ==
    /\ images.decoded \in [Images -> 0 .. Count] /\ images.failed \in [Images -> BOOLEAN]
    /\ images.source \in [Sources -> 0 .. Count] /\ images.view \in Images
    /\ images.entry \in [Urls -> {"none", "fresh", "stale"}]

(* Decoded images never hold more than the hard bound, the order of use    *)
(* names each allocation once and nothing else, and an allocation is only  *)
(* shared by images with one address (make_decoded_room_for_bytes).        *)
MemoryIsBounded ==
    /\ Bytes(Resident(images)) <= Hard
    /\ ToSet(images.recent) = Resident(images) /\ IsInjective(images.recent)
    /\ \A i \in Images : images.decoded[i] # 0 => UrlOf[images.decoded[i]] = UrlOf[i]

(* At most one image is read at a time, from one source, and the toolbar   *)
(* offers to stop it exactly while it is (stop_image: "the one image       *)
(* source being read"; set_image_loading).                                 *)
OneSourceAtATime ==
    /\ Cardinality({k \in Sources : images.source[k] # 0}) <= 1
    /\ images.loading = (\E k \in Sources : images.source[k] # 0)

(* A body that is captured from the network and one on its way to the RAM  *)
(* disk are never held together (step_network_images).                     *)
OneBodyIsHeld == ~(images.source["network"] # 0 /\ images.writing)

(* A source open belongs to the page on screen and to an image it has not  *)
(* decoded or given up: no page is replaced under a source, and no image   *)
(* that failed or was stopped is asked for again (stop_image).             *)
SourcesServeThePage ==
    \A k \in Sources : LET i == images.source[k] IN
        i # 0 => ~images.pending /\ ~images.failed[i] /\ images.decoded[i] = 0

(* An image the reader can see is never given up for another one, and a    *)
(* stop ends with no source left that the next frame would read on.        *)
VisibleStays == [][\A i \in Images :
    images.decoded[i] # 0 /\ images'.decoded[i] = 0 => Land \/ ~Intersects(images, i, 0)]_images
StopIsStable == [][StopImage => Cardinality({i \in Images : images'.failed[i] # images.failed[i]})
                                = Cardinality({k \in Sources : images.source[k] # 0})]_images
=============================================================================
