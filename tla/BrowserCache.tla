---------------------------- MODULE BrowserCache ----------------------------
(***************************************************************************)
(* The browser's HTTP cache on the RAM disk (browser/src/cache.rs,         *)
(* app/cache_store.rs) and its upkeep between frames (app/browser.rs).     *)
(*                                                                         *)
(* An entry is two files, a record and a body, named after a hash of the   *)
(* address and changed one file operation at a time, a step of a frame at  *)
(* a time; any operation may fail and the volume may be full.  What a body *)
(* holds is told by the version of the response it came from.              *)
(***************************************************************************)
EXTENDS Integers, FiniteSets, SequencesExt

CONSTANTS
    Urls, Hashes, HashOf,  \* function of an address; two may share one
    BucketOf,              \* function of a hash
    Posts,                 \* the addresses forms post to
    Responses,             \* [size |-> in write steps, lifetime |->, revalidate |->]
    Space,                 \* of the volume: a body's steps, and one a record
    MaxTime, MaxVersion,
    None

VARIABLE cache

NoRecord == [url |-> None, version |-> 0, size |-> 0, stored |-> 0, expires |-> 0, used |-> 0,
             revalidate |-> FALSE]
Init ==
    cache = [meta |-> [h \in Hashes |-> None],    \* a record, or one that does not decode
             body |-> [h \in Hashes |-> None],    \* its steps, by version
             write |-> None, reader |-> None, now |-> 0, version |-> 0,
             sweep |-> None, nextSweep |-> 0,
             stale |-> [u \in Urls |-> 0]]       \* what a POST changed, by version

Buckets == Range(BucketOf)
Steps(s) == FoldLeft(LAMBDA sum, h : sum + (IF s.body[h] = None THEN 0 ELSE Len(s.body[h]))
                                         + (IF s.meta[h] = None THEN 0 ELSE 1),
                     0, SetToSeq(Hashes))
Fits(s) == Steps(s) <= Space

---------------------------------------------------------------------------
(* Files (fs/vfs.rs): a file that is open is not removed.                  *)

Open(s, h) == (s.reader # None /\ s.reader.hash = h) \/ (s.write # None /\ s.write.open /\ s.write.hash = h)
RemoveMeta(s, h) == [s EXCEPT !.meta[h] = None]
RemoveBody(s, h) == IF Open(s, h) THEN s ELSE [s EXCEPT !.body[h] = None]
(* The record goes first, so that no record is left without its body.      *)
RemovePaths(s, h) == RemoveBody(RemoveMeta(s, h), h)

---------------------------------------------------------------------------
(* Records *)

IsExpired(record, now) == now >= record.expires
ReusableWithoutRequest(record, now) == ~IsExpired(record, now) /\ ~record.revalidate
Decodes(meta) == meta # None /\ meta.url # None

(* A record of another address under the same name is a miss.              *)
Find(s, url) ==
    LET record == s.meta[HashOf[url]]
    IN  IF Decodes(record) /\ record.url = url THEN record ELSE None

Refreshed(record, now, lifetime, revalidate) ==
    [record EXCEPT !.stored = now, !.used = now,
                   !.expires = now + (IF lifetime = None THEN record.expires - record.stored
                                      ELSE lifetime),
                   !.revalidate = @ \/ revalidate]

(* A record is replaced in place; one that is not written whole does not   *)
(* decode.                                                                 *)
UpdateRecord(s, h, record) ==
    {[s EXCEPT !.meta[h] = record], [s EXCEPT !.meta[h] = NoRecord], s}

---------------------------------------------------------------------------
(* Reading *)

StartRead(s, url, record) ==
    LET h == HashOf[url]
    IN  IF s.body[h] = None \/ Len(s.body[h]) # record.size THEN None
        ELSE [hash |-> h, url |-> url, size |-> record.size, got |-> <<>>,
              revalidated |-> FALSE]
Abandoned(s) == [s EXCEPT !.reader = None]

(* A navigation, or an image of the page: an entry that is fresh is shown, *)
(* one that cannot be read goes, any other is asked about.  Neither starts *)
(* while a body is being written: an image waits for it and a navigation   *)
(* finishes it.                                                            *)
Use(url) ==
    /\ cache.reader = None /\ cache.write = None
    /\ LET record == Find(cache, url)
           read == IF record = None THEN None ELSE StartRead(cache, url, record)
       IN  CASE record = None -> UNCHANGED cache
             [] record # None /\ IsExpired(record, cache.now) ->
                  cache' = RemovePaths(cache, HashOf[url])
             [] OTHER ->
                  IF ~ReusableWithoutRequest(record, cache.now) THEN UNCHANGED cache
                  ELSE IF read = None THEN cache' = RemovePaths(cache, HashOf[url])
                  ELSE \E s \in UpdateRecord([cache EXCEPT !.reader = read], HashOf[url],
                                             [record EXCEPT !.used = cache.now]) :
                           cache' = s

(* 304: the server confirmed the copy its validator named.                 *)
NotModified(url) ==
    /\ cache.reader = None /\ cache.write = None
    /\ LET record == Find(cache, url)
       IN  /\ record # None
           /\ \E said \in {[lifetime |-> None, revalidate |-> FALSE]} \cup Responses :
                LET fresh == Refreshed(record, cache.now, said.lifetime, said.revalidate)
                    read == StartRead(cache, url, fresh)
                IN  \E s \in UpdateRecord(cache, HashOf[url], fresh) :
                        cache' = IF read = None THEN RemovePaths(s, HashOf[url])
                                 ELSE [s EXCEPT !.reader = [read EXCEPT !.revalidated = TRUE]]

Step(s) ==
    LET read == s.reader
        done == Abandoned(s)
        i == Len(read.got) + 1
        body == IF s.body[read.hash] = None THEN <<>> ELSE s.body[read.hash]
        got == [s EXCEPT !.reader.got = Append(@, body[i])]
    IN  CASE i <= Len(body) /\ i <= read.size -> {got}
          [] i <= Len(body) /\ i > read.size -> {RemovePaths(done, read.hash)}
          [] OTHER ->
                IF Len(read.got) # read.size THEN {RemovePaths(done, read.hash)}
                ELSE {done}
StepRead ==
    /\ cache.reader # None
    /\ \E s \in Step(cache) \cup {RemovePaths(Abandoned(cache), cache.reader.hash)} : cache' = s

---------------------------------------------------------------------------
(* Writing *)

Reset(s) ==
    LET closed == [s EXCEPT !.write.open = FALSE, !.write.written = 0]
    IN  RemovePaths(closed, s.write.hash)

(* The old record goes before the body is replaced, so a body half-written *)
(* never has a record vouching for it.                                     *)
MutantOpened(s) == [s EXCEPT !.body[s.write.hash] = IF @ = None THEN <<>> ELSE @,
                       !.write.open = TRUE]
Opened(s) ==
    [RemoveMeta(s, s.write.hash) EXCEPT !.body[s.write.hash] = IF @ = None THEN <<>> ELSE @,
                                       !.write.open = TRUE]
(* The first write is what empties the file.                               *)
Response(record) == <<record.url, record.version>>
Written(s) ==
    LET old == IF s.write.written = 0 THEN <<>> ELSE s.body[s.write.hash]
    IN  [s EXCEPT !.body[s.write.hash] = Append(old, Response(s.write.record)),
                  !.write.written = @ + 1]

(* Other entries found in a bucket: a body without a record, a record that *)
(* does not decode or has no body, and the whole ones                      *)
InBucket(b, keep) == {h \in Hashes : BucketOf[h] = b /\ h # keep}
Stray(s, hs) == {h \in hs : s.body[h] # None /\ s.meta[h] = None}
Broken(s, hs) == {h \in hs : s.meta[h] # None /\ (~Decodes(s.meta[h]) \/ s.body[h] = None)}
Whole(s, hs) == {h \in hs : Decodes(s.meta[h]) /\ s.body[h] # None}
RemoveAll(s, hs) ==
    [s EXCEPT !.meta = [h \in Hashes |-> IF h \in hs THEN None ELSE @[h]],
              !.body = [h \in Hashes |-> IF h \in hs /\ ~Open(s, h) THEN None ELSE @[h]]]

(* Expired entries first; when there were none to take, and nothing stray, *)
(* the one used longest ago.                                               *)
Purged(s, hs) ==
    LET whole == Whole(s, hs)
        expired == {h \in whole : s.meta[h].expires <= s.now}
        oldest == {h \in whole : \A g \in whole : s.meta[h].used <= s.meta[g].used}
    IN  IF expired \cup Stray(s, hs) \cup Broken(s, hs) # {} THEN expired
        ELSE {h \in oldest : h = CHOOSE g \in oldest : TRUE}
(* What a purge reports is what it tried: a body that is open stays.       *)
PurgeForSpace(s) ==
    LET hs == Hashes \ {s.write.hash}
        gone == Purged(s, hs) \cup Stray(s, hs) \cup Broken(s, hs)
    IN  [after |-> RemoveAll(s, gone), removed |-> Cardinality(gone)]

NotKept(s) == [Reset(s) EXCEPT !.write = None]
Stored(s) == [s EXCEPT !.meta[s.write.hash] = s.write.record, !.write = None]
NoSpace(s) ==
    LET purge == PurgeForSpace(Reset(s))
    IN  IF purge.removed = 0 THEN [purge.after EXCEPT !.write = None] ELSE purge.after

(* A fetched body is written from the frame on that finished it.          *)
Keep(url) ==
    /\ cache.version < MaxVersion /\ cache.reader = None /\ cache.write = None
    /\ \E response \in Responses :
         LET write == [hash |-> HashOf[url], open |-> FALSE, written |-> 0,
                       record |-> [url |-> url, version |-> cache.version + 1, size |-> response.size,
                                   stored |-> cache.now, used |-> cache.now,
                                   expires |-> cache.now + response.lifetime,
                                   revalidate |-> response.revalidate]]
             begun == [cache EXCEPT !.version = @ + 1, !.write = write]
         IN  cache' \in {Opened(begun), NotKept(begun)}
(* An answer that may not be kept takes the entry's place all the same.    *)
Forget(url) ==
    /\ cache.reader = None /\ cache.write = None
    /\ cache' = RemovePaths(cache, HashOf[url])

WriteSteps(s) ==
    {NotKept(s)} \cup
    CASE ~s.write.open -> {Opened(s)}
      [] s.write.open /\ s.write.written < s.write.record.size ->
            {IF Fits(Written(s)) THEN Written(s) ELSE NoSpace(s)}
      [] OTHER -> {IF Fits(Stored(s)) THEN Stored(s) ELSE NoSpace(s)}
(* Leaving the browser gives both handles back where they are.             *)
Suspend ==
    /\ cache.reader # None \/ cache.write # None
    /\ cache' = [Abandoned(cache) EXCEPT !.write = None]
StepWrite == cache.write # None /\ cache' \in WriteSteps(cache)

---------------------------------------------------------------------------
(* Upkeep *)

(* A POST that was taken changed what this address answers, a body of it   *)
(* still being written included.                                           *)
IsFor(s, url) == s.write # None /\ s.write.hash = HashOf[url]
Invalidate(url) ==
    LET abandoned == IF IsFor(cache, url) THEN [cache EXCEPT !.write = None] ELSE cache
    IN  cache' = [RemovePaths(abandoned, HashOf[url]) EXCEPT !.stale[url] = cache.version]

(* While nothing is loading and no body is being written, a bucket a step. *)
Sweep ==
    /\ cache.write = None /\ cache.reader = None
    /\ IF cache.sweep = None
       THEN cache.now >= cache.nextSweep /\ cache' = [cache EXCEPT !.sweep = 0]
       ELSE LET hs == InBucket(cache.sweep, None)
                gone == {h \in Whole(cache, hs) : cache.meta[h].expires <= cache.now}
                        \cup Stray(cache, hs) \cup Broken(cache, hs)
                last == cache.sweep + 1 = Cardinality(Buckets)
            IN  cache' = [RemoveAll(cache, gone) EXCEPT
                             !.sweep = IF last THEN None ELSE @ + 1,
                             !.nextSweep = IF last THEN cache.now + 1 ELSE @]

Tick == cache.now < MaxTime /\ cache' = [cache EXCEPT !.now = @ + 1]

Next ==
    \/ \E url \in Urls :
          \/ Use(url) \/ NotModified(url) \/ Keep(url) \/ Forget(url)
          \/ url \in Posts /\ Invalidate(url)
    \/ StepRead \/ Suspend \/ StepWrite \/ Sweep \/ Tick

---------------------------------------------------------------------------
(* Properties *)

TypeOK ==
    /\ \A h \in Hashes : Decodes(cache.meta[h]) => HashOf[cache.meta[h].url] = h
    /\ cache.write # None => cache.write.written <= cache.write.record.size

(* A record vouches for a body that is whole and its own, whatever was     *)
(* abandoned, replaced, purged or ran out of space half way - or for one   *)
(* whose size gives it away.                                               *)
RecordVouches ==
    \A h \in Hashes :
        LET record == cache.meta[h]
            body == cache.body[h]
        IN  Decodes(record) /\ body # None /\ Len(body) = record.size =>
                \A i \in DOMAIN body : body[i] = Response(record)

(* What is read back for a page or an image is one response of its own     *)
(* address from end to end, however the volume was written and purged meanwhile.               *)
ShownIsOneResponse ==
    cache.reader # None =>
        \A i, j \in DOMAIN cache.reader.got :
            /\ cache.reader.got[i] = cache.reader.got[j]
            /\ cache.reader.got[i][1] = cache.reader.url

(* What a POST changed is not found again in its old form.                 *)
NothingStaleIsFound ==
    \A url \in Urls : Find(cache, url) # None => Find(cache, url).version > cache.stale[url]

(* Space is taken from what expired, then from what was used longest ago.  *)
PurgeTakesTheOldest ==
    [][cache.write # None =>
        \A g, h \in Hashes \ {cache.write.hash} :
            /\ Decodes(cache.meta[g]) /\ Decodes(cache.meta[h])
            /\ cache.body[g] # None /\ cache.body[h] # None
            /\ cache'.meta[h] = None /\ cache'.meta[g] = cache.meta[g]
            /\ cache.meta[h].expires > cache.now
            /\ (cache'.write = None \/ cache'.write.hash = cache.write.hash) /\ cache'.stale = cache.stale
            => cache.meta[h].used <= cache.meta[g].used]_cache

(* A write that waits for space goes on only when something was given up,  *)
(* so it ends.                                                             *)
WritesMakeProgress ==
    [][cache.write # None /\ cache'.write # None =>
        \/ cache'.write.written >= cache.write.written
        \/ \E h \in Hashes \ {cache.write.hash} :
              \/ cache.body[h] # None /\ cache'.body[h] = None
              \/ cache.meta[h] # None /\ cache'.meta[h] = None]_cache
=============================================================================
