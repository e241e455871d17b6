----------------------------- MODULE HostedLink -----------------------------
(***************************************************************************)
(* The ESP-Hosted transport to the Wi-Fi coprocessor (wifi/hosted.rs).     *)
(*                                                                         *)
(* The host polls.  What it may read, and how many buffers it may fill, it *)
(* learns from two free-running counters of the slave, read a byte at a    *)
(* time, and from its own counts of what it has read and filled; nothing   *)
(* else keeps the two sides in step.  Lengths are counted in blocks, and a *)
(* frame is its length and its number.                                     *)
(***************************************************************************)
EXTENDS Integers, Sequences, FiniteSetTheorems, SequenceTheorems, TLAPS

CONSTANTS
    Sizes,       \* lengths of frames
    Radix,       \* values of one byte of a register
    RxByteMax,   \* where the slave's byte counter wraps: Radix ^ 2
    TxBufferMax, \* where the slave's buffer counter wraps
    Staging,     \* what one read may bring
    MaxUnread,   \* what the slave holds unread, < RxByteMax
    Pool,        \* the slave's receive buffers, < TxBufferMax
    Numbers      \* frames are numbered modulo this

VARIABLE link

LinkLostAfterFailures == 3
ReadAttempts == 4

Sums(frames) ==
    LET sum[n \in 0 .. Len(frames)] == IF n = 0 THEN 0 ELSE sum[n - 1] + frames[n].length
    IN  sum
Total(frames) == Sums(frames)[Len(frames)]
Next1(number) == (number + 1) % Numbers

(* What is in the slave is lost with its reset: its counters, too, start   *)
(* again at zero.                                                          *)
Down == [phase |-> "down",
         unread |-> <<>>, produced |-> 0, freed |-> Pool, busy |-> 0, number |-> 0,
         rx |-> 0, tx |-> 0, staged |-> <<>>, failures |-> 0, lost |-> FALSE,
         throttled |-> FALSE, got |-> Numbers - 1, cut |-> FALSE]
Init == link = Down

---------------------------------------------------------------------------
(* The slave (external) *)

LoadFrame(s, length, kind) ==
    [s EXCEPT !.unread = Append(@, [length |-> length, number |-> s.number, kind |-> kind]),
              !.produced = (@ + length) % RxByteMax,
              !.number = Next1(@)]
Load(length) ==
    /\ link.phase = "up"
    /\ Total(link.unread) + length <= MaxUnread
    /\ link' = LoadFrame(link, length, "data")
Introduce ==
    /\ link.phase = "opened" /\ link.unread = <<>> /\ link.staged = <<>>
    /\ \E before \in BOOLEAN, length \in Sizes :
           link' = IF before THEN LoadFrame(link, length, "data") ELSE LoadFrame(link, 1, "init")
Free ==
    /\ link.busy > 0
    /\ link' = [link EXCEPT !.busy = @ - 1, !.freed = (@ + 1) % TxBufferMax]

---------------------------------------------------------------------------
(* Registers *)

(* A register is read low byte first, pass after pass, until two passes    *)
(* agree.  It changes once meanwhile, from old to new, after `at` bytes    *)
(* have been read.                                                         *)
Pass(old, new, at, k) ==
    LET low == IF 2 * k < at THEN old ELSE new
        high == IF 2 * k + 1 < at THEN old ELSE new
    IN  (low % Radix) + Radix * (high \div Radix)
MutantReadTwice(old, new, at) == Pass(old, new, at, 0)
ReadTwice(old, new, at) ==
    LET agreed == {k \in 1 .. ReadAttempts : Pass(old, new, at, k) = Pass(old, new, at, k - 1)}
    IN  Pass(old, new, at, CHOOSE k \in agreed : \A j \in agreed : k <= j)

ReadFails(s) ==
    [s EXCEPT !.failures = @ + 1, !.lost = @ \/ s.failures + 1 >= LinkLostAfterFailures]
ReadSucceeds(s) == [s EXCEPT !.failures = 0]

(* bits: what the slave has raised since, or that it did not answer       *)
ServiceInterrupts(s, bits) ==
    IF bits = {"no answer"} THEN ReadFails(s)
    ELSE [ReadSucceeds(s) EXCEPT !.throttled = (@ \/ "start" \in bits) /\ "stop" \notin bits]

---------------------------------------------------------------------------
(* Receiving *)

PendingLength(s, produced) ==
    IF produced >= s.rx THEN produced - s.rx ELSE RxByteMax - s.rx + produced

(* The frames a read of a length brings, if they add up to it              *)
Prefix(frames, length) ==
    {k \in 0 .. Len(frames) : Total(SubSeq(frames, 1, k)) = length}

(* transfer: all chunks of the read go through, or only some, or none     *)
Fill(s, length, transfer) ==
    CASE length = 0 -> s
      [] length > Staging -> [s EXCEPT !.lost = TRUE]
      [] length \in 1 .. Staging /\ transfer = "none" -> s
      [] length \in 1 .. Staging /\ transfer = "some" -> [s EXCEPT !.cut = TRUE]
      [] OTHER ->
            LET fits == Prefix(s.unread, length)
                k == IF fits = {} THEN 0 ELSE CHOOSE j \in fits : TRUE
            IN  [s EXCEPT !.rx = (@ + length) % RxByteMax,
                          !.staged = SubSeq(s.unread, 1, k),
                          !.unread = SubSeq(s.unread, k + 1, Len(s.unread))]

(* A frame that does not decode takes the rest of the read with it.        *)
TakeFrame(s) ==
    IF s.staged = <<>> THEN {s}
    ELSE {[s EXCEPT !.staged = Tail(@), !.got = Head(s.staged).number],
          [s EXCEPT !.staged = <<>>, !.got = s.staged[Len(s.staged)].number]}

Room(s) == {size \in Sizes : s.phase = "up" /\ Total(s.unread) + size <= MaxUnread}

(* What has come is read at once, whichever pass of the counter saw it.    *)
Transfer(s, loaded) ==
    {Fill(ReadSucceeds(loaded), PendingLength(loaded, ReadTwice(s.produced, loaded.produced, at)), transfer) :
         at \in 1 .. 7, transfer \in {"all", "some", "none"}}
(* late: what the slave loads while its counter is being read              *)
Loaded(s, late) == IF late = 0 THEN s ELSE LoadFrame(s, late, "data")
ReadCounter(s) ==
    IF s.lost THEN {s}
    ELSE {ReadFails(s)} \cup UNION {Transfer(s, Loaded(s, late)) : late \in {0} \cup Room(s)}
FillBuffer(s) ==
    UNION {ReadCounter(ServiceInterrupts(s, bits)) :
               bits \in {{}, {"start"}, {"stop"}, {"start", "stop"}, {"no answer"}}}

Receive(s) == UNION {TakeFrame(t) : t \in IF s.staged = <<>> THEN FillBuffer(s) ELSE {s}}

Poll == /\ link.phase = "up" /\ ~link.lost
        /\ link' \in Receive(link)

---------------------------------------------------------------------------
(* Sending *)

Available(s) == (s.freed + TxBufferMax - s.tx) % TxBufferMax
Sent(s) == [s EXCEPT !.tx = (@ + 1) % TxBufferMax, !.busy = @ + 1]
(* A frame is never longer than a buffer.                                 *)
Send ==
    /\ link.phase = "up" /\ ~link.lost
    /\ \E register, transfer \in BOOLEAN :
           link' = CASE ~register -> ReadFails(link)
                     [] register /\ (Available(link) < 1 \/ ~transfer) -> ReadSucceeds(link)
                     [] OTHER -> Sent(ReadSucceeds(link))

---------------------------------------------------------------------------
(* Bring-up *)

(* The coprocessor is reset and asked to open its data path.               *)
Open(s) == [Down EXCEPT !.phase = "opened"]
BringUp ==
    /\ link.phase = "down" \/ link.lost
    /\ link' = Open(link)

(* The first frame on the private channel must be the slave's introduction *)
(* and is answered with the host's capabilities.                           *)
Introduced(s) ==
    LET taken == Len(s.staged) < Len(link.staged) \/ s.unread # link.unread
        init == s.got # link.got /\ taken
                /\ LET frames == link.staged \o link.unread
                   IN  \E i \in 1 .. Len(frames) : frames[i].number = s.got /\ frames[i].kind = "init"
    IN  CASE ~init -> s
          [] init /\ Available(s) >= 1 -> [Sent(s) EXCEPT !.phase = "up"]
          [] OTHER -> Down
AwaitInit == /\ link.phase = "opened" /\ ~link.lost
             /\ \E s \in Receive(link) : link' = Introduced(s)
GiveUp == link.phase = "opened" /\ link' = Down

Next ==
    \/ \E length \in Sizes : Load(length)
    \/ Introduce \/ Free
    \/ Poll \/ Send
    \/ BringUp \/ AwaitInit \/ GiveUp

Spec == Init /\ [][Next]_link

---------------------------------------------------------------------------
(* Properties *)

TypeOK ==
    /\ link.phase \in {"down", "opened", "up"}
    /\ link.rx \in 0 .. RxByteMax - 1 /\ link.tx \in 0 .. TxBufferMax - 1
    /\ link.failures <= LinkLostAfterFailures
    /\ Total(link.staged) <= Staging

(* Whatever the counters wrap at and whenever they move while they are     *)
(* read, the host's count and the slave's differ by what is unread, and    *)
(* what has been read is whole frames; a read that broke off in the middle *)
(* is the exception the code does not recover from.                        *)
InStep ==
    ~link.lost /\ ~link.cut =>
        (link.produced + RxByteMax - link.rx) % RxByteMax = Total(link.unread)

(* Frames come in the order they were sent, none twice and none missing    *)
(* but those a frame that did not decode took with it.                     *)
InOrder ==
    ~link.cut /\ link.staged \o link.unread # <<>> =>
        Head(link.staged \o link.unread).number = Next1(link.got)

(* The host never fills more buffers than the slave has, and knows of each *)
(* one that is free.                                                       *)
BuffersInStep == link.busy <= Pool /\ Available(link) = Pool - link.busy
---------------------------------------------------------------------------
(* Proofs: the properties for any sizes of frames, wherever the counters   *)
(* wrap, however the numbers of the frames wrap.  What one poll does is a  *)
(* chain of functions of the link, so the invariant is a predicate of it   *)
(* that each keeps.  A read brings whole frames because the counter that   *)
(* was read is either the old one or the new one (ReadTwiceIsARead), and   *)
(* both are ends of frames.                                                *)

\* What the theorems assume of the constants: a counter does not wrap within
\* what it counts, and every frame fits into the slave.
Limits ==
    /\ Radix \in Nat \ {0} /\ Numbers \in Nat \ {0} /\ Staging \in Nat
    /\ MaxUnread \in Nat \ {0} /\ RxByteMax \in Nat /\ MaxUnread < RxByteMax
    /\ Pool \in Nat /\ TxBufferMax \in Nat /\ Pool < TxBufferMax
    /\ Sizes \subseteq 1 .. MaxUnread

Frames == [length : Nat, number : Nat, kind : {"data", "init"}]
Links == [phase : {"down", "opened", "up"},
          unread : Seq(Frames), produced : 0 .. RxByteMax - 1, freed : 0 .. TxBufferMax - 1,
          busy : 0 .. Pool, number : Nat,
          rx : 0 .. RxByteMax - 1, tx : 0 .. TxBufferMax - 1, staged : Seq(Frames),
          failures : 0 .. LinkLostAfterFailures, lost : BOOLEAN,
          throttled : BOOLEAN, got : Nat, cut : BOOLEAN]

\* A link that is in use has not failed too often, and no buffer is overrun.
Bounded(s) ==
    /\ ~s.lost => s.failures < LinkLostAfterFailures
    /\ Total(s.unread) <= MaxUnread /\ Total(s.staged) <= Staging

\* The counters of both sides.
Counted(s) ==
    /\ ~s.lost /\ ~s.cut => (s.produced + RxByteMax - s.rx) % RxByteMax = Total(s.unread)
    /\ Available(s) = Pool - s.busy

\* Frames are numbered one after the other, from the last the host has got to
\* the next the slave will send.
Numbered(got, frames, next) ==
    /\ \A i \in 1 .. Len(frames) :
           frames[i].number = Next1(IF i = 1 THEN got ELSE frames[i - 1].number)
    /\ next = Next1(IF frames = <<>> THEN got ELSE frames[Len(frames)].number)

Sound(s) ==
    /\ s \in Links /\ Bounded(s) /\ Counted(s)
    /\ Numbered(s.got, s.staged \o s.unread, s.number)

\* The inductive invariant.
IInv == Sound(link)

---------------------------------------------------------------------------
(* Sums *)

\* A set of numbers that is not empty has a least one: the segment up to any
\* member is finite.
LEMMA LeastNumber ==
  ASSUME NEW T \in SUBSET Nat, T # {}
  PROVE  \E x \in T : \A y \in T : x <= y
<1> DEFINE D == {0 .. x : x \in T}
           R == StrictSubsetOrdering(Nat)
<1>1. D \subseteq FiniteSubsetsOf(Nat)
  <2>1. \A x \in T : IsFiniteSet(0 .. x) /\ 0 .. x \subseteq Nat
    BY FS_Interval
  <2> QED BY <2>1 DEF FiniteSubsetsOf
<1>2. PICK d \in D : \A e \in D : ~ (<<e, d>> \in R)
  <2> HIDE DEF R
  <2>1. D # {}
    OBVIOUS
  <2>2. IsWellFoundedOn(R, FiniteSubsetsOf(Nat))
    BY FS_StrictSubsetOrderingWellFounded DEF R
  <2> QED BY <1>1, <2>1, <2>2, WFMin
<1>3. PICK x \in T : d = 0 .. x
  BY <1>2
<1>4. ASSUME NEW y \in T, ~(x <= y) PROVE FALSE
  <2>1. 0 .. y \subseteq 0 .. x /\ x \in 0 .. x /\ x \notin 0 .. y
    BY <1>4
  <2>2. 0 .. y \in D
    OBVIOUS
  <2>3. <<0 .. y, d>> \in R
    BY <2>1, <1>3 DEF StrictSubsetOrdering
  <2> QED BY <2>2, <2>3, <1>2
<1> QED BY <1>4

\* Induction over the numbers, about a set, so that it takes no operator.
LEMMA Induction ==
  ASSUME NEW T \in SUBSET Nat, 0 \in T, \A n \in Nat : n \in T => n + 1 \in T
  PROVE  T = Nat
<1> SUFFICES ASSUME Nat \ T # {} PROVE FALSE
  OBVIOUS
<1>1. PICK x \in Nat \ T : \A y \in Nat \ T : x <= y
  BY LeastNumber
<1>2. x # 0 /\ x - 1 \in Nat
  BY <1>1
<1>3. x - 1 \in T
  BY <1>1, <1>2
<1> QED BY <1>1, <1>2, <1>3


SumsOf(sums, n, frames) ==
    sums = [k \in 0 .. n |-> IF k = 0 THEN 0 ELSE sums[k - 1] + frames[k].length]

\* The sums of a sequence exist, by induction over how many there are.
LEMMA SumsExist ==
  ASSUME NEW frames
  PROVE  \A n \in Nat : \E sums : SumsOf(sums, n, frames)
<1> DEFINE T == {n \in Nat : \E sums : SumsOf(sums, n, frames)}
<1>1. 0 \in T
  <2>1. SumsOf([k \in 0 .. 0 |-> 0], 0, frames)
    BY DEF SumsOf
  <2> QED BY <2>1
<1>2. ASSUME NEW n \in Nat, n \in T PROVE n + 1 \in T
  <2>1. PICK f : SumsOf(f, n, frames)
    BY <1>2
  <2> DEFINE g == [k \in 0 .. n + 1 |-> IF k = n + 1 THEN f[n] + frames[n + 1].length ELSE f[k]]
  <2>2. ASSUME NEW k \in 0 .. n + 1
        PROVE  g[k] = IF k = 0 THEN 0 ELSE g[k - 1] + frames[k].length
    <3>1. CASE k = n + 1
      <4>1. g[k] = f[n] + frames[n + 1].length /\ g[k - 1] = f[n]
        BY <3>1
      <4> QED BY <3>1, <4>1
    <3>2. CASE k # n + 1
      <4>1. k \in 0 .. n /\ g[k] = f[k]
        BY <3>2
      <4>2. k # 0 => g[k - 1] = f[k - 1]
        BY <4>1
      <4>3. f[k] = IF k = 0 THEN 0 ELSE f[k - 1] + frames[k].length
        BY <2>1, <4>1 DEF SumsOf
      <4> QED BY <4>1, <4>2, <4>3
    <3> QED BY <3>1, <3>2
  <2>3. SumsOf(g, n + 1, frames)
    <3>1. g = [k \in 0 .. n + 1 |-> g[k]]
      OBVIOUS
    <3> HIDE DEF g
    <3> QED BY <3>1, <2>2 DEF SumsOf
  <2> QED BY <2>3
<1> HIDE DEF T
<1>3. T = Nat
  BY <1>1, <1>2, Induction DEF T
<1> QED BY <1>3 DEF T

\* The sums are what their definition says.
LEMMA SumsEquation ==
  ASSUME NEW frames \in Seq(Frames)
  PROVE  /\ Sums(frames)[0] = 0
         /\ \A k \in 1 .. Len(frames) : Sums(frames)[k] = Sums(frames)[k - 1] + frames[k].length
<1> DEFINE n == Len(frames)
<1>1. n \in Nat
  OBVIOUS
<1>2. Sums(frames) = CHOOSE sums : SumsOf(sums, n, frames)
  BY DEF Sums, SumsOf
<1> HIDE DEF n
<1>3. SumsOf(Sums(frames), n, frames)
  BY <1>1, <1>2, SumsExist
<1>4. Sums(frames)[0] = 0
  BY <1>1, <1>3 DEF SumsOf
<1>5. ASSUME NEW k \in 1 .. n
      PROVE  Sums(frames)[k] = Sums(frames)[k - 1] + frames[k].length
  BY <1>1, <1>3 DEF SumsOf
<1> QED BY <1>4, <1>5 DEF n

\* Where a sequence goes along with a part of another, so do the sums.
LEMMA SumsAgree ==
  ASSUME NEW p \in Seq(Frames), NEW q \in Seq(Frames), NEW a \in Nat, a + Len(p) <= Len(q),
         Sums(q)[a] \in Nat, \A i \in 1 .. Len(p) : p[i] = q[a + i]
  PROVE  Total(p) \in Nat /\ Sums(q)[a + Len(p)] = Sums(q)[a] + Total(p)
<1> DEFINE T == {k \in Nat : k <= Len(p) =>
                   Sums(p)[k] \in Nat /\ Sums(q)[a + k] = Sums(q)[a] + Sums(p)[k]}
<1>1. 0 \in T
  BY SumsEquation
<1>2. ASSUME NEW k \in Nat, k \in T PROVE k + 1 \in T
  <2> SUFFICES ASSUME k + 1 <= Len(p)
               PROVE  /\ Sums(p)[k + 1] \in Nat
                      /\ Sums(q)[a + (k + 1)] = Sums(q)[a] + Sums(p)[k + 1]
    OBVIOUS
  <2>1. Sums(p)[k] \in Nat /\ Sums(q)[a + k] = Sums(q)[a] + Sums(p)[k]
    BY <1>2
  <2>2. k + 1 \in 1 .. Len(p) /\ (k + 1) - 1 = k
    OBVIOUS
  <2>3. Sums(p)[k + 1] = Sums(p)[k] + p[k + 1].length
    BY <2>2, SumsEquation
  <2>4. a + (k + 1) \in 1 .. Len(q) /\ (a + (k + 1)) - 1 = a + k
    OBVIOUS
  <2>5. Sums(q)[a + (k + 1)] = Sums(q)[a + k] + q[a + (k + 1)].length
    BY <2>4, SumsEquation
  <2>6. p[k + 1].length \in Nat /\ q[a + (k + 1)] = p[k + 1]
    <3>1. p[k + 1] \in Frames
      BY <2>2
    <3> QED BY <2>2, <3>1 DEF Frames
  <2> QED BY <2>1, <2>3, <2>5, <2>6, SMTT(30)
<1> HIDE DEF T
<1>3. T = Nat
  BY <1>1, <1>2, Induction DEF T
<1>4. Len(p) \in T
  BY <1>3
<1> QED BY <1>4 DEF T, Total

\* A total is a number.
LEMMA TotalNat ==
  ASSUME NEW q \in Seq(Frames)
  PROVE  Total(q) \in Nat
<1>1. Sums(q)[0] \in Nat
  BY SumsEquation
<1> QED BY <1>1, SumsAgree

LEMMA TotalEmpty == Total(<<>>) = 0
<1>1. <<>> \in Seq(Frames) /\ Len(<<>>) = 0
  OBVIOUS
<1> QED BY <1>1, SumsEquation DEF Total

\* One more frame.
LEMMA TotalAppend ==
  ASSUME NEW q \in Seq(Frames), NEW f \in Frames
  PROVE  Append(q, f) \in Seq(Frames) /\ Total(Append(q, f)) = Total(q) + f.length
<1> DEFINE all == Append(q, f)
<1>1. /\ all \in Seq(Frames) /\ Len(all) = Len(q) + 1 /\ all[Len(q) + 1] = f
      /\ \A i \in 1 .. Len(q) : q[i] = all[i]
  OBVIOUS
<1> HIDE DEF all
<1>2. Sums(all)[0] = 0
  BY <1>1, SumsEquation
<1>3. Sums(all)[Len(q)] = Total(q)
  <2>1. 0 + Len(q) <= Len(all) /\ \A i \in 1 .. Len(q) : q[i] = all[0 + i]
    BY <1>1
  <2>2. Total(q) \in Nat /\ Sums(all)[0 + Len(q)] = Sums(all)[0] + Total(q)
    BY <1>1, <1>2, <2>1, SumsAgree
  <2> QED BY <1>2, <2>2
<1>4. Sums(all)[Len(q) + 1] = Sums(all)[Len(q)] + f.length
  <2>1. Len(q) + 1 \in 1 .. Len(all) /\ (Len(q) + 1) - 1 = Len(q)
    BY <1>1
  <2> QED BY <1>1, <2>1, SumsEquation
<1> QED BY <1>1, <1>3, <1>4 DEF Total, all

\* What a read takes and what it leaves are all there was.
LEMMA TotalSplit ==
  ASSUME NEW q \in Seq(Frames), NEW k \in 0 .. Len(q)
  PROVE  /\ SubSeq(q, 1, k) \in Seq(Frames) /\ SubSeq(q, k + 1, Len(q)) \in Seq(Frames)
         /\ Total(SubSeq(q, 1, k)) \in Nat /\ Total(SubSeq(q, k + 1, Len(q))) \in Nat
         /\ Total(SubSeq(q, 1, k)) + Total(SubSeq(q, k + 1, Len(q))) = Total(q)
         /\ SubSeq(q, 1, k) \o SubSeq(q, k + 1, Len(q)) = q
<1> DEFINE p == SubSeq(q, 1, k)
           r == SubSeq(q, k + 1, Len(q))
<1>0. k \in Nat /\ Len(q) \in Nat /\ k <= Len(q)
  OBVIOUS
<1>1. /\ p \in Seq(Frames) /\ Len(p) = k /\ \A i \in 1 .. k : p[i] = q[i]
      /\ r \in Seq(Frames) /\ Len(r) = Len(q) - k /\ \A i \in 1 .. Len(q) - k : r[i] = q[k + i]
  OBVIOUS
<1> HIDE DEF p, r
<1>2. SubSeq(q, 1, k) \o SubSeq(q, k + 1, Len(q)) = q
  <2>1. /\ 1 \in 1 .. Len(q) + 1 /\ k \in 1 - 1 .. Len(q) /\ Len(q) \in k .. Len(q)
        /\ q \in Seq(Frames)
    BY <1>0
  <2>2. SubSeq(q, 1, k) \o SubSeq(q, k + 1, Len(q)) = SubSeq(q, 1, Len(q))
    BY <2>1, ConcatAdjacentSubSeq
  <2> QED BY <2>2, SubSeqFull
<1>3. Sums(q)[0] = 0
  BY SumsEquation
<1>4. Total(p) \in Nat /\ Sums(q)[k] = Total(p)
  <2>1. 0 + Len(p) <= Len(q) /\ \A i \in 1 .. Len(p) : p[i] = q[0 + i]
    BY <1>0, <1>1
  <2>2. Total(p) \in Nat /\ Sums(q)[0 + Len(p)] = Sums(q)[0] + Total(p)
    BY <1>0, <1>1, <1>3, <2>1, SumsAgree, SMTT(30)
  <2> QED BY <1>0, <1>1, <1>3, <2>2
<1>5. Total(r) \in Nat /\ Total(q) = Total(p) + Total(r)
  <2>1. k + Len(r) = Len(q) /\ \A i \in 1 .. Len(r) : r[i] = q[k + i]
    BY <1>0, <1>1
  <2>2. Total(r) \in Nat /\ Sums(q)[k + Len(r)] = Sums(q)[k] + Total(r)
    <3>1. k + Len(r) <= Len(q) /\ Sums(q)[k] \in Nat
      BY <1>0, <1>1, <1>4, <2>1
    <3> QED BY <1>0, <1>1, <2>1, <3>1, SumsAgree
  <2> QED BY <1>4, <2>1, <2>2 DEF Total
<1> QED BY <1>0, <1>1, <1>2, <1>4, <1>5 DEF p, r

\* A prefix that is all, and the rest behind the first frame.
LEMMA TotalTail ==
  ASSUME NEW q \in Seq(Frames), q # <<>>
  PROVE  Tail(q) \in Seq(Frames) /\ Total(Tail(q)) <= Total(q)
<1>1. Tail(q) = SubSeq(q, 1 + 1, Len(q)) /\ 1 \in 0 .. Len(q)
  OBVIOUS
<1>2. /\ Total(SubSeq(q, 1, 1)) \in Nat /\ Total(Tail(q)) \in Nat /\ Tail(q) \in Seq(Frames)
      /\ Total(SubSeq(q, 1, 1)) + Total(Tail(q)) = Total(q)
  BY <1>1, TotalSplit
<1> QED BY <1>2

---------------------------------------------------------------------------
(* Registers *)

\* A pass during which the register did not change reads what it held.
LEMMA PassReads ==
  ASSUME Radix \in Nat \ {0}, NEW old \in Nat, NEW new \in Nat, NEW at \in 1 .. 7, NEW k \in 0 .. ReadAttempts
  PROVE  /\ at # 2 * k + 1 => Pass(old, new, at, k) \in {old, new}
         /\ at <= 2 * k => Pass(old, new, at, k) = new
         /\ at > 2 * k + 1 => Pass(old, new, at, k) = old
<1>1. ASSUME NEW x \in Nat PROVE (x % Radix) + Radix * (x \div Radix) = x
  BY SMTT(30)
<1>2. k \in Nat /\ at \in Nat
  BY DEF ReadAttempts
<1>3. CASE at <= 2 * k
  <2>1. ~(2 * k < at) /\ ~(2 * k + 1 < at)
    BY <1>2, <1>3
  <2>2. Pass(old, new, at, k) = (new % Radix) + Radix * (new \div Radix)
    BY <2>1, Zenon DEF Pass
  <2> QED BY <1>1, <1>2, <1>3, <2>2
<1>4. CASE at > 2 * k + 1
  <2>1. 2 * k < at /\ 2 * k + 1 < at
    BY <1>2, <1>4
  <2>2. Pass(old, new, at, k) = (old % Radix) + Radix * (old \div Radix)
    BY <2>1, Zenon DEF Pass
  <2> QED BY <1>1, <1>2, <1>4, <2>2
<1> QED BY <1>2, <1>3, <1>4

\* What two passes agree on is what the register held before or after: one of
\* the two passes did not see it change.  And two of the passes agree.
LEMMA ReadTwiceIsARead ==
  ASSUME Radix \in Nat \ {0}, NEW old \in Nat, NEW new \in Nat, NEW at \in 1 .. 7
  PROVE  ReadTwice(old, new, at) \in {old, new}
<1> DEFINE agreed == {k \in 1 .. ReadAttempts : Pass(old, new, at, k) = Pass(old, new, at, k - 1)}
           first == CHOOSE k \in agreed : \A j \in agreed : k <= j
<1>1. \E k \in agreed : \A j \in agreed : k <= j
  <2>1. at > 3 \/ at <= 4
    OBVIOUS
  <2>2. CASE at > 3
    <3>1. 0 \in 0 .. ReadAttempts /\ 1 \in 0 .. ReadAttempts /\ at > 2 * 0 + 1 /\ at > 2 * 1 + 1
      BY <2>2 DEF ReadAttempts
    <3>2. Pass(old, new, at, 1) = old /\ Pass(old, new, at, 0) = old
      BY <3>1, PassReads
    <3>3. 1 \in agreed
      BY <3>2 DEF ReadAttempts
    <3> QED BY <3>3
  <2>3. CASE at <= 4
    <3>1. 2 \in 0 .. ReadAttempts /\ 3 \in 0 .. ReadAttempts /\ at <= 2 * 2 /\ at <= 2 * 3
      BY <2>3 DEF ReadAttempts
    <3>2. Pass(old, new, at, 3) = new /\ Pass(old, new, at, 2) = new
      BY <3>1, PassReads
    <3>3. 3 \in agreed
      BY <3>2 DEF ReadAttempts
    <3>4. agreed \subseteq {1, 2, 3, 4}
      BY DEF ReadAttempts
    <3> HIDE DEF agreed
    <3>5. CASE 1 \in agreed
      BY <3>4, <3>5
    <3>6. CASE 1 \notin agreed /\ 2 \in agreed
      BY <3>4, <3>6
    <3>7. CASE 1 \notin agreed /\ 2 \notin agreed
      BY <3>3, <3>4, <3>7
    <3> QED BY <3>5, <3>6, <3>7
  <2> QED BY <2>1, <2>2, <2>3
<1>2. first \in agreed
  BY <1>1
<1>3. ReadTwice(old, new, at) = Pass(old, new, at, first)
  BY DEF ReadTwice
<1> HIDE DEF first
<1>4. /\ first \in 1 .. ReadAttempts /\ first \in 0 .. ReadAttempts /\ first - 1 \in 0 .. ReadAttempts
      /\ Pass(old, new, at, first) = Pass(old, new, at, first - 1)
  BY <1>2 DEF ReadAttempts
<1>5. at # 2 * first + 1 \/ at # 2 * (first - 1) + 1
  BY <1>4 DEF ReadAttempts
<1>6. CASE at # 2 * first + 1
  BY <1>3, <1>4, <1>6, PassReads
<1>7. CASE at # 2 * (first - 1) + 1
  <2>1. Pass(old, new, at, first - 1) \in {old, new}
    BY <1>4, <1>7, PassReads
  <2> QED BY <1>3, <1>4, <2>1
<1> QED BY <1>5, <1>6, <1>7

---------------------------------------------------------------------------
(* The numbers of the frames *)

LEMMA AppendBehind ==
  ASSUME NEW p \in Seq(Frames), NEW q \in Seq(Frames), NEW f \in Frames
  PROVE  p \o Append(q, f) = Append(p \o q, f)
<1>1. <<f>> \in Seq(Frames) /\ p \o q \in Seq(Frames)
  BY ConcatProperties
<1>2. Append(q, f) = q \o <<f>> /\ Append(p \o q, f) = (p \o q) \o <<f>>
  BY <1>1, AppendIsConcat
<1>3. (p \o q) \o <<f>> = p \o (q \o <<f>>)
  <2>1. \A S : \A x, y, z \in Seq(S) : (x \o y) \o z = x \o (y \o z)
    BY ConcatAssociative
  <2> QED BY <1>1, <2>1
<1> QED BY <1>2, <1>3

\* One more frame, with the next number.
LEMMA NumberedAppend ==
  ASSUME NEW got, NEW q \in Seq(Frames), NEW f \in Frames, Numbered(got, q, f.number)
  PROVE  Numbered(got, Append(q, f), Next1(f.number))
<1> DEFINE all == Append(q, f)
<1>1. /\ all \in Seq(Frames) /\ all # <<>> /\ Len(all) = Len(q) + 1 /\ all[Len(q) + 1] = f
      /\ \A i \in 1 .. Len(q) : all[i] = q[i]
      /\ Len(q) \in Nat /\ (q = <<>> <=> Len(q) = 0)
  BY AppendProperties, EmptySeq
<1> HIDE DEF all
<1>2. ASSUME NEW i \in 1 .. Len(all)
      PROVE  all[i].number = Next1(IF i = 1 THEN got ELSE all[i - 1].number)
  <2>1. CASE i = Len(q) + 1
    <3>1. f.number = Next1(IF q = <<>> THEN got ELSE q[Len(q)].number)
      BY DEF Numbered
    <3>2. q # <<>> => i # 1 /\ all[i - 1] = q[Len(q)]
      BY <1>1, <2>1
    <3> QED BY <1>1, <2>1, <3>1, <3>2
  <2>2. CASE i # Len(q) + 1
    <3>1. i \in 1 .. Len(q) /\ (i # 1 => i - 1 \in 1 .. Len(q))
      BY <1>1, <2>2
    <3>2. q[i].number = Next1(IF i = 1 THEN got ELSE q[i - 1].number)
      BY <3>1 DEF Numbered
    <3> QED BY <1>1, <3>1, <3>2
  <2> QED BY <2>1, <2>2
<1>3. Next1(f.number) = Next1(IF all = <<>> THEN got ELSE all[Len(all)].number)
  BY <1>1
<1> QED BY <1>2, <1>3 DEF Numbered, all

\* After the host has taken the first frames the rest go on from the last of them.
LEMMA NumberedRest ==
  ASSUME NEW got, NEW p \in Seq(Frames), NEW q \in Seq(Frames), NEW next, p # <<>>,
         Numbered(got, p \o q, next)
  PROVE  Numbered(p[Len(p)].number, q, next)
<1> DEFINE all == p \o q
<1>1. /\ all \in Seq(Frames) /\ Len(all) = Len(p) + Len(q) /\ Len(p) \in Nat \ {0} /\ Len(q) \in Nat
      /\ \A i \in 1 .. Len(p) + Len(q) : all[i] = IF i <= Len(p) THEN p[i] ELSE q[i - Len(p)]
      /\ (q = <<>> <=> Len(q) = 0) /\ (all = <<>> <=> Len(all) = 0)
  BY ConcatProperties, EmptySeq
<1>2. Numbered(got, all, next)
  OBVIOUS
<1> HIDE DEF all
<1>3. ASSUME NEW i \in 1 .. Len(q)
      PROVE  q[i].number = Next1(IF i = 1 THEN p[Len(p)].number ELSE q[i - 1].number)
  <2>1. Len(p) + i \in 1 .. Len(all) /\ Len(p) + i # 1 /\ (Len(p) + i) - 1 \in 1 .. Len(all)
    BY <1>1
  <2>2. all[Len(p) + i].number = Next1(all[(Len(p) + i) - 1].number)
    BY <1>2, <2>1 DEF Numbered
  <2>3. all[Len(p) + i] = q[i]
    BY <1>1, <2>1
  <2>4. CASE i = 1
    <3>1. all[(Len(p) + i) - 1] = p[Len(p)]
      BY <1>1, <2>4
    <3> QED BY <2>2, <2>3, <2>4, <3>1
  <2>5. CASE i # 1
    <3>1. all[(Len(p) + i) - 1] = q[i - 1]
      BY <1>1, <2>1, <2>5
    <3> QED BY <2>2, <2>3, <2>5, <3>1
  <2> QED BY <2>4, <2>5
<1>4. next = Next1(IF q = <<>> THEN p[Len(p)].number ELSE q[Len(q)].number)
  <2>1. next = Next1(all[Len(all)].number)
    BY <1>1, <1>2 DEF Numbered
  <2>2. Len(all) \in 1 .. Len(p) + Len(q)
    BY <1>1
  <2>3. CASE q = <<>>
    <3>1. all[Len(all)] = p[Len(p)]
      BY <1>1, <2>2, <2>3
    <3> QED BY <2>1, <2>3, <3>1
  <2>4. CASE q # <<>>
    <3>1. all[Len(all)] = q[Len(q)]
      BY <1>1, <2>2, <2>4
    <3> QED BY <2>1, <2>4, <3>1
  <2> QED BY <2>3, <2>4
<1> QED BY <1>3, <1>4 DEF Numbered

---------------------------------------------------------------------------
(* Counters *)

\* A count that wraps, and how far one is ahead of another.
Plus(a, n, m) == (a + n) % m
Distance(a, b, m) == (a + m - b) % m

LEMMA Wrapped ==
  ASSUME NEW m \in Nat \ {0}, NEW c \in 0 .. m - 1
  PROVE  c % m = c /\ (c + m) % m = c
OBVIOUS

LEMMA PlusIs ==
  ASSUME NEW m \in Nat \ {0}, NEW a \in 0 .. m - 1, NEW n \in Nat
  PROVE  /\ Plus(a, n, m) \in 0 .. m - 1
         /\ n <= m => Plus(a, n, m) = IF a + n < m THEN a + n ELSE a + n - m
<1>1. Plus(a, n, m) \in 0 .. m - 1
  BY DEF Plus
<1>2. CASE a + n < m
  <2>1. a + n \in 0 .. m - 1
    BY <1>2
  <2> QED BY <1>1, <1>2, <2>1, Wrapped DEF Plus
<1>3. CASE ~(a + n < m) /\ n <= m
  <2>1. a + n - m \in 0 .. m - 1 /\ a + n = (a + n - m) + m
    BY <1>3
  <2> QED BY <1>1, <1>3, <2>1, Wrapped DEF Plus
<1> QED BY <1>1, <1>2, <1>3

LEMMA DistanceIs ==
  ASSUME NEW m \in Nat \ {0}, NEW a \in 0 .. m - 1, NEW b \in 0 .. m - 1
  PROVE  Distance(a, b, m) = IF a >= b THEN a - b ELSE a + m - b
<1>1. CASE a >= b
  <2>1. a - b \in 0 .. m - 1 /\ a + m - b = (a - b) + m
    BY <1>1
  <2> QED BY <1>1, <2>1, Wrapped DEF Distance
<1>2. CASE ~(a >= b)
  <2>1. a + m - b \in 0 .. m - 1
    BY <1>2
  <2> QED BY <1>2, <2>1, Wrapped DEF Distance
<1> QED BY <1>1, <1>2

\* Counting on changes the distance by as much, wherever the counters wrap.
LEMMA Ahead ==
  ASSUME NEW m \in Nat \ {0}, NEW a \in 0 .. m - 1, NEW b \in 0 .. m - 1, NEW n \in Nat
  PROVE  /\ Distance(a, b, m) \in 0 .. m - 1
         /\ Distance(a, b, m) + n < m => Distance(Plus(a, n, m), b, m) = Distance(a, b, m) + n
         /\ n <= Distance(a, b, m) => Distance(a, Plus(b, n, m), m) = Distance(a, b, m) - n
<1>1. Distance(a, b, m) = IF a >= b THEN a - b ELSE a + m - b
  BY DistanceIs
<1>2. ASSUME Distance(a, b, m) + n < m
      PROVE  Distance(Plus(a, n, m), b, m) = Distance(a, b, m) + n
  <2>1. n <= m
    BY <1>1, <1>2
  <2>2. PICK c \in 0 .. m - 1 : c = Plus(a, n, m)
    BY PlusIs
  <2>3. c = IF a + n < m THEN a + n ELSE a + n - m
    BY <2>1, <2>2, PlusIs
  <2>4. Distance(c, b, m) = IF c >= b THEN c - b ELSE c + m - b
    BY DistanceIs
  <2>5. Distance(c, b, m) = Distance(a, b, m) + n
    BY <1>1, <1>2, <2>3, <2>4
  <2> QED BY <2>2, <2>5
<1>3. ASSUME n <= Distance(a, b, m)
      PROVE  Distance(a, Plus(b, n, m), m) = Distance(a, b, m) - n
  <2>1. n <= m
    BY <1>1, <1>3
  <2>2. PICK c \in 0 .. m - 1 : c = Plus(b, n, m)
    BY PlusIs
  <2>3. c = IF b + n < m THEN b + n ELSE b + n - m
    BY <2>1, <2>2, PlusIs
  <2>4. Distance(a, c, m) = IF a >= c THEN a - c ELSE a + m - c
    BY DistanceIs
  <2>5. Distance(a, c, m) = Distance(a, b, m) - n
    BY <1>1, <1>3, <2>3, <2>4
  <2> QED BY <2>2, <2>5
<1>4. Distance(a, b, m) \in 0 .. m - 1
  BY <1>1
<1> QED BY <1>2, <1>3, <1>4

---------------------------------------------------------------------------
(* The steps *)

\* What is kept where neither counters nor frames change.
LEMMA KeptSound ==
  ASSUME NEW s, Sound(s), NEW t \in Links,
         t.unread = s.unread, t.staged = s.staged, t.produced = s.produced, t.rx = s.rx,
         t.freed = s.freed, t.tx = s.tx, t.busy = s.busy, t.number = s.number, t.got = s.got,
         ~t.lost => ~s.lost /\ t.failures < LinkLostAfterFailures, ~t.cut => ~s.cut
  PROVE  Sound(t)
BY DEF Sound, Bounded, Counted, Available

\* A frame more in the slave.
LEMMA LoadSound ==
  ASSUME Limits, NEW s, Sound(s), NEW length \in 1 .. MaxUnread, NEW kind \in {"data", "init"},
         Total(s.unread) + length <= MaxUnread, NEW t, t = LoadFrame(s, length, kind)
  PROVE  /\ Sound(t) /\ t.staged = s.staged /\ t.lost = s.lost /\ t.cut = s.cut
         /\ t.failures = s.failures /\ t.rx = s.rx
         /\ Total(t.unread) = Total(s.unread) + length
         /\ Len(s.unread) \in 0 .. Len(t.unread)
         /\ SubSeq(t.unread, 1, Len(s.unread)) = s.unread
<1> DEFINE f == [length |-> length, number |-> s.number, kind |-> kind]
           more == Append(s.unread, f)
           m == RxByteMax
<1>1. /\ f \in Frames /\ s.unread \in Seq(Frames) /\ s.staged \in Seq(Frames)
      /\ s.produced \in 0 .. m - 1 /\ s.rx \in 0 .. m - 1 /\ s.number \in Nat /\ m \in Nat \ {0}
      /\ length \in Nat
  BY DEF Sound, Links, Frames, Limits
<1>2. /\ more \in Seq(Frames) /\ Total(more) = Total(s.unread) + length
  BY <1>1, TotalAppend
<1>3. /\ Len(s.unread) \in 0 .. Len(more) /\ SubSeq(more, 1, Len(s.unread)) = s.unread
  BY <1>1
<1>4. Numbered(s.got, s.staged \o more, Next1(s.number))
  <2>1. s.staged \o more = Append(s.staged \o s.unread, f)
    BY <1>1, AppendBehind
  <2>2. s.staged \o s.unread \in Seq(Frames) /\ f.number = s.number
    BY <1>1
  <2> QED BY <1>1, <2>1, <2>2, NumberedAppend DEF Sound
<1>5. Next1(s.number) \in Nat
  BY <1>1 DEF Next1, Limits
<1>6. t = [s EXCEPT !.unread = more, !.produced = Plus(@, length, m), !.number = Next1(@)]
  BY DEF LoadFrame, Plus
<1> HIDE DEF f, more
<1>7. Plus(s.produced, length, m) \in 0 .. m - 1
  BY <1>1, PlusIs
<1>8. /\ t \in Links /\ t.unread = more /\ t.staged = s.staged /\ t.lost = s.lost /\ t.cut = s.cut
      /\ t.failures = s.failures /\ t.rx = s.rx /\ t.produced = Plus(s.produced, length, m)
      /\ t.number = Next1(s.number) /\ t.got = s.got /\ t.freed = s.freed /\ t.tx = s.tx /\ t.busy = s.busy
  BY <1>1, <1>2, <1>5, <1>6, <1>7, ZenonT(40) DEF Sound, Links
<1>9. ASSUME ~s.lost, ~s.cut
      PROVE  Distance(t.produced, t.rx, m) = Total(more)
  <2>1. Distance(s.produced, s.rx, m) = Total(s.unread)
    BY <1>9 DEF Sound, Counted, Distance
  <2>2. Total(s.unread) + length < m
    BY <1>1, TotalNat DEF Limits
  <2>3. Distance(s.produced, s.rx, m) + length < m
    BY <2>1, <2>2
  <2>4. Distance(Plus(s.produced, length, m), s.rx, m) = Distance(s.produced, s.rx, m) + length
    BY <1>1, <2>3, Ahead
  <2> QED BY <1>2, <1>8, <2>1, <2>4
<1>10. Counted(t)
  BY <1>8, <1>9 DEF Counted, Sound, Available, Distance
<1>11. Bounded(t)
  BY <1>2, <1>8 DEF Bounded, Sound
<1>12. Sound(t)
  BY <1>4, <1>8, <1>10, <1>11 DEF Sound
<1> QED BY <1>2, <1>3, <1>8, <1>12

\* The registers could be read, or not.
LEMMA ReadFailsSound ==
  ASSUME NEW s, Sound(s), ~s.lost, NEW t, t = ReadFails(s)
  PROVE  Sound(t) /\ t.staged = s.staged
<1> DEFINE lost == s.lost \/ s.failures + 1 >= LinkLostAfterFailures
<1>1. /\ s \in Links /\ s.failures \in 0 .. LinkLostAfterFailures - 1 /\ s.failures + 1 \in 0 .. LinkLostAfterFailures
      /\ lost \in BOOLEAN
  BY DEF Sound, Links, Bounded, LinkLostAfterFailures
<1>2. t = [s EXCEPT !.failures = s.failures + 1, !.lost = lost]
  BY <1>1 DEF ReadFails, Links
<1>3. lost <=> s.failures + 1 >= LinkLostAfterFailures
  OBVIOUS
<1> HIDE DEF lost
<1>4. t \in Links
  BY <1>1, <1>2 DEF Links
<1>5. /\ t.unread = s.unread /\ t.staged = s.staged /\ t.produced = s.produced /\ t.rx = s.rx
      /\ t.freed = s.freed /\ t.tx = s.tx /\ t.busy = s.busy /\ t.number = s.number /\ t.got = s.got
      /\ t.cut = s.cut /\ t.lost = lost /\ t.failures = s.failures + 1
  BY <1>1, <1>2 DEF Links
<1>6. ~t.lost => t.failures < LinkLostAfterFailures
  BY <1>1, <1>3, <1>5 DEF LinkLostAfterFailures
<1> QED BY <1>4, <1>5, <1>6, KeptSound

LEMMA ReadSucceedsSound ==
  ASSUME NEW s, Sound(s), NEW t, t = ReadSucceeds(s)
  PROVE  /\ Sound(t) /\ t.staged = s.staged /\ t.unread = s.unread /\ t.lost = s.lost /\ t.cut = s.cut
         /\ t.produced = s.produced /\ t.rx = s.rx /\ t.failures = 0
         /\ Available(t) = Available(s) /\ t.tx = s.tx /\ t.busy = s.busy /\ t.freed = s.freed
<1>1. s \in Links /\ t = [s EXCEPT !.failures = 0]
  BY DEF Sound, ReadSucceeds
<1>2. t \in Links
  BY <1>1, SMTT(30) DEF Links, LinkLostAfterFailures
<1>3. /\ t.unread = s.unread /\ t.staged = s.staged /\ t.produced = s.produced /\ t.rx = s.rx
      /\ t.freed = s.freed /\ t.tx = s.tx /\ t.busy = s.busy /\ t.number = s.number /\ t.got = s.got
      /\ t.cut = s.cut /\ t.lost = s.lost /\ t.failures = 0
  BY <1>1 DEF Links
<1>4. 0 < LinkLostAfterFailures
  BY DEF LinkLostAfterFailures
<1> QED BY <1>2, <1>3, <1>4, KeptSound DEF Available

LEMMA ServiceInterruptsSound ==
  ASSUME NEW s, Sound(s), ~s.lost, NEW bits, NEW t, t = ServiceInterrupts(s, bits)
  PROVE  Sound(t) /\ t.staged = s.staged
<1>1. CASE bits = {"no answer"}
  BY <1>1, ReadFailsSound DEF ServiceInterrupts
<1>2. CASE bits # {"no answer"}
  <2> DEFINE u == ReadSucceeds(s)
             throttled == (u.throttled \/ "start" \in bits) /\ "stop" \notin bits
  <2>1. Sound(u) /\ u.staged = s.staged /\ ~u.lost /\ u \in Links /\ u.failures = 0
    BY ReadSucceedsSound DEF Sound
  <2>2. t = [u EXCEPT !.throttled = throttled]
    BY <1>2 DEF ServiceInterrupts
  <2>3. throttled \in BOOLEAN
    OBVIOUS
  <2> HIDE DEF u, throttled
  <2>4. t \in Links
    BY <2>1, <2>2, <2>3 DEF Links
  <2>5. /\ t.unread = u.unread /\ t.staged = u.staged /\ t.produced = u.produced /\ t.rx = u.rx
        /\ t.freed = u.freed /\ t.tx = u.tx /\ t.busy = u.busy /\ t.number = u.number /\ t.got = u.got
        /\ t.cut = u.cut /\ t.lost = u.lost /\ t.failures = 0 /\ 0 < LinkLostAfterFailures
    BY <2>1, <2>2 DEF Links, LinkLostAfterFailures
  <2> QED BY <2>1, <2>4, <2>5, KeptSound
<1> QED BY <1>1, <1>2

\* A read of whole frames, or one that is too long, or broke off, or brought
\* none.
LEMMA FillSound ==
  ASSUME Limits, NEW s, Sound(s), s.staged = <<>>, ~s.lost, NEW length \in Nat, NEW transfer,
         ~s.cut => length \in {Total(SubSeq(s.unread, 1, k)) : k \in 0 .. Len(s.unread)},
         NEW t, t = Fill(s, length, transfer)
  PROVE  Sound(t)
<1> DEFINE m == RxByteMax
           fits == Prefix(s.unread, length)
           k == IF fits = {} THEN 0 ELSE CHOOSE j \in fits : TRUE
           p == SubSeq(s.unread, 1, k)
           r == SubSeq(s.unread, k + 1, Len(s.unread))
<1>1. /\ s \in Links /\ s.unread \in Seq(Frames) /\ s.produced \in 0 .. m - 1 /\ s.rx \in 0 .. m - 1
      /\ m \in Nat \ {0} /\ Staging \in Nat
  BY DEF Sound, Links, Limits
<1>2. CASE length = 0 \/ (length \in 1 .. Staging /\ transfer = "none")
  <2>1. t = s
    BY <1>1, <1>2 DEF Fill
  <2> QED BY <2>1
<1>3. CASE length > Staging
  <2>1. t = [s EXCEPT !.lost = TRUE]
    BY <1>1, <1>3 DEF Fill
  <2>2. t \in Links
    BY <1>1, <2>1 DEF Links
  <2>3. /\ t.unread = s.unread /\ t.staged = s.staged /\ t.produced = s.produced /\ t.rx = s.rx
        /\ t.freed = s.freed /\ t.tx = s.tx /\ t.busy = s.busy /\ t.number = s.number /\ t.got = s.got
        /\ t.cut = s.cut /\ t.lost
    BY <1>1, <2>1 DEF Links
  <2> QED BY <2>2, <2>3, KeptSound
<1>4. CASE length \in 1 .. Staging /\ transfer = "some"
  <2>1. t = [s EXCEPT !.cut = TRUE]
    BY <1>1, <1>4 DEF Fill
  <2>2. t \in Links
    BY <1>1, <2>1 DEF Links
  <2>3. /\ t.unread = s.unread /\ t.staged = s.staged /\ t.produced = s.produced /\ t.rx = s.rx
        /\ t.freed = s.freed /\ t.tx = s.tx /\ t.busy = s.busy /\ t.number = s.number /\ t.got = s.got
        /\ t.lost = s.lost /\ t.failures = s.failures /\ t.cut
    BY <1>1, <2>1 DEF Links
  <2>4. s.failures < LinkLostAfterFailures
    BY DEF Sound, Bounded
  <2> QED BY <2>2, <2>3, <2>4, KeptSound
<1>5. CASE length \in 1 .. Staging /\ transfer \notin {"none", "some"}
  <2>1. t = [s EXCEPT !.rx = Plus(@, length, m), !.staged = p, !.unread = r]
    BY <1>1, <1>5 DEF Fill, Plus
  <2>2. k \in 0 .. Len(s.unread) /\ (fits # {} => k \in fits)
    <3>1. fits \subseteq 0 .. Len(s.unread) /\ 0 \in 0 .. Len(s.unread)
      BY <1>1 DEF Prefix
    <3> HIDE DEF fits
    <3> QED BY <3>1
  <2>3. fits # {} => Total(p) = length
    BY <2>2 DEF Prefix
  <2>4. fits = {} => p = <<>>
    BY <1>1
  <2>5. ~s.cut => fits # {}
    BY DEF Prefix
  <2> HIDE DEF k, fits
  <2>6. /\ p \in Seq(Frames) /\ r \in Seq(Frames) /\ p \o r = s.unread
        /\ Total(p) \in Nat /\ Total(r) \in Nat /\ Total(p) + Total(r) = Total(s.unread)
    BY <1>1, <2>2, TotalSplit
  <2>7. Total(p) <= Staging
    <3>1. CASE fits = {}
      <4>1. Total(p) = 0
        BY <2>4, <3>1, TotalEmpty, Zenon
      <4> QED BY <1>1, <4>1
    <3>2. CASE fits # {}
      BY <1>1, <1>5, <2>3, <3>2
    <3> QED BY <3>1, <3>2
  <2> HIDE DEF p, r
  <2>8. Plus(s.rx, length, m) \in 0 .. m - 1
    BY <1>1, PlusIs
  <2>9. t \in Links
    BY <1>1, <2>1, <2>6, <2>8 DEF Links
  <2>10. /\ t.unread = r /\ t.staged = p /\ t.produced = s.produced /\ t.rx = Plus(s.rx, length, m)
         /\ t.freed = s.freed /\ t.tx = s.tx /\ t.busy = s.busy /\ t.number = s.number /\ t.got = s.got
         /\ t.lost = s.lost /\ t.failures = s.failures /\ t.cut = s.cut
    BY <1>1, <2>1 DEF Links
  <2>11. Numbered(t.got, t.staged \o t.unread, t.number)
    <3>1. s.staged \o s.unread = s.unread
      BY <1>1, ConcatEmptySeq
    <3> QED BY <2>6, <2>10, <3>1 DEF Sound
  <2>12. ASSUME ~t.lost, ~t.cut
         PROVE  Distance(t.produced, t.rx, m) = Total(t.unread)
    <3>1. Distance(s.produced, s.rx, m) = Total(s.unread)
      BY <2>10, <2>12 DEF Sound, Counted, Distance
    <3>2. Total(p) = length
      BY <2>3, <2>5, <2>10, <2>12
    <3>3. length <= Distance(s.produced, s.rx, m)
      BY <2>6, <3>1, <3>2
    <3>4. Distance(s.produced, Plus(s.rx, length, m), m) = Distance(s.produced, s.rx, m) - length
      BY <1>1, <3>3, Ahead
    <3> QED BY <2>6, <2>10, <3>1, <3>2, <3>4
  <2>13. Counted(t)
    BY <2>10, <2>12 DEF Counted, Sound, Available, Distance
  <2>14. Bounded(t)
    BY <2>6, <2>7, <2>10 DEF Bounded, Sound, Limits
  <2> QED BY <2>9, <2>11, <2>13, <2>14 DEF Sound
<1>6. \/ length = 0 \/ length > Staging \/ length \in 1 .. Staging
  BY <1>1
<1> QED BY <1>2, <1>3, <1>4, <1>5, <1>6

\* What is known to be there is what has come since the host last read.
LEMMA PendingIs ==
  ASSUME Limits, NEW s, Sound(s), NEW produced \in 0 .. RxByteMax - 1
  PROVE  /\ PendingLength(s, produced) = Distance(produced, s.rx, RxByteMax)
         /\ PendingLength(s, produced) \in Nat
<1>1. s.rx \in 0 .. RxByteMax - 1 /\ RxByteMax \in Nat \ {0}
  BY DEF Sound, Links, Limits
<1>2. Distance(produced, s.rx, RxByteMax) = IF produced >= s.rx THEN produced - s.rx ELSE produced + RxByteMax - s.rx
  BY <1>1, DistanceIs
<1> QED BY <1>1, <1>2 DEF PendingLength

\* A read brings what was there when it began, or that and what the slave has
\* loaded meanwhile.
LEMMA TransferSound ==
  ASSUME Limits, NEW v, Sound(v), v.staged = <<>>, ~v.lost, NEW late \in {0} \cup Room(v),
         NEW t \in Transfer(v, Loaded(v, late))
  PROVE  Sound(t)
<1> DEFINE u == Loaded(v, late)
<1>1. /\ Sound(u) /\ u.staged = <<>> /\ ~u.lost /\ u.cut = v.cut /\ u.rx = v.rx
      /\ Len(v.unread) \in 0 .. Len(u.unread) /\ SubSeq(u.unread, 1, Len(v.unread)) = v.unread
  <2>1. CASE late = 0
    <3>1. v.unread \in Seq(Frames) /\ u = v
      BY <2>1 DEF Sound, Links, Loaded
    <3>2. Len(v.unread) \in 0 .. Len(v.unread) /\ SubSeq(v.unread, 1, Len(v.unread)) = v.unread
      <4>1. Len(v.unread) \in Nat
        BY <3>1
      <4> QED BY <3>1, <4>1, SubSeqFull
    <3> QED BY <3>1, <3>2
  <2>2. CASE late # 0
    <3>1. late \in 1 .. MaxUnread /\ Total(v.unread) + late <= MaxUnread
      BY <2>2 DEF Room, Limits
    <3>2. u = LoadFrame(v, late, "data")
      BY <2>2 DEF Loaded
    <3> QED BY <3>1, <3>2, LoadSound
  <2> QED BY <2>1, <2>2
<1>2. PICK at \in 1 .. 7, transfer \in {"all", "some", "none"} :
        t = Fill(ReadSucceeds(u), PendingLength(u, ReadTwice(v.produced, u.produced, at)), transfer)
  BY DEF Transfer
<1> HIDE DEF u
<1> DEFINE w == ReadSucceeds(u)
           produced == ReadTwice(v.produced, u.produced, at)
           n == PendingLength(u, produced)
           lengths == {Total(SubSeq(w.unread, 1, k)) : k \in 0 .. Len(w.unread)}
<1>3. /\ Sound(w) /\ w.staged = <<>> /\ ~w.lost /\ w.unread = u.unread /\ w.cut = u.cut
  BY <1>1, ReadSucceedsSound
<1>4. t = Fill(w, n, transfer)
  BY <1>2
<1> HIDE DEF w
<1>5. /\ v.produced \in 0 .. RxByteMax - 1 /\ u.produced \in 0 .. RxByteMax - 1
      /\ u.unread \in Seq(Frames) /\ v.unread \in Seq(Frames)
      /\ RxByteMax \in Nat /\ Radix \in Nat \ {0}
  BY <1>1 DEF Sound, Links, Limits
<1>6. produced \in {v.produced, u.produced} /\ produced \in 0 .. RxByteMax - 1
  <2>1. v.produced \in Nat /\ u.produced \in Nat
    BY <1>5
  <2> QED BY <1>5, <2>1, ReadTwiceIsARead
<1> HIDE DEF produced
<1>7. n \in Nat /\ n = Distance(produced, u.rx, RxByteMax)
  BY <1>1, <1>6, PendingIs
<1> HIDE DEF n
<1>8. ASSUME ~w.cut PROVE n \in lengths
  <2>1. ~v.cut /\ ~u.cut
    BY <1>1, <1>3, <1>8
  <2>2. /\ Distance(v.produced, v.rx, RxByteMax) = Total(v.unread)
        /\ Distance(u.produced, u.rx, RxByteMax) = Total(u.unread)
    BY <1>1, <2>1 DEF Sound, Counted, Distance
  <2>3. CASE produced = v.produced
    <3>1. n = Total(SubSeq(w.unread, 1, Len(v.unread))) /\ Len(v.unread) \in 0 .. Len(w.unread)
      BY <1>1, <1>3, <1>7, <2>2, <2>3
    <3> QED BY <3>1
  <2>4. CASE produced = u.produced
    <3>1. Len(u.unread) \in Nat /\ SubSeq(u.unread, 1, Len(u.unread)) = u.unread
      BY <1>5, SubSeqFull
    <3>2. n = Total(SubSeq(u.unread, 1, Len(u.unread)))
      BY <1>7, <2>2, <2>4, <3>1
    <3>3. n = Total(SubSeq(w.unread, 1, Len(u.unread))) /\ Len(u.unread) \in 0 .. Len(w.unread)
      BY <1>3, <3>1, <3>2
    <3> QED BY <3>3
  <2> QED BY <1>6, <2>3, <2>4
<1> QED BY <1>3, <1>4, <1>7, <1>8, FillSound

LEMMA FillBufferSound ==
  ASSUME Limits, NEW s, Sound(s), s.staged = <<>>, ~s.lost, NEW t \in FillBuffer(s)
  PROVE  Sound(t)
<1>1. PICK bits : t \in ReadCounter(ServiceInterrupts(s, bits))
  BY DEF FillBuffer
<1> DEFINE v == ServiceInterrupts(s, bits)
<1>2. Sound(v) /\ v.staged = <<>>
  BY ServiceInterruptsSound
<1>3. t \in ReadCounter(v)
  BY <1>1
<1> HIDE DEF v
<1>4. CASE v.lost
  BY <1>2, <1>3, <1>4 DEF ReadCounter
<1>5. CASE ~v.lost /\ t = ReadFails(v)
  BY <1>2, <1>5, ReadFailsSound
<1>6. CASE ~v.lost /\ t # ReadFails(v)
  <2>1. PICK late \in {0} \cup Room(v) : t \in Transfer(v, Loaded(v, late))
    BY <1>3, <1>6 DEF ReadCounter
  <2> QED BY <1>2, <1>6, <2>1, TransferSound
<1> QED BY <1>4, <1>5, <1>6

\* The host takes the first frame, or gives up on the rest of the read.
LEMMA TakeFrameSound ==
  ASSUME Limits, NEW s, Sound(s), NEW t \in TakeFrame(s)
  PROVE  Sound(t) /\ t.phase = s.phase /\ t.freed = s.freed /\ t.tx = s.tx /\ t.busy = s.busy
<1>1. /\ s \in Links /\ s.staged \in Seq(Frames) /\ s.unread \in Seq(Frames)
      /\ Numbered(s.got, s.staged \o s.unread, s.number) /\ Total(s.staged) <= Staging
  BY DEF Sound, Links, Bounded
<1>2. CASE s.staged = <<>>
  BY <1>2 DEF TakeFrame
<1>3. ASSUME s.staged # <<>>, NEW p \in Seq(Frames), NEW rest \in Seq(Frames), p # <<>>,
             s.staged = p \o rest, Total(rest) <= Total(s.staged),
             t = [s EXCEPT !.staged = rest, !.got = p[Len(p)].number]
      PROVE  Sound(t) /\ t.phase = s.phase /\ t.freed = s.freed /\ t.tx = s.tx /\ t.busy = s.busy
  <2>1. p[Len(p)].number \in Nat
    <3>1. Len(p) \in 1 .. Len(p)
      BY <1>3
    <3>2. p[Len(p)] \in Frames
      BY <3>1
    <3> QED BY <3>2 DEF Frames
  <2>2. t \in Links
    BY <1>1, <1>3, <2>1 DEF Links
  <2>3. /\ t.unread = s.unread /\ t.staged = rest /\ t.produced = s.produced /\ t.rx = s.rx
        /\ t.freed = s.freed /\ t.tx = s.tx /\ t.busy = s.busy /\ t.number = s.number
        /\ t.got = p[Len(p)].number /\ t.phase = s.phase
        /\ t.lost = s.lost /\ t.failures = s.failures /\ t.cut = s.cut
    BY <1>1, <1>3 DEF Links
  <2>4. (p \o rest) \o s.unread = p \o (rest \o s.unread)
    <3>1. \A x, y, z \in Seq(Frames) : (x \o y) \o z = x \o (y \o z)
      BY ConcatAssociative
    <3>2. p \in Seq(Frames) /\ rest \in Seq(Frames) /\ s.unread \in Seq(Frames)
      BY <1>1, <1>3
    <3> QED BY <3>1, <3>2, Zenon
  <2>5. rest \o s.unread \in Seq(Frames) /\ Numbered(s.got, p \o (rest \o s.unread), s.number)
    BY <1>1, <1>3, <2>4, ConcatProperties
  <2>6. Numbered(t.got, t.staged \o t.unread, t.number)
    BY <1>3, <2>3, <2>5, NumberedRest
  <2>7. Total(rest) \in Nat /\ Total(s.staged) \in Nat
    BY <1>1, <1>3, TotalNat
  <2>8. Bounded(t)
    <3>1. Total(rest) <= Staging
      BY <1>1, <1>3, <2>7 DEF Limits
    <3> QED BY <2>3, <3>1 DEF Sound, Bounded
  <2>9. Counted(t)
    BY <2>3 DEF Sound, Counted, Available
  <2> QED BY <2>2, <2>3, <2>6, <2>8, <2>9 DEF Sound
<1>4. CASE s.staged # <<>> /\ t = [s EXCEPT !.staged = Tail(@), !.got = Head(s.staged).number]
  <2> DEFINE p == <<Head(s.staged)>>
  <2>1. Head(s.staged) \in Frames /\ Tail(s.staged) \in Seq(Frames) /\ Total(Tail(s.staged)) <= Total(s.staged)
    BY <1>1, <1>4, TotalTail
  <2>2. p \in Seq(Frames) /\ p # <<>> /\ Len(p) = 1 /\ p[Len(p)] = Head(s.staged)
    BY <2>1
  <2>3. s.staged = p \o Tail(s.staged)
    BY <1>1, <1>4
  <2>4. t = [s EXCEPT !.staged = Tail(s.staged), !.got = p[Len(p)].number]
    BY <1>4, <2>2
  <2> HIDE DEF p
  <2> QED BY <1>3, <1>4, <2>1, <2>2, <2>3, <2>4
<1>5. CASE s.staged # <<>> /\ t = [s EXCEPT !.staged = <<>>, !.got = s.staged[Len(s.staged)].number]
  <2>1. Total(<<>>) <= Total(s.staged) /\ <<>> \in Seq(Frames) /\ s.staged = s.staged \o <<>>
    <3>1. Total(s.staged) \in Nat
      BY <1>1, TotalNat
    <3>2. s.staged = s.staged \o <<>>
      BY <1>1, ConcatEmptySeq
    <3> QED BY <3>1, <3>2, TotalEmpty
  <2> QED BY <1>1, <1>3, <1>5, <2>1
<1> QED BY <1>2, <1>4, <1>5 DEF TakeFrame

LEMMA ReceiveSound ==
  ASSUME Limits, NEW s, Sound(s), ~s.lost, NEW t \in Receive(s)
  PROVE  Sound(t)
<1>1. CASE s.staged = <<>>
  <2>1. PICK u \in FillBuffer(s) : t \in TakeFrame(u)
    BY <1>1 DEF Receive
  <2>2. Sound(u)
    BY <1>1, <2>1, FillBufferSound
  <2> QED BY <2>1, <2>2, TakeFrameSound
<1>2. CASE s.staged # <<>>
  <2>1. t \in TakeFrame(s)
    BY <1>2 DEF Receive
  <2> QED BY <2>1, TakeFrameSound
<1> QED BY <1>1, <1>2

\* A buffer of the slave is filled; that one was free had been read.
LEMMA SentSound ==
  ASSUME Limits, NEW s, Sound(s), Available(s) >= 1, NEW t, t = Sent(s)
  PROVE  Sound(t)
<1> DEFINE m == TxBufferMax
<1>1. /\ s \in Links /\ s.freed \in 0 .. m - 1 /\ s.tx \in 0 .. m - 1 /\ s.busy \in 0 .. Pool
      /\ m \in Nat \ {0} /\ Pool \in Nat /\ Distance(s.freed, s.tx, m) = Pool - s.busy
      /\ Pool - s.busy >= 1
  BY DEF Sound, Links, Limits, Counted, Available, Distance
<1>2. t = [s EXCEPT !.tx = Plus(@, 1, m), !.busy = @ + 1]
  BY DEF Sent, Plus
<1>3. Plus(s.tx, 1, m) \in 0 .. m - 1 /\ s.busy + 1 \in 0 .. Pool
  <2>1. Plus(s.tx, 1, m) \in 0 .. m - 1
    BY <1>1, PlusIs
  <2>2. s.busy + 1 \in 0 .. Pool
    BY <1>1
  <2> QED BY <2>1, <2>2
<1>4. t \in Links
  BY <1>1, <1>2, <1>3 DEF Links
<1>5. /\ t.unread = s.unread /\ t.staged = s.staged /\ t.produced = s.produced /\ t.rx = s.rx
      /\ t.freed = s.freed /\ t.tx = Plus(s.tx, 1, m) /\ t.busy = s.busy + 1 /\ t.number = s.number
      /\ t.got = s.got /\ t.lost = s.lost /\ t.failures = s.failures /\ t.cut = s.cut
  BY <1>1, <1>2 DEF Links
<1>6. Distance(t.freed, t.tx, m) = Pool - t.busy
  <2>1. 1 <= Distance(s.freed, s.tx, m)
    BY <1>1
  <2>2. Distance(s.freed, Plus(s.tx, 1, m), m) = Distance(s.freed, s.tx, m) - 1
    BY <1>1, <2>1, Ahead
  <2> QED BY <1>1, <1>5, <2>2
<1>7. Counted(t)
  BY <1>5, <1>6 DEF Sound, Counted, Available, Distance
<1>8. Bounded(t) /\ Numbered(t.got, t.staged \o t.unread, t.number)
  BY <1>5 DEF Sound, Bounded
<1> QED BY <1>4, <1>7, <1>8 DEF Sound

\* A link that is down, or whose slave has just been reset.
LEMMA DownSound ==
  ASSUME Limits, NEW t, t = Down \/ t = Open(link)
  PROVE  Sound(t)
<1>1. PICK phase \in {"down", "opened"} :
        t = [phase |-> phase,
             unread |-> <<>>, produced |-> 0, freed |-> Pool, busy |-> 0, number |-> 0,
             rx |-> 0, tx |-> 0, staged |-> <<>>, failures |-> 0, lost |-> FALSE,
             throttled |-> FALSE, got |-> Numbers - 1, cut |-> FALSE]
  BY DEF Down, Open
<1>2. /\ t.unread = <<>> /\ t.staged = <<>> /\ t.produced = 0 /\ t.rx = 0 /\ t.freed = Pool /\ t.tx = 0
      /\ t.busy = 0 /\ t.number = 0 /\ t.got = Numbers - 1 /\ t.failures = 0 /\ ~t.lost /\ ~t.cut
      /\ t.phase = phase /\ t.throttled = FALSE
  BY <1>1
<1>3. <<>> \in Seq(Frames) /\ <<>> \o <<>> = <<>> /\ Len(<<>>) = 0
  OBVIOUS
<1>4. t \in Links
  <2>1. Numbers - 1 \in Nat /\ Pool \in 0 .. TxBufferMax - 1 /\ 0 \in 0 .. RxByteMax - 1 /\ 0 \in 0 .. Pool
        /\ 0 \in 0 .. TxBufferMax - 1
    BY DEF Limits
  <2>2. phase \in {"down", "opened", "up"}
    OBVIOUS
  <2> QED BY <1>1, <1>3, <2>1, <2>2 DEF Links, LinkLostAfterFailures
<1>5. Bounded(t)
  <2>1. Total(<<>>) <= MaxUnread /\ Total(<<>>) <= Staging /\ 0 < LinkLostAfterFailures
    BY TotalEmpty DEF Limits, LinkLostAfterFailures
  <2> QED BY <1>2, <2>1 DEF Bounded
<1>6. Counted(t)
  <2>1. Distance(0, 0, RxByteMax) = 0
    <3>1. RxByteMax \in Nat \ {0} /\ 0 \in 0 .. RxByteMax - 1
      BY DEF Limits
    <3> QED BY <3>1, DistanceIs
  <2>2. Distance(Pool, 0, TxBufferMax) = Pool
    <3>1. TxBufferMax \in Nat \ {0} /\ 0 \in 0 .. TxBufferMax - 1 /\ Pool \in 0 .. TxBufferMax - 1
      BY DEF Limits
    <3>2. Distance(Pool, 0, TxBufferMax) = Pool - 0
      BY <3>1, DistanceIs
    <3> QED BY <3>1, <3>2
  <2>3. Pool - t.busy = Pool
    BY <1>2 DEF Limits
  <2> QED BY <1>2, <2>1, <2>2, <2>3, TotalEmpty DEF Counted, Available, Distance
<1>7. Numbered(t.got, t.staged \o t.unread, t.number)
  <2>1. Next1(Numbers - 1) = 0
    <3>1. Numbers \in Nat \ {0} /\ 0 \in 0 .. Numbers - 1 /\ (Numbers - 1) + 1 = 0 + Numbers
      BY DEF Limits
    <3> QED BY <3>1, Wrapped DEF Next1
  <2>2. t.staged \o t.unread = <<>>
    BY <1>2, <1>3
  <2> QED BY <1>2, <1>3, <2>1, <2>2 DEF Numbered
<1> QED BY <1>4, <1>5, <1>6, <1>7 DEF Sound

\* What becomes of the introduction.
LEMMA IntroducedSound ==
  ASSUME Limits, NEW s, Sound(s), NEW t, t = Introduced(s)
  PROVE  Sound(t)
<1>1. \/ t = s
      \/ Available(s) >= 1 /\ t = [Sent(s) EXCEPT !.phase = "up"]
      \/ t = Down
  BY Zenon DEF Introduced
<1>2. CASE Available(s) >= 1 /\ t = [Sent(s) EXCEPT !.phase = "up"]
  <2> DEFINE u == Sent(s)
  <2>1. Sound(u) /\ u \in Links /\ t = [u EXCEPT !.phase = "up"]
    BY <1>2, SentSound DEF Sound
  <2> HIDE DEF u
  <2>2. t \in Links
    BY <2>1 DEF Links
  <2>3. /\ t.unread = u.unread /\ t.staged = u.staged /\ t.produced = u.produced /\ t.rx = u.rx
        /\ t.freed = u.freed /\ t.tx = u.tx /\ t.busy = u.busy /\ t.number = u.number /\ t.got = u.got
        /\ t.lost = u.lost /\ t.failures = u.failures /\ t.cut = u.cut
    BY <2>1 DEF Links
  <2>4. ~u.lost => u.failures < LinkLostAfterFailures
    BY <2>1 DEF Sound, Bounded
  <2> QED BY <2>1, <2>2, <2>3, <2>4, KeptSound
<1>3. CASE t = Down
  BY <1>3, DownSound
<1> QED BY <1>1, <1>2, <1>3

---------------------------------------------------------------------------
(* The actions *)

LEMMA LoadKeeps ==
  ASSUME Limits, IInv, NEW length \in Sizes, Load(length)
  PROVE  IInv'
<1>1. length \in 1 .. MaxUnread /\ Total(link.unread) + length <= MaxUnread
  BY DEF Load, Limits
<1>2. link' = LoadFrame(link, length, "data")
  BY DEF Load
<1>3. Sound(link')
  BY <1>1, <1>2, LoadSound DEF IInv
<1> QED BY <1>3 DEF IInv, Sound, Bounded, Counted, Numbered, Available

LEMMA IntroduceKeeps ==
  ASSUME Limits, IInv, Introduce
  PROVE  IInv'
<1>1. PICK length \in Sizes \cup {1}, kind \in {"data", "init"} : link' = LoadFrame(link, length, kind)
  BY DEF Introduce
<1>2. length \in 1 .. MaxUnread /\ Total(link.unread) + length <= MaxUnread
  <2>1. length \in 1 .. MaxUnread /\ link.unread = <<>>
    BY DEF Introduce, Limits
  <2>2. Total(link.unread) = 0
    BY <2>1, TotalEmpty
  <2> QED BY <2>1, <2>2
<1>3. Sound(link')
  BY <1>1, <1>2, LoadSound DEF IInv
<1> QED BY <1>3 DEF IInv

LEMMA FreeKeeps ==
  ASSUME Limits, IInv, Free
  PROVE  IInv'
<1> DEFINE s == link
           t == link'
           m == TxBufferMax
<1>1. /\ s \in Links /\ s.freed \in 0 .. m - 1 /\ s.tx \in 0 .. m - 1 /\ s.busy \in 0 .. Pool
      /\ m \in Nat \ {0} /\ Pool \in Nat /\ Distance(s.freed, s.tx, m) = Pool - s.busy
      /\ s.busy > 0 /\ Pool < m
  BY SMTT(30) DEF IInv, Sound, Links, Limits, Counted, Available, Distance, Free
<1>2. t = [s EXCEPT !.busy = @ - 1, !.freed = Plus(@, 1, m)]
  BY DEF Free, Plus
<1>3. Plus(s.freed, 1, m) \in 0 .. m - 1 /\ s.busy - 1 \in 0 .. Pool
  <2>1. Plus(s.freed, 1, m) \in 0 .. m - 1
    BY <1>1, PlusIs
  <2>2. s.busy - 1 \in 0 .. Pool
    BY <1>1
  <2> QED BY <2>1, <2>2
<1>4. t \in Links
  BY <1>1, <1>2, <1>3 DEF Links
<1>5. /\ t.unread = s.unread /\ t.staged = s.staged /\ t.produced = s.produced /\ t.rx = s.rx
      /\ t.freed = Plus(s.freed, 1, m) /\ t.tx = s.tx /\ t.busy = s.busy - 1 /\ t.number = s.number
      /\ t.got = s.got /\ t.lost = s.lost /\ t.failures = s.failures /\ t.cut = s.cut
  BY <1>1, <1>2 DEF Links
<1>6. Distance(t.freed, t.tx, m) = Pool - t.busy
  <2>1. Distance(s.freed, s.tx, m) + 1 < m \/ Distance(s.freed, s.tx, m) + 1 <= Pool
    BY <1>1
  <2>2. Distance(s.freed, s.tx, m) + 1 < m
    BY <1>1, <2>1
  <2>3. Distance(Plus(s.freed, 1, m), s.tx, m) = Distance(s.freed, s.tx, m) + 1
    BY <1>1, <2>2, Ahead
  <2> QED BY <1>1, <1>5, <2>3
<1>7. Counted(t)
  BY <1>5, <1>6 DEF IInv, Sound, Counted, Available, Distance
<1>8. Bounded(t) /\ Numbered(t.got, t.staged \o t.unread, t.number)
  BY <1>5 DEF IInv, Sound, Bounded
<1> QED BY <1>4, <1>7, <1>8 DEF Sound, IInv

LEMMA PollKeeps ==
  ASSUME Limits, IInv, Poll
  PROVE  IInv'
<1>1. ~link.lost /\ link' \in Receive(link)
  BY DEF Poll
<1>2. Sound(link')
  BY <1>1, ReceiveSound DEF IInv
<1> QED BY <1>2 DEF IInv

LEMMA SendKeeps ==
  ASSUME Limits, IInv, Send
  PROVE  IInv'
<1>1. Sound(link) /\ ~link.lost
  BY DEF IInv, Send
<1>2. \/ link' = ReadFails(link) \/ link' = ReadSucceeds(link)
      \/ Available(link) >= 1 /\ link' = Sent(ReadSucceeds(link))
  <2>1. Available(link) \in Int
    BY <1>1 DEF Sound, Counted, Links, Limits
  <2> QED BY <2>1 DEF Send
<1>3. CASE link' = ReadFails(link)
  BY <1>1, <1>3, ReadFailsSound DEF IInv
<1>4. CASE link' = ReadSucceeds(link)
  BY <1>1, <1>4, ReadSucceedsSound DEF IInv
<1>5. CASE Available(link) >= 1 /\ link' = Sent(ReadSucceeds(link))
  <2>1. Sound(ReadSucceeds(link)) /\ Available(ReadSucceeds(link)) >= 1
    BY <1>1, <1>5, ReadSucceedsSound
  <2> QED BY <1>5, <2>1, SentSound DEF IInv
<1> QED BY <1>2, <1>3, <1>4, <1>5

LEMMA AwaitInitKeeps ==
  ASSUME Limits, IInv, AwaitInit
  PROVE  IInv'
<1>1. PICK s \in Receive(link) : link' = Introduced(s)
  BY DEF AwaitInit
<1>2. ~link.lost
  BY DEF AwaitInit
<1>3. Sound(s)
  BY <1>1, <1>2, ReceiveSound DEF IInv
<1> QED BY <1>1, <1>3, IntroducedSound DEF IInv

\* Every step keeps the invariant.
LEMMA NextKeeps ==
  ASSUME Limits, IInv, [Next]_link
  PROVE  IInv'
<1>1. CASE \E length \in Sizes : Load(length)
  BY <1>1, LoadKeeps
<1>2. CASE Introduce
  BY <1>2, IntroduceKeeps
<1>3. CASE Free
  BY <1>3, FreeKeeps
<1>4. CASE Poll
  BY <1>4, PollKeeps
<1>5. CASE Send
  BY <1>5, SendKeeps
<1>6. CASE BringUp \/ GiveUp
  BY <1>6, DownSound DEF BringUp, GiveUp, IInv
<1>7. CASE AwaitInit
  BY <1>7, AwaitInitKeeps
<1>8. CASE UNCHANGED link
  BY <1>8 DEF IInv
<1> QED BY <1>1, <1>2, <1>3, <1>4, <1>5, <1>6, <1>7, <1>8 DEF Next

---------------------------------------------------------------------------
(* Theorems *)

(* The inductive invariant: the counters of both sides, the frames between *)
(* them and their numbers, whatever is reset, lost, late or broken off.    *)
THEOREM Inductive == ASSUME Limits PROVE Spec => []IInv
<1>1. ASSUME Init PROVE IInv
  BY <1>1, DownSound DEF Init, IInv
<1>2. ASSUME IInv, [Next]_link PROVE IInv'
  BY <1>2, NextKeeps
<1> QED BY <1>1, <1>2, PTL DEF Spec

(* The counters and queues keep their types, the count of failures that    *)
(* ends a link is never overrun, and what was read fits its buffer.        *)
THEOREM TypeCorrect == ASSUME Limits PROVE Spec => []TypeOK
<1>1. ASSUME IInv PROVE TypeOK
  BY <1>1 DEF IInv, Sound, Links, Bounded, TypeOK, LinkLostAfterFailures
<1> QED BY <1>1, Inductive, PTL

(* The host's count of bytes and the slave's differ by what is unread: the *)
(* host never asks for more, nor leaves anything it will not ask for.      *)
THEOREM StaysInStep == ASSUME Limits PROVE Spec => []InStep
<1>1. ASSUME IInv PROVE InStep
  BY <1>1 DEF IInv, Sound, Counted, InStep
<1> QED BY <1>1, Inductive, PTL

(* No frame the slave sent is given to the network twice or out of order.  *)
THEOREM FramesComeInOrder == ASSUME Limits PROVE Spec => []InOrder
<1>1. ASSUME IInv PROVE InOrder
  <2> DEFINE q == link.staged \o link.unread
  <2>1. q \in Seq(Frames) /\ Numbered(link.got, q, link.number)
    BY <1>1, ConcatProperties DEF IInv, Sound, Links
  <2>2. ASSUME q # <<>> PROVE Head(q).number = Next1(link.got)
    <3> HIDE DEF q
    <3>1. 1 \in 1 .. Len(q) /\ Head(q) = q[1]
      BY <2>1, <2>2
    <3> QED BY <2>1, <3>1 DEF Numbered
  <2> QED BY <2>2 DEF InOrder
<1> QED BY <1>1, Inductive, PTL

(* The host never fills a buffer the slave has not freed, and knows of     *)
(* every one it has.                                                       *)
THEOREM BuffersStayInStep == ASSUME Limits PROVE Spec => []BuffersInStep
<1>1. ASSUME IInv PROVE BuffersInStep
  BY <1>1 DEF IInv, Sound, Counted, Links, Limits, BuffersInStep
<1> QED BY <1>1, Inductive, PTL

=============================================================================
