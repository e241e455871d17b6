------------------------------ MODULE Encoding ------------------------------
(***************************************************************************)
(* The bytes of a page on their way to the tokenizer:                      *)
(* src/browser/src/encoding.rs.  The encoding is what the response said,   *)
(* or a byte order mark, or a <meta> within the first bytes, or UTF-8; the *)
(* bytes are held until it is settled, and arrive cut anywhere.            *)
(*                                                                         *)
(* A byte is its class: "<" is ASCII that can end no pair, "A" ASCII that  *)
(* can end a Shift_JIS pair, "K" halfwidth katakana, "L" a lead byte of    *)
(* both encodings, "E" and "F" the bytes 0x8E and 0x8F, "I" no byte of     *)
(* either.  The head of a document is in words: "<meta", ">", "charset=",  *)
(* the labels, a blank, and the byte order mark.                           *)
(***************************************************************************)
EXTENDS Integers, Sequences, SequencesExt

CONSTANTS
    Heads,      \* how a document may begin: sequences of words
    Bytes,      \* classes of bytes a document goes on with
    MaxBody,    \* bound: their number
    Unassigned, \* pairs of bytes that stand for no character
    Labels,     \* the labels known, with the encoding each names
    Declared,   \* charsets the response may declare, None among them
    Window,     \* SNIFF_BYTES
    MaxPieces,  \* bound: pieces a document arrives in
    None

VARIABLE decoder

Bom == "bom"
Replacement == "?"
Ascii(byte) == byte \notin {"K", "L", "E", "F", "I"}

TypeOK ==
    /\ decoder.encoding \in {None, "utf8", "sjis", "euc"}
    /\ decoder.at \in 0 .. Len(decoder.document)
    /\ Len(decoder.held) <= Window
    /\ decoder.plane2 => decoder.lead # None

\* Decoder::new or Decoder::plain, and declare before anything is fed.
Init ==
    \E head \in Heads, body \in BoundedSeq(Bytes, MaxBody), markup \in BOOLEAN, label \in Declared :
        decoder = [document |-> head \o body, markup |-> markup, label |-> label, at |-> 0, pieces |-> 0,
                   encoding |-> IF label \in DOMAIN Labels THEN Labels[label] ELSE None,
                   held |-> <<>>, lead |-> None, plane2 |-> FALSE, out |-> <<>>, done |-> FALSE]

-----------------------------------------------------------------------------
(* What the start of a document says of itself: detect, meta_charset. *)

Position(s, words) == SelectInSeq(s, LAMBDA w : w \in words)

\* charset_in: the label inside one tag, up to a blank or the end of the tag.
CharsetIn(tag) ==
    LET says == Position(tag, {"charset="})
        rest == SubSeq(tag, says + 1, Len(tag))
        end == Position(rest, {" "})
        label == IF end = 0 THEN rest ELSE SubSeq(rest, 1, end - 1)
    IN  IF says # 0 /\ Len(label) = 1 /\ label[1] \in DOMAIN Labels THEN Labels[label[1]] ELSE None

\* The tags of a head, from the first <meta on.  One that has not finished
\* arriving is the last, and is looked into as far as it goes.
MetaCharset[head \in Seq(STRING)] ==
    LET start == Position(head, {"<meta"})
        inside == SubSeq(head, start + 1, Len(head))
        end == Position(inside, {">"})
    IN  IF start = 0 THEN None
        ELSE IF end = 0 THEN CharsetIn(inside)
        ELSE IF CharsetIn(SubSeq(inside, 1, end - 1)) # None THEN CharsetIn(SubSeq(inside, 1, end - 1))
        ELSE MetaCharset[SubSeq(inside, end + 1, Len(inside))]

\* The encoding and the words that declared it, which are not content.
Detect(head, markup) ==
    IF head # <<>> /\ head[1] = Bom THEN [encoding |-> "utf8", skip |-> 1]
    ELSE [encoding |-> IF markup THEN MetaCharset[head] ELSE None, skip |-> 0]

\* A byte order mark is one word here.
WindowOf(d) == IF d.markup THEN Window ELSE 1

-----------------------------------------------------------------------------
(* The two Japanese encodings, a byte at a time. *)

Put(d, character) == [d EXCEPT !.out = Append(@, character)]

\* A byte that could not end a character: one replacement, and the byte
\* itself is read again only if it is ASCII.
Damaged(d, byte) ==
    LET r == [Put(d, Replacement) EXCEPT !.lead = None, !.plane2 = FALSE]
    IN  IF Ascii(byte) THEN Put(r, byte) ELSE r

Paired(lead, byte, trails) == byte \in trails /\ <<lead, byte>> \notin Unassigned

SingleSjis(d, byte) ==
    IF byte \in {"L", "E", "F"} THEN [d EXCEPT !.lead = byte]
    ELSE Put(d, IF byte = "I" THEN Replacement ELSE byte)

DecodeSjis(d, byte) ==
    IF d.lead = None THEN SingleSjis(d, byte)
    ELSE IF Paired(d.lead, byte, {"A", "K", "L", "E", "F"})
         THEN [Put(d, d.lead \o byte) EXCEPT !.lead = None]
         ELSE Damaged(d, byte)

SingleEuc(d, byte) ==
    IF byte \in {"K", "L", "E", "F"} THEN [d EXCEPT !.lead = byte]
    ELSE Put(d, IF Ascii(byte) THEN byte ELSE Replacement)

\* 0x8E is followed by a katakana, 0x8F by two bytes that stand for nothing
\* this can show.
DecodeEuc(d, byte) ==
    CASE d.plane2 -> Damaged(d, byte)
      [] d.lead = None -> SingleEuc(d, byte)
      [] d.lead = "E" -> IF byte = "K" THEN [Put(d, byte) EXCEPT !.lead = None]
                         ELSE Damaged(d, byte)
      [] d.lead = "F" -> IF byte \in {"K", "L"} THEN [d EXCEPT !.lead = byte, !.plane2 = TRUE]
                         ELSE Damaged(d, byte)
      [] OTHER -> IF Paired(d.lead, byte, {"K", "L"})
                  THEN [Put(d, d.lead \o byte) EXCEPT !.lead = None]
                  ELSE Damaged(d, byte)

PushBytes(d, bytes) ==
    CASE d.encoding = "utf8" -> [d EXCEPT !.out = @ \o bytes]
      [] d.encoding = "sjis" -> FoldLeft(DecodeSjis, d, bytes)
      [] d.encoding = "euc" -> FoldLeft(DecodeEuc, d, bytes)

-----------------------------------------------------------------------------
Settle(d) ==
    LET found == Detect(d.held, d.markup)
        encoding == IF found.encoding = None THEN "utf8" ELSE found.encoding
    IN  PushBytes([d EXCEPT !.encoding = encoding, !.held = <<>>],
                  SubSeq(d.held, found.skip + 1, Len(d.held)))

\* Bytes are held until there is something to go on or the window is full.
Sniff(d, bytes) ==
    LET room == WindowOf(d) - Len(d.held)
        taken == IF room < Len(bytes) THEN room ELSE Len(bytes)
        holds == [d EXCEPT !.held = @ \o SubSeq(bytes, 1, taken)]
    IN  IF Detect(holds.held, d.markup).encoding = None /\ Len(holds.held) < WindowOf(d)
        THEN holds
        ELSE PushBytes(Settle(holds), SubSeq(bytes, taken + 1, Len(bytes)))

Feed(n) ==
    /\ ~decoder.done /\ n <= Len(decoder.document) - decoder.at
       \* The last piece allowed is all that is left.
    /\ decoder.pieces < MaxPieces - 1 \/ n = Len(decoder.document) - decoder.at
    /\ LET bytes == SubSeq(decoder.document, decoder.at + 1, decoder.at + n)
           d == [decoder EXCEPT !.at = @ + n, !.pieces = @ + 1]
       IN  decoder' = IF d.encoding = None THEN Sniff(d, bytes) ELSE PushBytes(d, bytes)

\* finish: a lead byte left without its trail becomes one replacement.
Finish ==
    /\ ~decoder.done /\ decoder.at = Len(decoder.document)
    /\ LET d == IF decoder.encoding = None THEN Settle(decoder) ELSE decoder
           ended == IF d.lead = None THEN d ELSE [Put(d, Replacement) EXCEPT !.lead = None, !.plane2 = FALSE]
       IN  decoder' = [ended EXCEPT !.done = TRUE]

Next == Finish \/ \E n \in 1 .. Len(decoder.document) : Feed(n)

Spec == Init /\ [][Next]_decoder

-----------------------------------------------------------------------------
(* Properties *)

\* The encoding a whole document has: what the response said, else the byte
\* order mark, else the first <meta> in the window that names one.
EncodingOf(d) ==
    LET head == SubSeq(d.document, 1, IF Len(d.document) < WindowOf(d) THEN Len(d.document) ELSE WindowOf(d))
        found == Detect(head, d.markup).encoding
    IN  IF d.label \in DOMAIN Labels THEN Labels[d.label] ELSE IF found = None THEN "utf8" ELSE found

\* However a document is cut into pieces, the encoding settled on is the one
\* the whole of it declares: bytes are held back until there is a declaration
\* to go on (Decoder::sniff).
EncodingIsTheDocuments == decoder.done => decoder.encoding = EncodingOf(decoder)

\* ... and the text is that of the document in one piece: a character cut in
\* two by a piece's end is completed by the next ("a multibyte character split
\* across calls is the ordinary case, not an edge one", Decoder).
PiecesDoNotMatter ==
    decoder.done =>
        LET declared == decoder.label \in DOMAIN Labels
            skip == IF ~declared THEN Detect(decoder.document, decoder.markup).skip ELSE 0
            whole == PushBytes([decoder EXCEPT !.lead = None, !.plane2 = FALSE, !.out = <<>>],
                               SubSeq(decoder.document, skip + 1, Len(decoder.document)))
        IN  decoder.out = whole.out \o IF whole.lead = None THEN <<>> ELSE <<Replacement>>

\* Markup after a damaged character survives, and no damage costs more than
\* the bytes it is made of: the "<" of the output are those of the input
\* ("a `>` or a `<` after a damaged character is markup that has to survive").
MarkupSurvives ==
    decoder.done =>
        LET marks(s) == Len(SelectSeq(s, LAMBDA b : b = "<"))
        IN  /\ marks(decoder.out) = marks(decoder.document)
            /\ Len(decoder.out) <= Len(decoder.document)
=============================================================================
