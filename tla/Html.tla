--------------------------------- MODULE Html ---------------------------------
(***************************************************************************)
(* The HTML tokenizer (browser/src/html.rs): a state machine over bytes    *)
(* that hands text, start tags and end tags to a sink and keeps nothing    *)
(* else.  One action per state; a byte a state returns to be reconsidered  *)
(* is left at the head of the input.                                       *)
(*                                                                         *)
(* Bytes are tokens of a small alphabet: "2" and "3" lead a character of   *)
(* that many bytes, "c" continues one, "sp" is white space, "S" the upper  *)
(* case of "s".  The elements s and tx stand for script (or style) and     *)
(* textarea, the attributes h and b for a kept value (b also without one,  *)
(* like border), d for a flag.  What the sink has been given is one        *)
(* sequence of characters and tags: it joins consecutive runs of text.     *)
(***************************************************************************)
EXTENDS Integers, SequencesExt

CONSTANTS
    MaxTagName, MaxValue, MaxEntity,  \* MAX_TAG_NAME, MAX_HREF_BYTES, MAX_ENTITY_BYTES
    MaxAttributes,                    \* MAX_ATTRIBUTES_PER_ELEMENT
    Threshold,                        \* TEXT_FLUSH_THRESHOLD
    MaxPieces,                        \* pieces of a document
    SelfClosedTextarea,               \* whether one of them is <tx/>
    None

VARIABLE html

Alphabetic == {"p", "s", "S", "t", "x", "h", "b", "d", "a", "l"}
Alphanumeric == Alphabetic \cup {"1"}
Lower(byte) == IF byte = "S" THEN "s" ELSE byte
KeptValues == {<<"h">>, <<"b">>}
RawName == [script |-> <<"s">>, textarea |-> <<"t", "x">>]
References == (<<"a">> :> <<"&">>) @@ (<<"l">> :> <<"<">>) @@ (<<"#", "1">> :> <<"2", "c">>)

---------------------------------------------------------------------------
(* UTF-8 *)

SequenceLength(byte) == CASE byte = "2" -> 2 [] byte = "3" -> 3 [] OTHER -> 1
(* The characters of the bytes; what is no character is one "?" for each    *)
(* maximal part of one.                                                    *)
Repaired(bytes) ==
    LET is(i, byte) == i <= Len(bytes) /\ bytes[i] = byte
        at[i \in 1 .. Len(bytes) + 1] ==
            IF i > Len(bytes) THEN <<>>
            ELSE CASE bytes[i] = "2" /\ is(i + 1, "c") -> <<"2c">> \o at[i + 2]
                   [] bytes[i] = "3" /\ is(i + 1, "c") /\ is(i + 2, "c") -> <<"3cc">> \o at[i + 3]
                   [] bytes[i] = "3" /\ is(i + 1, "c") /\ ~is(i + 2, "c") -> <<"?">> \o at[i + 2]
                   [] bytes[i] \in {"2", "3"} /\ ~is(i + 1, "c") -> <<"?">> \o at[i + 1]
                   [] bytes[i] = "c" -> <<"?">> \o at[i + 1]
                   [] OTHER -> <<bytes[i]>> \o at[i + 1]
    IN  at[1]
(* Where the bytes can be cut: before a sequence still to be completed.     *)
SafeSplit(bytes) ==
    LET near == {back \in 1 .. 3 : back <= Len(bytes) /\ bytes[Len(bytes) - back + 1] # "c"}
    IN  IF near = {} THEN Len(bytes)
        ELSE LET back == CHOOSE b \in near : \A n \in near : b <= n
                 lead == bytes[Len(bytes) - back + 1]
             IN  IF SequenceLength(lead) <= back THEN Len(bytes) ELSE Len(bytes) - back

---------------------------------------------------------------------------
(* The tokenizer's state *)

EmptyTag(isEnd) ==
    [name |-> <<>>, isEnd |-> isEnd, selfClosing |-> FALSE, attribute |-> <<>>,
     capture |-> None, values |-> <<>>, flag |-> FALSE, seen |-> 0]
New(plain, pieces) ==
    [doc |-> pieces, in |-> FlattenSeq([i \in DOMAIN pieces |-> pieces[i].bytes]), st |-> "Text", quote |-> None, inAttribute |-> FALSE, matched |-> 0,
     plain |-> plain, raw |-> None, tag |-> EmptyTag(FALSE), text |-> <<>>,
     entity |-> <<>>, out |-> <<>>, ended |-> FALSE]

Char(c) == [kind |-> "char", char |-> c]
StartTag(name, values, flag, selfClosing) ==
    [kind |-> "start", name |-> name, values |-> values, flag |-> flag,
     selfClosing |-> selfClosing]
EndTag(name) == [kind |-> "end", name |-> name]
Chars(bytes) == [i \in DOMAIN Repaired(bytes) |-> Char(Repaired(bytes)[i])]
FlushText(s, complete) ==
    LET split == IF complete THEN Len(s.text) ELSE SafeSplit(s.text)
    IN  [s EXCEPT !.out = @ \o Chars(SubSeq(s.text, 1, split)),
                  !.text = SubSeq(@, split + 1, Len(@))]
(* The byte is used up; a long run of text is handed over in between.       *)
Used(s) ==
    LET t == [s EXCEPT !.in = Tail(@)]
    IN  IF Len(t.text) >= Threshold THEN FlushText(t, FALSE) ELSE t
Goto(s, st) == [s EXCEPT !.st = st]
Keep(s, bytes) == [s EXCEPT !.text = @ \o bytes]
StartEntity(s, inAttribute) ==
    [s EXCEPT !.entity = <<"&">>, !.inAttribute = inAttribute, !.st = "Entity"]

In(st) == ~html.plain /\ html.st = st /\ html.in # <<>> /\ ~html.ended
Byte == Head(html.in)

---------------------------------------------------------------------------
(* Attributes *)

Has(tag, name) == \E i \in DOMAIN tag.values : tag.values[i][1] = name
BeginCapture(s) ==
    LET name == s.tag.attribute
    IN  IF s.tag.seen > MaxAttributes THEN [s EXCEPT !.tag.capture = None]
        ELSE IF name = <<"d">> THEN [s EXCEPT !.tag.capture = None, !.tag.flag = TRUE]
        ELSE IF name \in KeptValues /\ ~Has(s.tag, name)
        THEN [s EXCEPT !.tag.capture = name, !.tag.values = Append(@, <<name, <<>>>>)]
        ELSE [s EXCEPT !.tag.capture = None]
FinishValueless(s) ==
    IF s.tag.seen > MaxAttributes THEN s
    ELSE [s EXCEPT !.tag.flag = @ \/ s.tag.attribute = <<"d">>,
                   !.tag.values = IF s.tag.attribute = <<"b">> /\ ~Has(s.tag, <<"b">>)
                                  THEN Append(@, <<<<"b">>, <<>>>>) ELSE @]
PushAttribute(s, bytes) ==
    IF s.tag.capture = None THEN s
    ELSE [s EXCEPT !.tag.values =
            [i \in DOMAIN @ |-> IF @[i][1] # s.tag.capture THEN @[i]
                                ELSE <<@[i][1], SubSeq(@[i][2] \o bytes, 1,
                                        IF Len(@[i][2] \o bytes) < MaxValue
                                        THEN Len(@[i][2] \o bytes) ELSE MaxValue)>>]]
StartAttribute(s) ==
    [s EXCEPT !.tag.attribute = <<>>, !.tag.seen = @ + 1, !.st = "AttributeName"]

(* The finished tag goes to the sink; an element of raw text takes over.    *)
EmitTag(s) ==
    IF s.tag.isEnd
    THEN [Goto(s, "Text") EXCEPT !.out = Append(@, EndTag(Repaired(s.tag.name)))]
    ELSE LET kind == CASE s.tag.name = RawName.script -> "script"
                       [] s.tag.name = RawName.textarea -> "textarea"
                       [] OTHER -> None
             values == [i \in DOMAIN s.tag.values |->
                            <<s.tag.values[i][1], Repaired(s.tag.values[i][2])>>]
         IN  [s EXCEPT !.out = Append(@, StartTag(Repaired(s.tag.name), values,
                                                  s.tag.flag, s.tag.selfClosing)),
                       !.raw = kind,
                       !.st = IF kind # None /\ ~s.tag.selfClosing THEN "RawText" ELSE "Text"]

---------------------------------------------------------------------------
(* One action per state *)

PlainText ==
    /\ html.plain /\ html.in # <<>> /\ ~html.ended
    /\ html' = Used(Keep(html, <<Byte>>))
Text ==
    /\ In("Text")
    /\ html' = Used(CASE Byte = "<" -> Goto(html, "TagOpen")
                      [] Byte = "&" -> StartEntity(html, FALSE)
                      [] OTHER -> Keep(html, <<Byte>>))
OpenTag(s, isEnd) == [FlushText(s, TRUE) EXCEPT !.tag = EmptyTag(isEnd), !.st = "TagName"]
TagOpen ==
    /\ In("TagOpen")
    /\ html' = CASE Byte = "/" -> Used(Goto(html, "EndTagOpen"))
                 [] Byte = "!" -> Used(Goto(html, "MarkupDeclaration"))
                 [] Byte = "?" -> Used(Goto(html, "BogusComment"))
                 [] Byte \in Alphabetic -> OpenTag(html, FALSE)
                 [] OTHER -> Goto(Keep(html, <<"<">>), "Text")
EndTagOpen ==
    /\ In("EndTagOpen")
    /\ html' = IF Byte \in Alphabetic THEN OpenTag(html, TRUE) ELSE Goto(html, "BogusComment")
TagName ==
    /\ In("TagName")
    /\ html' = Used(CASE Byte = ">" -> EmitTag(html)
                      [] Byte = "/" -> Goto(html, "SelfClosing")
                      [] Byte = "sp" -> Goto(html, "BeforeAttributeName")
                      [] OTHER -> IF Len(html.tag.name) < MaxTagName
                                  THEN [html EXCEPT !.tag.name = Append(@, Lower(Byte))]
                                  ELSE html)
BeforeAttributeName ==
    /\ In("BeforeAttributeName")
    /\ html' = CASE Byte = ">" -> Used(EmitTag(html))
                 [] Byte = "/" -> Used(Goto(html, "SelfClosing"))
                 [] Byte = "sp" -> Used(html)
                 [] OTHER -> StartAttribute(html)
AttributeName ==
    /\ In("AttributeName")
    /\ html' = Used(CASE Byte = ">" -> EmitTag(FinishValueless(html))
                      [] Byte = "/" -> Goto(FinishValueless(html), "SelfClosing")
                      [] Byte = "=" -> Goto(BeginCapture(html), "BeforeAttributeValue")
                      [] Byte = "sp" -> Goto(html, "AfterAttributeName")
                      [] OTHER -> [html EXCEPT !.tag.attribute = Append(@, Lower(Byte))])
AfterAttributeName ==
    /\ In("AfterAttributeName")
    /\ html' = CASE Byte = ">" -> Used(EmitTag(FinishValueless(html)))
                 [] Byte = "/" -> Used(Goto(FinishValueless(html), "SelfClosing"))
                 [] Byte = "=" -> Used(Goto(BeginCapture(html), "BeforeAttributeValue"))
                 [] Byte = "sp" -> Used(html)
                 [] OTHER -> StartAttribute(FinishValueless(html))
BeforeAttributeValue ==
    /\ In("BeforeAttributeValue")
    /\ html' = CASE Byte = ">" -> Used(EmitTag(html))
                 [] Byte = "sp" -> Used(html)
                 [] Byte \in {"dq", "sq"} ->
                        Used([html EXCEPT !.st = "AttributeValue", !.quote = Byte])
                 [] OTHER -> [html EXCEPT !.st = "AttributeValue", !.quote = None]
AttributeValue ==
    /\ In("AttributeValue")
    /\ html' = Used(CASE Byte = html.quote -> Goto(html, "AfterAttributeValue")
                      [] Byte = ">" /\ html.quote = None -> EmitTag(html)
                      [] Byte = "sp" /\ html.quote = None -> Goto(html, "BeforeAttributeName")
                      [] Byte = "&" -> StartEntity(html, TRUE)
                      [] OTHER -> PushAttribute(html, <<Byte>>))
AfterAttributeValue ==
    /\ In("AfterAttributeValue")
    /\ html' = CASE Byte = ">" -> Used(EmitTag(html))
                 [] Byte = "/" -> Used(Goto(html, "SelfClosing"))
                 [] OTHER -> Goto(html, "BeforeAttributeName")
SelfClosing ==
    /\ In("SelfClosing")
    /\ html' = IF Byte = ">" THEN Used(EmitTag([html EXCEPT !.tag.selfClosing = TRUE]))
               ELSE Goto(html, "BeforeAttributeName")
(* The second dash enters as if two more had been seen: <!--> closes.       *)
MarkupDeclaration ==
    /\ html.st \in {"MarkupDeclaration", "MarkupDash"} /\ In(html.st)
    /\ html' = IF Byte # "-" THEN Goto(html, "BogusComment")
               ELSE Used(Goto(html, IF html.st = "MarkupDash" THEN "CommentDashDash"
                                    ELSE "MarkupDash"))
CommentNext(st, byte) ==
    CASE st = "Comment" -> IF byte = "-" THEN "CommentDash" ELSE st
      [] st = "CommentDash" -> IF byte = "-" THEN "CommentDashDash" ELSE "Comment"
      [] st = "CommentDashDash" ->
            IF byte = ">" THEN "Text" ELSE IF byte = "-" THEN st ELSE "Comment"
      [] st = "BogusComment" -> IF byte = ">" THEN "Text" ELSE st
Comment ==
    /\ html.st \in {"Comment", "CommentDash", "CommentDashDash", "BogusComment"}
    /\ In(html.st)
    /\ html' = Used(Goto(html, CommentNext(html.st, Byte)))

(* Only a textarea keeps what looked like its end tag and was not.          *)
KeepRaw(s, prefix, matched) ==
    IF s.raw # "textarea" THEN s
    ELSE Keep(s, prefix \o SubSeq(RawName.textarea, 1, matched))
RawText ==
    /\ In("RawText")
    /\ html' = Used(CASE Byte = "<" -> Goto(html, "RawTextLessThan")
                      [] Byte = "&" /\ html.raw = "textarea" -> StartEntity(html, FALSE)
                      [] Byte \notin {"<", "&"} /\ html.raw = "textarea" -> Keep(html, <<Byte>>)
                      [] OTHER -> html)
RawTextLessThan ==
    /\ In("RawTextLessThan")
    /\ html' = CASE Byte = "/" ->
                        Used([html EXCEPT !.st = "RawTextEndTagName", !.matched = 0])
                 [] Byte = "<" -> Used(KeepRaw(html, <<"<">>, 0))
                 [] OTHER -> Goto(KeepRaw(html, <<"<">>, 0), "RawText")
RawTextEndTagName ==
    /\ In("RawTextEndTagName")
    /\ html' = IF html.matched = Len(RawName[html.raw]) THEN Goto(html, "RawTextEndTagRest")
               ELSE IF Lower(Byte) = RawName[html.raw][html.matched + 1]
               THEN Used([html EXCEPT !.matched = @ + 1])
               ELSE Goto(KeepRaw(html, <<"<", "/">>, html.matched), "RawText")
RawTextEndTagRest ==
    /\ In("RawTextEndTagRest")
    /\ LET name == RawName[html.raw]
       IN  html' = CASE Byte = ">" ->
                            Used([FlushText(html, TRUE) EXCEPT
                                    !.out = Append(@, EndTag(name)), !.raw = None, !.st = "Text"])
                     [] Byte \in {"sp", "/"} -> Used(html)
                     [] OTHER -> Goto(KeepRaw(html, <<"<", "/">>, Len(name)), "RawText")

(* A reference that does not resolve is put back as it was written.         *)
EmitEntity(s, bytes) ==
    LET t == [s EXCEPT !.entity = <<>>,
                       !.st = IF s.inAttribute THEN "AttributeValue"
                              ELSE IF s.raw = "textarea" THEN "RawText" ELSE "Text"]
    IN  IF s.inAttribute THEN PushAttribute(t, bytes) ELSE Keep(t, bytes)
Unresolved(s) == s.entity
Entity ==
    /\ In("Entity")
    /\ LET name == Tail(html.entity)
           continues == /\ Len(html.entity) < MaxEntity
                        /\ Byte \in Alphanumeric \/ (Byte = "#" /\ Len(html.entity) = 1)
       IN  html' = CASE Byte = ";" /\ name \in DOMAIN References ->
                            Used(EmitEntity(html, References[name]))
                     [] Byte = ";" /\ name \notin DOMAIN References ->
                            Used(EmitEntity(html, Append(Unresolved(html), ";")))
                     [] continues -> Used([html EXCEPT !.entity = Append(@, Byte)])
                     [] OTHER -> EmitEntity(html, Unresolved(html))

(* A document may end anywhere.                                             *)
Finish ==
    /\ ~html.ended
    /\ html' = [FlushText([html EXCEPT !.text = @ \o html.entity, !.entity = <<>>,
                                       !.st = "Text"], TRUE) EXCEPT !.ended = TRUE]

---------------------------------------------------------------------------
(* Documents, written from what they mean.  A piece is the bytes of one     *)
(* construct and the bytes of text and the tags it stands for.             *)

Piece(bytes, items) == [bytes |-> bytes, items |-> items]
Written(bytes) == Piece(bytes, [i \in DOMAIN bytes |-> Char(bytes[i])])
(* A reference for each byte that would mean something in its place.        *)
Escaped(bytes) ==
    FlattenSeq([i \in DOMAIN bytes |->
        CASE bytes[i] = "&" -> <<"&", "a", ";">>
          [] bytes[i] = "<" -> <<"&", "l", ";">>
          [] OTHER -> <<bytes[i]>>])
Quoted(quote, value) ==
    IF quote = None THEN Escaped(value) ELSE <<quote>> \o Escaped(value) \o <<quote>>
Attribute(name, quote, value) == <<"sp">> \o name \o <<"sp", "=">> \o Quoted(quote, value)
Opened(name, attributes, values, flag, selfClosing) ==
    Piece(<<"<">> \o name \o attributes \o (IF selfClosing THEN <<"sp", "/">> ELSE <<>>) \o <<">">>,
          <<StartTag(Repaired(name), values, flag, selfClosing)>>)
Closed(name, rest) == Piece(<<"<", "/">> \o name \o rest \o <<">">>, <<EndTag(name)>>)
Nothing(bytes) == Piece(bytes, <<>>)
Script(body, rest) ==
    Piece(<<"<", "s", ">">> \o body \o <<"<", "/", "S">> \o rest \o <<">">>,
          <<StartTag(<<"s">>, <<>>, FALSE, FALSE), EndTag(<<"s">>)>>)
Textarea(body) ==
    Piece(<<"<", "t", "x", ">">> \o Escaped(body) \o <<"<", "/", "t", "x", ">">>,
          <<StartTag(<<"t", "x">>, <<>>, FALSE, FALSE)>> \o Written(body).items
            \o <<EndTag(<<"t", "x">>)>>)

Texts == {<<"x">>, <<"2", "c">>, <<"2">>, <<"3", "c">>, <<"c", "x">>, <<">">>, <<"<", "sp">>,
          <<"&">>, <<"&", "x", ";">>, <<"&", "#", ";">>, <<"&", "a", "a", "a", ";">>}
Values == {<<>>, <<"&", "x">>, <<"2", "c", "<">>, <<"2">>}
Fixtures ==
    {Written(text) : text \in Texts} \cup
    {Piece(Escaped(<<"&", "<">>), Written(<<"&", "<">>).items),
     Piece(<<"&", "#", "1", ";">>, Written(<<"2", "c">>).items)} \cup
    {Opened(<<"p">>, Attribute(<<"h">>, quote, value), <<<<<<"h">>, Repaired(value)>>>>, FALSE, FALSE) :
        quote \in {"dq", "sq"}, value \in Values} \cup
    {Opened(<<"p">>, Attribute(<<"h">>, None, <<"x", "/">>), <<<<<<"h">>, <<"x", "/">>>>>>, FALSE, FALSE),
     Opened(<<"p">>, Attribute(<<"h">>, None, <<"x">>) \o Attribute(<<"h">>, "sq", <<"a">>),
            <<<<<<"h">>, <<"x">>>>>>, FALSE, TRUE),
     Opened(<<"p">>, Attribute(<<"x">>, "dq", <<">">>) \o <<"sp", "d">>, <<>>, TRUE, FALSE),
     Opened(<<"p">>, <<"sp", "b", "sp", "d">>, <<<<<<"b">>, <<>>>>>>, TRUE, TRUE),
     Opened(<<"p">>, <<"sp", "x", "sp", "a", "sp", "d", "sp", "b">>, <<>>, TRUE, FALSE),
     Closed(<<"p">>, <<>>), Closed(<<"p">>, Attribute(<<"h">>, "sq", <<">">>)),
     Nothing(<<"<", "/", ">">>), Nothing(<<"<", "!", "x", ">">>), Nothing(<<"<", "?", "-", ">">>),
     Nothing(<<"<", "!", "-", "x", ">">>), Nothing(<<"<", "!", "-", "-", ">">>),
     Nothing(<<"<", "!", "-", "-", "-", ">">>),
     Nothing(<<"<", "!", "-", "-", "<", "p", ">", "-", "-", "-", ">">>),
     Script(<<"x", "<", "p", ">", "&", "a", ";">>, <<>>), Script(<<"<", "<">>, <<"sp", "/">>),
     Script(<<"<", "/", "s", "x">>, <<>>),
     Textarea(<<"x", "&", "2">>), Textarea(<<"<", "/", "t", "p", ">">>),
     Piece(<<"<", "t", "x", ">", "<", "p", ">", "<", "<", "/", "t", "p", "<", "/", "t", "x", ">">>,
           <<StartTag(<<"t", "x">>, <<>>, FALSE, FALSE)>>
             \o Written(<<"<", "p", ">", "<", "<", "/", "t", "p">>).items
             \o <<EndTag(<<"t", "x">>)>>)} \cup
    IF SelfClosedTextarea THEN {Opened(<<"t", "x">>, <<>>, <<>>, FALSE, TRUE)} ELSE {}

Init == \E pieces \in UNION {[1 .. n -> Fixtures] : n \in 1 .. MaxPieces}, plain \in BOOLEAN :
            html = New(plain, pieces)
Next == \/ PlainText \/ Text \/ TagOpen \/ EndTagOpen \/ TagName
        \/ BeforeAttributeName \/ AttributeName \/ AfterAttributeName
        \/ BeforeAttributeValue \/ AttributeValue \/ AfterAttributeValue \/ SelfClosing
        \/ MarkupDeclaration \/ Comment
        \/ RawText \/ RawTextLessThan \/ RawTextEndTagName \/ RawTextEndTagRest
        \/ Entity \/ Finish

(* What a document of these pieces means: the text between two tags is one  *)
(* run, whatever it was written in.                                        *)
Meaning(items) ==
    LET tags == {i \in DOMAIN items : items[i].kind # "char"}
        run(from, to) == Chars([i \in 1 .. to - from + 1 |-> items[from + i - 1].char])
        upTo[i \in 0 .. Len(items)] ==
            IF i = 0 THEN <<>>
            ELSE IF i \in tags THEN Append(upTo[i - 1], items[i])
            ELSE LET from == CHOOSE f \in 1 .. i : /\ \A k \in f .. i : k \notin tags
                                                   /\ f = 1 \/ f - 1 \in tags
                 IN  upTo[from - 1] \o run(from, i)
    IN  upTo[Len(items)]
Items(pieces) == FlattenSeq([i \in DOMAIN pieces |-> pieces[i].items])
Source(pieces) == FlattenSeq([i \in DOMAIN pieces |-> pieces[i].bytes])
Expected(s) ==
    IF s.plain THEN Chars(Source(s.doc)) ELSE Meaning(Items(s.doc))

---------------------------------------------------------------------------
(* Properties *)

(* The machine is in one of its states and holds no more than its bounds:   *)
(* the name, the kept values, the reference and the text stay short however *)
(* long the document is ("kilobytes, not megabytes", module doc).          *)
TypeOK ==
    /\ Len(html.tag.name) <= MaxTagName /\ Len(html.entity) <= MaxEntity
    /\ \A i \in DOMAIN html.tag.values : Len(html.tag.values[i][2]) <= MaxValue
    /\ Len(html.text) <= Threshold + MaxEntity + MaxTagName
    /\ html.matched \in 0 .. 2

(* A document read to its end gives the sink exactly what it was written    *)
(* from: every character once and in order, however its bytes fell to the  *)
(* runs that were flushed, every tag with the attributes that count,       *)
(* nothing of a comment or a script.                                       *)
RoundTrips == html.ended /\ html.in = <<>> => html.out = Expected(html)

(* A document that ends early loses nothing of the pieces before the one it *)
(* ends in, except a last character still short of its bytes (finish).     *)
Complete(s) ==
    LET used == Len(Source(s.doc)) - Len(s.in)
    IN  CHOOSE k \in 0 .. Len(s.doc) :
            /\ Len(Source(SubSeq(s.doc, 1, k))) <= used
            /\ k = Len(s.doc) \/ Len(Source(SubSeq(s.doc, 1, k + 1))) > used
EarlyEndKeepsTheRest ==
    html.ended /\ ~html.plain =>
        LET whole == Meaning(Items(SubSeq(html.doc, 1, Complete(html))))
            sure == IF whole # <<>> /\ Last(whole) = Char("?") THEN Front(whole) ELSE whole
        IN  IsPrefix(sure, html.out)

(* No byte of a script or a style sheet waits to become text.               *)
ScriptsAreDropped == html.raw = "script" /\ html.st = "RawText" => html.text = <<>>
=============================================================================
