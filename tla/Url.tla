-------------------------------- MODULE Url --------------------------------
(***************************************************************************)
(* browser/src/url.rs: the addresses of the browser.  An address is typed, *)
(* a link of the page is followed, a form puts its query on one, a         *)
(* directory's page is given the address its links resolve against.        *)
(*                                                                         *)
(* A text is a sequence of characters; a scheme's name is one of them, as  *)
(* is a label of a host, and a character outside ASCII is one byte.  The   *)
(* limits of a text, a port and an IPv4 field are the constants MaxUrl,    *)
(* PortMax and OctetMax, the ports of the schemes those of Ports.          *)
(***************************************************************************)
EXTENDS Integers, Sequences, FiniteSets, SequencesExt

CONSTANTS Typed,       \* the texts typed into the address field
          References,  \* the links of a page
          Queries,     \* the queries forms make
          Names,       \* the entries of a directory, as its page links them
          Ports,       \* the default port of each scheme
          PortMax, OctetMax, Quad, MaxDigits, MaxUrl, None

VARIABLE url  \* .page the address shown, .from and .link what it came from

URL(scheme, host, port, path, query, fragment) ==
  [scheme |-> scheme, host |-> host, port |-> port, path |-> path, query |-> query, fragment |-> fragment]

----------------------------------------------------------------------------
(* Characters and texts *)

DigitOf(c) == CASE c = "0" -> 0 [] c = "1" -> 1 [] c = "2" -> 2 [] c = "9" -> 9 [] OTHER -> None
IsDigit(c) == c \in {"0", "1", "2", "9"}
Lower(c) == IF c = "X" THEN "x" ELSE c
IsAscii(c) == c /= "é"
IsLetter(c) == c \notin {"/", ".", "?", "#", ":", "@", "[", "]", "%", "_", " ", "é", "0", "1", "2", "9"}

Empty == <<>>
At(text, chars) == {i \in DOMAIN text : text[i] \in chars}
First(text, chars) == CHOOSE i \in At(text, chars) : \A j \in At(text, chars) : i <= j
Final(text, chars) == CHOOSE i \in At(text, chars) : \A j \in At(text, chars) : i >= j
Upto(text, n) == SubSeq(text, 1, n)
From(text, n) == SubSeq(text, n, Len(text))
Begins(text, prefix) == IsPrefix(prefix, text)
Pieces(text, mark) ==
  LET cuts == {0, Len(text) + 1} \cup At(text, {mark})
      After(i) == CHOOSE j \in cuts : j > i /\ \A k \in cuts : k > i => k >= j
  IN  [n \in 1 .. Cardinality(cuts) - 1 |->
        LET i == CHOOSE c \in cuts : Cardinality({k \in cuts : k < c}) = n - 1
        IN  SubSeq(text, i + 1, After(i) - 1)]

Trimmed(text) ==
  LET solid == {i \in DOMAIN text : text[i] /= " "}
  IN  IF solid = {} THEN Empty
      ELSE SubSeq(text, CHOOSE i \in solid : \A j \in solid : i <= j, CHOOSE i \in solid : \A j \in solid : i >= j)

Forbidden(text) == At(text, {" "}) /= {}

\* Every byte outside ASCII as three characters, nothing else touched.
Encoded(text) == FlattenSeq([i \in DOMAIN text |-> IF IsAscii(text[i]) THEN <<text[i]>> ELSE <<"%", "E", "9">>])
EncodedOptional(text) == IF text = None THEN None ELSE Encoded(text)

----------------------------------------------------------------------------
(* The parts of a text; None in place of a part refuses the whole *)

\* [scheme, rest] when the text starts with `name:`.
SplitScheme(text) ==
  LET colon == First(text, {":"})
  IN  IF /\ At(text, {":"}) /= {} /\ colon > 1 /\ IsLetter(text[1])
         /\ \A i \in 1 .. colon - 1 : IsLetter(text[i]) \/ IsDigit(text[i]) \/ text[i] = "."
      THEN [scheme |-> Upto(text, colon - 1), rest |-> From(text, colon + 1)] ELSE None

Known(name) == name \in {<<s>> : s \in DOMAIN Ports}

HasScheme(text) ==
  LET split == SplitScheme(text)
  IN  split /= None /\ (Begins(split.rest, <<"/", "/">>) \/ Known(split.scheme))

Classify(text) ==
  IF text = Empty THEN "same"
  ELSE IF SplitScheme(text) /= None THEN "absolute"
  ELSE IF Begins(text, <<"/", "/">>) THEN "scheme_relative"
  ELSE IF text[1] = "/" THEN "root" ELSE IF text[1] = "?" THEN "query" ELSE IF text[1] = "#" THEN "fragment" ELSE "relative"

\* The authority ends before the first `/`, `?` or `#`.
SplitAuthority(rest) ==
  IF At(rest, {"/", "?", "#"}) = {} THEN [authority |-> rest, remainder |-> Empty]
  ELSE LET end == First(rest, {"/", "?", "#"}) IN [authority |-> Upto(rest, end - 1), remainder |-> From(rest, end)]

Number(digits) == FoldLeft(LAMBDA value, c : value * 10 + DigitOf(c), 0, digits)
AllDigits(text) == \A i \in DOMAIN text : IsDigit(text[i])
ParsePort(text) == IF ~AllDigits(text) THEN None ELSE IF Number(text) > PortMax THEN None ELSE Number(text)

IsIpv4(host) ==
  LET fields == Pieces(host, ".")
  IN  /\ Len(fields) = Quad
      /\ \A n \in DOMAIN fields :
            /\ fields[n] /= Empty /\ Len(fields[n]) <= MaxDigits /\ AllDigits(fields[n])
            /\ ~(Len(fields[n]) > 1 /\ fields[n][1] = "0")
            /\ Number(fields[n]) <= OctetMax

\* One trailing dot is the root of the names and is dropped.
ValidateHost(text) ==
  LET host == IF text /= Empty /\ Last(text) = "." THEN Front(text) ELSE text
      numeric == \A i \in DOMAIN host : IsDigit(host[i]) \/ host[i] = "."
      labels == Pieces(host, ".")
  IN  IF host = Empty THEN None
      ELSE IF numeric THEN (IF IsIpv4(host) THEN host ELSE None)
      ELSE IF \A n \in DOMAIN labels : /\ labels[n] /= Empty
                                       /\ \A i \in DOMAIN labels[n] : IsLetter(labels[n][i]) \/ IsDigit(labels[n][i]) \/ labels[n][i] = "_"
           THEN [i \in DOMAIN host |-> Lower(host[i])] ELSE None

ParseAuthority(authority, scheme) ==
  LET colon == Final(authority, {":"})
      named == At(authority, {":"}) /= {}
      digits == IF named THEN From(authority, colon + 1) ELSE Empty
      host == ValidateHost(IF named THEN Upto(authority, colon - 1) ELSE authority)
      port == IF digits = Empty THEN Ports[scheme] ELSE ParsePort(digits)
  IN  IF At(authority, {"@", "[", "]"}) /= {} \/ port = None \/ host = None THEN None
      ELSE [host |-> host, port |-> port]

\* What follows `file:`, its empty or local authority taken off.
StripFileAuthority(rest) ==
  IF Begins(rest, <<"/", "/">>)
  THEN LET split == SplitAuthority(From(rest, 3))
       IN  IF split.authority \in {Empty, <<"localhost">>} THEN split.remainder ELSE None
  ELSE IF Begins(rest, <<"/">>) THEN rest ELSE None

\* The fragment is cut first, then the query.
SplitPath(rest) ==
  LET hash == At(rest, {"#"}) /= {}
      before == IF hash THEN Upto(rest, First(rest, {"#"}) - 1) ELSE rest
      mark == At(before, {"?"}) /= {}
  IN  [path |-> IF mark THEN Upto(before, First(before, {"?"}) - 1) ELSE before,
       query |-> IF mark THEN From(before, First(before, {"?"}) + 1) ELSE None,
       fragment |-> IF hash THEN From(rest, First(rest, {"#"}) + 1) ELSE None]

----------------------------------------------------------------------------
(* Dot segments, removed as the loop of RFC 3986 5.2.4 does it *)

DropLast(output) == IF At(output, {"/"}) = {} THEN Empty ELSE Upto(output, Final(output, {"/"}) - 1)

RECURSIVE Reduced(_, _)
Reduced(output, input) ==
  IF input = Empty THEN output
  ELSE IF Begins(input, <<".", ".", "/">>) THEN Reduced(output, From(input, 4))
  ELSE IF Begins(input, <<".", "/">>) \/ Begins(input, <<"/", ".", "/">>) THEN Reduced(output, From(input, 3))
  ELSE IF input = <<"/", ".">> THEN Reduced(output, <<"/">>)
  ELSE IF Begins(input, <<"/", ".", ".", "/">>) THEN Reduced(DropLast(output), From(input, 4))
  ELSE IF input = <<"/", ".", ".">> THEN Reduced(DropLast(output), <<"/">>)
  ELSE IF input \in {<<".">>, <<".", ".">>} THEN output
  ELSE LET slash == {i \in At(input, {"/"}) : i > 1}
           end == IF slash = {} THEN Len(input) ELSE (CHOOSE i \in slash : \A j \in slash : i <= j) - 1
       IN  Reduced(output \o Upto(input, end), From(input, end + 1))

RemoveDotSegments(path) ==
  LET output == Reduced(Empty, path) IN IF Begins(output, <<"/">>) THEN output ELSE <<"/">> \o output

NormalizePath(path) == IF path = Empty THEN <<"/">> ELSE RemoveDotSegments(Encoded(path))

----------------------------------------------------------------------------
(* The projections *)

HasDefaultPort(u) == u.port = Ports[u.scheme]
Decimal(n) == IF n < 10 THEN <<ToString(n)>> ELSE <<ToString(n \div 10), ToString(n % 10)>>

RequestTarget(u) == u.path \o (IF u.query = None THEN Empty ELSE <<"?">> \o u.query)
HostHeader(u) == u.host \o (IF HasDefaultPort(u) THEN Empty ELSE <<":">> \o Decimal(u.port))
ToText(u) ==
  <<u.scheme, ":", "/", "/">> \o HostHeader(u) \o RequestTarget(u) \o (IF u.fragment = None THEN Empty ELSE <<"#">> \o u.fragment)

\* The bound holds for the address as it is shown, encoded.
Checked(u) == IF Len(ToText(u)) > MaxUrl THEN None ELSE u

SameOrigin(u, v) == u.scheme = v.scheme /\ u.host = v.host /\ u.port = v.port
SameDocument(u, v) == SameOrigin(u, v) /\ u.path = v.path /\ u.query = v.query

----------------------------------------------------------------------------
(* Parsing and resolving *)

Assembled(scheme, place, remainder) ==
  LET parts == SplitPath(remainder)
  IN  Checked(URL(scheme, place.host, place.port, NormalizePath(parts.path), EncodedOptional(parts.query), EncodedOptional(parts.fragment)))

Parse(given) ==
  LET text == Trimmed(given)
      split == SplitScheme(text)
  IN  IF text = Empty \/ Len(text) > MaxUrl \/ Forbidden(text) \/ split = None THEN None
      ELSE IF ~Known(split.scheme) THEN None
      ELSE LET scheme == split.scheme[1]
               after == SplitAuthority(From(split.rest, 3))
               place == ParseAuthority(after.authority, scheme)
               local == StripFileAuthority(split.rest)
           IN  IF scheme = "file"
               THEN IF local = None THEN None ELSE Assembled(scheme, [host |-> Empty, port |-> 0], local)
               ELSE IF ~Begins(split.rest, <<"/", "/">>) \/ place = None THEN None ELSE Assembled(scheme, place, after.remainder)

\* What a person types gets a scheme when it has none.
ParseTyped(given) ==
  LET text == Trimmed(given)
  IN  IF text = Empty THEN None
      ELSE IF HasScheme(text) THEN Parse(text)
      ELSE Parse((IF Begins(text, <<"/", "/">>) THEN <<"http", ":">> ELSE <<"http", ":", "/", "/">>) \o text)

\* Up to the base's last slash, then the reference.
MergePath(u, path) == Upto(u.path, Final(u.path, {"/"})) \o Encoded(path)

Resolve(u, given) ==
  LET text == Trimmed(given)
      parts == SplitPath(text)
      after == SplitAuthority(From(text, 3))
      place == ParseAuthority(after.authority, u.scheme)
      Placed(path, fragment) == Checked([u EXCEPT !.path = path, !.query = EncodedOptional(parts.query), !.fragment = fragment])
  IN  IF Len(text) > MaxUrl \/ Forbidden(text) THEN None
      ELSE CASE Classify(text) = "absolute" -> Parse(text)
             [] Classify(text) = "scheme_relative" ->
                  IF u.scheme = "file" \/ place = None THEN None ELSE Assembled(u.scheme, place, after.remainder)
             [] Classify(text) = "root" -> Placed(NormalizePath(parts.path), EncodedOptional(parts.fragment))
             [] Classify(text) = "relative" -> Placed(RemoveDotSegments(MergePath(u, parts.path)), EncodedOptional(parts.fragment))
             [] Classify(text) = "query" -> Placed(u.path, EncodedOptional(parts.fragment))
             [] Classify(text) = "fragment" -> Checked([u EXCEPT !.fragment = Encoded(From(text, 2))])
             [] Classify(text) = "same" -> Checked([u EXCEPT !.fragment = None])

WithQuery(u, query) == Checked([u EXCEPT !.query = query, !.fragment = None])
WithoutFragment(u) == [u EXCEPT !.fragment = None]

AsDirectory(u) ==
  IF Last(u.path) = "/" THEN u ELSE Checked([u EXCEPT !.path = Append(@, "/"), !.query = None, !.fragment = None])

----------------------------------------------------------------------------
(* The address shown, from one page to the next *)

Arrive(page, from, link) == page /= None /\ url' = [page |-> page, from |-> from, link |-> link]
Settled == url.page /= None /\ url.from = None

Init == url = [page |-> None, from |-> None, link |-> None]
Type(text) == url.page = None /\ Arrive(ParseTyped(text), None, None)
Follow(link) == Settled /\ Arrive(Resolve(url.page, link), url.page, link)
Submit(query) == Settled /\ Arrive(WithQuery(url.page, query), None, None)
ShowBody == Settled /\ Arrive(WithoutFragment(url.page), None, None)
ShowDirectory == Settled /\ url.page.scheme = "file" /\ Arrive(AsDirectory(url.page), None, None)
Show == url.from /= None /\ Arrive(url.page, None, None)

Next ==
  \/ url.page = None /\ \E text \in Typed : Type(text)
  \/ Settled /\ \E link \in References : Follow(link)
  \/ Settled /\ \E query \in Queries : Submit(query)
  \/ ShowBody \/ ShowDirectory \/ Show

Spec == Init /\ [][Next]_url

----------------------------------------------------------------------------
(* Properties *)

\* An address has a rooted path, a host exactly when it is not a file's, and
\* nothing in it that could end the request line.
TypeOK ==
  url.page /= None =>
    /\ url.page.scheme \in DOMAIN Ports /\ url.page.port \in 0 .. PortMax
    /\ url.page.path[1] = "/"
    /\ (url.page.host = Empty) <=> (url.page.scheme = "file")
    /\ Len(ToText(url.page)) <= MaxUrl /\ ~Forbidden(ToText(url.page))

\* What is shown is what is connected to: the text of an address, parsed or
\* typed again, is that address, however it was reached.
ShownIsConnected ==
  url.page /= None => Parse(ToText(url.page)) = url.page /\ ParseTyped(ToText(url.page)) = url.page

Segments(path) == Pieces(From(path, 2), "/")
\* Dot segments, removed on a stack of segments.
RECURSIVE Climbed(_, _)
Climbed(stack, segments) ==
  IF segments = Empty THEN stack
  ELSE LET s == Head(segments)
           rest == Tail(segments)
           kept == CASE s = <<".">> -> stack [] s = <<".", ".">> -> (IF stack = Empty THEN stack ELSE Front(stack)) [] OTHER -> Append(stack, s)
       IN  Climbed(IF rest = Empty /\ s \in {<<".">>, <<".", ".">>} THEN Append(kept, Empty) ELSE kept, rest)

\* A link leads where its segments lead: every step up drops one segment and
\* stops at the root, an encoded character climbs nowhere, and no dot segment
\* is left for the server to see.
LinksLeadWhereTheirSegmentsDo ==
  url.from /= None =>
    LET text == Trimmed(url.link)
        path == SplitPath(text).path
        target == IF Classify(text) = "root" THEN Encoded(path) ELSE MergePath(url.from, path)
    IN  /\ \A n \in DOMAIN Segments(url.page.path) : Segments(url.page.path)[n] \notin {<<".">>, <<".", ".">>}
        /\ Classify(text) \in {"root", "relative"} => Segments(url.page.path) = Climbed(Empty, Segments(target))

\* Only an absolute or a scheme-relative link leaves its site, a network page
\* reaches a file only by naming one, and a link to a fragment or to nothing
\* stays in its document.
LinksStayOnTheirSite ==
  url.from /= None =>
    LET kind == Classify(Trimmed(url.link))
    IN  /\ kind \notin {"absolute", "scheme_relative"} => SameOrigin(url.page, url.from)
        /\ kind \in {"fragment", "same"} => SameDocument(url.page, url.from)
        /\ kind = "scheme_relative" => url.page.scheme = url.from.scheme

\* The links of a directory's page lead to its entries.
EntriesAreInside ==
  url.page /= None /\ url.page.scheme = "file" =>
    \A name \in Names :
      LET directory == AsDirectory(url.page)
          entry == Resolve(directory, name)
      IN  directory /= None /\ entry /= None => /\ entry.path = directory.path \o Encoded(name)
                                                /\ Begins(entry.path, url.page.path)

\* A directory's address carries neither query nor fragment.
DirectoryIsBare ==
  url.page /= None /\ url.page.scheme = "file" /\ AsDirectory(url.page) /= None =>
    AsDirectory(url.page).query = None /\ AsDirectory(url.page).fragment = None
=============================================================================
