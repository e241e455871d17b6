---------------------------- MODULE RpcMessages ----------------------------
(***************************************************************************)
(* What goes over the serial channel of the Wi-Fi coprocessor: protobuf    *)
(* fields (wifi/proto.rs), the envelope of a remote call (wifi/rpc.rs) and *)
(* the messages of the station (wifi/station.rs), as operators on          *)
(* sequences of bytes.  A byte holds Group values and a flag for more.     *)
(***************************************************************************)
EXTENDS Integers, SequencesExt

CONSTANTS
    Group,    \* values of the seven bits a byte of a varint carries
    Groups,   \* bytes of a varint at most
    Wide,     \* 2 ^ 64: values of a varint
    Narrow,   \* 2 ^ 32: values of an integer field
    Ids,      \* message ids, above the fields every message has
    Texts,    \* names, passwords, bodies: sequences of bytes
    NameMax,  \* longest name
    None

VARIABLE messages

Numbers == -(Narrow \div 2) .. Narrow - 1
Bytes == 0 .. 2 * Group - 1

Number(field, n) == [field |-> field, kind |-> "number", number |-> n, bytes |-> <<>>]
Blob(field, bytes) == [field |-> field, kind |-> "bytes", number |-> 0, bytes |-> bytes]

---------------------------------------------------------------------------
(* Writing *)

RECURSIVE Varint(_)
Varint(value) ==
    IF value < Group THEN <<value>>
    ELSE <<Group + (value % Group)>> \o Varint(value \div Group)

WireVarint == 0
WireBytes == 2
Tag(field, wire) == Varint(field * 8 + wire)
(* A negative number is extended to the width of a varint.                 *)
NumberField(field, value) == Tag(field, WireVarint) \o Varint(value % Wide)
BytesField(field, value) == Tag(field, WireBytes) \o Varint(Len(value)) \o value
Written(f) ==
    IF f.kind = "number" THEN NumberField(f.field, f.number) ELSE BytesField(f.field, f.bytes)
Encoded(fields) == FlattenSeq([i \in DOMAIN fields |-> Written(fields[i])])

---------------------------------------------------------------------------
(* Reading: what is left and what was read, or None at the end and on      *)
(* anything that is cut short.                                             *)

RECURSIVE ReadVarint(_, _, _)
ReadVarint(data, scale, value) ==
    IF data = <<>> \/ scale > Group ^ (Groups - 1) THEN None
    ELSE LET read == (value + (Head(data) % Group) * scale) % Wide
         IN  IF Head(data) < Group THEN [value |-> read, rest |-> Tail(data)]
             ELSE ReadVarint(Tail(data), scale * Group, read)

Taken(data, length) ==
    IF length > Len(data) THEN None
    ELSE [value |-> SubSeq(data, 1, length), rest |-> SubSeq(data, length + 1, Len(data))]
Counted(length) == IF length = None THEN None ELSE Taken(length.rest, length.value)

Value(key, data) ==
    CASE key % 8 = WireVarint -> ReadVarint(data, 1, 0)
      [] key % 8 = WireBytes -> Counted(ReadVarint(data, 1, 0))
      [] key % 8 = 5 -> Taken(data, 4)
      [] key % 8 = 1 -> Taken(data, 8)
      [] OTHER -> None
FieldOf(key, value) ==
    LET field == (key \div 8) % Narrow
    IN  IF value = None THEN None
        ELSE [rest |-> value.rest,
              read |-> IF key % 8 = WireVarint THEN Number(field, value.value)
                       ELSE Blob(field, value.value)]
Keyed(key) == IF key = None THEN None ELSE FieldOf(key.value, Value(key.value, key.rest))
NextField(data) == Keyed(ReadVarint(data, 1, 0))

RECURSIVE Fields(_)
Fields(data) ==
    LET next == NextField(data)
    IN  IF next = None THEN <<>>
        ELSE <<next.read>> \o Fields(next.rest)

(* A field of the wrong kind reads as zero or as nothing, an absent one    *)
(* too, and the last of several counts.                                    *)
LastOf(fields, field) ==
    LET them == SelectSeq(fields, LAMBDA f : f.field = field)
    IN  IF them = <<>> THEN None ELSE Last(them)
Unsigned(fields, field) ==
    LET f == LastOf(fields, field)
    IN  IF f = None \/ f.kind # "number" THEN 0 ELSE f.number % Narrow
Signed(fields, field) ==
    LET u == Unsigned(fields, field) IN IF u >= Narrow \div 2 THEN u - Narrow ELSE u
BytesOf(fields, field) ==
    LET f == LastOf(fields, field)
    IN  IF f = None \/ f.kind # "bytes" THEN <<>> ELSE f.bytes

---------------------------------------------------------------------------
(* Calls *)

Envelope(message) == <<"endpoint">> \o <<Len(message)>> \o message
Unwrapped(bytes) ==
    IF Len(bytes) < 2 \/ Head(bytes) # "endpoint" \/ 2 + bytes[2] > Len(bytes) THEN None
    ELSE SubSeq(bytes, 3, 2 + bytes[2])

EncodeRequest(id, uid, body) ==
    Envelope(Encoded(<<Number(1, 1), Number(2, id), Number(3, uid), Blob(id, body)>>))

(* The body is the field numbered as the message, which may come before    *)
(* that number is read.                                                    *)
Message(fields, id) ==
    LET bodies == SelectSeq(fields, LAMBDA f : f.field = id /\ f.kind = "bytes")
    IN  IF id = 0 THEN None
        ELSE [type |-> Unsigned(fields, 1), id |-> id, uid |-> Unsigned(fields, 3),
              body |-> IF bodies = <<>> THEN <<>> ELSE Head(bodies).bytes]
Opened(fields) == Message(fields, Unsigned(fields, 2))
Decode(bytes) ==
    LET data == Unwrapped(bytes)
    IN  IF data = None THEN None ELSE Opened(Fields(data))

---------------------------------------------------------------------------
(* The station's configuration *)

ConfigRequest(ssid, password, marker) ==
    LET station == <<Blob(1, ssid), Blob(2, password), Blob(9, Encoded(<<Number(1, 0), Number(2, 0)>>)),
                     Blob(10, Encoded(<<Number(1, 1)>>))>>
                   \o IF marker THEN <<Number(13, 1)>> ELSE <<>>
    IN  Encoded(<<Number(1, 0), Blob(2, Encoded(<<Blob(2, Encoded(station))>>))>>)

Text(bytes) ==
    LET zeros == {i \in DOMAIN bytes : bytes[i] = 0}
        end == IF zeros = {} THEN Len(bytes) ELSE (CHOOSE i \in zeros : \A j \in zeros : i <= j) - 1
    IN  SubSeq(bytes, 1, IF end < NameMax THEN end ELSE NameMax)
Nested(fields, outer, inner) == Fields(BytesOf(Fields(BytesOf(fields, outer)), inner))
Profile(fields, station) ==
    [status |-> Signed(fields, 1), ssid |-> Text(BytesOf(station, 1)),
     password |-> Text(BytesOf(station, 2)), marker |-> Unsigned(station, 13) = 1]
ParsedConfig(fields) == Profile(fields, Nested(fields, 3, 2))
ParseStationConfig(payload) == ParsedConfig(Fields(payload))

(* What the coprocessor makes of a request when it is asked for its        *)
(* configuration (external): names are padded, a status of zero is left    *)
(* out.                                                                    *)
Padded(text) == text \o [i \in 1 .. NameMax + 1 - Len(text) |-> 0]
Stored(station) ==
    <<Blob(1, Padded(BytesOf(station, 1))), Blob(2, Padded(BytesOf(station, 2))),
      Number(13, Unsigned(station, 13))>>
ConfigResponse(request, status) ==
    Encoded((IF status = 0 THEN <<>> ELSE <<Number(1, status)>>)
            \o <<Number(2, 0), Blob(3, Encoded(<<Blob(2, Encoded(Stored(Nested(Fields(request), 2, 2))))>>))>>)

---------------------------------------------------------------------------
Init == messages = None

Pairs ==
    LET numbers == {Number(id, n) : id \in {1, 2}, n \in Numbers}
        blobs == {Blob(id, t) : id \in {1, 2}, t \in Texts}
    IN  (numbers \X numbers) \cup (numbers \X blobs) \cup (blobs \X numbers)

(* A writer's buffer.                                                      *)
WriteFields ==
    /\ messages = None
    /\ \E fields \in Pairs :
          messages' = [of |-> "fields", fields |-> fields, wire |-> Encoded(fields)]

(* A call.                                                                 *)
SendRequest ==
    /\ messages = None
    /\ \E id \in Ids, uid \in 0 .. Narrow - 1, body \in Texts :
          messages' = [of |-> "request", id |-> id, uid |-> uid, body |-> body,
                       wire |-> EncodeRequest(id, uid, body)]

(* The station is configured, and says how it is configured.               *)
Configure ==
    /\ messages = None
    /\ \E ssid, password \in Texts, marker \in BOOLEAN, status \in {0, -1, Narrow \div 2 - 1} :
          messages' = [of |-> "config", ssid |-> ssid, password |-> password, marker |-> marker,
                       status |-> status, wire |-> ConfigRequest(ssid, password, marker)]
Respond ==
    /\ messages # None /\ messages.of = "config"
    /\ messages' = [messages EXCEPT !.of = "response", !.wire = ConfigResponse(@, messages.status)]

Next == WriteFields \/ SendRequest \/ Configure \/ Respond

(* What is written is read back, numbers of either sign included.          *)
AsWritten(f) == [f EXCEPT !.number = @ % Wide]
FieldsRoundTrip ==
    messages # None /\ messages.of = "fields" =>
        LET f == messages.fields[2]
        IN  /\ Fields(messages.wire) = [i \in 1 .. 2 |-> AsWritten(messages.fields[i])]
            /\ f.kind = "number" =>
                  f.number \in {Signed(Fields(messages.wire), f.field), Unsigned(Fields(messages.wire), f.field)}

(* A message cut short reads as its first fields, never as another one.    *)
TruncationLosesTheEnd ==
    messages # None /\ messages.of = "fields" =>
        \A k \in 0 .. Len(messages.wire) :
            IsPrefix(Fields(SubSeq(messages.wire, 1, k)), Fields(messages.wire))

(* A request is read as what was asked.                                    *)
RequestsRoundTrip ==
    messages # None /\ messages.of = "request" =>
        Decode(messages.wire) =
            [type |-> 1, id |-> messages.id, uid |-> messages.uid, body |-> messages.body]

(* The profile that is read back is the one that was stored.               *)
ConfigRoundTrip ==
    messages # None /\ messages.of = "response" =>
        ParseStationConfig(messages.wire) =
            [status |-> messages.status, ssid |-> messages.ssid, password |-> messages.password,
             marker |-> messages.marker]
=============================================================================
