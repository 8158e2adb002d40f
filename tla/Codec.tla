------------------------------- MODULE Codec -------------------------------
(***************************************************************************)
(* What a message is on the wire: the options of messages/ as the setters  *)
(* write and the getters read them, and serializer.py, which turns a       *)
(* message into bytes and back.                                            *)
(*                                                                         *)
(* Strings, tokens and payloads are sequences of bytes.  An option is its  *)
(* number and its raw value: bytes, or, where the registry says INTEGER,   *)
(* one number, and <<>> for None.  Tokens have at most 15 bytes, message   *)
(* ids 16 bits, and numbers 3 bytes.                                       *)
(***************************************************************************)
EXTENDS Integers, SequencesExt

Slash == 47
Ampersand == 38
PayloadMarker == 255

-----------------------------------------------------------------------------
(* The registry of defines.py.                                             *)

IfMatchNo == 1
ETagNo == 4
IfNoneMatchNo == 5
ObserveNo == 6
LocationPathNo == 8
UriPathNo == 11
ContentTypeNo == 12
MaxAgeNo == 14
UriQueryNo == 15
AcceptNo == 17
LocationQueryNo == 20
Block2No == 23
Block1No == 27
ProxyUriNo == 35
IsInteger(n) == n \in {5, 6, 7, 12, 14, 17, 23, 27, 60}
IsOpaque(n) == n \in {0, 1, 4, 65524}
IsString(n) == n \in {3, 8, 11, 15, 20, 35, 39}
IsRegistered(n) == IsInteger(n) \/ IsOpaque(n) \/ IsString(n)
IsRepeatable(n) == n \in {0, 1, 3, 4, 8, 11, 15, 20}
Default(n) == CASE n = 7 -> <<5683>> [] n = 14 -> <<60>> [] n \in {6, 12, 17} -> <<0>> [] OTHER -> <<>>
\* get_option_flags: the low byte says whether an option is critical.
IsCritical(n) == n % 2 = 1
ContentTypes == {0, 40, 41, 42, 47, 50, 60}

Methods == 1..4
ResponseCodes == 65..69 \cup {95, 128, 136, 140, 141, 143} \cup 131..134 \cup 160..165
IsRequest(code) == code \in 1..31
IsResponse(code) == code \in 64..191

-----------------------------------------------------------------------------
(* Options.                                                                *)

ByteLen(i) == IF i = 0 THEN 0 ELSE IF i < 256 THEN 1 ELSE IF i < 65536 THEN 2 ELSE 3

Option(n, value) == [number |-> n, value |-> value]
\* None has no byte, nor has 0: either reads as the default.
NumberOf(o) == IF o.value = <<>> THEN 0 ELSE Head(o.value)
Length(o) == IF IsInteger(o.number) THEN ByteLen(NumberOf(o)) ELSE Len(o.value)
Value(o) == IF IsInteger(o.number) /\ Length(o) = 0 THEN Default(o.number) ELSE o.value

Message(type, code, mid, token) ==
  [type |-> type, code |-> code, mid |-> mid, token |-> token, options |-> <<>>, payload |-> <<>>]

Numbered(m, n) == SelectSeq(m.options, LAMBDA o : o.number = n)
Has(m, n) == Numbered(m, n) # <<>>
\* add_option raises TypeError for a second option that is not repeatable.
MayAdd(m, o) == IsRepeatable(o.number) \/ ~Has(m, o.number)
AddOption(m, o) == [m EXCEPT !.options = Append(@, o)]
AddAll(m, n, values) == [m EXCEPT !.options = @ \o [i \in DOMAIN values |-> Option(n, values[i])]]
Without(m, n) == [m EXCEPT !.options = SelectSeq(@, LAMBDA o : o.number # n)]

Values(m, n) == [i \in DOMAIN Numbered(m, n) |-> Value(Numbered(m, n)[i])]
First(m, n) == IF Has(m, n) THEN <<Head(Values(m, n))>> ELSE <<>>
Latest(m, n) == IF Has(m, n) THEN Last(Values(m, n)) ELSE Default(n)
Join(values, separator) ==
  IF values = <<>> THEN <<>> ELSE FoldLeft(LAMBDA s, v : s \o <<separator>> \o v, Head(values), Tail(values))

\* The setters.
SetUriPath(m, segments) == AddAll(m, UriPathNo, segments)
SetUriQuery(m, queries) == AddAll(Without(m, UriQueryNo), UriQueryNo, queries)
SetAccept(m, a) == IF a \in ContentTypes THEN AddOption(m, Option(AcceptNo, <<a>>)) ELSE m
SetIfMatch(m, etags) == AddAll(m, IfMatchNo, etags)
SetIfNoneMatch(m) == AddOption(m, Option(IfNoneMatchNo, <<>>))
SetProxyUri(m, uri) == AddOption(m, Option(ProxyUriNo, uri))
SetETag(m, etags) == AddAll(m, ETagNo, etags)
SetContentType(m, c) == AddOption(m, Option(ContentTypeNo, <<c>>))
SetObserve(m, n) == AddOption(Without(m, ObserveNo), Option(ObserveNo, <<n>>))
SetLocationPath(m, segments) == AddAll(m, LocationPathNo, segments)
SetLocationQuery(m, queries) == AddAll(Without(m, LocationQueryNo), LocationQueryNo, queries)
SetMaxAge(m, age) == AddOption(Without(m, MaxAgeNo), Option(MaxAgeNo, <<age>>))
\* A block is its number, the more bit and a size, which is rounded up to a power.
Szx(size) == CHOOSE z \in 0..6 : /\ z = 6 \/ size <= 2 ^ (z + 4)
                                 /\ z = 0 \/ size > 2 ^ (z + 3)
SetBlock(m, n, block) == AddOption(m, Option(n, <<16 * block[1] + 8 * block[2] + Szx(block[3])>>))

\* The getters.
UriPath(m) == Join(Values(m, UriPathNo), Slash)
UriQuery(m) == Join(Values(m, UriQueryNo), Ampersand)
Accept(m) == First(m, AcceptNo)
IfMatch(m) == Values(m, IfMatchNo)
IfNoneMatch(m) == Has(m, IfNoneMatchNo)
ProxyUri(m) == First(m, ProxyUriNo)
ETag(m) == Values(m, ETagNo)
ContentType(m) == Latest(m, ContentTypeNo)
Observe(m) == First(m, ObserveNo)
LocationPath(m) == Join(Values(m, LocationPathNo), Slash)
LocationQuery(m) == Values(m, LocationQueryNo)
MaxAge(m) == Latest(m, MaxAgeNo)
\* parse_blockwise raises TypeError for None, which an option of value 0 reads as.
Unreadable == <<-1>>
ParseBlockwise(v) ==
  IF v = <<>> THEN Unreadable ELSE LET i == Head(v) IN <<i \div 16, (i \div 8) % 2, 2 ^ ((i % 8) + 4)>>
Block(m, n) == IF Has(m, n) THEN ParseBlockwise(Last(Values(m, n))) ELSE <<>>

-----------------------------------------------------------------------------
(* Serializer.serialize.                                                   *)

\* A form of one byte reaches from 13 to 13 + 255.
WrongNibble(v) == IF v <= 12 THEN v ELSE IF v <= 255 THEN 13 ELSE 14
Nibble(v) == IF v <= 12 THEN v ELSE IF v <= 268 THEN 13 ELSE 14
\* int_to_words
Words(i, n) == [k \in 1..n |-> (i \div 256 ^ (n - k)) % 256]
Extended(v) == CASE Nibble(v) = 13 -> <<v - 13>> [] Nibble(v) = 14 -> Words(v - 269, 2) [] OTHER -> <<>>

\* as_sorted_list: a stable sort by number.
Sorted(options) ==
  LET numbers == SetToSortSeq({options[i].number : i \in DOMAIN options}, <) IN
  FlattenSeq([k \in DOMAIN numbers |-> SelectSeq(options, LAMBDA o : o.number = numbers[k])])

Written(o) == IF IsInteger(o.number) THEN Words(NumberOf(o), Length(o)) ELSE o.value
SerializeOption(o, last) ==
  <<(16 * Nibble(o.number - last)) + Nibble(Length(o))>> \o Extended(o.number - last) \o Extended(Length(o))
  \o Written(o)

Serialize(m) ==
  LET options == Sorted(m.options) IN
  <<64 + 16 * m.type + Len(m.token), m.code>> \o Words(m.mid, 2) \o m.token
  \o FlattenSeq([i \in DOMAIN options |->
       SerializeOption(options[i], IF i = 1 THEN 0 ELSE options[i - 1].number)])
  \o IF m.payload = <<>> THEN <<>> ELSE <<PayloadMarker>> \o m.payload

-----------------------------------------------------------------------------
(* Serializer.deserialize: a message, BAD_REQUEST, or an exception that it *)
(* does not catch.                                                         *)

\* What reading an option's header comes to: the delta, the length and the
\* position after it.
Header(outcome, delta, length, pos) == [outcome |-> outcome, delta |-> delta, length |-> length, pos |-> pos]
BadHeader(outcome) == Header(outcome, 0, 0, 0)

\* One of the two nibbles at pos; an index beyond the end is an IndexError, too few
\* bytes for two are a struct.error.
ReadNibble(nibble, d, pos) ==
  CASE nibble <= 12 -> Header("ok", nibble, 0, pos)
    [] nibble = 13 -> IF pos > Len(d) THEN BadHeader("exception") ELSE Header("ok", d[pos] + 13, 0, pos + 1)
    [] nibble = 14 -> IF pos + 1 > Len(d) THEN BadHeader("bad")
                      ELSE Header("ok", 256 * d[pos] + d[pos + 1] + 269, 0, pos + 2)
    [] OTHER -> BadHeader("bad")

\* The length's two bytes are read with the Struct of the delta's: UnboundLocalError
\* where the delta has none.
ReadHeader(byte, d, pos) ==
  LET delta == ReadNibble(byte \div 16, d, pos) IN
  LET length == ReadNibble(byte % 16, d, delta.pos) IN
  IF delta.outcome # "ok" THEN delta
  ELSE IF byte % 16 = 14 /\ byte \div 16 # 14 THEN BadHeader("exception")
  ELSE IF length.outcome # "ok" THEN length
  ELSE Header("ok", delta.delta, length.delta, length.pos)

\* The bytes there are, if the datagram ends before the option.
Taken(d, pos, length) == SubSeq(d, pos, IF pos + length - 1 < Len(d) THEN pos + length - 1 ELSE Len(d))
Number(bytes) == FoldLeft(LAMBDA v, b : 256 * v + b, 0, bytes)
\* bytearray(value, "utf-8") of a str is for ASCII only.
Convertible(n, bytes) == IsString(n) => \A i \in DOMAIN bytes : bytes[i] < 128
Read(n, bytes) == Option(n, IF IsInteger(n) THEN <<Number(bytes)>> ELSE bytes)

Failed(outcome) == [outcome |-> outcome]
Done(m) == [outcome |-> "message", message |-> m]

RECURSIVE ReadOptions(_, _, _, _)
ReadOptions(m, d, pos, current) ==
  IF pos > Len(d) THEN Done(m)
  ELSE IF d[pos] = PayloadMarker
  THEN IF pos = Len(d) THEN Failed("bad") ELSE Done([m EXCEPT !.payload = SubSeq(d, pos + 1, Len(d))])
  ELSE LET h == ReadHeader(d[pos], d, pos + 1)
           n == current + h.delta
           next == h.pos + h.length
           bytes == Taken(d, h.pos, h.length)
       IN IF h.outcome # "ok" THEN Failed(h.outcome)
          ELSE IF ~IsRegistered(n)
          THEN IF IsCritical(n) \/ n > 65535 THEN Failed("bad") ELSE ReadOptions(m, d, next, n)
          ELSE IF ~Convertible(n, bytes) \/ ~MayAdd(m, Read(n, bytes)) THEN Failed("exception")
          ELSE ReadOptions(AddOption(m, Read(n, bytes)), d, next, n)

Deserialize(d) ==
  IF Len(d) < 4 THEN Failed("bad")
  ELSE LET first == d[1]
           code == d[2]
           m == Message((first \div 16) % 4, IF IsRequest(code) \/ IsResponse(code) THEN code ELSE 0, 256 * d[3] + d[4], SubSeq(d, 5, 4 + (first % 16)))
       IN IF \/ first \div 64 # 1 \/ Len(d) < 4 + (first % 16)
             \/ IsRequest(code) /\ code \notin Methods
             \/ IsResponse(code) /\ code \notin ResponseCodes
          THEN Failed("bad")
          ELSE ReadOptions(m, d, 5 + (first % 16), 0)
=============================================================================
