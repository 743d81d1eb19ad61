---------------------------- MODULE WireSamples ----------------------------
(***************************************************************************)
(* Inputs for the two codecs, and what the protocols say of them: the      *)
(* bytes of a message by its grammar, and the bytes a server sends for a   *)
(* row.  They are the reference that PgWire and MysqlWire are compared to. *)
(***************************************************************************)
EXTENDS Bytes, FiniteSets

Pg == INSTANCE PgWire
My == INSTANCE MysqlWire
Sc == INSTANCE Scram

Name == {<<>>, <<97>>, <<97, 233>>}             \* "", "a", "aé"
Param == {Null, Bytes(<<>>), Bytes(<<49, 50>>)}
\* Inputs of an area.
Sample(area, cases) == {[area |-> area, input |-> c] : c \in cases}
Params(n) == UNION {[1 .. k -> Param] : k \in 0 .. n}

-----------------------------------------------------------------------------
(* Messages of the client *)

PgSample ==
       [op : {"parse"}, a : Name, b : Name, list : {<<>>, <<23>>, <<23, 25>>}]
  \cup [op : {"bind"}, a : {<<>>}, b : Name, list : Params(3)]
  \cup [op : {"describe", "sasl"}, a : Name, b : Name, list : {<<>>}]
  \cup [op : {"execute", "password", "final"}, a : Name, b : {<<>>}, list : {<<>>}]
  \cup [op : {"startup"}, a : Name, b : Name, list : {<<>>}]
  \cup [op : {"sync", "cancel", "ssl"}, a : {<<>>}, b : {<<>>}, list : {<<>>}]

StartupPairs(s) == <<<<<<117>>, s.a>>, <<<<100>>, s.b>>>>   \* "u", "d" for the keys

PgEncoded(s) ==
  CASE s.op = "parse" -> Pg!EncodeParse(s.a, s.b, s.list)
    [] s.op = "bind" -> Pg!EncodeBind(s.a, s.b, s.list, <<1>>)
    [] s.op = "describe" -> Pg!EncodeDescribe(80, s.a)
    [] s.op = "sasl" -> Pg!EncodeSaslInitialResponse(s.a, s.b)
    [] s.op = "execute" -> Pg!EncodeExecute(s.a, 0)
    [] s.op = "password" -> Pg!EncodePassword(s.a)
    [] s.op = "final" -> Pg!EncodePasswordMessage(s.a)
    [] s.op = "startup" -> Pg!EncodeStartupMessage(StartupPairs(s))
    [] s.op = "sync" -> Pg!EncodeSync
    [] s.op = "cancel" -> Pg!EncodeCancelRequest(7, -2)
    [] s.op = "ssl" -> Pg!EncodeSSLRequest

Z(s) == Utf8(s) \o <<0>>
Each(list, part(_)) == FlattenSeq([i \in DOMAIN list |-> part(list[i])])
PgMessage(type, body) == <<type>> \o Pg!Int32(Len(body) + 4) \o body
PgParam(p) == IF p = Null THEN <<255, 255, 255, 255>> ELSE Pg!Int32(Len(p[2])) \o p[2]

\* The grammar of the protocol.
PgExpected(s) ==
  CASE s.op = "parse" -> PgMessage(80, Z(s.a) \o Z(s.b) \o Pg!Int16(Len(s.list))
                                       \o Each(s.list, Pg!Int32))
    [] s.op = "bind" -> PgMessage(66, Z(s.a) \o Z(s.b) \o <<0, 1, 0, 0>> \o Pg!Int16(Len(s.list))
                                      \o Each(s.list, PgParam) \o <<0, 1, 0, 1>>)
    [] s.op = "describe" -> PgMessage(68, <<80>> \o Z(s.a))
    [] s.op = "sasl" -> PgMessage(112, Z(s.a) \o Pg!Int32(Len(Utf8(s.b))) \o Utf8(s.b))
    [] s.op = "execute" -> PgMessage(69, Z(s.a) \o <<0, 0, 0, 0>>)
    [] s.op = "password" -> PgMessage(112, Z(s.a))
    [] s.op = "final" -> PgMessage(112, Utf8(s.a))
    [] s.op = "startup" ->
         LET body == <<0, 3, 0, 0>> \o Z(<<117>>) \o Z(s.a) \o Z(<<100>>) \o Z(s.b) \o <<0>>
         IN Pg!Int32(Len(body) + 4) \o body
    [] s.op = "sync" -> PgMessage(83, <<>>)
    [] s.op = "cancel" -> <<0, 0, 0, 16, 4, 210, 22, 46, 0, 0, 0, 7, 255, 255, 255, 254>>
    [] s.op = "ssl" -> <<0, 0, 0, 8, 4, 210, 22, 47>>

\* The startup message counts characters and skips an empty value.
StartupFits(s) == s.op = "startup" => {s.a, s.b} \subseteq {<<97>>}

MySample ==
       [op : {"login"}, a : Name, b : Name, list : {<<>>, <<9>>}]
  \cup [op : {"prepare"}, a : Name, b : {<<>>}, list : {<<>>}]
  \cup [op : {"run"}, a : {<<>>}, b : {<<>>},
        list : Params(3) \cup {<<Null>> \o [i \in 1 .. 7 |-> Bytes(<<49>>)] \o <<p>> : p \in Param}]
  \cup [op : {"packet"}, a : {<<>>}, b : {<<>>},
        list : {<<>>, <<3>>, [i \in 1 .. 300 |-> 7]}]

MyEncoded(s) ==
  CASE s.op = "login" -> My!EncodeHandshakeResponse(557576, s.a, s.b, s.list, <<109>>)
    [] s.op = "prepare" -> My!EncodeStmtPrepare(s.a)
    [] s.op = "run" -> My!EncodeStmtExecute(5, s.list)
    [] s.op = "packet" -> My!CreatePacket(s.list, 258)

Bit(p) == IF p = Null THEN 1 ELSE 0
MyParam(p) == IF p = Null THEN <<>> ELSE <<Len(p[2])>> \o p[2]
EightOf(list, k) == SubSeq(list, 8 * k - 7, IF 8 * k < Len(list) THEN 8 * k ELSE Len(list))

MyExpected(s) ==
  CASE s.op = "login" -> My!Int32LE(557576) \o <<255, 255, 255, 0, 33>> \o My!Zeros(23)
                         \o Z(s.a) \o <<Len(s.list)>> \o s.list
                         \o (IF s.b = <<>> THEN <<>> ELSE Z(s.b)) \o Z(<<109>>)
    [] s.op = "prepare" -> <<22>> \o Utf8(s.a)
    [] s.op = "run" ->
         <<23, 5, 0, 0, 0, 0, 1, 0, 0, 0>>
         \o [k \in 1 .. (Len(s.list) + 7) \div 8 |->
               FoldRight(LAMBDA p, n : 2 * n + Bit(p), EightOf(s.list, k), 0)]
         \o <<1>> \o Each(s.list, LAMBDA p : <<254, 0>>) \o Each(s.list, MyParam)
    [] s.op = "packet" -> <<Len(s.list) % 256, Len(s.list) \div 256, 0, 2>> \o s.list

-----------------------------------------------------------------------------
(* Rows of a server: a column has a type, a format, its bytes and the value *)
(* JavaScript has for what the server meant by them: of a 64-bit number the  *)
(* nearest double.                                                           *)

ZeroBits(n) == [i \in 1 .. n |-> 0]
\* 2^53 is the last of the exact numbers; the next odd ones lie between two doubles.
Int64 ==
  { [high |-> <<0, 0, 0, 0>>, low |-> <<0, 0, 3, 4>>, value |-> Number(772)],
    [high |-> <<255, 255, 255, 255>>, low |-> <<255, 255, 255, 255>>, value |-> Number(-1)],
    [high |-> <<0, 32, 0, 0>>, low |-> <<0, 0, 0, 1>>,             \* 2^53 + 1
     value |-> Wide(FALSE, <<1>> \o ZeroBits(53))],
    [high |-> <<0, 32, 0, 0>>, low |-> <<0, 0, 0, 3>>,             \* 2^53 + 3
     value |-> Wide(FALSE, <<1>> \o ZeroBits(50) \o <<1, 0, 0>>)],
    [high |-> <<127, 255, 255, 255>>, low |-> <<255, 255, 255, 255>>,
     value |-> Wide(FALSE, <<1>> \o ZeroBits(63))],                \* 2^63 - 1
    [high |-> <<255, 224, 0, 0>>, low |-> <<0, 0, 0, 0>>,          \* -2^53
     value |-> Wide(TRUE, <<1>> \o ZeroBits(53))] }

PgArray(oid, items) ==
  Pg!Int32(1) \o Pg!Int32(0) \o Pg!Int32(oid) \o Pg!Int32(Len(items)) \o Pg!Int32(1)
  \o Each(items, LAMBDA b : IF b = Null THEN Pg!Int32(-1) ELSE Pg!Int32(Len(b)) \o b)

\* Columns of which a row has one or two, and others of which it has one.
PgColumn ==
  { [oid |-> 23, format |-> 1, bytes |-> <<255, 255, 255, 254>>, value |-> Number(-2)],
    [oid |-> 23, format |-> 0, bytes |-> <<45, 49, 50>>, value |-> Number(-12)],
    [oid |-> 21, format |-> 1, bytes |-> <<128, 1>>, value |-> Number(-32767)],
    [oid |-> 16, format |-> 1, bytes |-> <<1>>, value |-> Bool(TRUE)],
    [oid |-> 16, format |-> 0, bytes |-> <<102>>, value |-> Bool(FALSE)],
    [oid |-> 25, format |-> 1, bytes |-> <<195, 169>>, value |-> Text(<<233>>)],
    [oid |-> 25, format |-> 0, bytes |-> <<>>, value |-> Text(<<>>)],
    [oid |-> 23, format |-> 1, bytes |-> Null, value |-> Null],
    [oid |-> 1007, format |-> 1, bytes |-> PgArray(23, <<<<0, 0, 0, 9>>, Null>>),
     value |-> Array(<<Number(9), Null>>)] }

PgOtherColumn ==
  { [oid |-> 20, format |-> 1, bytes |-> n.high \o n.low, value |-> n.value] : n \in Int64 }
  \cup
  { [oid |-> 1016, format |-> 1, bytes |-> PgArray(20, <<n.high \o n.low>>),
     value |-> Array(<<n.value>>)] : n \in Int64 }
  \cup
  { [oid |-> 20, format |-> 0, bytes |-> <<55>>, value |-> Number(7)],
    [oid |-> 114, format |-> 1, bytes |-> <<123, 125>>, value |-> Parsed("JSON.parse", <<123, 125>>)],
    [oid |-> 3802, format |-> 1, bytes |-> <<1, 123, 125>>,
     value |-> Parsed("JSON.parse", <<123, 125>>)],
    [oid |-> 3802, format |-> 0, bytes |-> <<123, 125>>, value |-> Parsed("JSON.parse", <<123, 125>>)],
    [oid |-> 17, format |-> 1, bytes |-> <<195, 0, 255>>, value |-> Bytes(<<195, 0, 255>>)],
    [oid |-> 701, format |-> 1, bytes |-> <<63, 248, 0, 0, 0, 0, 0, 0>>,
     value |-> Float(<<63, 248, 0, 0, 0, 0, 0, 0>>)],
    [oid |-> 1700, format |-> 0, bytes |-> <<49, 46, 53>>, value |-> Parsed("parseFloat", <<49, 46, 53>>)],
    [oid |-> 1082, format |-> 0, bytes |-> <<50, 48>>, value |-> Parsed("Date", <<50, 48>>)],
    [oid |-> 1114, format |-> 1, bytes |-> <<0, 0, 0, 0, 0, 0, 5, 220>>, value |-> Date(1)],
    [oid |-> 1184, format |-> 1, bytes |-> <<255, 255, 255, 255, 255, 255, 255, 255>>,
     value |-> Date(-1)],
    [oid |-> 2950, format |-> 1, bytes |-> [i \in 1 .. 16 |-> 15 + i],
     value |-> Text(<<49, 48, 49, 49, 49, 50, 49, 51, 45, 49, 52, 49, 53, 45, 49, 54, 49, 55, 45,
                      49, 56, 49, 57, 45, 49, 97, 49, 98, 49, 99, 49, 100, 49, 101, 49, 102>>)] }

\* Types of which decodeBinaryValue() has no case: they come as the text of their bytes
\* (pg-wire.ts:503-505), whatever the server meant by these: 42, a day, 1.5.
PgUndecoded ==
  { [oid |-> 26, format |-> 1, bytes |-> <<0, 0, 0, 42>>, value |-> Text(<<0, 0, 0, 42>>)],
    [oid |-> 1082, format |-> 1, bytes |-> <<0, 0, 35, 40>>, value |-> Text(<<0, 0, 35, 40>>)],
    [oid |-> 1700, format |-> 1, bytes |-> <<0, 2, 0, 0, 0, 0, 0, 1, 0, 1, 19, 136>>,
     value |-> Text(<<0, 2, 0, 0, 0, 0, 0, 1, 0, 1, 19, 65533>>)] }

PgRow == UNION {[1 .. k -> PgColumn] : k \in 0 .. 2}
         \cup [1 .. 1 -> PgOtherColumn \cup PgUndecoded]
ColumnName(i) == <<96 + i>>
PgFields(row) == [i \in DOMAIN row |->
                    [name |-> ColumnName(i), oid |-> row[i].oid, format |-> row[i].format]]
PgField(f) == f.name \o <<0>> \o Pg!Int32(0) \o Pg!Int16(1) \o Pg!Int32(f.oid) \o Pg!Int16(4)
              \o Pg!Int32(-1) \o Pg!Int16(f.format)
PgDescription(row) == Pg!Int16(Len(row)) \o Each(PgFields(row), PgField)
PgValue(c) == IF c.value = Null THEN Pg!Int32(-1) ELSE Pg!Int32(Len(c.bytes)) \o c.bytes
PgRowBytes(row) == Pg!Int16(Len(row)) \o Each(row, PgValue)

MyColumn ==
  { [type |-> 1, bytes |-> <<254>>, value |-> Number(-2)],
    [type |-> 2, bytes |-> <<1, 2>>, value |-> Number(513)],
    [type |-> 3, bytes |-> <<255, 255, 255, 255>>, value |-> Number(-1)],
    [type |-> 9, bytes |-> <<254, 255, 255, 255>>, value |-> Number(-2)],
    [type |-> 245, bytes |-> <<2, 123, 125>>, value |-> Parsed("JSON.parse", <<123, 125>>)],
    [type |-> 254, bytes |-> <<3, 97, 195, 169>>, value |-> Text(<<97, 233>>)],
    [type |-> 254, bytes |-> <<0>>, value |-> Text(<<>>)],
    [type |-> 12, bytes |-> <<2, 7, 8>>, value |-> My!UnsupportedDate],
    [type |-> 3, bytes |-> Null, value |-> Null] }
MyOtherColumn ==
  { [type |-> 8, bytes |-> Reverse(n.high \o n.low), value |-> n.value] : n \in Int64 }
  \cup
  { [type |-> 13, bytes |-> <<234, 7>>, value |-> Number(2026)],
    [type |-> 4, bytes |-> <<0, 0, 192, 63>>, value |-> Float(<<63, 192, 0, 0>>)],
    [type |-> 5, bytes |-> <<0, 0, 0, 0, 0, 0, 248, 63>>,
     value |-> Float(<<63, 248, 0, 0, 0, 0, 0, 0>>)],
    [type |-> 246, bytes |-> <<3, 49, 46, 53>>, value |-> Text(<<49, 46, 53>>)],
    [type |-> 252, bytes |-> <<2, 0, 255>>, value |-> Text(<<0, 65533>>)] }
MyRow == UNION {[1 .. k -> MyColumn] : k \in 0 .. 2}
         \cup [1 .. 1 -> MyOtherColumn] \cup (MyOtherColumn \X MyColumn)
         \cup {[i \in 1 .. 6 |-> c] \o <<d>> : c, d \in {x \in MyColumn : x.type = 3}}
MyFields(row) == [i \in DOMAIN row |-> [name |-> ColumnName(i), type |-> row[i].type]]
MyRowBytes(row) ==
  LET nulls == <<0, 0>> \o [i \in DOMAIN row |-> IF row[i].value = Null THEN 1 ELSE 0]
      byte(k) == FoldRight(LAMBDA x, n : 2 * n + x, EightOf(nulls, k), 0)
  IN <<0>> \o [k \in 1 .. (Len(row) + 9) \div 8 |-> byte(k)]
     \o Each(row, LAMBDA c : IF c.value = Null THEN <<>> ELSE c.bytes)

\* What a server says besides: errors, notifications, greetings, fields, a login.
ServerSample ==
  Sample("pg error", UNION {[1 .. k -> {67, 77} \X Name] : k \in 0 .. 2})
  \cup Sample("notification", Name \X Name)
  \cup Sample("mysql error", {<<>>, <<35, 52, 50, 48, 48, 48>>} \X Name)
  \cup Sample("greeting", Name \X {8, 21, 32})
  \cup Sample("field", [1 .. 6 -> {<<>>, <<97>>}])
  \cup Sample("packet", {<<>>, <<3>>, [i \in 1 .. 300 |-> 7]})
  \cup Sample("native password", {<<>>, <<115>>} \X {<<115>>, <<111>>})

\* The salt comes in two parts, of eight bytes and of at least thirteen with a last zero.
Salt(length) == [i \in 1 .. (IF length < 21 THEN 21 ELSE length) |-> i]
Greeting(version, length) ==
  <<10>> \o Z(version) \o My!Zeros(4) \o Prefix(Salt(length), 8) \o My!Zeros(8)
  \o <<length>> \o My!Zeros(10) \o After(Salt(length), 8)
FieldOf(strings) ==
  Each(strings, LAMBDA s : <<Len(s)>> \o s) \o <<12, 33, 0>> \o My!Int32LE(11) \o <<3>> \o My!Zeros(5)

LenEncSample == {0, 250, 251, 252, 255, 256, 65535, 65536, 16777215, 16777216, 2147483647}

-----------------------------------------------------------------------------
(* SCRAM: a server that has, or has not, what belongs to the password. *)

ScramSample ==
  [known : {"secret", "other"}, nonce : {<<1>>, <<1, 2>>, <<2, 1>>, <<>>}, salt : {<<>>, <<"">>, <<"salt">>},
   iterations : {0, 4096}]
ServerFirst(s) == [nonce |-> s.nonce, salt |-> s.salt, iterations |-> s.iterations]
\* What the server derived from the password it knows.
ServerSalted(s) == Sc!SaltedPassword(s.known, ServerFirst(s))
ServerSignature(s) ==
  Sc!Hmac(Sc!Hmac(ServerSalted(s), "Server Key"), Sc!AuthMessage("u", <<1>>, ServerFirst(s)))
\* A server takes a proof when what it hides hashes to the stored key.
ServerTakes(s, final) ==
  LET stored == Sc!Hash(Sc!Hmac(ServerSalted(s), "Client Key"))
      key == Sc!Xor(final.proof, {Sc!Hmac(stored, Sc!AuthMessage("u", <<1>>, ServerFirst(s)))})
  IN \E k \in key : key = {k} /\ Sc!Hash(k) = stored
=============================================================================
