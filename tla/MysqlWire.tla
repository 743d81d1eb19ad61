----------------------------- MODULE MysqlWire -----------------------------
(***************************************************************************)
(* MysqlProtocol, the bytes of the MySQL protocol, and the lazy rows over  *)
(* it.  See PgWire for how a codec is written.                             *)
(***************************************************************************)
EXTENDS Bytes, FiniteSets

Int16LE(n) == <<n % 256, (n \div 256) % 256>>
Int24LE(n) == <<n % 256, (n \div 256) % 256, (n \div 65536) % 256>>
Int32LE(n) == Int24LE(n) \o <<(n \div 16777216) % 256>>
Read16(b) == b[1] + b[2] * 256
Read24(b) == Read16(b) + b[3] * 65536
\* Signed; an unsigned number below 2^31 reads the same.
Read32(b) == Read24(b) + (IF b[4] > 127 THEN b[4] - 256 ELSE b[4]) * 16777216
Zeros(n) == [i \in 1 .. n |-> 0]

-----------------------------------------------------------------------------
(* Length-encoded numbers *)

LenEncLength(n) == CASE n < 251 -> 1 [] n \in 251 .. 65535 -> 3
                     [] n \in 65536 .. 16777215 -> 4 [] OTHER -> 9

\* What writeLenEnc puts; it advances by as much.
LenEnc(n) ==
  CASE n < 251 -> <<n>>
    [] n \in 251 .. 65535 -> <<252>> \o Int16LE(n)
    [] n \in 65536 .. 16777215 -> <<253>> \o Int24LE(n)
    [] OTHER -> <<254>> \o Int32LE(n) \o Zeros(4)

\* [value, length]; a byte that starts no number is a zero of one byte.
ReadLenEnc(b) ==
  IF b = <<>> THEN [value |-> 0, length |-> 0]
  ELSE CASE b[1] < 251 -> [value |-> b[1], length |-> 1]
         [] b[1] = 252 -> [value |-> Read16(Tail(b)), length |-> 3]
         [] b[1] = 253 -> [value |-> Read24(Tail(b)), length |-> 4]
         [] b[1] = 254 -> [value |-> Read32(Tail(b)), length |-> 9]
         [] OTHER -> [value |-> 0, length |-> 1]

-----------------------------------------------------------------------------
(* Packets *)

CreatePacket(payload, sequenceId) ==
  Laid(Len(payload) + 4,
       <<Piece(Int24LE(Len(payload))), Piece(<<sequenceId % 256>>), Piece(payload)>>)

Complete(b) == Len(b) >= 4 /\ Len(b) >= Read24(b) + 4
ParsePacket(b) ==
  [sequenceId |-> b[4], payload |-> SubSeq(b, 5, 4 + Read24(b)), consumed |-> Read24(b) + 4]

\* decodeString(buf, start, length): past the end there are NULs for a short
\* string, and nothing for a long one.
DecodeString(b, start, length) ==
  LET there == SubSeq(b, start + 1, start + length)
  IN IF length < 64 /\ \A i \in DOMAIN there : there[i] <= 127
     THEN there \o Zeros(length - Len(there)) ELSE FromUtf8(there)

\* parseInitialHandshake(): each step of the offset checks what it is about to read.
ParseInitialHandshake(b) ==
  LET n == NullIndex(Tail(b))
      o == n + 2
      authLen == b[o + 4 + 8 + 1 + 2 + 1 + 2 + 2 + 1]
      second == (IF authLen - 8 > 13 THEN authLen - 8 ELSE 13) - 1
      at == o + 31
  IN IF b = <<>> \/ n = Len(Tail(b)) \/ o + 21 > Len(b) \/ at + second > Len(b)
     THEN [ok |-> FALSE, serverVersion |-> <<>>, salt |-> <<>>]
     ELSE [ok |-> TRUE, serverVersion |-> FromUtf8(SubSeq(b, 2, n + 1)),
           salt |-> SubSeq(b, o + 5, o + 12) \o SubSeq(b, at + 1, at + second)]

EncodeHandshakeResponse(flags, user, database, auth, plugin) ==
  LET u == Utf8(user)
      d == Utf8(database)
      p == Utf8(plugin)
      base == 4 + 4 + 1 + 23 + Len(u) + 1 + LenEncLength(Len(auth)) + Len(auth)
  IN Laid(base + (IF database = <<>> THEN 0 ELSE Len(d) + 1) + Len(p) + 1,
          <<Piece(Int32LE(flags)), Piece(Int32LE(16777215)), <<<<33>>, 24>>,
            CString(u), Piece(LenEnc(Len(auth))), Piece(auth)>> \o
          (IF database = <<>> THEN <<>> ELSE <<CString(d)>>) \o <<CString(p)>>)

EncodeSSLRequest(flags) ==
  Laid(32, <<Piece(Int32LE(flags)), Piece(Int32LE(16777215)), <<<<33>>, 24>>>>)

EncodeStmtPrepare(sql) == Laid(1 + Len(Utf8(sql)), <<Piece(<<22>>), Piece(Utf8(sql))>>)

\* The bits of the parameters that are Null, eight to a byte.
NullBitmap(params) ==
  LET bit(i) == IF params[i] = Null THEN 2 ^ ((i - 1) % 8) ELSE 0
      byte(k) == FoldLeft(LAMBDA a, i : a + bit(i), 0,
                          SelectSeq([i \in DOMAIN params |-> i],
                                    LAMBDA i : (i - 1) \div 8 = k - 1))
  IN [k \in 1 .. (Len(params) + 7) \div 8 |-> byte(k)]

\* A parameter is Null or the Bytes of its text, sent as a string.
EncodeStmtExecute(stmtId, params) ==
  LET bitmap == NullBitmap(params)
      given == SelectSeq(params, LAMBDA p : p # Null)
      size == FoldLeft(LAMBDA n, p : n + LenEncLength(Len(p[2])) + Len(p[2]), 0, given)
  IN Laid(1 + 4 + 1 + 4 + Len(bitmap) + 1 + Len(params) * 2 + size,
          <<Piece(<<23>>), Piece(Int32LE(stmtId)), Piece(<<0>>), Piece(Int32LE(1)),
            Piece(bitmap), Piece(<<1>>)>> \o
          [i \in DOMAIN params |-> Piece(<<254, 0>>)] \o
          FlattenSeq([i \in DOMAIN given |->
                        <<Piece(LenEnc(Len(given[i][2]))), Piece(given[i][2])>>]))

ParseError(b) ==
  IF Len(b) < 3 \/ (Len(b) \in 4 .. 8 /\ b[4] = 35)
  THEN [ok |-> FALSE, code |-> 0, message |-> <<>>]
  ELSE [ok |-> TRUE, code |-> Read16(Tail(b)),
        message |-> FromUtf8(After(b, IF Len(b) > 3 /\ b[4] = 35 THEN 9 ELSE 3))]

\* parseField(): the six strings are decoded after the offset has moved past
\* them, so each is read from the bytes that follow it.
ParseField(b) ==
  LET step(s) ==
        LET l == ReadLenEnc(After(b, s.offset))
            from == s.offset + l.length
            to == from + l.value
        IN IF ~s.ok \/ to > Len(b) THEN [s EXCEPT !.ok = FALSE]
           ELSE [ok |-> TRUE, offset |-> to, strings |-> Append(s.strings, DecodeString(b, to, l.value))]
      s == FoldLeft(LAMBDA a, i : step(a), [ok |-> TRUE, offset |-> 0, strings |-> <<>>],
                    [i \in 1 .. 6 |-> i])
  IN IF ~s.ok \/ s.offset + 13 > Len(b) THEN [ok |-> FALSE, name |-> <<>>, type |-> 0]
     ELSE [ok |-> TRUE, name |-> s.strings[5], type |-> b[s.offset + 8]]

-----------------------------------------------------------------------------
(* Rows *)

Type == [tiny |-> 1, short |-> 2, long |-> 3, float |-> 4, double |-> 5, longlong |-> 8,
         int24 |-> 9, datetime |-> 12, year |-> 13, json |-> 245]
\* Decimals, strings and blobs: DECIMAL, VARCHAR, JSON, NEWDECIMAL, the four blobs,
\* VAR_STRING and STRING.
Strings == {0, 15, 245, 246, 249, 250, 251, 252, 253, 254}

\* The width of a type of fixed width; 0 when its length is encoded.
Width(type) ==
  CASE type = Type.tiny -> 1
    [] type \in {Type.short, Type.year} -> 2
    [] type \in {Type.int24, Type.long, Type.float} -> 4
    [] type \in {Type.longlong, Type.double} -> 8
    [] OTHER -> 0

\* A value of fixed width.  All of them are read as signed.
Fixed(type, b) ==
  CASE type = Type.tiny -> Number(IF b[1] > 127 THEN b[1] - 256 ELSE b[1])
    [] type \in {Type.short, Type.year} ->
         Number(IF b[2] > 127 THEN Read16(b) - 65536 ELSE Read16(b))
    [] type \in {Type.int24, Type.long} -> Number(Read32(b))
    [] type = Type.longlong -> Number64(Reverse(Prefix(b, 8)))
    [] OTHER -> Float(Reverse(Prefix(b, Width(type))))

\* A string, or what JSON.parse() makes of it.
Stringish(type, s) == IF type = Type.json THEN Parsed("JSON.parse", s) ELSE Text(s)

BitmapLength(fields) == (Len(fields) + 9) \div 8

\* Bit i + 2 of the null bitmap, which starts at byte 1.
IsNull(b, i) == (b[2 + ((i + 1) \div 8)] \div (2 ^ ((i + 1) % 8))) % 2 = 1

UnsupportedDate == Text(<<85>>)   \* "Unsupported_Date_Time_Binary_Format"

NextValue(s, b, field, i) ==
  LET rest == After(b, s.offset)
      l == ReadLenEnc(rest)
      w == Width(field.type)
      end == s.offset + (IF w > 0 THEN w ELSE l.length + l.value)
      value == CASE w > 0 -> Fixed(field.type, rest)
                 [] field.type \in Strings ->
                      Stringish(field.type, DecodeString(b, s.offset + l.length, l.value))
                 [] OTHER -> UnsupportedDate
  IN IF ~s.ok THEN s
     ELSE IF IsNull(b, i) THEN [s EXCEPT !.row = Append(@, Null)]
     ELSE IF end > Len(b) THEN [s EXCEPT !.ok = FALSE]
     ELSE [s EXCEPT !.row = Append(@, value), !.offset = end]

\* [ok, row]: the values in the order of the fields.
ParseBinaryRow(b, fields) ==
  IF 1 + BitmapLength(fields) > Len(b) THEN [ok |-> FALSE, row |-> <<>>, offset |-> 1]
  ELSE FoldLeft(LAMBDA s, i : NextValue(s, b, fields[i], i),
                [ok |-> TRUE, row |-> <<>>, offset |-> 1 + BitmapLength(fields)],
                [i \in DOMAIN fields |-> i])

\* createMysqlLazyRowProxy(): offsets first, the value of a column when it is asked.
LazyOffsets(b, fields) ==
  LET length(i, at) == IF Width(fields[i].type) > 0 THEN Width(fields[i].type)
                       ELSE LET l == ReadLenEnc(After(b, at)) IN l.length + l.value
      next(s, i) == IF IsNull(b, i) THEN [s EXCEPT !.at = Append(@, -1)]
                    ELSE [at |-> Append(s.at, s.current),
                          current |-> s.current + length(i, s.current)]
  IN FoldLeft(next, [at |-> <<>>, current |-> 1 + BitmapLength(fields)],
              [i \in DOMAIN fields |-> i]).at

LazyGet(b, fields, name) ==
  LET named == {i \in DOMAIN fields : fields[i].name = name}
      i == CHOOSE i \in named : \A j \in named : i <= j
      at == LazyOffsets(b, fields)[i]
      rest == After(b, at)
      l == ReadLenEnc(rest)
  IN IF named = {} THEN Undefined
     ELSE IF at = -1 THEN Null
     ELSE IF Width(fields[i].type) > 0 THEN Fixed(fields[i].type, rest)
     ELSE Stringish(fields[i].type, FromUtf8(SubSeq(rest, l.length + 1, l.length + l.value)))

-----------------------------------------------------------------------------
(* hashPasswordNative(), over a hash and an exclusive or that are terms. *)

Sha1(x) == <<"sha1", x>>
\* Xor of terms: the symmetric difference of the sets of their parts.
Xor(x, y) == (x \ y) \cup (y \ x)
HashPasswordNative(password, salt) ==
  IF password = <<>> THEN {}
  ELSE Xor({Sha1(password)}, {Sha1(<<salt, Sha1(Sha1(password))>>)})
=============================================================================
