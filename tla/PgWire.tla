------------------------------- MODULE PgWire -------------------------------
(***************************************************************************)
(* PgProtocol, the bytes of the PostgreSQL protocol: what the encoders     *)
(* write and what the parsers make of what a server sends.                 *)
(*                                                                         *)
(* An encoder allocates a buffer of a size it computed, and puts pieces    *)
(* at offsets it advances: Laid is that, so a wrong size or a wrong        *)
(* advance shows.  A parser moves an offset; here the rest of the bytes.   *)
(***************************************************************************)
EXTENDS Bytes

Int32(n) == <<(n \div 16777216) % 256, (n \div 65536) % 256, (n \div 256) % 256, n % 256>>
Int16(n) == <<(n \div 256) % 256, n % 256>>

-----------------------------------------------------------------------------
(* Encoders *)

\* Type byte and length, then the pieces: all but the first message have them.
Framed(type, size, pieces) ==
  Laid(size + 1, <<Piece(<<type>>), Piece(Int32(size))>> \o pieces)

EncodeCancelRequest(processId, secretKey) ==
  Laid(16, <<Piece(Int32(16)), Piece(Int32(80877102)), Piece(Int32(processId)),
             Piece(Int32(secretKey))>>)

EncodeSSLRequest == Laid(8, <<Piece(Int32(8)), Piece(Int32(80877103))>>)

EncodePassword(password) ==
  Framed(112, 4 + Len(Utf8(password)) + 1, <<CString(Utf8(password))>>)

EncodeSaslInitialResponse(mechanism, message) ==
  LET mech == Utf8(mechanism)
      msg == Utf8(message)
  IN Framed(112, 4 + Len(mech) + 1 + 4 + Len(msg),
            <<CString(mech), Piece(Int32(Len(msg))), Piece(msg)>>)

EncodePasswordMessage(message) ==
  Framed(112, 4 + Len(Utf8(message)), <<Piece(Utf8(message))>>)

\* Sizes and advances are those of the strings, not of their bytes; an empty
\* value is not written, and is not advanced over either.
EncodeStartupMessage(pairs) ==
  LET size == FoldLeft(LAMBDA n, p : n + Len(p[1]) + 1 + Len(p[2]) + 1, 8, pairs) + 1
      piece(s) == IF s = <<>> THEN <<>> ELSE <<<<Utf8(s), Len(s) + 1>>>>
  IN Laid(size, <<Piece(Int32(size)), Piece(Int32(196608))>> \o
                FlattenSeq([i \in DOMAIN pairs |-> piece(pairs[i][1]) \o piece(pairs[i][2])]))

EncodeParse(name, query, oids) ==
  LET n == Utf8(name)
      q == Utf8(query)
  IN Framed(80, 4 + Len(n) + 1 + Len(q) + 1 + 2 + Len(oids) * 4,
            <<CString(n), CString(q), Piece(Int16(Len(oids)))>> \o
            [i \in DOMAIN oids |-> Piece(Int32(oids[i]))])

\* Mutant: the length of a null parameter is -1 followed by nothing, but its
\* four bytes are not counted.
MutNullUncounted(params) ==
  FoldLeft(LAMBDA n, p : IF p = Null THEN n ELSE n + 4 + Len(p[2]), 0, params)

ParamsSize(params) ==
  FoldLeft(LAMBDA n, p : n + 4 + (IF p = Null THEN 0 ELSE Len(p[2])), 0, params)

\* A parameter is Null or the Bytes of its text.
EncodeBind(portal, statement, params, formats) ==
  LET p == Utf8(portal)
      s == Utf8(statement)
      rf == IF formats = <<>> THEN <<1>> ELSE formats
      param(x) == IF x = Null THEN <<Piece(Int32(-1))>>
                  ELSE <<Piece(Int32(Len(x[2]))), Piece(x[2])>>
  IN Framed(66, 4 + Len(p) + 1 + Len(s) + 1 + 2 + 2 + 2 + ParamsSize(params)
                + 2 + Len(rf) * 2,
            <<CString(p), CString(s), Piece(Int16(1)), Piece(Int16(0)),
              Piece(Int16(Len(params)))>> \o
            FlattenSeq([i \in DOMAIN params |-> param(params[i])]) \o
            <<Piece(Int16(Len(rf)))>> \o [i \in DOMAIN rf |-> Piece(Int16(rf[i]))])

EncodeDescribe(type, name) ==
  Framed(68, 4 + 1 + Len(Utf8(name)) + 1, <<Piece(<<type>>), CString(Utf8(name))>>)

EncodeExecute(portal, maxRows) ==
  Framed(69, 4 + Len(Utf8(portal)) + 1 + 4,
         <<CString(Utf8(portal)), Piece(Int32(maxRows))>>)

EncodeSync == Framed(83, 4, <<>>)

-----------------------------------------------------------------------------
(* Parsers *)

ReadInt32(b) ==
  ((IF b[1] > 127 THEN b[1] - 256 ELSE b[1]) * 16777216) + b[2] * 65536 + b[3] * 256 + b[4]
ReadInt16(b) == b[1] * 256 + b[2]

\* Whether a whole message is there, and how many bytes it takes.
Complete(b) == Len(b) >= 5 /\ Len(b) >= ReadInt32(After(b, 1)) + 1
DecodeMessage(b) ==
  LET length == ReadInt32(After(b, 1))
  IN [type |-> b[1], data |-> SubSeq(b, 6, length + 1), consumed |-> length + 1]

\* Short ASCII strings byte by byte, the rest through the decoder.
FastDecode(b) ==
  IF Len(b) < 64 /\ \A i \in DOMAIN b : b[i] <= 127 THEN b ELSE FromUtf8(b)

\* The fields of an ErrorResponse by their code; the last of a code counts.
ParseErrorResponse(b) ==
  LET F[o \in 0 .. Len(b) + 1] ==
        IF o >= Len(b) - 1 THEN <<>>
        ELSE LET n == NullIndex(After(b, o + 1)) IN
             <<<<b[o + 1], FromUtf8(SubSeq(b, o + 2, o + 1 + n))>>>> \o F[o + n + 2]
      fields == F[0]
  IN [c \in {fields[i][1] : i \in DOMAIN fields} |->
        LET i == CHOOSE i \in DOMAIN fields :
                   fields[i][1] = c /\ \A j \in i + 1 .. Len(fields) : fields[j][1] # c
        IN fields[i][2]]

\* One field of a RowDescription.
NextField(s) ==
  LET n == NullIndex(s.rest)
      b == After(s.rest, n + 1)
  IN IF ~s.ok \/ n = Len(s.rest) \/ Len(b) < 18 THEN [s EXCEPT !.ok = FALSE]
     ELSE [ok |-> TRUE, rest |-> After(b, 18),
           fields |-> Append(s.fields,
             [name |-> FastDecode(Prefix(s.rest, n)), oid |-> ReadInt32(After(b, 6)),
              format |-> ReadInt16(After(b, 16))])]

\* [ok, fields]: not ok when it throws.
ParseRowDescription(b) ==
  IF Len(b) < 2 THEN [ok |-> FALSE, fields |-> <<>>, rest |-> b]
  ELSE FoldLeft(LAMBDA s, i : NextField(s), [ok |-> TRUE, fields |-> <<>>, rest |-> After(b, 2)],
                [i \in 1 .. ReadInt16(b) |-> i])

Oid == [bool |-> 16, bytea |-> 17, int8 |-> 20, int2 |-> 21, int4 |-> 23, text |-> 25,
        oid |-> 26, json |-> 114, float4 |-> 700, float8 |-> 701, inet |-> 869,
        varchar |-> 1043, date |-> 1082, time |-> 1083, timestamp |-> 1114,
        timestamptz |-> 1184, numeric |-> 1700, uuid |-> 2950, jsonb |-> 3802]
ArrayOids == {1000, 1005, 1007, 1016, 1009, 1015, 1021, 1022}

\* parseInt(text, 10) of digits with an optional sign.
ParseInt(s) ==
  LET digits == IF s # <<>> /\ s[1] = 45 THEN Tail(s) ELSE s
      n == FoldLeft(LAMBDA a, d : a * 10 + d - 48, 0, digits)
  IN IF digits = <<>> \/ \E i \in DOMAIN digits : digits[i] \notin 48 .. 57 THEN Undefined
     ELSE Number(IF digits = s THEN n ELSE -n)

DecodeTextValue(s, oid) ==
  CASE oid = Oid.bool -> Bool(s = <<116>>)
    [] oid \in {Oid.int2, Oid.int4, Oid.int8} -> ParseInt(s)
    [] oid \in {Oid.float4, Oid.float8, Oid.numeric} -> Parsed("parseFloat", s)
    [] oid \in {Oid.json, Oid.jsonb} -> Parsed("JSON.parse", s)
    [] oid \in {Oid.date, Oid.timestamp, Oid.timestamptz} -> Parsed("Date", s)
    [] OTHER -> Text(s)

Signed16(b) == IF b[1] > 127 THEN ReadInt16(b) - 65536 ELSE ReadInt16(b)

\* Two digits for each byte, and a dash after 4, 6, 8 and 10 of them.
Hex(n) == IF n < 10 THEN 48 + n ELSE 87 + n
Uuid(b) ==
  FlattenSeq([i \in DOMAIN b |-> <<Hex(b[i] \div 16), Hex(b[i] % 16)>>
                                \o (IF i \in {4, 6, 8, 10} THEN <<45>> ELSE <<>>)])

\* Without a custom decoder.  Binary numeric, oid, date and time have no case of
\* their own: what they give is the text of their bytes.  A timestamp is one whose
\* microseconds since 2000 take 30 bits.
DecodeScalar(b, oid) ==
  CASE oid = Oid.bool -> Bool(b[1] # 0)
    [] oid = Oid.int2 -> Number(Signed16(b))
    [] oid = Oid.int4 -> Number(ReadInt32(b))
    [] oid = Oid.int8 -> Number64(b)
    [] oid \in {Oid.float4, Oid.float8} -> Float(b)
    [] oid \in {Oid.timestamp, Oid.timestamptz} -> Date(Number64(b)[2] \div 1000)
    [] oid = Oid.json -> Parsed("JSON.parse", FromUtf8(b))
    [] oid = Oid.jsonb -> Parsed("JSON.parse", FromUtf8(Tail(b)))
    [] oid = Oid.bytea -> Bytes(b)
    [] oid = Oid.uuid -> Text(Uuid(b))
    [] OTHER -> Text(FromUtf8(b))

\* The elements of the innermost dimension.
ArrayElements(b, count, oid) ==
  LET step(s) ==
        LET len == IF Len(s.rest) < 4 THEN -2 ELSE ReadInt32(s.rest)
            r == After(s.rest, 4)
        IN IF ~s.ok \/ len < -1 \/ len > Len(r) THEN [s EXCEPT !.ok = FALSE]
           ELSE IF len = -1 THEN [s EXCEPT !.rest = r, !.items = Append(@, Null)]
           ELSE [s EXCEPT !.rest = After(r, len),
                          !.items = Append(@, DecodeScalar(Prefix(r, len), oid))]
      s == FoldLeft(LAMBDA a, i : step(a), [ok |-> TRUE, rest |-> b, items |-> <<>>],
                    [i \in 1 .. count |-> i])
  IN IF s.ok THEN Array(s.items) ELSE Throws

\* An array of more than one dimension is not one: what the inner calls return has
\* no value and no nextOffset, so the elements are undefined, or an offset is.
DecodeBinaryArray(b) ==
  LET ndim == ReadInt32(b)
      first == ReadInt32(After(b, 12))
  IN IF Len(b) < 12 \/ ndim = 0 THEN Array(<<>>)
     ELSE IF ndim > 8 \/ 12 + 8 * ndim > Len(b) \/ first < 0 \/ first > 1000000 THEN Throws
     ELSE IF ndim = 1 THEN ArrayElements(After(b, 20), first, ReadInt32(After(b, 8)))
     ELSE Undefined

DecodeBinaryValue(b, oid) ==
  IF oid \in ArrayOids THEN DecodeBinaryArray(b) ELSE DecodeScalar(b, oid)

\* The decoding of parseDataRow, with its fast paths.
DecodeField(field, b) ==
  IF field.format = 0
  THEN CASE field.oid = Oid.int4 -> ParseInt(FastDecode(b))
         [] field.oid \in {Oid.varchar, Oid.text} -> Text(FastDecode(b))
         [] field.oid = Oid.bool -> Bool(FastDecode(b) = <<116>>)
         [] OTHER -> DecodeTextValue(FastDecode(b), field.oid)
  ELSE CASE field.oid = Oid.int4 -> Number(ReadInt32(b))
         [] field.oid \in {Oid.varchar, Oid.text} -> Text(FastDecode(b))
         [] OTHER -> DecodeBinaryValue(b, field.oid)

\* One column; a row is a sequence of pairs of a name and a value.
NextColumn(s, fields, i) ==
  LET length == IF Len(s.rest) < 4 THEN -2 ELSE ReadInt32(s.rest)
      b == After(s.rest, 4)
      put(v) == IF i > Len(fields) THEN s.row ELSE Append(s.row, <<fields[i].name, v>>)
  IN IF ~s.ok \/ length < -1 \/ length > Len(b) THEN [s EXCEPT !.ok = FALSE]
     ELSE IF length = -1 THEN [s EXCEPT !.row = put(Null), !.rest = b]
     ELSE [s EXCEPT !.rest = After(b, length),
                    !.row = put(DecodeField(fields[i], Prefix(b, length)))]

\* [ok, row]: not ok when it throws.
ParseDataRow(b, fields) ==
  IF Len(b) < 2 THEN [ok |-> FALSE, row |-> <<>>, rest |-> b]
  ELSE FoldLeft(LAMBDA s, i : NextColumn(s, fields, i),
                [ok |-> TRUE, row |-> <<>>, rest |-> After(b, 2)],
                [i \in 1 .. ReadInt16(b) |-> i])

\* row[name] of the object so built: the last column of a name.
Column(row, name) ==
  LET at == {i \in DOMAIN row : row[i][1] = name}
  IN IF at = {} THEN Undefined
     ELSE row[CHOOSE i \in at : \A j \in at : j <= i][2]

ParseNotification(b) ==
  LET n == NullIndex(After(b, 4))
      rest == After(b, 4 + n + 1)
  IN [processId |-> ReadInt32(b), channel |-> FromUtf8(SubSeq(b, 5, 4 + n)),
      payload |-> FromUtf8(Prefix(rest, NullIndex(rest)))]

\* createLazyRowProxy(): where the columns are, found without looking whether
\* they are there, and the value of the first column of a name.
LazyOffsets(b) ==
  FoldLeft(LAMBDA a, i :
             LET len == ReadInt32(After(b, a.current)) IN
             [at |-> Append(a.at, <<a.current + 4, len>>),
              current |-> a.current + 4 + (IF len = -1 THEN 0 ELSE len)],
           [at |-> <<>>, current |-> 2], [i \in 1 .. ReadInt16(b) |-> i]).at

LazyGet(b, fields, name) ==
  LET named == {i \in DOMAIN fields : fields[i].name = name}
      i == CHOOSE i \in named : \A j \in named : i <= j
      at == LazyOffsets(b)[i]
      slice == SubSeq(b, at[1] + 1, at[1] + at[2])
  IN IF named = {} THEN Undefined
     ELSE IF at[2] = -1 THEN Null
     ELSE IF fields[i].format = 1 THEN DecodeBinaryValue(slice, fields[i].oid)
     ELSE DecodeTextValue(FromUtf8(slice), fields[i].oid)
=============================================================================
