----------------------------- MODULE HyperCodec -----------------------------
(***************************************************************************)
(* The binary codec of packages/rpc, what it signs, and the transcoder     *)
(* that copies a PostgreSQL row into it field by field.                    *)
(*                                                                         *)
(* A value is a tuple whose first item is its type; a number is the eight  *)
(* bytes of its double, the least significant first; <<"nothing">> is a    *)
(* bigint, a function or a symbol.  A slab is a typed array: a byte stored *)
(* past its end is lost, and storing an array past its end throws.         *)
(***************************************************************************)
EXTENDS Bytes, FiniteSets

CONSTANTS
  MaxCapacity,   \* encode() does not grow a slab beyond it: 128 MB
  MaxString,     \* decode() refuses a string of more bytes: 16 MB
  MaxItems,      \* and an array or an object of more items: a million
  ClientSlab,    \* what the client's encoder starts with: 256 KB
  ServerSlab     \* what the handler's starts with at most: 32 KB

TypeIds == [null |-> 0, bool |-> 1, int |-> 2, float |-> 3, string |-> 4, date |-> 5,
            object |-> 6, array |-> 7, buffer |-> 8, error |-> 9]
LittleEndian32(n) == [i \in 1 .. 4 |-> (n \div 256 ^ (i - 1)) % 256]

-----------------------------------------------------------------------------
(* Numbers *)

\* Number.isInteger(v) && v >= -2147483648 && v <= 2147483647: <<v>>, or <<>> when it
\* is not one of these.  -0 is 0.
Int32Of(double) ==
  LET bits == Bits(Reverse(double))
      number(from, to, first) ==
        FoldLeft(LAMBDA n, bit : 2 * n + bit, first, SubSeq(bits, from, to))
      e == number(2, 12, 0) - 1023
      zeros(from) == \A i \in from .. 64 : bits[i] = 0
      n == number(13, 12 + e, 1)
  IN IF zeros(2) THEN <<0>>
     ELSE IF e \in 0 .. 30 /\ zeros(13 + e) THEN <<IF bits[1] = 1 THEN -n ELSE n>>
     ELSE IF e = 31 /\ bits[1] = 1 /\ zeros(13) THEN <<-2147483647 - 1>>
     ELSE <<>>

\* The double of a whole number of four bytes.
Double(int32) ==
  LET m == Magnitude(Bits(Reverse(int32)))
      e == Len(m) + 1022
      bits == <<int32[4] \div 128>> \o [i \in 1 .. 11 |-> (e \div 2 ^ (11 - i)) % 2]
              \o [i \in 1 .. 52 |-> IF i < Len(m) THEN m[i + 1] ELSE 0]
      byte(k) == FoldLeft(LAMBDA n, bit : 2 * n + bit, 0, SubSeq(bits, 8 * k - 7, 8 * k))
  IN IF m = <<>> THEN [i \in 1 .. 8 |-> 0] ELSE [i \in 1 .. 8 |-> byte(9 - i)]

-----------------------------------------------------------------------------
(* encode() *)

Slab(capacity) == [bytes |-> <<>>, offset |-> 0, capacity |-> capacity, ok |-> TRUE]

Ensure(st, n) ==
  LET grown == IF 2 * st.capacity > st.offset + n THEN 2 * st.capacity ELSE st.offset + n
  IN IF st.offset + n <= st.capacity THEN st
     ELSE IF grown > MaxCapacity THEN [st EXCEPT !.ok = FALSE] ELSE [st EXCEPT !.capacity = grown]

\* slab[offset++] = b: past the end the byte is lost, and reads as nothing.
Put(st, bytes) ==
  LET room == st.capacity - Len(st.bytes)
      kept == IF Len(bytes) <= room THEN bytes ELSE SubSeq(bytes, 1, room)
  IN [st EXCEPT !.bytes = @ \o kept, !.offset = @ + Len(bytes)]
\* slab.set(bytes, offset)
SetAll(st, bytes) ==
  IF st.offset + Len(bytes) > st.capacity THEN [st EXCEPT !.ok = FALSE] ELSE Put(st, bytes)

Head5(id, n) == <<id>> \o LittleEndian32(n)

RECURSIVE Write(_, _)
WriteAll(st, values) == FoldLeft(Write, st, values)
\* mutant: the tag is not counted
MutWriteBytes(st, id, bytes) ==
  SetAll(Put(Ensure(st, 4 + Len(bytes)), Head5(id, Len(bytes))), bytes)
WriteBytes(st, id, bytes) ==
  SetAll(Put(Ensure(st, 5 + Len(bytes)), Head5(id, Len(bytes))), bytes)

Write(st, v) ==
  LET fixed(n, bytes) == Put(Ensure(st, n), bytes)
  IN CASE ~st.ok -> st
       [] v[1] \in {"null", "undefined"} -> fixed(1, <<TypeIds.null>>)
       [] v[1] = "error" -> Write(fixed(1, <<TypeIds.error>>), <<"string", v[2]>>)
       [] v[1] = "date" -> fixed(9, <<TypeIds.date>> \o v[2])
       [] v[1] = "buffer" -> WriteBytes(st, TypeIds.buffer, v[2])
       [] v[1] = "bool" -> fixed(2, <<TypeIds.bool, IF v[2] THEN 1 ELSE 0>>)
       [] v[1] = "number" ->
            IF Int32Of(v[2]) = <<>> THEN fixed(9, <<TypeIds.float>> \o v[2])
            ELSE fixed(5, Head5(TypeIds.int, Int32Of(v[2])[1]))
       [] v[1] = "string" -> WriteBytes(st, TypeIds.string, Utf8(v[2]))
       [] v[1] = "array" -> WriteAll(fixed(5, Head5(TypeIds.array, Len(v[2]))), v[2])
       [] v[1] = "object" ->
            WriteAll(fixed(5, Head5(TypeIds.object, Len(v[2]))),
                     FlattenSeq([i \in DOMAIN v[2] |-> <<<<"string", v[2][i][1]>>, v[2][i][2]>>]))
       [] v[1] = "nothing" -> st         \* no case is its own: it is counted, not written

\* The slab after it; without ok, encode() threw.
Encode(v, capacity) == Write(Slab(capacity), v)

-----------------------------------------------------------------------------
(* decode() *)

Unsigned32(b) == b[1] + 256 * b[2] + 65536 * b[3] + 16777216 * (b[4] % 128)
TooBig == [ok |-> FALSE]

Take(b, n) == SubSeq(b, 1, n)
Drop(b, n) == SubSeq(b, n + 1, Len(b))
Got(value, rest) == [ok |-> TRUE, value |-> value, rest |-> rest]

RECURSIVE Read(_), ReadItems(_, _)
ReadItems(b, n) ==
  IF n = 0 THEN Got(<<>>, b)
  ELSE LET first == Read(b) IN
       IF ~first.ok THEN first
       ELSE LET rest == ReadItems(first.rest, n - 1)
            IN IF rest.ok THEN Got(<<first.value>> \o rest.value, rest.rest) ELSE rest

ReadCounted(b, per) ==                       \* an array, or an object's keys and values
  IF Len(b) < 4 \/ b[4] >= 128 \/ Unsigned32(b) > MaxItems THEN TooBig
  ELSE ReadItems(Drop(b, 4), per * Unsigned32(b))
ReadBytes(b) ==
  IF Len(b) < 4 \/ b[4] >= 128 \/ Unsigned32(b) > Len(b) - 4 THEN TooBig
  ELSE Got(Take(Drop(b, 4), Unsigned32(b)), Drop(b, 4 + Unsigned32(b)))

ReadString(b) ==
  IF Len(b) >= 4 /\ b[4] < 128 /\ Unsigned32(b) > MaxString THEN TooBig ELSE ReadBytes(b)

Key(v) == IF v[1] = "string" THEN v[2] ELSE v
Pairs(items) == [i \in 1 .. Len(items) \div 2 |-> <<Key(items[2 * i - 1]), items[2 * i]>>]
Mapped(r, make(_)) == IF r.ok THEN Got(make(r.value), r.rest) ELSE r

ReadFixed(b, n, make(_)) == IF Len(b) < n THEN TooBig ELSE Got(make(Take(b, n)), Drop(b, n))

Read(buf) ==
  IF buf = <<>> THEN TooBig
  ELSE LET type == Head(buf)
           b == Tail(buf)
       IN CASE type = TypeIds.null -> Got(<<"null">>, b)
            [] type = TypeIds.bool -> ReadFixed(b, 1, LAMBDA x : <<"bool", x = <<1>>>>)
            [] type = TypeIds.int -> ReadFixed(b, 4, LAMBDA x : <<"number", Double(x)>>)
            [] type = TypeIds.float -> ReadFixed(b, 8, LAMBDA x : <<"number", x>>)
            [] type = TypeIds.date -> ReadFixed(b, 8, LAMBDA x : <<"date", x>>)
            [] type = TypeIds.string -> Mapped(ReadString(b), LAMBDA x : <<"string", FromUtf8(x)>>)
            [] type = TypeIds.buffer -> Mapped(ReadBytes(b), LAMBDA x : <<"buffer", x>>)
            [] type = TypeIds.error -> Mapped(Read(b), LAMBDA x : <<"error", x[2]>>)
            [] type = TypeIds.array -> Mapped(ReadCounted(b, 1), LAMBDA x : <<"array", x>>)
            [] type = TypeIds.object -> Mapped(ReadCounted(b, 2), LAMBDA x : <<"object", Pairs(x)>>)
            [] OTHER -> TooBig

\* What follows the value is not looked at; without ok, decode() threw.
Decode(bytes) == Read(bytes)

-----------------------------------------------------------------------------
(* The request: its signature is of the query and of the parameters' encoding, *)
(* which the server makes again from what it decoded.                           *)

Signature(secret, queryId, params) == <<secret, queryId \o params>>

\* Without ok nothing is sent: encode() threw.
ClientRequest(secret, queryId, params) ==
  LET body == Encode(<<"object", <<<<<<113>>, <<"string", queryId>>>>, <<<<112>>, params>>>>>>,
                     ClientSlab)
      alone == Encode(params, ClientSlab)
  IN [ok |-> body.ok /\ alone.ok, body |-> body.bytes,
      signature |-> Signature(secret, queryId, alone.bytes)]

ThrowsResult == <<"throws">>     \* of a procedure

\* The status.  contentLength is what the header says, 0 when there is none; result is
\* what the procedure returns.  Whatever throws on the way (decode, the procedure, the
\* encoding of its result) is caught, and is 403 like the refusals.
HandleRequest(manifest, handlers, secret, maxSize, contentLength, body, signature, result) ==
  LET decoded == Decode(body)
      queryId == decoded.value[2][1][2][2]
      params == decoded.value[2][2][2]
      slab == IF maxSize < ServerSlab THEN maxSize ELSE ServerSlab
      encoded == Encode(params, slab)
  IN IF contentLength > maxSize \/ Len(body) > maxSize THEN 413
     ELSE IF ~decoded.ok THEN 403
     ELSE IF queryId \notin manifest THEN 403
     ELSE IF ~encoded.ok \/ signature # Signature(secret, queryId, encoded.bytes) THEN 403
     ELSE IF queryId \notin handlers THEN 403
     ELSE IF result = ThrowsResult \/ ~Encode(result, slab).ok THEN 403
     ELSE 200

-----------------------------------------------------------------------------
(* transcodePgRow(): data is a DataRow, fields are [name, oid].  The slab is the *)
(* caller's and never grows: a row is written without a look at its end.        *)

Int4Oid == 23
BoolOid == 16

PutString(st, bytes) == SetAll(Put(st, Head5(TypeIds.string, Len(bytes))), bytes)

PutValue(st, oid, bytes) ==
  CASE oid = Int4Oid -> Put(st, <<TypeIds.int>> \o Reverse(bytes))
    [] oid = BoolOid -> Put(st, <<TypeIds.bool, IF bytes[1] # 0 THEN 1 ELSE 0>>)
    [] OTHER -> PutString(st, bytes)

\* One field: r is what is left of the row and the slab so far.
TranscodeField(r, f, whitelist) ==
  LET isNull == Take(r.data, 4) = <<255, 255, 255, 255>>
      n == IF isNull THEN 0 ELSE Unsigned32(Reverse(Take(r.data, 4)))
      keyed == PutString(r.slab, Utf8(f.name))
      put == IF ~keyed.ok THEN keyed
             ELSE IF isNull THEN Put(keyed, <<TypeIds.null>>)
             ELSE PutValue(keyed, f.oid, Take(Drop(r.data, 4), n))
  IN IF ~r.slab.ok THEN r
     ELSE [data |-> Drop(r.data, 4 + n), slab |-> IF f.name \in whitelist THEN put ELSE r.slab]

\* The slab after it, unless it threw (then not ok); its offset is what is returned.
TranscodePgRow(data, fields, whitelist, slab) ==
  LET count == Cardinality({i \in DOMAIN fields : fields[i].name \in whitelist})
      first == [data |-> Drop(data, 2), slab |-> Put(slab, Head5(TypeIds.object, count))]
  IN FoldLeft(LAMBDA r, f : TranscodeField(r, f, whitelist), first, fields).slab
=============================================================================
