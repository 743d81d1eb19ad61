---------------------------- MODULE CodecSamples ----------------------------
(***************************************************************************)
(* Values to encode and requests to send by the codec of packages/rpc.     *)
(***************************************************************************)
EXTENDS Bytes, FiniteSets

\* Limits that the values below reach.
H == INSTANCE HyperCodec WITH MaxCapacity <- 128, MaxString <- 4, MaxItems <- 2,
                              ClientSlab <- 64, ServerSlab <- 16

Eight == <<1, 2, 3, 4, 5, 6, 7, 8>>
Zero == [i \in 1 .. 8 |-> 0]
MinusZero == <<0, 0, 0, 0, 0, 0, 0, 128>>
\* -1, 258, the ends of the 32-bit numbers and what is beyond them, 2^53, 1.5, NaN.
Doubles ==
  {Zero, MinusZero,
   <<0, 0, 0, 0, 0, 0, 240, 191>>, <<0, 0, 0, 0, 0, 32, 112, 64>>,
   <<0, 0, 192, 255, 255, 255, 223, 65>>, <<0, 0, 0, 0, 0, 0, 224, 65>>,
   <<0, 0, 0, 0, 0, 0, 224, 193>>, <<0, 0, 32, 0, 0, 0, 224, 193>>,
   <<0, 0, 0, 0, 0, 0, 64, 67>>, <<0, 0, 0, 0, 0, 0, 248, 63>>,
   <<0, 0, 0, 0, 0, 0, 248, 127>>}
Few ==
  {<<"null">>, <<"undefined">>, <<"bool", TRUE>>, <<"number", <<0, 0, 0, 0, 0, 0, 248, 63>>>>,
   <<"number", <<0, 0, 0, 0, 0, 0, 20, 64>>>>, <<"date", Eight>>, <<"string", <<>>>>, <<"string", <<97, 233>>>>,
   <<"buffer", <<200, 4>>>>, <<"error", <<101>>>>, <<"nothing">>}
Scalar == Few \cup {<<"number", x>> : x \in Doubles}
Lists(items) == UNION {[1 .. k -> items] : k \in 0 .. 2}
ArrayOf(items) == {<<"array", l>> : l \in Lists(items)}
ObjectOf(items) == {<<"object", [i \in DOMAIN l |-> <<<<96 + i>>, l[i]>>]>> : l \in Lists(items)}
Zeros(n) == [i \in 1 .. n |-> 0]
\* At the limits: of a string's bytes, of items, of the slab.
Large ==
  {<<"string", <<97, 98, 233>>>>, <<"string", <<97, 233, 233>>>>, <<"buffer", Zeros(120)>>,
   <<"error", <<97, 98, 99, 100, 101>>>>,
   <<"array", <<<<"null">>, <<"null">>, <<"null">>>>>>,
   <<"array", <<<<"buffer", Zeros(60)>>, <<"buffer", Zeros(40)>>>>>>,
   <<"array", <<<<"buffer", Zeros(60)>>, <<"buffer", Zeros(60)>>>>>>}
EncodedValue ==
  Scalar \cup Large \cup ArrayOf(Few) \cup ObjectOf(Few)
    \cup ArrayOf(ObjectOf({<<"nothing">>, <<"string", <<233>>>>}))

CodecSample == [value : EncodedValue, capacity : {1, 4, 12, 128}]

\* What arrives: undefined is null, and -0 is 0.
RECURSIVE Arrived(_)
Arrived(v) ==
  CASE v[1] = "undefined" -> <<"null">>
    [] v = <<"number", MinusZero>> -> <<"number", Zero>>
    [] v[1] = "array" -> <<"array", [i \in DOMAIN v[2] |-> Arrived(v[2][i])]>>
    [] v[1] = "object" -> <<"object", [i \in DOMAIN v[2] |-> <<v[2][i][1], Arrived(v[2][i][2])>>]>>
    [] OTHER -> v

\* The bytes of a value, by the format.
RECURSIVE Size(_)
SizeOf(items) == FoldLeft(LAMBDA n, x : n + Size(x), 0, items)
Size(v) ==
  CASE v[1] \in {"null", "undefined"} -> 1
    [] v[1] = "bool" -> 2
    [] v[1] = "number" -> IF v \in {<<"number", x>> : x \in {<<0, 0, 0, 0, 0, 0, 224, 65>>, <<0, 0, 32, 0, 0, 0, 224, 193>>,
                                <<0, 0, 0, 0, 0, 0, 64, 67>>, <<0, 0, 0, 0, 0, 0, 248, 63>>, <<0, 0, 0, 0, 0, 0, 248, 127>>}} THEN 9 ELSE 5
    [] v[1] = "date" -> 9
    [] v[1] = "buffer" -> 5 + Len(v[2])
    [] v[1] = "string" -> 5 + Len(Utf8(v[2]))
    [] v[1] = "error" -> 6 + Len(Utf8(v[2]))
    [] v[1] = "array" -> 5 + SizeOf(v[2])
    [] v[1] = "object" -> 5 + SizeOf([i \in DOMAIN v[2] |-> v[2][i][2]])
                            + FoldLeft(LAMBDA n, p : n + 5 + Len(Utf8(p[1])), 0, v[2])
    [] v[1] = "nothing" -> 0

\* Whether the reader takes it: every part is written, and within the reader's limits.
RECURSIVE Readable(_)
Readable(v) ==
  CASE v[1] \in {"string", "error"} -> Len(Utf8(v[2])) <= 4
    [] v[1] = "array" -> Len(v[2]) <= 2 /\ \A i \in DOMAIN v[2] : Readable(v[2][i])
    [] v[1] = "object" -> Len(v[2]) <= 2 /\ \A i \in DOMAIN v[2] : Readable(v[2][i][2])
    [] OTHER -> v # <<"nothing">>

\* Requests: every value, and every way one is refused.
Query == <<113, 49>>
Answer == <<"null">>
Request(params, flags, maxSize, contentLength, result) ==
  [params : params, known : flags, registered : flags, same : flags, maxSize : maxSize,
   contentLength : contentLength, result : result]
RequestSample ==
  Request(EncodedValue, {TRUE}, {24, 4096}, {0}, {Answer})
  \cup Request(Few, BOOLEAN, {24, 40, 4096}, {0, 32, 5000},
              {Answer, H!ThrowsResult, <<"buffer", Zeros(120)>>, <<"buffer", Zeros(130)>>})

\* A row of PostgreSQL's, what a client asks of it and what it gets.
Cells ==
  { [oid |-> 23, bytes |-> <<255, 255, 255, 254>>, value |-> <<"number", <<0, 0, 0, 0, 0, 0, 0, 192>>>>],
    [oid |-> 16, bytes |-> <<1>>, value |-> <<"bool", TRUE>>],
    [oid |-> 25, bytes |-> <<195, 169>>, value |-> <<"string", <<233>>>>],
    [oid |-> 23, bytes |-> <<>>, value |-> <<"null">>] }
CellName(i) == <<96 + i>>
\* The slab has bytes of earlier rows, and room for all of the row, or not.
TranscodeSample ==
  [row : UNION {[1 .. k -> Cells] : k \in 0 .. 3}, whitelist : SUBSET {<<97>>, <<98>>, <<99>>},
   before : {0, 2}, capacity : {4, 15, 23, 64}]
SlabWith(before, capacity) == H!Put(H!Slab(capacity), Zeros(before))
CellBytes(c) ==
  IF c.value = <<"null">> THEN <<255, 255, 255, 255>> ELSE <<0, 0, 0, Len(c.bytes)>> \o c.bytes
RowData(row) == <<0, Len(row)>> \o FlattenSeq([i \in DOMAIN row |-> CellBytes(row[i])])
RowFields(row) == [i \in DOMAIN row |-> [name |-> CellName(i), oid |-> row[i].oid]]
Whitelisted(row, whitelist) ==
  SelectSeq([i \in DOMAIN row |-> <<CellName(i), row[i].value>>], LAMBDA p : p[1] \in whitelist)
=============================================================================
