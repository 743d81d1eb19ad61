------------------------------- MODULE Bytes -------------------------------
(***************************************************************************)
(* What PgProtocol and MysqlProtocol use of the platform: buffers, strings *)
(* and their UTF-8.  A byte is a number below 256, a buffer a sequence of  *)
(* bytes, a string a sequence of code points; what a parser returns is a   *)
(* pair of a kind and what it is, or Null, Undefined or Throws.            *)
(***************************************************************************)
EXTENDS Integers, Sequences, SequencesExt

Throws == <<"throws">>
Undefined == <<"undefined">>
Null == <<"null">>
Number(n) == <<"number", n>>
Text(s) == <<"text", s>>
Bool(b) == <<"bool", b>>
Array(items) == <<"array", items>>
Bytes(b) == <<"bytes", b>>
\* A double (or a float) by its bytes, the most significant first.
Float(b) == <<"float", b>>
\* What the platform makes of a text: parseFloat, JSON.parse or Date.
Parsed(by, s) == <<by, s>>
\* new Date(), of milliseconds since the year 2000.
Date(ms) == <<"date", ms>>
\* A whole number of more than 30 bits, by its sign and its bits.
Wide(negative, bits) == <<"wide", negative, bits>>

\* encoder.encode(): UTF-8, of code points below 2048.
Utf8(s) ==
  FlattenSeq([i \in DOMAIN s |->
    IF s[i] < 128 THEN <<s[i]>> ELSE <<192 + (s[i] \div 64), 128 + (s[i] % 64)>>])

\* decoder.decode(): a lone byte above 127 is replaced.
FromUtf8(b) ==
  LET F[i \in 1 .. Len(b) + 2] ==
        CASE i > Len(b) -> <<>>
          [] b[i] < 128 -> <<b[i]>> \o F[i + 1]
          [] b[i] \in 194 .. 223 /\ i < Len(b) /\ b[i + 1] \in 128 .. 191 ->
               <<(b[i] - 192) * 64 + b[i + 1] - 128>> \o F[i + 2]
          [] OTHER -> <<65533>> \o F[i + 1]
  IN F[1]

Prefix(b, n) == SubSeq(b, 1, n)
After(b, n) == SubSeq(b, n + 1, Len(b))

Bits(b) == FlattenSeq([i \in DOMAIN b |-> [k \in 1 .. 8 |-> (b[i] \div 2 ^ (8 - k)) % 2]])
PlusOne(bits) ==
  LET zeros == {i \in DOMAIN bits : bits[i] = 0}
      last == CHOOSE i \in zeros : \A j \in zeros : j <= i
  IN IF zeros = {} THEN <<1>> \o [i \in DOMAIN bits |-> 0]
     ELSE [i \in DOMAIN bits |-> IF i < last THEN bits[i] ELSE IF i = last THEN 1 ELSE 0]

\* The absolute value of a number in two's complement, without leading zeros.
Magnitude(bits) ==
  LET m == IF bits[1] = 1 THEN PlusOne([i \in DOMAIN bits |-> 1 - bits[i]]) ELSE bits
  IN SubSeq(m, (CHOOSE i \in 1 .. Len(m) + 1 : (i <= Len(m) => m[i] = 1)
                                             /\ \A j \in 1 .. i - 1 : m[j] = 0), Len(m))

\* A double has 53 significant bits; a number between two goes to the nearest,
\* and from the middle to the even one.
Rounded(bits) ==
  LET head == Prefix(bits, 53)
      rest == After(bits, 53)
      up == rest[1] = 1 /\ (head[53] = 1 \/ \E i \in 2 .. Len(rest) : rest[i] = 1)
  IN IF Len(bits) <= 53 THEN bits
     ELSE (IF up THEN PlusOne(head) ELSE head) \o [i \in DOMAIN rest |-> 0]

\* Number(view.getBigInt64()) of eight bytes, the most significant first.
Number64(b) ==
  LET m == Magnitude(Bits(b))
      value == FoldLeft(LAMBDA n, bit : 2 * n + bit, 0, m)
  IN IF Len(m) > 30 THEN Wide(b[1] > 127, Rounded(m))
     ELSE Number(IF b[1] > 127 THEN -value ELSE value)

\* The offset of the first zero byte; the length when there is none.
NullIndex(b) ==
  LET zeros == {i \in DOMAIN b : b[i] = 0}
  IN IF zeros = {} THEN Len(b) ELSE (CHOOSE i \in zeros : \A j \in zeros : i <= j) - 1

\* A buffer of the given size with pieces <<bytes, advance>> put one after the
\* other; set() throws when a piece does not fit.
Laid(size, pieces) ==
  LET at == [k \in 1 .. Len(pieces) + 1 |->
               FoldLeft(LAMBDA a, p : a + p[2], 0, Prefix(pieces, k - 1))]
      on(i) == {k \in DOMAIN pieces : i - at[k] \in 1 .. Len(pieces[k][1])}
      byte(i) == IF on(i) = {} THEN 0
                 ELSE LET k == CHOOSE k \in on(i) : \A j \in on(i) : j <= k
                      IN pieces[k][1][i - at[k]]
  IN IF \E k \in DOMAIN pieces : at[k] + Len(pieces[k][1]) > size THEN Throws
     ELSE Bytes([i \in 1 .. size |-> byte(i)])

Piece(b) == <<b, Len(b)>>          \* offset += bytes.length
CString(b) == <<b, Len(b) + 1>>    \* offset += bytes.length + 1
=============================================================================
