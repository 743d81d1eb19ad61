--------------------------- MODULE MessageStream ---------------------------
(***************************************************************************)
(* Messages of a server through a stream that cuts them anywhere: the      *)
(* three readers of the repository that put them together again.           *)
(*   "stream"   PgConnection.readMessage() over PureqStreamReader          *)
(*   "adapter"  the same reads over PureqSocketAdapter and PureqIOBuffer   *)
(*   "chunk"    the loops of PurePostgresDriver, one chunk at a time       *)
(***************************************************************************)
EXTENDS PgWire

CONSTANT Streams    \* sequences of messages [type, data] that a server sends

VARIABLES
  reader,         \* which of the three
  messages,       \* what the server sends
  incoming,       \* its bytes that have not arrived
  chunks,         \* what has arrived and was not read
  offset,         \* how much of the first chunk was read
  totalLength,
  field,          \* what readMessage() awaits: "type", "length" or "body"
  type, length,   \* what it has read of the message
  got,            \* the messages it returned
  aligned         \* every chunk so far ended where a message ends

streamVars == <<reader, messages, incoming, chunks, offset, totalLength, field, type,
                length, got, aligned>>

Wire(ms) == FlattenSeq([i \in DOMAIN ms |->
              <<ms[i].type>> \o Int32(Len(ms[i].data) + 4) \o ms[i].data])

InitOf(r, ms) ==
  /\ reader = r /\ messages = ms /\ incoming = Wire(ms)
  /\ chunks = <<>> /\ offset = 0 /\ totalLength = 0
  /\ field = "type" /\ type = 0 /\ length = 0
  /\ got = <<>> /\ aligned = TRUE

Init == \E r \in {"stream", "adapter", "chunk"}, ms \in Streams : InitOf(r, ms)

-----------------------------------------------------------------------------
\* The whole messages at the front of a chunk; what follows them is dropped.
MessagesOf(chunk) ==
  LET F[o \in 0 .. Len(chunk)] ==
        LET rest == After(chunk, o) IN
        IF ~Complete(rest) THEN <<>>
        ELSE LET m == DecodeMessage(rest)
             IN <<[type |-> m.type, data |-> m.data]>> \o F[o + m.consumed]
  IN F[0]

\* Where messages end in the bytes of the server.
Ends == {Len(Wire(Prefix(messages, k))) : k \in 0 .. Len(messages)}

\* A chunk of n bytes arrives.
Arrive(n) ==
  /\ n <= Len(incoming)
  /\ incoming' = After(incoming, n)
  /\ aligned' = (aligned /\ Len(Wire(messages)) - Len(incoming) + n \in Ends)
  /\ IF reader = "chunk"
     THEN got' = got \o MessagesOf(Prefix(incoming, n)) /\ UNCHANGED <<chunks, totalLength>>
     ELSE /\ chunks' = Append(chunks, Prefix(incoming, n))
          /\ totalLength' = totalLength + n
          /\ UNCHANGED got
  /\ UNCHANGED <<reader, messages, offset, field, type, length>>

MinOf(a, b) == IF a < b THEN a ELSE b

\* Mutant: the first chunk is dropped when it was used, not when it was used up.
MutShiftsAlways(n) ==
  LET step(s) ==
        LET copy == MinOf(Len(s.chunks[1]) - s.offset, n - Len(s.result))
        IN IF Len(s.result) = n THEN s
           ELSE [result |-> s.result \o SubSeq(s.chunks[1], s.offset + 1, s.offset + copy),
                 chunks |-> Tail(s.chunks), offset |-> 0]
  IN FoldLeft(LAMBDA s, c : step(s), [result |-> <<>>, chunks |-> chunks, offset |-> offset],
              chunks)

\* consume() of PureqStreamReader: one chunk of the queue after the other.
ConsumeOffset(n) ==
  LET step(s) ==
        LET chunk == s.chunks[1]
            copy == MinOf(Len(chunk) - s.offset, n - Len(s.result))
            upTo == s.offset + copy
        IN IF Len(s.result) = n THEN s
           ELSE [result |-> s.result \o SubSeq(chunk, s.offset + 1, upTo),
                 chunks |-> IF upTo = Len(chunk) THEN Tail(s.chunks) ELSE s.chunks,
                 offset |-> IF upTo = Len(chunk) THEN 0 ELSE upTo]
  IN FoldLeft(LAMBDA s, c : step(s), [result |-> <<>>, chunks |-> chunks, offset |-> offset],
              chunks)

\* consume() of PureqIOBuffer: the first chunk is replaced by what is left of it.
ConsumeChunks(n) ==
  LET step(s) ==
        LET first == s.chunks[1]
            needed == n - Len(s.result)
        IN IF needed = 0 THEN s
           ELSE IF Len(first) <= needed
           THEN [s EXCEPT !.result = @ \o first, !.chunks = Tail(@)]
           ELSE [s EXCEPT !.result = @ \o Prefix(first, needed),
                          !.chunks = <<After(first, needed)>> \o Tail(@)]
  IN FoldLeft(LAMBDA s, c : step(s), [result |-> <<>>, chunks |-> chunks, offset |-> 0],
              chunks)

\* The bytes that the read under way asks for.
Wanted == CASE field = "type" -> 1 [] field = "length" -> 4 [] field = "body" -> length - 4

\* readMessage(): a read resolves once its bytes are there.
ReadMessage ==
  /\ reader # "chunk" /\ totalLength >= Wanted
  /\ LET s == IF reader = "stream" THEN ConsumeOffset(Wanted) ELSE ConsumeChunks(Wanted)
     IN /\ chunks' = s.chunks /\ offset' = s.offset
        /\ totalLength' = totalLength - Wanted
        /\ \/ /\ field = "type" /\ field' = "length" /\ type' = s.result[1]
              /\ UNCHANGED <<length, got>>
           \/ /\ field = "length" /\ field' = "body" /\ length' = ReadInt32(s.result)
              /\ UNCHANGED <<type, got>>
           \/ /\ field = "body" /\ field' = "type"
              /\ got' = Append(got, [type |-> type, data |-> s.result])
              /\ UNCHANGED <<type, length>>
  /\ UNCHANGED <<reader, messages, incoming, aligned>>

Next == ReadMessage \/ \E n \in 1 .. Len(incoming) : Arrive(n)

-----------------------------------------------------------------------------
\* However the stream is cut, readMessage() returns the messages that were sent,
\* in order, each as soon as its bytes are there, and the readers' totalLength is
\* the number of bytes they hold.  The chunk loops return them only as long as no
\* chunk ends inside a message: the start of one is dropped with its chunk.
MessagesIntact ==
  /\ reader # "chunk" => /\ IsPrefix(got, messages)
                         /\ totalLength = Len(FlattenSeq(chunks)) - offset
                         /\ incoming = <<>> /\ totalLength < Wanted => got = messages
  /\ reader = "chunk" /\ aligned => Wire(got) \o incoming = Wire(messages)
=============================================================================
