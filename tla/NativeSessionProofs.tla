------------------------- MODULE NativeSessionProofs -------------------------
(***************************************************************************)
(* Whose answers the native drivers read, and what transaction() tells,    *)
(* for any number of calls and rows.  The invariant IInv of NativeSession  *)
(* says how far a call and its server have come together: connect()        *)
(* message by message, then what is on the wire during a statement.        *)
(*                                                                         *)
(* First what messages, streams and answers are made of, and what reading, *)
(* sending and answering do to them; then one lemma for each step; then    *)
(* the theorems.                                                           *)
(***************************************************************************)
EXTENDS NativeSession, TLAPS, FiniteSetTheorems, FunctionTheorems, SequenceTheorems

-----------------------------------------------------------------------------
(* Sequences of messages. *)

\* A message of a known type is one.
LEMMA ReplyType ==
  ASSUME NEW t \in Type, NEW n \in Nat
  PROVE  /\ Reply(t, n) \in Message
         /\ Reply(t, n).type = t /\ Reply(t, n).of = n
BY DEF Reply, Message

\* Nothing on the wire: no place to speak of.
LEMMA NoIndex ==
  ASSUME NEW s
  PROVE  s = <<>> => 1 .. Len(s) = {}
<1> SUFFICES ASSUME s = <<>> PROVE 1 .. Len(<<>>) = {}
  OBVIOUS
<1>1. Len(<<>>) = 0
  OBVIOUS
<1> QED BY <1>1

LEMMA OnlyIndex ==
  ASSUME NEW s, Len(s) = 1
  PROVE  \A i \in 1 .. Len(s) : i = 1
OBVIOUS

\* A message on the wire has a type and a number.
LEMMA MsgFields ==
  ASSUME NEW s \in Seq(Message), NEW i \in 1 .. Len(s)
  PROVE  s[i] \in Message /\ s[i].type \in Type /\ s[i].of \in Nat
<1>1. s[i] \in Message
  BY ElementOfSeq
<1> QED BY <1>1 DEF Message

\* What reading the next message leaves in the stream.
LEMMA ReadsFacts ==
  ASSUME fromServer \in Seq(Message), NEW x, Reads(x)
  PROVE  /\ fromServer # <<>> /\ x = fromServer[1] /\ x \in Message
         /\ x.type \in Type /\ x.of \in Nat
         /\ Len(fromServer) \in Nat /\ Len(fromServer) >= 1
         /\ fromServer' \in Seq(Message) /\ Len(fromServer') = Len(fromServer) - 1
         /\ \A i \in 1 .. Len(fromServer') :
              fromServer'[i] = fromServer[i + 1] /\ i + 1 \in 1 .. Len(fromServer)
         /\ fromServer' = <<>> <=> Len(fromServer) = 1
<1>1. /\ fromServer # <<>> /\ x = Head(fromServer) /\ fromServer' = Tail(fromServer)
  BY DEF Reads
<1>2. Len(fromServer) \in Nat /\ Len(fromServer) >= 1
  BY <1>1
<1>3. x = fromServer[1] /\ x \in Message
  BY <1>1, <1>2
<1>4. x.type \in Type /\ x.of \in Nat
  BY <1>3 DEF Message
<1>5. /\ fromServer' \in Seq(Message) /\ Len(fromServer') = Len(fromServer) - 1
      /\ \A i \in 1 .. Len(fromServer') : fromServer'[i] = fromServer[i + 1]
  BY <1>1, <1>2, HeadTailProperties
<1>6. fromServer' = <<>> <=> Len(fromServer') = 0
  BY <1>5, EmptySeq
<1>7. \A i \in 1 .. Len(fromServer') : i + 1 \in 1 .. Len(fromServer)
  BY <1>2, <1>5
<1>8. fromServer' = <<>> <=> Len(fromServer) = 1
  BY <1>2, <1>5, <1>6
<1> QED BY <1>1, <1>2, <1>3, <1>4, <1>5, <1>7, <1>8

\* What sending a message leaves on the wire.
LEMMA SendsFacts ==
  ASSUME toServer \in Seq(Message), NEW m \in Message, Sends(m)
  PROVE  /\ Len(toServer) \in Nat
         /\ toServer' \in Seq(Message) /\ Len(toServer') = Len(toServer) + 1
         /\ toServer'[Len(toServer) + 1] = m
         /\ \A i \in 1 .. Len(toServer) : toServer'[i] = toServer[i]
         /\ toServer' # <<>>
         /\ toServer = <<>> => Only(toServer', m)
         /\ toServer # <<>> => toServer'[1] = toServer[1]
         /\ \A i \in 1 .. Len(toServer') :
              \/ toServer'[i] = m
              \/ i \in 1 .. Len(toServer) /\ toServer'[i] = toServer[i]
<1>1. toServer' = Append(toServer, m)
  BY DEF Sends
<1>2. /\ Len(toServer) \in Nat
      /\ toServer' \in Seq(Message) /\ Len(toServer') = Len(toServer) + 1
      /\ toServer'[Len(toServer) + 1] = m
      /\ \A i \in 1 .. Len(toServer) : toServer'[i] = toServer[i]
  BY <1>1, AppendProperties
<1>3. toServer' # <<>>
  BY <1>2
<1>4. toServer = <<>> => Only(toServer', m)
  BY <1>2 DEF Only
<1>5. toServer # <<>> => Len(toServer) >= 1
  OBVIOUS
<1>6. toServer # <<>> => toServer'[1] = toServer[1]
  BY <1>2, <1>5
<1>7. \A i \in 1 .. Len(toServer') : i \in 1 .. Len(toServer) \/ i = Len(toServer) + 1
  BY <1>2
<1> QED BY <1>2, <1>3, <1>4, <1>6, <1>7

\* What is left of a sequence after its head.
LEMMA TailFacts ==
  ASSUME NEW s \in Seq(Message), s # <<>>
  PROVE  /\ Head(s) = s[1] /\ s[1] \in Message
         /\ s[1].type \in Type /\ s[1].of \in Nat
         /\ Len(s) \in Nat /\ Len(s) >= 1
         /\ Tail(s) \in Seq(Message) /\ Len(Tail(s)) = Len(s) - 1
         /\ \A i \in 1 .. Len(Tail(s)) :
              Tail(s)[i] = s[i + 1] /\ i + 1 \in 1 .. Len(s)
         /\ Tail(s) = <<>> <=> Len(s) = 1
<1>1. Len(s) \in Nat /\ Len(s) >= 1 /\ Head(s) = s[1] /\ s[1] \in Message
  OBVIOUS
<1>2. /\ Tail(s) \in Seq(Message) /\ Len(Tail(s)) = Len(s) - 1
      /\ \A i \in 1 .. Len(Tail(s)) : Tail(s)[i] = s[i + 1]
  BY <1>1, HeadTailProperties
<1>3. Tail(s) = <<>> <=> Len(Tail(s)) = 0
  BY <1>2, EmptySeq
<1>4. s[1].type \in Type /\ s[1].of \in Nat
  BY <1>1 DEF Message
<1>5. \A i \in 1 .. Len(Tail(s)) : i + 1 \in 1 .. Len(s)
  BY <1>1, <1>2
<1>6. Tail(s) = <<>> <=> Len(s) = 1
  BY <1>1, <1>2, <1>3
<1> QED BY <1>1, <1>2, <1>4, <1>5, <1>6

\* What reading two messages leaves in the stream.
LEMMA ReadsTwo ==
  ASSUME NEW s \in Seq(Message), Len(s) >= 2
  PROVE  /\ Len(s) \in Nat /\ s # <<>>
         /\ Tail(Tail(s)) \in Seq(Message) /\ Len(Tail(Tail(s))) = Len(s) - 2
         /\ \A i \in 1 .. Len(Tail(Tail(s))) :
              Tail(Tail(s))[i] = s[i + 2] /\ i + 2 \in 1 .. Len(s)
         /\ Tail(Tail(s)) = <<>> <=> Len(s) = 2
<1>0. s # <<>>
  BY EmptySeq
<1>1. /\ Len(s) \in Nat /\ Tail(s) \in Seq(Message) /\ Len(Tail(s)) = Len(s) - 1
      /\ \A i \in 1 .. Len(Tail(s)) : Tail(s)[i] = s[i + 1] /\ i + 1 \in 1 .. Len(s)
      /\ Tail(s) = <<>> <=> Len(s) = 1
  BY <1>0, TailFacts
<1>2. Tail(s) # <<>>
  BY <1>1
<1>3. /\ Tail(Tail(s)) \in Seq(Message) /\ Len(Tail(Tail(s))) = Len(Tail(s)) - 1
      /\ \A i \in 1 .. Len(Tail(Tail(s))) :
           Tail(Tail(s))[i] = Tail(s)[i + 1] /\ i + 1 \in 1 .. Len(Tail(s))
      /\ Tail(Tail(s)) = <<>> <=> Len(Tail(s)) = 1
  BY <1>1, <1>2, TailFacts
<1>4. \A i \in 1 .. Len(Tail(Tail(s))) :
        Tail(Tail(s))[i] = s[i + 2] /\ i + 2 \in 1 .. Len(s)
  <2> SUFFICES ASSUME NEW i \in 1 .. Len(Tail(Tail(s)))
               PROVE  Tail(Tail(s))[i] = s[i + 2] /\ i + 2 \in 1 .. Len(s)
    OBVIOUS
  <2>1. i \in Nat /\ Tail(Tail(s))[i] = Tail(s)[i + 1] /\ i + 1 \in 1 .. Len(Tail(s))
    BY <1>3
  <2>2. Tail(s)[i + 1] = s[(i + 1) + 1] /\ (i + 1) + 1 \in 1 .. Len(s)
    BY <1>1, <2>1
  <2>3. (i + 1) + 1 = i + 2
    BY <2>1
  <2> QED BY <2>1, <2>2, <2>3
<1>5. Len(Tail(s)) = 1 <=> Len(s) = 2
  BY <1>1
<1>6. Len(Tail(Tail(s))) = Len(s) - 2
  BY <1>1, <1>3
<1> QED BY <1>0, <1>1, <1>3, <1>4, <1>5, <1>6

\* What an answer of the server adds to the stream.
LEMMA AnswersFacts ==
  ASSUME fromServer \in Seq(Message), NEW t \in Seq(Message), Answers(t)
  PROVE  /\ Len(fromServer) \in Nat /\ Len(t) \in Nat
         /\ fromServer' \in Seq(Message) /\ Len(fromServer') = Len(fromServer) + Len(t)
         /\ \A i \in 1 .. Len(fromServer) : fromServer'[i] = fromServer[i]
         /\ \A i \in 1 .. Len(t) : fromServer'[Len(fromServer) + i] = t[i]
         /\ \A i \in 1 .. Len(fromServer') :
              \/ i \in 1 .. Len(fromServer) /\ fromServer'[i] = fromServer[i]
              \/ /\ i - Len(fromServer) \in 1 .. Len(t)
                 /\ fromServer'[i] = t[i - Len(fromServer)]
         /\ fromServer = <<>> => fromServer' = t
<1>1. fromServer' = fromServer \o t
  BY DEF Answers
<1>2. /\ Len(fromServer) \in Nat /\ Len(t) \in Nat
      /\ fromServer' \in Seq(Message) /\ Len(fromServer') = Len(fromServer) + Len(t)
      /\ \A i \in 1 .. Len(fromServer) + Len(t) :
           fromServer'[i] = IF i <= Len(fromServer) THEN fromServer[i]
                            ELSE t[i - Len(fromServer)]
  BY <1>1, ConcatProperties
<1>3. fromServer = <<>> => fromServer' = t
  BY <1>1, ConcatEmptySeq
<1>4. \A i \in 1 .. Len(t) : fromServer'[Len(fromServer) + i] = t[i]
  BY <1>2
<1> QED BY <1>2, <1>3, <1>4

\* The first two parts of the type, said of the two streams.
LEMMA WireType ==
  ASSUME NEW s \in Seq(Message), NEW t \in Seq(Message), NEW n \in Nat,
         \A i \in 1 .. Len(s) : s[i].of <= n,
         \A i \in 1 .. Len(t) : t[i].of <= n
  PROVE  \A m \in Range(s \o t) : m.of \in 0 .. n
<1> SUFFICES ASSUME NEW m \in Range(s \o t) PROVE m.of \in 0 .. n
  OBVIOUS
<1>1. PICK i \in DOMAIN (s \o t) : m = (s \o t)[i]
  BY DEF Range
<1>2. /\ Len(s) \in Nat /\ Len(t) \in Nat /\ i \in 1 .. Len(s) + Len(t)
      /\ (s \o t)[i] = IF i <= Len(s) THEN s[i] ELSE t[i - Len(s)]
  BY ConcatProperties, LenProperties
<1>3. CASE i <= Len(s)
  BY <1>1, <1>2, <1>3, MsgFields
<1>4. CASE i > Len(s)
  <2>1. i - Len(s) \in 1 .. Len(t) /\ m = t[i - Len(s)]
    BY <1>1, <1>2, <1>4
  <2> QED BY <2>1, MsgFields
<1> QED BY <1>2, <1>3, <1>4

-----------------------------------------------------------------------------
(* Counting the answers that are still to be read. *)

Readies(s) == {i \in DOMAIN s : s[i].type = "ready"}

\* The ReadyForQuery messages of a stream can be counted.
LEMMA ReadiesFinite ==
  ASSUME NEW s \in Seq(Message)
  PROVE  IsFiniteSet(Readies(s)) /\ Cardinality(Readies(s)) \in Nat
<1>1. Readies(s) \in SUBSET (1 .. Len(s)) /\ Len(s) \in Nat
  BY LenProperties DEF Readies
<1>2. IsFiniteSet(1 .. Len(s))
  BY <1>1, FS_Interval
<1> QED BY <1>1, <1>2, FS_Subset, FS_CardinalityType

\* Reading a message takes it from the count if it is a ReadyForQuery.
LEMMA ReadiesOfTail ==
  ASSUME NEW s \in Seq(Message), s # <<>>
  PROVE  Cardinality(Readies(s)) =
           Cardinality(Readies(Tail(s))) + IF s[1].type = "ready" THEN 1 ELSE 0
<1> DEFINE later == Readies(s) \ {1}
           f == [i \in Readies(Tail(s)) |-> i + 1]
<1>1. /\ Len(s) \in Nat /\ Len(s) >= 1 /\ Tail(s) \in Seq(Message)
      /\ Len(Tail(s)) = Len(s) - 1
      /\ \A i \in 1 .. Len(Tail(s)) : Tail(s)[i] = s[i + 1]
      /\ DOMAIN s = 1 .. Len(s) /\ DOMAIN Tail(s) = 1 .. Len(Tail(s))
  BY TailFacts, LenProperties
<1>2. IsFiniteSet(Readies(Tail(s))) /\ Cardinality(Readies(Tail(s))) \in Nat
  BY <1>1, ReadiesFinite
<1>3. f \in Bijection(Readies(Tail(s)), later)
  <2>1. \A i \in Readies(Tail(s)) : i + 1 \in later /\ i \in Nat
    BY <1>1 DEF Readies
  <2>2. \A j \in later : j - 1 \in Readies(Tail(s)) /\ f[j - 1] = j
    <3> SUFFICES ASSUME NEW j \in later
                 PROVE  j - 1 \in Readies(Tail(s)) /\ f[j - 1] = j
      OBVIOUS
    <3>1. j \in 2 .. Len(s) /\ s[j].type = "ready"
      BY <1>1 DEF Readies
    <3>2. j - 1 \in 1 .. Len(Tail(s)) /\ Tail(s)[j - 1] = s[j]
      BY <1>1, <3>1
    <3>3. j - 1 \in Readies(Tail(s))
      BY <1>1, <3>1, <3>2 DEF Readies
    <3> QED BY <3>1, <3>3
  <2>3. f \in [Readies(Tail(s)) -> later]
    BY <2>1
  <2>4. \A i, j \in Readies(Tail(s)) : f[i] = f[j] => i = j
    BY <2>1
  <2> QED BY <2>2, <2>3, <2>4, Fun_IsBij
<1>4. IsFiniteSet(later) /\ Cardinality(later) = Cardinality(Readies(Tail(s)))
  BY <1>2, <1>3, FS_Bijection DEF ExistsBijection
<1>5. CASE s[1].type = "ready"
  <2>1. Readies(s) = later \cup {1} /\ 1 \notin later
    BY <1>1, <1>5 DEF Readies
  <2> QED BY <1>2, <1>4, <1>5, <2>1, FS_AddElement
<1>6. CASE s[1].type # "ready"
  <2>1. Readies(s) = later
    BY <1>6 DEF Readies
  <2>2. Cardinality(Readies(s)) = Cardinality(Readies(Tail(s)))
    BY <1>4, <2>1
  <2> QED BY <1>2, <1>6, <2>2
<1> QED BY <1>5, <1>6

\* An answer that ends in its one ReadyForQuery adds one to the count.
LEMMA ReadiesOfAnswer ==
  ASSUME fromServer \in Seq(Message), NEW t \in Seq(Message), Answers(t),
         EndsIn(t, {"ready"})
  PROVE  Cardinality(Readies(fromServer)') = Cardinality(Readies(fromServer)) + 1
<1>1. /\ Len(fromServer) \in Nat /\ Len(t) \in Nat
      /\ fromServer' \in Seq(Message) /\ Len(fromServer') = Len(fromServer) + Len(t)
      /\ \A i \in 1 .. Len(fromServer) : fromServer'[i] = fromServer[i]
      /\ \A i \in 1 .. Len(t) : fromServer'[Len(fromServer) + i] = t[i]
      /\ \A i \in 1 .. Len(fromServer') :
           \/ i \in 1 .. Len(fromServer) /\ fromServer'[i] = fromServer[i]
           \/ /\ i - Len(fromServer) \in 1 .. Len(t)
              /\ fromServer'[i] = t[i - Len(fromServer)]
  BY AnswersFacts
<1>2. Len(t) >= 1
  BY EmptySeq DEF EndsIn
<1>3. \A i \in 1 .. Len(t) : t[i].type = "ready" <=> i = Len(t)
  BY DEF EndsIn
<1>4. DOMAIN fromServer = 1 .. Len(fromServer) /\ DOMAIN fromServer' = 1 .. Len(fromServer')
  BY <1>1, LenProperties
<1>5. Readies(fromServer)' = Readies(fromServer) \cup {Len(fromServer')}
  <2>1. \A i \in 1 .. Len(fromServer') :
          fromServer'[i].type = "ready" <=>
            \/ i \in 1 .. Len(fromServer) /\ fromServer[i].type = "ready"
            \/ i = Len(fromServer')
    <3> SUFFICES ASSUME NEW i \in 1 .. Len(fromServer')
                 PROVE  fromServer'[i].type = "ready" <=>
                          \/ i \in 1 .. Len(fromServer) /\ fromServer[i].type = "ready"
                          \/ i = Len(fromServer')
      OBVIOUS
    <3>1. CASE i \in 1 .. Len(fromServer)
      <4>1. i # Len(fromServer') /\ fromServer'[i] = fromServer[i]
        BY <1>1, <1>2, <3>1
      <4> QED BY <3>1, <4>1
    <3>2. CASE i \notin 1 .. Len(fromServer)
      <4>1. /\ i - Len(fromServer) \in 1 .. Len(t)
            /\ fromServer'[i] = t[i - Len(fromServer)]
        BY <1>1, <3>2
      <4>2. i - Len(fromServer) = Len(t) <=> i = Len(fromServer')
        BY <1>1
      <4> QED BY <1>3, <3>2, <4>1, <4>2
    <3> QED BY <3>1, <3>2
  <2> QED BY <1>1, <1>2, <1>4, <2>1 DEF Readies
<1>6. Len(fromServer') \notin Readies(fromServer)
  BY <1>1, <1>2, <1>4 DEF Readies
<1> QED BY <1>5, <1>6, ReadiesFinite, FS_AddElement

\* What the invariant says of the numbers: statements are counted, and a message
\* carries the number of one.
LEMMA Numbers ==
  ASSUME IInv
  PROVE  /\ count \in Nat /\ MaxStatements \in Nat /\ count <= MaxStatements
         /\ behind \in Nat /\ count + 1 \notin pending \cup durable \cup refused \cup body
         /\ \A i \in 1 .. Len(toServer) : toServer[i].of \in Nat
         /\ \A i \in 1 .. Len(fromServer) : fromServer[i].of \in Nat
<1>1. count \in Nat /\ MaxStatements \in Nat /\ count <= MaxStatements /\ behind \in Nat
  <2>1. count \in 0 .. MaxStatements /\ behind \in Nat
    BY DEF IInv, NumberType
  <2> QED BY <2>1, SessionAssumption
<1>2. count + 1 \notin pending \cup durable \cup refused \cup body
  BY <1>1 DEF IInv, KnownSound
<1> QED BY <1>1, <1>2, MsgFields DEF IInv, ToServerSound, FromServerSound

-----------------------------------------------------------------------------
(* What is on the wire stays sound. *)

\* A connection that is in use was in use, or nothing is under way to its server.
UsedBefore ==
  dialect' = "pg" /\ isConnected' /\ ~lost' =>
    \/ dialect = "pg" /\ isConnected /\ ~lost
    \/ toServer = <<>>

\* The requests stay sound when nothing is sent, when the statement under way is
\* sent, and when the server takes the first.
LEMMA ToServerStays ==
  ASSUME IInv, toServer' = toServer, count' \in {count, count + 1}, UsedBefore
  PROVE  ToServerSound'
<1>1. /\ count \in Nat /\ count' \in Nat /\ count <= count'
      /\ \A i \in 1 .. Len(toServer) : toServer[i].of \in Nat
  BY Numbers
<1>2. ToServerSound
  BY DEF IInv
<1>3. toServer = <<>> => 1 .. Len(toServer) = {}
  OBVIOUS
<1> QED BY <1>1, <1>2, <1>3 DEF ToServerSound, UsedBefore

LEMMA ToServerSends ==
  ASSUME IInv, NEW m \in Message, Sends(m), count' = count, UsedBefore,
         m.of <= count, m.type \in Sql => m.of > 0,
         dialect' = "pg" /\ isConnected' /\ ~lost' => m.type \in Sql
  PROVE  ToServerSound'
<1>1. /\ Len(toServer) \in Nat
      /\ toServer' \in Seq(Message) /\ Len(toServer') = Len(toServer) + 1
      /\ toServer'[Len(toServer) + 1] = m
      /\ \A i \in 1 .. Len(toServer) : toServer'[i] = toServer[i]
  BY SendsFacts DEF IInv, ToServerSound
<1>2. toServer = <<>> => 1 .. Len(toServer) = {}
  OBVIOUS
<1>3. \A i \in 1 .. Len(toServer) :
        /\ toServer[i].of <= count
        /\ toServer[i].type \in Sql => toServer[i].of > 0
        /\ dialect' = "pg" /\ isConnected' /\ ~lost' => toServer[i].type \in Sql
  BY <1>2 DEF IInv, ToServerSound, UsedBefore
<1>4. \A i \in 1 .. Len(toServer') : i \in 1 .. Len(toServer) \/ i = Len(toServer) + 1
  BY <1>1
<1>5. \A i \in 1 .. Len(toServer') :
        /\ toServer'[i].of <= count
        /\ toServer'[i].type \in Sql => toServer'[i].of > 0
        /\ dialect' = "pg" /\ isConnected' /\ ~lost' => toServer'[i].type \in Sql
  BY <1>1, <1>3, <1>4
<1> QED BY <1>1, <1>5 DEF ToServerSound

LEMMA ToServerTail ==
  ASSUME IInv, toServer # <<>>, toServer' = Tail(toServer), count' = count, UsedBefore
  PROVE  ToServerSound'
<1>1. /\ Len(toServer) \in Nat /\ Len(toServer) >= 1
      /\ toServer' \in Seq(Message) /\ Len(toServer') = Len(toServer) - 1
      /\ \A i \in 1 .. Len(toServer') :
           toServer'[i] = toServer[i + 1] /\ i + 1 \in 1 .. Len(toServer)
  BY TailFacts DEF IInv, ToServerSound
<1>2. \A i \in 1 .. Len(toServer) :
        /\ toServer[i].of <= count
        /\ toServer[i].type \in Sql => toServer[i].of > 0
        /\ dialect' = "pg" /\ isConnected' /\ ~lost' => toServer[i].type \in Sql
  BY DEF IInv, ToServerSound, UsedBefore
<1> QED BY <1>1, <1>2 DEF ToServerSound

\* So do the answers: when nothing comes, when one is read, when one is given.
LEMMA FromServerStays ==
  ASSUME IInv, fromServer' = fromServer, count' \in {count, count + 1}
  PROVE  FromServerSound'
<1>1. /\ count \in Nat /\ count' \in Nat /\ count <= count'
      /\ \A i \in 1 .. Len(fromServer) : fromServer[i].of \in Nat
  BY Numbers
<1>2. FromServerSound
  BY DEF IInv
<1> QED BY <1>1, <1>2 DEF FromServerSound

LEMMA FromServerReads ==
  ASSUME IInv, NEW x, Reads(x), count' \in {count, count + 1}
  PROVE  FromServerSound' /\ x.of \in 0 .. count
<1>1. /\ count \in Nat /\ count' \in Nat /\ count <= count'
      /\ \A i \in 1 .. Len(fromServer) : fromServer[i].of \in Nat
  BY Numbers
<1>2. /\ x = fromServer[1] /\ x.of \in Nat
      /\ Len(fromServer) \in Nat /\ Len(fromServer) >= 1
      /\ fromServer' \in Seq(Message)
      /\ \A i \in 1 .. Len(fromServer') :
           fromServer'[i] = fromServer[i + 1] /\ i + 1 \in 1 .. Len(fromServer)
  BY ReadsFacts DEF IInv, FromServerSound
<1>3. \A i \in 1 .. Len(fromServer) : fromServer[i].of <= count
  BY DEF IInv, FromServerSound
<1>4. \A i \in 1 .. Len(fromServer') : fromServer'[i].of <= count'
  BY <1>1, <1>2, <1>3
<1>5. x.of \in 0 .. count
  BY <1>1, <1>2, <1>3
<1> QED BY <1>2, <1>4, <1>5 DEF FromServerSound

LEMMA FromServerAnswers ==
  ASSUME IInv, NEW t \in Seq(Message), Answers(t), count' = count,
         \A i \in 1 .. Len(t) : t[i].of <= count
  PROVE  FromServerSound'
<1>1. /\ fromServer' \in Seq(Message)
      /\ \A i \in 1 .. Len(fromServer') :
           \/ i \in 1 .. Len(fromServer) /\ fromServer'[i] = fromServer[i]
           \/ /\ i - Len(fromServer) \in 1 .. Len(t)
              /\ fromServer'[i] = t[i - Len(fromServer)]
  BY AnswersFacts DEF IInv, FromServerSound
<1>2. \A i \in 1 .. Len(fromServer) : fromServer[i].of <= count
  BY DEF IInv, FromServerSound
<1> QED BY <1>1, <1>2 DEF FromServerSound

-----------------------------------------------------------------------------
(* A statement that throws. *)

\* The caller is told; ROLLBACK is next; or the function goes on, which caught
\* the error or called the transaction() that is over.
SameCall ==
  /\ sql' = sql /\ purpose' = purpose /\ count' = count
  /\ body' = body /\ course' = course /\ told' = told
  /\ call' = call /\ nested' = nested
Tells(r) ==
  /\ stage' = "idle" /\ told' = IF purpose = "single" THEN told ELSE r
  /\ count' = count /\ call' = call /\ sql' = sql /\ purpose' = purpose
  /\ columns' = columns /\ body' = body /\ course' = course
  /\ nested = 0 /\ nested' = nested
TellsError == purpose \in {"single", "begin", "rollback"} /\ Tells("error")
RollsBack ==
  /\ purpose \in {"body", "commit"}
  /\ stage' = "writing" /\ call' = "execute" /\ sql' = "rollback" /\ purpose' = "rollback"
  /\ count < MaxStatements /\ count' = count + 1 /\ columns' = FALSE
  /\ body' = body /\ course' = course /\ told' = told /\ nested' = nested
GoesOn ==
  /\ purpose # "single" /\ isConnected /\ (purpose = "body" \/ nested # 0)
  /\ stage' = "callback" /\ course' \in {"behind", "caught", "nested"}
  /\ count' = count /\ call' = call /\ sql' = sql /\ purpose' = purpose
  /\ columns' = columns /\ body' = body /\ told' = told
  /\ nested' \in Nat /\ (nested' # 0 => nested # 0)

\* Counting down.
LEMMA OneFewer ==
  ASSUME NEW n \in Nat, n > 0
  PROVE  n - 1 \in Nat
OBVIOUS

\* After an inner transaction the outer function goes on.
LEMMA ReturnsGoesOn ==
  ASSUME IInv, Returns
  PROVE  GoesOn
<1>1. nested \in Nat /\ nested > 0
  BY DEF IInv, CallType, Returns
<1>2. nested # 0 /\ nested - 1 \in Nat
  BY <1>1, OneFewer
<1>3. isConnected /\ purpose # "single" /\ course # "in step"
  BY <1>2 DEF IInv, CallSound
<1>4. course \in {"in step", "behind", "caught", "nested"}
  BY DEF IInv, CallType
<1>5. nested' \in Nat /\ (nested' # 0 => nested # 0)
  BY <1>2 DEF Returns
<1>6. course' = course /\ course' \in {"behind", "caught", "nested"}
  BY <1>3, <1>4 DEF Returns
<1> QED BY <1>2, <1>3, <1>5, <1>6 DEF Returns, GoesOn

\* The three ways of Throws, each with what it leaves alone.
LEMMA ThrowsCases ==
  ASSUME IInv, Throws
  PROVE  seen' = {} /\ (TellsError \/ RollsBack \/ GoesOn)
<1>1. purpose \in {"body", "commit"} => open /\ isConnected
  BY DEF IInv, StageSound, CallSound
<1> USE DEF outcome
<1>2. CASE purpose \in {"single", "begin", "rollback"} /\ Tell("error")
  BY <1>2 DEF Throws, Tell, Tells, TellsError, Tells
<1>3. CASE Returns
  BY <1>3, ReturnsGoesOn DEF Throws
<1>4. CASE /\ purpose \in {"body", "commit"} /\ Issue("execute", "rollback", "rollback")
           /\ UNCHANGED outcome
  BY <1>1, <1>4 DEF Throws, Issue, RollsBack
<1>5. CASE /\ purpose = "body" /\ stage' = "callback" /\ course' = "caught"
           /\ UNCHANGED <<call, sql, purpose, count, columns, body, told, nested>>
  <2>1. nested \in Nat
    BY DEF IInv, CallType
  <2> QED BY <1>1, <1>5, <2>1 DEF Throws, GoesOn
<1> QED BY <1>2, <1>3, <1>4, <1>5 DEF Throws

\* A statement that resolves.
Same == SameCall /\ columns' = columns
TellsOk == purpose \in {"single", "commit"} /\ Tells("ok")
Resolved ==
  \/ purpose \in {"begin", "body"} /\ stage' = "callback" /\ Same
  \/ TellsOk
  \/ purpose = "rollback" /\ TellsError
  \/ GoesOn
\* A step of the driver alone, on a connection it is not opening.
Kept ==
  /\ dialect' = dialect /\ open' = open /\ isConnected' = isConnected /\ lost' = lost
  /\ use' = use /\ session' = session /\ tx' = tx /\ pending' = pending
  /\ durable' = durable /\ refused' = refused
Threw == seen' = {} /\ (TellsError \/ RollsBack \/ GoesOn)

\* What a statement that threw leaves of the call, and of what is counted.
LEMMA CallThrows ==
  ASSUME IInv, Threw, isConnected' = isConnected, stage # "idle"
  PROVE  CallSound'
<1>1. CallSound /\ CallType
  BY DEF IInv
<1>2. CASE TellsError
  <2>1. nested' = 0 /\ (purpose # "single" => told' # "none")
    <3>1. nested' = 0 /\ (purpose # "single" => told' = "error")
      BY <1>2 DEF TellsError, Tells
    <3> QED BY <3>1
  <2>2. /\ stage' = "idle" /\ call' = call /\ sql' = sql /\ purpose' = purpose
        /\ course' = course
    BY <1>2 DEF TellsError, Tells
  <2> QED BY <1>1, <2>1, <2>2 DEF CallSound
<1>3. CASE RollsBack
  BY <1>1, <1>3 DEF RollsBack, CallSound
<1>4. CASE GoesOn
  BY <1>1, <1>4 DEF GoesOn, CallSound
<1> QED BY <1>2, <1>3, <1>4 DEF Threw

LEMMA BodyCountedThrows ==
  ASSUME IInv, Threw, stage # "idle"
  PROVE  BodyCounted'
<1>1. BodyCounted
  BY DEF IInv
<1>2. CASE TellsError
  BY <1>1, <1>2 DEF TellsError, Tells, BodyCounted
<1>3. CASE RollsBack
  <2>1. count + 1 \notin body /\ count + 1 > 0
    BY Numbers
  <2> QED BY <1>1, <1>3, <2>1 DEF RollsBack, BodyCounted
<1>4. CASE GoesOn
  BY <1>1, <1>4 DEF GoesOn, BodyCounted
<1> QED BY <1>2, <1>3, <1>4 DEF Threw

\* So for Resolves.
LEMMA ResolvesCases ==
  ASSUME IInv, Resolves
  PROVE  Resolved
<1> USE DEF outcome
<1>1. CASE /\ purpose \in {"begin", "body"} /\ stage' = "callback"
           /\ UNCHANGED <<call, sql, purpose, count, columns, outcome>>
  BY <1>1 DEF Resolved, Same, SameCall
<1>2. CASE purpose \in {"single", "commit"} /\ Tell("ok")
  BY <1>2 DEF Tell, Tells, Resolved, TellsOk
<1>3. CASE purpose = "rollback" /\ Tell("error")
  BY <1>3 DEF Tell, Tells, Resolved, TellsError, Tells
<1>4. CASE Returns
  BY <1>4, ReturnsGoesOn DEF Resolved
<1> QED BY <1>1, <1>2, <1>3, <1>4 DEF Resolves

LEMMA CallResolves ==
  ASSUME IInv, Resolved, isConnected' = isConnected, stage # "idle"
  PROVE  CallSound'
<1>1. CallSound /\ CallType
  BY DEF IInv
<1>2. CASE TellsOk \/ TellsError
  <2>1. nested' = 0 /\ (purpose # "single" => told' # "none")
    <3>1. nested' = 0 /\ (purpose # "single" => told' \in {"ok", "error"})
      BY <1>2 DEF TellsOk, TellsError, Tells
    <3> QED BY <3>1
  <2>2. /\ stage' = "idle" /\ call' = call /\ sql' = sql /\ purpose' = purpose
        /\ course' = course
    BY <1>2 DEF TellsOk, TellsError, Tells
  <2> QED BY <1>1, <2>1, <2>2 DEF CallSound
<1>3. CASE purpose \in {"begin", "body"} /\ stage' = "callback" /\ Same
  BY <1>1, <1>3 DEF Same, SameCall, CallSound
<1>4. CASE GoesOn
  BY <1>1, <1>4 DEF GoesOn, CallSound
<1> QED BY <1>2, <1>3, <1>4 DEF Resolved

\* The function given to transaction() goes on.
Chosen ==
  \/ /\ purpose' = "body" /\ call' \in {"execute", "stream"} /\ sql' \in {"read", "write"}
     /\ body' = body \cup {count + 1} /\ course' = course /\ nested' = nested
  \/ /\ purpose' = "commit" /\ call' = "execute" /\ sql' = "commit"
     /\ body' = body \cup {count + 1} /\ course' = course /\ nested' = nested
  \/ /\ purpose' = "rollback" /\ call' = "execute" /\ sql' = "rollback"
     /\ body' = body /\ course' = course /\ nested' = nested
  \/ /\ purpose' = "begin" /\ call' = "execute" /\ sql' = "begin"
     /\ body' = body /\ course' = "nested" /\ nested' \in Nat

\* The ways of Callback: another statement, the end, or a transaction inside.
LEMMA CallbackChooses ==
  ASSUME IInv, Callback
  PROVE  Chosen
<1>1. CASE \E c \in use.calls \ {"transaction", "nested"}, s \in {"read", "write"} :
             Issue(c, s, "body") /\ UNCHANGED <<course, nested>>
  <2>1. use.calls \subseteq {"execute", "stream", "transaction", "nested"}
    BY SessionAssumption DEF IInv, CallType
  <2>2. PICK c \in use.calls \ {"transaction", "nested"}, s \in {"read", "write"} :
          Issue(c, s, "body") /\ UNCHANGED <<course, nested>>
    BY <1>1
  <2>3. /\ purpose' = "body" /\ call' \in {"execute", "stream"} /\ sql' \in {"read", "write"}
        /\ course' = course /\ nested' = nested
    BY <2>1, <2>2 DEF Issue
  <2>4. body' = body \cup {count + 1}
    BY <2>3 DEF Callback
  <2> QED BY <2>3, <2>4 DEF Chosen
<1>2. CASE \E s \in {"commit", "rollback"} : Issue("execute", s, s) /\ UNCHANGED <<course, nested>>
  <2>1. PICK s \in {"commit", "rollback"} :
          Issue("execute", s, s) /\ UNCHANGED <<course, nested>>
    BY <1>2
  <2>2. call' = "execute" /\ purpose' = s /\ sql' = s /\ course' = course /\ nested' = nested
    BY <2>1 DEF Issue
  <2>3. s = "commit" => body' = body \cup {count + 1}
    BY <2>2 DEF Callback
  <2>4. s = "rollback" => body' = body
    BY <2>2 DEF Callback
  <2> QED BY <2>2, <2>3, <2>4 DEF Chosen
<1>3. CASE Issue("execute", "begin", "begin") /\ nested' = nested + 1 /\ course' = "nested"
  <2>1. call' = "execute" /\ purpose' = "begin" /\ sql' = "begin" /\ course' = "nested"
    BY <1>3 DEF Issue
  <2>2. body' = body
    BY <2>1 DEF Callback
  <2>3. nested \in Nat /\ nested' = nested + 1
    BY <1>3 DEF IInv, CallType
  <2>4. nested' \in Nat
    BY <2>3
  <2> QED BY <2>1, <2>2, <2>4 DEF Chosen
<1> QED BY <1>1, <1>2, <1>3 DEF Callback

-----------------------------------------------------------------------------
(* Reading and writing, and the parts of the invariant about the wire. *)

\* Reading a message of an answer leaves what ends in the same last message.
LEMMA ReadsEnds ==
  ASSUME FromServerSound, NEW x, Reads(x), NEW T, EndsIn(fromServer, T)
  PROVE  /\ x.type \in T => fromServer' = <<>>
         /\ x.type \notin T => fromServer' # <<>> /\ EndsIn(fromServer', T)
<1>1. /\ x = fromServer[1]
      /\ Len(fromServer) \in Nat /\ Len(fromServer) >= 1
      /\ fromServer' \in Seq(Message) /\ Len(fromServer') = Len(fromServer) - 1
      /\ \A i \in 1 .. Len(fromServer') :
           fromServer'[i] = fromServer[i + 1] /\ i + 1 \in 1 .. Len(fromServer)
      /\ fromServer' = <<>> <=> Len(fromServer) = 1
  BY ReadsFacts DEF FromServerSound
<1>2. \A i \in 1 .. Len(fromServer) : fromServer[i].type \in T <=> i = Len(fromServer)
  BY DEF EndsIn
<1>3. x.type \in T <=> Len(fromServer) = 1
  BY <1>1, <1>2
<1>4. \A i \in 1 .. Len(fromServer') : fromServer'[i].type \in T <=> i = Len(fromServer')
  BY <1>1, <1>2
<1> QED BY <1>1, <1>3, <1>4 DEF EndsIn

\* Unread, by its two parts.
LEMMA UnreadIs ==
  ASSUME toServer \in Seq(Message), fromServer \in Seq(Message)
  PROVE  /\ Unread = Cardinality(Readies(fromServer)) + Len(toServer)
         /\ Len(toServer) \in Nat /\ Cardinality(Readies(fromServer)) \in Nat
BY ReadiesFinite, LenProperties DEF Unread, Readies

\* How reading, sending and answering change the count of the unread answers.
LEMMA UnreadReads ==
  ASSUME IInv, NEW x, Reads(x), toServer' = toServer
  PROVE  /\ Unread \in Nat /\ Unread' \in Nat
         /\ x.type = "ready" => Unread = Unread' + 1
         /\ x.type # "ready" => Unread = Unread'
<1>1. toServer \in Seq(Message) /\ fromServer \in Seq(Message)
  BY DEF IInv, ToServerSound, FromServerSound
<1>2. fromServer # <<>> /\ fromServer' = Tail(fromServer) /\ x = fromServer[1]
      /\ fromServer' \in Seq(Message)
  BY <1>1, ReadsFacts DEF Reads
<1>3. Unread = Cardinality(Readies(fromServer)) + Len(toServer)
      /\ Len(toServer) \in Nat /\ Cardinality(Readies(fromServer)) \in Nat
  BY <1>1, UnreadIs
<1>4. Unread' = Cardinality(Readies(Tail(fromServer))) + Len(toServer)
  BY <1>2 DEF Unread, Readies
<1>5. Cardinality(Readies(Tail(fromServer))) \in Nat
  BY <1>2, ReadiesFinite
<1>6. Cardinality(Readies(fromServer)) =
        Cardinality(Readies(Tail(fromServer))) + IF x.type = "ready" THEN 1 ELSE 0
  BY <1>1, <1>2, ReadiesOfTail
<1> QED BY <1>3, <1>4, <1>5, <1>6

LEMMA UnreadSends ==
  ASSUME IInv, NEW m \in Message, Sends(m), fromServer' = fromServer
  PROVE  Unread \in Nat /\ Unread' = Unread + 1
<1>1. toServer \in Seq(Message) /\ fromServer \in Seq(Message)
  BY DEF IInv, ToServerSound, FromServerSound
<1>2. Unread = Cardinality(Readies(fromServer)) + Len(toServer)
      /\ Len(toServer) \in Nat /\ Cardinality(Readies(fromServer)) \in Nat
  BY <1>1, UnreadIs
<1>3. Len(toServer') = Len(toServer) + 1
  BY <1>1, SendsFacts
<1>4. Unread' = Cardinality(Readies(fromServer)) + Len(toServer')
  BY DEF Unread, Readies
<1> QED BY <1>2, <1>3, <1>4

LEMMA UnreadAnswers ==
  ASSUME IInv, NEW t \in Seq(Message), Answers(t), EndsIn(t, {"ready"}),
         toServer # <<>>, toServer' = Tail(toServer)
  PROVE  Unread' = Unread
<1>1. toServer \in Seq(Message) /\ fromServer \in Seq(Message)
  BY DEF IInv, ToServerSound, FromServerSound
<1>2. Unread = Cardinality(Readies(fromServer)) + Len(toServer)
      /\ Len(toServer) \in Nat /\ Cardinality(Readies(fromServer)) \in Nat
  BY <1>1, UnreadIs
<1>3. Len(toServer') = Len(toServer) - 1
  BY <1>1, TailFacts
<1>4. Cardinality(Readies(fromServer)') = Cardinality(Readies(fromServer)) + 1
  BY <1>1, ReadiesOfAnswer
<1>5. Unread' = Cardinality(Readies(fromServer)') + Len(toServer')
  BY DEF Unread, Readies
<1> QED BY <1>2, <1>3, <1>4, <1>5

\* What is sent next is not of a transaction that gave up, and is the ROLLBACK
\* where one is still to be sent.
LEMMA GaveUpSends ==
  ASSUME IInv, NEW m \in Message, Sends(m), GaveUp => m.of \notin body,
         body' = body, pending' = pending, durable' = durable, course' = course,
         told' = told, purpose' = purpose, lost' = lost, behind' = behind,
         dialect' = dialect,
         course = "in step" /\ ~lost /\ purpose = "rollback"
           /\ stage \in {"writing", "preparing"} =>
           \/ m.type = "rollback" /\ (stage = "preparing" => toServer = <<>>)
           \/ stage' = "preparing"
  PROVE  GaveUpSound'
<1>1. /\ Len(toServer) \in Nat
      /\ toServer' # <<>>
      /\ toServer = <<>> => Only(toServer', m)
      /\ toServer # <<>> => toServer'[1] = toServer[1]
      /\ \A i \in 1 .. Len(toServer') :
           \/ toServer'[i] = m
           \/ i \in 1 .. Len(toServer) /\ toServer'[i] = toServer[i]
  BY SendsFacts DEF IInv, ToServerSound
<1>2. GaveUpSound
  BY DEF IInv
<1>3. GaveUp' <=> GaveUp
  BY DEF GaveUp
<1>4. ASSUME GaveUp, ~lost, RollbackFirst PROVE RollbackFirst'
  <2>1. CASE toServer # <<>> /\ toServer[1].type = "rollback"
    BY <1>1, <2>1 DEF RollbackFirst
  <2>2. CASE /\ purpose = "rollback" /\ (stage = "writing" => toServer = <<>>)
             /\ stage \in {"writing", "preparing"}
    <3>1. CASE stage' = "preparing"
      BY <2>2, <3>1 DEF RollbackFirst
    <3>2. CASE m.type = "rollback" /\ (stage = "preparing" => toServer = <<>>)
      <4>1. toServer = <<>>
        BY <2>2, <3>2
      <4> QED BY <1>1, <3>2, <4>1 DEF RollbackFirst, Only
    <3> QED BY <1>4, <2>2, <3>1, <3>2 DEF GaveUp
  <2> QED BY <1>4, <2>1, <2>2 DEF RollbackFirst
<1>5. ASSUME GaveUp, ~lost PROVE \A i \in 1 .. Len(toServer') : toServer'[i].of \notin body
  BY <1>1, <1>2, <1>5 DEF GaveUpSound
<1> QED BY <1>2, <1>3, <1>4, <1>5 DEF GaveUpSound

LEMMA TwoLeft ==
  ASSUME NEW s \in Seq(Message), NEW t \in Seq(Message), Len(s) = 3, Len(t) = Len(s) - 1
  PROVE  Len(t) = 2 /\ t # <<>>
<1>1. Len(t) = 2
  OBVIOUS
<1>2. t = <<>> => Len(t) = 0
  BY EmptySeq
<1> QED BY <1>1, <1>2

LEMMA NotEmpty ==
  ASSUME NEW s, Len(s) \in {1, 2, 3}
  PROVE  s # <<>> /\ 1 \in 1 .. Len(s)
<1>1. s = <<>> => Len(s) = 0
  BY EmptySeq
<1> QED BY <1>1

LEMMA OneMessage ==
  ASSUME NEW x \in Message
  PROVE  <<x>> \in Seq(Message) /\ Len(<<x>>) = 1 /\ <<x>>[1] = x
OBVIOUS

LEMMA OnlyType ==
  ASSUME NEW s, NEW t, NEW n, Only(s, Reply(t, n))
  PROVE  Len(s) = 1 /\ s # <<>> /\ s[1].type = t /\ s[1].of = n
<1>1. Len(s) = 1 /\ s[1] = [type |-> t, of |-> n]
  BY DEF Only, Reply
<1>2. s = <<>> => Len(s) = 0
  BY EmptySeq
<1> QED BY <1>1, <1>2

LEMMA OneLess ==
  ASSUME NEW b \in Nat, NEW v \in Nat, b + 1 = v + 1
  PROVE  v = b + 0
OBVIOUS

\* Nothing on the wire: no answer is unread.
LEMMA UnreadQuiet ==
  ASSUME toServer' = <<>>, fromServer' = <<>>
  PROVE  Unread' = 0
<1>1. {i \in DOMAIN fromServer' : fromServer'[i].type = "ready"} = {}
  OBVIOUS
<1>2. Unread' = Cardinality({}) + Len(<<>>)
  BY <1>1 DEF Unread
<1> QED BY <1>2, FS_EmptySet, EmptySeq

-----------------------------------------------------------------------------
(* What a statement that throws or resolves leaves of the transaction. *)

\* Nothing is sent or executed.
OnlyReads ==
  /\ toServer' = toServer /\ pending' = pending /\ durable' = durable
  /\ refused' = refused /\ lost' = lost /\ dialect' = dialect
  /\ dialect = "mysql" => behind' = behind

\* An error that was in the stream before another message was read is in it after.
LEMMA FailedReads ==
  ASSUME IInv, NEW x, Reads(x), x.type # "error", dialect' = dialect
  PROVE  Failed' <=> Failed
<1>1. /\ x = fromServer[1]
      /\ Len(fromServer) \in Nat /\ Len(fromServer) >= 1
      /\ fromServer' \in Seq(Message) /\ Len(fromServer') = Len(fromServer) - 1
      /\ \A i \in 1 .. Len(fromServer') :
           fromServer'[i] = fromServer[i + 1] /\ i + 1 \in 1 .. Len(fromServer)
  BY ReadsFacts DEF IInv, FromServerSound
<1>2. ASSUME Failed PROVE Failed'
  <2>1. PICK i \in 1 .. Len(fromServer) : fromServer[i].type = "error"
    BY <1>2 DEF Failed
  <2>2. i - 1 \in 1 .. Len(fromServer') /\ fromServer'[i - 1] = fromServer[i]
    BY <1>1, <2>1
  <2> QED BY <1>2, <2>1, <2>2 DEF Failed
<1>3. ASSUME Failed' PROVE Failed
  BY <1>1, <1>3 DEF Failed
<1> QED BY <1>2, <1>3

\* Giving up a transaction: what is pending of it will be rolled back first.
LEMMA GaveUpThrows ==
  ASSUME IInv, Threw, OnlyReads, stage # "idle",
         course = "in step" /\ behind = 0 /\ ~lost =>
           /\ purpose = "rollback" => stage \notin {"writing", "preparing"}
           /\ purpose = "commit" => ~Executed \/ Failed
           /\ purpose \in {"body", "commit"} => toServer = <<>>,
         dialect = "pg" /\ purpose = "rollback" => stage # "writing"
  PROVE  GaveUpSound'
<1>1. GaveUpSound /\ BodySound /\ CallSound /\ BodyCounted
  BY DEF IInv
<1>2. CASE TellsError
  <2>1. CASE purpose = "begin"
    <3>1. (course = "in step" => body' = {}) /\ purpose' = "begin" /\ course' = course
      BY <1>1, <1>2, <2>1 DEF BodyCounted, TellsError, Tells
    <3>2. dialect = "mysql" => behind' = behind
      BY <1>1, <2>1 DEF OnlyReads, CallSound
    <3>3. dialect' = "mysql" /\ course' = "in step" => behind' = 0
      BY <1>1, <2>1, <3>1, <3>2 DEF GaveUpSound, OnlyReads
    <3> QED BY <3>1, <3>3 DEF GaveUpSound, GaveUp
  <2>2. CASE purpose = "single"
    <3>1. told' = told /\ purpose' = purpose /\ body' = body /\ course' = course
      BY <1>1, <1>2, <2>2 DEF CallSound, TellsError, Tells
    <3> QED BY <1>1, <2>2, <3>1 DEF GaveUpSound, GaveUp, RollbackFirst, OnlyReads
  <2>3. CASE purpose = "rollback"
    <3>1. purpose' = purpose /\ body' = body /\ course' = course
      BY <1>2 DEF TellsError, Tells
    <3>2. dialect = "mysql" => behind' = behind
      BY <1>1, <2>3 DEF OnlyReads, CallSound
    <3>3. course = "in step" /\ ~lost => stage \notin {"writing", "preparing"}
      <4>1. dialect \in {"pg", "mysql"} /\ (stage = "preparing" => dialect = "mysql")
        BY SessionAssumption DEF IInv, CallType, StageSound
      <4>2. dialect = "mysql" /\ course = "in step" => behind = 0
        BY <1>1, <2>3 DEF GaveUpSound
      <4> QED BY <2>3, <4>1, <4>2
    <3> QED BY <1>1, <2>3, <3>1, <3>2, <3>3
            DEF GaveUpSound, GaveUp, RollbackFirst, OnlyReads
  <2> QED BY <1>2, <2>1, <2>2, <2>3 DEF TellsError, Tells
<1>3. CASE RollsBack
  <2>1. /\ purpose \in {"body", "commit"} /\ purpose' = "rollback" /\ stage' = "writing"
        /\ body' = body /\ course' = course
    BY <1>3 DEF RollsBack
  <2>2. told = "none"
    BY <1>1, <2>1 DEF CallSound
  <2>3. dialect = "mysql" => behind' = behind
    BY <1>1, <2>1 DEF OnlyReads, CallSound
  <2>4. ASSUME course = "in step", ~lost
        PROVE  body \cap durable = {} /\ toServer = <<>>
    BY <1>1, <2>1, <2>2, <2>4 DEF BodySound, UnderWay
  <2>5. course = "in step" => behind = 0
    BY <1>1, <2>1, <2>2 DEF BodySound, UnderWay
  <2>6. toServer = <<>> => 1 .. Len(toServer) = {}
    BY NoIndex
  <2> QED BY <2>1, <2>3, <2>4, <2>5, <2>6 DEF GaveUpSound, GaveUp, RollbackFirst,
             OnlyReads
<1>4. CASE GoesOn
  BY <1>4 DEF GoesOn, GaveUpSound, GaveUp
<1> QED BY <1>2, <1>3, <1>4 DEF Threw

\* A transaction a statement of which threw is no longer under way.
LEMMA BodyThrows ==
  ASSUME IInv, Threw
  PROVE  BodySound'
<1>1. CallSound
  BY DEF IInv
<1>2. CASE TellsError
  BY <1>1, <1>2 DEF TellsError, Tells, CallSound, BodySound, UnderWay
<1>3. CASE RollsBack
  BY <1>3 DEF RollsBack, BodySound, UnderWay
<1>4. CASE GoesOn
  BY <1>4 DEF GoesOn, BodySound, UnderWay
<1> QED BY <1>2, <1>3, <1>4 DEF Threw

LEMMA CommitThrows ==
  ASSUME IInv, Threw, OnlyReads
  PROVE  CommitSound'
<1>1. CommitSound
  BY DEF IInv
<1>2. /\ body' = body
      /\ course' = "in step" => course = "in step"
      /\ told' = "ok" => told = "ok"
  BY DEF Threw, TellsError, Tells, RollsBack, GoesOn
<1> QED BY <1>1, <1>2 DEF CommitSound, NoneRefused, OnlyReads

LEMMA GaveUpResolves ==
  ASSUME IInv, Resolved, OnlyReads, stage = "reading"
  PROVE  GaveUpSound'
<1>1. GaveUpSound /\ CallSound
  BY DEF IInv
<1>2. \/ GoesOn
      \/ /\ body' = body /\ course' = course /\ purpose' = purpose
         /\ told' \in {told, "ok", "error"}
         /\ told' = "error" => told = "error" \/ purpose = "rollback"
  BY DEF Resolved, Same, SameCall, TellsOk, TellsError, Tells
<1>3. CASE GoesOn
  BY <1>3 DEF GoesOn, GaveUpSound, GaveUp
<1>4. CASE ~GoesOn
  <2>1. GaveUp' => GaveUp
    BY <1>2, <1>4 DEF GaveUp
  <2>2. RollbackFirst => RollbackFirst'
    BY <1>2, <1>4 DEF RollbackFirst, OnlyReads
  <2> QED BY <1>1, <1>2, <1>4, <2>1, <2>2 DEF GaveUpSound, OnlyReads
<1> QED BY <1>3, <1>4

LEMMA GaveUpStays ==
  ASSUME IInv, SameCall, OnlyReads,
         course = "in step" /\ purpose = "rollback" => stage \notin {"writing", "preparing"}
  PROVE  GaveUpSound'
<1>1. GaveUpSound /\ CallSound
  BY DEF IInv
<1>2. GaveUp' <=> GaveUp
  BY DEF GaveUp, SameCall
<1>3. course = "in step" /\ RollbackFirst => RollbackFirst'
  BY DEF RollbackFirst, OnlyReads, SameCall
<1> QED BY <1>1, <1>2, <1>3 DEF GaveUpSound, GaveUp, OnlyReads, SameCall

-----------------------------------------------------------------------------
(* What the server answers. *)

\* The whole answer to a statement: it ends with the one message that the driver
\* reads last, and every message of it is the statement's.
Answer(t, m) ==
  /\ t \in Seq(Message)
  /\ \A i \in 1 .. Len(t) : t[i].of = m.of
  /\ dialect = "pg" => EndsIn(t, {"ready"})
  /\ dialect = "mysql" =>
       /\ EndsIn(t, {"error", IF m.type = "read" THEN "end" ELSE "ok"})
       /\ m.type = "read" \/ Len(t) = 1
HasError(t) == \E i \in 1 .. Len(t) : t[i].type = "error"

\* An answer is its rows and then its end.
LEMMA EndsInConcat ==
  ASSUME NEW r \in Seq(Message), NEW s \in Seq(Message), NEW T, EndsIn(s, T),
         \A i \in 1 .. Len(r) : r[i].type \notin T
  PROVE  EndsIn(r \o s, T)
<1>1. /\ Len(r) \in Nat /\ Len(s) \in Nat /\ Len(r \o s) = Len(r) + Len(s)
      /\ \A i \in 1 .. Len(r) + Len(s) :
           (r \o s)[i] = IF i <= Len(r) THEN r[i] ELSE s[i - Len(r)]
  BY ConcatProperties
<1>2. Len(s) >= 1
  BY EmptySeq DEF EndsIn
<1>3. \A i \in 1 .. Len(r \o s) : (r \o s)[i].type \in T <=> i = Len(r \o s)
  <2> SUFFICES ASSUME NEW i \in 1 .. Len(r \o s)
               PROVE  (r \o s)[i].type \in T <=> i = Len(r \o s)
    OBVIOUS
  <2>1. CASE i <= Len(r)
    <3>1. (r \o s)[i] = r[i] /\ i \in 1 .. Len(r) /\ i # Len(r \o s)
      BY <1>1, <1>2, <2>1
    <3> QED BY <3>1
  <2>2. CASE i > Len(r)
    <3>1. (r \o s)[i] = s[i - Len(r)] /\ i - Len(r) \in 1 .. Len(s)
      BY <1>1, <2>2
    <3>2. i - Len(r) = Len(s) <=> i = Len(r \o s)
      BY <1>1
    <3> QED BY <3>1, <3>2 DEF EndsIn
  <2> QED BY <1>1, <2>1, <2>2
<1>4. r \o s # <<>>
  <2>1. Len(r \o s) # 0
    BY <1>1, <1>2
  <2> QED BY <2>1, EmptySeq
<1> QED BY <1>3, <1>4 DEF EndsIn

\* The rows of an answer.
LEMMA RowsFacts ==
  ASSUME NEW n \in Nat, NEW r \in Rows(n)
  PROVE  /\ r \in Seq(Message)
         /\ \A i \in 1 .. Len(r) : r[i].type = "row" /\ r[i].of = n
<1>1. PICK k \in 0 .. MaxRows : r = [i \in 1 .. k |-> Reply("row", n)]
  BY DEF Rows
<1>2. "row" \in Type
  BY DEF Type
<1>3. Reply("row", n) \in Message /\ Reply("row", n).type = "row" /\ Reply("row", n).of = n
  BY <1>2, ReplyType
<1>4. k \in Nat
  BY SessionAssumption
<1>5. r \in Seq(Message) /\ Len(r) = k /\ \A i \in 1 .. k : r[i] = Reply("row", n)
  BY <1>1, <1>3, <1>4
<1> QED BY <1>3, <1>5

LEMMA NoRowsFacts ==
  /\ <<>> \in Seq(Message)
  /\ \A i \in 1 .. Len(<<>>) : <<>>[i].type = "row" /\ FALSE
<1>1. 1 .. Len(<<>>) = {}
  BY NoIndex
<1> QED BY <1>1, EmptySeq

\* An answer is rows, and the messages that end it.
LEMMA AnswerOf ==
  ASSUME NEW m \in Message, NEW r \in Seq(Message), NEW s \in Seq(Message),
         \A i \in 1 .. Len(r) : r[i].type = "row" /\ r[i].of = m.of,
         m.type # "read" => r = <<>>,
         Answer(s, m)
  PROVE  Answer(r \o s, m) /\ (HasError(r \o s) <=> HasError(s))
<1>1. /\ Len(r) \in Nat /\ Len(s) \in Nat /\ Len(r \o s) = Len(r) + Len(s)
      /\ r \o s \in Seq(Message)
      /\ \A i \in 1 .. Len(r) + Len(s) :
           (r \o s)[i] = IF i <= Len(r) THEN r[i] ELSE s[i - Len(r)]
  BY ConcatProperties
<1>2. \A i \in 1 .. Len(r \o s) :
        \/ (r \o s)[i].type = "row" /\ (r \o s)[i].of = m.of
        \/ i - Len(r) \in 1 .. Len(s) /\ (r \o s)[i] = s[i - Len(r)]
  BY <1>1
<1>3. \A i \in 1 .. Len(s) : (r \o s)[Len(r) + i] = s[i] /\ Len(r) + i \in 1 .. Len(r \o s)
  BY <1>1
<1>4. \A i \in 1 .. Len(r \o s) : (r \o s)[i].of = m.of
  BY <1>2 DEF Answer
<1>5. dialect = "pg" => EndsIn(r \o s, {"ready"})
  BY EndsInConcat DEF Answer
<1>6. dialect = "mysql" =>
        EndsIn(r \o s, {"error", IF m.type = "read" THEN "end" ELSE "ok"})
  BY EndsInConcat DEF Answer
<1>7. dialect = "mysql" => m.type = "read" \/ Len(r \o s) = 1
  <2>1. m.type # "read" => r \o s = s
    BY ConcatEmptySeq
  <2> QED BY <2>1 DEF Answer
<1>8. HasError(r \o s) => HasError(s)
  BY <1>2 DEF HasError
<1>9. HasError(s) => HasError(r \o s)
  BY <1>3 DEF HasError
<1> QED BY <1>1, <1>4, <1>5, <1>6, <1>7, <1>8, <1>9 DEF Answer

\* An answer of success, and one of failure, ends in its last message.
LEMMA SuccessAnswers ==
  ASSUME IInv, NEW m \in Message
  PROVE  Success(m) \in Seq(Message) /\ Answer(Success(m), m) /\ ~HasError(Success(m))
<1>1. m.of \in Nat
  BY DEF Message
<1>2. {"complete", "ready", "end", "ok"} \subseteq Type
  BY DEF Type
<1>3. \A y \in {"complete", "ready", "end", "ok"} :
        Reply(y, m.of) \in Message /\ Reply(y, m.of).type = y /\ Reply(y, m.of).of = m.of
  BY <1>1, <1>2, ReplyType
<1>4. dialect \in {"pg", "mysql"}
  BY SessionAssumption DEF IInv, CallType
<1>5. CASE dialect = "pg"
  <2>1. Success(m) = <<Reply("complete", m.of), Reply("ready", m.of)>>
    BY <1>5 DEF Success
  <2>2. Success(m) \in Seq(Message) /\ Len(Success(m)) = 2
        /\ Success(m)[1].type = "complete" /\ Success(m)[2].type = "ready"
        /\ Success(m)[1].of = m.of /\ Success(m)[2].of = m.of
    BY <1>3, <2>1
  <2>3. \A i \in 1 .. Len(Success(m)) : i = 1 \/ i = 2
    BY <2>2
  <2>4. Success(m) # <<>>
    BY <2>2, NotEmpty
  <2> QED BY <1>5, <2>2, <2>3, <2>4 DEF Answer, EndsIn, HasError
<1>6. CASE dialect = "mysql"
  <2>1. PICK y \in {"end", "ok"} :
          Success(m) = <<Reply(y, m.of)>> /\ y = IF m.type = "read" THEN "end" ELSE "ok"
    BY <1>6 DEF Success
  <2>2. Success(m) \in Seq(Message) /\ Len(Success(m)) = 1
        /\ Success(m)[1].type = y /\ Success(m)[1].of = m.of
    BY <1>3, <2>1
  <2>3. \A i \in 1 .. Len(Success(m)) : i = 1
    BY <2>2, OnlyIndex
  <2>4. Success(m) # <<>>
    BY <2>2, NotEmpty
  <2> QED BY <1>6, <2>1, <2>2, <2>3, <2>4 DEF Answer, EndsIn, HasError
<1> QED BY <1>4, <1>5, <1>6

LEMMA FailureAnswers ==
  ASSUME IInv, NEW m \in Message
  PROVE  Failure(m) \in Seq(Message) /\ Answer(Failure(m), m) /\ HasError(Failure(m))
<1>1. m.of \in Nat
  BY DEF Message
<1>2. {"error", "ready"} \subseteq Type
  BY DEF Type
<1>3. \A y \in {"error", "ready"} :
        Reply(y, m.of) \in Message /\ Reply(y, m.of).type = y /\ Reply(y, m.of).of = m.of
  BY <1>1, <1>2, ReplyType
<1>4. dialect \in {"pg", "mysql"}
  BY SessionAssumption DEF IInv, CallType
<1>5. CASE dialect = "pg"
  <2>1. Failure(m) = <<Reply("error", m.of)>> \o <<Reply("ready", m.of)>>
    BY <1>5 DEF Failure
  <2>2. Failure(m) \in Seq(Message) /\ Len(Failure(m)) = 2
        /\ Failure(m)[1].type = "error" /\ Failure(m)[2].type = "ready"
        /\ Failure(m)[1].of = m.of /\ Failure(m)[2].of = m.of
    BY <1>3, <2>1
  <2>3. \A i \in 1 .. Len(Failure(m)) : i = 1 \/ i = 2
    BY <2>2
  <2>4. Failure(m) # <<>> /\ 1 \in 1 .. Len(Failure(m))
    BY <2>2, NotEmpty
  <2> QED BY <1>5, <2>2, <2>3, <2>4 DEF Answer, EndsIn, HasError
<1>6. CASE dialect = "mysql"
  <2>1. Failure(m) = <<Reply("error", m.of)>> \o <<>>
    BY <1>6 DEF Failure
  <2>2. Failure(m) \in Seq(Message) /\ Len(Failure(m)) = 1
        /\ Failure(m)[1].type = "error" /\ Failure(m)[1].of = m.of
    BY <1>3, <2>1
  <2>3. \A i \in 1 .. Len(Failure(m)) : i = 1
    BY <2>2, OnlyIndex
  <2>4. Failure(m) # <<>> /\ 1 \in 1 .. Len(Failure(m))
    BY <2>2, NotEmpty
  <2> QED BY <1>6, <2>2, <2>3, <2>4 DEF Answer, EndsIn, HasError
<1> QED BY <1>4, <1>5, <1>6

\* The server executes a statement: its answer, and what becomes of the transaction.
LEMMA ServerExecutesFacts ==
  ASSUME IInv, toServer # <<>>, ServerExecutes
  PROVE  /\ toServer[1] \in Message /\ toServer[1].type \in Sql
         /\ \E t \in Seq(Message) :
              /\ Answers(t) /\ Answer(t, toServer[1])
              /\ \/ Takes(toServer[1]) /\ ~HasError(t)
                 \/ Refuses(toServer[1]) /\ HasError(t)
<1> DEFINE m == toServer[1]
<1>1. m \in Message /\ Head(toServer) = m /\ m.of \in Nat
  BY TailFacts DEF IInv, ToServerSound
<1>2. /\ m.type \in Sql
      /\ \E r \in IF m.type = "read" THEN Rows(m.of) ELSE {<<>>} :
           \/ Takes(m) /\ Answers(r \o Success(m))
           \/ Refuses(m) /\ Answers(r \o Failure(m))
  BY <1>1 DEF ServerExecutes
<1>3. PICK r \in IF m.type = "read" THEN Rows(m.of) ELSE {<<>>} :
           \/ Takes(m) /\ Answers(r \o Success(m))
           \/ Refuses(m) /\ Answers(r \o Failure(m))
  BY <1>2
<1>4. /\ r \in Seq(Message)
      /\ \A i \in 1 .. Len(r) : r[i].type = "row" /\ r[i].of = m.of
      /\ m.type # "read" => r = <<>>
  <2>1. CASE m.type = "read"
    BY <1>1, <1>3, <2>1, RowsFacts
  <2>2. CASE m.type # "read"
    BY <1>3, <2>2, NoRowsFacts
  <2> QED BY <2>1, <2>2
<1> HIDE DEF m
<1>5. CASE Takes(m) /\ Answers(r \o Success(m))
  <2>1. Success(m) \in Seq(Message) /\ Answer(Success(m), m) /\ ~HasError(Success(m))
    BY <1>1, SuccessAnswers
  <2>2. Answer(r \o Success(m), m) /\ ~HasError(r \o Success(m))
    BY <1>1, <1>4, <2>1, AnswerOf
  <2>3. r \o Success(m) \in Seq(Message)
    BY <2>2 DEF Answer
  <2> QED BY <1>1, <1>2, <1>5, <2>2, <2>3 DEF m
<1>6. CASE Refuses(m) /\ Answers(r \o Failure(m))
  <2>1. Failure(m) \in Seq(Message) /\ Answer(Failure(m), m) /\ HasError(Failure(m))
    BY <1>1, FailureAnswers
  <2>2. Answer(r \o Failure(m), m) /\ HasError(r \o Failure(m))
    BY <1>1, <1>4, <2>1, AnswerOf
  <2>3. r \o Failure(m) \in Seq(Message)
    BY <2>2 DEF Answer
  <2> QED BY <1>1, <1>2, <1>6, <2>2, <2>3 DEF m
<1> QED BY <1>3, <1>5, <1>6

\* The server prepares a statement: its answer.
LEMMA ServerPreparesFacts ==
  ASSUME IInv, toServer # <<>>, ServerPrepares
  PROVE  /\ toServer[1] \in Message /\ toServer[1].type = "prepare"
         /\ tx' = tx /\ pending' = pending /\ durable' = durable /\ refused' = refused
         /\ \E t \in Seq(Message) :
              /\ Answers(t) /\ t # <<>> /\ \A i \in 1 .. Len(t) : t[i].of = toServer[1].of
              /\ \/ Len(t) = 1 /\ t[1].type = "error" /\ sql \in {"read", "write"}
                 \/ Only(t, Reply("prepared", toServer[1].of)) /\ sql # "read"
                 \/ Len(t) = 3 /\ t[1].type = "prepared columns" /\ sql = "read"
<1> DEFINE m == toServer[1]
<1>1. m \in Message /\ Head(toServer) = m /\ m.of \in Nat
  BY TailFacts DEF IInv, ToServerSound
<1>2. {"error", "prepared", "prepared columns", "column", "end"} \subseteq Type
  BY DEF Type
<1>3. \A y \in {"error", "prepared", "prepared columns", "column", "end"} :
        Reply(y, m.of) \in Message /\ Reply(y, m.of).type = y /\ Reply(y, m.of).of = m.of
  BY <1>1, <1>2, ReplyType
<1>4. /\ m.type = "prepare"
      /\ tx' = tx /\ pending' = pending /\ durable' = durable /\ refused' = refused
  BY <1>1 DEF ServerPrepares
<1>5. \/ sql \in {"read", "write"} /\ Answers(<<Reply("error", m.of)>>)
      \/ sql # "read" /\ Answers(<<Reply("prepared", m.of)>>)
      \/ /\ sql = "read"
         /\ Answers([i \in 1 .. 3 |->
                       Reply(<<"prepared columns", "column", "end">>[i], m.of)])
  BY <1>1 DEF ServerPrepares
<1> HIDE DEF m
<1>6. CASE sql \in {"read", "write"} /\ Answers(<<Reply("error", m.of)>>)
  <2> DEFINE t == <<Reply("error", m.of)>>
  <2>0. t = <<Reply("error", m.of)>> /\ Answers(t)
    BY <1>6
  <2> HIDE DEF t
  <2>1. t \in Seq(Message) /\ Len(t) = 1 /\ t[1].type = "error" /\ t[1].of = m.of
    <3>1. Reply("error", m.of) \in Message /\ Reply("error", m.of).of = m.of
          /\ Reply("error", m.of).type = "error"
      BY <1>3
    <3> QED BY <2>0, <3>1, OneMessage
  <2>2. t # <<>> /\ \A i \in 1 .. Len(t) : t[i].of = m.of
    BY <2>1, OnlyIndex, EmptySeq
  <2> QED BY <1>1, <1>4, <1>6, <2>0, <2>1, <2>2 DEF m
<1>7. CASE sql # "read" /\ Answers(<<Reply("prepared", m.of)>>)
  <2> DEFINE t == <<Reply("prepared", m.of)>>
  <2>0. t = <<Reply("prepared", m.of)>> /\ Answers(t)
    BY <1>7
  <2> HIDE DEF t
  <2>1. t \in Seq(Message) /\ Len(t) = 1 /\ t[1] = Reply("prepared", m.of) /\ t[1].of = m.of
    <3>1. Reply("prepared", m.of) \in Message /\ Reply("prepared", m.of).of = m.of
          /\ Reply("prepared", m.of).type = "prepared"
      BY <1>3
    <3> QED BY <2>0, <3>1, OneMessage
  <2>2. t # <<>> /\ \A i \in 1 .. Len(t) : t[i].of = m.of
    BY <2>1, OnlyIndex, EmptySeq
  <2>3. Only(t, Reply("prepared", m.of))
    BY <2>1 DEF Only
  <2> QED BY <1>1, <1>4, <1>7, <2>0, <2>1, <2>2, <2>3 DEF m
<1>8. CASE /\ sql = "read"
           /\ Answers([i \in 1 .. 3 |->
                         Reply(<<"prepared columns", "column", "end">>[i], m.of)])
  <2> DEFINE t == [i \in 1 .. 3 |-> Reply(<<"prepared columns", "column", "end">>[i], m.of)]
  <2>1. /\ t[1] = Reply("prepared columns", m.of) /\ t[2] = Reply("column", m.of)
        /\ t[3] = Reply("end", m.of)
    <3> DEFINE names == <<"prepared columns", "column", "end">>
    <3>1. names[1] = "prepared columns" /\ names[2] = "column" /\ names[3] = "end"
      OBVIOUS
    <3>2. \A i \in 1 .. 3 : t[i] = Reply(names[i], m.of)
      OBVIOUS
    <3>3. 1 \in 1 .. 3 /\ 2 \in 1 .. 3 /\ 3 \in 1 .. 3
      OBVIOUS
    <3> HIDE DEF t, names
    <3> QED BY <3>1, <3>2, <3>3
  <2>2. \A i \in 1 .. 3 : t[i] \in Message /\ t[i].of = m.of
    <3>1. \A i \in 1 .. 3 : i = 1 \/ i = 2 \/ i = 3
      OBVIOUS
    <3> QED BY <1>3, <2>1, <3>1
  <2>3. t \in Seq(Message) /\ Len(t) = 3
    <3>1. t \in [1 .. 3 -> Message]
      BY <2>2
    <3>2. 3 \in Nat /\ DOMAIN t = 1 .. 3
      OBVIOUS
    <3> HIDE DEF t
    <3>3. t \in Seq(Message)
      BY <3>1, <3>2, SeqDef
    <3> QED BY <3>2, <3>3, LenProperties
  <2>4. t # <<>>
    <3> HIDE DEF t
    <3> QED BY <2>3, NotEmpty
  <2>5. t[1].type = "prepared columns"
    BY <1>3, <2>1
  <2>6. \A i \in 1 .. Len(t) : t[i].of = m.of
    BY <2>2, <2>3
  <2> HIDE DEF t
  <2>7. Answers(t)
    BY <1>8 DEF t
  <2> QED BY <1>1, <1>4, <1>8, <2>3, <2>4, <2>5, <2>6, <2>7 DEF m
<1> QED BY <1>5, <1>6, <1>7, <1>8

\* What serving the first message does, whichever it is.
Prepares(t) ==
  /\ toServer[1].type = "prepare" /\ t # <<>>
  /\ tx' = tx /\ pending' = pending /\ durable' = durable /\ refused' = refused
  /\ \/ Len(t) = 1 /\ t[1].type = "error" /\ sql \in {"read", "write"}
     \/ Only(t, Reply("prepared", toServer[1].of)) /\ sql # "read"
     \/ Len(t) = 3 /\ t[1].type = "prepared columns" /\ sql = "read"
Performs(t) ==
  /\ toServer[1].type \in Sql /\ Answer(t, toServer[1])
  /\ \/ Takes(toServer[1]) /\ ~HasError(t)
     \/ Refuses(toServer[1]) /\ HasError(t)

\* Either way one answer is given, to the message that was first.
LEMMA ServesFacts ==
  ASSUME IInv, Serves
  PROVE  \E t \in Seq(Message) :
           /\ Answers(t) /\ \A i \in 1 .. Len(t) : t[i].of = toServer[1].of
           /\ Prepares(t) \/ Performs(t)
<1>1. toServer # <<>>
  BY DEF Serves
<1>2. CASE ServerPrepares
  BY <1>1, <1>2, ServerPreparesFacts DEF Prepares
<1>3. CASE ServerExecutes
  <2>1. PICK t \in Seq(Message) :
          /\ Answers(t) /\ Answer(t, toServer[1])
          /\ \/ Takes(toServer[1]) /\ ~HasError(t)
             \/ Refuses(toServer[1]) /\ HasError(t)
    BY <1>1, <1>3, ServerExecutesFacts
  <2>2. toServer[1].type \in Sql
    BY <1>1, <1>3, ServerExecutesFacts
  <2>3. Performs(t) /\ \A i \in 1 .. Len(t) : t[i].of = toServer[1].of
    BY <2>1, <2>2 DEF Performs, Answer
  <2> QED BY <2>1, <2>3
<1> QED BY <1>2, <1>3 DEF Serves

\* How the server answers a message of connect(), or closes the connection.
Welcomes(t) ==
  /\ t \in Seq(Message) /\ \A i \in 1 .. Len(t) : t[i].of = 0
  /\ fromServer = <<>> /\ Len(toServer) = 1
  /\ \/ /\ lost' = TRUE /\ session' = session
        /\ Len(t) = 1 /\ t[1].type = "error" /\ (isConnected => stage = "preparing")
        /\ \A i \in 1 .. Len(t) : t[i].type = "error"
     \/ /\ lost' = FALSE /\ ~isConnected /\ toServer[1].type \notin Sql
        /\ \/ /\ stage = "authenticating" /\ dialect = "pg" /\ session' = "ready"
              /\ EndsIn(t, {"ready"})
              /\ \A i \in 1 .. Len(t) : t[i].type \in {"auth ok", "parameter", "ready"}
           \/ /\ stage = "authenticating" /\ dialect = "pg" /\ session' = "asked"
              /\ Len(t) = 1 /\ t[1].type \in {"auth sasl", "auth md5"}
           \/ /\ stage = "sasl" /\ dialect = "pg" /\ session' = "asked"
              /\ Only(t, Reply("sasl continue", 0))
           \/ /\ stage = "verifying" /\ dialect = "pg" /\ session' = "ready"
              /\ EndsIn(t, {"ready"}) /\ Len(t) > 1 /\ t[1].type = "sasl verified"
              /\ \A i \in 2 .. Len(t) : t[i].type \in {"auth ok", "parameter", "ready"}
           \/ /\ stage = "authenticating" /\ dialect = "mysql"
              /\ session' \in {"ready", "switch"} /\ Len(t) = 1 /\ t[1].type # "error"

\* An answer of one message.
LEMMA OneOf ==
  ASSUME NEW y \in Type
  PROVE  /\ <<Reply(y, 0)>> \in Seq(Message) /\ Len(<<Reply(y, 0)>>) = 1
         /\ <<Reply(y, 0)>>[1].type = y /\ Only(<<Reply(y, 0)>>, Reply(y, 0))
         /\ \A i \in 1 .. Len(<<Reply(y, 0)>>) :
              <<Reply(y, 0)>>[i].of = 0 /\ <<Reply(y, 0)>>[i].type = y
<1>1. Reply(y, 0) \in Message /\ Reply(y, 0).type = y /\ Reply(y, 0).of = 0
  BY ReplyType
<1>2. /\ <<Reply(y, 0)>> \in Seq(Message) /\ Len(<<Reply(y, 0)>>) = 1
      /\ <<Reply(y, 0)>>[1] = Reply(y, 0)
  BY <1>1, OneMessage
<1>3. \A i \in 1 .. Len(<<Reply(y, 0)>>) : i = 1
  BY <1>2, OnlyIndex
<1> QED BY <1>1, <1>2, <1>3 DEF Only

LEMMA OfThree ==
  ASSUME NEW a \in Message, NEW b \in Message, NEW c \in Message
  PROVE  /\ <<a, b, c>> \in Seq(Message) /\ Len(<<a, b, c>>) = 3
         /\ <<a, b, c>>[1] = a /\ <<a, b, c>>[2] = b /\ <<a, b, c>>[3] = c
OBVIOUS

LEMMA ThreeIndices ==
  ASSUME NEW s, Len(s) = 3
  PROVE  /\ \A i \in 1 .. Len(s) : i = 1 \/ i = 2 \/ i = 3
         /\ 1 # Len(s) /\ 2 # Len(s) /\ s # <<>>
<1>1. \A i \in 1 .. Len(s) : i = 1 \/ i = 2 \/ i = 3
  <2>1. \A i \in 1 .. 3 : i = 1 \/ i = 2 \/ i = 3
    OBVIOUS
  <2> QED BY <2>1
<1>2. Len(<<>>) = 0
  BY EmptySeq
<1> QED BY <1>1, <1>2

\* The messages that end connect(), without and with the proof of SCRAM.
LEMMA WelcomeFacts ==
  /\ Welcome \in Seq(Message) /\ Len(Welcome) = 3 /\ EndsIn(Welcome, {"ready"})
  /\ \A i \in 1 .. Len(Welcome) :
       Welcome[i].of = 0 /\ Welcome[i].type \in {"auth ok", "parameter", "ready"}
<1>1. "auth ok" \in Type /\ "parameter" \in Type /\ "ready" \in Type /\ 0 \in Nat
  BY DEF Type
<1>2. PICK a, b, c \in Message :
        /\ Welcome = <<a, b, c>> /\ a.of = 0 /\ b.of = 0 /\ c.of = 0
        /\ a.type = "auth ok" /\ b.type = "parameter" /\ c.type = "ready"
  <2>1. /\ Reply("auth ok", 0) \in Message
        /\ Reply("auth ok", 0).type = "auth ok" /\ Reply("auth ok", 0).of = 0
    BY <1>1, ReplyType
  <2>2. /\ Reply("parameter", 0) \in Message
        /\ Reply("parameter", 0).type = "parameter" /\ Reply("parameter", 0).of = 0
    BY <1>1, ReplyType
  <2>3. /\ Reply("ready", 0) \in Message
        /\ Reply("ready", 0).type = "ready" /\ Reply("ready", 0).of = 0
    BY <1>1, ReplyType
  <2> QED BY <2>1, <2>2, <2>3 DEF Welcome
<1>3. /\ Welcome \in Seq(Message) /\ Len(Welcome) = 3
      /\ Welcome[1] = a /\ Welcome[2] = b /\ Welcome[3] = c
  BY <1>2, OfThree
<1>4. /\ \A i \in 1 .. Len(Welcome) : i = 1 \/ i = 2 \/ i = 3
      /\ 1 # Len(Welcome) /\ 2 # Len(Welcome) /\ Welcome # <<>>
  BY <1>3, ThreeIndices
<1>5. /\ Welcome[1].type = "auth ok" /\ Welcome[2].type = "parameter" /\ Welcome[3].type = "ready"
      /\ Welcome[1].of = 0 /\ Welcome[2].of = 0 /\ Welcome[3].of = 0
  BY <1>2, <1>3
<1> HIDE <1>1, <1>2
<1>6. \A i \in 1 .. Len(Welcome) : Welcome[i].type \in {"ready"} <=> i = Len(Welcome)
  <2> TAKE i \in 1 .. Len(Welcome)
  <2>1. CASE i = 1
    BY <1>4, <1>5, <2>1
  <2>2. CASE i = 2
    BY <1>4, <1>5, <2>2
  <2>3. CASE i = 3
    BY <1>3, <1>5, <2>3
  <2> QED BY <1>4, <2>1, <2>2, <2>3
<1>7. \A i \in 1 .. Len(Welcome) :
        Welcome[i].of = 0 /\ Welcome[i].type \in {"auth ok", "parameter", "ready"}
  BY <1>4, <1>5
<1>8. EndsIn(Welcome, {"ready"})
  BY <1>4, <1>6 DEF EndsIn
<1> QED BY <1>3, <1>7, <1>8

\* One message before a sequence of three.
LEMMA OneAndThree ==
  ASSUME NEW r \in Seq(Message), NEW s \in Seq(Message), Len(r) = 1, Len(s) = 3
  PROVE  /\ r \o s \in Seq(Message) /\ Len(r \o s) = 4 /\ (r \o s)[1] = r[1]
         /\ \A i \in 2 .. Len(r \o s) : i - 1 \in 1 .. Len(s) /\ (r \o s)[i] = s[i - 1]
         /\ \A i \in 1 .. Len(r \o s) : i = 1 \/ i \in 2 .. Len(r \o s)
<1>1. /\ Len(r \o s) = 4 /\ r \o s \in Seq(Message)
      /\ \A i \in 1 .. 4 : (r \o s)[i] = IF i <= 1 THEN r[i] ELSE s[i - 1]
  <2>1. /\ Len(r \o s) = Len(r) + Len(s) /\ r \o s \in Seq(Message)
        /\ \A i \in 1 .. Len(r) + Len(s) :
             (r \o s)[i] = IF i <= Len(r) THEN r[i] ELSE s[i - Len(r)]
    BY ConcatProperties
  <2>2. Len(r) + Len(s) = 4
    OBVIOUS
  <2> QED BY <2>1, <2>2
<1>2. \A i \in 2 .. 4 : i \in 1 .. 4 /\ ~(i <= 1) /\ i - 1 \in 1 .. 3
  OBVIOUS
<1>3. 1 \in 1 .. 4 /\ 1 <= 1
  OBVIOUS
<1>4. \A i \in 1 .. 4 : i = 1 \/ i \in 2 .. 4
  OBVIOUS
<1> QED BY <1>1, <1>2, <1>3, <1>4

LEMMA VerifiedFacts ==
  LET t == <<Reply("sasl verified", 0)>> \o Welcome IN
  /\ t \in Seq(Message) /\ \A i \in 1 .. Len(t) : t[i].of = 0
  /\ EndsIn(t, {"ready"}) /\ Len(t) > 1 /\ t[1].type = "sasl verified"
  /\ \A i \in 2 .. Len(t) : t[i].type \in {"auth ok", "parameter", "ready"}
<1>1. PICK r \in Seq(Message) :
        /\ r = <<Reply("sasl verified", 0)>> /\ Len(r) = 1
        /\ r[1].type = "sasl verified" /\ r[1].of = 0
        /\ \A i \in 1 .. Len(r) : r[i].type = "sasl verified"
  <2>1. "sasl verified" \in Type
    BY DEF Type
  <2>2. 1 \in 1 .. 1
    OBVIOUS
  <2> QED BY <2>1, <2>2, OneOf
<1>2. /\ Welcome \in Seq(Message) /\ Len(Welcome) = 3 /\ EndsIn(Welcome, {"ready"})
      /\ \A i \in 1 .. Len(Welcome) :
           Welcome[i].of = 0 /\ Welcome[i].type \in {"auth ok", "parameter", "ready"}
  BY WelcomeFacts
<1> DEFINE t == r \o Welcome
<1>3. /\ t \in Seq(Message) /\ Len(t) = 4 /\ t[1] = r[1]
      /\ \A i \in 2 .. Len(t) : i - 1 \in 1 .. Len(Welcome) /\ t[i] = Welcome[i - 1]
      /\ \A i \in 1 .. Len(t) : i = 1 \/ i \in 2 .. Len(t)
  BY <1>1, <1>2, OneAndThree
<1>4. EndsIn(t, {"ready"})
  <2>1. \A i \in 1 .. Len(r) : r[i].type \notin {"ready"}
    BY <1>1
  <2> QED BY <1>2, <2>1, EndsInConcat
<1> HIDE DEF t
<1>5. \A i \in 2 .. Len(t) :
        t[i].of = 0 /\ t[i].type \in {"auth ok", "parameter", "ready"}
  BY <1>2, <1>3
<1>6. \A i \in 1 .. Len(t) : t[i].of = 0
  BY <1>1, <1>3, <1>5
<1>7. Len(t) > 1
  <2>1. 4 > 1
    OBVIOUS
  <2> QED BY <1>3, <2>1
<1>8. /\ t \in Seq(Message) /\ (\A i \in 1 .. Len(t) : t[i].of = 0)
      /\ EndsIn(t, {"ready"}) /\ Len(t) > 1 /\ t[1].type = "sasl verified"
      /\ \A i \in 2 .. Len(t) : t[i].type \in {"auth ok", "parameter", "ready"}
  BY <1>1, <1>3, <1>4, <1>5, <1>6, <1>7
<1> QED BY <1>1, <1>8 DEF t

\* What the server answers is what the stage of connect() reads next.
LEMMA AuthenticatesFacts ==
  ASSUME IInv, ServerAuthenticates, toServer[1] = Head(toServer)
  PROVE  \E t : Answers(t) /\ Welcomes(t)
<1>1. /\ toServer # <<>> /\ session # "ready" /\ ~lost
  BY DEF ServerAuthenticates
<1>0. lost = FALSE
  BY <1>1, Zenon DEF IInv, CallType
<1>2. {"auth sasl", "auth md5", "sasl continue", "ok", "auth switch", "error"} \subseteq Type
  BY DEF Type
<1>3. dialect \in {"pg", "mysql"}
  BY SessionAssumption DEF IInv, CallType
<1>4. \/ isConnected /\ stage = "preparing" /\ Only(toServer, Reply("prepare", count)) /\ fromServer = <<>>
      \/ /\ ~isConnected /\ stage = "authenticating" /\ dialect = "pg" /\ fromServer = <<>>
         /\ Only(toServer, Reply("startup", 0)) /\ session \in {"new", "asked"}
      \/ /\ ~isConnected /\ stage = "sasl" /\ dialect = "pg" /\ fromServer = <<>>
         /\ Only(toServer, Reply("sasl initial", 0)) /\ session = "asked"
      \/ /\ ~isConnected /\ stage = "verifying" /\ dialect = "pg" /\ fromServer = <<>>
         /\ Only(toServer, Reply("sasl final", 0)) /\ session = "asked"
      \/ /\ ~isConnected /\ stage = "authenticating" /\ dialect = "mysql" /\ fromServer = <<>>
         /\ Only(toServer, Reply("login", 0)) /\ session = "greeted"
  <2>1. CASE isConnected
    <3>1. behind = 0 /\ stage \notin {"defining", "reading", "yielded", "callback"}
      BY <1>1 DEF IInv, SessionSound
    <3>2. stage = "preparing"
      BY <1>1, <2>1, <3>1 DEF IInv, InStep, CallType, Stage, StageSound, Quiet
    <3> QED BY <1>1, <2>1, <3>1, <3>2 DEF IInv, InStep, Owed
  <2>2. CASE ~isConnected
    <3>1. /\ ConnectSound
          /\ stage \in {"idle", "opening", "greeting", "authenticating", "sasl", "verifying"}
          /\ stage \in {"sasl", "verifying"} => dialect = "pg"
      BY <2>2 DEF IInv, CallType, Stage, StageSound
    <3> QED BY <1>1, <1>3, <2>2, <3>1 DEF ConnectSound, Quiet
  <2> QED BY <2>1, <2>2
<1>5. Len(toServer) = 1 /\ fromServer = <<>>
  BY <1>4, OnlyType
<1>6. \/ isConnected /\ stage = "preparing" /\ toServer[1].type = "prepare"
      \/ /\ ~isConnected /\ stage = "authenticating" /\ dialect = "pg"
         /\ toServer[1].type = "startup" /\ session \in {"new", "asked"}
      \/ /\ ~isConnected /\ stage = "sasl" /\ dialect = "pg"
         /\ toServer[1].type = "sasl initial" /\ session = "asked"
      \/ /\ ~isConnected /\ stage = "verifying" /\ dialect = "pg"
         /\ toServer[1].type = "sasl final" /\ session = "asked"
      \/ /\ ~isConnected /\ stage = "authenticating" /\ dialect = "mysql"
         /\ toServer[1].type = "login" /\ session = "greeted"
  BY <1>4, OnlyType
<1>7. \A y \in {"startup", "sasl initial", "sasl final", "login", "prepare"} : y \notin Sql
  BY DEF Sql
<1>8. ASSUME NEW y \in Type, Answers(<<Reply(y, 0)>>), lost' = FALSE,
             toServer[1].type \notin Sql, ~isConnected,
             \/ /\ stage = "authenticating" /\ dialect = "pg" /\ session' = "asked"
                /\ y \in {"auth sasl", "auth md5"}
             \/ /\ stage = "sasl" /\ dialect = "pg" /\ session' = "asked" /\ y = "sasl continue"
             \/ /\ stage = "authenticating" /\ dialect = "mysql"
                /\ session' \in {"ready", "switch"} /\ y # "error"
      PROVE  \E t : Answers(t) /\ Welcomes(t)
  <2>1. PICK t \in Seq(Message) :
          /\ Answers(t) /\ Len(t) = 1 /\ t[1].type = y /\ Only(t, Reply(y, 0))
          /\ \A i \in 1 .. Len(t) : t[i].of = 0 /\ t[i].type = y
    BY <1>8, OneOf
  <2>2. \A i \in 1 .. Len(t) : t[i].of = 0
    BY <2>1
  <2>3. CASE stage = "sasl"
    <3>1. /\ Only(t, Reply("sasl continue", 0)) /\ dialect = "pg" /\ session' = "asked"
      BY <1>8, <2>1, <2>3
    <3> QED BY <1>5, <1>8, <2>1, <2>2, <2>3, <3>1 DEF Welcomes
  <2>4. CASE stage # "sasl"
    <3>1. /\ Len(t) = 1 /\ stage = "authenticating"
          /\ \/ /\ dialect = "pg" /\ session' = "asked" /\ t[1].type \in {"auth sasl", "auth md5"}
             \/ /\ dialect = "mysql" /\ session' \in {"ready", "switch"} /\ t[1].type # "error"
      BY <1>8, <2>1, <2>4
    <3> QED BY <1>5, <1>8, <2>1, <2>2, <3>1 DEF Welcomes
  <2> QED BY <2>3, <2>4
<1>9. CASE toServer[1].type = "startup" /\ session = "new" /\ session' = "ready" /\ lost' = lost
           /\ Answers(Welcome)
  <2>1. PICK t \in Seq(Message) :
          /\ Answers(t) /\ EndsIn(t, {"ready"})
          /\ \A i \in 1 .. Len(t) :
               t[i].of = 0 /\ t[i].type \in {"auth ok", "parameter", "ready"}
    BY <1>9, WelcomeFacts
  <2>2. /\ \A i \in 1 .. Len(t) : t[i].of = 0
        /\ \A i \in 1 .. Len(t) : t[i].type \in {"auth ok", "parameter", "ready"}
    BY <2>1
  <2>3. /\ lost' = FALSE /\ ~isConnected /\ toServer[1].type \notin Sql
        /\ stage = "authenticating" /\ dialect = "pg"
    BY <1>0, <1>6, <1>7, <1>9
  <2> QED BY <1>5, <1>9, <2>1, <2>2, <2>3 DEF Welcomes
<1>10. CASE toServer[1].type = "sasl final" /\ session' = "ready" /\ lost' = lost
            /\ session # "new" /\ Answers(<<Reply("sasl verified", 0)>> \o Welcome)
  <2>1. PICK t \in Seq(Message) :
          /\ Answers(t) /\ (\A i \in 1 .. Len(t) : t[i].of = 0)
          /\ EndsIn(t, {"ready"}) /\ Len(t) > 1 /\ t[1].type = "sasl verified"
          /\ \A i \in 2 .. Len(t) : t[i].type \in {"auth ok", "parameter", "ready"}
    BY <1>10, VerifiedFacts
  <2>2. /\ lost' = FALSE /\ ~isConnected /\ toServer[1].type \notin Sql
        /\ stage = "verifying" /\ dialect = "pg"
    BY <1>0, <1>6, <1>7, <1>10
  <2> QED BY <1>5, <1>10, <2>1, <2>2 DEF Welcomes
<1>11. CASE /\ toServer[1].type = "startup" /\ session = "new" /\ session' = "asked" /\ lost' = lost
            /\ \E m \in {"auth sasl", "auth md5"} : Answers(<<Reply(m, 0)>>)
  <2>1. PICK m \in {"auth sasl", "auth md5"} : Answers(<<Reply(m, 0)>>)
    BY <1>11
  <2>2. m \in Type
    BY <1>2
  <2>3. /\ lost' = FALSE /\ ~isConnected /\ toServer[1].type \notin Sql
        /\ stage = "authenticating" /\ dialect = "pg" /\ session' = "asked"
    BY <1>0, <1>6, <1>7, <1>11
  <2> QED BY <1>8, <2>1, <2>2, <2>3
<1>12. CASE toServer[1].type = "sasl initial" /\ session' = session /\ lost' = lost
            /\ Answers(<<Reply("sasl continue", 0)>>)
  <2>1. /\ lost' = FALSE /\ ~isConnected /\ toServer[1].type \notin Sql
        /\ stage = "sasl" /\ dialect = "pg" /\ session' = "asked"
    BY <1>0, <1>6, <1>7, <1>12
  <2> QED BY <1>2, <1>8, <1>12, <2>1
<1>13. CASE /\ toServer[1].type = "login" /\ lost' = lost
            /\ \/ session' = "ready" /\ Answers(<<Reply("ok", 0)>>)
               \/ session' = "switch" /\ Answers(<<Reply("auth switch", 0)>>)
  <2>1. /\ lost' = FALSE /\ ~isConnected /\ toServer[1].type \notin Sql
        /\ stage = "authenticating" /\ dialect = "mysql"
    BY <1>0, <1>6, <1>7, <1>13
  <2>2. PICK y \in {"ok", "auth switch"} :
          Answers(<<Reply(y, 0)>>) /\ session' \in {"ready", "switch"}
    BY <1>13
  <2>3. y \in Type /\ y # "error"
    BY <1>2
  <2> QED BY <1>8, <2>1, <2>2, <2>3
<1>14. CASE lost' = TRUE /\ Answers(<<Reply("error", 0)>>) /\ session' = session
  <2>1. PICK t \in Seq(Message) :
          /\ Answers(t) /\ Len(t) = 1 /\ t[1].type = "error"
          /\ \A i \in 1 .. Len(t) : t[i].of = 0 /\ t[i].type = "error"
    BY <1>2, <1>14, OneOf
  <2>2. /\ \A i \in 1 .. Len(t) : t[i].of = 0
        /\ \A i \in 1 .. Len(t) : t[i].type = "error"
    BY <2>1
  <2>3. isConnected => stage = "preparing"
    BY <1>6
  <2> QED BY <1>5, <1>14, <2>1, <2>2, <2>3 DEF Welcomes
<1>15. toServer[1].type = "sasl final" => session # "new"
  BY <1>6
<1>16. ServerAuthenticates =>
         \/ /\ toServer[1].type = "startup" /\ session = "new" /\ session' = "ready" /\ lost' = lost
            /\ Answers(Welcome)
         \/ /\ toServer[1].type = "sasl final" /\ session' = "ready" /\ lost' = lost
            /\ session # "new" /\ Answers(<<Reply("sasl verified", 0)>> \o Welcome)
         \/ /\ toServer[1].type = "startup" /\ session = "new" /\ session' = "asked" /\ lost' = lost
            /\ \E m \in {"auth sasl", "auth md5"} : Answers(<<Reply(m, 0)>>)
         \/ /\ toServer[1].type = "sasl initial" /\ session' = session /\ lost' = lost
            /\ Answers(<<Reply("sasl continue", 0)>>)
         \/ /\ toServer[1].type = "login" /\ lost' = lost
            /\ \/ session' = "ready" /\ Answers(<<Reply("ok", 0)>>)
               \/ session' = "switch" /\ Answers(<<Reply("auth switch", 0)>>)
         \/ lost' = TRUE /\ Answers(<<Reply("error", 0)>>) /\ session' = session
  BY <1>15 DEF ServerAuthenticates
<1> QED BY <1>9, <1>10, <1>11, <1>12, <1>13, <1>14, <1>16

-----------------------------------------------------------------------------
(* Every step. *)

\* A call begins only on a connection whose last call has ended.
LEMMA ExecuteIInv ==
  ASSUME IInv, NEW c \in {"execute", "stream"}, NEW s \in {"read", "write"}, Execute(c, s)
  PROVE  IInv'
<1> USE DEF vars, conn, wire, server, outcome, statement
<1>n. /\ count \in Nat /\ MaxStatements \in Nat /\ count <= MaxStatements
      /\ behind \in Nat /\ count + 1 \notin pending \cup durable \cup refused \cup body
      /\ \A i \in 1 .. Len(toServer) : toServer[i].of \in Nat
      /\ \A i \in 1 .. Len(fromServer) : fromServer[i].of \in Nat
  BY Numbers
<1>c. count' \in {count, count + 1}
  BY DEF Execute, Issue
<1>1. ToServerSound'
  <2>1. toServer' = toServer /\ UsedBefore
    BY DEF UsedBefore, Execute, Issue
  <2> QED BY <1>c, <2>1, ToServerStays
<1>2. FromServerSound'
  <2>1. fromServer' = fromServer
    BY DEF Execute, Issue
  <2> QED BY <1>c, <2>1, FromServerStays
<1>3. KnownSound'
  BY <1>n, <1>c DEF IInv, Execute, Issue, KnownSound
<1>4. CallType'
  <2>1. dialect' \in Dialects /\ use' \in Uses /\ open' \in BOOLEAN /\ isConnected' \in BOOLEAN /\ lost' \in BOOLEAN
    BY DEF IInv, CallType, Execute, Issue
  <2>2. stage' \in Stage
    BY DEF IInv, CallType, Stage, Execute, Issue
  <2>3. columns' \in BOOLEAN
    BY DEF IInv, CallType, Execute, Issue
  <2>4. /\ call' \in {"execute", "stream"} /\ sql' \in Sql
        /\ purpose' \in {"single", "begin", "body", "commit", "rollback"}
    BY DEF IInv, CallType, Sql, Execute, Issue
  <2>5. course' \in {"in step", "behind", "caught", "nested"} /\ told' \in {"none", "ok", "error"}
        /\ nested' \in Nat
    BY DEF IInv, CallType, Execute, Issue
  <2> QED BY <2>1, <2>2, <2>3, <2>4, <2>5 DEF CallType
<1>5. NumberType'
  <2>1. count' \in 0 .. MaxStatements /\ behind' \in Nat
    BY <1>n, <1>c DEF Execute, Issue
  <2>2. seen' \subseteq 0 .. count'
    BY <1>n, <1>c DEF IInv, NumberType, Execute, Issue
  <2>3. (pending \cup durable \cup refused \cup body \subseteq 1 .. MaxStatements)'
    BY <1>n, <1>c DEF IInv, NumberType, Execute, Issue
  <2> QED BY <2>1, <2>2, <2>3 DEF NumberType
<1>6. ServerType'
  BY DEF IInv, Execute, Issue, ServerType, CallType
<1>7. StageSound'
  BY DEF IInv, Execute, Issue, StageSound, CallSound
<1>8. CallSound'
  BY DEF IInv, Execute, Issue, CallSound, StageSound
<1>9. BodyCounted'
  <2>1. count + 1 \notin body /\ count + 1 > 0
    BY <1>n
  <2>2. count' = count + 1 /\ purpose' = "single" /\ body' = body
    BY DEF Execute, Issue
  <2> QED BY <2>1, <2>2 DEF BodyCounted
<1>10. SessionSound'
  BY <1>n, <1>c DEF IInv, Execute, Issue, SessionSound, StageSound, ConnectSound, Only,
     EndsIn
<1>11. ConnectSound'
  BY <1>n, <1>c DEF IInv, Execute, Issue, ConnectSound, StageSound, CallSound,
     CallType, Only, EndsIn, Quiet
<1>12. UnreadCounted'
  <2>1. Unread' = Unread
    BY DEF Unread, Execute, Issue
  <2> QED BY <2>1, <1>n, <1>c DEF IInv, Execute, Issue, UnreadCounted, StageSound,
             ConnectSound, EndsIn, Quiet
<1>13. InStep'
  BY <1>n, <1>c DEF IInv, Execute, Issue, InStep, Owed, Own, Only, EndsIn, LastOf,
     Quiet, ConnectSound, StageSound, CallType
<1>14. OwnSeen'
  BY <1>n, <1>c DEF IInv, Execute, Issue, OwnSeen, InStep, Own, EndsIn, ConnectSound,
     Only, StageSound
<1>15. BodySound'
  BY <1>n, <1>c DEF IInv, Execute, Issue, BodySound, UnderWay, Executed, Failed,
     NoneRefused, InStep, Owed, Only, EndsIn, LastOf, Quiet, StageSound, CallSound,
     BodyCounted
<1>16. GaveUpSound'
  BY <1>n, <1>c DEF IInv, Execute, Issue, GaveUpSound, GaveUp, RollbackFirst,
     BodySound, UnderWay, Executed, Failed, NoneRefused, InStep, Owed, Only, EndsIn,
     LastOf, Quiet, StageSound, CallSound, BodyCounted
<1>17. CommitSound'
  BY <1>n, <1>c DEF IInv, Execute, Issue, CommitSound, NoneRefused, BodySound,
     UnderWay, Executed, Failed, InStep, Owed, EndsIn, LastOf, Only, CallSound
<1> QED BY <1>1, <1>2, <1>3, <1>4, <1>5, <1>6, <1>7, <1>8, <1>9, <1>10, <1>11, <1>12,
           <1>13, <1>14, <1>15, <1>16, <1>17 DEF IInv

\* BEGIN is sent with no other statement of the transaction known to the server.
LEMMA TransactionIInv ==
  ASSUME IInv, Transaction
  PROVE  IInv'
<1> USE DEF vars, conn, wire, server, outcome, statement
<1>n. /\ count \in Nat /\ MaxStatements \in Nat /\ count <= MaxStatements
      /\ behind \in Nat /\ count + 1 \notin pending \cup durable \cup refused \cup body
      /\ \A i \in 1 .. Len(toServer) : toServer[i].of \in Nat
      /\ \A i \in 1 .. Len(fromServer) : fromServer[i].of \in Nat
  BY Numbers
<1>k. /\ pending' = pending /\ durable' = durable /\ refused' = refused /\ body' = {}
      /\ count' = count + 1 /\ behind' = behind /\ purpose' = "begin" /\ seen' = {}
      /\ count < MaxStatements
  BY DEF Transaction, Issue
<1>c. count' \in {count, count + 1}
  BY DEF Transaction, Issue
<1>1. ToServerSound'
  <2>1. toServer' = toServer /\ UsedBefore
    BY DEF UsedBefore, Transaction, Issue
  <2> QED BY <1>c, <2>1, ToServerStays
<1>2. FromServerSound'
  <2>1. fromServer' = fromServer
    BY DEF Transaction, Issue
  <2> QED BY <1>c, <2>1, FromServerStays
<1>3. KnownSound'
  BY <1>n, <1>k DEF IInv, KnownSound
<1>4. CallType'
  <2>1. dialect' \in Dialects /\ use' \in Uses /\ open' \in BOOLEAN /\ isConnected' \in BOOLEAN /\ lost' \in BOOLEAN
    BY DEF IInv, CallType, Transaction, Issue
  <2>2. stage' \in Stage
    BY DEF IInv, CallType, Stage, Transaction, Issue
  <2>3. columns' \in BOOLEAN
    BY DEF IInv, CallType, Transaction, Issue
  <2>4. /\ call' \in {"execute", "stream"} /\ sql' \in Sql
        /\ purpose' \in {"single", "begin", "body", "commit", "rollback"}
    BY DEF IInv, CallType, Sql, Transaction, Issue
  <2>5. course' \in {"in step", "behind", "caught", "nested"} /\ told' \in {"none", "ok", "error"}
        /\ nested' \in Nat
    BY DEF IInv, CallType, Transaction, Issue
  <2> QED BY <2>1, <2>2, <2>3, <2>4, <2>5 DEF CallType
<1>5. NumberType'
  <2>1. count' \in 0 .. MaxStatements /\ behind' \in Nat /\ seen' \subseteq 0 .. count'
    BY <1>n, <1>k
  <2>2. (pending \cup durable \cup refused \cup body \subseteq 1 .. MaxStatements)'
    BY <1>k DEF IInv, NumberType
  <2> QED BY <2>1, <2>2 DEF NumberType
<1>6. ServerType'
  BY DEF IInv, Transaction, Issue, ServerType, CallType
<1>7. StageSound'
  BY DEF IInv, Transaction, Issue, StageSound, CallSound
<1>8. CallSound'
  BY DEF IInv, Transaction, Issue, CallSound, StageSound
<1>9. BodyCounted'
  BY <1>n, <1>k DEF BodyCounted
<1>10. SessionSound'
  BY <1>n, <1>k, <1>c DEF IInv, Transaction, Issue, SessionSound, StageSound,
     ConnectSound, Only, EndsIn
<1>11. ConnectSound'
  BY <1>n, <1>k, <1>c DEF IInv, Transaction, Issue, ConnectSound, StageSound,
     CallSound, CallType, Only, EndsIn, Quiet
<1>12. UnreadCounted'
  <2>1. Unread' = Unread
    BY DEF Unread, Transaction, Issue
  <2> QED BY <2>1, <1>n, <1>k, <1>c DEF IInv, Transaction, Issue, UnreadCounted,
             StageSound, ConnectSound, EndsIn, Quiet
<1>13. InStep'
  BY <1>n, <1>k, <1>c DEF IInv, Transaction, Issue, InStep, Owed, Own, Only, EndsIn,
     LastOf, Quiet, ConnectSound, StageSound, CallType
<1>14. OwnSeen'
  BY <1>n, <1>k, <1>c DEF IInv, Transaction, Issue, OwnSeen, InStep, Own, EndsIn,
     ConnectSound, Only, StageSound
<1>15. BodySound'
  BY <1>n, <1>k, <1>c DEF IInv, Transaction, Issue, BodySound, UnderWay, Executed,
     Failed, NoneRefused, InStep, Owed, Only, EndsIn, LastOf, Quiet, StageSound,
     CallSound, BodyCounted
<1>16. GaveUpSound'
  BY <1>n, <1>k, <1>c DEF IInv, Transaction, Issue, GaveUpSound, GaveUp, RollbackFirst,
     BodySound, UnderWay, Executed, Failed, NoneRefused, InStep, Owed, Only, EndsIn,
     LastOf, Quiet, StageSound, CallSound, BodyCounted
<1>17. CommitSound'
  BY <1>n, <1>k, <1>c DEF IInv, Transaction, Issue, CommitSound, NoneRefused,
     BodySound, UnderWay, Executed, Failed, InStep, Owed, EndsIn, LastOf, Only, CallSound
<1> QED BY <1>1, <1>2, <1>3, <1>4, <1>5, <1>6, <1>7, <1>8, <1>9, <1>10, <1>11, <1>12,
           <1>13, <1>14, <1>15, <1>16, <1>17 DEF IInv

\* The statements of a transaction follow one another; COMMIT is the last.
LEMMA CallbackIInv ==
  ASSUME IInv, Callback
  PROVE  IInv'
<1> USE DEF vars, conn, wire, server, outcome, statement
<1>n. /\ count \in Nat /\ MaxStatements \in Nat /\ count <= MaxStatements
      /\ behind \in Nat /\ count + 1 \notin pending \cup durable \cup refused \cup body
      /\ \A i \in 1 .. Len(toServer) : toServer[i].of \in Nat
      /\ \A i \in 1 .. Len(fromServer) : fromServer[i].of \in Nat
  BY Numbers
<1>f. /\ Chosen /\ stage = "callback" /\ isConnected /\ open /\ stage' = "writing"
      /\ purpose # "single" /\ told = "none" /\ told' = told
      /\ count < MaxStatements /\ count' = count + 1 /\ seen' = {} /\ columns' = FALSE
      /\ UNCHANGED <<conn, wire, statementCache, behind, server>>
  <2>1. stage = "callback" /\ isConnected /\ open /\ purpose # "single" /\ told = "none"
    BY DEF Callback, IInv, CallSound, StageSound
  <2> QED BY <2>1, CallbackChooses DEF Callback, Issue
<1>k. /\ pending' = pending /\ durable' = durable /\ refused' = refused
      /\ lost' = lost /\ dialect' = dialect /\ behind' = behind /\ toServer' = toServer
      /\ purpose' \in {"begin", "body", "commit", "rollback"}
      /\ body' = body \cup {count + 1} <=> purpose' \in {"body", "commit"}
      /\ body' \subseteq body \cup {count + 1}
      /\ body' = body \/ purpose' \in {"body", "commit"}
      /\ course' = course \/ (course' = "nested" /\ purpose' = "begin")
  <2>1. count + 1 \notin body
    BY <1>n
  <2> QED BY <1>f, <2>1 DEF Chosen
<1>c. count' \in {count, count + 1}
  BY DEF Callback, Issue
<1>1. ToServerSound'
  <2>1. toServer' = toServer /\ UsedBefore
    BY DEF UsedBefore, Callback, Issue
  <2> QED BY <1>c, <2>1, ToServerStays
<1>2. FromServerSound'
  <2>1. fromServer' = fromServer
    BY DEF Callback, Issue
  <2> QED BY <1>c, <2>1, FromServerStays
<1>3. KnownSound'
  BY <1>n, <1>f, <1>k DEF IInv, KnownSound
<1>4. CallType'
  <2>1. /\ dialect' \in Dialects /\ use' \in Uses /\ open' \in BOOLEAN
        /\ isConnected' \in BOOLEAN /\ lost' \in BOOLEAN
    BY <1>f DEF IInv, CallType
  <2>2. stage' \in Stage /\ columns' \in BOOLEAN
    BY <1>f DEF Stage
  <2>3. course \in {"in step", "behind", "caught", "nested"} /\ told \in {"none", "ok", "error"}
        /\ nested \in Nat
    BY DEF IInv, CallType
  <2>4. /\ call' \in {"execute", "stream"} /\ sql' \in Sql
        /\ purpose' \in {"single", "begin", "body", "commit", "rollback"}
        /\ course' \in {"in step", "behind", "caught", "nested"}
        /\ nested' \in Nat
    BY <1>f, <2>3 DEF Chosen, Sql
  <2>5. told' \in {"none", "ok", "error"}
    BY <1>f, <2>3
  <2> QED BY <2>1, <2>2, <2>4, <2>5 DEF CallType
<1>5. NumberType'
  <2>1. count' \in 0 .. MaxStatements /\ behind' \in Nat
    BY <1>n, <1>c DEF Callback, Issue
  <2>2. seen' \subseteq 0 .. count'
    BY <1>n, <1>c DEF IInv, NumberType, Callback, Issue
  <2>3. (pending \cup durable \cup refused \cup body \subseteq 1 .. MaxStatements)'
    BY <1>n, <1>c DEF IInv, NumberType, Callback, Issue
  <2> QED BY <2>1, <2>2, <2>3 DEF NumberType
<1>6. ServerType'
  BY DEF IInv, Callback, Issue, ServerType, CallType
<1>7. StageSound'
  BY <1>n, <1>f, <1>k DEF IInv, StageSound
<1>8. CallSound'
  <2>1. CallSound
    BY DEF IInv
  <2>2. course' = "in step" => course = "in step" /\ nested' = nested
    BY <1>f DEF Chosen
  <2>3. nested' # 0 => course' # "in step"
    BY <1>f, <2>1 DEF Chosen, CallSound
  <2> QED BY <1>f, <2>3 DEF Chosen, CallSound
<1>9. BodyCounted'
  <2>1. count + 1 > 0 /\ count + 1 \notin body
    BY <1>n
  <2>2. purpose' = "begin" => course' = "nested"
    BY <1>f DEF Chosen
  <2>3. count' > 0 /\ stage' # "idle"
    BY <1>f, <2>1
  <2>4. count' \in body' <=> purpose' \in {"body", "commit"}
    BY <1>f, <1>k, <2>1
  <2> QED BY <2>2, <2>3, <2>4 DEF BodyCounted
<1>10. SessionSound'
  BY <1>n, <1>f, <1>k, <1>c DEF IInv, Callback, Issue, SessionSound, StageSound,
     ConnectSound, Only, EndsIn
<1>11. ConnectSound'
  BY <1>f DEF ConnectSound
<1>12. UnreadCounted'
  <2>1. Unread' = Unread
    BY DEF Unread, Callback, Issue
  <2> QED BY <2>1, <1>n, <1>f, <1>k, <1>c DEF IInv, Callback, Issue, UnreadCounted,
             StageSound, ConnectSound, EndsIn, Quiet
<1>13. InStep'
  <2>1. InStep
    BY DEF IInv
  <2>2. /\ stage = "callback" /\ stage' = "writing" /\ isConnected' = isConnected
        /\ behind' = behind /\ lost' = lost /\ statementCache' = statementCache
        /\ toServer' = toServer /\ fromServer' = fromServer
    BY <1>f
  <2> QED BY <2>1, <2>2 DEF InStep, Quiet
<1>14. OwnSeen'
  BY <1>n, <1>f, <1>k, <1>c DEF IInv, Callback, Issue, OwnSeen, InStep, Own, EndsIn,
     ConnectSound, Only, StageSound
<1>15. BodySound'
  <2> SUFFICES ASSUME UnderWay' PROVE BodySound'
    BY DEF BodySound
  <2>1. course = "in step" /\ purpose' \in {"body", "commit"} /\ body' = body \cup {count + 1}
    BY <1>f, <1>k DEF Chosen, UnderWay
  <2>2. purpose \in {"begin", "body"}
    BY <1>f, <2>1 DEF IInv, CallSound
  <2>3. UnderWay /\ Executed /\ ~Executed'
    BY <1>f, <2>1, <2>2 DEF UnderWay, Executed
  <2>4. behind = 0 /\ (~lost => fromServer = <<>>)
    BY <1>f, <2>3 DEF IInv, BodySound, InStep, Quiet
  <2>5. ~lost => ~Failed /\ ~Failed'
    BY <1>f, <2>4, NoIndex DEF Failed
  <2>6. /\ ~lost => tx = "open" /\ body \subseteq pending \cup refused
        /\ ~lost /\ dialect = "pg" => NoneRefused
        /\ ~lost => body \cap durable = {}
    BY <2>2, <2>3, <2>5 DEF IInv, BodySound
  <2>7. body' \ {count'} \subseteq body /\ count + 1 \notin durable \cup refused
    BY <1>f, <1>n, <2>1
  <2>8. tx' = tx /\ lost' = lost /\ stage' = "writing" /\ behind' = behind
        /\ pending' = pending /\ refused' = refused /\ durable' = durable /\ dialect' = dialect
    BY <1>f
  <2>9. ~lost' =>
        /\ tx' = "open" /\ (body' \ {count'}) \subseteq pending' \cup refused'
        /\ dialect' = "pg" => NoneRefused'
        /\ body' \cap durable' = {}
    BY <2>1, <2>6, <2>7, <2>8 DEF NoneRefused
  <2> QED BY <2>1, <2>3, <2>4, <2>8, <2>9 DEF BodySound
<1>16. GaveUpSound'
  <2>1. course = "in step" => purpose \in {"begin", "body"}
    BY <1>f DEF IInv, CallSound
  <2>2. ASSUME course = "in step"
        PROVE  /\ behind = 0
               /\ ~lost => body \cap durable = {} /\ toServer = <<>>
    <3>1. UnderWay
      BY <1>f, <2>1, <2>2 DEF UnderWay
    <3>2. behind = 0
      BY <3>1 DEF IInv, BodySound
    <3>3. ~lost => body \cap durable = {}
      BY <1>f, <2>1, <2>2, <3>1 DEF IInv, BodySound
    <3>4. ~lost => toServer = <<>>
      BY <1>f, <3>2 DEF IInv, InStep, Quiet
    <3> QED BY <3>2, <3>3, <3>4
  <2>3. course' = "in step" => course = "in step" /\ purpose' # "begin"
    BY <1>f DEF Chosen
  <2>4. GaveUp' => purpose' = "rollback" /\ course = "in step" /\ body' = body
    BY <1>f, <1>k, <2>3 DEF GaveUp
  <2>5. ASSUME GaveUp', ~lost'
        PROVE  /\ body' \cap durable' = {} /\ RollbackFirst'
               /\ \A i \in 1 .. Len(toServer') : toServer'[i].of \notin body'
    <3>1. /\ purpose' = "rollback" /\ body' = body /\ durable' = durable
          /\ toServer' = toServer /\ stage' = "writing"
      BY <1>f, <1>k, <2>4, <2>5
    <3>2. body \cap durable = {} /\ toServer = <<>>
      BY <1>k, <2>2, <2>4, <2>5
    <3>3. RollbackFirst'
      BY <3>1, <3>2 DEF RollbackFirst
    <3> QED BY <3>1, <3>2, <3>3, NoIndex
  <2>6. dialect' = "mysql" /\ purpose' # "single" /\ course' = "in step" => behind' = 0
    BY <1>k, <2>2, <2>3
  <2> QED BY <2>5, <2>6 DEF GaveUpSound
<1>17. CommitSound'
  BY <1>n, <1>f, <1>k, <1>c DEF IInv, Callback, Issue, CommitSound, NoneRefused,
     BodySound, UnderWay, Executed, Failed, InStep, Owed, EndsIn, LastOf, Only, CallSound
<1> QED BY <1>1, <1>2, <1>3, <1>4, <1>5, <1>6, <1>7, <1>8, <1>9, <1>10, <1>11, <1>12,
           <1>13, <1>14, <1>15, <1>16, <1>17 DEF IInv

\* The connection is set before connect() has run.
LEMMA OpenedIInv ==
  ASSUME IInv, Opened
  PROVE  IInv'
<1> USE DEF vars, conn, wire, server, outcome, statement
<1>n. /\ count \in Nat /\ MaxStatements \in Nat /\ count <= MaxStatements
      /\ behind \in Nat /\ count + 1 \notin pending \cup durable \cup refused \cup body
      /\ \A i \in 1 .. Len(toServer) : toServer[i].of \in Nat
      /\ \A i \in 1 .. Len(fromServer) : fromServer[i].of \in Nat
  BY Numbers
<1>c. count' \in {count, count + 1}
  BY DEF Opened
<1>1. ToServerSound'
  <2>1. toServer' = toServer /\ UsedBefore
    BY DEF UsedBefore, Opened
  <2> QED BY <1>c, <2>1, ToServerStays
<1>2. FromServerSound'
  <2>1. fromServer' = fromServer
    BY DEF Opened
  <2> QED BY <1>c, <2>1, FromServerStays
<1>3. KnownSound'
  BY <1>n, <1>c DEF IInv, Opened, KnownSound
<1>4. CallType'
  <2>1. dialect' \in Dialects /\ use' \in Uses /\ open' \in BOOLEAN /\ isConnected' \in BOOLEAN /\ lost' \in BOOLEAN
    BY DEF IInv, CallType, Opened
  <2>2. stage' \in Stage
    BY DEF IInv, CallType, Stage, Opened
  <2>3. columns' \in BOOLEAN
    BY DEF IInv, CallType, Opened
  <2>4. /\ call' \in {"execute", "stream"} /\ sql' \in Sql
        /\ purpose' \in {"single", "begin", "body", "commit", "rollback"}
    BY DEF IInv, CallType, Sql, Opened
  <2>5. course' \in {"in step", "behind", "caught", "nested"} /\ told' \in {"none", "ok", "error"}
        /\ nested' \in Nat
    BY DEF IInv, CallType, Opened
  <2> QED BY <2>1, <2>2, <2>3, <2>4, <2>5 DEF CallType
<1>5. NumberType'
  <2>1. count' \in 0 .. MaxStatements /\ behind' \in Nat
    BY <1>n, <1>c DEF Opened
  <2>2. seen' \subseteq 0 .. count'
    BY <1>n, <1>c DEF IInv, NumberType, Opened
  <2>3. (pending \cup durable \cup refused \cup body \subseteq 1 .. MaxStatements)'
    BY <1>n, <1>c DEF IInv, NumberType, Opened
  <2> QED BY <2>1, <2>2, <2>3 DEF NumberType
<1>6. ServerType'
  BY DEF IInv, Opened, ServerType, CallType
<1>7. StageSound'
  BY DEF IInv, Opened, StageSound, CallSound
<1>8. CallSound'
  BY DEF IInv, Opened, CallSound, StageSound
<1>9. BodyCounted'
  BY <1>n, <1>c DEF IInv, Opened, BodyCounted, CallSound, KnownSound
<1>10. SessionSound'
  BY <1>n, <1>c DEF IInv, Opened, SessionSound, StageSound, ConnectSound, Only, EndsIn
<1>11. ConnectSound'
  BY <1>n, <1>c DEF IInv, Opened, ConnectSound, StageSound, CallSound, CallType, Only,
     EndsIn, Quiet
<1>12. UnreadCounted'
  <2>1. Unread' = Unread
    BY DEF Unread, Opened
  <2> QED BY <2>1, <1>n, <1>c DEF IInv, Opened, UnreadCounted, StageSound,
             ConnectSound, EndsIn, Quiet
<1>13. InStep'
  BY <1>n, <1>c DEF IInv, Opened, InStep, Owed, Own, Only, EndsIn, LastOf, Quiet,
     ConnectSound, StageSound, CallType
<1>14. OwnSeen'
  BY <1>n, <1>c DEF IInv, Opened, OwnSeen, InStep, Own, EndsIn, ConnectSound, Only,
     StageSound
<1>15. BodySound'
  BY <1>n, <1>c DEF IInv, Opened, BodySound, UnderWay, Executed, Failed, NoneRefused,
     InStep, Owed, Only, EndsIn, LastOf, Quiet, StageSound, CallSound, BodyCounted
<1>16. GaveUpSound'
  BY <1>n, <1>c DEF IInv, Opened, GaveUpSound, GaveUp, RollbackFirst, BodySound,
     UnderWay, Executed, Failed, NoneRefused, InStep, Owed, Only, EndsIn, LastOf,
     Quiet, StageSound, CallSound, BodyCounted
<1>17. CommitSound'
  BY <1>n, <1>c DEF IInv, Opened, CommitSound, NoneRefused, BodySound, UnderWay,
     Executed, Failed, InStep, Owed, EndsIn, LastOf, Only, CallSound
<1> QED BY <1>1, <1>2, <1>3, <1>4, <1>5, <1>6, <1>7, <1>8, <1>9, <1>10, <1>11, <1>12,
           <1>13, <1>14, <1>15, <1>16, <1>17 DEF IInv

\* A statement that throws before it is sent leaves the server as it was.
LEMMA OpenFailsIInv ==
  ASSUME IInv, OpenFails
  PROVE  IInv'
<1> USE DEF vars, conn, wire, server, outcome, statement
<1>n. /\ count \in Nat /\ MaxStatements \in Nat /\ count <= MaxStatements
      /\ behind \in Nat /\ count + 1 \notin pending \cup durable \cup refused \cup body
      /\ \A i \in 1 .. Len(toServer) : toServer[i].of \in Nat
      /\ \A i \in 1 .. Len(fromServer) : fromServer[i].of \in Nat
  BY Numbers
<1>c. count' \in {count, count + 1}
  BY DEF OpenFails, Throws, Tell, Returns, Issue
<1>t. Throws => seen' = {} /\ (TellsError \/ RollsBack \/ GoesOn)
  BY ThrowsCases
<1>1. ToServerSound'
  <2>1. toServer' = toServer /\ UsedBefore
    BY <1>t DEF UsedBefore, OpenFails
  <2> QED BY <1>c, <2>1, ToServerStays
<1>2. FromServerSound'
  <2>1. fromServer' = fromServer
    BY <1>t DEF OpenFails
  <2> QED BY <1>c, <2>1, FromServerStays
<1>3. KnownSound'
  BY <1>n, <1>c, <1>t DEF IInv, OpenFails, TellsError, Tells, RollsBack, GoesOn,
     KnownSound
<1>4. CallType'
  <2>1. dialect' \in Dialects /\ use' \in Uses /\ open' \in BOOLEAN /\ isConnected' \in BOOLEAN /\ lost' \in BOOLEAN
    BY <1>t DEF IInv, CallType, OpenFails, TellsError, Tells, RollsBack, GoesOn
  <2>2. stage' \in Stage
    BY <1>t DEF IInv, CallType, Stage, OpenFails, TellsError, Tells, RollsBack, GoesOn
  <2>3. columns' \in BOOLEAN
    BY <1>t DEF IInv, CallType, OpenFails, TellsError, Tells, RollsBack, GoesOn
  <2>4. /\ call' \in {"execute", "stream"} /\ sql' \in Sql
        /\ purpose' \in {"single", "begin", "body", "commit", "rollback"}
    BY <1>t DEF IInv, CallType, Sql, OpenFails, TellsError, Tells, RollsBack, GoesOn
  <2>5. course' \in {"in step", "behind", "caught", "nested"} /\ told' \in {"none", "ok", "error"}
        /\ nested' \in Nat
    BY <1>t DEF IInv, CallType, OpenFails, TellsError, Tells, RollsBack, GoesOn
  <2> QED BY <2>1, <2>2, <2>3, <2>4, <2>5 DEF CallType
<1>5. NumberType'
  <2>1. count' \in 0 .. MaxStatements /\ behind' \in Nat
    BY <1>n, <1>c, <1>t DEF OpenFails, TellsError, Tells, RollsBack, GoesOn
  <2>2. seen' \subseteq 0 .. count'
    BY <1>n, <1>c, <1>t DEF IInv, NumberType, OpenFails, TellsError, Tells, RollsBack,
       GoesOn
  <2>3. (pending \cup durable \cup refused \cup body \subseteq 1 .. MaxStatements)'
    BY <1>n, <1>c, <1>t DEF IInv, NumberType, OpenFails, TellsError, Tells, RollsBack,
       GoesOn
  <2> QED BY <2>1, <2>2, <2>3 DEF NumberType
<1>6. ServerType'
  BY <1>t DEF IInv, OpenFails, TellsError, Tells, RollsBack, GoesOn, ServerType, CallType
<1>7. StageSound'
  BY <1>t DEF IInv, OpenFails, TellsError, Tells, RollsBack, GoesOn, StageSound, CallSound
<1>8. CallSound'
  <2>1. Threw /\ isConnected' = isConnected /\ stage # "idle"
    BY <1>t DEF Threw, OpenFails
  <2> QED BY <2>1, CallThrows
<1>9. BodyCounted'
  <2>1. Threw /\ stage # "idle"
    BY <1>t DEF Threw, OpenFails
  <2> QED BY <2>1, BodyCountedThrows
<1>10. SessionSound'
  BY <1>n, <1>c, <1>t DEF IInv, OpenFails, TellsError, Tells, RollsBack, GoesOn,
     SessionSound, StageSound, ConnectSound, Only, EndsIn
<1>11. ConnectSound'
  BY <1>n, <1>c, <1>t DEF IInv, OpenFails, TellsError, Tells, RollsBack, GoesOn,
     ConnectSound, StageSound, CallSound, CallType, Only, EndsIn, Quiet
<1>12. UnreadCounted'
  <2>1. Unread' = Unread
    BY DEF Unread, OpenFails
  <2> QED BY <2>1, <1>n, <1>c, <1>t DEF IInv, OpenFails, TellsError, Tells, RollsBack,
             GoesOn, UnreadCounted, StageSound, ConnectSound, EndsIn, Quiet
<1>13. InStep'
  BY <1>n, <1>c, <1>t DEF IInv, OpenFails, TellsError, Tells, RollsBack, GoesOn,
     InStep, Owed, Own, Only, EndsIn, LastOf, Quiet, ConnectSound, StageSound, CallType
<1>14. OwnSeen'
  BY <1>n, <1>c, <1>t DEF IInv, OpenFails, TellsError, Tells, RollsBack, GoesOn,
     OwnSeen, InStep, Own, EndsIn, ConnectSound, Only, StageSound
<1>15. BodySound'
  BY <1>n, <1>c, <1>t DEF IInv, OpenFails, TellsError, Tells, RollsBack, GoesOn,
     BodySound, UnderWay, Executed, Failed, NoneRefused, InStep, Owed, Only, EndsIn,
     LastOf, Quiet, StageSound, CallSound, BodyCounted
<1>16. GaveUpSound'
  BY <1>n, <1>c, <1>t DEF IInv, OpenFails, TellsError, Tells, RollsBack, GoesOn,
     GaveUpSound, GaveUp, RollbackFirst, BodySound, UnderWay, Executed, Failed,
     NoneRefused, InStep, Owed, Only, EndsIn, LastOf, Quiet, StageSound, CallSound,
     BodyCounted
<1>17. CommitSound'
  BY <1>n, <1>c, <1>t DEF IInv, OpenFails, TellsError, Tells, RollsBack, GoesOn,
     CommitSound, NoneRefused, BodySound, UnderWay, Executed, Failed, InStep, Owed,
     EndsIn, LastOf, Only, CallSound
<1> QED BY <1>1, <1>2, <1>3, <1>4, <1>5, <1>6, <1>7, <1>8, <1>9, <1>10, <1>11, <1>12,
           <1>13, <1>14, <1>15, <1>16, <1>17 DEF IInv

\* The startup message is the only one on the wire.
LEMMA PgGreetingIInv ==
  ASSUME IInv, PgGreeting
  PROVE  IInv'
<1> USE DEF vars, conn, wire, server, outcome, statement
<1>n. /\ count \in Nat /\ MaxStatements \in Nat /\ count <= MaxStatements
      /\ behind \in Nat /\ count + 1 \notin pending \cup durable \cup refused \cup body
      /\ \A i \in 1 .. Len(toServer) : toServer[i].of \in Nat
      /\ \A i \in 1 .. Len(fromServer) : fromServer[i].of \in Nat
  BY Numbers
<1>s. \A m \in Message : Sends(m) =>
        /\ Len(toServer) \in Nat
        /\ toServer' \in Seq(Message) /\ Len(toServer') = Len(toServer) + 1
        /\ toServer'[Len(toServer) + 1] = m
        /\ \A i \in 1 .. Len(toServer) : toServer'[i] = toServer[i]
        /\ toServer' # <<>>
        /\ toServer = <<>> => Only(toServer', m)
  BY SendsFacts DEF IInv, ToServerSound
<1>m1. Reply("startup", 0) \in Message /\ Reply("startup", 0).type = "startup" /\ Reply("startup", 0).of = 0
  <2>1. "startup" \in Type
    BY DEF Type
  <2> QED BY <2>1, ReplyType
<1>c. count' \in {count, count + 1}
  BY DEF PgGreeting
<1>1. ToServerSound'
  <2>1. Sends(Reply("startup", 0)) /\ UsedBefore /\ count' = count
    BY DEF PgGreeting, UsedBefore
  <2>2. dialect' = "pg" /\ isConnected' /\ ~lost' => FALSE
    BY DEF IInv, StageSound, PgGreeting
  <2>3. "startup" \notin Sql
    BY DEF Sql
  <2> QED BY <1>m1, <1>n, <2>1, <2>2, <2>3, ToServerSends
<1>2. FromServerSound'
  <2>1. fromServer' = fromServer
    BY DEF PgGreeting
  <2> QED BY <1>c, <2>1, FromServerStays
<1>3. KnownSound'
  BY <1>n, <1>c DEF IInv, PgGreeting, KnownSound
<1>4. CallType'
  <2>1. dialect' \in Dialects /\ use' \in Uses /\ open' \in BOOLEAN /\ isConnected' \in BOOLEAN /\ lost' \in BOOLEAN
    BY DEF IInv, CallType, PgGreeting
  <2>2. stage' \in Stage
    BY DEF IInv, CallType, Stage, PgGreeting
  <2>3. columns' \in BOOLEAN
    BY DEF IInv, CallType, PgGreeting
  <2>4. /\ call' \in {"execute", "stream"} /\ sql' \in Sql
        /\ purpose' \in {"single", "begin", "body", "commit", "rollback"}
    BY DEF IInv, CallType, Sql, PgGreeting
  <2>5. course' \in {"in step", "behind", "caught", "nested"} /\ told' \in {"none", "ok", "error"}
        /\ nested' \in Nat
    BY DEF IInv, CallType, PgGreeting
  <2> QED BY <2>1, <2>2, <2>3, <2>4, <2>5 DEF CallType
<1>5. NumberType'
  <2>1. count' \in 0 .. MaxStatements /\ behind' \in Nat
    BY <1>n, <1>c DEF PgGreeting
  <2>2. seen' \subseteq 0 .. count'
    BY <1>n, <1>c DEF IInv, NumberType, PgGreeting
  <2>3. (pending \cup durable \cup refused \cup body \subseteq 1 .. MaxStatements)'
    BY <1>n, <1>c DEF IInv, NumberType, PgGreeting
  <2> QED BY <2>1, <2>2, <2>3 DEF NumberType
<1>6. ServerType'
  BY DEF IInv, PgGreeting, ServerType, CallType
<1>7. StageSound'
  BY DEF IInv, PgGreeting, StageSound, CallSound
<1>8. CallSound'
  BY DEF IInv, PgGreeting, CallSound, StageSound
<1>9. BodyCounted'
  BY <1>n, <1>c DEF IInv, PgGreeting, BodyCounted, CallSound, KnownSound
<1>10. SessionSound'
  BY <1>n, <1>s, <1>m1, <1>c DEF IInv, PgGreeting, SessionSound, StageSound,
     ConnectSound, Only, EndsIn
<1>11. ConnectSound'
  BY <1>n, <1>s, <1>m1, <1>c DEF IInv, PgGreeting, ConnectSound, StageSound, CallSound,
     CallType, Only, EndsIn, Quiet
<1>12. UnreadCounted'
  BY <1>n, <1>s, <1>m1, <1>c DEF IInv, PgGreeting, UnreadCounted, StageSound,
     ConnectSound, EndsIn, Quiet
<1>13. InStep'
  BY <1>n, <1>s, <1>m1, <1>c DEF IInv, PgGreeting, InStep, Owed, Own, Only, EndsIn,
     LastOf, Quiet, ConnectSound, StageSound, CallType
<1>14. OwnSeen'
  BY <1>n, <1>s, <1>m1, <1>c DEF IInv, PgGreeting, OwnSeen, InStep, Own, EndsIn,
     ConnectSound, Only, StageSound
<1>15. BodySound'
  BY <1>n, <1>s, <1>m1, <1>c DEF IInv, PgGreeting, BodySound, UnderWay, Executed,
     Failed, NoneRefused, InStep, Owed, Only, EndsIn, LastOf, Quiet, StageSound,
     CallSound, BodyCounted
<1>16. GaveUpSound'
  <2>1. /\ Sends(Reply("startup", 0)) /\ body' = body /\ pending' = pending /\ durable' = durable
        /\ course' = course /\ told' = told /\ purpose' = purpose /\ lost' = lost
        /\ behind' = behind /\ dialect' = dialect
    BY DEF PgGreeting
  <2>2. 0 \notin body /\ purpose # "rollback"
    <3>1. stage = "greeting" /\ KnownSound /\ StageSound /\ CallSound
      BY DEF IInv, PgGreeting
    <3>2. ~isConnected /\ purpose # "rollback"
      BY <3>1 DEF StageSound, CallSound
    <3>3. 0 \notin body
      BY <1>n, <3>1 DEF KnownSound
    <3> QED BY <3>2, <3>3
  <2> QED BY <1>m1, <2>1, <2>2, GaveUpSends
<1>17. CommitSound'
  BY <1>n, <1>s, <1>m1, <1>c DEF IInv, PgGreeting, CommitSound, NoneRefused, BodySound,
     UnderWay, Executed, Failed, InStep, Owed, EndsIn, LastOf, Only, CallSound
<1> QED BY <1>1, <1>2, <1>3, <1>4, <1>5, <1>6, <1>7, <1>8, <1>9, <1>10, <1>11, <1>12,
           <1>13, <1>14, <1>15, <1>16, <1>17 DEF IInv

\* connect() reads the welcome to its ReadyForQuery, and no further.
LEMMA PgAuthenticateIInv ==
  ASSUME IInv, PgAuthenticate
  PROVE  IInv'
<1> USE DEF vars, conn, wire, server, outcome, statement
<1>n. /\ count \in Nat /\ MaxStatements \in Nat /\ count <= MaxStatements
      /\ behind \in Nat /\ count + 1 \notin pending \cup durable \cup refused \cup body
      /\ \A i \in 1 .. Len(toServer) : toServer[i].of \in Nat
      /\ \A i \in 1 .. Len(fromServer) : fromServer[i].of \in Nat
  BY Numbers
<1>c. count' \in {count, count + 1}
  BY DEF PgAuthenticate, Throws, Tell, Returns, Issue
<1>e. \E x : Reads(x)
  BY DEF PgAuthenticate
<1>r. /\ \A x : Reads(x) => x = fromServer[1]
      /\ Reads(fromServer[1]) /\ fromServer # <<>>
      /\ fromServer[1] \in Message /\ fromServer[1].of \in 0 .. count
      /\ Len(fromServer) \in Nat /\ Len(fromServer) >= 1
      /\ fromServer' \in Seq(Message) /\ Len(fromServer') = Len(fromServer) - 1
      /\ \A i \in 1 .. Len(fromServer') :
           fromServer'[i] = fromServer[i + 1] /\ i + 1 \in 1 .. Len(fromServer)
      /\ fromServer' = <<>> <=> Len(fromServer) = 1
  BY <1>e, <1>c, ReadsFacts, FromServerReads DEF IInv, FromServerSound
<1>q. /\ Reads(fromServer[1]) /\ fromServer # <<>> /\ FromServerSound
      /\ fromServer' = <<>> <=> Len(fromServer) = 1
  BY <1>r DEF IInv
<1>w. Len(fromServer) \in Nat /\ Len(fromServer') = Len(fromServer) - 1 /\ 1 \in 1 .. Len(fromServer)
  BY <1>r
<1>s. \A m \in Message : Sends(m) =>
        /\ Len(toServer) \in Nat
        /\ toServer' \in Seq(Message) /\ Len(toServer') = Len(toServer) + 1
        /\ toServer'[Len(toServer) + 1] = m
        /\ \A i \in 1 .. Len(toServer) : toServer'[i] = toServer[i]
        /\ toServer' # <<>>
        /\ toServer = <<>> => Only(toServer', m)
  BY SendsFacts DEF IInv, ToServerSound
<1>m1. Reply("sasl initial", 0) \in Message /\ Reply("sasl initial", 0).type = "sasl initial" /\ Reply("sasl initial", 0).of = 0
  <2>1. "sasl initial" \in Type
    BY DEF Type
  <2> QED BY <2>1, ReplyType
<1>t. Throws => Threw
  BY ThrowsCases DEF Threw
<1>f. /\ stage = "authenticating" /\ dialect = "pg"
      /\ dialect' = dialect /\ use' = use /\ open' = open /\ lost' = lost
      /\ session' = session /\ tx' = tx /\ pending' = pending /\ durable' = durable
      /\ refused' = refused /\ statementCache' = statementCache /\ behind' = behind
      /\ \/ /\ fromServer[1].type \in {"auth ok", "parameter"} /\ toServer' = toServer
            /\ stage' = stage /\ isConnected' = isConnected /\ Same /\ seen' = seen
         \/ /\ fromServer[1].type = "ready" /\ toServer' = toServer
            /\ stage' = "writing" /\ isConnected' = TRUE /\ Same /\ seen' = seen
         \/ /\ fromServer[1].type = "auth sasl" /\ Sends(Reply("sasl initial", 0))
            /\ stage' = "sasl" /\ isConnected' = isConnected /\ Same /\ seen' = seen
         \/ /\ fromServer[1].type \in {"auth md5", "error"} /\ toServer' = toServer
            /\ Threw /\ isConnected' = isConnected
  BY <1>r, <1>t DEF PgAuthenticate, Kept, Same, SameCall
<1>k. /\ pending' = pending /\ durable' = durable /\ refused' = refused /\ body' = body
      /\ dialect' = dialect /\ lost' = lost /\ session' = session /\ tx' = tx
      /\ open' = open /\ stage # "idle"
      /\ \/ count' = count /\ purpose' = purpose /\ sql' = sql
         \/ RollsBack /\ purpose' = "rollback" /\ count < MaxStatements /\ count' = count + 1
  BY <1>f DEF Kept, Same, SameCall, Threw, Resolved, TellsOk, TellsError, Tells,
     RollsBack, GoesOn
<1>1. ToServerSound'
  <2>1. ~isConnected /\ count' \in {count, count + 1} /\ dialect' = dialect /\ lost' = lost
    BY <1>c, <1>f DEF IInv, StageSound
  <2>2. CASE Sends(Reply("sasl initial", 0)) /\ Same /\ isConnected' = isConnected
    <3>1. UsedBefore /\ count' = count
      BY <2>1, <2>2 DEF Same, SameCall, UsedBefore
    <3>2. "sasl initial" \notin Sql
      BY DEF Sql
    <3>3. dialect' = "pg" /\ isConnected' /\ ~lost' => FALSE
      BY <2>1, <2>2
    <3>4. 0 <= count
      BY <1>n
    <3>5. Sends(Reply("sasl initial", 0)) /\ count' = count
      BY <2>2, <3>1
    <3> QED BY <1>m1, <3>1, <3>2, <3>3, <3>4, <3>5, ToServerSends
  <2>3. CASE toServer' = toServer
    <3>1. isConnected' /\ ~lost => fromServer[1].type = "ready"
      BY <1>f, <2>1
    <3>2. fromServer[1].type = "ready" /\ ~lost => toServer = <<>>
      BY <1>f, <1>r, <2>1 DEF IInv, ConnectSound
    <3> QED BY <2>1, <2>3, <3>1, <3>2, ToServerStays DEF UsedBefore
  <2> QED BY <1>f, <2>2, <2>3
<1>2. FromServerSound'
  BY <1>c, <1>e, FromServerReads
<1>3. KnownSound'
  BY <1>n, <1>k DEF IInv, KnownSound
<1>4. CallType'
  <2>1. dialect' \in Dialects /\ use' \in Uses /\ open' \in BOOLEAN /\ isConnected' \in BOOLEAN /\ lost' \in BOOLEAN
    BY <1>f DEF IInv, CallType, Kept, Same, SameCall, Threw, Resolved, TellsOk,
       TellsError, Tells, RollsBack, GoesOn
  <2>2. stage' \in Stage
    BY <1>f DEF IInv, CallType, Stage, Kept, Same, SameCall, Threw, Resolved, TellsOk,
       TellsError, Tells, RollsBack, GoesOn
  <2>3. columns' \in BOOLEAN
    BY <1>f DEF IInv, CallType, Kept, Same, SameCall, Threw, Resolved, TellsOk,
       TellsError, Tells, RollsBack, GoesOn
  <2>4. /\ call' \in {"execute", "stream"} /\ sql' \in Sql
        /\ purpose' \in {"single", "begin", "body", "commit", "rollback"}
    BY <1>f DEF IInv, CallType, Sql, Kept, Same, SameCall, Threw, Resolved, TellsOk,
       TellsError, Tells, RollsBack, GoesOn
  <2>5. course' \in {"in step", "behind", "caught", "nested"} /\ told' \in {"none", "ok", "error"}
        /\ nested' \in Nat
    BY <1>f DEF IInv, CallType, Kept, Same, SameCall, Threw, Resolved, TellsOk,
       TellsError, Tells, RollsBack, GoesOn
  <2> QED BY <2>1, <2>2, <2>3, <2>4, <2>5 DEF CallType
<1>5. NumberType'
  <2>1. count' \in 0 .. MaxStatements
    BY <1>n, <1>k
  <2>2. behind' \in Nat
    BY <1>n, <1>f
  <2>3. seen' \subseteq 0 .. count'
    <3>1. seen' \subseteq seen \cup {fromServer[1].of} /\ seen \subseteq 0 .. count
      BY <1>f DEF IInv, NumberType, Kept, Same, SameCall, Threw, Resolved, TellsOk,
         TellsError, Tells, RollsBack, GoesOn
    <3> QED BY <1>n, <1>c, <1>r, <3>1
  <2>4. (pending \cup durable \cup refused \cup body \subseteq 1 .. MaxStatements)'
    BY <1>k DEF IInv, NumberType
  <2> QED BY <2>1, <2>2, <2>3, <2>4 DEF NumberType
<1>6. ServerType'
  BY <1>f DEF IInv, Kept, Same, SameCall, Threw, Resolved, TellsOk, TellsError, Tells,
     RollsBack, GoesOn, ServerType, CallType
<1>7. StageSound'
  <2>0. /\ ~isConnected /\ purpose \in {"single", "begin"} /\ behind = 0
        /\ statementCache = {} /\ nested = 0
    BY <1>f DEF IInv, CallType, CallSound, StageSound, ConnectSound
  <2>1. stage' \in {"authenticating", "sasl", "writing", "idle"}
    BY <1>f, <2>0 DEF Threw, TellsError, Tells, RollsBack, GoesOn
  <2>2. /\ stage' = "writing" => isConnected'
        /\ stage' \in {"authenticating", "sasl"} => isConnected' = isConnected
        /\ open' = open /\ dialect' = dialect /\ dialect = "pg"
    BY <1>f, <2>0 DEF Threw, TellsError, Tells, RollsBack, GoesOn
  <2>3. open
    BY <1>f DEF IInv, StageSound
  <2> QED BY <2>0, <2>1, <2>2, <2>3 DEF StageSound
<1>8. CallSound'
  BY <1>f DEF IInv, Kept, Same, SameCall, Threw, Resolved, TellsOk, TellsError, Tells,
     RollsBack, GoesOn, CallSound, StageSound
<1>9. BodyCounted'
  <2>1. CASE Threw
    BY <1>k, <2>1, BodyCountedThrows
  <2>2. CASE ~Threw
    <3>1. /\ course' = "in step" => course = "in step"
          /\ count' = count /\ purpose' = purpose /\ body' = body
      BY <1>f, <1>k, <2>2 DEF Same, SameCall, Resolved, TellsOk, TellsError, Tells, GoesOn
    <3> QED BY <1>k, <3>1 DEF IInv, BodyCounted
  <2> QED BY <2>1, <2>2
<1>10. SessionSound'
  <2>0. /\ ~isConnected /\ purpose \in {"single", "begin"} /\ behind = 0
        /\ statementCache = {} /\ nested = 0
    BY <1>f DEF IInv, CallType, CallSound, StageSound, ConnectSound
  <2>1. /\ behind' = 0 /\ statementCache' = {} /\ session' = session /\ lost' = lost
        /\ dialect' = "pg" /\ purpose' = purpose /\ nested' = 0
        /\ stage' \in {"authenticating", "sasl", "writing", "idle"}
    BY <1>f, <2>0 DEF Threw, TellsError, Tells, RollsBack, GoesOn, Same, SameCall
  <2>2. isConnected' /\ ~lost => session = "ready"
    <3>1. isConnected' /\ ~lost => fromServer[1].type = "ready"
      BY <1>f, <2>0
    <3>2. fromServer[1].type = "ready" /\ ~lost => session = "ready"
      BY <1>f, <1>r, <2>0 DEF IInv, ConnectSound
    <3> QED BY <3>1, <3>2
  <2> QED BY <2>0, <2>1, <2>2 DEF SessionSound
<1>11. ConnectSound'
  <2>0. /\ ~isConnected /\ purpose \in {"single", "begin"} /\ behind = 0
        /\ statementCache = {} /\ nested = 0
    BY <1>f DEF IInv, CallType, CallSound, StageSound, ConnectSound
  <2>1. behind' = 0 /\ statementCache' = {} /\ lost' = lost /\ session' = session /\ open' /\ dialect' = "pg"
    BY <1>f, <2>0 DEF IInv, StageSound
  <2> SUFFICES ASSUME ~isConnected', ~lost PROVE ConnectSound'
    BY <2>1 DEF ConnectSound
  <2>2. \/ /\ toServer = <<>> /\ session = "asked" /\ Len(fromServer) = 1
           /\ fromServer[1].type \in {"auth sasl", "auth md5"}
        \/ /\ toServer = <<>> /\ session = "ready" /\ EndsIn(fromServer, {"ready"})
           /\ \A i \in 1 .. Len(fromServer) :
                fromServer[i].type \in {"auth ok", "parameter", "ready"}
    BY <1>f, <1>r, <2>0 DEF IInv, ConnectSound
  <2>3. CASE Threw
    <3>1. stage' = "idle" /\ toServer' = toServer
      BY <1>f, <1>s, <1>m1, <2>0, <2>3 DEF Threw, TellsError, Tells, RollsBack, GoesOn
    <3>2. fromServer[1].type \in {"auth md5", "error"} \/ ~Threw
      BY <1>f, <2>0, <3>1
    <3>3. Quiet' /\ session = "asked"
      <4>1. fromServer[1].type \in {"auth md5", "error"}
        BY <2>3, <3>2
      <4>2. toServer = <<>> /\ session = "asked" /\ Len(fromServer) = 1
        BY <1>w, <2>2, <4>1
      <4>3. fromServer' = <<>>
        BY <1>q, <4>2
      <4> QED BY <3>1, <4>2, <4>3 DEF Quiet
    <3> QED BY <2>1, <3>1, <3>3 DEF ConnectSound
  <2>4. CASE /\ fromServer[1].type \in {"auth ok", "parameter"} /\ toServer' = toServer
             /\ stage' = stage
    <3>1. /\ toServer = <<>> /\ session = "ready" /\ EndsIn(fromServer, {"ready"})
          /\ \A i \in 1 .. Len(fromServer) :
               fromServer[i].type \in {"auth ok", "parameter", "ready"}
      BY <2>2, <2>4
    <3>2. EndsIn(fromServer', {"ready"})
      <4>1. fromServer[1].type \notin {"ready"}
        BY <2>4
      <4> QED BY <1>q, <3>1, <4>1, ReadsEnds
    <3>3. \A i \in 1 .. Len(fromServer') :
               fromServer'[i].type \in {"auth ok", "parameter", "ready"}
      BY <1>r, <3>1
    <3>4. stage' = "authenticating"
      BY <1>f, <2>4
    <3> QED BY <2>1, <2>4, <3>1, <3>2, <3>3, <3>4 DEF ConnectSound
  <2>5. CASE fromServer[1].type = "auth sasl" /\ Sends(Reply("sasl initial", 0)) /\ stage' = "sasl"
    <3>1. session = "asked" /\ fromServer' = <<>> /\ Only(toServer', Reply("sasl initial", 0))
      <4>1. fromServer[1].type \notin {"auth ok", "parameter", "ready"}
        BY <2>5
      <4>2. toServer = <<>> /\ session = "asked" /\ Len(fromServer) = 1
        BY <1>w, <2>2, <4>1
      <4>3. fromServer' = <<>>
        BY <1>q, <4>2
      <4> QED BY <1>s, <1>m1, <2>5, <4>2, <4>3
    <3> QED BY <2>1, <2>5, <3>1 DEF ConnectSound
  <2> QED BY <1>f, <2>3, <2>4, <2>5
<1>12. UnreadCounted'
  <2>0. /\ ~isConnected /\ purpose \in {"single", "begin"} /\ behind = 0
        /\ statementCache = {} /\ nested = 0
    BY <1>f DEF IInv, CallType, CallSound, StageSound, ConnectSound
  <2> SUFFICES ASSUME isConnected', ~lost' PROVE UnreadCounted'
    BY DEF UnreadCounted
  <2>1. fromServer[1].type = "ready" /\ stage' = "writing" /\ behind' = 0 /\ toServer' = toServer /\ ~lost
    BY <1>f, <2>0
  <2>2. toServer = <<>> /\ EndsIn(fromServer, {"ready"})
    BY <1>f, <1>r, <2>0, <2>1 DEF IInv, ConnectSound
  <2>3. fromServer' = <<>>
    BY <1>r, <2>1, <2>2, ReadsEnds DEF IInv
  <2>4. Unread' = 0
    BY <2>1, <2>2, <2>3, UnreadQuiet
  <2> QED BY <2>1, <2>4 DEF UnreadCounted
<1>13. InStep'
  <2>0. /\ ~isConnected /\ purpose \in {"single", "begin"} /\ behind = 0
        /\ statementCache = {} /\ nested = 0
    BY <1>f DEF IInv, CallType, CallSound, StageSound, ConnectSound
  <2> SUFFICES ASSUME isConnected' PROVE InStep'
    BY DEF InStep
  <2>1. fromServer[1].type = "ready" /\ stage' = "writing" /\ toServer' = toServer /\ lost' = lost
        /\ statementCache' = {}
    BY <1>f, <2>0
  <2>2. ~lost => toServer = <<>> /\ EndsIn(fromServer, {"ready"})
    BY <1>f, <1>r, <2>0, <2>1 DEF IInv, ConnectSound
  <2>3. ~lost => fromServer' = <<>>
    BY <1>r, <2>1, <2>2, ReadsEnds DEF IInv
  <2> QED BY <2>1, <2>2, <2>3 DEF InStep, Quiet
<1>14. OwnSeen'
  BY <1>n, <1>c, <1>r, <1>q, <1>w, <1>s, <1>m1, <1>f, <1>k DEF IInv, Kept, Same,
     SameCall, Threw, Resolved, TellsOk, TellsError, Tells, RollsBack, GoesOn, OwnSeen,
     InStep, Own, EndsIn, ConnectSound, Only, StageSound
<1>15. BodySound'
  BY <1>n, <1>c, <1>r, <1>q, <1>w, <1>s, <1>m1, <1>f, <1>k DEF IInv, Kept, Same,
     SameCall, Threw, Resolved, TellsOk, TellsError, Tells, RollsBack, GoesOn,
     BodySound, UnderWay, Executed, Failed, NoneRefused, InStep, Owed, Only, EndsIn,
     LastOf, Quiet, StageSound, CallSound, BodyCounted
<1>16. GaveUpSound'
  <2>0. /\ ~isConnected /\ purpose \in {"single", "begin"} /\ behind = 0
        /\ statementCache = {} /\ nested = 0
    BY <1>f DEF IInv, CallType, CallSound, StageSound, ConnectSound
  <2>1. CASE toServer' = toServer
    <3>1. OnlyReads
      BY <1>f, <2>1 DEF OnlyReads, Kept
    <3>2. CASE Threw
      BY <1>f, <1>k, <2>0, <3>1, <3>2, GaveUpThrows
    <3>3. CASE Same
      BY <2>0, <3>1, <3>3, GaveUpStays DEF Same
    <3> QED BY <1>f, <1>s, <1>m1, <2>1, <3>2, <3>3
  <2>2. CASE Sends(Reply("sasl initial", 0)) /\ Same
    <3>1. behind' = behind
      BY <1>f
    <3>2. 0 \notin body
      BY <1>n DEF IInv, KnownSound
    <3> QED BY <1>k, <1>m1, <2>0, <2>2, <3>1, <3>2, GaveUpSends DEF Same, SameCall
  <2> QED BY <1>f, <2>1, <2>2
<1>17. CommitSound'
  BY <1>n, <1>c, <1>r, <1>q, <1>w, <1>s, <1>m1, <1>f, <1>k DEF IInv, Kept, Same,
     SameCall, Threw, Resolved, TellsOk, TellsError, Tells, RollsBack, GoesOn,
     CommitSound, NoneRefused, BodySound, UnderWay, Executed, Failed, InStep, Owed,
     EndsIn, LastOf, Only, CallSound
<1> QED BY <1>1, <1>2, <1>3, <1>4, <1>5, <1>6, <1>7, <1>8, <1>9, <1>10, <1>11, <1>12,
           <1>13, <1>14, <1>15, <1>16, <1>17 DEF IInv

\* The two exchanges of SCRAM alternate.
LEMMA PgSaslIInv ==
  ASSUME IInv, PgSasl
  PROVE  IInv'
<1> USE DEF vars, conn, wire, server, outcome, statement
<1>n. /\ count \in Nat /\ MaxStatements \in Nat /\ count <= MaxStatements
      /\ behind \in Nat /\ count + 1 \notin pending \cup durable \cup refused \cup body
      /\ \A i \in 1 .. Len(toServer) : toServer[i].of \in Nat
      /\ \A i \in 1 .. Len(fromServer) : fromServer[i].of \in Nat
  BY Numbers
<1>c. count' \in {count, count + 1}
  BY DEF PgSasl, Throws, Tell, Returns, Issue
<1>e. \E x : Reads(x)
  BY DEF PgSasl
<1>r. /\ \A x : Reads(x) => x = fromServer[1]
      /\ Reads(fromServer[1]) /\ fromServer # <<>>
      /\ fromServer[1] \in Message /\ fromServer[1].of \in 0 .. count
      /\ Len(fromServer) \in Nat /\ Len(fromServer) >= 1
      /\ fromServer' \in Seq(Message) /\ Len(fromServer') = Len(fromServer) - 1
      /\ \A i \in 1 .. Len(fromServer') :
           fromServer'[i] = fromServer[i + 1] /\ i + 1 \in 1 .. Len(fromServer)
      /\ fromServer' = <<>> <=> Len(fromServer) = 1
  BY <1>e, <1>c, ReadsFacts, FromServerReads DEF IInv, FromServerSound
<1>q. /\ Reads(fromServer[1]) /\ fromServer # <<>> /\ FromServerSound
      /\ fromServer' = <<>> <=> Len(fromServer) = 1
  BY <1>r DEF IInv
<1>w. Len(fromServer) \in Nat /\ Len(fromServer') = Len(fromServer) - 1 /\ 1 \in 1 .. Len(fromServer)
  BY <1>r
<1>s. \A m \in Message : Sends(m) =>
        /\ Len(toServer) \in Nat
        /\ toServer' \in Seq(Message) /\ Len(toServer') = Len(toServer) + 1
        /\ toServer'[Len(toServer) + 1] = m
        /\ \A i \in 1 .. Len(toServer) : toServer'[i] = toServer[i]
        /\ toServer' # <<>>
        /\ toServer = <<>> => Only(toServer', m)
  BY SendsFacts DEF IInv, ToServerSound
<1>m1. Reply("sasl final", 0) \in Message /\ Reply("sasl final", 0).type = "sasl final" /\ Reply("sasl final", 0).of = 0
  <2>1. "sasl final" \in Type
    BY DEF Type
  <2> QED BY <2>1, ReplyType
<1>t. Throws => Threw
  BY ThrowsCases DEF Threw
<1>f. /\ Kept /\ statementCache' = statementCache /\ behind' = behind
      /\ \/ /\ stage = "sasl" /\ fromServer[1].type = "sasl continue"
            /\ Sends(Reply("sasl final", 0)) /\ stage' = "verifying" /\ Same /\ seen' = seen
         \/ /\ stage = "verifying" /\ fromServer[1].type = "sasl verified"
            /\ toServer' = toServer /\ stage' = "authenticating" /\ Same /\ seen' = seen
         \/ /\ stage \in {"sasl", "verifying"} /\ Threw /\ toServer' = toServer
            /\ fromServer[1].type \notin {"sasl continue", "sasl verified"}
  BY <1>r, <1>t DEF PgSasl, Kept, Same, SameCall
<1>k. /\ pending' = pending /\ durable' = durable /\ refused' = refused /\ body' = body
      /\ dialect' = dialect /\ lost' = lost /\ session' = session /\ tx' = tx
      /\ open' = open /\ stage # "idle"
      /\ \/ count' = count /\ purpose' = purpose /\ sql' = sql
         \/ RollsBack /\ purpose' = "rollback" /\ count < MaxStatements /\ count' = count + 1
  BY <1>f DEF Kept, Same, SameCall, Threw, Resolved, TellsOk, TellsError, Tells,
     RollsBack, GoesOn
<1>1. ToServerSound'
  <2>0. /\ ~isConnected /\ purpose \in {"single", "begin"} /\ behind = 0
        /\ statementCache = {} /\ nested = 0
    BY <1>f DEF IInv, CallType, CallSound, StageSound, ConnectSound
  <2>1. ~isConnected'
    BY <1>f, <2>0 DEF Kept
  <2>2. CASE Sends(Reply("sasl final", 0)) /\ Same
    <3>1. UsedBefore /\ count' = count
      BY <2>1, <2>2 DEF Same, SameCall, UsedBefore
    <3>2. "sasl final" \notin Sql
      BY DEF Sql
    <3>3. dialect' = "pg" /\ isConnected' /\ ~lost' => FALSE
      BY <2>1
    <3>4. 0 <= count
      BY <1>n
    <3>5. Sends(Reply("sasl final", 0)) /\ count' = count
      BY <2>2, <3>1
    <3> QED BY <1>m1, <3>1, <3>2, <3>3, <3>4, <3>5, ToServerSends
  <2>3. CASE toServer' = toServer
    BY <1>c, <2>1, <2>3, ToServerStays DEF UsedBefore
  <2> QED BY <1>f, <2>2, <2>3
<1>2. FromServerSound'
  BY <1>c, <1>e, FromServerReads
<1>3. KnownSound'
  BY <1>n, <1>k DEF IInv, KnownSound
<1>4. CallType'
  <2>1. dialect' \in Dialects /\ use' \in Uses /\ open' \in BOOLEAN /\ isConnected' \in BOOLEAN /\ lost' \in BOOLEAN
    BY <1>f DEF IInv, CallType, Kept, Same, SameCall, Threw, Resolved, TellsOk,
       TellsError, Tells, RollsBack, GoesOn
  <2>2. stage' \in Stage
    BY <1>f DEF IInv, CallType, Stage, Kept, Same, SameCall, Threw, Resolved, TellsOk,
       TellsError, Tells, RollsBack, GoesOn
  <2>3. columns' \in BOOLEAN
    BY <1>f DEF IInv, CallType, Kept, Same, SameCall, Threw, Resolved, TellsOk,
       TellsError, Tells, RollsBack, GoesOn
  <2>4. /\ call' \in {"execute", "stream"} /\ sql' \in Sql
        /\ purpose' \in {"single", "begin", "body", "commit", "rollback"}
    BY <1>f DEF IInv, CallType, Sql, Kept, Same, SameCall, Threw, Resolved, TellsOk,
       TellsError, Tells, RollsBack, GoesOn
  <2>5. course' \in {"in step", "behind", "caught", "nested"} /\ told' \in {"none", "ok", "error"}
        /\ nested' \in Nat
    BY <1>f DEF IInv, CallType, Kept, Same, SameCall, Threw, Resolved, TellsOk,
       TellsError, Tells, RollsBack, GoesOn
  <2> QED BY <2>1, <2>2, <2>3, <2>4, <2>5 DEF CallType
<1>5. NumberType'
  <2>1. count' \in 0 .. MaxStatements
    BY <1>n, <1>k
  <2>2. behind' \in Nat
    BY <1>n, <1>f
  <2>3. seen' \subseteq 0 .. count'
    <3>1. seen' \subseteq seen \cup {fromServer[1].of} /\ seen \subseteq 0 .. count
      BY <1>f DEF IInv, NumberType, Kept, Same, SameCall, Threw, Resolved, TellsOk,
         TellsError, Tells, RollsBack, GoesOn
    <3> QED BY <1>n, <1>c, <1>r, <3>1
  <2>4. (pending \cup durable \cup refused \cup body \subseteq 1 .. MaxStatements)'
    BY <1>k DEF IInv, NumberType
  <2> QED BY <2>1, <2>2, <2>3, <2>4 DEF NumberType
<1>6. ServerType'
  BY <1>f DEF IInv, Kept, Same, SameCall, Threw, Resolved, TellsOk, TellsError, Tells,
     RollsBack, GoesOn, ServerType, CallType
<1>7. StageSound'
  BY <1>f DEF IInv, Kept, Same, SameCall, Threw, Resolved, TellsOk, TellsError, Tells,
     RollsBack, GoesOn, StageSound, CallSound
<1>8. CallSound'
  BY <1>f DEF IInv, Kept, Same, SameCall, Threw, Resolved, TellsOk, TellsError, Tells,
     RollsBack, GoesOn, CallSound, StageSound
<1>9. BodyCounted'
  <2>1. CASE Threw
    BY <1>k, <2>1, BodyCountedThrows
  <2>2. CASE ~Threw
    <3>1. /\ course' = "in step" => course = "in step"
          /\ count' = count /\ purpose' = purpose /\ body' = body
      BY <1>f, <1>k, <2>2 DEF Same, SameCall, Resolved, TellsOk, TellsError, Tells, GoesOn
    <3> QED BY <1>k, <3>1 DEF IInv, BodyCounted
  <2> QED BY <2>1, <2>2
<1>10. SessionSound'
  BY <1>n, <1>c, <1>r, <1>q, <1>w, <1>s, <1>m1, <1>f, <1>k DEF IInv, Kept, Same,
     SameCall, Threw, Resolved, TellsOk, TellsError, Tells, RollsBack, GoesOn,
     SessionSound, StageSound, ConnectSound, Only, EndsIn
<1>11. ConnectSound'
  <2>0. /\ ~isConnected /\ purpose \in {"single", "begin"} /\ behind = 0
        /\ statementCache = {} /\ nested = 0
    BY <1>f DEF IInv, CallType, CallSound, StageSound, ConnectSound
  <2>1. /\ behind' = 0 /\ statementCache' = {} /\ lost' = lost /\ session' = session /\ open'
        /\ dialect' = "pg" /\ ~isConnected'
    BY <1>f, <2>0 DEF IInv, StageSound, Kept
  <2> SUFFICES ASSUME ~lost PROVE ConnectSound'
    BY <2>1 DEF ConnectSound
  <2>2. \/ /\ stage = "sasl" /\ session = "asked" /\ toServer = <<>>
           /\ Only(fromServer, Reply("sasl continue", 0))
        \/ /\ stage = "verifying" /\ toServer = <<>> /\ session = "ready"
           /\ EndsIn(fromServer, {"ready"})
           /\ Len(fromServer) > 1 /\ fromServer[1].type = "sasl verified"
           /\ \A i \in 2 .. Len(fromServer) :
                fromServer[i].type \in {"auth ok", "parameter", "ready"}
    BY <1>f, <1>r, <2>0 DEF IInv, ConnectSound
  <2>3. CASE stage = "sasl"
    <3>1. /\ session = "asked" /\ toServer = <<>> /\ Only(fromServer, Reply("sasl continue", 0))
      BY <2>2, <2>3
    <3>2. fromServer[1].type = "sasl continue" /\ fromServer' = <<>>
      BY <1>q, <3>1, OnlyType
    <3>3. Sends(Reply("sasl final", 0)) /\ stage' = "verifying"
      BY <1>f, <2>3, <3>2
    <3>4. Only(toServer', Reply("sasl final", 0))
      BY <1>s, <1>m1, <3>1, <3>3
    <3> QED BY <2>1, <3>1, <3>2, <3>3, <3>4 DEF ConnectSound
  <2>4. CASE stage = "verifying"
    <3>1. /\ toServer = <<>> /\ session = "ready" /\ EndsIn(fromServer, {"ready"})
          /\ Len(fromServer) > 1 /\ fromServer[1].type = "sasl verified"
          /\ \A i \in 2 .. Len(fromServer) :
               fromServer[i].type \in {"auth ok", "parameter", "ready"}
      BY <2>2, <2>4
    <3>2. toServer' = toServer /\ stage' = "authenticating"
      BY <1>f, <2>4, <3>1
    <3>3. EndsIn(fromServer', {"ready"})
      <4>1. fromServer[1].type \notin {"ready"}
        BY <3>1
      <4> QED BY <1>q, <3>1, <4>1, ReadsEnds
    <3>4. \A i \in 1 .. Len(fromServer') :
            fromServer'[i].type \in {"auth ok", "parameter", "ready"}
      <4> SUFFICES ASSUME NEW i \in 1 .. Len(fromServer')
                   PROVE  fromServer'[i].type \in {"auth ok", "parameter", "ready"}
        OBVIOUS
      <4>1. fromServer'[i] = fromServer[i + 1] /\ i + 1 \in 2 .. Len(fromServer)
        BY <1>r
      <4> QED BY <3>1, <4>1
    <3> QED BY <2>1, <3>1, <3>2, <3>3, <3>4 DEF ConnectSound
  <2> QED BY <1>f, <2>3, <2>4
<1>12. UnreadCounted'
  BY <1>n, <1>c, <1>r, <1>q, <1>w, <1>s, <1>m1, <1>f, <1>k DEF IInv, Kept, Same,
     SameCall, Threw, Resolved, TellsOk, TellsError, Tells, RollsBack, GoesOn,
     UnreadCounted, StageSound, ConnectSound, EndsIn, Quiet
<1>13. InStep'
  BY <1>n, <1>c, <1>r, <1>q, <1>w, <1>s, <1>m1, <1>f, <1>k DEF IInv, Kept, Same,
     SameCall, Threw, Resolved, TellsOk, TellsError, Tells, RollsBack, GoesOn, InStep,
     Owed, Own, Only, EndsIn, LastOf, Quiet, ConnectSound, StageSound, CallType
<1>14. OwnSeen'
  BY <1>n, <1>c, <1>r, <1>q, <1>w, <1>s, <1>m1, <1>f, <1>k DEF IInv, Kept, Same,
     SameCall, Threw, Resolved, TellsOk, TellsError, Tells, RollsBack, GoesOn, OwnSeen,
     InStep, Own, EndsIn, ConnectSound, Only, StageSound
<1>15. BodySound'
  BY <1>n, <1>c, <1>r, <1>q, <1>w, <1>s, <1>m1, <1>f, <1>k DEF IInv, Kept, Same,
     SameCall, Threw, Resolved, TellsOk, TellsError, Tells, RollsBack, GoesOn,
     BodySound, UnderWay, Executed, Failed, NoneRefused, InStep, Owed, Only, EndsIn,
     LastOf, Quiet, StageSound, CallSound, BodyCounted
<1>16. GaveUpSound'
  <2>0. /\ ~isConnected /\ purpose \in {"single", "begin"} /\ behind = 0
        /\ statementCache = {} /\ nested = 0
    BY <1>f DEF IInv, CallType, CallSound, StageSound, ConnectSound
  <2>1. CASE toServer' = toServer
    <3>1. OnlyReads
      BY <1>f, <2>1 DEF OnlyReads, Kept
    <3>2. CASE Threw
      BY <1>f, <1>k, <2>0, <3>1, <3>2, GaveUpThrows
    <3>3. CASE Same
      BY <2>0, <3>1, <3>3, GaveUpStays DEF Same
    <3> QED BY <1>f, <1>s, <1>m1, <2>1, <3>2, <3>3
  <2>2. CASE Sends(Reply("sasl final", 0)) /\ Same
    <3>1. behind' = behind
      BY <1>f
    <3>2. 0 \notin body
      BY <1>n DEF IInv, KnownSound
    <3> QED BY <1>k, <1>m1, <2>0, <2>2, <3>1, <3>2, GaveUpSends DEF Same, SameCall
  <2> QED BY <1>f, <2>1, <2>2
<1>17. CommitSound'
  BY <1>n, <1>c, <1>r, <1>q, <1>w, <1>s, <1>m1, <1>f, <1>k DEF IInv, Kept, Same,
     SameCall, Threw, Resolved, TellsOk, TellsError, Tells, RollsBack, GoesOn,
     CommitSound, NoneRefused, BodySound, UnderWay, Executed, Failed, InStep, Owed,
     EndsIn, LastOf, Only, CallSound
<1> QED BY <1>1, <1>2, <1>3, <1>4, <1>5, <1>6, <1>7, <1>8, <1>9, <1>10, <1>11, <1>12,
           <1>13, <1>14, <1>15, <1>16, <1>17 DEF IInv

\* The handshake was the only packet.
LEMMA MysqlGreetingIInv ==
  ASSUME IInv, MysqlGreeting
  PROVE  IInv'
<1> USE DEF vars, conn, wire, server, outcome, statement
<1>n. /\ count \in Nat /\ MaxStatements \in Nat /\ count <= MaxStatements
      /\ behind \in Nat /\ count + 1 \notin pending \cup durable \cup refused \cup body
      /\ \A i \in 1 .. Len(toServer) : toServer[i].of \in Nat
      /\ \A i \in 1 .. Len(fromServer) : fromServer[i].of \in Nat
  BY Numbers
<1>r. \A x : Reads(x) =>
        /\ fromServer # <<>> /\ x = fromServer[1] /\ x \in Message
        /\ x.type \in Type /\ x.of \in Nat
        /\ Len(fromServer) \in Nat /\ Len(fromServer) >= 1
        /\ fromServer' \in Seq(Message) /\ Len(fromServer') = Len(fromServer) - 1
        /\ \A i \in 1 .. Len(fromServer') :
             fromServer'[i] = fromServer[i + 1] /\ i + 1 \in 1 .. Len(fromServer)
        /\ fromServer' = <<>> <=> Len(fromServer) = 1
  BY ReadsFacts DEF IInv, FromServerSound
<1>s. \A m \in Message : Sends(m) =>
        /\ Len(toServer) \in Nat
        /\ toServer' \in Seq(Message) /\ Len(toServer') = Len(toServer) + 1
        /\ toServer'[Len(toServer) + 1] = m
        /\ \A i \in 1 .. Len(toServer) : toServer'[i] = toServer[i]
        /\ toServer' # <<>>
        /\ toServer = <<>> => Only(toServer', m)
  BY SendsFacts DEF IInv, ToServerSound
<1>m1. Reply("login", 0) \in Message /\ Reply("login", 0).type = "login" /\ Reply("login", 0).of = 0
  <2>1. "login" \in Type
    BY DEF Type
  <2> QED BY <2>1, ReplyType
<1>e. (\E x : Reads(x))
  BY DEF MysqlGreeting
<1>c. count' \in {count, count + 1}
  BY DEF MysqlGreeting
<1>1. ToServerSound'
  <2>1. Sends(Reply("login", 0)) /\ UsedBefore /\ count' = count
    BY DEF MysqlGreeting, UsedBefore
  <2>2. dialect' = "pg" /\ isConnected' /\ ~lost' => FALSE
    BY DEF IInv, StageSound, MysqlGreeting
  <2>3. "login" \notin Sql
    BY DEF Sql
  <2> QED BY <1>m1, <1>n, <2>1, <2>2, <2>3, ToServerSends
<1>2. FromServerSound'
  BY <1>c, <1>e, FromServerReads
<1>3. KnownSound'
  BY <1>n, <1>c DEF IInv, MysqlGreeting, KnownSound
<1>4. CallType'
  <2>1. dialect' \in Dialects /\ use' \in Uses /\ open' \in BOOLEAN /\ isConnected' \in BOOLEAN /\ lost' \in BOOLEAN
    BY DEF IInv, CallType, MysqlGreeting
  <2>2. stage' \in Stage
    BY DEF IInv, CallType, Stage, MysqlGreeting
  <2>3. columns' \in BOOLEAN
    BY DEF IInv, CallType, MysqlGreeting
  <2>4. /\ call' \in {"execute", "stream"} /\ sql' \in Sql
        /\ purpose' \in {"single", "begin", "body", "commit", "rollback"}
    BY DEF IInv, CallType, Sql, MysqlGreeting
  <2>5. course' \in {"in step", "behind", "caught", "nested"} /\ told' \in {"none", "ok", "error"}
        /\ nested' \in Nat
    BY DEF IInv, CallType, MysqlGreeting
  <2> QED BY <2>1, <2>2, <2>3, <2>4, <2>5 DEF CallType
<1>5. NumberType'
  <2>1. count' \in 0 .. MaxStatements /\ behind' \in Nat
    BY <1>n, <1>c DEF MysqlGreeting
  <2>2. seen' \subseteq 0 .. count'
    BY <1>n, <1>c, FromServerReads DEF IInv, NumberType, MysqlGreeting
  <2>3. (pending \cup durable \cup refused \cup body \subseteq 1 .. MaxStatements)'
    BY <1>n, <1>c DEF IInv, NumberType, MysqlGreeting
  <2> QED BY <2>1, <2>2, <2>3 DEF NumberType
<1>6. ServerType'
  BY DEF IInv, MysqlGreeting, ServerType, CallType
<1>7. StageSound'
  BY DEF IInv, MysqlGreeting, StageSound, CallSound
<1>8. CallSound'
  BY DEF IInv, MysqlGreeting, CallSound, StageSound
<1>9. BodyCounted'
  BY <1>n, <1>c DEF IInv, MysqlGreeting, BodyCounted, CallSound, KnownSound
<1>10. SessionSound'
  BY <1>n, <1>r, <1>s, <1>m1, <1>e, <1>c DEF IInv, MysqlGreeting, SessionSound,
     StageSound, ConnectSound, Only, EndsIn
<1>11. ConnectSound'
  BY <1>n, <1>r, <1>s, <1>m1, <1>e, <1>c DEF IInv, MysqlGreeting, ConnectSound,
     StageSound, CallSound, CallType, Only, EndsIn, Quiet
<1>12. UnreadCounted'
  BY <1>n, <1>r, <1>s, <1>m1, <1>e, <1>c DEF IInv, MysqlGreeting, UnreadCounted,
     StageSound, ConnectSound, EndsIn, Quiet
<1>13. InStep'
  BY <1>n, <1>r, <1>s, <1>m1, <1>e, <1>c DEF IInv, MysqlGreeting, InStep, Owed, Own,
     Only, EndsIn, LastOf, Quiet, ConnectSound, StageSound, CallType
<1>14. OwnSeen'
  BY <1>n, <1>r, <1>s, <1>m1, <1>e, <1>c DEF IInv, MysqlGreeting, OwnSeen, InStep, Own,
     EndsIn, ConnectSound, Only, StageSound
<1>15. BodySound'
  BY <1>n, <1>r, <1>s, <1>m1, <1>e, <1>c DEF IInv, MysqlGreeting, BodySound, UnderWay,
     Executed, Failed, NoneRefused, InStep, Owed, Only, EndsIn, LastOf, Quiet,
     StageSound, CallSound, BodyCounted
<1>16. GaveUpSound'
  <2>1. /\ Sends(Reply("login", 0)) /\ body' = body /\ pending' = pending /\ durable' = durable
        /\ course' = course /\ told' = told /\ purpose' = purpose /\ lost' = lost
        /\ behind' = behind /\ dialect' = dialect
    BY DEF MysqlGreeting
  <2>2. 0 \notin body /\ purpose # "rollback"
    <3>1. stage = "greeting" /\ KnownSound /\ StageSound /\ CallSound
      BY DEF IInv, MysqlGreeting
    <3>2. ~isConnected /\ purpose # "rollback"
      BY <3>1 DEF StageSound, CallSound
    <3>3. 0 \notin body
      BY <1>n, <3>1 DEF KnownSound
    <3> QED BY <3>2, <3>3
  <2> QED BY <1>m1, <2>1, <2>2, GaveUpSends
<1>17. CommitSound'
  BY <1>n, <1>r, <1>s, <1>m1, <1>e, <1>c DEF IInv, MysqlGreeting, CommitSound,
     NoneRefused, BodySound, UnderWay, Executed, Failed, InStep, Owed, EndsIn, LastOf,
     Only, CallSound
<1> QED BY <1>1, <1>2, <1>3, <1>4, <1>5, <1>6, <1>7, <1>8, <1>9, <1>10, <1>11, <1>12,
           <1>13, <1>14, <1>15, <1>16, <1>17 DEF IInv

\* Any answer but an error ends connect(), also the one that asks for more.
LEMMA MysqlAuthenticateIInv ==
  ASSUME IInv, MysqlAuthenticate
  PROVE  IInv'
<1> USE DEF vars, conn, wire, server, outcome, statement
<1>n. /\ count \in Nat /\ MaxStatements \in Nat /\ count <= MaxStatements
      /\ behind \in Nat /\ count + 1 \notin pending \cup durable \cup refused \cup body
      /\ \A i \in 1 .. Len(toServer) : toServer[i].of \in Nat
      /\ \A i \in 1 .. Len(fromServer) : fromServer[i].of \in Nat
  BY Numbers
<1>c. count' \in {count, count + 1}
  BY DEF MysqlAuthenticate, Throws, Tell, Returns, Issue
<1>e. \E x : Reads(x)
  BY DEF MysqlAuthenticate
<1>r. /\ \A x : Reads(x) => x = fromServer[1]
      /\ Reads(fromServer[1]) /\ fromServer # <<>>
      /\ fromServer[1] \in Message /\ fromServer[1].of \in 0 .. count
      /\ Len(fromServer) \in Nat /\ Len(fromServer) >= 1
      /\ fromServer' \in Seq(Message) /\ Len(fromServer') = Len(fromServer) - 1
      /\ \A i \in 1 .. Len(fromServer') :
           fromServer'[i] = fromServer[i + 1] /\ i + 1 \in 1 .. Len(fromServer)
      /\ fromServer' = <<>> <=> Len(fromServer) = 1
  BY <1>e, <1>c, ReadsFacts, FromServerReads DEF IInv, FromServerSound
<1>q. /\ Reads(fromServer[1]) /\ fromServer # <<>> /\ FromServerSound
      /\ fromServer' = <<>> <=> Len(fromServer) = 1
  BY <1>r DEF IInv
<1>w. Len(fromServer) \in Nat /\ Len(fromServer') = Len(fromServer) - 1 /\ 1 \in 1 .. Len(fromServer)
  BY <1>r
<1>t. Throws => Threw
  BY ThrowsCases DEF Threw
<1>f. /\ stage = "authenticating" /\ dialect = "mysql" /\ toServer' = toServer
      /\ dialect' = dialect /\ use' = use /\ open' = open /\ lost' = lost
      /\ session' = session /\ tx' = tx /\ pending' = pending /\ durable' = durable
      /\ refused' = refused /\ statementCache' = statementCache /\ behind' = behind
      /\ \/ fromServer[1].type = "error" /\ Threw /\ isConnected' = isConnected
         \/ /\ fromServer[1].type # "error" /\ isConnected' = TRUE /\ stage' = "writing"
            /\ Same /\ seen' = seen
  BY <1>r, <1>t DEF MysqlAuthenticate, Kept, Same, SameCall
<1>k. /\ pending' = pending /\ durable' = durable /\ refused' = refused /\ body' = body
      /\ dialect' = dialect /\ lost' = lost /\ session' = session /\ tx' = tx
      /\ open' = open /\ stage # "idle"
      /\ \/ count' = count /\ purpose' = purpose /\ sql' = sql
         \/ RollsBack /\ purpose' = "rollback" /\ count < MaxStatements /\ count' = count + 1
  BY <1>f DEF Kept, Same, SameCall, Threw, Resolved, TellsOk, TellsError, Tells,
     RollsBack, GoesOn
<1>1. ToServerSound'
  <2>1. toServer' = toServer /\ UsedBefore
    BY <1>f DEF UsedBefore, Kept, Same, SameCall, Threw, Resolved, TellsOk, TellsError,
       Tells, RollsBack, GoesOn
  <2> QED BY <1>c, <2>1, ToServerStays
<1>2. FromServerSound'
  BY <1>c, <1>e, FromServerReads
<1>3. KnownSound'
  BY <1>n, <1>k DEF IInv, KnownSound
<1>4. CallType'
  <2>1. dialect' \in Dialects /\ use' \in Uses /\ open' \in BOOLEAN /\ isConnected' \in BOOLEAN /\ lost' \in BOOLEAN
    BY <1>f DEF IInv, CallType, Kept, Same, SameCall, Threw, Resolved, TellsOk,
       TellsError, Tells, RollsBack, GoesOn
  <2>2. stage' \in Stage
    BY <1>f DEF IInv, CallType, Stage, Kept, Same, SameCall, Threw, Resolved, TellsOk,
       TellsError, Tells, RollsBack, GoesOn
  <2>3. columns' \in BOOLEAN
    BY <1>f DEF IInv, CallType, Kept, Same, SameCall, Threw, Resolved, TellsOk,
       TellsError, Tells, RollsBack, GoesOn
  <2>4. /\ call' \in {"execute", "stream"} /\ sql' \in Sql
        /\ purpose' \in {"single", "begin", "body", "commit", "rollback"}
    BY <1>f DEF IInv, CallType, Sql, Kept, Same, SameCall, Threw, Resolved, TellsOk,
       TellsError, Tells, RollsBack, GoesOn
  <2>5. course' \in {"in step", "behind", "caught", "nested"} /\ told' \in {"none", "ok", "error"}
        /\ nested' \in Nat
    BY <1>f DEF IInv, CallType, Kept, Same, SameCall, Threw, Resolved, TellsOk,
       TellsError, Tells, RollsBack, GoesOn
  <2> QED BY <2>1, <2>2, <2>3, <2>4, <2>5 DEF CallType
<1>5. NumberType'
  <2>1. count' \in 0 .. MaxStatements
    BY <1>n, <1>k
  <2>2. behind' \in Nat
    BY <1>n, <1>f
  <2>3. seen' \subseteq 0 .. count'
    <3>1. seen' \subseteq seen \cup {fromServer[1].of} /\ seen \subseteq 0 .. count
      BY <1>f DEF IInv, NumberType, Kept, Same, SameCall, Threw, Resolved, TellsOk,
         TellsError, Tells, RollsBack, GoesOn
    <3> QED BY <1>n, <1>c, <1>r, <3>1
  <2>4. (pending \cup durable \cup refused \cup body \subseteq 1 .. MaxStatements)'
    BY <1>k DEF IInv, NumberType
  <2> QED BY <2>1, <2>2, <2>3, <2>4 DEF NumberType
<1>6. ServerType'
  BY <1>f DEF IInv, Kept, Same, SameCall, Threw, Resolved, TellsOk, TellsError, Tells,
     RollsBack, GoesOn, ServerType, CallType
<1>7. StageSound'
  BY <1>f DEF IInv, Kept, Same, SameCall, Threw, Resolved, TellsOk, TellsError, Tells,
     RollsBack, GoesOn, StageSound, CallSound
<1>8. CallSound'
  BY <1>f DEF IInv, Kept, Same, SameCall, Threw, Resolved, TellsOk, TellsError, Tells,
     RollsBack, GoesOn, CallSound, StageSound
<1>9. BodyCounted'
  <2>1. CASE Threw
    BY <1>k, <2>1, BodyCountedThrows
  <2>2. CASE ~Threw
    <3>1. /\ course' = "in step" => course = "in step"
          /\ count' = count /\ purpose' = purpose /\ body' = body
      BY <1>f, <1>k, <2>2 DEF Same, SameCall, Resolved, TellsOk, TellsError, Tells, GoesOn
    <3> QED BY <1>k, <3>1 DEF IInv, BodyCounted
  <2> QED BY <2>1, <2>2
<1>10. SessionSound'
  BY <1>n, <1>c, <1>r, <1>q, <1>w, <1>f, <1>k DEF IInv, Kept, Same, SameCall, Threw,
     Resolved, TellsOk, TellsError, Tells, RollsBack, GoesOn, SessionSound, StageSound,
     ConnectSound, Only, EndsIn
<1>11. ConnectSound'
  <2> SUFFICES ASSUME ~isConnected' PROVE ConnectSound'
    BY DEF ConnectSound
  <2>1. behind' = 0 /\ statementCache' = {} /\ lost' = lost /\ Threw
    BY <1>f DEF IInv, ConnectSound, StageSound
  <2>2. lost
    BY <1>f, <1>r, <2>1 DEF IInv, ConnectSound, StageSound, Only
  <2> QED BY <2>1, <2>2 DEF ConnectSound
<1>12. UnreadCounted'
  BY <1>n, <1>c, <1>r, <1>q, <1>w, <1>f, <1>k DEF IInv, Kept, Same, SameCall, Threw,
     Resolved, TellsOk, TellsError, Tells, RollsBack, GoesOn, UnreadCounted,
     StageSound, ConnectSound, EndsIn, Quiet
<1>13. InStep'
  <2> SUFFICES ASSUME isConnected' PROVE InStep'
    BY DEF InStep
  <2>1. /\ stage' = "writing" /\ lost' = lost /\ toServer' = toServer
        /\ statementCache' = statementCache /\ ~isConnected
    BY <1>f DEF IInv, StageSound
  <2>2. statementCache = {} /\ (~lost => toServer = <<>> /\ Len(fromServer) = 1)
    BY <1>f, <1>r, <2>1 DEF IInv, ConnectSound, Only
  <2> QED BY <1>r, <2>1, <2>2 DEF InStep, Quiet
<1>14. OwnSeen'
  BY <1>n, <1>c, <1>r, <1>q, <1>w, <1>f, <1>k DEF IInv, Kept, Same, SameCall, Threw,
     Resolved, TellsOk, TellsError, Tells, RollsBack, GoesOn, OwnSeen, InStep, Own,
     EndsIn, ConnectSound, Only, StageSound
<1>15. BodySound'
  BY <1>n, <1>c, <1>r, <1>q, <1>w, <1>f, <1>k DEF IInv, Kept, Same, SameCall, Threw,
     Resolved, TellsOk, TellsError, Tells, RollsBack, GoesOn, BodySound, UnderWay,
     Executed, Failed, NoneRefused, InStep, Owed, Only, EndsIn, LastOf, Quiet,
     StageSound, CallSound, BodyCounted
<1>16. GaveUpSound'
  <2>1. OnlyReads
    BY <1>f DEF OnlyReads, Kept
  <2>2. purpose \in {"single", "begin"}
    BY <1>f DEF IInv, CallType, CallSound, StageSound
  <2>3. CASE Threw
    BY <1>f, <2>1, <2>2, <2>3, GaveUpThrows
  <2>4. CASE Same
    BY <2>1, <2>2, <2>4, GaveUpStays DEF Same
  <2> QED BY <1>f, <2>3, <2>4
<1>17. CommitSound'
  BY <1>n, <1>c, <1>r, <1>q, <1>w, <1>f, <1>k DEF IInv, Kept, Same, SameCall, Threw,
     Resolved, TellsOk, TellsError, Tells, RollsBack, GoesOn, CommitSound, NoneRefused,
     BodySound, UnderWay, Executed, Failed, InStep, Owed, EndsIn, LastOf, Only, CallSound
<1> QED BY <1>1, <1>2, <1>3, <1>4, <1>5, <1>6, <1>7, <1>8, <1>9, <1>10, <1>11, <1>12,
           <1>13, <1>14, <1>15, <1>16, <1>17 DEF IInv

\* A statement is sent: one more answer is owed.
LEMMA PgWriteIInv ==
  ASSUME IInv, PgWrite
  PROVE  IInv'
<1> USE DEF vars, conn, wire, server, outcome, statement
<1>n. /\ count \in Nat /\ MaxStatements \in Nat /\ count <= MaxStatements
      /\ behind \in Nat /\ count + 1 \notin pending \cup durable \cup refused \cup body
      /\ \A i \in 1 .. Len(toServer) : toServer[i].of \in Nat
      /\ \A i \in 1 .. Len(fromServer) : fromServer[i].of \in Nat
  BY Numbers
<1>s. \A m \in Message : Sends(m) =>
        /\ Len(toServer) \in Nat
        /\ toServer' \in Seq(Message) /\ Len(toServer') = Len(toServer) + 1
        /\ toServer'[Len(toServer) + 1] = m
        /\ \A i \in 1 .. Len(toServer) : toServer'[i] = toServer[i]
        /\ toServer' # <<>>
        /\ toServer = <<>> => Only(toServer', m)
  BY SendsFacts DEF IInv, ToServerSound
<1>m1. Reply(sql, count) \in Message /\ Reply(sql, count).type = sql /\ Reply(sql, count).of = count
  <2>1. sql \in Type
    BY DEF IInv, CallType, Type
  <2> QED BY <1>n, <2>1, ReplyType
<1>c. count' \in {count, count + 1}
  BY DEF PgWrite
<1>1. ToServerSound'
  <2>1. Sends(Reply(sql, count)) /\ UsedBefore /\ count' = count
    BY DEF PgWrite, UsedBefore
  <2>2. count > 0 /\ sql \in Sql
    BY <1>n DEF IInv, BodyCounted, CallType, PgWrite
  <2> QED BY <1>m1, <1>n, <2>1, <2>2, ToServerSends
<1>2. FromServerSound'
  <2>1. fromServer' = fromServer
    BY DEF PgWrite
  <2> QED BY <1>c, <2>1, FromServerStays
<1>3. KnownSound'
  BY <1>n, <1>c DEF IInv, PgWrite, KnownSound
<1>4. CallType'
  <2>1. dialect' \in Dialects /\ use' \in Uses /\ open' \in BOOLEAN /\ isConnected' \in BOOLEAN /\ lost' \in BOOLEAN
    BY DEF IInv, CallType, PgWrite
  <2>2. stage' \in Stage
    BY DEF IInv, CallType, Stage, PgWrite
  <2>3. columns' \in BOOLEAN
    BY DEF IInv, CallType, PgWrite
  <2>4. /\ call' \in {"execute", "stream"} /\ sql' \in Sql
        /\ purpose' \in {"single", "begin", "body", "commit", "rollback"}
    BY DEF IInv, CallType, Sql, PgWrite
  <2>5. course' \in {"in step", "behind", "caught", "nested"} /\ told' \in {"none", "ok", "error"}
        /\ nested' \in Nat
    BY DEF IInv, CallType, PgWrite
  <2> QED BY <2>1, <2>2, <2>3, <2>4, <2>5 DEF CallType
<1>5. NumberType'
  <2>1. count' \in 0 .. MaxStatements /\ behind' \in Nat
    BY <1>n, <1>c DEF PgWrite
  <2>2. seen' \subseteq 0 .. count'
    BY <1>n, <1>c DEF IInv, NumberType, PgWrite
  <2>3. (pending \cup durable \cup refused \cup body \subseteq 1 .. MaxStatements)'
    BY <1>n, <1>c DEF IInv, NumberType, PgWrite
  <2> QED BY <2>1, <2>2, <2>3 DEF NumberType
<1>6. ServerType'
  BY DEF IInv, PgWrite, ServerType, CallType
<1>7. StageSound'
  BY DEF IInv, PgWrite, StageSound, CallSound
<1>8. CallSound'
  BY DEF IInv, PgWrite, CallSound, StageSound
<1>9. BodyCounted'
  BY <1>n, <1>c DEF IInv, PgWrite, BodyCounted, CallSound, KnownSound
<1>10. SessionSound'
  BY <1>n, <1>s, <1>m1, <1>c DEF IInv, PgWrite, SessionSound, StageSound, ConnectSound,
     Only, EndsIn
<1>11. ConnectSound'
  BY <1>n, <1>s, <1>m1, <1>c DEF IInv, PgWrite, ConnectSound, StageSound, CallSound,
     CallType, Only, EndsIn, Quiet
<1>12. UnreadCounted'
  <2>1. Unread \in Nat /\ Unread' = Unread + 1
    BY <1>m1, UnreadSends DEF PgWrite
  <2>2. /\ stage = "writing" /\ dialect = "pg" /\ isConnected' = isConnected /\ lost' = lost
        /\ behind' = behind /\ stage' = "reading"
    BY DEF PgWrite
  <2>3. UnreadCounted
    BY DEF IInv
  <2>4. isConnected' /\ ~lost' => Unread = behind + 0
    BY <2>2, <2>3 DEF UnreadCounted
  <2>5. behind \in Nat
    BY <1>n
  <2>6. isConnected' /\ ~lost' => Unread' = behind' + 1
    BY <2>1, <2>2, <2>4, <2>5
  <2> QED BY <2>2, <2>6 DEF UnreadCounted
<1>13. InStep'
  BY <1>n, <1>s, <1>m1, <1>c DEF IInv, PgWrite, InStep, Owed, Own, Only, EndsIn,
     LastOf, Quiet, ConnectSound, StageSound, CallType
<1>14. OwnSeen'
  BY <1>n, <1>s, <1>m1, <1>c DEF IInv, PgWrite, OwnSeen, InStep, Own, EndsIn,
     ConnectSound, Only, StageSound
<1>15. BodySound'
  BY <1>n, <1>s, <1>m1, <1>c DEF IInv, PgWrite, BodySound, UnderWay, Executed, Failed,
     NoneRefused, InStep, Owed, Only, EndsIn, LastOf, Quiet, StageSound, CallSound,
     BodyCounted
<1>16. GaveUpSound'
  <2>1. /\ Sends(Reply(sql, count)) /\ body' = body /\ pending' = pending /\ durable' = durable
        /\ course' = course /\ told' = told /\ purpose' = purpose /\ lost' = lost
        /\ behind' = behind /\ dialect' = dialect
    BY DEF PgWrite
  <2>2. GaveUp => count \notin body
    BY DEF IInv, BodyCounted, CallSound, GaveUp, PgWrite
  <2>3. purpose = "rollback" => sql = "rollback"
    BY DEF IInv, CallSound
  <2>4. stage = "writing"
    BY DEF PgWrite
  <2> QED BY <1>m1, <2>1, <2>2, <2>3, <2>4, GaveUpSends
<1>17. CommitSound'
  BY <1>n, <1>s, <1>m1, <1>c DEF IInv, PgWrite, CommitSound, NoneRefused, BodySound,
     UnderWay, Executed, Failed, InStep, Owed, EndsIn, LastOf, Only, CallSound
<1> QED BY <1>1, <1>2, <1>3, <1>4, <1>5, <1>6, <1>7, <1>8, <1>9, <1>10, <1>11, <1>12,
           <1>13, <1>14, <1>15, <1>16, <1>17 DEF IInv

\* A message is read: ReadyForQuery settles the answer, an error leaves it unread.
LEMMA PgReadIInv ==
  ASSUME IInv, PgRead
  PROVE  IInv'
<1> USE DEF vars, conn, wire, server, outcome, statement
<1>n. /\ count \in Nat /\ MaxStatements \in Nat /\ count <= MaxStatements
      /\ behind \in Nat /\ count + 1 \notin pending \cup durable \cup refused \cup body
      /\ \A i \in 1 .. Len(toServer) : toServer[i].of \in Nat
      /\ \A i \in 1 .. Len(fromServer) : fromServer[i].of \in Nat
  BY Numbers
<1>c. count' \in {count, count + 1}
  BY DEF PgRead, ReadUntil, Throws, Resolves, Tell, Returns, Tell, Returns, Issue
<1>e. \E x : Reads(x)
  BY DEF PgRead, ReadUntil
<1>r. /\ \A x : Reads(x) => x = fromServer[1]
      /\ Reads(fromServer[1]) /\ fromServer # <<>>
      /\ fromServer[1] \in Message /\ fromServer[1].of \in 0 .. count
      /\ Len(fromServer) \in Nat /\ Len(fromServer) >= 1
      /\ fromServer' \in Seq(Message) /\ Len(fromServer') = Len(fromServer) - 1
      /\ \A i \in 1 .. Len(fromServer') :
           fromServer'[i] = fromServer[i + 1] /\ i + 1 \in 1 .. Len(fromServer)
      /\ fromServer' = <<>> <=> Len(fromServer) = 1
  BY <1>e, <1>c, ReadsFacts, FromServerReads DEF IInv, FromServerSound
<1>q. /\ Reads(fromServer[1]) /\ fromServer # <<>> /\ FromServerSound
      /\ fromServer' = <<>> <=> Len(fromServer) = 1
  BY <1>r DEF IInv
<1>w. Len(fromServer) \in Nat /\ Len(fromServer') = Len(fromServer) - 1 /\ 1 \in 1 .. Len(fromServer)
  BY <1>r
<1>t. Throws => Threw
  BY ThrowsCases DEF Threw
<1>v. Resolves => Resolved
  BY ResolvesCases
<1>f. /\ stage = "reading" /\ dialect = "pg" /\ Kept
      /\ toServer' = toServer /\ statementCache' = statementCache
      /\ \/ /\ fromServer[1].type \notin {"row", "error", "ready"}
            /\ seen' = seen \cup {fromServer[1].of} /\ stage' = stage /\ Same /\ behind' = behind
         \/ /\ fromServer[1].type = "row" /\ seen' = seen \cup {fromServer[1].of}
            /\ stage' = IF call = "stream" THEN "yielded" ELSE stage
            /\ Same /\ behind' = behind
         \/ /\ fromServer[1].type = "ready" /\ seen' = seen \cup {fromServer[1].of}
            /\ Resolved /\ behind' = behind
         \/ fromServer[1].type = "error" /\ Threw /\ behind' = behind + 1
  BY <1>r, <1>t, <1>v DEF PgRead, ReadUntil, Kept, Same, SameCall
<1>k. /\ pending' = pending /\ durable' = durable /\ refused' = refused /\ body' = body
      /\ dialect' = dialect /\ lost' = lost /\ session' = session /\ tx' = tx
      /\ open' = open /\ stage # "idle"
      /\ \/ count' = count /\ purpose' = purpose /\ sql' = sql
         \/ RollsBack /\ purpose' = "rollback" /\ count < MaxStatements /\ count' = count + 1
  BY <1>f DEF Kept, Same, SameCall, Threw, Resolved, TellsOk, TellsError, Tells,
     RollsBack, GoesOn
<1>1. ToServerSound'
  <2>1. toServer' = toServer /\ UsedBefore
    BY <1>f DEF UsedBefore, Kept, Same, SameCall, Threw, Resolved, TellsOk, TellsError,
       Tells, RollsBack, GoesOn
  <2> QED BY <1>c, <2>1, ToServerStays
<1>2. FromServerSound'
  BY <1>c, <1>e, FromServerReads
<1>3. KnownSound'
  BY <1>n, <1>k DEF IInv, KnownSound
<1>4. CallType'
  <2>1. dialect' \in Dialects /\ use' \in Uses /\ open' \in BOOLEAN /\ isConnected' \in BOOLEAN /\ lost' \in BOOLEAN
    BY <1>f DEF IInv, CallType, Kept, Same, SameCall, Threw, Resolved, TellsOk,
       TellsError, Tells, RollsBack, GoesOn
  <2>2. stage' \in Stage
    BY <1>f DEF IInv, CallType, Stage, Kept, Same, SameCall, Threw, Resolved, TellsOk,
       TellsError, Tells, RollsBack, GoesOn
  <2>3. columns' \in BOOLEAN
    BY <1>f DEF IInv, CallType, Kept, Same, SameCall, Threw, Resolved, TellsOk,
       TellsError, Tells, RollsBack, GoesOn
  <2>4. /\ call' \in {"execute", "stream"} /\ sql' \in Sql
        /\ purpose' \in {"single", "begin", "body", "commit", "rollback"}
    BY <1>f DEF IInv, CallType, Sql, Kept, Same, SameCall, Threw, Resolved, TellsOk,
       TellsError, Tells, RollsBack, GoesOn
  <2>5. course' \in {"in step", "behind", "caught", "nested"} /\ told' \in {"none", "ok", "error"}
        /\ nested' \in Nat
    BY <1>f DEF IInv, CallType, Kept, Same, SameCall, Threw, Resolved, TellsOk,
       TellsError, Tells, RollsBack, GoesOn
  <2> QED BY <2>1, <2>2, <2>3, <2>4, <2>5 DEF CallType
<1>5. NumberType'
  <2>1. count' \in 0 .. MaxStatements
    BY <1>n, <1>k
  <2>2. behind' \in Nat
    BY <1>n, <1>f
  <2>3. seen' \subseteq 0 .. count'
    <3>1. seen' \subseteq seen \cup {fromServer[1].of} /\ seen \subseteq 0 .. count
      BY <1>f DEF IInv, NumberType, Kept, Same, SameCall, Threw, Resolved, TellsOk,
         TellsError, Tells, RollsBack, GoesOn
    <3> QED BY <1>n, <1>c, <1>r, <3>1
  <2>4. (pending \cup durable \cup refused \cup body \subseteq 1 .. MaxStatements)'
    BY <1>k DEF IInv, NumberType
  <2> QED BY <2>1, <2>2, <2>3, <2>4 DEF NumberType
<1>6. ServerType'
  BY <1>f DEF IInv, Kept, Same, SameCall, Threw, Resolved, TellsOk, TellsError, Tells,
     RollsBack, GoesOn, ServerType, CallType
<1>7. StageSound'
  BY <1>f DEF IInv, Kept, Same, SameCall, Threw, Resolved, TellsOk, TellsError, Tells,
     RollsBack, GoesOn, StageSound, CallSound
<1>8. CallSound'
  <2>1. CASE Threw
    BY <1>f, <1>k, <2>1, CallThrows DEF Kept
  <2>2. CASE Resolved
    BY <1>f, <1>k, <2>2, CallResolves DEF Kept
  <2>3. CASE ~Threw /\ ~Resolved
    <3>1. /\ SameCall /\ isConnected' = isConnected
          /\ stage' \notin {"idle", "callback"} /\ (stage' = "yielded" => call = "stream")
      BY <1>f, <2>3 DEF Kept, Same
    <3>2. stage' = "yielded" /\ purpose # "single" /\ course = "in step" =>
            purpose \in {"begin", "body"}
      BY <3>1 DEF IInv, CallSound
    <3> QED BY <1>k, <3>1, <3>2 DEF IInv, SameCall, CallSound
  <2> QED BY <2>1, <2>2, <2>3
<1>9. BodyCounted'
  <2>1. CASE Threw
    BY <1>k, <2>1, BodyCountedThrows
  <2>2. CASE ~Threw
    <3>1. /\ course' = "in step" => course = "in step"
          /\ count' = count /\ purpose' = purpose /\ body' = body
      BY <1>f, <1>k, <2>2 DEF Same, SameCall, Resolved, TellsOk, TellsError, Tells, GoesOn
    <3> QED BY <1>k, <3>1 DEF IInv, BodyCounted
  <2> QED BY <2>1, <2>2
<1>10. SessionSound'
  BY <1>n, <1>c, <1>r, <1>q, <1>w, <1>f, <1>k DEF IInv, Kept, Same, SameCall, Threw,
     Resolved, TellsOk, TellsError, Tells, RollsBack, GoesOn, SessionSound, StageSound,
     ConnectSound, Only, EndsIn
<1>11. ConnectSound'
  BY <1>n, <1>c, <1>r, <1>q, <1>w, <1>f, <1>k DEF IInv, Kept, Same, SameCall, Threw,
     Resolved, TellsOk, TellsError, Tells, RollsBack, GoesOn, ConnectSound, StageSound,
     CallSound, CallType, Only, EndsIn, Quiet
<1>12. UnreadCounted'
  <2>1. /\ Unread \in Nat /\ Unread' \in Nat
        /\ fromServer[1].type = "ready" => Unread = Unread' + 1
        /\ fromServer[1].type # "ready" => Unread = Unread'
    BY <1>r, <1>f, UnreadReads
  <2>2. isConnected' /\ ~lost' => Unread = behind + 1
    <3>1. stage = "reading" /\ dialect = "pg" /\ isConnected' = isConnected /\ lost' = lost
      BY <1>f DEF Kept
    <3>2. UnreadCounted
      BY DEF IInv
    <3> QED BY <3>1, <3>2 DEF UnreadCounted
  <2>3. \/ /\ fromServer[1].type = "ready" /\ stage' \in {"idle", "callback"} /\ behind' = behind
        \/ /\ fromServer[1].type # "ready" /\ stage' \in {"reading", "yielded"} /\ behind' = behind
        \/ /\ fromServer[1].type = "error" /\ stage' \in {"idle", "callback", "writing"}
           /\ behind' = behind + 1
    BY <1>f DEF Threw, Resolved, TellsOk, TellsError, Tells, RollsBack, GoesOn
  <2>4. isConnected' /\ ~lost' =>
          \/ stage' \in {"reading", "yielded"} /\ Unread' = behind' + 1
          \/ stage' \notin {"reading", "yielded"} /\ Unread' = behind' + 0
    <3>1. CASE fromServer[1].type = "ready" /\ stage' \in {"idle", "callback"} /\ behind' = behind
      <4> SUFFICES ASSUME isConnected', ~lost' PROVE Unread' = behind' + 0
        BY <3>1
      <4>1. Unread = behind + 1 /\ Unread = Unread' + 1
        BY <2>1, <2>2, <3>1
      <4>2. behind' = behind /\ behind \in Nat
        BY <1>n, <3>1
      <4>3. Unread' \in Nat
        BY <2>1
      <4>4. behind + 1 = Unread' + 1
        BY <4>1
      <4>5. Unread' = behind + 0
        BY <4>2, <4>3, <4>4, OneLess
      <4> QED BY <4>2, <4>5
    <3>2. CASE fromServer[1].type # "ready" /\ stage' \in {"reading", "yielded"} /\ behind' = behind
      <4> SUFFICES ASSUME isConnected', ~lost' PROVE Unread' = behind' + 1
        BY <3>2
      <4>1. Unread = behind + 1 /\ Unread = Unread'
        BY <2>1, <2>2, <3>2
      <4>2. behind' = behind
        BY <3>2
      <4> QED BY <4>1, <4>2
    <3>3. CASE /\ fromServer[1].type = "error" /\ stage' \in {"idle", "callback", "writing"}
               /\ behind' = behind + 1
      BY <1>n, <2>1, <2>2, <3>3
    <3> QED BY <2>3, <3>1, <3>2, <3>3
  <2> QED BY <2>4 DEF UnreadCounted
<1>13. InStep'
  <2> SUFFICES ASSUME isConnected', behind' = 0 PROVE InStep'
    BY DEF InStep
  <2>1. /\ behind = 0 /\ isConnected /\ fromServer[1].type # "error"
        /\ statementCache' = statementCache /\ dialect' = "pg"
    BY <1>n, <1>f DEF Kept
  <2>2. /\ EndsIn(fromServer, {"ready"}) /\ Own(fromServer)
        /\ ~lost => toServer = <<>>
        /\ \A e \in statementCache : e[2] <=> e[1] = "read"
    BY <1>f, <1>r, <2>1 DEF IInv, InStep, LastOf, Owed
  <2>3. /\ fromServer[1].type = "ready" => fromServer' = <<>>
        /\ fromServer[1].type # "ready" => fromServer' # <<>> /\ EndsIn(fromServer', {"ready"})
    BY <1>r, <2>2, ReadsEnds DEF IInv
  <2>4. CASE fromServer[1].type = "ready"
    <3>1. stage' \in {"idle", "callback"} /\ toServer' = toServer /\ lost' = lost
      BY <1>f, <2>4 DEF Kept, Resolved, GoesOn, TellsOk, TellsError, Tells
    <3> QED BY <2>1, <2>2, <2>3, <2>4, <3>1 DEF InStep, Quiet
  <2>5. CASE fromServer[1].type # "ready"
    <3>1. /\ stage' \in {"reading", "yielded"} /\ toServer' = toServer /\ lost' = lost
          /\ count' = count
      BY <1>f, <2>1, <2>5 DEF Kept, Same, SameCall
    <3>2. Own(fromServer)'
      BY <1>r, <2>2, <3>1 DEF Own
    <3>3. LastOf' = {"ready"}
      BY <2>1 DEF LastOf
    <3> QED BY <2>1, <2>2, <2>3, <2>5, <3>1, <3>2, <3>3 DEF InStep, Owed
  <2> QED BY <2>4, <2>5
<1>14. OwnSeen'
  BY <1>n, <1>c, <1>r, <1>q, <1>w, <1>f, <1>k DEF IInv, Kept, Same, SameCall, Threw,
     Resolved, TellsOk, TellsError, Tells, RollsBack, GoesOn, OwnSeen, InStep, Own,
     EndsIn, ConnectSound, Only, StageSound
<1>15. BodySound'
  <2>1. CASE fromServer[1].type = "error"
    <3>1. Threw
      BY <1>f, <2>1 DEF Kept
    <3> QED BY <3>1, BodyThrows
  <2>2. CASE fromServer[1].type # "error"
    <3> SUFFICES ASSUME UnderWay' PROVE BodySound'
      BY DEF BodySound
    <3>1. /\ UnderWay /\ behind' = behind /\ purpose' = purpose /\ count' = count
          /\ toServer' = toServer
      BY <1>f, <2>2 DEF Kept, Same, SameCall, Resolved, GoesOn, TellsOk, TellsError,
         Tells, UnderWay,
                        IInv, CallSound
    <3>2. behind = 0
      BY <3>1 DEF IInv, BodySound
    <3>3. Failed' <=> Failed
      BY <1>r, <1>k, <2>2, FailedReads
    <3>4. ~lost => toServer = <<>> /\ Executed
      BY <1>f, <1>r, <3>2 DEF IInv, InStep, StageSound, Owed, Executed
    <3>5. \/ stage' \in {"reading", "yielded"} /\ stage = "reading"
          \/ stage' = "callback" /\ purpose \in {"begin", "body"}
      BY <1>f, <2>2, <3>1 DEF Same, SameCall, Resolved, GoesOn, TellsOk, TellsError,
         Tells, UnderWay,
                              IInv, CallSound
    <3>6. ~lost => Executed'
      BY <3>1, <3>4, <3>5 DEF Executed
    <3> QED BY <1>k, <1>r, <1>f, <3>1, <3>2, <3>3, <3>4, <3>5, <3>6
            DEF IInv, BodySound, NoneRefused
  <2> QED BY <2>1, <2>2
<1>16. GaveUpSound'
  <2>1. OnlyReads
    BY <1>f DEF OnlyReads, Kept
  <2>2. CASE fromServer[1].type = "error"
    <3>1. Failed
      BY <1>r, <1>f, <2>2 DEF Failed
    <3>2. behind = 0 /\ ~lost => toServer = <<>>
      BY <1>f, <1>r DEF IInv, InStep, StageSound, Owed
    <3> QED BY <1>f, <2>1, <2>2, <3>1, <3>2, GaveUpThrows
  <2>3. CASE fromServer[1].type = "ready"
    BY <1>f, <2>1, <2>3, GaveUpResolves
  <2>4. CASE fromServer[1].type \notin {"error", "ready"}
    BY <1>f, <2>1, <2>4, GaveUpStays DEF Same
  <2> QED BY <2>2, <2>3, <2>4
<1>17. CommitSound'
  <2>1. OnlyReads
    BY <1>f DEF OnlyReads, Kept
  <2>2. CASE Threw
    BY <2>1, <2>2, CommitThrows
  <2>3. CASE Same
    BY <1>k, <2>3 DEF IInv, CommitSound, NoneRefused, Same, SameCall
  <2>4. CASE Resolved /\ fromServer[1].type = "ready"
    <3>1. CASE Resolved /\ ~TellsOk
      BY <1>k, <2>4, <3>1 DEF IInv, CommitSound, NoneRefused, Resolved, GoesOn,
         TellsError, Tells, Same, SameCall
    <3>2. CASE TellsOk
      <4> SUFFICES ASSUME course = "in step", purpose # "single"
                   PROVE  CommitSound'
        BY <1>k, <3>2 DEF IInv, CommitSound, NoneRefused, TellsOk, Tells
      <4>1. UnderWay /\ purpose = "commit" /\ stage = "reading"
        BY <1>f, <3>2 DEF UnderWay, IInv, CallSound, TellsOk, Tells
      <4>2. behind = 0
        BY <4>1 DEF IInv, BodySound
      <4>3. EndsIn(fromServer, {"ready"})
        BY <1>f, <1>r, <4>1, <4>2 DEF IInv, InStep, StageSound, LastOf
      <4>4. Len(fromServer) = 1
        BY <1>r, <2>4, <4>3, ReadsEnds DEF IInv
      <4>5. ~Failed
        BY <2>4, <4>4, OnlyIndex DEF Failed
      <4>6. body \subseteq durable
        BY <1>r, <1>f, <4>1, <4>5 DEF IInv, BodySound
      <4> QED BY <1>k, <4>6 DEF CommitSound
    <3> QED BY <2>4, <3>1, <3>2
  <2> QED BY <1>f, <2>2, <2>3, <2>4
<1> QED BY <1>1, <1>2, <1>3, <1>4, <1>5, <1>6, <1>7, <1>8, <1>9, <1>10, <1>11, <1>12,
           <1>13, <1>14, <1>15, <1>16, <1>17 DEF IInv

\* A stream that is left leaves its answer.
LEMMA ConsumeIInv ==
  ASSUME IInv, Consume
  PROVE  IInv'
<1> USE DEF vars, conn, wire, server, outcome, statement
<1>n. /\ count \in Nat /\ MaxStatements \in Nat /\ count <= MaxStatements
      /\ behind \in Nat /\ count + 1 \notin pending \cup durable \cup refused \cup body
      /\ \A i \in 1 .. Len(toServer) : toServer[i].of \in Nat
      /\ \A i \in 1 .. Len(fromServer) : fromServer[i].of \in Nat
  BY Numbers
<1>c. count' \in {count, count + 1}
  BY DEF Consume, Leaves
<1>1. ToServerSound'
  <2>1. toServer' = toServer /\ UsedBefore
    BY DEF UsedBefore, Consume, Leaves
  <2> QED BY <1>c, <2>1, ToServerStays
<1>2. FromServerSound'
  <2>1. fromServer' = fromServer
    BY DEF Consume, Leaves
  <2> QED BY <1>c, <2>1, FromServerStays
<1>3. KnownSound'
  BY <1>n, <1>c DEF IInv, Consume, Leaves, KnownSound
<1>4. CallType'
  <2>1. dialect' \in Dialects /\ use' \in Uses /\ open' \in BOOLEAN /\ isConnected' \in BOOLEAN /\ lost' \in BOOLEAN
    BY DEF IInv, CallType, Consume, Leaves
  <2>2. stage' \in Stage
    BY DEF IInv, CallType, Stage, Consume, Leaves
  <2>3. columns' \in BOOLEAN
    BY DEF IInv, CallType, Consume, Leaves
  <2>4. /\ call' \in {"execute", "stream"} /\ sql' \in Sql
        /\ purpose' \in {"single", "begin", "body", "commit", "rollback"}
    BY DEF IInv, CallType, Sql, Consume, Leaves
  <2>5. course' \in {"in step", "behind", "caught", "nested"} /\ told' \in {"none", "ok", "error"}
        /\ nested' \in Nat
    BY DEF IInv, CallType, Consume, Leaves
  <2> QED BY <2>1, <2>2, <2>3, <2>4, <2>5 DEF CallType
<1>5. NumberType'
  <2>1. count' \in 0 .. MaxStatements /\ behind' \in Nat
    BY <1>n, <1>c DEF Consume, Leaves
  <2>2. seen' \subseteq 0 .. count'
    BY <1>n, <1>c DEF IInv, NumberType, Consume, Leaves
  <2>3. (pending \cup durable \cup refused \cup body \subseteq 1 .. MaxStatements)'
    BY <1>n, <1>c DEF IInv, NumberType, Consume, Leaves
  <2> QED BY <2>1, <2>2, <2>3 DEF NumberType
<1>6. ServerType'
  BY DEF IInv, Consume, Leaves, ServerType, CallType
<1>7. StageSound'
  BY DEF IInv, Consume, Leaves, StageSound, CallSound
<1>8. CallSound'
  BY DEF IInv, Consume, Leaves, CallSound, StageSound
<1>9. BodyCounted'
  BY <1>n, <1>c DEF IInv, Consume, Leaves, BodyCounted, CallSound, KnownSound
<1>10. SessionSound'
  BY <1>n, <1>c DEF IInv, Consume, Leaves, SessionSound, StageSound, ConnectSound,
     Only, EndsIn
<1>11. ConnectSound'
  BY <1>n, <1>c DEF IInv, Consume, Leaves, ConnectSound, StageSound, CallSound,
     CallType, Only, EndsIn, Quiet
<1>12. UnreadCounted'
  <2>1. Unread' = Unread
    BY DEF Unread, Consume, Leaves
  <2> QED BY <2>1, <1>n, <1>c DEF IInv, Consume, Leaves, UnreadCounted, StageSound,
             ConnectSound, EndsIn, Quiet
<1>13. InStep'
  <2>1. CASE Leaves
    <3>1. behind \in Nat /\ behind' = behind + 1
      BY <1>n, <2>1 DEF Leaves
    <3>2. behind' # 0
      BY <3>1
    <3> QED BY <3>2 DEF InStep
  <2>2. CASE stage' = "reading" /\ UNCHANGED <<statement, outcome, behind>>
    <3>1. /\ stage = "yielded" /\ fromServer' = fromServer /\ toServer' = toServer
          /\ statementCache' = statementCache /\ isConnected' = isConnected /\ lost' = lost
          /\ columns' = columns /\ sql' = sql /\ count' = count /\ dialect' = dialect
          /\ behind' = behind
      BY <2>2 DEF Consume
    <3>2. InStep
      BY DEF IInv
    <3> QED BY <2>2, <3>1, <3>2 DEF InStep, Owed, Own, LastOf, Quiet
  <2> QED BY <2>1, <2>2 DEF Consume
<1>14. OwnSeen'
  BY <1>n, <1>c DEF IInv, Consume, Leaves, OwnSeen, InStep, Own, EndsIn, ConnectSound,
     Only, StageSound
<1>15. BodySound'
  BY <1>n, <1>c DEF IInv, Consume, Leaves, BodySound, UnderWay, Executed, Failed,
     NoneRefused, InStep, Owed, Only, EndsIn, LastOf, Quiet, StageSound, CallSound,
     BodyCounted
<1>16. GaveUpSound'
  BY <1>n, <1>c DEF IInv, Consume, Leaves, GaveUpSound, GaveUp, RollbackFirst,
     BodySound, UnderWay, Executed, Failed, NoneRefused, InStep, Owed, Only, EndsIn,
     LastOf, Quiet, StageSound, CallSound, BodyCounted
<1>17. CommitSound'
  BY <1>n, <1>c DEF IInv, Consume, Leaves, CommitSound, NoneRefused, BodySound,
     UnderWay, Executed, Failed, InStep, Owed, EndsIn, LastOf, Only, CallSound
<1> QED BY <1>1, <1>2, <1>3, <1>4, <1>5, <1>6, <1>7, <1>8, <1>9, <1>10, <1>11, <1>12,
           <1>13, <1>14, <1>15, <1>16, <1>17 DEF IInv

\* The cache knows which statements have columns.
LEMMA MysqlPrepareIInv ==
  ASSUME IInv, MysqlPrepare
  PROVE  IInv'
<1> USE DEF vars, conn, wire, server, outcome, statement
<1>n. /\ count \in Nat /\ MaxStatements \in Nat /\ count <= MaxStatements
      /\ behind \in Nat /\ count + 1 \notin pending \cup durable \cup refused \cup body
      /\ \A i \in 1 .. Len(toServer) : toServer[i].of \in Nat
      /\ \A i \in 1 .. Len(fromServer) : fromServer[i].of \in Nat
  BY Numbers
<1>k. /\ \/ /\ \E e \in statementCache : e[1] = sql /\ columns' = e[2]
            /\ Sends(Reply(sql, count)) /\ stage' = "reading"
         \/ /\ Sends(Reply("prepare", count)) /\ stage' = "preparing"
            /\ columns' = columns
      /\ stage = "writing" /\ dialect = "mysql" /\ dialect' = dialect /\ ~lost /\ lost' = lost
      /\ fromServer' = fromServer /\ statementCache' = statementCache /\ session' = session
      /\ behind' = behind /\ Kept /\ SameCall
  BY DEF MysqlPrepare, Kept, SameCall
<1>s. \A m \in Message : Sends(m) =>
        /\ Len(toServer) \in Nat
        /\ toServer' \in Seq(Message) /\ Len(toServer') = Len(toServer) + 1
        /\ toServer'[Len(toServer) + 1] = m
        /\ \A i \in 1 .. Len(toServer) : toServer'[i] = toServer[i]
        /\ toServer' # <<>>
        /\ toServer = <<>> => Only(toServer', m)
  BY SendsFacts DEF IInv, ToServerSound
<1>m1. Reply(sql, count) \in Message /\ Reply(sql, count).type = sql /\ Reply(sql, count).of = count
  <2>1. sql \in Type
    BY DEF IInv, CallType, Type
  <2> QED BY <1>n, <2>1, ReplyType
<1>m2. Reply("prepare", count) \in Message /\ Reply("prepare", count).type = "prepare" /\ Reply("prepare", count).of = count
  <2>1. "prepare" \in Type
    BY DEF Type
  <2> QED BY <1>n, <2>1, ReplyType
<1>c. count' \in {count, count + 1}
  BY DEF MysqlPrepare
<1>1. ToServerSound'
  <2>1. UsedBefore /\ count' = count /\ ~(dialect' = "pg")
    BY <1>k DEF UsedBefore, SameCall
  <2>2. count > 0 /\ sql \in Sql
    BY <1>n, <1>k DEF IInv, BodyCounted, CallType
  <2>3. CASE Sends(Reply(sql, count))
    BY <1>m1, <1>n, <2>1, <2>2, <2>3, ToServerSends
  <2>4. CASE Sends(Reply("prepare", count))
    BY <1>m2, <1>n, <2>1, <2>2, <2>4, ToServerSends
  <2> QED BY <1>k, <2>3, <2>4
<1>2. FromServerSound'
  <2>1. fromServer' = fromServer
    BY DEF MysqlPrepare
  <2> QED BY <1>c, <2>1, FromServerStays
<1>3. KnownSound'
  BY <1>n, <1>c DEF IInv, MysqlPrepare, KnownSound
<1>4. CallType'
  <2>1. columns' \in BOOLEAN
    <3>1. CASE columns' = columns
      BY <3>1 DEF IInv, CallType
    <3>2. CASE \E e \in statementCache : columns' = e[2]
      BY <3>2 DEF IInv, ServerType
    <3> QED BY <1>k, <3>1, <3>2
  <2>2. stage' \in Stage
    BY <1>k DEF Stage
  <2>3. /\ dialect' = dialect /\ open' = open /\ isConnected' = isConnected /\ lost' = lost
        /\ call' = call /\ sql' = sql /\ purpose' = purpose /\ course' = course /\ told' = told
        /\ nested' = nested /\ use' = use
    BY <1>k DEF Kept, SameCall
  <2>4. CallType
    BY DEF IInv
  <2> QED BY <2>1, <2>2, <2>3, <2>4 DEF CallType
<1>5. NumberType'
  <2>1. count' \in 0 .. MaxStatements /\ behind' \in Nat
    BY <1>n, <1>c DEF MysqlPrepare
  <2>2. seen' \subseteq 0 .. count'
    BY <1>n, <1>c DEF IInv, NumberType, MysqlPrepare
  <2>3. (pending \cup durable \cup refused \cup body \subseteq 1 .. MaxStatements)'
    BY <1>n, <1>c DEF IInv, NumberType, MysqlPrepare
  <2> QED BY <2>1, <2>2, <2>3 DEF NumberType
<1>6. ServerType'
  BY DEF IInv, MysqlPrepare, ServerType, CallType
<1>7. StageSound'
  BY DEF IInv, MysqlPrepare, StageSound, CallSound
<1>8. CallSound'
  BY DEF IInv, MysqlPrepare, CallSound, StageSound
<1>9. BodyCounted'
  BY <1>n, <1>c DEF IInv, MysqlPrepare, BodyCounted, CallSound, KnownSound
<1>10. SessionSound'
  <2>1. SessionSound /\ isConnected
    BY <1>k DEF IInv, StageSound
  <2>2. session # "ready" => 1 .. Len(fromServer) = {}
    BY <1>k, <2>1, NoIndex DEF IInv, InStep, SessionSound, Quiet
  <2>3. session # "ready" => stage' = "preparing"
    BY <1>k, <2>1 DEF SessionSound
  <2> QED BY <1>k, <2>1, <2>2, <2>3 DEF SessionSound, Kept, SameCall
<1>11. ConnectSound'
  BY <1>n, <1>k, <1>s, <1>m1, <1>m2, <1>c DEF IInv, MysqlPrepare, ConnectSound,
     StageSound, CallSound, CallType, Only, EndsIn, Quiet
<1>12. UnreadCounted'
  BY <1>n, <1>k, <1>s, <1>m1, <1>m2, <1>c DEF IInv, MysqlPrepare, UnreadCounted,
     StageSound, ConnectSound, EndsIn, Quiet
<1>13. InStep'
  <2> SUFFICES ASSUME isConnected', behind' = 0 PROVE InStep'
    BY DEF InStep
  <2>1. /\ behind = 0 /\ isConnected /\ sql' = sql /\ count' = count /\ stage = "writing"
    BY <1>k DEF Kept, SameCall
  <2>2. /\ \A e \in statementCache : e[2] <=> e[1] = "read"
        /\ toServer = <<>> /\ fromServer = <<>>
    BY <1>k, <2>1 DEF IInv, InStep, Quiet
  <2>3. fromServer' = <<>> /\ Len(fromServer') <= 1
    <3>1. fromServer' = <<>>
      BY <1>k, <2>2
    <3>2. Len(fromServer') = 0
      BY <3>1, EmptySeq
    <3> QED BY <3>1, <3>2
  <2>4. CASE /\ \E e \in statementCache : e[1] = sql /\ columns' = e[2]
             /\ Sends(Reply(sql, count)) /\ stage' = "reading"
    <3>1. PICK e \in statementCache : e[1] = sql /\ columns' = e[2]
      BY <2>4
    <3>2. e[2] <=> e[1] = "read"
      BY <2>2
    <3>3. columns' <=> sql' = "read"
      BY <2>1, <3>1, <3>2
    <3>4. Only(toServer', Reply(sql, count)) /\ toServer' # <<>>
      BY <1>s, <1>m1, <2>2, <2>4
    <3>5. Owed(Reply(sql, count))'
      BY <2>1, <2>3, <3>4 DEF Owed
    <3> QED BY <1>k, <2>2, <2>3, <2>4, <3>3, <3>5 DEF InStep
  <2>5. CASE Sends(Reply("prepare", count)) /\ stage' = "preparing"
    <3>1. Only(toServer', Reply("prepare", count)) /\ toServer' # <<>>
      BY <1>s, <1>m2, <2>2, <2>5
    <3>2. Owed(Reply("prepare", count))'
      BY <2>1, <2>3, <3>1 DEF Owed
    <3> QED BY <1>k, <2>2, <2>3, <2>5, <3>2 DEF InStep
  <2> QED BY <1>k, <2>4, <2>5
<1>14. OwnSeen'
  BY <1>n, <1>k, <1>s, <1>m1, <1>m2, <1>c DEF IInv, MysqlPrepare, OwnSeen, InStep, Own,
     EndsIn, ConnectSound, Only, StageSound
<1>15. BodySound'
  BY <1>n, <1>k, <1>s, <1>m1, <1>m2, <1>c DEF IInv, MysqlPrepare, BodySound, UnderWay,
     Executed, Failed, NoneRefused, InStep, Owed, Only, EndsIn, LastOf, Quiet,
     StageSound, CallSound, BodyCounted
<1>16. GaveUpSound'
  <2>1. /\ body' = body /\ pending' = pending /\ durable' = durable
        /\ course' = course /\ told' = told /\ purpose' = purpose /\ lost' = lost
        /\ behind' = behind /\ dialect' = dialect /\ stage = "writing"
    BY <1>k DEF Kept, SameCall
  <2>2. GaveUp => count \notin body
    BY <2>1 DEF IInv, BodyCounted, CallSound, GaveUp
  <2>3. purpose = "rollback" => sql = "rollback"
    BY DEF IInv, CallSound
  <2>4. CASE Sends(Reply(sql, count))
    BY <1>m1, <2>1, <2>2, <2>3, <2>4, GaveUpSends
  <2>5. CASE Sends(Reply("prepare", count)) /\ stage' = "preparing"
    BY <1>m2, <2>1, <2>2, <2>3, <2>5, GaveUpSends
  <2> QED BY <1>k, <2>4, <2>5
<1>17. CommitSound'
  BY <1>n, <1>k, <1>s, <1>m1, <1>m2, <1>c DEF IInv, MysqlPrepare, CommitSound,
     NoneRefused, BodySound, UnderWay, Executed, Failed, InStep, Owed, EndsIn, LastOf,
     Only, CallSound
<1> QED BY <1>1, <1>2, <1>3, <1>4, <1>5, <1>6, <1>7, <1>8, <1>9, <1>10, <1>11, <1>12,
           <1>13, <1>14, <1>15, <1>16, <1>17 DEF IInv

\* In step, the packet taken for the answer to the prepare is that answer.
LEMMA MysqlPreparedIInv ==
  ASSUME IInv, MysqlPrepared
  PROVE  IInv'
<1> USE DEF vars, conn, wire, server, outcome, statement
<1>n. /\ count \in Nat /\ MaxStatements \in Nat /\ count <= MaxStatements
      /\ behind \in Nat /\ count + 1 \notin pending \cup durable \cup refused \cup body
      /\ \A i \in 1 .. Len(toServer) : toServer[i].of \in Nat
      /\ \A i \in 1 .. Len(fromServer) : fromServer[i].of \in Nat
  BY Numbers
<1>c. count' \in {count, count + 1}
  BY DEF MysqlPrepared, Throws, Tell, Returns, Issue
<1>e. \E x : Reads(x)
  BY DEF MysqlPrepared
<1>r. /\ \A x : Reads(x) => x = fromServer[1]
      /\ Reads(fromServer[1]) /\ fromServer # <<>>
      /\ fromServer[1] \in Message /\ fromServer[1].of \in 0 .. count
      /\ Len(fromServer) \in Nat /\ Len(fromServer) >= 1
      /\ fromServer' \in Seq(Message) /\ Len(fromServer') = Len(fromServer) - 1
      /\ \A i \in 1 .. Len(fromServer') :
           fromServer'[i] = fromServer[i + 1] /\ i + 1 \in 1 .. Len(fromServer)
      /\ fromServer' = <<>> <=> Len(fromServer) = 1
  BY <1>e, <1>c, ReadsFacts, FromServerReads DEF IInv, FromServerSound
<1>q. /\ Reads(fromServer[1]) /\ fromServer # <<>> /\ FromServerSound
      /\ fromServer' = <<>> <=> Len(fromServer) = 1
  BY <1>r DEF IInv
<1>w. Len(fromServer) \in Nat /\ Len(fromServer') = Len(fromServer) - 1 /\ 1 \in 1 .. Len(fromServer)
  BY <1>r
<1>s. \A m \in Message : Sends(m) =>
        /\ Len(toServer) \in Nat
        /\ toServer' \in Seq(Message) /\ Len(toServer') = Len(toServer) + 1
        /\ toServer'[Len(toServer) + 1] = m
        /\ \A i \in 1 .. Len(toServer) : toServer'[i] = toServer[i]
        /\ toServer' # <<>>
        /\ toServer = <<>> => Only(toServer', m)
  BY SendsFacts DEF IInv, ToServerSound
<1>m1. Reply(sql, count) \in Message /\ Reply(sql, count).type = sql /\ Reply(sql, count).of = count
  <2>1. sql \in Type
    BY DEF IInv, CallType, Type
  <2> QED BY <1>n, <2>1, ReplyType
<1>t. Throws => Threw
  BY ThrowsCases DEF Threw
<1>f. /\ stage = "preparing" /\ Kept /\ behind' = behind
      /\ \/ /\ fromServer[1].type # "prepared" /\ fromServer[1].type # "prepared columns"
            /\ Threw /\ toServer' = toServer /\ statementCache' = statementCache
         \/ /\ fromServer[1].type \notin {"prepared columns", "error"}
            /\ seen' = seen \cup {fromServer[1].of} /\ columns' = FALSE
            /\ statementCache' = statementCache \cup {<<sql, FALSE>>}
            /\ Sends(Reply(sql, count)) /\ stage' = "reading" /\ SameCall
         \/ /\ fromServer[1].type \notin {"prepared", "error"}
            /\ seen' = seen \cup {fromServer[1].of} /\ columns' = TRUE
            /\ stage' = "defining" /\ SameCall
            /\ toServer' = toServer /\ statementCache' = statementCache
  BY <1>r, <1>t DEF MysqlPrepared, Kept, Same, SameCall
<1>k. /\ pending' = pending /\ durable' = durable /\ refused' = refused /\ body' = body
      /\ dialect' = dialect /\ lost' = lost /\ session' = session /\ tx' = tx
      /\ open' = open /\ stage # "idle"
      /\ \/ count' = count /\ purpose' = purpose /\ sql' = sql
         \/ RollsBack /\ purpose' = "rollback" /\ count < MaxStatements /\ count' = count + 1
  BY <1>f DEF Kept, Same, SameCall, Threw, Resolved, TellsOk, TellsError, Tells,
     RollsBack, GoesOn
<1>1. ToServerSound'
  <2>1. UsedBefore /\ ~(dialect' = "pg")
    BY <1>f DEF UsedBefore, Kept, IInv, StageSound
  <2>2. count > 0 /\ sql \in Sql
    BY <1>n, <1>f DEF IInv, BodyCounted, CallType
  <2>3. CASE Sends(Reply(sql, count)) /\ SameCall
    BY <1>n, <1>m1, <2>1, <2>2, <2>3, ToServerSends DEF SameCall
  <2>4. CASE toServer' = toServer
    BY <1>c, <2>1, <2>4, ToServerStays
  <2> QED BY <1>f, <2>3, <2>4
<1>2. FromServerSound'
  BY <1>c, <1>e, FromServerReads
<1>3. KnownSound'
  BY <1>n, <1>k DEF IInv, KnownSound
<1>4. CallType'
  <2>1. dialect' \in Dialects /\ use' \in Uses /\ open' \in BOOLEAN /\ isConnected' \in BOOLEAN /\ lost' \in BOOLEAN
    BY <1>f DEF IInv, CallType, Kept, Same, SameCall, Threw, Resolved, TellsOk,
       TellsError, Tells, RollsBack, GoesOn
  <2>2. stage' \in Stage
    BY <1>f DEF IInv, CallType, Stage, Kept, Same, SameCall, Threw, Resolved, TellsOk,
       TellsError, Tells, RollsBack, GoesOn
  <2>3. columns' \in BOOLEAN
    BY <1>f DEF IInv, CallType, Kept, Same, SameCall, Threw, Resolved, TellsOk,
       TellsError, Tells, RollsBack, GoesOn
  <2>4. /\ call' \in {"execute", "stream"} /\ sql' \in Sql
        /\ purpose' \in {"single", "begin", "body", "commit", "rollback"}
    BY <1>f DEF IInv, CallType, Sql, Kept, Same, SameCall, Threw, Resolved, TellsOk,
       TellsError, Tells, RollsBack, GoesOn
  <2>5. course' \in {"in step", "behind", "caught", "nested"} /\ told' \in {"none", "ok", "error"}
        /\ nested' \in Nat
    BY <1>f DEF IInv, CallType, Kept, Same, SameCall, Threw, Resolved, TellsOk,
       TellsError, Tells, RollsBack, GoesOn
  <2> QED BY <2>1, <2>2, <2>3, <2>4, <2>5 DEF CallType
<1>5. NumberType'
  <2>1. count' \in 0 .. MaxStatements
    BY <1>n, <1>k
  <2>2. behind' \in Nat
    BY <1>n, <1>f
  <2>3. seen' \subseteq 0 .. count'
    <3>1. seen' \subseteq seen \cup {fromServer[1].of} /\ seen \subseteq 0 .. count
      BY <1>f DEF IInv, NumberType, Kept, Same, SameCall, Threw, Resolved, TellsOk,
         TellsError, Tells, RollsBack, GoesOn
    <3> QED BY <1>n, <1>c, <1>r, <3>1
  <2>4. (pending \cup durable \cup refused \cup body \subseteq 1 .. MaxStatements)'
    BY <1>k DEF IInv, NumberType
  <2> QED BY <2>1, <2>2, <2>3, <2>4 DEF NumberType
<1>6. ServerType'
  <2>1. <<sql, FALSE>> \in Sql \X BOOLEAN
    BY DEF IInv, CallType
  <2>2. \/ statementCache' = statementCache
        \/ statementCache' = statementCache \cup {<<sql, FALSE>>}
    BY <1>f
  <2>3. session' = session /\ tx' = tx
    BY <1>k
  <2> QED BY <2>1, <2>2, <2>3 DEF IInv, ServerType
<1>7. StageSound'
  BY <1>f DEF IInv, Kept, Same, SameCall, Threw, Resolved, TellsOk, TellsError, Tells,
     RollsBack, GoesOn, StageSound, CallSound
<1>8. CallSound'
  <2>1. CASE Threw
    BY <1>f, <1>k, <2>1, CallThrows DEF Kept
  <2>2. CASE Resolved
    BY <1>f, <1>k, <2>2, CallResolves DEF Kept
  <2>3. CASE ~Threw /\ ~Resolved
    <3>1. /\ SameCall /\ isConnected' = isConnected
          /\ stage' \notin {"idle", "callback"} /\ (stage' = "yielded" => call = "stream")
      BY <1>f, <2>3 DEF Kept, Same
    <3>2. stage' = "yielded" /\ purpose # "single" /\ course = "in step" =>
            purpose \in {"begin", "body"}
      BY <3>1 DEF IInv, CallSound
    <3> QED BY <1>k, <3>1, <3>2 DEF IInv, SameCall, CallSound
  <2> QED BY <2>1, <2>2, <2>3
<1>9. BodyCounted'
  <2>1. CASE Threw
    BY <1>k, <2>1, BodyCountedThrows
  <2>2. CASE ~Threw
    <3>1. /\ course' = "in step" => course = "in step"
          /\ count' = count /\ purpose' = purpose /\ body' = body
      BY <1>f, <1>k, <2>2 DEF Same, SameCall, Resolved, TellsOk, TellsError, Tells, GoesOn
    <3> QED BY <1>k, <3>1 DEF IInv, BodyCounted
  <2> QED BY <2>1, <2>2
<1>10. SessionSound'
  <2>1. session # "ready" => fromServer[1].type = "error" /\ Threw
    <3> SUFFICES ASSUME session # "ready" PROVE fromServer[1].type = "error" /\ Threw
      OBVIOUS
    <3>1. stage = "preparing"
      BY <1>f
    <3>2. fromServer[1].type = "error"
      BY <1>w, <3>1 DEF IInv, SessionSound
    <3> QED BY <1>f, <3>2
  <2>2. SessionSound
    BY DEF IInv
  <2>3. /\ isConnected' = isConnected /\ session' = session /\ lost' = lost /\ dialect' = dialect
        /\ behind' = behind
    BY <1>f DEF Kept
  <2>4. ASSUME session # "ready"
        PROVE  /\ behind' = 0 /\ statementCache' = {} /\ purpose' \in {"single", "begin"}
               /\ stage' = "idle" /\ nested' = 0
    <3>1. Threw /\ statementCache' = statementCache
      BY <1>f, <1>s, <1>m1, <2>1, <2>4
    <3> QED BY <2>2, <2>3, <2>4, <3>1
            DEF SessionSound, Threw, TellsError, Tells, RollsBack, GoesOn
  <2> QED BY <2>2, <2>3, <2>4 DEF SessionSound
<1>11. ConnectSound'
  BY <1>n, <1>c, <1>r, <1>q, <1>w, <1>s, <1>m1, <1>f, <1>k DEF IInv, Kept, Same,
     SameCall, Threw, Resolved, TellsOk, TellsError, Tells, RollsBack, GoesOn,
     ConnectSound, StageSound, CallSound, CallType, Only, EndsIn, Quiet
<1>12. UnreadCounted'
  BY <1>n, <1>c, <1>r, <1>q, <1>w, <1>s, <1>m1, <1>f, <1>k DEF IInv, Kept, Same,
     SameCall, Threw, Resolved, TellsOk, TellsError, Tells, RollsBack, GoesOn,
     UnreadCounted, StageSound, ConnectSound, EndsIn, Quiet
<1>13. InStep'
  <2> SUFFICES ASSUME isConnected', behind' = 0 PROVE InStep'
    BY DEF InStep
  <2>1. /\ behind = 0 /\ isConnected /\ stage = "preparing" /\ lost' = lost /\ dialect' = dialect
        /\ dialect = "mysql"
    BY <1>f DEF Kept, IInv, StageSound
  <2>2. /\ \A e \in statementCache : e[2] <=> e[1] = "read"
        /\ ~lost => toServer = <<>>
    BY <1>r, <2>1 DEF IInv, InStep, Owed
  <2>3. \/ Len(fromServer) = 1 /\ fromServer[1].type = "error"
        \/ Only(fromServer, Reply("prepared", count)) /\ sql # "read"
        \/ /\ Len(fromServer) = 3 /\ fromServer[1].type = "prepared columns"
           /\ Own(fromServer) /\ sql = "read"
    BY <1>r, <2>1 DEF IInv, InStep
  <2>4. CASE Len(fromServer) = 1 /\ fromServer[1].type = "error"
    <3>1. Threw /\ toServer' = toServer /\ statementCache' = statementCache /\ fromServer' = <<>>
      BY <1>f, <1>r, <2>4
    <3>2. stage' \in {"idle", "writing", "callback"}
      BY <3>1 DEF Threw, TellsError, Tells, RollsBack, GoesOn
    <3> QED BY <2>1, <2>2, <3>1, <3>2 DEF InStep, Quiet
  <2>5. CASE Only(fromServer, Reply("prepared", count)) /\ sql # "read"
    <3>1. fromServer[1].type = "prepared" /\ fromServer' = <<>>
      BY <1>r, <2>5 DEF Only, Reply
    <3>2. /\ columns' = FALSE /\ statementCache' = statementCache \cup {<<sql, FALSE>>}
          /\ Sends(Reply(sql, count)) /\ stage' = "reading" /\ sql' = sql /\ count' = count
      BY <1>f, <3>1 DEF SameCall
    <3>3. \A e \in statementCache' : e[2] <=> e[1] = "read"
      <4> SUFFICES ASSUME NEW e \in statementCache' PROVE e[2] <=> e[1] = "read"
        OBVIOUS
      <4>1. CASE e \in statementCache
        BY <2>2, <4>1
      <4>2. CASE e = <<sql, FALSE>>
        BY <2>5, <4>2
      <4> QED BY <3>2, <4>1, <4>2
    <3>4. ~lost => Only(toServer', Reply(sql, count)) /\ toServer' # <<>>
      BY <1>s, <1>m1, <2>2, <3>2
    <3>5. ~lost => Owed(Reply(sql, count))'
      BY <3>1, <3>2, <3>4 DEF Owed
    <3>6. ~columns' /\ sql' # "read" /\ Len(fromServer') <= 1
      BY <1>w, <2>5, <3>2 DEF Only
    <3> QED BY <2>1, <3>1, <3>2, <3>3, <3>5, <3>6 DEF InStep
  <2>6. CASE /\ Len(fromServer) = 3 /\ fromServer[1].type = "prepared columns"
             /\ Own(fromServer) /\ sql = "read"
    <3>1. /\ columns' = TRUE /\ statementCache' = statementCache /\ toServer' = toServer
          /\ stage' = "defining" /\ sql' = sql /\ count' = count
      BY <1>f, <2>6 DEF SameCall
    <3>2. Len(fromServer') = 2 /\ fromServer' # <<>>
      BY <1>r, <2>6, TwoLeft DEF IInv, FromServerSound
    <3>4. Own(fromServer)'
      BY <1>r, <2>6, <3>1 DEF Own
    <3>3. columns' /\ sql' = "read"
      BY <2>6, <3>1
    <3> QED BY <2>1, <2>2, <3>1, <3>2, <3>3, <3>4 DEF InStep
  <2> QED BY <2>3, <2>4, <2>5, <2>6
<1>14. OwnSeen'
  <2>1. behind' = behind /\ seen' \in {{}, seen \cup {fromServer[1].of}}
    BY <1>f DEF Threw
  <2>2. seen' = {} \/ (count' = count /\ fromServer[1].type # "error")
    BY <1>f DEF Threw, SameCall
  <2>3. behind = 0 /\ fromServer[1].type # "error" => fromServer[1].of = count
    <3> SUFFICES ASSUME behind = 0, fromServer[1].type # "error"
                 PROVE  fromServer[1].of = count
      OBVIOUS
    <3>1. stage = "preparing" /\ isConnected
      BY <1>f DEF IInv, StageSound
    <3>2. Only(fromServer, Reply("prepared", count)) \/ Own(fromServer)
      BY <1>q, <3>1 DEF IInv, InStep
    <3> QED BY <1>w, <3>2 DEF Only, Own, Reply
  <2> QED BY <2>1, <2>2, <2>3 DEF IInv, OwnSeen
<1>15. BodySound'
  <2>1. CASE Threw
    <3> QED BY <2>1, BodyThrows
  <2>2. CASE ~Threw
    <3> SUFFICES ASSUME UnderWay' PROVE BodySound'
      BY DEF BodySound
    <3>1. /\ UnderWay /\ behind' = behind /\ purpose' = purpose /\ count' = count /\ sql' = sql
      BY <1>f, <2>2 DEF SameCall, UnderWay
    <3>2. behind = 0 /\ stage = "preparing" /\ ~Executed /\ isConnected
      BY <1>f, <3>1 DEF IInv, BodySound, Executed, StageSound
    <3>3. ~Failed' /\ ~Failed
      BY <1>f, <1>k DEF Failed, IInv, StageSound
    <3>4. CASE /\ Sends(Reply(sql, count)) /\ stage' = "reading"
               /\ fromServer[1].type \notin {"prepared columns", "error"}
      <4>1. toServer' # <<>>
        BY <1>s, <1>m1, <3>4
      <4>2. fromServer' = <<>>
        BY <1>r, <3>2, <3>4 DEF IInv, InStep, Only
      <4>3. ~Executed'
        BY <3>4, <4>1 DEF Executed
      <4> QED BY <1>k, <3>1, <3>2, <3>3, <4>2, <4>3 DEF IInv, BodySound, NoneRefused
    <3>5. CASE stage' = "defining"
      <4>1. ~Executed'
        BY <3>5 DEF Executed
      <4> QED BY <1>k, <3>1, <3>2, <3>3, <3>5, <4>1 DEF IInv, BodySound, NoneRefused
    <3> QED BY <1>f, <2>2, <3>4, <3>5
  <2> QED BY <2>1, <2>2
<1>16. GaveUpSound'
  <2>0. /\ behind' = behind /\ dialect = "mysql" /\ isConnected
        /\ purpose = "rollback" => sql = "rollback"
        /\ course = "in step" /\ purpose # "single" => behind = 0
    BY <1>f DEF IInv, StageSound, CallSound, GaveUpSound
  <2>1. ~lost /\ behind = 0 =>
          /\ toServer = <<>>
          /\ fromServer[1].type = "error" => sql \in {"read", "write"}
          /\ fromServer[1].type \in {"error", "prepared", "prepared columns"}
          /\ fromServer[1].type = "prepared columns" => sql = "read"
    <3> SUFFICES ASSUME ~lost, behind = 0
                 PROVE  /\ toServer = <<>>
                        /\ fromServer[1].type = "error" => sql \in {"read", "write"}
                        /\ fromServer[1].type \in {"error", "prepared", "prepared columns"}
                        /\ fromServer[1].type = "prepared columns" => sql = "read"
      OBVIOUS
    <3>1. stage = "preparing"
      BY <1>f
    <3>2. InStep
      BY DEF IInv
    <3>3. toServer = <<>>
      BY <1>q, <2>0, <3>1, <3>2 DEF InStep, Owed
    <3>4. \/ fromServer[1].type = "error" /\ sql \in {"read", "write"}
          \/ Only(fromServer, Reply("prepared", count))
          \/ fromServer[1].type = "prepared columns" /\ sql = "read"
      BY <1>q, <2>0, <3>1, <3>2 DEF InStep
    <3>5. Only(fromServer, Reply("prepared", count)) => fromServer[1].type = "prepared"
      BY DEF Only, Reply
    <3> QED BY <3>3, <3>4, <3>5
  <2>2. CASE Threw /\ toServer' = toServer /\ fromServer[1].type \notin {"prepared", "prepared columns"}
    <3>1. OnlyReads
      BY <1>f, <1>k, <2>2 DEF OnlyReads
    <3>2. course = "in step" /\ behind = 0 /\ ~lost => purpose # "rollback"
      BY <2>0, <2>1, <2>2
    <3>3. ~Executed
      BY <1>f DEF Executed
    <3> QED BY <1>k, <1>f, <2>0, <2>1, <2>2, <3>1, <3>2, <3>3, GaveUpThrows
  <2>3. CASE Sends(Reply(sql, count)) /\ SameCall
    <3>1. GaveUp => count \notin body
      BY <1>k DEF IInv, BodyCounted, CallSound, GaveUp
    <3> QED BY <1>k, <1>m1, <2>0, <2>1, <2>3, <3>1, GaveUpSends DEF SameCall
  <2>4. CASE /\ SameCall /\ stage' = "defining" /\ toServer' = toServer
             /\ fromServer[1].type \notin {"prepared", "error"}
    <3>1. OnlyReads
      BY <1>f, <1>k, <2>4 DEF OnlyReads
    <3>2. GaveUpSound
      BY DEF IInv
    <3>3. GaveUp' <=> GaveUp
      BY <2>4 DEF GaveUp, SameCall
    <3>4. GaveUp /\ ~lost => (RollbackFirst => RollbackFirst')
      BY <2>0, <2>1, <2>4 DEF RollbackFirst, GaveUp
    <3>5. /\ body' = body /\ durable' = durable /\ pending' = pending /\ toServer' = toServer
          /\ lost' = lost /\ dialect' = dialect /\ purpose' = purpose /\ course' = course
          /\ behind' = behind
      BY <1>k, <2>0, <2>4 DEF SameCall
    <3> QED BY <3>2, <3>3, <3>4, <3>5 DEF GaveUpSound
  <2> QED BY <1>f, <2>2, <2>3, <2>4
<1>17. CommitSound'
  BY <1>n, <1>c, <1>r, <1>q, <1>w, <1>s, <1>m1, <1>f, <1>k DEF IInv, Kept, Same,
     SameCall, Threw, Resolved, TellsOk, TellsError, Tells, RollsBack, GoesOn,
     CommitSound, NoneRefused, BodySound, UnderWay, Executed, Failed, InStep, Owed,
     EndsIn, LastOf, Only, CallSound
<1> QED BY <1>1, <1>2, <1>3, <1>4, <1>5, <1>6, <1>7, <1>8, <1>9, <1>10, <1>11, <1>12,
           <1>13, <1>14, <1>15, <1>16, <1>17 DEF IInv

\* The definitions are the rest of that answer.
LEMMA MysqlDefinedIInv ==
  ASSUME IInv, MysqlDefined
  PROVE  IInv'
<1> USE DEF vars, conn, wire, server, outcome, statement
<1>n. /\ count \in Nat /\ MaxStatements \in Nat /\ count <= MaxStatements
      /\ behind \in Nat /\ count + 1 \notin pending \cup durable \cup refused \cup body
      /\ \A i \in 1 .. Len(toServer) : toServer[i].of \in Nat
      /\ \A i \in 1 .. Len(fromServer) : fromServer[i].of \in Nat
  BY Numbers
<1>k. /\ stage = "defining" /\ stage' = "reading" /\ SameCall /\ Kept /\ behind' = behind
      /\ columns' = columns /\ Sends(Reply(sql, count))
      /\ statementCache' = statementCache \cup {<<sql, TRUE>>}
      /\ seen' = seen \cup {fromServer[1].of, fromServer[2].of}
  BY DEF MysqlDefined, SameCall, Kept
<1>x. /\ Len(fromServer) \in Nat /\ Len(fromServer) >= 2 /\ fromServer # <<>>
      /\ fromServer' \in Seq(Message) /\ Len(fromServer') = Len(fromServer) - 2
      /\ \A i \in 1 .. Len(fromServer') :
           fromServer'[i] = fromServer[i + 2] /\ i + 2 \in 1 .. Len(fromServer)
      /\ fromServer' = <<>> <=> Len(fromServer) = 2
  BY ReadsTwo DEF MysqlDefined, IInv, FromServerSound
<1>s. \A m \in Message : Sends(m) =>
        /\ Len(toServer) \in Nat
        /\ toServer' \in Seq(Message) /\ Len(toServer') = Len(toServer) + 1
        /\ toServer'[Len(toServer) + 1] = m
        /\ \A i \in 1 .. Len(toServer) : toServer'[i] = toServer[i]
        /\ toServer' # <<>>
        /\ toServer = <<>> => Only(toServer', m)
  BY SendsFacts DEF IInv, ToServerSound
<1>m1. Reply(sql, count) \in Message /\ Reply(sql, count).type = sql /\ Reply(sql, count).of = count
  <2>1. sql \in Type
    BY DEF IInv, CallType, Type
  <2> QED BY <1>n, <2>1, ReplyType
<1>c. count' \in {count, count + 1}
  BY DEF MysqlDefined
<1>1. ToServerSound'
  <2>1. UsedBefore /\ count' = count /\ ~(dialect' = "pg")
    BY <1>k DEF UsedBefore, SameCall, Kept, IInv, StageSound
  <2>2. count > 0 /\ sql \in Sql
    BY <1>n, <1>k DEF IInv, BodyCounted, CallType
  <2> QED BY <1>k, <1>m1, <1>n, <2>1, <2>2, ToServerSends
<1>2. FromServerSound'
  <2>1. \A i \in 1 .. Len(fromServer) : fromServer[i].of <= count
    BY DEF IInv, FromServerSound
  <2> QED BY <1>k, <1>x, <2>1 DEF FromServerSound, SameCall
<1>3. KnownSound'
  BY <1>n, <1>c DEF IInv, MysqlDefined, KnownSound
<1>4. CallType'
  <2>1. dialect' \in Dialects /\ use' \in Uses /\ open' \in BOOLEAN /\ isConnected' \in BOOLEAN /\ lost' \in BOOLEAN
    BY DEF IInv, CallType, MysqlDefined
  <2>2. stage' \in Stage
    BY DEF IInv, CallType, Stage, MysqlDefined
  <2>3. columns' \in BOOLEAN
    BY DEF IInv, CallType, MysqlDefined
  <2>4. /\ call' \in {"execute", "stream"} /\ sql' \in Sql
        /\ purpose' \in {"single", "begin", "body", "commit", "rollback"}
    BY DEF IInv, CallType, Sql, MysqlDefined
  <2>5. course' \in {"in step", "behind", "caught", "nested"} /\ told' \in {"none", "ok", "error"}
        /\ nested' \in Nat
    BY DEF IInv, CallType, MysqlDefined
  <2> QED BY <2>1, <2>2, <2>3, <2>4, <2>5 DEF CallType
<1>5. NumberType'
  <2>1. /\ count' = count /\ behind' = behind /\ pending' = pending /\ durable' = durable
        /\ refused' = refused /\ body' = body
    BY <1>k DEF SameCall, Kept
  <2>2. NumberType
    BY DEF IInv
  <2>3. 1 \in 1 .. Len(fromServer) /\ 2 \in 1 .. Len(fromServer)
    BY <1>x
  <2>4. fromServer[1].of \in 0 .. count /\ fromServer[2].of \in 0 .. count
    BY <1>n, <2>3 DEF IInv, FromServerSound
  <2> QED BY <1>k, <2>1, <2>2, <2>4 DEF NumberType
<1>6. ServerType'
  <2>1. <<sql, TRUE>> \in Sql \X BOOLEAN
    BY DEF IInv, CallType
  <2> QED BY <1>k, <2>1 DEF IInv, ServerType, Kept
<1>7. StageSound'
  BY DEF IInv, MysqlDefined, StageSound, CallSound
<1>8. CallSound'
  BY DEF IInv, MysqlDefined, CallSound, StageSound
<1>9. BodyCounted'
  BY <1>n, <1>c DEF IInv, MysqlDefined, BodyCounted, CallSound, KnownSound
<1>10. SessionSound'
  BY <1>n, <1>k, <1>x, <1>s, <1>m1, <1>c DEF IInv, MysqlDefined, SessionSound,
     StageSound, ConnectSound, Only, EndsIn
<1>11. ConnectSound'
  BY <1>n, <1>k, <1>x, <1>s, <1>m1, <1>c DEF IInv, MysqlDefined, ConnectSound,
     StageSound, CallSound, CallType, Only, EndsIn, Quiet
<1>12. UnreadCounted'
  BY <1>n, <1>k, <1>x, <1>s, <1>m1, <1>c DEF IInv, MysqlDefined, UnreadCounted,
     StageSound, ConnectSound, EndsIn, Quiet
<1>13. InStep'
  <2> SUFFICES ASSUME isConnected', behind' = 0 PROVE InStep'
    BY DEF InStep
  <2>1. /\ behind = 0 /\ isConnected /\ stage = "defining" /\ sql' = sql /\ columns' = columns
        /\ lost' = lost /\ dialect' = dialect
    BY <1>k DEF Kept, SameCall
  <2>2. /\ columns /\ sql = "read" /\ Len(fromServer) = 2
        /\ ~lost => toServer = <<>>
        /\ \A e \in statementCache : e[2] <=> e[1] = "read"
    BY <1>x, <2>1 DEF IInv, InStep
  <2>3. \A e \in statementCache' : e[2] <=> e[1] = "read"
    <3> SUFFICES ASSUME NEW e \in statementCache' PROVE e[2] <=> e[1] = "read"
      OBVIOUS
    <3>1. CASE e \in statementCache
      BY <2>2, <3>1
    <3>2. CASE e = <<"read", TRUE>>
      BY <3>2
    <3> QED BY <1>k, <2>2, <3>1, <3>2
  <2>4. fromServer' = <<>>
    BY <1>x, <2>2
  <2>5. ~lost => Only(toServer', Reply(sql, count)) /\ toServer' # <<>>
    BY <1>k, <1>s, <1>m1, <2>2
  <2>6. ~lost => Owed(Reply(sql, count))'
    BY <1>k, <2>4, <2>5 DEF Owed, SameCall
  <2>7. columns' /\ sql' = "read" /\ stage' = "reading"
    BY <1>k, <2>1, <2>2
  <2> QED BY <2>1, <2>3, <2>4, <2>6, <2>7 DEF InStep
<1>14. OwnSeen'
  BY <1>n, <1>k, <1>x, <1>s, <1>m1, <1>c DEF IInv, MysqlDefined, OwnSeen, InStep, Own,
     EndsIn, ConnectSound, Only, StageSound
<1>15. BodySound'
  BY <1>n, <1>k, <1>x, <1>s, <1>m1, <1>c DEF IInv, MysqlDefined, BodySound, UnderWay,
     Executed, Failed, NoneRefused, InStep, Owed, Only, EndsIn, LastOf, Quiet,
     StageSound, CallSound, BodyCounted
<1>16. GaveUpSound'
  <2>1. /\ body' = body /\ pending' = pending /\ durable' = durable
        /\ course' = course /\ told' = told /\ purpose' = purpose /\ lost' = lost
        /\ behind' = behind /\ dialect' = dialect /\ stage = "defining"
    BY <1>k DEF Kept, SameCall
  <2>2. GaveUp => count \notin body
    BY <2>1 DEF IInv, BodyCounted, CallSound, GaveUp
  <2> QED BY <1>k, <1>m1, <2>1, <2>2, GaveUpSends
<1>17. CommitSound'
  BY <1>n, <1>k, <1>x, <1>s, <1>m1, <1>c DEF IInv, MysqlDefined, CommitSound,
     NoneRefused, BodySound, UnderWay, Executed, Failed, InStep, Owed, EndsIn, LastOf,
     Only, CallSound
<1> QED BY <1>1, <1>2, <1>3, <1>4, <1>5, <1>6, <1>7, <1>8, <1>9, <1>10, <1>11, <1>12,
           <1>13, <1>14, <1>15, <1>16, <1>17 DEF IInv

\* In step, the one packet read is the whole answer; a stream leaves it.
LEMMA MysqlReadOkIInv ==
  ASSUME IInv, MysqlReadOk
  PROVE  IInv'
<1> USE DEF vars, conn, wire, server, outcome, statement
<1>n. /\ count \in Nat /\ MaxStatements \in Nat /\ count <= MaxStatements
      /\ behind \in Nat /\ count + 1 \notin pending \cup durable \cup refused \cup body
      /\ \A i \in 1 .. Len(toServer) : toServer[i].of \in Nat
      /\ \A i \in 1 .. Len(fromServer) : fromServer[i].of \in Nat
  BY Numbers
<1>v. Resolves => Resolved
  BY ResolvesCases
<1>f. /\ stage = "reading" /\ dialect = "mysql" /\ ~columns /\ Kept
      /\ toServer' = toServer /\ statementCache' = statementCache
      /\ \/ call = "stream" /\ Leaves /\ fromServer' = fromServer
         \/ /\ call = "execute" /\ Resolved /\ behind' = behind
            /\ \E x : Reads(x) /\ seen' = seen \cup {x.of}
  BY <1>v DEF MysqlReadOk, Kept
<1>k. /\ pending' = pending /\ durable' = durable /\ refused' = refused /\ body' = body
      /\ count' = count /\ sql' = sql /\ purpose' = purpose /\ columns' = columns
      /\ stage' \in {"callback", "idle"}
  BY <1>f DEF Kept, Leaves, Resolved, GoesOn, TellsOk, TellsError, Tells, Same, SameCall
<1>r. \A x : Reads(x) =>
        /\ fromServer # <<>> /\ x = fromServer[1] /\ x \in Message
        /\ x.type \in Type /\ x.of \in Nat
        /\ Len(fromServer) \in Nat /\ Len(fromServer) >= 1
        /\ fromServer' \in Seq(Message) /\ Len(fromServer') = Len(fromServer) - 1
        /\ \A i \in 1 .. Len(fromServer') :
             fromServer'[i] = fromServer[i + 1] /\ i + 1 \in 1 .. Len(fromServer)
        /\ fromServer' = <<>> <=> Len(fromServer) = 1
  BY ReadsFacts DEF IInv, FromServerSound
<1>c. count' \in {count, count + 1}
  BY DEF MysqlReadOk, Resolves, Tell, Returns, Leaves
<1>1. ToServerSound'
  <2>1. toServer' = toServer /\ UsedBefore
    BY DEF UsedBefore, MysqlReadOk, Resolves, Tell, Returns, Leaves
  <2> QED BY <1>c, <2>1, ToServerStays
<1>2. FromServerSound'
  <2>1. CASE fromServer' = fromServer
    BY <1>c, <2>1, FromServerStays
  <2>2. CASE \E x : Reads(x)
    BY <1>c, <2>2, FromServerReads
  <2> QED BY <1>f, <2>1, <2>2
<1>3. KnownSound'
  BY <1>n, <1>c DEF IInv, MysqlReadOk, Resolves, Tell, Returns, Leaves, KnownSound
<1>4. CallType'
  <2>1. CallType
    BY DEF IInv
  <2>2. use' = use /\ dialect' = dialect /\ open' = open /\ isConnected' = isConnected /\ lost' = lost
    BY <1>f DEF Kept
  <2>3. stage' \in Stage
    BY <1>k DEF Stage
  <2>4. call' = call
    BY <1>f DEF Leaves, Resolved, GoesOn, TellsOk, TellsError, Tells, Same, SameCall
  <2>5. course' \in {"in step", "behind", "caught", "nested"} /\ nested' \in Nat
    <3>1. course \in {"in step", "behind", "caught", "nested"} /\ nested \in Nat
      BY <2>1 DEF CallType
    <3> QED BY <1>f, <3>1 DEF Leaves, Resolved, GoesOn, TellsOk, TellsError, Tells,
               Same, SameCall
  <2>6. told' \in {"none", "ok", "error"}
    <3>1. told \in {"none", "ok", "error"}
      BY <2>1 DEF CallType
    <3> QED BY <1>f, <3>1 DEF Leaves, Resolved, GoesOn, TellsOk, TellsError, Tells,
               Same, SameCall
  <2> QED BY <1>k, <2>1, <2>2, <2>3, <2>4, <2>5, <2>6 DEF CallType
<1>5. NumberType'
  <2>1. NumberType
    BY DEF IInv
  <2>2. seen' \subseteq 0 .. count
    <3>1. CASE seen' = seen
      BY <2>1, <3>1 DEF NumberType
    <3>2. CASE \E x : Reads(x) /\ seen' = seen \cup {x.of}
      <4>1. PICK x : Reads(x) /\ seen' = seen \cup {x.of}
        BY <3>2
      <4>2. x.of \in 0 .. count
        BY <1>c, <4>1, FromServerReads
      <4> QED BY <2>1, <4>1, <4>2 DEF NumberType
    <3> QED BY <1>f, <3>1, <3>2 DEF Leaves
  <2>3. behind' \in Nat
    BY <1>n, <1>f DEF Leaves
  <2> QED BY <1>k, <2>1, <2>2, <2>3 DEF NumberType
<1>6. ServerType'
  BY DEF IInv, MysqlReadOk, Resolves, Tell, Returns, Leaves, ServerType, CallType
<1>7. StageSound'
  BY DEF IInv, MysqlReadOk, Resolves, Tell, Returns, Leaves, StageSound, CallSound
<1>8. CallSound'
  <2>1. CASE Resolved
    <3>1. stage # "idle" /\ isConnected' = isConnected
      BY <1>f DEF Kept
    <3> QED BY <2>1, <3>1, CallResolves
  <2>2. CASE Leaves
    <3>1. CallSound /\ isConnected' = isConnected /\ stage # "idle" /\ isConnected
      BY <1>f DEF IInv, Kept, StageSound
    <3>2. /\ call' = call /\ sql' = sql /\ purpose' = purpose /\ told' = told /\ nested' = nested
          /\ \/ purpose = "single" /\ stage' = "idle" /\ course' = course
             \/ purpose # "single" /\ stage' = "callback" /\ course' = "behind"
      BY <2>2 DEF Leaves
    <3> QED BY <3>1, <3>2 DEF CallSound
  <2> QED BY <1>f, <2>1, <2>2
<1>9. BodyCounted'
  BY <1>n, <1>c DEF IInv, MysqlReadOk, Resolves, Tell, Returns, Leaves, BodyCounted,
     CallSound, KnownSound
<1>10. SessionSound'
  BY <1>n, <1>v, <1>f, <1>k, <1>r, <1>c DEF IInv, MysqlReadOk, Resolves, Tell, Returns,
     Leaves, SessionSound, StageSound, ConnectSound, Only, EndsIn
<1>11. ConnectSound'
  BY <1>n, <1>v, <1>f, <1>k, <1>r, <1>c DEF IInv, MysqlReadOk, Resolves, Tell, Returns,
     Leaves, ConnectSound, StageSound, CallSound, CallType, Only, EndsIn, Quiet
<1>12. UnreadCounted'
  BY <1>n, <1>v, <1>f, <1>k, <1>r, <1>c DEF IInv, MysqlReadOk, Resolves, Tell, Returns,
     Leaves, UnreadCounted, StageSound, ConnectSound, EndsIn, Quiet
<1>13. InStep'
  <2> SUFFICES ASSUME isConnected', behind' = 0 PROVE InStep'
    BY DEF InStep
  <2>0. behind \in Nat
    BY <1>n
  <2>9. ~Leaves
    BY <2>0 DEF Leaves
  <2>1. /\ behind = 0 /\ isConnected /\ statementCache' = statementCache /\ dialect' = "mysql"
        /\ toServer' = toServer /\ lost' = lost /\ \E x : Reads(x)
    BY <1>f, <2>0, <2>9 DEF Kept
  <2>2. fromServer # <<>>
    BY <2>1 DEF Reads
  <2>3. /\ Len(fromServer) <= 1
        /\ ~lost => toServer = <<>>
        /\ \A e \in statementCache : e[2] <=> e[1] = "read"
    BY <1>f, <2>1, <2>2 DEF IInv, InStep, Owed
  <2>4. fromServer' = <<>>
    BY <1>r, <2>1, <2>3
  <2> QED BY <1>k, <2>1, <2>3, <2>4 DEF InStep, Quiet
<1>14. OwnSeen'
  BY <1>n, <1>v, <1>f, <1>k, <1>r, <1>c DEF IInv, MysqlReadOk, Resolves, Tell, Returns,
     Leaves, OwnSeen, InStep, Own, EndsIn, ConnectSound, Only, StageSound
<1>15. BodySound'
  BY <1>n, <1>v, <1>f, <1>k, <1>r, <1>c DEF IInv, MysqlReadOk, Resolves, Tell, Returns,
     Leaves, BodySound, UnderWay, Executed, Failed, NoneRefused, InStep, Owed, Only,
     EndsIn, LastOf, Quiet, StageSound, CallSound, BodyCounted
<1>16. GaveUpSound'
  BY <1>n, <1>v, <1>f, <1>k, <1>r, <1>c DEF IInv, MysqlReadOk, Resolves, Tell, Returns,
     Leaves, GaveUpSound, GaveUp, RollbackFirst, BodySound, UnderWay, Executed, Failed,
     NoneRefused, InStep, Owed, Only, EndsIn, LastOf, Quiet, StageSound, CallSound,
     BodyCounted
<1>17. CommitSound'
  BY <1>n, <1>v, <1>f, <1>k, <1>r, <1>c DEF IInv, MysqlReadOk, Resolves, Tell, Returns,
     Leaves, CommitSound, NoneRefused, BodySound, UnderWay, Executed, Failed, InStep,
     Owed, EndsIn, LastOf, Only, CallSound
<1> QED BY <1>1, <1>2, <1>3, <1>4, <1>5, <1>6, <1>7, <1>8, <1>9, <1>10, <1>11, <1>12,
           <1>13, <1>14, <1>15, <1>16, <1>17 DEF IInv

\* Rows are read up to the packet that ends them.
LEMMA MysqlReadRowIInv ==
  ASSUME IInv, MysqlReadRow
  PROVE  IInv'
<1> USE DEF vars, conn, wire, server, outcome, statement
<1>n. /\ count \in Nat /\ MaxStatements \in Nat /\ count <= MaxStatements
      /\ behind \in Nat /\ count + 1 \notin pending \cup durable \cup refused \cup body
      /\ \A i \in 1 .. Len(toServer) : toServer[i].of \in Nat
      /\ \A i \in 1 .. Len(fromServer) : fromServer[i].of \in Nat
  BY Numbers
<1>c. count' \in {count, count + 1}
  BY DEF MysqlReadRow, Throws, Resolves, Tell, Returns, Tell, Returns, Issue
<1>e. \E x : Reads(x)
  BY DEF MysqlReadRow
<1>r. /\ \A x : Reads(x) => x = fromServer[1]
      /\ Reads(fromServer[1]) /\ fromServer # <<>>
      /\ fromServer[1] \in Message /\ fromServer[1].of \in 0 .. count
      /\ Len(fromServer) \in Nat /\ Len(fromServer) >= 1
      /\ fromServer' \in Seq(Message) /\ Len(fromServer') = Len(fromServer) - 1
      /\ \A i \in 1 .. Len(fromServer') :
           fromServer'[i] = fromServer[i + 1] /\ i + 1 \in 1 .. Len(fromServer)
      /\ fromServer' = <<>> <=> Len(fromServer) = 1
  BY <1>e, <1>c, ReadsFacts, FromServerReads DEF IInv, FromServerSound
<1>q. /\ Reads(fromServer[1]) /\ fromServer # <<>> /\ FromServerSound
      /\ fromServer' = <<>> <=> Len(fromServer) = 1
  BY <1>r DEF IInv
<1>w. Len(fromServer) \in Nat /\ Len(fromServer') = Len(fromServer) - 1 /\ 1 \in 1 .. Len(fromServer)
  BY <1>r
<1>t. Throws => Threw
  BY ThrowsCases DEF Threw
<1>v. Resolves => Resolved
  BY ResolvesCases
<1>f. /\ stage = "reading" /\ dialect = "mysql" /\ columns /\ Kept /\ behind' = behind
      /\ toServer' = toServer /\ statementCache' = statementCache
      /\ \/ /\ fromServer[1].type = "end" /\ seen' = seen \cup {fromServer[1].of}
            /\ Resolved
         \/ fromServer[1].type = "error" /\ Threw
         \/ /\ fromServer[1].type \notin {"end", "error"}
            /\ seen' = seen \cup {fromServer[1].of}
            /\ stage' = IF call = "stream" THEN "yielded" ELSE stage
            /\ Same
  BY <1>r, <1>t, <1>v DEF MysqlReadRow, Kept, Same, SameCall
<1>k. /\ pending' = pending /\ durable' = durable /\ refused' = refused /\ body' = body
      /\ dialect' = dialect /\ lost' = lost /\ session' = session /\ tx' = tx
      /\ open' = open /\ stage # "idle"
      /\ \/ count' = count /\ purpose' = purpose /\ sql' = sql
         \/ RollsBack /\ purpose' = "rollback" /\ count < MaxStatements /\ count' = count + 1
  BY <1>f DEF Kept, Same, SameCall, Threw, Resolved, TellsOk, TellsError, Tells,
     RollsBack, GoesOn
<1>1. ToServerSound'
  <2>1. toServer' = toServer /\ UsedBefore
    BY <1>f DEF UsedBefore, Kept, Same, SameCall, Threw, Resolved, TellsOk, TellsError,
       Tells, RollsBack, GoesOn
  <2> QED BY <1>c, <2>1, ToServerStays
<1>2. FromServerSound'
  BY <1>c, <1>e, FromServerReads
<1>3. KnownSound'
  BY <1>n, <1>k DEF IInv, KnownSound
<1>4. CallType'
  <2>1. dialect' \in Dialects /\ use' \in Uses /\ open' \in BOOLEAN /\ isConnected' \in BOOLEAN /\ lost' \in BOOLEAN
    BY <1>f DEF IInv, CallType, Kept, Same, SameCall, Threw, Resolved, TellsOk,
       TellsError, Tells, RollsBack, GoesOn
  <2>2. stage' \in Stage
    BY <1>f DEF IInv, CallType, Stage, Kept, Same, SameCall, Threw, Resolved, TellsOk,
       TellsError, Tells, RollsBack, GoesOn
  <2>3. columns' \in BOOLEAN
    BY <1>f DEF IInv, CallType, Kept, Same, SameCall, Threw, Resolved, TellsOk,
       TellsError, Tells, RollsBack, GoesOn
  <2>4. /\ call' \in {"execute", "stream"} /\ sql' \in Sql
        /\ purpose' \in {"single", "begin", "body", "commit", "rollback"}
    BY <1>f DEF IInv, CallType, Sql, Kept, Same, SameCall, Threw, Resolved, TellsOk,
       TellsError, Tells, RollsBack, GoesOn
  <2>5. course' \in {"in step", "behind", "caught", "nested"} /\ told' \in {"none", "ok", "error"}
        /\ nested' \in Nat
    BY <1>f DEF IInv, CallType, Kept, Same, SameCall, Threw, Resolved, TellsOk,
       TellsError, Tells, RollsBack, GoesOn
  <2> QED BY <2>1, <2>2, <2>3, <2>4, <2>5 DEF CallType
<1>5. NumberType'
  <2>1. count' \in 0 .. MaxStatements
    BY <1>n, <1>k
  <2>2. behind' \in Nat
    BY <1>n, <1>f
  <2>3. seen' \subseteq 0 .. count'
    <3>1. seen' \subseteq seen \cup {fromServer[1].of} /\ seen \subseteq 0 .. count
      BY <1>f DEF IInv, NumberType, Kept, Same, SameCall, Threw, Resolved, TellsOk,
         TellsError, Tells, RollsBack, GoesOn
    <3> QED BY <1>n, <1>c, <1>r, <3>1
  <2>4. (pending \cup durable \cup refused \cup body \subseteq 1 .. MaxStatements)'
    BY <1>k DEF IInv, NumberType
  <2> QED BY <2>1, <2>2, <2>3, <2>4 DEF NumberType
<1>6. ServerType'
  BY <1>f DEF IInv, Kept, Same, SameCall, Threw, Resolved, TellsOk, TellsError, Tells,
     RollsBack, GoesOn, ServerType, CallType
<1>7. StageSound'
  BY <1>f DEF IInv, Kept, Same, SameCall, Threw, Resolved, TellsOk, TellsError, Tells,
     RollsBack, GoesOn, StageSound, CallSound
<1>8. CallSound'
  <2>1. CASE Threw
    BY <1>f, <1>k, <2>1, CallThrows DEF Kept
  <2>2. CASE Resolved
    BY <1>f, <1>k, <2>2, CallResolves DEF Kept
  <2>3. CASE ~Threw /\ ~Resolved
    <3>1. /\ SameCall /\ isConnected' = isConnected
          /\ stage' \notin {"idle", "callback"} /\ (stage' = "yielded" => call = "stream")
      BY <1>f, <2>3 DEF Kept, Same
    <3>2. stage' = "yielded" /\ purpose # "single" /\ course = "in step" =>
            purpose \in {"begin", "body"}
      BY <3>1 DEF IInv, CallSound
    <3> QED BY <1>k, <3>1, <3>2 DEF IInv, SameCall, CallSound
  <2> QED BY <2>1, <2>2, <2>3
<1>9. BodyCounted'
  <2>1. CASE Threw
    BY <1>k, <2>1, BodyCountedThrows
  <2>2. CASE ~Threw
    <3>1. /\ course' = "in step" => course = "in step"
          /\ count' = count /\ purpose' = purpose /\ body' = body
      BY <1>f, <1>k, <2>2 DEF Same, SameCall, Resolved, TellsOk, TellsError, Tells, GoesOn
    <3> QED BY <1>k, <3>1 DEF IInv, BodyCounted
  <2> QED BY <2>1, <2>2
<1>10. SessionSound'
  BY <1>n, <1>c, <1>r, <1>q, <1>w, <1>f, <1>k DEF IInv, Kept, Same, SameCall, Threw,
     Resolved, TellsOk, TellsError, Tells, RollsBack, GoesOn, SessionSound, StageSound,
     ConnectSound, Only, EndsIn
<1>11. ConnectSound'
  BY <1>n, <1>c, <1>r, <1>q, <1>w, <1>f, <1>k DEF IInv, Kept, Same, SameCall, Threw,
     Resolved, TellsOk, TellsError, Tells, RollsBack, GoesOn, ConnectSound, StageSound,
     CallSound, CallType, Only, EndsIn, Quiet
<1>12. UnreadCounted'
  BY <1>n, <1>c, <1>r, <1>q, <1>w, <1>f, <1>k DEF IInv, Kept, Same, SameCall, Threw,
     Resolved, TellsOk, TellsError, Tells, RollsBack, GoesOn, UnreadCounted,
     StageSound, ConnectSound, EndsIn, Quiet
<1>13. InStep'
  <2> SUFFICES ASSUME isConnected', behind' = 0 PROVE InStep'
    BY DEF InStep
  <2>1. behind = 0 /\ isConnected /\ statementCache' = statementCache /\ dialect' = "mysql"
    BY <1>f DEF Kept
  <2>2. /\ EndsIn(fromServer, {"error", "end"}) /\ Own(fromServer) /\ sql = "read"
        /\ ~lost => toServer = <<>>
        /\ \A e \in statementCache : e[2] <=> e[1] = "read"
    BY <1>f, <1>r, <2>1 DEF IInv, InStep, LastOf, Owed
  <2>3. /\ fromServer[1].type \in {"error", "end"} => fromServer' = <<>>
        /\ fromServer[1].type \notin {"error", "end"} =>
             fromServer' # <<>> /\ EndsIn(fromServer', {"error", "end"})
    BY <1>r, <2>2, ReadsEnds DEF IInv
  <2>4. CASE fromServer[1].type \in {"error", "end"}
    <3>1. stage' \in {"idle", "callback", "writing"} /\ toServer' = toServer /\ lost' = lost
      BY <1>f, <2>4 DEF Kept, Resolved, TellsOk, TellsError, Tells, Threw, RollsBack,
         GoesOn
    <3> QED BY <2>1, <2>2, <2>3, <2>4, <3>1 DEF InStep, Quiet
  <2>5. CASE fromServer[1].type \notin {"error", "end"}
    <3>1. /\ stage' \in {"reading", "yielded"} /\ toServer' = toServer /\ lost' = lost
          /\ count' = count /\ columns' /\ sql' = "read"
      BY <1>f, <2>1, <2>2, <2>5 DEF Kept, Same, SameCall
    <3>2. Own(fromServer)'
      BY <1>r, <2>2, <3>1 DEF Own
    <3>3. LastOf' = {"error", "end"}
      BY <2>1, <3>1 DEF LastOf
    <3> QED BY <2>1, <2>2, <2>3, <2>5, <3>1, <3>2, <3>3 DEF InStep, Owed
  <2> QED BY <2>4, <2>5
<1>14. OwnSeen'
  <2>1. behind' = behind /\ seen' \in {{}, seen \cup {fromServer[1].of}}
    BY <1>f DEF Threw
  <2>2. behind = 0 => fromServer[1].of = count
    BY <1>f, <1>r DEF IInv, InStep, StageSound, Own
  <2>3. seen' = {} \/ count' = count
    BY <1>f DEF Threw, GoesOn, Resolved, TellsOk, TellsError, Tells, Same, SameCall
  <2> QED BY <2>1, <2>2, <2>3 DEF IInv, OwnSeen
<1>15. BodySound'
  <2>1. CASE Threw
    <3> QED BY <2>1, BodyThrows
  <2>2. CASE ~Threw
    <3> SUFFICES ASSUME UnderWay' PROVE BodySound'
      BY DEF BodySound
    <3>1. /\ UnderWay /\ behind' = behind /\ purpose' = purpose /\ count' = count
          /\ toServer' = toServer /\ columns
      BY <1>f, <2>2 DEF Kept, Same, SameCall, Resolved, GoesOn, TellsOk, TellsError,
         Tells, UnderWay,
                        IInv, CallSound
    <3>2. behind = 0
      BY <3>1 DEF IInv, BodySound
    <3>3. ~Failed' /\ ~Failed
      BY <1>f, <1>k DEF Failed
    <3>4. (~lost => toServer = <<>> /\ Executed) /\ purpose = "body"
      BY <1>f, <1>r, <3>1, <3>2 DEF IInv, InStep, StageSound, Owed, Executed,
         CallSound, UnderWay
    <3>5. \/ stage' \in {"reading", "yielded"} /\ stage = "reading"
          \/ stage' = "callback"
      BY <1>f, <2>2, <3>1, <3>4 DEF Same, SameCall, Resolved, GoesOn, TellsOk,
         TellsError, Tells, UnderWay,
                              IInv, CallSound
    <3>6. ~lost => Executed'
      BY <3>1, <3>4, <3>5 DEF Executed
    <3> QED BY <1>k, <1>r, <1>f, <3>1, <3>2, <3>3, <3>4, <3>5, <3>6
            DEF IInv, BodySound, NoneRefused
  <2> QED BY <2>1, <2>2
<1>16. GaveUpSound'
  <2>1. OnlyReads
    BY <1>f DEF OnlyReads, Kept
  <2>2. CASE Threw
    <3>1. behind = 0 /\ ~lost => toServer = <<>> /\ sql = "read"
      BY <1>f, <1>r DEF IInv, InStep, StageSound, Owed
    <3>2. behind = 0 /\ ~lost => purpose # "commit"
      BY <3>1 DEF IInv, CallSound
    <3> QED BY <1>f, <2>1, <2>2, <3>1, <3>2, GaveUpThrows
  <2>3. CASE Resolved
    BY <1>f, <2>1, <2>3, GaveUpResolves
  <2>4. CASE Same
    BY <1>f, <2>1, <2>4, GaveUpStays DEF Same
  <2> QED BY <1>f, <2>2, <2>3, <2>4
<1>17. CommitSound'
  BY <1>n, <1>c, <1>r, <1>q, <1>w, <1>f, <1>k DEF IInv, Kept, Same, SameCall, Threw,
     Resolved, TellsOk, TellsError, Tells, RollsBack, GoesOn, CommitSound, NoneRefused,
     BodySound, UnderWay, Executed, Failed, InStep, Owed, EndsIn, LastOf, Only, CallSound
<1> QED BY <1>1, <1>2, <1>3, <1>4, <1>5, <1>6, <1>7, <1>8, <1>9, <1>10, <1>11, <1>12,
           <1>13, <1>14, <1>15, <1>16, <1>17 DEF IInv

\* A connection that broke promises nothing but what it told already.
LEMMA BrokenIInv ==
  ASSUME IInv, Broken
  PROVE  IInv'
<1> USE DEF vars, conn, wire, server, outcome, statement
<1>n. /\ count \in Nat /\ MaxStatements \in Nat /\ count <= MaxStatements
      /\ behind \in Nat /\ count + 1 \notin pending \cup durable \cup refused \cup body
      /\ \A i \in 1 .. Len(toServer) : toServer[i].of \in Nat
      /\ \A i \in 1 .. Len(fromServer) : fromServer[i].of \in Nat
  BY Numbers
<1>c. count' \in {count, count + 1}
  BY DEF Broken, Throws, Tell, Returns, Issue
<1>t. Throws => seen' = {} /\ (TellsError \/ RollsBack \/ GoesOn)
  BY ThrowsCases
<1>1. ToServerSound'
  <2>1. toServer' = toServer /\ UsedBefore
    BY <1>t DEF UsedBefore, Broken
  <2> QED BY <1>c, <2>1, ToServerStays
<1>2. FromServerSound'
  <2>1. fromServer' = fromServer
    BY <1>t DEF Broken
  <2> QED BY <1>c, <2>1, FromServerStays
<1>3. KnownSound'
  BY <1>n, <1>c, <1>t DEF IInv, Broken, TellsError, Tells, RollsBack, GoesOn, KnownSound
<1>4. CallType'
  <2>1. dialect' \in Dialects /\ use' \in Uses /\ open' \in BOOLEAN /\ isConnected' \in BOOLEAN /\ lost' \in BOOLEAN
    BY <1>t DEF IInv, CallType, Broken, TellsError, Tells, RollsBack, GoesOn
  <2>2. stage' \in Stage
    BY <1>t DEF IInv, CallType, Stage, Broken, TellsError, Tells, RollsBack, GoesOn
  <2>3. columns' \in BOOLEAN
    BY <1>t DEF IInv, CallType, Broken, TellsError, Tells, RollsBack, GoesOn
  <2>4. /\ call' \in {"execute", "stream"} /\ sql' \in Sql
        /\ purpose' \in {"single", "begin", "body", "commit", "rollback"}
    BY <1>t DEF IInv, CallType, Sql, Broken, TellsError, Tells, RollsBack, GoesOn
  <2>5. course' \in {"in step", "behind", "caught", "nested"} /\ told' \in {"none", "ok", "error"}
        /\ nested' \in Nat
    BY <1>t DEF IInv, CallType, Broken, TellsError, Tells, RollsBack, GoesOn
  <2> QED BY <2>1, <2>2, <2>3, <2>4, <2>5 DEF CallType
<1>5. NumberType'
  <2>1. count' \in 0 .. MaxStatements /\ behind' \in Nat
    BY <1>n, <1>c, <1>t DEF Broken, TellsError, Tells, RollsBack, GoesOn
  <2>2. seen' \subseteq 0 .. count'
    BY <1>n, <1>c, <1>t DEF IInv, NumberType, Broken, TellsError, Tells, RollsBack, GoesOn
  <2>3. (pending \cup durable \cup refused \cup body \subseteq 1 .. MaxStatements)'
    BY <1>n, <1>c, <1>t DEF IInv, NumberType, Broken, TellsError, Tells, RollsBack, GoesOn
  <2> QED BY <2>1, <2>2, <2>3 DEF NumberType
<1>6. ServerType'
  BY <1>t DEF IInv, Broken, TellsError, Tells, RollsBack, GoesOn, ServerType, CallType
<1>7. StageSound'
  BY <1>t DEF IInv, Broken, TellsError, Tells, RollsBack, GoesOn, StageSound, CallSound
<1>8. CallSound'
  <2>1. Threw /\ isConnected' = isConnected /\ stage # "idle"
    BY <1>t DEF Threw, Broken
  <2> QED BY <2>1, CallThrows
<1>9. BodyCounted'
  <2>1. Threw /\ stage # "idle"
    BY <1>t DEF Threw, Broken
  <2> QED BY <2>1, BodyCountedThrows
<1>10. SessionSound'
  <2>1. SessionSound
    BY DEF IInv
  <2>2. /\ isConnected' = isConnected /\ session' = session /\ lost' = lost /\ dialect' = dialect
        /\ behind' = behind /\ statementCache' = statementCache /\ lost
    BY DEF Broken
  <2>3. ASSUME session # "ready"
        PROVE  purpose' \in {"single", "begin"} /\ stage' = "idle" /\ nested' = 0
    <3>1. purpose \in {"single", "begin"} /\ nested = 0
      BY <2>1, <2>3 DEF SessionSound
    <3>2. CASE TellsError
      BY <3>1, <3>2 DEF TellsError, Tells
    <3>3. CASE RollsBack
      BY <3>1, <3>3 DEF RollsBack
    <3>4. CASE GoesOn
      <4> QED BY <3>1, <3>4 DEF GoesOn
    <3> QED BY <1>t, <3>2, <3>3, <3>4 DEF Broken
  <2> QED BY <2>1, <2>2, <2>3 DEF SessionSound
<1>11. ConnectSound'
  BY <1>n, <1>c, <1>t DEF IInv, Broken, TellsError, Tells, RollsBack, GoesOn,
     ConnectSound, StageSound, CallSound, CallType, Only, EndsIn, Quiet
<1>12. UnreadCounted'
  <2>1. Unread' = Unread
    BY DEF Unread, Broken
  <2> QED BY <2>1, <1>n, <1>c, <1>t DEF IInv, Broken, TellsError, Tells, RollsBack,
             GoesOn, UnreadCounted, StageSound, ConnectSound, EndsIn, Quiet
<1>13. InStep'
  BY <1>n, <1>c, <1>t DEF IInv, Broken, TellsError, Tells, RollsBack, GoesOn, InStep,
     Owed, Own, Only, EndsIn, LastOf, Quiet, ConnectSound, StageSound, CallType
<1>14. OwnSeen'
  BY <1>n, <1>c, <1>t DEF IInv, Broken, TellsError, Tells, RollsBack, GoesOn, OwnSeen,
     InStep, Own, EndsIn, ConnectSound, Only, StageSound
<1>15. BodySound'
  BY <1>n, <1>c, <1>t DEF IInv, Broken, TellsError, Tells, RollsBack, GoesOn,
     BodySound, UnderWay, Executed, Failed, NoneRefused, InStep, Owed, Only, EndsIn,
     LastOf, Quiet, StageSound, CallSound, BodyCounted
<1>16. GaveUpSound'
  BY <1>n, <1>c, <1>t DEF IInv, Broken, TellsError, Tells, RollsBack, GoesOn,
     GaveUpSound, GaveUp, RollbackFirst, BodySound, UnderWay, Executed, Failed,
     NoneRefused, InStep, Owed, Only, EndsIn, LastOf, Quiet, StageSound, CallSound,
     BodyCounted
<1>17. CommitSound'
  BY <1>n, <1>c, <1>t DEF IInv, Broken, TellsError, Tells, RollsBack, GoesOn,
     CommitSound, NoneRefused, BodySound, UnderWay, Executed, Failed, InStep, Owed,
     EndsIn, LastOf, Only, CallSound
<1> QED BY <1>1, <1>2, <1>3, <1>4, <1>5, <1>6, <1>7, <1>8, <1>9, <1>10, <1>11, <1>12,
           <1>13, <1>14, <1>15, <1>16, <1>17 DEF IInv

\* What the server had pending is gone; what is durable stays.
LEMMA LosesIInv ==
  ASSUME IInv, Loses
  PROVE  IInv'
<1> USE DEF vars, conn, wire, server, outcome, statement
<1>n. /\ count \in Nat /\ MaxStatements \in Nat /\ count <= MaxStatements
      /\ behind \in Nat /\ count + 1 \notin pending \cup durable \cup refused \cup body
      /\ \A i \in 1 .. Len(toServer) : toServer[i].of \in Nat
      /\ \A i \in 1 .. Len(fromServer) : fromServer[i].of \in Nat
  BY Numbers
<1>c. count' \in {count, count + 1}
  BY DEF Loses
<1>1. ToServerSound'
  <2>1. toServer' = <<>>
    BY DEF Loses
  <2>2. toServer' \in Seq(Message) /\ 1 .. Len(toServer') = {}
    BY <2>1, NoIndex, EmptySeq
  <2> QED BY <2>2 DEF ToServerSound
<1>2. FromServerSound'
  <2>1. CASE fromServer' = fromServer
    BY <1>c, <2>1, FromServerStays
  <2>2. CASE fromServer' = <<>>
    <3>1. fromServer' \in Seq(Message) /\ 1 .. Len(fromServer') = {}
      BY <2>2, NoIndex, EmptySeq
    <3> QED BY <3>1 DEF FromServerSound
  <2> QED BY <2>1, <2>2 DEF Loses
<1>3. KnownSound'
  BY <1>n, <1>c DEF IInv, Loses, KnownSound
<1>4. CallType'
  <2>1. dialect' \in Dialects /\ use' \in Uses /\ open' \in BOOLEAN /\ isConnected' \in BOOLEAN /\ lost' \in BOOLEAN
    BY DEF IInv, CallType, Loses
  <2>2. stage' \in Stage
    BY DEF IInv, CallType, Stage, Loses
  <2>3. columns' \in BOOLEAN
    BY DEF IInv, CallType, Loses
  <2>4. /\ call' \in {"execute", "stream"} /\ sql' \in Sql
        /\ purpose' \in {"single", "begin", "body", "commit", "rollback"}
    BY DEF IInv, CallType, Sql, Loses
  <2>5. course' \in {"in step", "behind", "caught", "nested"} /\ told' \in {"none", "ok", "error"}
        /\ nested' \in Nat
    BY DEF IInv, CallType, Loses
  <2> QED BY <2>1, <2>2, <2>3, <2>4, <2>5 DEF CallType
<1>5. NumberType'
  <2>1. count' \in 0 .. MaxStatements /\ behind' \in Nat
    BY <1>n, <1>c DEF Loses
  <2>2. seen' \subseteq 0 .. count'
    BY <1>n, <1>c DEF IInv, NumberType, Loses
  <2>3. (pending \cup durable \cup refused \cup body \subseteq 1 .. MaxStatements)'
    BY <1>n, <1>c DEF IInv, NumberType, Loses
  <2> QED BY <2>1, <2>2, <2>3 DEF NumberType
<1>6. ServerType'
  BY DEF IInv, Loses, ServerType, CallType
<1>7. StageSound'
  BY DEF IInv, Loses, StageSound, CallSound
<1>8. CallSound'
  BY DEF IInv, Loses, CallSound, StageSound
<1>9. BodyCounted'
  BY <1>n, <1>c DEF IInv, Loses, BodyCounted, CallSound, KnownSound
<1>10. SessionSound'
  <2>1. /\ lost' /\ session' = session /\ behind' = behind /\ purpose' = purpose
        /\ statementCache' = statementCache /\ stage' = stage /\ nested' = nested
        /\ fromServer' \in {fromServer, <<>>}
    BY DEF Loses
  <2>2. (\A i \in 1 .. Len(fromServer) : fromServer[i].type = "error") =>
        (\A i \in 1 .. Len(fromServer') : fromServer'[i].type = "error")
    BY <2>1, NoIndex
  <2> QED BY <2>1, <2>2 DEF IInv, SessionSound
<1>11. ConnectSound'
  BY <1>n, <1>c DEF IInv, Loses, ConnectSound, StageSound, CallSound, CallType, Only,
     EndsIn, Quiet
<1>12. UnreadCounted'
  BY <1>n, <1>c DEF IInv, Loses, UnreadCounted, StageSound, ConnectSound, EndsIn, Quiet
<1>13. InStep'
  <2>1. /\ lost' /\ isConnected' = isConnected /\ behind' = behind /\ stage' = stage
        /\ statementCache' = statementCache /\ columns' = columns /\ sql' = sql
        /\ count' = count /\ dialect' = dialect /\ fromServer' \in {fromServer, <<>>}
    BY DEF Loses
  <2>2. InStep
    BY DEF IInv
  <2>3. CASE fromServer' = fromServer
    BY <2>1, <2>2, <2>3 DEF InStep, Own, LastOf
  <2>4. CASE fromServer' = <<>>
    <3>1. Own(fromServer)' /\ Len(fromServer') <= 1
      <4>1. Len(fromServer') = 0
        BY <2>4, EmptySeq
      <4> QED BY <2>4, <4>1, NoIndex DEF Own
    <3> QED BY <2>1, <2>2, <2>4, <3>1 DEF InStep
  <2> QED BY <2>1, <2>3, <2>4
<1>14. OwnSeen'
  BY <1>n, <1>c DEF IInv, Loses, OwnSeen, InStep, Own, EndsIn, ConnectSound, Only,
     StageSound
<1>15. BodySound'
  BY <1>n, <1>c DEF IInv, Loses, BodySound, UnderWay, Executed, Failed, NoneRefused,
     InStep, Owed, Only, EndsIn, LastOf, Quiet, StageSound, CallSound, BodyCounted
<1>16. GaveUpSound'
  BY <1>n, <1>c DEF IInv, Loses, GaveUpSound, GaveUp, RollbackFirst, BodySound,
     UnderWay, Executed, Failed, NoneRefused, InStep, Owed, Only, EndsIn, LastOf,
     Quiet, StageSound, CallSound, BodyCounted
<1>17. CommitSound'
  BY <1>n, <1>c DEF IInv, Loses, CommitSound, NoneRefused, BodySound, UnderWay,
     Executed, Failed, InStep, Owed, EndsIn, LastOf, Only, CallSound
<1> QED BY <1>1, <1>2, <1>3, <1>4, <1>5, <1>6, <1>7, <1>8, <1>9, <1>10, <1>11, <1>12,
           <1>13, <1>14, <1>15, <1>16, <1>17 DEF IInv

\* The server speaks first, once.
LEMMA ServerGreetsIInv ==
  ASSUME IInv, ServerGreets
  PROVE  IInv'
<1> USE DEF vars, conn, wire, server, outcome, statement
<1>n. /\ count \in Nat /\ MaxStatements \in Nat /\ count <= MaxStatements
      /\ behind \in Nat /\ count + 1 \notin pending \cup durable \cup refused \cup body
      /\ \A i \in 1 .. Len(toServer) : toServer[i].of \in Nat
      /\ \A i \in 1 .. Len(fromServer) : fromServer[i].of \in Nat
  BY Numbers
<1>a. /\ dialect = "mysql" /\ open /\ session = "new" /\ ~lost /\ session' = "greeted"
      /\ Answers(<<Reply("handshake", 0)>>) /\ toServer' = toServer
      /\ dialect' = dialect /\ open' = open /\ isConnected' = isConnected /\ lost' = lost
      /\ stage' = stage /\ use' = use /\ SameCall /\ columns' = columns /\ seen' = seen
      /\ statementCache' = statementCache /\ behind' = behind
      /\ tx' = tx /\ pending' = pending /\ durable' = durable /\ refused' = refused
  BY DEF ServerGreets, SameCall
<1>m. Reply("handshake", 0) \in Message /\ Reply("handshake", 0).of = 0
  <2>1. "handshake" \in Type
    BY DEF Type
  <2> QED BY <2>1, ReplyType
<1>t. /\ <<Reply("handshake", 0)>> \in Seq(Message) /\ Len(<<Reply("handshake", 0)>>) = 1
      /\ <<Reply("handshake", 0)>>[1] = Reply("handshake", 0)
  BY <1>m, OneMessage
<1>b. /\ ~isConnected /\ stage = "greeting" /\ toServer = <<>> /\ fromServer = <<>>
      /\ behind = 0 /\ statementCache = {} /\ purpose \in {"single", "begin"} /\ nested = 0
  <2>1. ~isConnected
    BY <1>a DEF IInv, SessionSound
  <2>2. stage \in {"idle", "opening", "greeting", "authenticating", "sasl", "verifying"}
    BY <2>1 DEF IInv, CallType, Stage, StageSound
  <2>3. stage = "greeting"
    BY <1>a, <2>1, <2>2 DEF IInv, ConnectSound, StageSound
  <2> QED BY <1>a, <2>1, <2>3 DEF IInv, ConnectSound, SessionSound
<1>c. count' \in {count, count + 1}
  BY DEF ServerGreets
<1>1. ToServerSound'
  <2>1. UsedBefore
    BY <1>a DEF UsedBefore
  <2> QED BY <1>a, <1>c, <2>1, ToServerStays
<1>2. FromServerSound'
  <2>1. count' = count /\ 0 <= count
    BY <1>n, <1>a DEF SameCall
  <2>2. \A i \in 1 .. Len(<<Reply("handshake", 0)>>) : <<Reply("handshake", 0)>>[i].of <= count
    BY <1>m, <1>t, <2>1, OnlyIndex
  <2> QED BY <1>a, <1>t, <2>1, <2>2, FromServerAnswers
<1>3. KnownSound'
  BY <1>a DEF IInv, KnownSound, SameCall
<1>4. CallType'
  BY <1>a DEF IInv, CallType, SameCall
<1>5. NumberType'
  BY <1>a DEF IInv, NumberType, SameCall
<1>6. ServerType'
  BY <1>a DEF IInv, ServerType, SameCall
<1>7. StageSound'
  BY <1>a DEF IInv, StageSound, SameCall
<1>8. CallSound'
  BY <1>a DEF IInv, CallSound, SameCall
<1>9. BodyCounted'
  BY <1>a DEF IInv, BodyCounted, SameCall
<1>10. SessionSound'
  BY <1>a, <1>b DEF SessionSound, SameCall
<1>11. ConnectSound'
  <2>1. fromServer' = <<Reply("handshake", 0)>>
    BY <1>a, <1>b, <1>t, AnswersFacts DEF IInv, FromServerSound
  <2>2. Len(fromServer') = 1
    BY <1>t, <2>1
  <2>3. open' /\ stage' = "greeting" /\ toServer' = <<>> /\ session' = "greeted"
        /\ dialect' = "mysql" /\ behind' = 0 /\ statementCache' = {}
    BY <1>a, <1>b
  <2> QED BY <2>2, <2>3 DEF ConnectSound
<1>12. UnreadCounted'
  BY <1>a, <1>b DEF UnreadCounted
<1>13. InStep'
  BY <1>a, <1>b DEF InStep
<1>14. OwnSeen'
  BY <1>a DEF IInv, OwnSeen, SameCall
<1>15. BodySound'
  <2>1. Executed' <=> Executed
    BY <1>a DEF Executed
  <2>2. ~Failed' /\ ~Failed
    BY <1>a DEF Failed
  <2> QED BY <1>a, <1>b, <2>1, <2>2 DEF IInv, BodySound, UnderWay, NoneRefused, SameCall
<1>16. GaveUpSound'
  BY <1>a, <1>b DEF IInv, GaveUpSound, GaveUp, RollbackFirst, SameCall
<1>17. CommitSound'
  BY <1>a DEF IInv, CommitSound, NoneRefused, SameCall
<1> QED BY <1>1, <1>2, <1>3, <1>4, <1>5, <1>6, <1>7, <1>8, <1>9, <1>10, <1>11, <1>12,
           <1>13, <1>14, <1>15, <1>16, <1>17 DEF IInv

\* Each message of connect() is answered by the one its stage waits for.
LEMMA ServerAuthenticatesIInv ==
  ASSUME IInv, ServerAuthenticates
  PROVE  IInv'
<1> USE DEF vars, conn, wire, server, outcome, statement
<1>n. /\ count \in Nat /\ MaxStatements \in Nat /\ count <= MaxStatements
      /\ behind \in Nat /\ count + 1 \notin pending \cup durable \cup refused \cup body
      /\ \A i \in 1 .. Len(toServer) : toServer[i].of \in Nat
      /\ \A i \in 1 .. Len(fromServer) : fromServer[i].of \in Nat
  BY Numbers
<1>a. /\ toServer # <<>> /\ session # "ready" /\ ~lost /\ toServer' = Tail(toServer)
      /\ dialect' = dialect /\ open' = open /\ isConnected' = isConnected
      /\ stage' = stage /\ use' = use /\ SameCall /\ columns' = columns /\ seen' = seen
      /\ statementCache' = statementCache /\ behind' = behind
      /\ tx' = tx /\ pending' = pending /\ durable' = durable /\ refused' = refused
  BY DEF ServerAuthenticates, SameCall
<1>t. /\ toServer[1] = Head(toServer) /\ Len(toServer) \in Nat /\ Len(toServer) >= 1
      /\ Len(toServer') = Len(toServer) - 1
      /\ \A i \in 1 .. Len(toServer') :
           toServer'[i] = toServer[i + 1] /\ i + 1 \in 1 .. Len(toServer)
      /\ toServer' = <<>> <=> Len(toServer) = 1
  BY <1>a, TailFacts DEF IInv, ToServerSound
<1>b. /\ behind = 0 /\ statementCache = {} /\ purpose \in {"single", "begin"} /\ nested = 0
      /\ stage \notin {"defining", "reading", "yielded", "callback"}
      /\ ~Executed /\ ~Executed'
  <2>1. /\ behind = 0 /\ statementCache = {} /\ purpose \in {"single", "begin"} /\ nested = 0
        /\ stage \notin {"defining", "reading", "yielded", "callback"}
    BY <1>a DEF IInv, SessionSound
  <2> QED BY <1>a, <2>1 DEF Executed
<1>p. PICK t : Answers(t) /\ Welcomes(t)
  BY <1>a, <1>t, AuthenticatesFacts
<1>q. /\ t \in Seq(Message) /\ \A i \in 1 .. Len(t) : t[i].of = 0
      /\ fromServer \in Seq(Message)
  BY <1>p DEF Welcomes, IInv, FromServerSound
<1>g. fromServer = <<>> /\ toServer' = <<>> /\ fromServer' = t
  <2>1. fromServer = <<>> /\ Len(toServer) = 1
    BY <1>p DEF Welcomes
  <2> QED BY <1>p, <1>q, <1>t, <2>1, AnswersFacts
<1>c. count' \in {count, count + 1}
  BY DEF ServerAuthenticates
<1>1. ToServerSound'
  <2>1. UsedBefore
    BY <1>a DEF UsedBefore
  <2>2. count' = count
    BY <1>a DEF SameCall
  <2> QED BY <1>a, <2>1, <2>2, ToServerTail
<1>2. FromServerSound'
  <2>1. count' = count /\ 0 <= count
    BY <1>n, <1>a DEF SameCall
  <2>2. \A i \in 1 .. Len(t) : t[i].of <= count
    BY <1>q, <2>1
  <2> QED BY <1>p, <1>q, <2>1, <2>2, FromServerAnswers
<1>3. KnownSound'
  BY <1>a DEF IInv, KnownSound, SameCall
<1>4. CallType'
  <2>1. lost' \in BOOLEAN
    BY <1>p DEF Welcomes
  <2> QED BY <1>a, <2>1 DEF IInv, CallType, SameCall
<1>5. NumberType'
  BY <1>a DEF IInv, NumberType, SameCall
<1>6. ServerType'
  BY <1>a, <1>p DEF IInv, ServerType, Welcomes
<1>7. StageSound'
  <2>1. open
    BY <1>a DEF IInv, StageSound, ConnectSound, Quiet
  <2> QED BY <1>a, <2>1 DEF IInv, StageSound
<1>8. CallSound'
  BY <1>a DEF IInv, CallSound, SameCall
<1>9. BodyCounted'
  BY <1>a DEF IInv, BodyCounted, SameCall
<1>10. SessionSound'
  <2>1. isConnected' => lost'
    BY <1>a, <1>p DEF Welcomes
  <2>2. stage = "preparing" => \A i \in 1 .. Len(fromServer') : fromServer'[i].type = "error"
    BY <1>g, <1>p DEF Welcomes
  <2> QED BY <1>a, <1>b, <2>1, <2>2 DEF SessionSound, SameCall
<1>11. ConnectSound'
  <2> SUFFICES ASSUME ~lost' PROVE ConnectSound'
    BY <1>a, <1>b DEF ConnectSound
  <2>1. open'
    BY <1>a DEF IInv, StageSound, ConnectSound, Quiet
  <2> QED BY <1>a, <1>b, <1>g, <1>p, <2>1 DEF ConnectSound, Welcomes
<1>12. UnreadCounted'
  BY <1>a, <1>p DEF UnreadCounted, Welcomes
<1>13. InStep'
  <2> SUFFICES ASSUME isConnected PROVE InStep'
    BY <1>a DEF InStep
  <2>1. lost' /\ Len(fromServer') = 1 /\ fromServer'[1].type = "error" /\ stage = "preparing"
    BY <1>g, <1>p DEF Welcomes
  <2> QED BY <1>a, <1>b, <2>1 DEF InStep
<1>14. OwnSeen'
  BY <1>a DEF IInv, OwnSeen, SameCall
<1>15. BodySound'
  <2>1. UnderWay' => purpose' = "begin" /\ course' = "in step"
    BY <1>a, <1>b DEF UnderWay, SameCall
  <2>2. UnderWay' => body' = {}
    BY <1>a, <2>1 DEF IInv, BodyCounted, SameCall
  <2> QED BY <1>a, <1>b, <2>1, <2>2 DEF BodySound
<1>16. GaveUpSound'
  <2>1. 1 .. Len(toServer') = {}
    BY <1>g, NoIndex
  <2>2. ~lost' => ~RollbackFirst
    BY <1>b, <1>p DEF Welcomes, RollbackFirst, Sql
  <2> QED BY <1>a, <1>b, <2>1, <2>2 DEF IInv, GaveUpSound, GaveUp, SameCall
<1>17. CommitSound'
  BY <1>a DEF IInv, CommitSound, NoneRefused, SameCall
<1> QED BY <1>1, <1>2, <1>3, <1>4, <1>5, <1>6, <1>7, <1>8, <1>9, <1>10, <1>11, <1>12,
           <1>13, <1>14, <1>15, <1>16, <1>17 DEF IInv

\* The answer to the one request is the statement's own, and its outcome is the
\* transaction's.
LEMMA ServesIInv ==
  ASSUME IInv, Serves
  PROVE  IInv'
<1> USE DEF vars, conn, wire, server, outcome, statement
<1>n. /\ count \in Nat /\ MaxStatements \in Nat /\ count <= MaxStatements
      /\ behind \in Nat /\ count + 1 \notin pending \cup durable \cup refused \cup body
      /\ \A i \in 1 .. Len(toServer) : toServer[i].of \in Nat
      /\ \A i \in 1 .. Len(fromServer) : fromServer[i].of \in Nat
  BY Numbers
<1>a. /\ session = "ready" /\ toServer # <<>> /\ ~lost /\ toServer' = Tail(toServer)
      /\ dialect' = dialect /\ open' = open /\ isConnected' = isConnected /\ lost' = lost
      /\ stage' = stage /\ use' = use /\ SameCall /\ columns' = columns /\ seen' = seen
      /\ statementCache' = statementCache /\ behind' = behind /\ session' = session
  BY DEF Serves, SameCall
<1>t. /\ toServer[1] \in Message /\ toServer[1].of \in Nat /\ Len(toServer) \in Nat /\ Len(toServer) >= 1
      /\ Len(toServer') = Len(toServer) - 1
      /\ \A i \in 1 .. Len(toServer') :
           toServer'[i] = toServer[i + 1] /\ i + 1 \in 1 .. Len(toServer)
      /\ toServer' = <<>> <=> Len(toServer) = 1
  BY <1>a, TailFacts DEF IInv, ToServerSound
<1>o. /\ toServer[1].of <= count
      /\ toServer[1].type \in Sql => toServer[1].of \in 1 .. count
      /\ dialect = "pg" /\ isConnected => toServer[1].type \in Sql
  <2>1. 1 \in 1 .. Len(toServer)
    BY <1>t
  <2> QED BY <1>n, <1>a, <1>t, <2>1 DEF IInv, ToServerSound
<1>b. isConnected
  <2> SUFFICES ASSUME ~isConnected PROVE FALSE
    OBVIOUS
  <2>1. /\ dialect \in {"pg", "mysql"} /\ ConnectSound
        /\ stage \in {"idle", "opening", "greeting", "authenticating", "sasl", "verifying"}
    BY SessionAssumption DEF IInv, CallType, Stage, StageSound
  <2>2. stage \in {"sasl", "verifying"} => dialect = "pg"
    BY DEF IInv, StageSound
  <2> QED BY <1>a, <2>1, <2>2 DEF ConnectSound, Quiet
<1>p. PICK t \in Seq(Message) :
        /\ Answers(t) /\ \A i \in 1 .. Len(t) : t[i].of = toServer[1].of
        /\ Prepares(t) \/ Performs(t)
  BY ServesFacts
<1>c. count' \in {count, count + 1}
  BY DEF Serves
<1>1. ToServerSound'
  <2>1. UsedBefore /\ count' = count
    BY <1>a DEF UsedBefore, SameCall
  <2> QED BY <1>a, <2>1, ToServerTail
<1>2. FromServerSound'
  <2>1. count' = count
    BY <1>a DEF SameCall
  <2> QED BY <1>o, <1>p, <2>1, FromServerAnswers
<1>3. KnownSound'
  <2>1. CASE Prepares(t)
    BY <1>a, <2>1 DEF IInv, KnownSound, Prepares, SameCall
  <2>2. CASE Performs(t)
    <3>1. toServer[1].of \in 1 .. count
      BY <1>o, <2>2 DEF Performs
    <3>2. /\ pending' \subseteq pending \cup {toServer[1].of}
          /\ durable' \subseteq durable \cup pending \cup {toServer[1].of}
          /\ refused' \subseteq refused \cup {toServer[1].of}
      BY <2>2 DEF Performs, Takes, Refuses
    <3> QED BY <1>a, <3>1, <3>2 DEF IInv, KnownSound, SameCall
  <2> QED BY <1>p, <2>1, <2>2
<1>4. CallType'
  BY <1>a DEF IInv, CallType, SameCall
<1>5. NumberType'
  <2>1. CASE Prepares(t)
    BY <1>a, <2>1 DEF IInv, NumberType, Prepares, SameCall
  <2>2. CASE Performs(t)
    <3>1. toServer[1].of \in 1 .. count
      BY <1>o, <2>2 DEF Performs
    <3>2. /\ pending' \subseteq pending \cup {toServer[1].of}
          /\ durable' \subseteq durable \cup pending \cup {toServer[1].of}
          /\ refused' \subseteq refused \cup {toServer[1].of}
      BY <2>2 DEF Performs, Takes, Refuses
    <3>3. toServer[1].of \in 1 .. MaxStatements
      BY <1>n, <3>1
    <3> QED BY <1>a, <3>2, <3>3 DEF IInv, NumberType, SameCall
  <2> QED BY <1>p, <2>1, <2>2
<1>6. ServerType'
  <2>1. tx' \in {"none", "open", "failed"}
    BY <1>p DEF IInv, ServerType, Prepares, Performs, Takes, Refuses
  <2> QED BY <1>a, <2>1 DEF IInv, ServerType
<1>7. StageSound'
  BY <1>a DEF IInv, StageSound, SameCall
<1>8. CallSound'
  BY <1>a DEF IInv, CallSound, SameCall
<1>9. BodyCounted'
  BY <1>a DEF IInv, BodyCounted, SameCall
<1>10. SessionSound'
  BY <1>a, <1>b DEF IInv, SessionSound, SameCall
<1>11. ConnectSound'
  BY <1>a, <1>b DEF ConnectSound
<1>12. UnreadCounted'
  <2> SUFFICES ASSUME dialect = "pg" PROVE UnreadCounted'
    BY <1>a DEF UnreadCounted
  <2>1. Performs(t)
    <3>1. toServer[1].type # "prepare"
      BY <1>b, <1>o DEF Sql
    <3> QED BY <1>p, <3>1 DEF Prepares
  <2>2. EndsIn(t, {"ready"})
    BY <2>1 DEF Performs, Answer
  <2>3. Unread' = Unread
    BY <1>a, <1>p, <2>2, UnreadAnswers
  <2>4. UnreadCounted
    BY DEF IInv
  <2> QED BY <1>a, <2>3, <2>4 DEF UnreadCounted
<1>13. InStep'
  <2> SUFFICES ASSUME behind = 0 PROVE InStep'
    BY <1>a DEF InStep
  <2>0. InStep /\ toServer # <<>> /\ sql' = sql /\ count' = count
    BY <1>a DEF IInv, SameCall
  <2>1. stage \in {"preparing", "reading", "yielded"} /\ fromServer = <<>>
    BY <1>a, <1>b, <2>0 DEF InStep, Owed, Quiet, IInv, CallType, Stage, StageSound,
       ConnectSound
  <2>2. fromServer' = t
    BY <1>p, <2>1, AnswersFacts DEF IInv, FromServerSound
  <2>3. CASE stage = "preparing"
    <3>1. Only(toServer, Reply("prepare", count))
      BY <1>a, <1>b, <2>0, <2>3 DEF InStep, Owed
    <3>2. Len(toServer) = 1 /\ toServer[1].type = "prepare" /\ toServer[1].of = count
      BY <3>1, OnlyType
    <3>3. Prepares(t)
      BY <1>p, <3>2 DEF Performs, Sql
    <3>4. toServer' = <<>> /\ t # <<>>
      BY <1>t, <3>2, <3>3 DEF Prepares
    <3>5. Own(fromServer)'
      BY <1>p, <2>0, <2>2, <3>2 DEF Own
    <3>6. Owed(Reply("prepare", count))'
      BY <2>2, <3>4 DEF Owed
    <3> QED BY <1>a, <2>0, <2>2, <2>3, <3>2, <3>3, <3>5, <3>6 DEF InStep, Prepares
  <2>4. CASE stage \in {"reading", "yielded"}
    <3>1. Only(toServer, Reply(sql, count)) /\ (dialect = "mysql" => (columns <=> sql = "read"))
      BY <1>a, <1>b, <2>0, <2>4 DEF InStep, Owed
    <3>2. Len(toServer) = 1 /\ toServer[1].type = sql /\ toServer[1].of = count
      BY <3>1, OnlyType
    <3>3. Performs(t)
      <4>1. toServer[1].type # "prepare"
        BY <3>2 DEF IInv, CallType, Sql
      <4> QED BY <1>p, <4>1 DEF Prepares
    <3>4. toServer' = <<>>
      BY <1>t, <3>2
    <3>5. Own(fromServer)'
      BY <1>p, <2>0, <2>2, <3>2 DEF Own
    <3>6. EndsIn(t, LastOf) /\ LastOf' = LastOf
      <4>1. dialect \in {"pg", "mysql"}
        BY SessionAssumption DEF IInv, CallType
      <4> QED BY <1>a, <3>1, <3>2, <3>3, <4>1 DEF Performs, Answer, LastOf
    <3>7. Owed(Reply(sql, count))'
      BY <2>2, <3>4, <3>6 DEF Owed, EndsIn
    <3>8. dialect = "mysql" => columns \/ Len(t) <= 1
      BY <3>1, <3>2, <3>3 DEF Performs, Answer
    <3> QED BY <1>a, <2>0, <2>2, <2>4, <3>1, <3>5, <3>6, <3>7, <3>8 DEF InStep
  <2> QED BY <2>1, <2>3, <2>4
<1>14. OwnSeen'
  BY <1>a DEF IInv, OwnSeen, SameCall
<1>15. BodySound'
  <2> SUFFICES ASSUME UnderWay PROVE BodySound'
    BY <1>a DEF BodySound, UnderWay, SameCall
  <2>0. /\ body' = body /\ purpose' = purpose /\ sql' = sql /\ count' = count
        /\ behind = 0 /\ stage' = stage /\ lost' = lost /\ dialect' = dialect /\ behind' = behind
        /\ dialect \in {"pg", "mysql"}
    BY <1>a, SessionAssumption DEF IInv, BodySound, SameCall, CallType
  <2>1. stage \in {"preparing", "reading", "yielded"} /\ fromServer = <<>>
    BY <1>a, <1>b, <2>0
            DEF InStep, Owed, Quiet, IInv, CallType, Stage, StageSound, ConnectSound
  <2>2. fromServer' = t /\ ~Executed /\ ~Failed
    <3>1. fromServer' = t
      BY <1>p, <2>1, AnswersFacts DEF IInv, FromServerSound
    <3>2. ~Executed
      BY <1>a, <2>1 DEF Executed
    <3>3. ~Failed
      BY <2>1, NoIndex DEF Failed
    <3> QED BY <3>1, <3>2, <3>3
  <2>3. CASE stage = "preparing"
    <3>1. Only(toServer, Reply("prepare", count)) /\ dialect = "mysql"
      BY <1>a, <1>b, <2>0, <2>3 DEF IInv, InStep, Owed, StageSound
    <3>2. toServer[1].type = "prepare"
      BY <3>1, OnlyType
    <3>3. tx' = tx /\ pending' = pending /\ durable' = durable /\ refused' = refused
      BY <1>p, <3>2 DEF Prepares, Performs, Sql
    <3>4. ~Executed' /\ ~Failed'
      BY <2>0, <2>3, <3>1 DEF Executed, Failed
    <3> QED BY <2>0, <2>2, <2>3, <3>1, <3>3, <3>4 DEF IInv, BodySound, NoneRefused
  <2>4. CASE stage \in {"reading", "yielded"}
    <3>1. Only(toServer, Reply(sql, count))
      BY <1>a, <1>b, <2>0, <2>4 DEF IInv, InStep, Owed
    <3>2. Len(toServer) = 1 /\ toServer[1].type = sql /\ toServer[1].of = count
      BY <3>1, OnlyType
    <3>3. Performs(t)
      <4>1. toServer[1].type # "prepare"
        BY <3>2 DEF IInv, CallType, Sql
      <4> QED BY <1>p, <4>1 DEF Prepares
    <3>4. Executed' /\ (Failed' <=> dialect = "pg" /\ HasError(t))
      <4>1. toServer' = <<>>
        BY <1>t, <3>2
      <4>2. Executed'
        BY <2>0, <2>4, <4>1 DEF Executed
      <4>3. Failed' <=> dialect = "pg" /\ HasError(t)
        BY <2>0, <2>2 DEF Failed, HasError
      <4> QED BY <4>2, <4>3
    <3>5. \/ purpose = "begin" /\ sql = "begin" /\ body = {}
          \/ purpose = "body" /\ sql \in {"read", "write"} /\ count \in body
          \/ purpose = "commit" /\ sql = "commit" /\ count \in body
      BY <2>4 DEF UnderWay, IInv, CallSound, BodyCounted
    <3>6. purpose # "begin" =>
            /\ tx = "open" /\ body \ {count} \subseteq pending \cup refused
            /\ dialect = "pg" => NoneRefused
            /\ body \cap durable = {}
      BY <1>a, <2>2 DEF IInv, BodySound
    <3>7. CASE purpose = "begin"
      <4>1. toServer[1].type = "begin" /\ body' = {}
        BY <2>0, <3>2, <3>5, <3>7
      <4>2. CASE Takes(toServer[1])
        <5>1. tx' = "open"
          BY <4>1, <4>2 DEF Takes
        <5> QED BY <2>0, <3>7, <4>1, <5>1 DEF BodySound, NoneRefused
      <4>3. CASE Refuses(toServer[1]) /\ HasError(t)
        <5>1. Failed'
          BY <3>4, <4>1, <4>3 DEF Refuses
        <5> QED BY <2>0, <3>7, <4>1, <5>1 DEF BodySound
      <4> QED BY <3>3, <4>2, <4>3 DEF Performs
    <3>8. CASE purpose = "body"
      <4>0. sql \in {"read", "write"} /\ count \in body /\ tx = "open"
        BY <3>5, <3>6, <3>8
      <4>1. CASE Takes(toServer[1]) /\ ~HasError(t)
        <5>1. /\ tx' = "open" /\ pending' = pending \cup {count} /\ durable' = durable
              /\ refused' = refused
          BY <3>2, <4>0, <4>1 DEF Takes
        <5> QED BY <2>0, <3>6, <3>8, <5>1 DEF BodySound, NoneRefused
      <4>2. CASE Refuses(toServer[1]) /\ HasError(t)
        <5>1. /\ pending' = pending /\ durable' = durable
              /\ refused' = refused \cup {count}
          BY <3>2, <4>0, <4>2 DEF Refuses
        <5>2. dialect = "mysql" => tx' = "open"
          BY <3>2, <4>0, <4>2 DEF Refuses
        <5>3. dialect = "pg" => Failed'
          BY <3>4, <4>2
        <5> QED BY <2>0, <3>6, <3>8, <5>1, <5>2, <5>3 DEF BodySound, NoneRefused
      <4> QED BY <3>3, <4>1, <4>2 DEF Performs
    <3>9. CASE purpose = "commit"
      <4>0. sql = "commit" /\ count \in body /\ tx = "open"
        BY <3>5, <3>6, <3>9
      <4>1. CASE Takes(toServer[1]) /\ ~HasError(t)
        <5>1. durable' = durable \cup pending \cup {count} /\ refused' = refused
          BY <3>2, <4>0, <4>1 DEF Takes
        <5>2. ~Failed'
          BY <3>4, <4>1
        <5>3. NoneRefused => body \subseteq durable'
          BY <3>6, <3>9, <5>1 DEF NoneRefused
        <5> QED BY <2>0, <3>4, <3>6, <3>9, <5>1, <5>2, <5>3 DEF BodySound, NoneRefused
      <4>2. CASE Refuses(toServer[1]) /\ HasError(t)
        <5>1. durable' = durable /\ refused' = refused \cup {count}
          BY <3>2, <4>0, <4>2 DEF Refuses
        <5>2. dialect = "pg" => Failed'
          BY <3>4, <4>2
        <5>3. dialect = "mysql" => ~NoneRefused' /\ ~Failed'
          BY <2>0, <3>4, <4>0, <5>1 DEF NoneRefused
        <5> QED BY <2>0, <3>4, <3>6, <3>9, <5>1, <5>2, <5>3 DEF BodySound
      <4> QED BY <3>3, <4>1, <4>2 DEF Performs
    <3> QED BY <3>7, <3>8, <3>9 DEF UnderWay
  <2> QED BY <2>1, <2>3, <2>4
<1>16. GaveUpSound'
  <2>0. /\ body' = body /\ purpose' = purpose /\ told' = told /\ course' = course /\ stage' = stage
        /\ lost' = lost /\ dialect' = dialect /\ behind' = behind /\ GaveUpSound
    BY <1>a DEF SameCall, IInv
  <2> SUFFICES ASSUME GaveUp
               PROVE  /\ body \cap durable' = {}
                      /\ body \cap pending' = {} \/ RollbackFirst'
                      /\ \A i \in 1 .. Len(toServer') : toServer'[i].of \notin body
    BY <2>0 DEF GaveUpSound, GaveUp
  <2>1. /\ body \cap durable = {} /\ (body \cap pending = {} \/ RollbackFirst)
        /\ \A i \in 1 .. Len(toServer) : toServer[i].of \notin body
    BY <1>a DEF IInv, GaveUpSound
  <2>2. \A i \in 1 .. Len(toServer') : toServer'[i].of \notin body
    BY <1>t, <2>1
  <2>3. toServer[1].of \notin body
    <3>1. 1 \in 1 .. Len(toServer)
      BY <1>t
    <3> QED BY <2>1, <3>1
  <2>4. ASSUME RollbackFirst
        PROVE  \/ toServer[1].type = "rollback"
               \/ /\ purpose = "rollback" /\ stage = "preparing" /\ toServer[1].type = "prepare"
    <3> SUFFICES ASSUME toServer[1].type # "rollback"
                 PROVE  /\ purpose = "rollback" /\ stage = "preparing"
                        /\ toServer[1].type = "prepare"
      OBVIOUS
    <3>1. purpose = "rollback" /\ stage = "preparing"
      BY <1>a, <2>4 DEF RollbackFirst
    <3>2. behind = 0
      BY <2>0, <3>1 DEF GaveUp, GaveUpSound, IInv, StageSound
    <3>3. Only(toServer, Reply("prepare", count))
      BY <1>a, <1>b, <3>1, <3>2 DEF IInv, InStep, Owed
    <3> QED BY <3>1, <3>3, OnlyType
  <2>5. CASE Prepares(t)
    <3>1. toServer[1].type = "prepare" /\ durable' = durable /\ pending' = pending
      BY <2>5 DEF Prepares
    <3>2. RollbackFirst => RollbackFirst'
      BY <2>0, <2>4, <3>1 DEF RollbackFirst
    <3> QED BY <2>1, <2>2, <3>1, <3>2
  <2>6. CASE Performs(t)
    <3>1. toServer[1].type \in Sql
      BY <2>6 DEF Performs
    <3>2. RollbackFirst => toServer[1].type = "rollback"
      BY <2>4, <3>1 DEF Sql
    <3>3. /\ durable' \subseteq durable \cup {toServer[1].of} \cup
               (IF toServer[1].type \in {"commit", "begin"} THEN pending ELSE {})
          /\ pending' \subseteq pending \cup {toServer[1].of}
          /\ toServer[1].type = "rollback" => pending' = {}
      BY <2>6 DEF Performs, Takes, Refuses
    <3>4. body \cap durable' = {}
      <4>1. CASE toServer[1].type \in {"commit", "begin"}
        <5>1. body \cap pending = {}
          BY <2>1, <3>2, <4>1
        <5> QED BY <2>1, <2>3, <3>3, <5>1
      <4>2. CASE toServer[1].type \notin {"commit", "begin"}
        BY <2>1, <2>3, <3>3, <4>2
      <4> QED BY <4>1, <4>2
    <3>5. body \cap pending' = {}
      <4>1. CASE RollbackFirst
        BY <3>2, <3>3, <4>1
      <4>2. CASE ~RollbackFirst
        BY <2>1, <2>3, <3>3, <4>2
      <4> QED BY <4>1, <4>2
    <3> QED BY <2>2, <3>4, <3>5
  <2> QED BY <1>p, <2>5, <2>6
<1>17. CommitSound'
  <2>1. durable \subseteq durable' /\ refused \subseteq refused'
    BY <1>p DEF Prepares, Performs, Takes, Refuses
  <2> QED BY <1>a, <2>1 DEF IInv, CommitSound, NoneRefused, SameCall
<1> QED BY <1>1, <1>2, <1>3, <1>4, <1>5, <1>6, <1>7, <1>8, <1>9, <1>10, <1>11, <1>12,
           <1>13, <1>14, <1>15, <1>16, <1>17 DEF IInv

LEMMA StutterIInv ==
  ASSUME IInv, UNCHANGED vars
  PROVE  IInv'
<1> USE DEF vars, conn, wire, server, outcome, statement
<1>1. (ToServerSound /\ FromServerSound /\ KnownSound)'
  BY DEF IInv, ToServerSound, FromServerSound, KnownSound
<1>2. (CallType /\ NumberType /\ ServerType)'
  <2>1. CallType'
    BY DEF IInv, CallType
  <2>2. NumberType'
    BY DEF IInv, NumberType
  <2>3. ServerType'
    BY DEF IInv, ServerType
  <2> QED BY <2>1, <2>2, <2>3
<1>3. (StageSound /\ CallSound /\ BodyCounted /\ SessionSound)'
  BY DEF IInv, StageSound, CallSound, BodyCounted, SessionSound
<1>4. ConnectSound'
  BY DEF IInv, ConnectSound, Quiet
<1>5. UnreadCounted'
  BY DEF IInv, UnreadCounted, Unread
<1>6. (InStep /\ OwnSeen)'
  BY DEF IInv, InStep, OwnSeen, Quiet, Owed, Own, LastOf
<1>7. (BodySound /\ GaveUpSound /\ CommitSound)'
  BY DEF IInv, BodySound, GaveUpSound, CommitSound, UnderWay, Executed, Failed,
     NoneRefused,
         GaveUp, RollbackFirst
<1> QED BY <1>1, <1>2, <1>3, <1>4, <1>5, <1>6, <1>7 DEF IInv

\* A driver that was not used yet.
LEMMA InitIInv == Init => IInv
<1> SUFFICES ASSUME Init PROVE IInv
  OBVIOUS
<1> USE DEF Init
<1>1. /\ toServer = <<>> /\ fromServer = <<>> /\ 1 .. Len(toServer) = {} /\ 1 .. Len(fromServer) = {}
  BY NoIndex
<1>2. ToServerSound /\ FromServerSound
  <2>1. <<>> \in Seq(Message)
    BY EmptySeq
  <2> QED BY <1>1, <2>1 DEF ToServerSound, FromServerSound
<1>3. KnownSound /\ NumberType
  <2>1. 0 \in 0 .. MaxStatements
    <3>1. MaxStatements \in Nat
      BY SessionAssumption
    <3> HIDE DEF Init
    <3> QED BY <3>1
  <2> QED BY <2>1 DEF KnownSound, NumberType
<1>4. CallType /\ ServerType
  BY DEF CallType, ServerType, Stage, Sql
<1>5. StageSound /\ CallSound /\ BodyCounted
  BY DEF StageSound, CallSound, BodyCounted
<1>6. SessionSound /\ ConnectSound
  BY <1>1 DEF SessionSound, ConnectSound, Quiet
<1>7. UnreadCounted /\ InStep /\ OwnSeen
  BY DEF UnreadCounted, InStep, OwnSeen
<1>8. BodySound /\ GaveUpSound /\ CommitSound
  BY <1>1 DEF BodySound, UnderWay, GaveUpSound, GaveUp, CommitSound
<1> QED BY <1>2, <1>3, <1>4, <1>5, <1>6, <1>7, <1>8 DEF IInv

LEMMA NextIInv == IInv /\ [Next]_vars => IInv'
<1> SUFFICES ASSUME IInv, [Next]_vars PROVE IInv'
  OBVIOUS
<1>1. ASSUME NEW c \in {"execute", "stream"}, NEW s \in {"read", "write"}, Execute(c, s)
      PROVE  IInv'
  BY <1>1, ExecuteIInv
<1>2. CASE Transaction \/ Loses
  BY <1>2, TransactionIInv, LosesIInv
<1>3. CASE Proceed
  <2>1. CASE Opened \/ OpenFails \/ PgGreeting \/ PgAuthenticate \/ PgSasl
    BY <2>1, OpenedIInv, OpenFailsIInv, PgGreetingIInv, PgAuthenticateIInv, PgSaslIInv
  <2>2. CASE MysqlGreeting \/ MysqlAuthenticate \/ PgWrite \/ PgRead \/ MysqlPrepare
    BY <2>2, MysqlGreetingIInv, MysqlAuthenticateIInv, PgWriteIInv, PgReadIInv,
       MysqlPrepareIInv
  <2>3. CASE MysqlPrepared \/ MysqlDefined \/ MysqlReadOk \/ MysqlReadRow
    BY <2>3, MysqlPreparedIInv, MysqlDefinedIInv, MysqlReadOkIInv, MysqlReadRowIInv
  <2>4. CASE Broken \/ Consume \/ Callback
    BY <2>4, BrokenIInv, ConsumeIInv, CallbackIInv
  <2> QED BY <1>3, <2>1, <2>2, <2>3, <2>4 DEF Proceed
<1>4. CASE Server
  BY <1>4, ServerGreetsIInv, ServerAuthenticatesIInv, ServesIInv DEF Server
<1>5. CASE UNCHANGED vars
  BY <1>5, StutterIInv
<1> QED BY <1>1, <1>2, <1>3, <1>4, <1>5 DEF Next

-----------------------------------------------------------------------------
(* The theorems. *)

\* The strengthening holds of every reachable state.
THEOREM InductiveInvariant == Spec => []IInv
<1> QED BY InitIInv, NextIInv, PTL DEF Spec

LEMMA TypesSound ==
  ASSUME IInv
  PROVE  TypeOK
<1>1. /\ toServer \in Seq(Message) /\ fromServer \in Seq(Message)
      /\ \A i \in 1 .. Len(toServer) : toServer[i].of <= count
      /\ \A i \in 1 .. Len(fromServer) : fromServer[i].of <= count
  BY DEF IInv, ToServerSound, FromServerSound
<1>2. \A m \in Range(toServer \o fromServer) : m.of \in 0 .. count
  BY <1>1, Numbers, WireType
<1> QED BY <1>2 DEF IInv, TypeOK

LEMMA AnswersSound ==
  ASSUME IInv
  PROVE  AnswersMatched
<1>1. behind = 0 => seen \subseteq {count}
  BY DEF IInv, OwnSeen
<1>2. ASSUME stage = "idle", isConnected, ~lost
      PROVE  IF dialect = "pg" THEN Unread = behind
             ELSE behind = 0 => fromServer = <<>> /\ toServer = <<>>
  <2>1. UnreadCounted /\ behind \in Nat
    BY Numbers DEF IInv
  <2>2. dialect = "pg" => Unread = behind
    <3>1. dialect = "pg" => Unread = behind + 0
      BY <1>2, <2>1 DEF UnreadCounted
    <3> QED BY <2>1, <3>1
  <2>3. InStep
    BY DEF IInv
  <2>4. behind = 0 => fromServer = <<>> /\ toServer = <<>>
    BY <1>2, <2>3 DEF InStep, Quiet
  <2> QED BY <2>2, <2>4
<1> QED BY <1>1, <1>2 DEF AnswersMatched

\* A statement reads the messages of its own answer, and a call that ended leaves
\* nothing behind, while the connection is in step; on PostgreSQL every statement
\* that threw, and every stream left early, leaves exactly one answer unread: for
\* any number of calls, nested as they may be, results of any length and any loss of
\* the connection.
THEOREM SessionIsSafe == Spec => []Safety
<1>1. IInv => Safety
  BY TypesSound, AnswersSound DEF Safety
<1> QED BY <1>1, InductiveInvariant, PTL

\* What transaction() tells its caller is what the server did, unless its function
\* left a stream before its end, caught an error or called transaction() of the
\* same driver: it resolves only after every statement is durable, and throws only
\* when none is, unless the connection broke, or (MySQL) the server refused a
\* statement without columns.
THEOREM OutcomesAreTold == Spec => []OutcomeTold
<1>1. IInv => OutcomeTold
  <2> SUFFICES ASSUME IInv, stage = "idle", course = "in step"
               PROVE  /\ told = "ok" /\ (dialect = "pg" \/ body \cap refused = {}) =>
                           body \subseteq durable
                      /\ told = "error" /\ ~lost => body \cap durable = {}
    BY DEF OutcomeTold
  <2>1. CommitSound /\ GaveUpSound
    BY DEF IInv
  <2> QED BY <2>1 DEF CommitSound, GaveUpSound, GaveUp, NoneRefused
<1> QED BY <1>1, InductiveInvariant, PTL
=============================================================================
