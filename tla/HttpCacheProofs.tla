--------------------------- MODULE HttpCacheProofs ---------------------------
(* TLAPS proofs about HttpCache. *)
EXTENDS HttpCache, SequenceTheorems, WellFoundedInduction, TLAPS

-----------------------------------------------------------------------------
(* The Map. *)

LEMMA EntriesOf ==
  ASSUME NEW s \in Seq(Entry)
  PROVE  /\ Len(s) \in Nat /\ \A i \in 1 .. Len(s) : s[i] \in Entry
         /\ \A e : e \in ToSet(s) <=> \E i \in 1 .. Len(s) : s[i] = e
<1>1. Len(s) \in Nat /\ \A i \in 1 .. Len(s) : s[i] \in Entry
  BY LenProperties, ElementOfSeq
<1>2. DOMAIN s = 1 .. Len(s)
  BY LenProperties
<1> QED BY <1>1, <1>2 DEF ToSet

LEMMA LeastNatural ==
  ASSUME NEW T, T \subseteq Nat, T # {}
  PROVE  \E n \in T : \A m \in T : n <= m
<1>1. \E n \in T : \A m \in T : ~ (<<m, n>> \in OpToRel(<, Nat))
  BY NatLessThanWellFounded, WFMin
<1>2. \A m \in Nat, n \in Nat : m < n => <<m, n>> \in OpToRel(<, Nat)
  BY Zenon DEF OpToRel
<1>3. \E n \in T : \A m \in T : ~(m < n)
  BY <1>1, <1>2, Zenon
<1> QED BY <1>3

\* Without() takes the one entry of the key out and keeps the others.
LEMMA WithoutFacts ==
  ASSUME NEW s \in Seq(Entry), UniqueKeys(s), NEW k \in Key
  PROVE  /\ Without(s, k) \in Seq(Entry) /\ UniqueKeys(Without(s, k))
         /\ \A e \in ToSet(Without(s, k)) : e \in ToSet(s) /\ e.key # k
<1>1. Len(s) \in Nat /\ \A i \in 1 .. Len(s) : s[i] \in Entry
  BY EntriesOf
<1>2. CASE ~ \E i \in 1 .. Len(s) : s[i].key = k
  <2>1. Without(s, k) = s
    BY <1>2 DEF Without, RemoveFirstMatch
  <2> QED BY <1>2, <2>1, EntriesOf
<1>3. CASE \E i \in 1 .. Len(s) : s[i].key = k
  <2> DEFINE n == SelectInSeq(s, LAMBDA e : e.key = k)
             left == SubSeq(s, 1, n - 1)
             right == SubSeq(s, n + 1, Len(s))
             hits == {i \in 1 .. Len(s) : s[i].key = k}
  <2>1. Without(s, k) = left \o right
    BY <1>3 DEF Without, RemoveFirstMatch, RemoveAt
  <2>2. n \in 1 .. Len(s) /\ s[n].key = k
    <3>1. hits # {} /\ hits \subseteq Nat
      BY <1>1, <1>3
    <3>2. n = Min(hits)
      BY <1>3 DEF SelectInSeq
    <3>3. n \in hits
      <4> HIDE DEF hits, n
      <4> QED BY <3>1, <3>2, LeastNatural DEF Min
    <3> QED BY <3>3
  <2> HIDE DEF n, hits
  <2>3. /\ left \in Seq(Entry) /\ Len(left) = n - 1
        /\ \A i \in 1 .. n - 1 : left[i] = s[i]
    BY <1>1, <2>2, SubSeqProperties
  <2>4. /\ right \in Seq(Entry) /\ Len(right) = Len(s) - n
        /\ \A i \in 1 .. Len(s) - n : right[i] = s[i + n]
    BY <1>1, <2>2, SubSeqProperties
  <2> HIDE DEF left, right
  <2> DEFINE w == left \o right
             at(i) == IF i < n THEN i ELSE i + 1
  <2>5. /\ w \in Seq(Entry) /\ Len(w) = Len(s) - 1
        /\ \A i \in 1 .. Len(s) - 1 :
             w[i] = IF i <= n - 1 THEN left[i] ELSE right[i - (n - 1)]
    <3>1. /\ w \in Seq(Entry) /\ Len(w) = Len(left) + Len(right)
          /\ \A i \in 1 .. Len(left) + Len(right) :
               w[i] = IF i <= Len(left) THEN left[i] ELSE right[i - Len(left)]
      BY <2>3, <2>4, ConcatProperties
    <3>2. Len(left) + Len(right) = Len(s) - 1
      BY <1>1, <2>2, <2>3, <2>4
    <3> HIDE DEF w
    <3> QED BY <3>1, <3>2, <2>3
  <2>6. ASSUME NEW i \in 1 .. Len(s) - 1
        PROVE  at(i) \in 1 .. Len(s) /\ at(i) # n /\ w[i] = s[at(i)]
    <3>1. CASE i < n
      BY <3>1, <1>1, <2>2, <2>3, <2>5
    <3>2. CASE ~(i < n)
      <4>1. i - (n - 1) \in 1 .. Len(s) - n /\ (i - (n - 1)) + n = i + 1
        BY <3>2, <1>1, <2>2
      <4>2. right[i - (n - 1)] = s[(i - (n - 1)) + n]
        BY <4>1, <2>4
      <4> QED BY <3>2, <4>1, <4>2, <1>1, <2>2, <2>5
    <3> QED BY <3>1, <3>2
  <2>7. \A i, j \in 1 .. Len(s) - 1 : at(i) = at(j) => i = j
    BY <1>1, <2>2
  <2> HIDE DEF w, at
  <2>8. UniqueKeys(w)
    BY <2>5, <2>6, <2>7 DEF UniqueKeys
  <2>9. \A e \in ToSet(w) : e \in ToSet(s) /\ e.key # k
    <3> SUFFICES ASSUME NEW e \in ToSet(w) PROVE e \in ToSet(s) /\ e.key # k
      OBVIOUS
    <3>1. PICK i \in 1 .. Len(s) - 1 : w[i] = e
      BY <2>5, EntriesOf
    <3>2. at(i) \in 1 .. Len(s) /\ at(i) # n /\ s[at(i)] = e
      BY <2>6, <3>1
    <3>3. e.key # k
      BY <3>2, <2>2 DEF UniqueKeys
    <3> QED BY <3>2, <3>3, EntriesOf
  <2> QED BY <2>1, <2>5, <2>8, <2>9 DEF w
<1> QED BY <1>2, <1>3

\* An entry that goes last, after the one of its key went.
LEMMA AppendFacts ==
  ASSUME NEW s \in Seq(Entry), UniqueKeys(s), NEW e \in Entry,
         \A o \in ToSet(s) : o.key # e.key
  PROVE  /\ Append(s, e) \in Seq(Entry) /\ UniqueKeys(Append(s, e))
         /\ \A o \in ToSet(Append(s, e)) : o \in ToSet(s) \/ o = e
         /\ Last(Append(s, e)) = e
<1>1. Len(s) \in Nat
  BY EntriesOf
<1>2. /\ Append(s, e) \in Seq(Entry) /\ Len(Append(s, e)) = Len(s) + 1
      /\ Append(s, e)[Len(s) + 1] = e
      /\ \A i \in 1 .. Len(s) : Append(s, e)[i] = s[i]
  BY <1>1, AppendProperties
<1>3. \A i \in 1 .. Len(s) + 1 : i \in 1 .. Len(s) \/ i = Len(s) + 1
  BY <1>1
<1>4. \A i \in 1 .. Len(s) : s[i] \in ToSet(s)
  BY EntriesOf
<1>5. UniqueKeys(Append(s, e))
  BY <1>2, <1>3, <1>4 DEF UniqueKeys
<1>6. \A o \in ToSet(Append(s, e)) : o \in ToSet(s) \/ o = e
  <2> SUFFICES ASSUME NEW o \in ToSet(Append(s, e)) PROVE o \in ToSet(s) \/ o = e
    OBVIOUS
  <2> DEFINE w == Append(s, e)
  <2>1. w \in Seq(Entry) /\ Len(w) = Len(s) + 1 /\ o \in ToSet(w)
    BY <1>2
  <2> HIDE DEF w
  <2>2. PICK i \in 1 .. Len(w) : w[i] = o
    BY <2>1, EntriesOf
  <2> QED BY <1>2, <1>3, <1>4, <2>1, <2>2 DEF w
<1> QED BY <1>2, <1>5, <1>6 DEF Last

LEMMA StoredFacts ==
  ASSUME NEW s \in Seq(Entry), UniqueKeys(s), NEW k \in Key, NEW v \in Version,
         NEW t \in 0 .. MaxClock
  PROVE  LET e == [key |-> k, version |-> v, storedAt |-> t]
         IN  /\ Stored(s, k, v, t) \in Seq(Entry) /\ UniqueKeys(Stored(s, k, v, t))
             /\ \A o \in ToSet(Stored(s, k, v, t)) : o \in ToSet(s) \/ o = e
             /\ Last(Stored(s, k, v, t)) = e
<1> DEFINE e == [key |-> k, version |-> v, storedAt |-> t]
           w == Without(s, k)
<1>1. /\ w \in Seq(Entry) /\ UniqueKeys(w)
      /\ \A o \in ToSet(w) : o \in ToSet(s) /\ o.key # k
  BY WithoutFacts
<1>2. e \in Entry /\ e.key = k
  BY DEF Entry
<1>3. Stored(s, k, v, t) = Append(w, e)
  BY DEF Stored
<1> HIDE DEF e, w
<1>4. /\ Append(w, e) \in Seq(Entry) /\ UniqueKeys(Append(w, e))
      /\ \A o \in ToSet(Append(w, e)) : o \in ToSet(w) \/ o = e
      /\ Last(Append(w, e)) = e
  BY <1>1, <1>2, AppendFacts
<1> QED BY <1>1, <1>3, <1>4 DEF e

LEMMA EvictedFacts ==
  ASSUME NEW k \in Key, cache \in Seq(Entry), UniqueKeys(cache)
  PROVE  /\ Evicted(k) \in Seq(Entry) /\ UniqueKeys(Evicted(k))
         /\ \A e \in ToSet(Evicted(k)) : e \in ToSet(cache)
<1>1. CASE Evicted(k) = cache
  BY <1>1
<1>2. CASE cache # <<>> /\ Evicted(k) = Tail(cache)
  <2>1. /\ Tail(cache) \in Seq(Entry) /\ Len(cache) \in Nat
        /\ Len(Tail(cache)) = Len(cache) - 1
        /\ \A i \in 1 .. Len(cache) - 1 : Tail(cache)[i] = cache[i + 1]
    BY <1>2, EmptySeq, HeadTailProperties, LenProperties
  <2>2. \A i \in 1 .. Len(cache) - 1 : i + 1 \in 1 .. Len(cache)
    BY <2>1
  <2>3. UniqueKeys(Tail(cache))
    <3> SUFFICES ASSUME NEW i \in 1 .. Len(cache) - 1, NEW j \in 1 .. Len(cache) - 1,
                        Tail(cache)[i].key = Tail(cache)[j].key
                 PROVE  i = j
      BY <2>1 DEF UniqueKeys
    <3>1. i + 1 = j + 1
      BY <2>1, <2>2 DEF UniqueKeys
    <3> QED BY <3>1
  <2>4. \A e \in ToSet(Tail(cache)) : e \in ToSet(cache)
    <3> SUFFICES ASSUME NEW e \in ToSet(Tail(cache)) PROVE e \in ToSet(cache)
      OBVIOUS
    <3>1. PICK i \in 1 .. Len(cache) - 1 : Tail(cache)[i] = e
      BY <2>1, EntriesOf
    <3> QED BY <2>1, <2>2, <3>1, EntriesOf
  <2> QED BY <1>2, <2>1, <2>3, <2>4
<1> QED BY <1>1, <1>2 DEF Evicted

-----------------------------------------------------------------------------
(* IInv is inductive. *)

LEMMA InitIInv == Init /\ ~OwnValidator => IInv
<1> SUFFICES ASSUME Init PROVE IInv
  OBVIOUS
<1>1. cache = <<>> /\ Len(cache) = 0 /\ cache \in Seq(Entry)
  BY EmptySeq DEF Init
<1>2. TypeOK
  BY <1>1, CacheAssumption DEF Init, TypeOK, Version, Answer, NoAnswer
<1>3. UniqueKeys(cache) /\ \A e \in ToSet(cache) : Dated(e)
  <2>1. \A e : e \in ToSet(cache) <=> \E i \in 1 .. Len(cache) : cache[i] = e
    BY <1>1, EntriesOf
  <2>2. 1 .. Len(cache) = {}
    BY <1>1
  <2> QED BY <2>1, <2>2 DEF UniqueKeys
<1>4. CachedSound
  BY DEF Init, CachedSound
<1>5. AnswerSound /\ EtagSound
  BY DEF Init, AnswerSound, EtagSound, Answered
<1> QED BY <1>2, <1>3, <1>4, <1>5 DEF IInv

LEMMA FoundFacts ==
  ASSUME TypeOK, UniqueKeys(cache), NEW k \in Key, NEW e \in Found(k)
  PROVE  /\ e \in Entry /\ e \in ToSet(cache) /\ e.key = k
         /\ \A f \in Found(k) : f = e
<1>1. cache \in Seq(Entry)
  BY DEF TypeOK
<1>2. \A f \in Found(k) : f \in ToSet(cache) /\ f.key = k
  BY DEF Found
<1>3. \A f \in ToSet(cache) : \E i \in 1 .. Len(cache) : cache[i] = f /\ f \in Entry
  BY <1>1, EntriesOf
<1> QED BY <1>2, <1>3 DEF UniqueKeys

\* A run moves to the end of the Map what it found in it.
LEMMA HitIInv ==
  ASSUME IInv, NEW r \in Request, NEW k \in Key, Hit(r, k)
  PROVE  IInv'
<1>1. PICK e \in Found(k) : cache' = Append(Without(cache, k), e)
  BY DEF Hit
<1>2. cache \in Seq(Entry) /\ UniqueKeys(cache) /\ e \in Entry /\ e \in ToSet(cache)
      /\ e.key = k
  BY FoundFacts DEF IInv, TypeOK
<1> DEFINE w == Without(cache, k)
<1>3. /\ w \in Seq(Entry) /\ UniqueKeys(w)
      /\ \A o \in ToSet(w) : o \in ToSet(cache) /\ o.key # k
  BY <1>2, WithoutFacts
<1> HIDE DEF w
<1>4. /\ cache' \in Seq(Entry) /\ UniqueKeys(cache')
      /\ \A o \in ToSet(cache') : o \in ToSet(cache)
  <2>1. /\ Append(w, e) \in Seq(Entry) /\ UniqueKeys(Append(w, e))
        /\ \A o \in ToSet(Append(w, e)) : o \in ToSet(w) \/ o = e
    BY <1>2, <1>3, AppendFacts
  <2> QED BY <1>1, <1>2, <1>3, <2>1 DEF w
<1>5. UNCHANGED <<clock, server, phase, sentAt, keyOf, cached, own, answer>>
  BY DEF Hit
<1>6. TypeOK'
  BY <1>4, <1>5 DEF IInv, TypeOK, server
<1>7. \A o \in ToSet(cache') : Dated(o)'
  BY <1>4, <1>5 DEF IInv, Dated, server
<1>8. CachedSound' /\ AnswerSound' /\ EtagSound'
  BY <1>5 DEF IInv, CachedSound, Dated, AnswerSound, EtagSound, Answered, server
<1> QED BY <1>4, <1>6, <1>7, <1>8 DEF IInv, UniqueKeys

LEMMA MissIInv ==
  ASSUME IInv, NEW r \in Request, NEW k \in Key, Miss(r, k, 0)
  PROVE  IInv'
<1> USE DEF IInv, Miss, server
<1>1. Found(k) \subseteq Entry
  BY FoundFacts
<1>2. TypeOK'
  BY <1>1, CacheAssumption DEF TypeOK
<1>3. UniqueKeys(cache)' /\ \A e \in ToSet(cache') : Dated(e)'
  BY DEF UniqueKeys, Dated
<1>4. CachedSound'
  <2>1. \A e \in Found(k) : Dated(e) /\ e.key = k /\ \A f \in Found(k) : f = e
    BY FoundFacts
  <2>2. \A q \in Request : q # r => cached'[q] = cached[q] /\ keyOf'[q] = keyOf[q]
    BY DEF TypeOK
  <2>3. cached'[r] = Found(k) /\ keyOf'[r] = k
    BY DEF TypeOK
  <2>4. \A e : Dated(e)' <=> Dated(e)
    BY DEF Dated
  <2> HIDE DEF Miss
  <2> QED BY <2>1, <2>2, <2>3, <2>4 DEF CachedSound
<1>5. AnswerSound'
  <2>1. /\ phase'[r] = "sent" /\ sentAt'[r] = clock /\ clock' = clock
        /\ UNCHANGED <<version, lastSeen, answer>>
        /\ \A q \in Request :
             q # r => phase'[q] = phase[q] /\ sentAt'[q] = sentAt[q] /\ keyOf'[q] = keyOf[q]
    BY DEF TypeOK
  <2>2. clock \in Nat /\ MaxLatency \in Nat
    BY CacheAssumption DEF TypeOK
  <2> HIDE DEF Miss
  <2> QED BY <2>1, <2>2 DEF AnswerSound
<1>6. EtagSound'
  BY DEF TypeOK, EtagSound, Answered
<1> QED BY <1>2, <1>3, <1>4, <1>5, <1>6

\* The end of a run: what it stores, if anything, is an entry of its key.
LEMMA EndsIInv ==
  ASSUME IInv, NEW r \in Request, Ends(r),
         cache' \in Seq(Entry), UniqueKeys(cache'),
         \A e \in ToSet(cache') : Dated(e)
  PROVE  IInv'
<1> USE DEF IInv, Ends, server
<1>1. TypeOK'
  BY CacheAssumption DEF TypeOK, Answer, NoAnswer
<1>2. \A e : Dated(e)' <=> Dated(e)
  BY DEF Dated
<1>3. CachedSound'
  <2>1. \A q \in Request : q # r => cached'[q] = cached[q]
    BY DEF TypeOK
  <2>2. cached'[r] = {} /\ keyOf' = keyOf
    BY DEF TypeOK
  <2> HIDE DEF Ends
  <2> QED BY <1>2, <2>1, <2>2 DEF CachedSound
<1>4. AnswerSound'
  BY DEF TypeOK, AnswerSound, NoAnswer
<1>5. EtagSound'
  BY DEF TypeOK, EtagSound, Answered, NoAnswer
<1>6. UniqueKeys(cache)'
  BY DEF UniqueKeys
<1> QED BY <1>1, <1>2, <1>3, <1>4, <1>5, <1>6

\* What an answered run knows of the version it stores.
LEMMA AnsweredFacts ==
  ASSUME IInv, NEW r \in Request, Answered(r, "200") \/ Answered(r, "304")
  PROVE  /\ keyOf[r] \in Key /\ answer[r].version \in Version /\ clock \in 0 .. MaxClock
         /\ Dated([key |-> keyOf[r], version |-> answer[r].version, storedAt |-> clock])
<1>1. /\ keyOf[r] \in Key /\ answer[r].version \in Version /\ clock \in 0 .. MaxClock
      /\ clock <= sentAt[r] + MaxLatency
      /\ \/ answer[r].version = version[keyOf[r]]
         \/ sentAt[r] <= lastSeen[keyOf[r]][answer[r].version]
  BY DEF IInv, TypeOK, AnswerSound, Answered
<1>2. /\ clock \in Nat /\ sentAt[r] \in Nat /\ MaxLatency \in Nat
      /\ lastSeen[keyOf[r]][answer[r].version] \in Nat
  BY <1>1, CacheAssumption DEF IInv, TypeOK
<1> QED BY <1>1, <1>2 DEF Dated

LEMMA StoreIInv ==
  ASSUME IInv, NEW r \in Request, Store(r)
  PROVE  IInv'
<1> DEFINE e == [key |-> keyOf[r], version |-> answer[r].version, storedAt |-> clock]
           s == Evicted(keyOf[r])
<1>1. /\ keyOf[r] \in Key /\ answer[r].version \in Version /\ clock \in 0 .. MaxClock
      /\ Dated(e)
  BY AnsweredFacts DEF Store
<1>2. /\ s \in Seq(Entry) /\ UniqueKeys(s)
      /\ \A o \in ToSet(s) : o \in ToSet(cache)
  BY <1>1, EvictedFacts DEF IInv, TypeOK
<1>3. cache' = Stored(s, keyOf[r], answer[r].version, clock) /\ Ends(r)
  BY DEF Store
<1> HIDE DEF s
<1>4. /\ cache' \in Seq(Entry) /\ UniqueKeys(cache')
      /\ \A o \in ToSet(cache') : o \in ToSet(s) \/ o = e
  BY <1>1, <1>2, <1>3, StoredFacts
<1> HIDE DEF e
<1>5. \A o \in ToSet(cache') : Dated(o)
  BY <1>1, <1>2, <1>4 DEF IInv
<1> QED BY <1>3, <1>4, <1>5, EndsIInv

\* The entry that goes back has the version the server confirmed.
LEMMA RevalidateFacts ==
  ASSUME IInv, NEW r \in Request, Revalidate(r)
  PROVE  /\ Ends(r) /\ cache' \in Seq(Entry) /\ UniqueKeys(cache')
         /\ \A o \in ToSet(cache') : Dated(o)
         /\ Last(cache').version = answer[r].version
<1> DEFINE e == [key |-> keyOf[r], version |-> answer[r].version, storedAt |-> clock]
<1>1. /\ keyOf[r] \in Key /\ answer[r].version \in Version /\ clock \in 0 .. MaxClock
      /\ Dated(e)
  BY AnsweredFacts DEF Revalidate
<1>2. /\ cache' = Stored(cache, keyOf[r], answer[r].version, clock)
      /\ Ends(r) /\ cache \in Seq(Entry) /\ UniqueKeys(cache)
  BY DEF Revalidate, IInv, TypeOK, EtagSound
<1>3. /\ cache' \in Seq(Entry) /\ UniqueKeys(cache') /\ Last(cache') = e
      /\ \A o \in ToSet(cache') : o \in ToSet(cache) \/ o = e
  BY <1>1, <1>2, StoredFacts
<1>4. e.version = answer[r].version
  OBVIOUS
<1> HIDE DEF e
<1> QED BY <1>1, <1>2, <1>3, <1>4 DEF IInv

LEMMA HandOnIInv ==
  ASSUME IInv, NEW r \in Request, PassOn(r) \/ ServeStale(r) \/ Throw(r)
  PROVE  IInv'
<1>1. Ends(r) /\ cache' = cache
  BY DEF PassOn, ServeStale, Throw
<1>2. cache \in Seq(Entry) /\ UniqueKeys(cache) /\ \A e \in ToSet(cache) : Dated(e)
  BY DEF IInv, TypeOK
<1> QED BY <1>1, <1>2, EndsIInv

LEMMA AnswersIInv ==
  ASSUME IInv, NEW r \in Request, Answers(r)
  PROVE  IInv'
<1> DEFINE v == version[keyOf[r]]
<1>1. PICK status \in {"200", "304", "500", "error"}, n \in 0 .. MaxVersion :
        /\ Delivers(r, status, n)
        /\ status \in {"200", "304"} => n = v
        /\ status = "304" => v \in Named(r)
  BY CacheAssumption DEF Answers, IInv, TypeOK, Version
<1>2. /\ phase[r] = "sent" /\ phase' = [phase EXCEPT ![r] = "answered"]
      /\ answer' = [answer EXCEPT ![r] = [status |-> status, version |-> n]]
      /\ UNCHANGED <<clock, version, lastSeen, cache, sentAt, keyOf, cached, own>>
  BY <1>1 DEF Delivers, server
<1>3. v \in Version
  BY DEF IInv, TypeOK
<1>4. TypeOK'
  BY <1>2 DEF IInv, TypeOK, Answer
<1>5. /\ phase'[r] = "answered" /\ answer'[r].status = status /\ answer'[r].version = n
      /\ \A q \in Request : q # r => phase'[q] = phase[q] /\ answer'[q] = answer[q]
  BY <1>2 DEF IInv, TypeOK
<1>6. UniqueKeys(cache)' /\ \A e \in ToSet(cache') : Dated(e)'
  BY <1>2 DEF IInv, UniqueKeys, Dated
<1>7. CachedSound'
  BY <1>2 DEF IInv, CachedSound, Dated
<1>8. AnswerSound'
  BY <1>1, <1>2, <1>3, <1>5 DEF IInv, AnswerSound
<1>9. EtagSound'
  <2>1. own[r] = 0 /\ \A e, f \in cached[r] : e = f
    BY DEF IInv, EtagSound, CachedSound
  <2>2. status = "304" => \A e \in cached[r] : e.version = n
    BY <1>1, <2>1 DEF Named
  <2> QED BY <1>2, <1>5, <2>2 DEF IInv, EtagSound, Answered
<1> QED BY <1>4, <1>6, <1>7, <1>8, <1>9 DEF IInv

\* A version the server replaces was there until now.
LEMMA WriteIInv ==
  ASSUME IInv, NEW k \in Key, Write(k)
  PROVE  IInv'
<1> DEFINE v == version[k]
<1>1. /\ v \in Version /\ v + 1 \in Version
      /\ version' = [version EXCEPT ![k] = v + 1]
      /\ lastSeen' = [lastSeen EXCEPT ![k][v] = clock]
      /\ UNCHANGED <<clock, cache, phase, sentAt, keyOf, cached, own, answer>>
      /\ clock \in Nat /\ clock \in 0 .. MaxClock
  BY CacheAssumption DEF Write, IInv, TypeOK, Version
<1>2. TypeOK'
  BY <1>1 DEF IInv, TypeOK
<1>3. \A n \in Version : lastSeen'[k][n] = IF n = v THEN clock ELSE lastSeen[k][n]
  BY <1>1 DEF IInv, TypeOK
<1>4. \A j \in Key : j # k => version'[j] = version[j] /\ lastSeen'[j] = lastSeen[j]
  BY <1>1 DEF IInv, TypeOK
<1> HIDE DEF v
<1>5. ASSUME NEW e \in Entry, Dated(e) PROVE Dated(e)'
  <2>1. e.key \in Key /\ e.version \in Version /\ e.storedAt \in Nat
    BY DEF Entry
  <2>2. CASE e.key = k /\ e.version = v
    BY <1>1, <1>3, <1>5, <2>1, <2>2, CacheAssumption DEF Dated
  <2>3. CASE e.key = k /\ e.version # v
    BY <1>1, <1>3, <1>5, <2>1, <2>3 DEF Dated, v
  <2>4. CASE e.key # k
    BY <1>1, <1>4, <1>5, <2>1, <2>4 DEF Dated
  <2> QED BY <2>2, <2>3, <2>4
<1>6. UniqueKeys(cache)' /\ \A e \in ToSet(cache') : Dated(e)'
  <2>1. \A e \in ToSet(cache) : e \in Entry
    BY EntriesOf DEF IInv, TypeOK
  <2> QED BY <1>1, <1>5, <2>1 DEF IInv, UniqueKeys
<1>7. CachedSound'
  BY <1>1, <1>5 DEF IInv, TypeOK, CachedSound
<1>8. AnswerSound'
  <2> SUFFICES ASSUME NEW r \in Request, phase[r] = "answered",
                      answer[r].status \in {"200", "304"}
               PROVE  \/ answer[r].version = version'[keyOf[r]]
                      \/ sentAt[r] <= lastSeen'[keyOf[r]][answer[r].version]
    BY <1>1 DEF IInv, AnswerSound
  <2>1. /\ answer[r].version \in Version /\ sentAt[r] <= clock /\ keyOf[r] \in Key
        /\ \/ answer[r].version = version[keyOf[r]]
           \/ sentAt[r] <= lastSeen[keyOf[r]][answer[r].version]
    BY DEF IInv, TypeOK, AnswerSound
  <2>2. CASE keyOf[r] = k /\ answer[r].version = v
    BY <1>1, <1>3, <2>1, <2>2
  <2>3. CASE keyOf[r] = k /\ answer[r].version # v
    BY <1>1, <1>3, <2>1, <2>3 DEF v
  <2>4. CASE keyOf[r] # k
    BY <1>1, <1>4, <2>1, <2>4
  <2> QED BY <2>2, <2>3, <2>4
<1>9. EtagSound'
  BY <1>1 DEF IInv, EtagSound, Answered
<1> QED BY <1>2, <1>6, <1>7, <1>8, <1>9 DEF IInv

LEMMA TickIInv ==
  ASSUME IInv, Tick
  PROVE  IInv'
<1> USE DEF IInv, Tick, server
<1>1. TypeOK'
  BY CacheAssumption DEF TypeOK
<1>2. ASSUME NEW e \in Entry, Dated(e) PROVE Dated(e)'
  <2>1. e.storedAt \in Nat /\ clock \in Nat
    BY DEF Entry, TypeOK
  <2> QED BY <1>2, <2>1 DEF Dated
<1>3. UniqueKeys(cache)' /\ \A e \in ToSet(cache') : Dated(e)'
  <2>1. \A e \in ToSet(cache) : e \in Entry
    BY EntriesOf DEF TypeOK
  <2> QED BY <1>2, <2>1 DEF UniqueKeys
<1>4. CachedSound'
  BY <1>2 DEF TypeOK, CachedSound
<1>5. AnswerSound'
  BY CacheAssumption DEF TypeOK, AnswerSound
<1>6. EtagSound'
  BY DEF EtagSound, Answered
<1> QED BY <1>1, <1>3, <1>4, <1>5, <1>6

LEMMA NextIInv == ~OwnValidator /\ IInv /\ [Next]_vars => IInv'
<1> SUFFICES ASSUME ~OwnValidator, IInv, [Next]_vars PROVE IInv'
  OBVIOUS
<1>1. CASE UNCHANGED vars
  <2> USE <1>1 DEF vars, server
  <2>1. TypeOK'
    BY DEF IInv, TypeOK
  <2>2. UniqueKeys(cache)' /\ \A e \in ToSet(cache') : Dated(e)'
    BY DEF IInv, UniqueKeys, Dated
  <2>3. CachedSound' /\ AnswerSound' /\ EtagSound'
    BY DEF IInv, CachedSound, Dated, AnswerSound, EtagSound, Answered
  <2> QED BY <2>1, <2>2, <2>3 DEF IInv
<1>2. ASSUME NEW r \in Request, NEW k \in Key,
             Hit(r, k) \/ \E o \in IF OwnValidator THEN 0 .. version[k] ELSE {0} : Miss(r, k, o)
      PROVE  IInv'
  BY <1>2, HitIInv, MissIInv
<1>3. ASSUME NEW r \in Request, Revalidate(r) PROVE IInv'
  BY <1>3, RevalidateFacts, EndsIInv
<1>4. ASSUME NEW r \in Request,
             Store(r) \/ PassOn(r) \/ ServeStale(r) \/ Throw(r) \/ Answers(r)
      PROVE  IInv'
  BY <1>4, StoreIInv, HandOnIInv, AnswersIInv
<1>5. ASSUME NEW k \in Key, Write(k) PROVE IInv'
  BY <1>5, WriteIInv
<1> QED BY <1>1, <1>2, <1>3, <1>4, <1>5, TickIInv DEF Next

-----------------------------------------------------------------------------
(* The theorems, for callers that send no validator of their own. *)

\* The strengthening holds of every reachable state.
THEOREM InductiveInvariant == ASSUME ~OwnValidator PROVE Spec => []IInv
<1>1. Init => IInv
  BY InitIInv
<1>2. IInv /\ [Next]_vars => IInv'
  BY NextIInv
<1> QED BY <1>1, <1>2, PTL DEF Spec

\* What is served without the server, in time or instead of an error, is not
\* older than the windows and one latency: for any ttl, capacity and latency,
\* whatever the order in which answers arrive.
THEOREM CacheIsSafe == ASSUME ~OwnValidator PROVE Spec => []Safety
<1>1. IInv => Safety
  <2> SUFFICES ASSUME IInv PROVE Safety
    OBVIOUS
  <2>1. ASSUME NEW e \in Entry, Dated(e), NEW w \in Nat, clock <= e.storedAt + w
        PROVE  Age(e) <= w + MaxLatency
    <3>1. /\ e.storedAt \in Nat /\ clock \in Nat /\ MaxLatency \in Nat
          /\ lastSeen[e.key][e.version] \in Nat
      BY CacheAssumption DEF Entry, IInv, TypeOK
    <3> QED BY <2>1, <3>1 DEF Dated, Age
  <2>2. /\ Ttl \in Nat /\ StaleIfError \in Nat /\ Ttl + StaleIfError \in Nat
        /\ MaxLatency \in Nat
    BY CacheAssumption
  <2>3. FreshIsRecent
    <3>1. \A e \in ToSet(cache) : e \in Entry /\ Dated(e)
      BY EntriesOf DEF IInv, TypeOK
    <3> QED BY <2>1, <2>2, <3>1 DEF FreshIsRecent, Fresh
  <2>4. StaleIsBounded
    <3> SUFFICES ASSUME NEW r \in Request, NEW e \in cached[r], ServableOnError(e)
                 PROVE  Age(e) <= Ttl + StaleIfError + MaxLatency
      BY DEF StaleIsBounded
    <3>1. e \in Entry /\ Dated(e) /\ e.storedAt \in Nat
      BY DEF IInv, TypeOK, CachedSound, Entry
    <3>2. clock <= e.storedAt + (Ttl + StaleIfError)
      BY <2>2, <3>1 DEF ServableOnError
    <3> QED BY <2>1, <2>2, <3>1, <3>2
  <2> QED BY <2>3, <2>4 DEF IInv, Safety
<1> QED BY <1>1, InductiveInvariant, PTL

\* A 304 puts back the version that the server confirmed.
THEOREM EtagIsMatched == ASSUME ~OwnValidator PROVE Spec => EtagMatched
<1> DEFINE Matched ==
      \A r \in Request :
        Answered(r, "304") /\ cached[r] # {} /\ phase'[r] = "idle" =>
          Last(cache').version = answer[r].version
<1>1. ASSUME IInv, [Next]_vars PROVE [Matched]_vars
  <2> SUFFICES ASSUME Next, NEW r \in Request, Answered(r, "304"), cached[r] # {},
                      phase'[r] = "idle"
               PROVE  Last(cache').version = answer[r].version
    BY <1>1
  <2>1. Revalidate(r)
    <3>1. phase[r] = "answered" /\ answer[r].status = "304"
      BY DEF Answered
    <3>2. PICK q \in Request :
            Store(q) \/ Revalidate(q) \/ PassOn(q) \/ ServeStale(q) \/ Throw(q)
      BY <3>1, <1>1 DEF Next, Hit, Miss, Answers, Delivers, Write, Tick, IInv, TypeOK
    <3>3. Ends(q)
      BY <3>2 DEF Store, Revalidate, PassOn, ServeStale, Throw
    <3>4. q = r
      BY <3>1, <3>3, <1>1 DEF Ends, IInv, TypeOK
    <3> QED BY <3>1, <3>2, <3>4 DEF Store, PassOn, ServeStale, Throw, Answered
  <2> QED BY <1>1, <2>1, RevalidateFacts
<1>2. IInv /\ [Next]_vars => [Matched]_vars
  BY <1>1
<1> QED BY <1>2, InductiveInvariant, PTL DEF Spec, EtagMatched
=============================================================================
