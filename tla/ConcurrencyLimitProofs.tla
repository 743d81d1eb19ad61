----------------------- MODULE ConcurrencyLimitProofs -----------------------
(* TLAPS proofs about ConcurrencyLimit. *)
EXTENDS ConcurrencyLimit, FiniteSetTheorems, SequenceTheorems, TLAPS

LEMMA RemoveFirstFacts ==
  ASSUME NEW S, NEW q \in Seq(S), NEW e, NEW i \in 1 .. Len(q), q[i] = e,
         \A j \in 1 .. Len(q) : q[j] = e => j = i
  PROVE  /\ RemoveFirst(q, e) \in Seq(S)
         /\ Len(RemoveFirst(q, e)) = Len(q) - 1
         /\ \A j \in 1 .. Len(q) - 1 :
              RemoveFirst(q, e)[j] = IF j < i THEN q[j] ELSE q[j + 1]
<1> DEFINE Hits == {j \in 1 .. Len(q) : q[j] = e}
           left == SubSeq(q, 1, i - 1)
           right == SubSeq(q, i + 1, Len(q))
<1>1. Hits = {i}
  OBVIOUS
<1>2. Min(Hits) = i
  BY <1>1 DEF Min
<1>3. SelectInSeq(q, LAMBDA v : v = e) = i
  BY <1>1, <1>2 DEF SelectInSeq
<1>4. RemoveFirst(q, e) = left \o right
  BY <1>3 DEF RemoveFirst, RemoveAt
<1>5. Len(q) \in Nat
  BY LenProperties
<1>6. /\ left \in Seq(S)
      /\ Len(left) = i - 1
      /\ \A j \in 1 .. i - 1 : left[j] = q[j]
  <2>1. \A j \in 1 .. i - 1 : q[j] \in S
    BY <1>5, ElementOfSeq
  <2> QED BY <2>1, <1>5, SubSeqProperties
<1>7. /\ right \in Seq(S)
      /\ Len(right) = Len(q) - i
      /\ \A j \in 1 .. Len(q) - i : right[j] = q[j + i]
  <2>1. \A j \in i + 1 .. Len(q) : q[j] \in S
    BY <1>5, ElementOfSeq
  <2> QED BY <2>1, <1>5, SubSeqProperties
<1>8. /\ left \o right \in Seq(S)
      /\ Len(left \o right) = Len(left) + Len(right)
      /\ \A j \in 1 .. Len(left) + Len(right) :
           (left \o right)[j] = IF j <= Len(left) THEN left[j]
                                ELSE right[j - Len(left)]
  <2> HIDE DEF left, right
  <2> QED BY <1>6, <1>7, ConcatProperties
<1> HIDE DEF left, right
<1>9. Len(left) + Len(right) = Len(q) - 1
  BY <1>5, <1>6, <1>7
<1>10. ASSUME NEW j \in 1 .. Len(q) - 1
       PROVE  (left \o right)[j] = IF j < i THEN q[j] ELSE q[j + 1]
  <2>1. (left \o right)[j] = IF j <= i - 1 THEN left[j] ELSE right[j - (i - 1)]
    BY <1>5, <1>6, <1>8, <1>9
  <2>2. CASE j < i
    BY <2>1, <2>2, <1>5, <1>6
  <2>3. CASE ~(j < i)
    <3>1. j - (i - 1) \in 1 .. Len(q) - i /\ (j - (i - 1)) + i = j + 1
      BY <2>3, <1>5
    <3>2. right[j - (i - 1)] = q[(j - (i - 1)) + i]
      BY <3>1, <1>7
    <3> QED BY <2>1, <2>3, <3>1, <3>2
  <2> QED BY <2>2, <2>3
<1> QED BY <1>4, <1>8, <1>9, <1>10

-----------------------------------------------------------------------------
(* What each kind of step does to the buckets and to InFlight. *)

LEMMA InFlightFinite == \A k \in Key : IsFiniteSet(InFlight(k))
<1> SUFFICES ASSUME NEW k \in Key PROVE IsFiniteSet(InFlight(k))
  OBVIOUS
<1>1. InFlight(k) \in SUBSET Request
  BY DEF InFlight
<1> QED BY <1>1, RequestAssumption, FS_Subset

LEMMA QueueElements ==
  ASSUME TypeOK, NEW k \in Key
  PROVE  /\ buckets[k].queue \in Seq(Request)
         /\ Len(buckets[k].queue) \in Nat
         /\ \A i \in 1 .. Len(buckets[k].queue) : buckets[k].queue[i] \in Request
<1>1. buckets[k].queue \in Seq(Request)
  BY DEF TypeOK, Bucket
<1> QED BY <1>1, LenProperties, ElementOfSeq

\* Queues that do not change stay sound and complete as long as no request
\* starts or stops waiting on their key.
LEMMA QueueUnchanged ==
  ASSUME TypeOK, NEW k \in Key, TicketsSound(k), WaitersListed(k),
         buckets'[k].queue = buckets[k].queue,
         \A r \in Request : (phase'[r] = "queued" /\ keyOf'[r] = k)
                              <=> (phase[r] = "queued" /\ keyOf[r] = k)
  PROVE  TicketsSound(k)' /\ WaitersListed(k)'
<1>1. TicketsSound(k)'
  BY QueueElements DEF TicketsSound
<1>2. WaitersListed(k)'
  BY DEF WaitersListed
<1> QED BY <1>1, <1>2

\* Under the invariant the promotion loop of release() runs once if somebody
\* waits and not at all otherwise.
LEMMA SettleStep ==
  ASSUME IInv, NEW r \in Request, Settle(r)
  PROVE  LET k == keyOf[r]
             q == buckets[k].queue
         IN /\ k \in Key
            /\ buckets[k].active \in Nat \ {0}
            /\ \/ /\ q = <<>>
                  /\ buckets' = [buckets EXCEPT ![k] =
                                   Cleaned(buckets[k].active - 1, <<>>)]
                  /\ phase' = [phase EXCEPT ![r] = "idle"]
               \/ /\ q # <<>>
                  /\ buckets[k].active = MaxConcurrent
                  /\ buckets' = [buckets EXCEPT ![k] =
                                   InUse(MaxConcurrent, Tail(q))]
                  /\ Head(q) \in Request \ {r}
                  /\ phase' = [phase EXCEPT ![r] = "idle", ![Head(q)] = "granted"]
<1> DEFINE k == keyOf[r]
           q == buckets[k].queue
           active == buckets[k].active
<1>1. k \in Key /\ buckets[k] \in Bucket /\ phase[r] = "running" /\ q \in Seq(Request)
  BY DEF IInv, TypeOK, Settle, Bucket
<1>2. r \in InFlight(k)
  BY <1>1 DEF InFlight
<1>3. active \in Nat \ {0}
  BY <1>1, <1>2, InFlightFinite, FS_EmptySet, FS_CardinalityType
     DEF IInv, SlotsAccounted, Bucket
<1>4. Released(active) = active - 1
  BY <1>3 DEF Released
<1>5. /\ buckets' = [buckets EXCEPT ![k] = PromoteNext(active - 1, q)]
      /\ phase' = [p \in Request |->
                     CASE p = r -> "idle"
                       [] p \in Promoted(active - 1, q) \ {r} -> "granted"
                       [] OTHER -> phase[p]]
  BY <1>4 DEF Settle
<1>6. phase \in [Request -> Phase]
  BY DEF IInv, TypeOK
<1>7. CASE q = <<>>
  <2>1. Promotions(active - 1, q) = 0
    BY <1>3, <1>7, LimitAssumption, EmptySeq DEF Promotions
  <2>2. Promoted(active - 1, q) = {}
    BY <2>1 DEF Promoted
  <2>3. SubSeq(q, 0 + 1, Len(q)) = <<>>
    BY <1>7, SubSeqEmpty, EmptySeq
  <2>4. PromoteNext(active - 1, q) = Cleaned(active - 1, <<>>)
    <3>1. (active - 1) + 0 = active - 1
      BY <1>3
    <3> QED BY <2>1, <2>3, <3>1, Zenon DEF PromoteNext
  <2>5. phase' = [phase EXCEPT ![r] = "idle"]
    BY <1>5, <1>6, <2>2
  <2> QED BY <1>1, <1>3, <1>5, <1>7, <2>4, <2>5
<1>8. CASE q # <<>>
  <2>1. Len(q) \in Nat \ {0}
    BY <1>1, <1>8, EmptySeq
  <2>2. active = MaxConcurrent
    BY <1>1, <1>8 DEF IInv, CounterInv
  <2>3. Promotions(active - 1, q) = 1
    BY <2>1, <2>2, LimitAssumption DEF Promotions
  <2>4. Promoted(active - 1, q) = {Head(q)} /\ Head(q) = q[1]
    BY <2>1, <2>3 DEF Promoted
  <2>5. SubSeq(q, 1 + 1, Len(q)) = Tail(q)
    BY <1>1, <1>8, TailIsSubSeq
  <2>6. PromoteNext(active - 1, q) = InUse(MaxConcurrent, Tail(q))
    <3>1. (active - 1) + 1 = MaxConcurrent /\ MaxConcurrent # 0
      BY <2>2, LimitAssumption
    <3>2. PromoteNext(active - 1, q) = Cleaned(MaxConcurrent, Tail(q))
      BY <2>3, <2>5, <3>1, Zenon DEF PromoteNext
    <3> QED BY <3>1, <3>2 DEF Cleaned
  <2>7. Head(q) \in Request \ {r}
    BY <1>1, <2>1, <2>4, ElementOfSeq DEF IInv, QueueInv, TicketsSound
  <2>8. phase' = [phase EXCEPT ![r] = "idle", ![Head(q)] = "granted"]
    BY <1>5, <1>6, <2>4, <2>7
  <2> QED BY <1>1, <1>3, <1>5, <1>8, <2>2, <2>6, <2>7, <2>8
<1> QED BY <1>7, <1>8

-----------------------------------------------------------------------------
(* IInv is inductive: one lemma per action. *)

LEMMA BucketTypes ==
  /\ NoBucket \in Bucket
  /\ \A n \in Nat, q \in Seq(Request) :
       InUse(n, q) \in Bucket /\ Cleaned(n, q) \in Bucket
  BY EmptySeq DEF NoBucket, InUse, Cleaned, Bucket

LEMMA InitIInv == Init => IInv
<1> SUFFICES ASSUME Init PROVE IInv
  OBVIOUS
<1>1. TypeOK
  BY BucketTypes DEF Init, TypeOK, Phase
<1>2. SlotsAccounted
  <2>1. \A k \in Key : InFlight(k) = {}
    BY DEF Init, InFlight
  <2> QED BY <2>1, FS_EmptySet DEF Init, SlotsAccounted, NoBucket
<1>3. CounterInv
  BY LimitAssumption DEF Init, CounterInv, NoBucket
<1>4. QueueInv
  BY EmptySeq DEF Init, QueueInv, TicketsSound, WaitersListed, NoBucket
<1> QED BY <1>1, <1>2, <1>3, <1>4 DEF IInv

LEMMA TakeSlotIInv ==
  ASSUME IInv, NEW r \in Request, NEW k \in Key, NEW a \in BOOLEAN,
         TakeSlot(r, k, a)
  PROVE  IInv'
<1> USE DEF TakeSlot, Called, Finished, IInv
<1>1. /\ buckets[k] \in Bucket /\ buckets[k].active \in Nat
      /\ buckets[k].queue \in Seq(Request) /\ buckets[k].active < MaxConcurrent
      /\ buckets' = [buckets EXCEPT
                       ![k] = InUse(buckets[k].active + 1, buckets[k].queue)]
  BY DEF TypeOK, Bucket
<1>2. TypeOK'
  BY <1>1, BucketTypes DEF TypeOK, Phase
<1>3. SlotsAccounted'
  <2>1. /\ InFlight(k)' = InFlight(k) \cup {r} /\ r \notin InFlight(k)
        /\ \A j \in Key \ {k} : InFlight(j)' = InFlight(j)
    BY DEF InFlight, TypeOK
  <2>2. Cardinality(InFlight(k)') = buckets[k].active + 1
    BY <2>1, InFlightFinite, FS_AddElement DEF SlotsAccounted
  <2>3. buckets'[k].active = buckets[k].active + 1
    BY <1>1 DEF InUse, TypeOK
  <2>4. \A j \in Key \ {k} : buckets'[j] = buckets[j]
    BY <1>1 DEF TypeOK
  <2> QED BY <2>1, <2>2, <2>3, <2>4 DEF SlotsAccounted
<1>4. buckets[k].queue = <<>>
  BY <1>1, LimitAssumption DEF CounterInv
<1>5. CounterInv'
  BY <1>1, <1>4, LimitAssumption DEF CounterInv, InUse, TypeOK
<1>6. QueueInv'
  <2>1. \A j \in Key : buckets'[j].queue = buckets[j].queue
    BY <1>1 DEF InUse, TypeOK
  <2>2. \A j \in Key, p \in Request :
          (phase'[p] = "queued" /\ keyOf'[p] = j)
            <=> (phase[p] = "queued" /\ keyOf[p] = j)
    BY DEF TypeOK
  <2> QED BY <2>1, <2>2, QueueUnchanged DEF QueueInv
<1> QED BY <1>2, <1>3, <1>5, <1>6

\* A rejected call leaves the bucket of its key as it was.
LEMMA RejectIInv ==
  ASSUME IInv, NEW r \in Request, NEW k \in Key, NEW a \in BOOLEAN,
         Called(r, k, a), buckets[k].active >= MaxConcurrent,
         buckets' = [buckets EXCEPT
                       ![k] = InUse(buckets[k].active, buckets[k].queue)],
         phase' = [phase EXCEPT ![r] = "rejected"]
  PROVE  IInv'
<1> USE DEF Called, Finished, IInv
<1>1. /\ buckets[k] \in Bucket /\ buckets[k].active \in Nat
      /\ buckets[k].queue \in Seq(Request)
  BY DEF TypeOK, Bucket
<1>2. TypeOK'
  BY <1>1, BucketTypes DEF TypeOK, Phase
<1>3. \A j \in Key : /\ buckets'[j].active = buckets[j].active
                     /\ buckets'[j].queue = buckets[j].queue
                     /\ j # k => buckets'[j] = buckets[j]
  BY DEF InUse, TypeOK
<1>4. SlotsAccounted'
  <2>1. \A j \in Key : InFlight(j)' = InFlight(j)
    BY DEF InFlight, TypeOK
  <2> QED BY <1>3, <2>1 DEF SlotsAccounted
<1>5. CounterInv'
  <2>1. buckets'[k].open /\ buckets[k].active # 0
    BY <1>1, LimitAssumption DEF InUse, TypeOK
  <2> QED BY <1>3, <2>1 DEF CounterInv
<1>6. QueueInv'
  <2>1. \A j \in Key, p \in Request :
          (phase'[p] = "queued" /\ keyOf'[p] = j)
            <=> (phase[p] = "queued" /\ keyOf[p] = j)
    BY DEF TypeOK
  <2> QED BY <1>3, <2>1, QueueUnchanged DEF QueueInv
<1> QED BY <1>2, <1>4, <1>5, <1>6

LEMMA EnqueueIInv ==
  ASSUME IInv, NEW r \in Request, NEW k \in Key, Enqueue(r, k)
  PROVE  IInv'
<1> DEFINE q == buckets[k].queue
<1> USE DEF Enqueue, Called, Finished, IInv
<1>1. /\ buckets[k] \in Bucket /\ buckets[k].active \in Nat
      /\ q \in Seq(Request) /\ buckets[k].active >= MaxConcurrent
      /\ buckets' = [buckets EXCEPT
                       ![k] = InUse(buckets[k].active, Append(q, r))]
      /\ Len(q) \in Nat
  BY LenProperties DEF TypeOK, Bucket
<1>2. /\ Append(q, r) \in Seq(Request) /\ Append(q, r) # <<>>
      /\ Len(Append(q, r)) = Len(q) + 1
      /\ \A i \in 1 .. Len(q) : Append(q, r)[i] = q[i]
      /\ Append(q, r)[Len(q) + 1] = r
  BY <1>1, AppendProperties
<1>3. /\ buckets'[k].open /\ buckets'[k].active = buckets[k].active
      /\ buckets'[k].queue = Append(q, r)
      /\ \A j \in Key \ {k} : buckets'[j] = buckets[j]
  BY <1>1 DEF InUse, TypeOK
<1>4. TypeOK'
  <2>1. InUse(buckets[k].active, Append(q, r)) \in Bucket
    BY <1>1, <1>2, BucketTypes
  <2>2. buckets' \in [Key -> Bucket]
    BY <1>1, <2>1 DEF TypeOK
  <2> QED BY <2>2 DEF TypeOK, Phase
<1>5. SlotsAccounted'
  <2>1. \A j \in Key : InFlight(j)' = InFlight(j)
    BY DEF InFlight, TypeOK
  <2> QED BY <1>3, <2>1 DEF SlotsAccounted
<1>6. CounterInv'
  BY <1>1, <1>2, <1>3, LimitAssumption DEF CounterInv
<1>7. QueueInv'
  <2>1. \A i \in 1 .. Len(q) : q[i] \in Request /\ q[i] # r
    BY QueueElements DEF QueueInv, TicketsSound
  <2>2. \A p \in Request \ {r} : phase'[p] = phase[p] /\ keyOf'[p] = keyOf[p]
    BY DEF TypeOK
  <2>3. phase'[r] = "queued" /\ keyOf'[r] = k /\ phase[r] # "queued"
    BY DEF TypeOK
  <2>4. TicketsSound(k) /\ WaitersListed(k)
    BY DEF QueueInv
  <2> DEFINE n == Append(q, r)
  <2>5. ASSUME NEW i \in 1 .. Len(n)
         PROVE  (i \in 1 .. Len(q) /\ n[i] = q[i])
                  \/ (i = Len(q) + 1 /\ n[i] = r)
    <3>1. i \in 1 .. Len(q) \/ i = Len(q) + 1
      <4> HIDE DEF q
      <4> QED BY <1>1, <1>2
    <3> QED BY <1>2, <3>1
  <2>6. \A i \in 1 .. Len(q) : i \in 1 .. Len(n) /\ n[i] = q[i]
    BY <1>1, <1>2
  <2>7. Len(q) + 1 \in 1 .. Len(n) /\ n[Len(q) + 1] = r
    BY <1>1, <1>2
  <2>8. \A i \in 1 .. Len(q) :
          /\ phase[q[i]] = "queued" /\ keyOf[q[i]] = k
          /\ \A j \in 1 .. Len(q) : q[j] = q[i] => j = i
    BY <2>4 DEF TicketsSound
  <2>9. \A p \in Request : phase[p] = "queued" /\ keyOf[p] = k =>
                             \E i \in 1 .. Len(q) : q[i] = p
    BY <2>4 DEF WaitersListed
  <2> HIDE DEF IInv, Enqueue, Called, q, n
  <2>10. buckets'[k].queue = n
    BY <1>3 DEF n
  <2>11. TicketsSound(k)'
    <3> SUFFICES ASSUME NEW i \in 1 .. Len(n)
                 PROVE  /\ phase'[n[i]] = "queued" /\ keyOf'[n[i]] = k
                        /\ \A j \in 1 .. Len(n) : n[j] = n[i] => j = i
      BY <2>10 DEF TicketsSound
    <3> QED BY <2>1, <2>2, <2>3, <2>5, <2>8
  <2>12. WaitersListed(k)'
    <3> SUFFICES ASSUME NEW p \in Request, phase'[p] = "queued", keyOf'[p] = k
                 PROVE  \E i \in 1 .. Len(n) : n[i] = p
      BY <2>10 DEF WaitersListed
    <3>1. CASE p = r
      BY <2>7, <3>1
    <3>2. CASE p # r
      <4>1. phase[p] = "queued" /\ keyOf[p] = k
        BY <2>2, <3>2
      <4>2. PICK i \in 1 .. Len(q) : q[i] = p
        BY <2>9, <4>1
      <4> QED BY <2>6, <4>2
    <3> QED BY <3>1, <3>2
  <2>13. ASSUME NEW j \in Key \ {k}
        PROVE  TicketsSound(j)' /\ WaitersListed(j)'
    BY <1>3, <2>2, <2>3, QueueUnchanged DEF QueueInv, IInv
  <2> QED BY <2>11, <2>12, <2>13 DEF QueueInv
<1> QED BY <1>4, <1>5, <1>6, <1>7

LEMMA AbortQueuedIInv ==
  ASSUME IInv, NEW r \in Request, AbortQueued(r)
  PROVE  IInv'
<1> PICK k \in Key : k = keyOf[r]
  BY DEF IInv, TypeOK
<1> DEFINE q == buckets[k].queue
           n == RemoveFirst(q, r)
<1>1. /\ keyOf[r] = k /\ phase[r] = "queued" /\ buckets[k].active \in Nat
      /\ q \in Seq(Request) /\ Len(q) \in Nat
      /\ \A j \in 1 .. Len(q) : q[j] \in Request
      /\ TicketsSound(k) /\ WaitersListed(k)
  BY QueueElements DEF AbortQueued, IInv, TypeOK, Bucket, QueueInv
<1>2. PICK i \in 1 .. Len(q) : q[i] = r
  BY <1>1 DEF WaitersListed
<1>3. \A j \in 1 .. Len(q) : q[j] = r => j = i
  BY <1>1, <1>2 DEF TicketsSound
<1>4. /\ n \in Seq(Request) /\ Len(n) = Len(q) - 1
      /\ \A j \in 1 .. Len(q) - 1 : n[j] = IF j < i THEN q[j] ELSE q[j + 1]
  BY <1>1, <1>2, <1>3, RemoveFirstFacts
<1>5. buckets[k].active = MaxConcurrent /\ MaxConcurrent # 0
  BY <1>1, <1>2, EmptySeq, LimitAssumption DEF IInv, CounterInv
<1>6. buckets' = [buckets EXCEPT ![k] = InUse(buckets[k].active, n)]
  BY <1>5 DEF AbortQueued, Cleaned
<1>7. /\ buckets'[k].open /\ buckets'[k].active = buckets[k].active
      /\ buckets'[k].queue = n
      /\ \A j \in Key \ {k} : buckets'[j] = buckets[j]
  BY <1>1, <1>6 DEF InUse, IInv, TypeOK
<1>8. /\ \A p \in Request \ {r} : phase'[p] = phase[p] /\ keyOf'[p] = keyOf[p]
      /\ phase'[r] = "rejected" /\ keyOf'[r] = k
  BY DEF AbortQueued, IInv, TypeOK
<1>9. TypeOK'
  <2>1. buckets' \in [Key -> Bucket]
    BY <1>1, <1>4, <1>6, BucketTypes DEF IInv, TypeOK
  <2> QED BY <2>1 DEF IInv, TypeOK, Phase, AbortQueued
<1>10. SlotsAccounted'
  <2>1. \A j \in Key : InFlight(j)' = InFlight(j)
    BY <1>1, <1>8 DEF InFlight
  <2> QED BY <1>7, <2>1 DEF SlotsAccounted, IInv
<1>11. CounterInv'
  BY <1>1, <1>5, <1>7 DEF CounterInv, IInv
<1>12. QueueInv'
  <2>1. \A j \in 1 .. Len(q) :
          /\ phase[q[j]] = "queued" /\ keyOf[q[j]] = k
          /\ \A l \in 1 .. Len(q) : q[l] = q[j] => l = j
    BY <1>1 DEF TicketsSound
  <2>2. \A p \in Request : phase[p] = "queued" /\ keyOf[p] = k =>
          \E j \in 1 .. Len(q) : q[j] = p
    BY <1>1 DEF WaitersListed
  <2> HIDE DEF q, n
  <2>3. ASSUME NEW j \in 1 .. Len(n)
        PROVE  \/ j < i /\ j \in 1 .. Len(q) /\ n[j] = q[j]
               \/ j >= i /\ j + 1 \in 1 .. Len(q) /\ n[j] = q[j + 1]
    BY <1>1, <1>2, <1>4
  <2>4. TicketsSound(k)'
    <3> SUFFICES ASSUME NEW j \in 1 .. Len(n)
                 PROVE  /\ phase'[n[j]] = "queued" /\ keyOf'[n[j]] = k
                        /\ \A l \in 1 .. Len(n) : n[l] = n[j] => l = j
      BY <1>7 DEF TicketsSound
    <3>1. n[j] \in Request \ {r} /\ phase[n[j]] = "queued" /\ keyOf[n[j]] = k
      BY <1>1, <1>2, <1>3, <2>1, <2>3
    <3>2. ASSUME NEW l \in 1 .. Len(n), n[l] = n[j] PROVE l = j
      BY <1>1, <1>2, <1>4, <2>1, <2>3, <3>2
    <3> QED BY <1>8, <3>1, <3>2
  <2>5. WaitersListed(k)'
    <3> SUFFICES ASSUME NEW p \in Request, phase'[p] = "queued", keyOf'[p] = k
                 PROVE  \E j \in 1 .. Len(n) : n[j] = p
      BY <1>7 DEF WaitersListed
    <3>1. p # r /\ phase[p] = "queued" /\ keyOf[p] = k
      BY <1>8
    <3>2. PICK j \in 1 .. Len(q) : q[j] = p
      BY <2>2, <3>1
    <3>3. j # i
      BY <1>2, <3>1, <3>2
    <3>4. CASE j < i
      BY <1>1, <1>2, <1>4, <3>2, <3>4
    <3>5. CASE j > i
      <4>1. j - 1 \in 1 .. Len(n) /\ ~(j - 1 < i) /\ (j - 1) + 1 = j
        BY <1>1, <1>2, <1>4, <3>5
      <4> QED BY <1>4, <3>2, <4>1
    <3> QED BY <1>1, <1>2, <3>3, <3>4, <3>5
  <2>6. ASSUME NEW j \in Key \ {k}
        PROVE  TicketsSound(j)' /\ WaitersListed(j)'
    <3>1. \A p \in Request : (phase'[p] = "queued" /\ keyOf'[p] = j)
                               <=> (phase[p] = "queued" /\ keyOf[p] = j)
      BY <1>8
    <3> QED BY <1>7, <3>1, QueueUnchanged DEF QueueInv, IInv
  <2> QED BY <2>4, <2>5, <2>6 DEF QueueInv
<1> QED BY <1>9, <1>10, <1>11, <1>12 DEF IInv

\* Aborting a request that has its slot, and entering next(req), leave the
\* buckets alone and keep the request among the holders.
LEMMA HolderStepIInv ==
  ASSUME IInv, NEW r \in Request, AbortGranted(r) \/ Begin(r)
  PROVE  IInv'
<1> USE DEF AbortGranted, Begin, IInv
<1>1. TypeOK'
  BY DEF TypeOK, Phase
<1>2. \A j \in Key : InFlight(j)' = InFlight(j)
  BY DEF InFlight, TypeOK
<1>3. SlotsAccounted' /\ CounterInv'
  BY <1>2 DEF SlotsAccounted, CounterInv
<1>4. QueueInv'
  <2>1. \A j \in Key, p \in Request :
          (phase'[p] = "queued" /\ keyOf'[p] = j)
            <=> (phase[p] = "queued" /\ keyOf[p] = j)
    BY DEF TypeOK
  <2> QED BY <2>1, QueueUnchanged DEF QueueInv
<1> QED BY <1>1, <1>3, <1>4

\* next(req) settled while nobody waits: the counter goes down by one.
LEMMA SettleAloneIInv ==
  ASSUME IInv, NEW r \in Request, Settle(r), buckets[keyOf[r]].queue = <<>>
  PROVE  IInv'
<1> PICK k \in Key : k = keyOf[r]
  BY DEF IInv, TypeOK
<1>1. /\ keyOf' = keyOf /\ aborted' = aborted /\ phase[r] = "running"
      /\ keyOf[r] = k
  BY DEF Settle
<1>2. /\ buckets[k].active \in Nat \ {0} /\ buckets[k].queue = <<>>
      /\ buckets' = [buckets EXCEPT ![k] = Cleaned(buckets[k].active - 1, <<>>)]
      /\ phase' = [phase EXCEPT ![r] = "idle"]
  BY SettleStep
<1>3. /\ buckets'[k].active = buckets[k].active - 1
      /\ buckets'[k].queue = <<>>
      /\ buckets'[k].open <=> buckets[k].active - 1 # 0
      /\ \A j \in Key \ {k} : buckets'[j] = buckets[j]
  BY <1>2 DEF Cleaned, InUse, NoBucket, IInv, TypeOK
<1>4. TypeOK'
  <2>1. Cleaned(buckets[k].active - 1, <<>>) \in Bucket
    <3>1. buckets[k].active - 1 \in Nat /\ <<>> \in Seq(Request)
      BY <1>2, EmptySeq
    <3> QED BY <3>1, BucketTypes
  <2> QED BY <1>1, <1>2, <2>1 DEF IInv, TypeOK, Phase
<1>5. SlotsAccounted'
  <2>1. /\ InFlight(k)' = InFlight(k) \ {r} /\ r \in InFlight(k)
        /\ \A j \in Key \ {k} : InFlight(j)' = InFlight(j)
    BY <1>1, <1>2 DEF InFlight, IInv, TypeOK
  <2>2. Cardinality(InFlight(k)') = buckets[k].active - 1
    BY <2>1, InFlightFinite, FS_RemoveElement DEF SlotsAccounted, IInv
  <2> QED BY <1>3, <2>1, <2>2 DEF SlotsAccounted, IInv
<1>6. CounterInv'
  BY <1>2, <1>3, LimitAssumption DEF CounterInv, IInv
<1>7. QueueInv'
  <2>1. \A j \in Key, p \in Request :
          (phase'[p] = "queued" /\ keyOf'[p] = j)
            <=> (phase[p] = "queued" /\ keyOf[p] = j)
    BY <1>1, <1>2 DEF IInv, TypeOK
  <2>2. \A j \in Key : buckets'[j].queue = buckets[j].queue
    BY <1>2, <1>3
  <2> QED BY <2>1, <2>2, QueueUnchanged DEF QueueInv, IInv
<1> QED BY <1>4, <1>5, <1>6, <1>7 DEF IInv

\* next(req) settled while somebody waits: the slot changes hands, the
\* counter stays at the limit.
LEMMA SettleHandOverIInv ==
  ASSUME IInv, NEW r \in Request, Settle(r), buckets[keyOf[r]].queue # <<>>
  PROVE  IInv'
<1> PICK k \in Key : k = keyOf[r]
  BY DEF IInv, TypeOK
<1> DEFINE q == buckets[k].queue
           n == Tail(q)
           h == Head(q)
<1>1. /\ keyOf' = keyOf /\ aborted' = aborted /\ phase[r] = "running"
      /\ keyOf[r] = k /\ q # <<>>
  BY DEF Settle
<1>2. /\ buckets[k].active = MaxConcurrent
      /\ buckets' = [buckets EXCEPT ![k] = InUse(MaxConcurrent, n)]
      /\ h \in Request \ {r}
      /\ phase' = [phase EXCEPT ![r] = "idle", ![h] = "granted"]
  BY <1>1, SettleStep
<1>3. /\ q \in Seq(Request) /\ Len(q) \in Nat \ {0} /\ h = q[1]
      /\ \A i \in 1 .. Len(q) : q[i] \in Request
      /\ n \in Seq(Request) /\ Len(n) = Len(q) - 1
      /\ \A i \in 1 .. Len(q) - 1 : n[i] = q[i + 1]
  BY <1>1, QueueElements, EmptySeq, HeadTailProperties DEF IInv
<1>4. /\ \A i \in 1 .. Len(q) :
           /\ phase[q[i]] = "queued" /\ keyOf[q[i]] = k
           /\ \A j \in 1 .. Len(q) : q[j] = q[i] => j = i
      /\ \A p \in Request : phase[p] = "queued" /\ keyOf[p] = k =>
                              \E i \in 1 .. Len(q) : q[i] = p
  BY DEF IInv, QueueInv, TicketsSound, WaitersListed
<1>5. phase[h] = "queued" /\ keyOf[h] = k
  BY <1>3, <1>4
<1> HIDE DEF q, n, h
<1>6. /\ buckets'[k].active = buckets[k].active
      /\ buckets'[k].queue = n /\ buckets'[k].open
      /\ \A j \in Key \ {k} : buckets'[j] = buckets[j]
  BY <1>2 DEF InUse, IInv, TypeOK
<1>7. /\ phase'[r] = "idle" /\ phase'[h] = "granted"
      /\ \A p \in Request \ {r, h} : phase'[p] = phase[p]
  BY <1>2 DEF IInv, TypeOK
<1>8. TypeOK'
  <2>1. InUse(MaxConcurrent, n) \in Bucket
    BY <1>3, BucketTypes, LimitAssumption
  <2> QED BY <1>1, <1>2, <2>1 DEF IInv, TypeOK, Phase
<1>9. SlotsAccounted'
  <2>1. /\ InFlight(k)' = (InFlight(k) \ {r}) \cup {h}
        /\ r \in InFlight(k) /\ h \notin InFlight(k)
        /\ \A j \in Key \ {k} : InFlight(j)' = InFlight(j)
    BY <1>1, <1>2, <1>5, <1>7 DEF InFlight
  <2>2. /\ IsFiniteSet(InFlight(k) \ {r})
        /\ Cardinality(InFlight(k) \ {r}) = Cardinality(InFlight(k)) - 1
    BY <2>1, InFlightFinite, FS_RemoveElement
  <2>3. Cardinality(InFlight(k)') = (Cardinality(InFlight(k)) - 1) + 1
    BY <2>1, <2>2, FS_AddElement
  <2>4. Cardinality(InFlight(k)') = Cardinality(InFlight(k))
    BY <2>3, InFlightFinite, FS_CardinalityType
  <2> QED BY <1>6, <2>1, <2>4 DEF SlotsAccounted, IInv
<1>10. CounterInv'
  BY <1>2, <1>6, LimitAssumption DEF CounterInv, IInv
<1>11. QueueInv'
  <2>1. TicketsSound(k)'
    <3> SUFFICES ASSUME NEW i \in 1 .. Len(n)
                 PROVE  /\ phase'[n[i]] = "queued" /\ keyOf'[n[i]] = k
                        /\ \A j \in 1 .. Len(n) : n[j] = n[i] => j = i
      BY <1>6 DEF TicketsSound
    <3>1. i + 1 \in 1 .. Len(q) /\ i + 1 # 1 /\ n[i] = q[i + 1]
      BY <1>3
    <3>2. n[i] \in Request \ {r, h} /\ phase[n[i]] = "queued" /\ keyOf[n[i]] = k
      <4>1. phase[q[i + 1]] = "queued" /\ keyOf[q[i + 1]] = k
            /\ q[i + 1] \in Request
        BY <1>3, <1>4, <3>1
      <4>2. q[i + 1] # h
        <5>1. 1 \in 1 .. Len(q)
          BY <1>3
        <5> QED BY <1>3, <1>4, <3>1, <5>1
      <4> QED BY <1>1, <3>1, <4>1, <4>2
    <3>3. ASSUME NEW j \in 1 .. Len(n), n[j] = n[i] PROVE j = i
      <4>1. j + 1 \in 1 .. Len(q) /\ n[j] = q[j + 1]
        BY <1>3
      <4>2. j + 1 = i + 1
        BY <1>4, <3>1, <3>3, <4>1
      <4> QED BY <1>3, <4>2
    <3> QED BY <1>1, <1>7, <3>2, <3>3
  <2>2. WaitersListed(k)'
    <3> SUFFICES ASSUME NEW p \in Request, phase'[p] = "queued", keyOf'[p] = k
                 PROVE  \E i \in 1 .. Len(n) : n[i] = p
      BY <1>6 DEF WaitersListed
    <3>1. p # h /\ phase[p] = "queued" /\ keyOf[p] = k
      BY <1>1, <1>7
    <3>2. PICK i \in 1 .. Len(q) : q[i] = p
      BY <1>4, <3>1
    <3>3. i # 1
      BY <1>3, <3>1, <3>2
    <3>4. i - 1 \in 1 .. Len(n) /\ n[i - 1] = q[(i - 1) + 1] /\ (i - 1) + 1 = i
      BY <1>3, <3>3
    <3> QED BY <3>2, <3>4
  <2>3. ASSUME NEW j \in Key \ {k}
        PROVE  TicketsSound(j)' /\ WaitersListed(j)'
    <3>1. \A p \in Request : (phase'[p] = "queued" /\ keyOf'[p] = j)
                               <=> (phase[p] = "queued" /\ keyOf[p] = j)
      BY <1>1, <1>5, <1>7
    <3> QED BY <1>6, <3>1, QueueUnchanged DEF QueueInv, IInv
  <2> QED BY <2>1, <2>2, <2>3 DEF QueueInv
<1> QED BY <1>8, <1>9, <1>10, <1>11 DEF IInv

LEMMA NextIInv == IInv /\ [Next]_vars => IInv'
<1> SUFFICES ASSUME IInv, [Next]_vars PROVE IInv'
  OBVIOUS
<1>1. CASE UNCHANGED vars
  BY <1>1 DEF vars, IInv, TypeOK, SlotsAccounted, InFlight, CounterInv,
              QueueInv, TicketsSound, WaitersListed
<1>2. ASSUME NEW r \in Request, NEW k \in Key, NEW a \in BOOLEAN,
             TakeSlot(r, k, a)
      PROVE  IInv'
  BY <1>2, TakeSlotIInv
<1>3. ASSUME NEW r \in Request, NEW k \in Key, NEW a \in BOOLEAN,
             RejectFull(r, k, a)
      PROVE  IInv'
  BY <1>3, RejectIInv DEF RejectFull
<1>4. ASSUME NEW r \in Request, NEW k \in Key, RejectAborted(r, k)
      PROVE  IInv'
  BY <1>4, RejectIInv DEF RejectAborted
<1>5. ASSUME NEW r \in Request, NEW k \in Key, Enqueue(r, k)
      PROVE  IInv'
  BY <1>5, EnqueueIInv
<1>6. ASSUME NEW r \in Request, AbortQueued(r)
      PROVE  IInv'
  BY <1>6, AbortQueuedIInv
<1>7. ASSUME NEW r \in Request, AbortGranted(r) \/ Begin(r)
      PROVE  IInv'
  BY <1>7, HolderStepIInv
<1>8. ASSUME NEW r \in Request, Settle(r)
      PROVE  IInv'
  BY <1>8, SettleAloneIInv, SettleHandOverIInv
<1> QED BY <1>1, <1>2, <1>3, <1>4, <1>5, <1>6, <1>7, <1>8 DEF Next

\* The inductive invariant holds in every reachable state of the middleware,
\* for every number of requests, keys, slots and queue places.
THEOREM InductiveInvariant == Spec => []IInv
  BY InitIInv, NextIInv, PTL DEF Spec

\* Type correctness.
THEOREM TypeCorrect == Spec => []TypeOK
<1>1. IInv => TypeOK
  BY DEF IInv
<1> QED BY <1>1, InductiveInvariant, PTL

-----------------------------------------------------------------------------
(* The safety properties that TLC checks, for every value of the constants. *)

LEMMA InFlightNonEmpty ==
  ASSUME IInv, NEW k \in Key
  PROVE  buckets[k].active # 0 <=> InFlight(k) # {}
  BY InFlightFinite, FS_EmptySet DEF IInv, SlotsAccounted

LEMMA QueueNonEmpty ==
  ASSUME IInv, NEW k \in Key
  PROVE  buckets[k].queue # <<>>
           <=> \E r \in Request : phase[r] = "queued" /\ keyOf[r] = k
<1> DEFINE q == buckets[k].queue
<1>1. /\ q \in Seq(Request) /\ Len(q) \in Nat
      /\ \A i \in 1 .. Len(q) : q[i] \in Request
  BY QueueElements DEF IInv
<1>2. ASSUME q # <<>>
      PROVE  \E r \in Request : phase[r] = "queued" /\ keyOf[r] = k
  <2>1. 1 \in 1 .. Len(q)
    BY <1>1, <1>2, EmptySeq
  <2> QED BY <1>1, <2>1 DEF IInv, QueueInv, TicketsSound
<1>3. ASSUME NEW r \in Request, phase[r] = "queued", keyOf[r] = k
      PROVE  q # <<>>
  <2>1. PICK i \in 1 .. Len(q) : q[i] = r
    BY <1>3 DEF IInv, QueueInv, WaitersListed
  <2> QED BY <1>1, <2>1, EmptySeq
<1> QED BY <1>2, <1>3

\* The counter of a bucket is the number of holders of its slots.
THEOREM SlotsAreAccounted == Spec => []SlotsAccounted
<1>1. IInv => SlotsAccounted
  BY DEF IInv
<1> QED BY <1>1, InductiveInvariant, PTL

\* At most maxConcurrent requests of a key are in flight.
THEOREM LimitRespected == Spec => []AtMostMaxConcurrent
<1>1. IInv => AtMostMaxConcurrent
  BY DEF IInv, SlotsAccounted, CounterInv, AtMostMaxConcurrent
<1> QED BY <1>1, InductiveInvariant, PTL

\* A request waits only while every slot of its key is taken.
THEOREM WorkConserving == Spec => []NoIdleSlotWhileWaiting
<1>1. IInv => NoIdleSlotWhileWaiting
  BY DEF IInv, SlotsAccounted, CounterInv, NoIdleSlotWhileWaiting
<1> QED BY <1>1, InductiveInvariant, PTL

\* The map holds exactly the buckets in use.
THEOREM NoBucketLeaks == Spec => []BucketsReclaimed
<1>1. ASSUME IInv PROVE BucketsReclaimed
  <2> SUFFICES ASSUME NEW k \in Key
               PROVE  buckets[k].open <=> \E r \in Request :
                        keyOf[r] = k /\ phase[r] \in {"queued", "granted", "running"}
    BY DEF BucketsReclaimed
  <2>1. buckets[k].open <=> (InFlight(k) # {} \/ buckets[k].queue # <<>>)
    BY <1>1, InFlightNonEmpty DEF IInv, CounterInv
  <2> QED BY <1>1, <2>1, QueueNonEmpty DEF InFlight
<1> QED BY <1>1, InductiveInvariant, PTL

\* Everything the runs check of the buckets: counters exact, limit respected,
\* no slot idle beside a waiter, no bucket left behind.
THEOREM BucketsAreSafe == Spec => []Safety
<1>1. TypeOK /\ SlotsAccounted /\ AtMostMaxConcurrent
        /\ NoIdleSlotWhileWaiting /\ BucketsReclaimed => Safety
  BY DEF Safety
<1> QED BY <1>1, TypeCorrect, SlotsAreAccounted, LimitRespected, WorkConserving, NoBucketLeaks, PTL

\* A suspended request has exactly one ticket, anybody else has none.
THEOREM TicketsUnique == Spec => []OneTicketPerWaiter
<1>1. ASSUME IInv PROVE OneTicketPerWaiter
  <2> SUFFICES ASSUME NEW k \in Key, NEW r \in Request
               PROVE  Cardinality({i \in DOMAIN buckets[k].queue :
                                     buckets[k].queue[i] = r})
                        = IF phase[r] = "queued" /\ keyOf[r] = k THEN 1 ELSE 0
    BY DEF OneTicketPerWaiter
  <2> DEFINE q == buckets[k].queue
             Tickets == {i \in DOMAIN q : q[i] = r}
  <2>1. DOMAIN q = 1 .. Len(q)
    BY <1>1, QueueElements, LenProperties DEF IInv
  <2>2. CASE phase[r] = "queued" /\ keyOf[r] = k
    <3>1. PICK i \in 1 .. Len(q) : q[i] = r
      BY <1>1, <2>2 DEF IInv, QueueInv, WaitersListed
    <3>2. \A j \in 1 .. Len(q) : q[j] = q[i] => j = i
      BY <1>1 DEF IInv, QueueInv, TicketsSound
    <3>3. Tickets = {i}
      BY <2>1, <3>1, <3>2
    <3> QED BY <2>2, <3>3, FS_Singleton
  <2>3. CASE ~(phase[r] = "queued" /\ keyOf[r] = k)
    <3>1. Tickets = {}
      BY <1>1, <2>1, <2>3 DEF IInv, QueueInv, TicketsSound
    <3> QED BY <2>3, <3>1, FS_EmptySet
  <2> QED BY <2>2, <2>3
<1> QED BY <1>1, InductiveInvariant, PTL

\* Slots are granted in the order of arrival.
THEOREM GrantedInOrder == Spec => NoOvertaking
<1> DEFINE InOrder(r) ==
      phase[r] # "granted" /\ phase'[r] = "granted" =>
        Ahead(r, buckets[keyOf'[r]].queue)
          \cap ToSet(buckets'[keyOf'[r]].queue) = {}
<1>1. ASSUME IInv, [Next]_vars, NEW r \in Request PROVE InOrder(r)
  <2>1. CASE \E k \in Key, a \in BOOLEAN : TakeSlot(r, k, a)
    <3>1. PICK k \in Key, a \in BOOLEAN : TakeSlot(r, k, a)
      BY <2>1
    <3>2. keyOf'[r] = k /\ buckets[k].active < MaxConcurrent
          /\ buckets[k].active \in Nat
      BY <1>1, <3>1 DEF TakeSlot, Called, IInv, TypeOK, Bucket
    <3>3. buckets[k].queue = <<>>
      BY <1>1, <3>2, LimitAssumption DEF IInv, CounterInv
    <3>4. ToSet(buckets[k].queue) = {}
      BY <3>3 DEF ToSet
    <3> QED BY <3>2, <3>4 DEF Ahead
  <2>2. ASSUME NEW s \in Request, Settle(s) PROVE InOrder(r)
    <3> PICK k \in Key : k = keyOf[s]
      BY <1>1 DEF IInv, TypeOK
    <3> DEFINE q == buckets[k].queue
    <3> SUFFICES ASSUME phase[r] # "granted", phase'[r] = "granted"
                 PROVE  Ahead(r, buckets[keyOf'[r]].queue) = {}
      OBVIOUS
    <3>1. q # <<>> /\ Head(q) = r
      BY <1>1, <2>2, SettleStep DEF IInv, TypeOK
    <3>2. /\ Len(q) \in Nat \ {0} /\ DOMAIN q = 1 .. Len(q) /\ q[1] = r
      BY <1>1, <3>1, QueueElements, LenProperties, EmptySeq DEF IInv
    <3>3. keyOf[r] = k /\ \A j \in 1 .. Len(q) : q[j] = q[1] => j = 1
      BY <1>1, <3>2 DEF IInv, QueueInv, TicketsSound
    <3>4. keyOf'[r] = k
      BY <2>2, <3>3 DEF Settle
    <3>5. r \in ToSet(q)
      BY <3>2 DEF ToSet
    <3>6. ~ \E i, j \in DOMAIN q : i < j /\ q[j] = r
      BY <3>2, <3>3
    <3> QED BY <3>4, <3>5, <3>6 DEF Ahead
  <2>3. CASE ~(\E k \in Key, a \in BOOLEAN : TakeSlot(r, k, a))
             /\ ~(\E s \in Request : Settle(s))
    <3>1. ~(phase[r] # "granted" /\ phase'[r] = "granted")
      BY <1>1, <2>3 DEF Next, vars, TakeSlot, RejectFull, RejectAborted, Enqueue,
           Called, AbortQueued, AbortGranted, Begin, IInv, TypeOK
    <3> QED BY <3>1
  <2> QED BY <2>1, <2>2, <2>3
<1>2. IInv /\ [Next]_vars => [\A r \in Request : InOrder(r)]_vars
  BY <1>1
<1>3. Spec => [][\A r \in Request : InOrder(r)]_vars
  BY <1>2, InductiveInvariant, PTL DEF Spec
<1> QED BY <1>3 DEF NoOvertaking

-----------------------------------------------------------------------------
(* Refinement of the keyed first-come-first-served semaphore. *)

HoldersBar == [k \in Key |-> InFlight(k)]
LineBar == [k \in Key |-> buckets[k].queue]
PermitsBar == [k \in Key |-> MaxConcurrent]

\* The instance has copies of the library operators it uses.
LEMMA SameCardinality == \A S : Semaphore!Cardinality(S) = Cardinality(S)
  BY DEF Semaphore!Cardinality, Cardinality

LEMMA SameToSet == \A q : Semaphore!ToSet(q) = ToSet(q)
  BY DEF Semaphore!ToSet, ToSet

LEMMA SameRemoveFirst == \A q, e : Semaphore!RemoveFirst(q, e) = RemoveFirst(q, e)
  BY DEF Semaphore!RemoveFirst, RemoveFirst, Semaphore!RemoveAt, RemoveAt,
         Semaphore!SelectInSeq, SelectInSeq, Semaphore!Min, Min

LEMMA NotInvolved ==
  ASSUME IInv, NEW r \in Request, Finished(r)
  PROVE  \A k \in Key : ~Semaphore!Involved(r, k)
<1> SUFFICES ASSUME NEW k \in Key PROVE ~Semaphore!Involved(r, k)
  OBVIOUS
<1>1. r \notin InFlight(k)
  BY DEF Finished, InFlight
<1>2. r \notin ToSet(buckets[k].queue)
  <2>1. DOMAIN buckets[k].queue = 1 .. Len(buckets[k].queue)
    BY QueueElements, LenProperties DEF IInv
  <2> QED BY <2>1 DEF ToSet, IInv, QueueInv, TicketsSound, Finished
<1> QED BY <1>1, <1>2, SameToSet DEF Semaphore!Involved

\* When no bucket's queue changes and no request gains or loses a slot, the
\* semaphore does not move.
LEMMA SemaphoreStutters ==
  ASSUME \A k \in Key : buckets'[k].queue = buckets[k].queue,
         \A k \in Key : InFlight(k)' = InFlight(k)
  PROVE  UNCHANGED Semaphore!vars
  BY DEF Semaphore!vars

LEMMA TakeSlotEnters ==
  ASSUME IInv, NEW r \in Request, NEW k \in Key, NEW a \in BOOLEAN,
         TakeSlot(r, k, a)
  PROVE  Semaphore!Enter(r, k)
<1>1. \A j \in Key : ~Semaphore!Involved(r, j)
  BY NotInvolved DEF TakeSlot, Called
<1>2. buckets[k].queue = <<>> /\ buckets[k].active < MaxConcurrent
  BY LimitAssumption DEF TakeSlot, IInv, TypeOK, Bucket, CounterInv
<1>3. /\ InFlight(k)' = InFlight(k) \cup {r}
      /\ \A j \in Key \ {k} : InFlight(j)' = InFlight(j)
  BY DEF TakeSlot, Called, Finished, InFlight, IInv, TypeOK
<1>4. \A j \in Key : buckets'[j].queue = buckets[j].queue
  BY DEF TakeSlot, InUse, IInv, TypeOK
<1>5. HoldersBar' = [HoldersBar EXCEPT ![k] = @ \cup {r}] /\ LineBar' = LineBar
  BY <1>3, <1>4 DEF HoldersBar, LineBar
<1>6. LineBar[k] = <<>> /\ Cardinality(HoldersBar[k]) < PermitsBar[k]
  BY <1>2 DEF HoldersBar, LineBar, PermitsBar, IInv, SlotsAccounted
<1> QED BY <1>1, <1>5, <1>6, SameCardinality
        DEF Semaphore!Enter, HoldersBar, LineBar, PermitsBar

LEMMA EnqueueWaits ==
  ASSUME IInv, NEW r \in Request, NEW k \in Key, Enqueue(r, k)
  PROVE  Semaphore!Wait(r, k)
<1>1. \A j \in Key : ~Semaphore!Involved(r, j)
  BY NotInvolved DEF Enqueue, Called
<1>2. buckets[k].active = MaxConcurrent
  BY LimitAssumption DEF Enqueue, IInv, TypeOK, Bucket, CounterInv
<1>3. \A j \in Key : InFlight(j)' = InFlight(j)
  BY DEF Enqueue, Called, Finished, InFlight, IInv, TypeOK
<1>4. /\ buckets'[k].queue = Append(buckets[k].queue, r)
      /\ \A j \in Key \ {k} : buckets'[j].queue = buckets[j].queue
  BY DEF Enqueue, InUse, IInv, TypeOK
<1>5. HoldersBar' = HoldersBar /\ LineBar' = [LineBar EXCEPT ![k] = Append(@, r)]
  BY <1>3, <1>4 DEF HoldersBar, LineBar
<1>6. Cardinality(HoldersBar[k]) = PermitsBar[k]
  BY <1>2 DEF HoldersBar, PermitsBar, IInv, SlotsAccounted
<1> QED BY <1>1, <1>5, <1>6, SameCardinality
        DEF Semaphore!Wait, HoldersBar, LineBar, PermitsBar

LEMMA AbortQueuedGivesUp ==
  ASSUME IInv, NEW r \in Request, AbortQueued(r)
  PROVE  \E k \in Key : Semaphore!GiveUp(r, k)
<1> PICK k \in Key : k = keyOf[r]
  BY DEF IInv, TypeOK
<1>1. r \in ToSet(buckets[k].queue) /\ buckets[k].queue # <<>>
  <2>1. PICK i \in 1 .. Len(buckets[k].queue) : buckets[k].queue[i] = r
    BY DEF AbortQueued, IInv, QueueInv, WaitersListed
  <2>2. DOMAIN buckets[k].queue = 1 .. Len(buckets[k].queue)
    BY QueueElements, LenProperties DEF IInv
  <2> QED BY <2>1, <2>2 DEF ToSet
<1>2. Cleaned(buckets[k].active, RemoveFirst(buckets[k].queue, r))
        = InUse(buckets[k].active, RemoveFirst(buckets[k].queue, r))
  BY <1>1, LimitAssumption DEF Cleaned, IInv, CounterInv
<1>3. /\ buckets'[k].queue = RemoveFirst(buckets[k].queue, r)
      /\ \A j \in Key \ {k} : buckets'[j].queue = buckets[j].queue
  BY <1>2 DEF AbortQueued, InUse, IInv, TypeOK
<1>4. \A j \in Key : InFlight(j)' = InFlight(j)
  BY DEF AbortQueued, InFlight, IInv, TypeOK
<1>5. HoldersBar' = HoldersBar
      /\ LineBar' = [LineBar EXCEPT ![k] = RemoveFirst(@, r)]
  BY <1>3, <1>4 DEF HoldersBar, LineBar
<1>6. r \in ToSet(LineBar[k])
  BY <1>1 DEF LineBar
<1>7. Semaphore!GiveUp(r, k)
  BY <1>5, <1>6, SameToSet, SameRemoveFirst DEF Semaphore!GiveUp, HoldersBar, LineBar
<1> QED BY <1>7

LEMMA SettleLeaves ==
  ASSUME IInv, NEW r \in Request, Settle(r)
  PROVE  \E k \in Key : Semaphore!Leave(r, k)
<1> PICK k \in Key : k = keyOf[r]
  BY DEF IInv, TypeOK
<1> DEFINE q == buckets[k].queue
<1>1. keyOf' = keyOf /\ phase[r] = "running" /\ r \in HoldersBar[k]
  BY DEF Settle, HoldersBar, InFlight
<1>2. CASE q = <<>>
  <2>1. /\ buckets' = [buckets EXCEPT ![k] = Cleaned(buckets[k].active - 1, <<>>)]
        /\ phase' = [phase EXCEPT ![r] = "idle"]
    BY <1>2, SettleStep
  <2>2. \A j \in Key : buckets'[j].queue = buckets[j].queue
    BY <1>2, <2>1 DEF Cleaned, InUse, NoBucket, IInv, TypeOK
  <2>3. /\ InFlight(k)' = InFlight(k) \ {r}
        /\ \A j \in Key \ {k} : InFlight(j)' = InFlight(j)
    BY <1>1, <2>1 DEF InFlight, IInv, TypeOK
  <2>4. /\ HoldersBar' = [HoldersBar EXCEPT ![k] = @ \ {r}]
        /\ LineBar' = LineBar /\ LineBar[k] = <<>>
    BY <1>2, <2>2, <2>3 DEF HoldersBar, LineBar
  <2>5. Semaphore!Leave(r, k)
    BY <1>1, <2>4 DEF Semaphore!Leave, HoldersBar, LineBar
  <2> QED BY <2>5
<1>3. CASE q # <<>>
  <2>1. /\ buckets' = [buckets EXCEPT ![k] = InUse(MaxConcurrent, Tail(q))]
        /\ Head(q) \in Request \ {r}
        /\ phase' = [phase EXCEPT ![r] = "idle", ![Head(q)] = "granted"]
    BY <1>3, SettleStep
  <2>2. /\ buckets'[k].queue = Tail(q)
        /\ \A j \in Key \ {k} : buckets'[j].queue = buckets[j].queue
    BY <2>1 DEF InUse, IInv, TypeOK
  <2>3. phase[Head(q)] = "queued" /\ keyOf[Head(q)] = k
    <3>1. 1 \in 1 .. Len(q) /\ Head(q) = q[1]
      BY <1>3, QueueElements, EmptySeq DEF IInv
    <3> QED BY <3>1 DEF IInv, QueueInv, TicketsSound
  <2>4. /\ InFlight(k)' = (InFlight(k) \ {r}) \cup {Head(q)}
        /\ \A j \in Key \ {k} : InFlight(j)' = InFlight(j)
    BY <1>1, <2>1, <2>3 DEF InFlight, IInv, TypeOK
  <2>5. /\ HoldersBar' = [HoldersBar EXCEPT ![k] = (@ \ {r}) \cup {Head(LineBar[k])}]
        /\ LineBar' = [LineBar EXCEPT ![k] = Tail(@)] /\ LineBar[k] # <<>>
    BY <1>3, <2>2, <2>4 DEF HoldersBar, LineBar
  <2>6. Semaphore!Leave(r, k)
    BY <1>1, <2>5 DEF Semaphore!Leave, HoldersBar, LineBar
  <2> QED BY <2>6
<1> QED BY <1>2, <1>3

\* The middleware implements the abstract semaphore: every state is mapped to
\* the set of its holders and the line of its waiters, every step to a step of
\* the semaphore or to a stutter.
THEOREM RefinesSemaphore == Spec => ImplementsSemaphore
<1>1. Init => Semaphore!Init
  <2> SUFFICES ASSUME Init PROVE Semaphore!Init
    OBVIOUS
  <2>1. \A k \in Key : InFlight(k) = {} /\ buckets[k].queue = <<>>
    BY DEF Init, InFlight, NoBucket
  <2> QED BY <2>1 DEF Semaphore!Init
<1>2. ASSUME IInv, [Next]_vars PROVE [Semaphore!Next]_(Semaphore!vars)
  <2>1. CASE \E r \in Request, k \in Key, a \in BOOLEAN : TakeSlot(r, k, a)
    <3>1. PICK r \in Request, k \in Key : Semaphore!Enter(r, k)
      BY <1>2, <2>1, TakeSlotEnters
    <3> QED BY <3>1, Zenon DEF Semaphore!Next
  <2>2. CASE \E r \in Request, k \in Key : Enqueue(r, k)
    <3>1. PICK r \in Request, k \in Key : Semaphore!Wait(r, k)
      BY <1>2, <2>2, EnqueueWaits
    <3> QED BY <3>1, Zenon DEF Semaphore!Next
  <2>3. CASE \E r \in Request : AbortQueued(r)
    <3>1. PICK r \in Request : AbortQueued(r)
      BY <2>3
    <3>2. PICK k \in Key : Semaphore!GiveUp(r, k)
      BY <1>2, <3>1, AbortQueuedGivesUp
    <3> QED BY <3>2, Zenon DEF Semaphore!Next
  <2>4. CASE \E r \in Request : Settle(r)
    <3>1. PICK r \in Request : Settle(r)
      BY <2>4
    <3>2. PICK k \in Key : Semaphore!Leave(r, k)
      BY <1>2, <3>1, SettleLeaves
    <3> QED BY <3>2, Zenon DEF Semaphore!Next
  <2>5. CASE \E r \in Request : AbortGranted(r) \/ Begin(r)
    <3>1. \A k \in Key : InFlight(k)' = InFlight(k)
      BY <1>2, <2>5 DEF AbortGranted, Begin, InFlight, IInv, TypeOK
    <3>2. buckets' = buckets
      BY <2>5 DEF AbortGranted, Begin
    <3> QED BY <3>1, <3>2, SemaphoreStutters
  <2>6. CASE \E r \in Request, k \in Key, a \in BOOLEAN :
               RejectFull(r, k, a) \/ RejectAborted(r, k)
    <3>1. \A k \in Key : InFlight(k)' = InFlight(k)
      BY <1>2, <2>6 DEF RejectFull, RejectAborted, Called, Finished, InFlight,
                        IInv, TypeOK
    <3>2. PICK k \in Key :
            buckets' = [buckets EXCEPT ![k] = InUse(@.active, @.queue)]
      BY <2>6 DEF RejectFull, RejectAborted
    <3>3. \A j \in Key : buckets'[j].queue = buckets[j].queue
      BY <1>2, <3>2 DEF InUse, IInv, TypeOK
    <3> QED BY <3>1, <3>3, SemaphoreStutters
  <2>7. CASE UNCHANGED vars
    <3>1. \A k \in Key : InFlight(k)' = InFlight(k)
      BY <2>7 DEF vars, InFlight
    <3> QED BY <2>7, <3>1, SemaphoreStutters DEF vars
  <2> QED BY <1>2, <2>1, <2>2, <2>3, <2>4, <2>5, <2>6, <2>7 DEF Next
<1>3. IInv /\ [Next]_vars => [Semaphore!Next]_(Semaphore!vars)
  BY <1>2
<1>4. Spec => Semaphore!Spec
  BY <1>1, <1>3, InductiveInvariant, PTL DEF Spec, Semaphore!Spec
<1> QED BY <1>4 DEF ImplementsSemaphore
=============================================================================
