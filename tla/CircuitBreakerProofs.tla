------------------------ MODULE CircuitBreakerProofs ------------------------
(* TLAPS proofs about CircuitBreaker. *)
EXTENDS CircuitBreaker, FiniteSetTheorems, SequenceTheorems, TLAPS

-----------------------------------------------------------------------------
(* The Map and the identities of its entries. *)

LEMMA RemoveFirstType ==
  ASSUME NEW S, NEW q \in Seq(S), NEW e
  PROVE  RemoveFirst(q, e) \in Seq(S)
<1>1. Len(q) \in Nat /\ \A i \in 1 .. Len(q) : q[i] \in S
  BY LenProperties, ElementOfSeq
<1>2. CASE \E i \in 1 .. Len(q) : q[i] = e
  <2> DEFINE n == SelectInSeq(q, LAMBDA v : v = e)
  <2>1. RemoveFirst(q, e) = SubSeq(q, 1, n - 1) \o SubSeq(q, n + 1, Len(q))
    BY <1>2 DEF RemoveFirst, RemoveAt
  <2> DEFINE hits == {i \in 1 .. Len(q) : q[i] = e}
  <2>2. n \in hits
    <3>1. hits # {} /\ hits \subseteq Nat
      BY <1>1, <1>2
    <3>2. n = Min(hits)
      BY <1>2 DEF SelectInSeq
    <3>3. \E x \in hits : \A y \in hits : x <= y
      <4>1. \E x \in hits : \A y \in hits : ~ (<<y, x>> \in OpToRel(<, Nat))
        <5> HIDE DEF hits
        <5> QED BY <3>1, NatLessThanWellFounded, WFMin
      <4>2. \A x \in Nat, y \in Nat : x < y => <<x, y>> \in OpToRel(<, Nat)
        BY Zenon DEF OpToRel
      <4>3. PICK x \in hits : \A y \in hits : ~ (<<y, x>> \in OpToRel(<, Nat))
        BY <4>1
      <4>4. \A y \in hits : ~ (y < x)
        BY <3>1, <4>2, <4>3
      <4>5. \A y \in hits : x <= y
        <5> HIDE DEF hits
        <5> QED BY <3>1, <4>4
      <4> QED BY <4>5
    <3> HIDE DEF hits, n
    <3> QED BY <3>2, <3>3 DEF Min
  <2> HIDE DEF n
  <2>3. n \in 1 .. Len(q)
    BY <2>2
  <2>4. SubSeq(q, 1, n - 1) \in Seq(S) /\ SubSeq(q, n + 1, Len(q)) \in Seq(S)
    BY <1>1, <2>3, SubSeqProperties
  <2> QED BY <2>1, <2>4, ConcatProperties
<1>3. CASE ~ \E i \in 1 .. Len(q) : q[i] = e
  BY <1>3 DEF RemoveFirst
<1> QED BY <1>2, <1>3

LEMMA MapTypes ==
  ASSUME TypeOK, NEW k \in Key
  PROVE  /\ RemoveFirst(order, k) \in Seq(Key)
         /\ Append(order, k) \in Seq(Key) /\ Append(RemoveFirst(order, k), k) \in Seq(Key)
         /\ \A e \in Entry \cup {NoEntry} :
              [map EXCEPT ![k] = e] \in [Key -> Entry \cup {NoEntry}]
<1>1. order \in Seq(Key) /\ map \in [Key -> Entry \cup {NoEntry}]
  BY DEF TypeOK
<1>2. RemoveFirst(order, k) \in Seq(Key)
  BY <1>1, RemoveFirstType
<1> QED BY <1>1, <1>2, AppendProperties

\* While a run has no entry there is an object nobody refers to.
LEMMA NewEntryFree ==
  ASSUME TypeOK, NEW r \in Request, entry[r] = NoEntry
  PROVE  NewEntry \in Entry /\ ~InUse(NewEntry)
<1> DEFINE Others == Request \ {r}
           inMap == {map[k] : k \in Key}
           held == {entry[s] : s \in Others}
<1>1. IsFiniteSet(inMap) /\ Cardinality(inMap) <= Cardinality(Key)
      /\ Cardinality(inMap) \in Nat /\ Cardinality(Key) \in Nat
  <2> DEFINE f == [k \in Key |-> map[k]]
  <2>1. f \in Surjection(Key, inMap)
    BY DEF Surjection
  <2> HIDE DEF f, inMap
  <2> QED BY <2>1, EntryAssumption, FS_Surjection, FS_CardinalityType
<1>2. IsFiniteSet(held) /\ Cardinality(held) <= Cardinality(Others)
      /\ IsFiniteSet(Others) /\ Cardinality(Others) = Cardinality(Request) - 1
      /\ Cardinality(held) \in Nat /\ Cardinality(Request) \in Nat
  <2> DEFINE f == [s \in Others |-> entry[s]]
  <2>1. f \in Surjection(Others, held)
    BY DEF Surjection
  <2>2. IsFiniteSet(Others) /\ Cardinality(Others) = Cardinality(Request) - 1
        /\ Cardinality(Request) \in Nat
    BY EntryAssumption, FS_RemoveElement, FS_CardinalityType
  <2> HIDE DEF f, held, Others
  <2> QED BY <2>1, <2>2, FS_Surjection, FS_CardinalityType
<1>3. IsFiniteSet(inMap \cup held)
      /\ Cardinality(inMap \cup held) < Cardinality(Key) + Cardinality(Request)
  <2> HIDE DEF inMap, held, Others
  <2>1. IsFiniteSet(inMap \cap held) /\ Cardinality(inMap \cap held) \in Nat
    BY <1>1, FS_Intersection, FS_CardinalityType
  <2>2. IsFiniteSet(inMap \cup held)
        /\ Cardinality(inMap \cup held)
           = Cardinality(inMap) + Cardinality(held) - Cardinality(inMap \cap held)
    BY <1>1, <1>2, FS_Union
  <2>3. Cardinality(Others) \in Nat
    BY <1>2, FS_CardinalityType
  <2> QED BY <1>1, <1>2, <2>1, <2>2, <2>3
<1>4. \E e \in Entry : e \notin inMap \cup held
  <2> SUFFICES ASSUME Entry \subseteq inMap \cup held PROVE FALSE
    OBVIOUS
  <2> HIDE DEF inMap, held, Others
  <2>1. IsFiniteSet(Entry) /\ Cardinality(Entry) <= Cardinality(inMap \cup held)
        /\ Cardinality(Entry) \in Nat /\ Cardinality(inMap \cup held) \in Nat
    BY <1>3, FS_Subset, FS_CardinalityType
  <2> QED BY <1>1, <1>2, <1>3, <2>1, EntryAssumption
<1>5. \E e \in Entry : ~InUse(e)
  BY <1>4, BreakerAssumption DEF InUse
<1> QED BY <1>5 DEF NewEntry

-----------------------------------------------------------------------------
(* IInv is inductive. *)

LEMMA InitIInv == Init => IInv
<1> SUFFICES ASSUME Init PROVE IInv
  OBVIOUS
<1> USE BreakerAssumption DEF Init
<1>1. TypeOK
  <2>1. Fresh(0) \in Fields
    BY DEF Fresh, Fields, Stamp
  <2> QED BY <2>1, EmptySeq DEF TypeOK, Phase
<1>2. NoStuckProbe
  BY DEF NoStuckProbe, Fresh
<1>3. EntryHeld /\ CalledBeforeOpening /\ ProbeCounts
  BY DEF EntryHeld, CalledBeforeOpening, ProbeCounts, InFlight
<1>4. NoneLate
  <2>1. ~late => Cooldown # 0
    BY Zenon
  <2> QED BY <2>1 DEF NoneLate
<1>5. \A r \in Request : now[r] <= clock
  OBVIOUS
<1> QED BY <1>1, <1>2, <1>3, <1>4, <1>5 DEF IInv

\* A step of a run that is not in flight, or of the controller, which leaves
\* the circuits as they are.
LEMMA CircuitsUnchanged ==
  ASSUME IInv, TypeOK',
         \A e \in Entry : /\ heap'[e].state = heap[e].state
                          /\ heap'[e].probe = heap[e].probe
                          /\ heap'[e].openedAt = heap[e].openedAt,
         \A r \in Request : /\ InFlight(r)' <=> InFlight(r)
                            /\ InFlight(r) => entry'[r] = entry[r] /\ now'[r] = now[r],
         late => late'
  PROVE  NoStuckProbe' /\ CalledBeforeOpening' /\ ProbeCounts'
<1> USE DEF IInv
<1>1. \A r \in Request : InFlight(r) => entry[r] \in Entry
  BY DEF EntryHeld
<1>2. NoStuckProbe'
  BY <1>1 DEF NoStuckProbe
<1>3. CalledBeforeOpening'
  BY <1>1 DEF CalledBeforeOpening
<1>4. ProbeCounts'
  BY <1>1 DEF ProbeCounts
<1> QED BY <1>2, <1>3, <1>4

LEMMA CallIInv ==
  ASSUME IInv, NEW r \in Request, NEW k \in Key, Call(r, k)
  PROVE  IInv'
<1> USE DEF IInv, Call, Moves
<1>1. TypeOK'
  BY DEF TypeOK, Phase
<1>2. \A s \in Request : /\ InFlight(s)' <=> InFlight(s)
                         /\ InFlight(s) => entry'[s] = entry[s] /\ now'[s] = now[s]
  BY DEF InFlight, TypeOK
<1>3. NoStuckProbe' /\ CalledBeforeOpening' /\ ProbeCounts'
  <2> HIDE DEF Call, Moves
  <2>1. heap' = heap /\ late' = late
    BY DEF Call
  <2> QED BY <1>1, <1>2, <2>1, CircuitsUnchanged
<1>4. \A s \in Request : now'[s] <= clock'
  BY DEF TypeOK
<1>5. EntryHeld'
  BY DEF EntryHeld, TypeOK, InFlight
<1>6. NoneLate'
  BY BreakerAssumption DEF NoneLate, TypeOK
<1> QED BY <1>1, <1>3, <1>4, <1>5, <1>6

\* A step that starts no run, puts none in flight and lets no time pass.
LEMMA QuietStep ==
  ASSUME IInv, TypeOK', EntryHeld', clock' = clock, late' = late,
         \A e \in Entry : /\ heap'[e].state = heap[e].state
                          /\ heap'[e].probe = heap[e].probe
                          /\ heap'[e].openedAt = heap[e].openedAt,
         \A r \in Request : /\ InFlight(r)' <=> InFlight(r)
                            /\ InFlight(r) => entry'[r] = entry[r] /\ now'[r] = now[r],
         \A r \in Request : /\ phase'[r] # "idle" => phase[r] # "idle" /\ now'[r] = now[r]
                            /\ now'[r] \in {now[r], 0}
  PROVE  IInv'
<1>1. NoStuckProbe' /\ CalledBeforeOpening' /\ ProbeCounts'
  BY CircuitsUnchanged
<1>2. NoneLate'
  <2> SUFFICES ASSUME ~late'
               PROVE  Cooldown > 0 /\ \A r \in Request :
                        phase'[r] # "idle" => clock' < now'[r] + Cooldown
    BY DEF NoneLate
  <2>1. ~late
    BY Zenon
  <2>2. Cooldown > 0 /\ \A r \in Request : phase[r] # "idle" => clock < now[r] + Cooldown
    BY <2>1 DEF IInv, NoneLate
  <2>3. ASSUME NEW r \in Request, phase'[r] # "idle" PROVE clock' < now'[r] + Cooldown
    <3>1. phase[r] # "idle" /\ now'[r] = now[r]
      BY <2>3
    <3>2. clock < now[r] + Cooldown
      BY <2>2, <3>1
    <3> QED BY <3>1, <3>2
  <2> QED BY <2>2, <2>3
<1>3. \A r \in Request : now'[r] <= clock'
  <2> SUFFICES ASSUME NEW r \in Request PROVE now'[r] <= clock'
    OBVIOUS
  <2>1. now[r] <= clock /\ 0 <= clock
    BY DEF IInv, TypeOK
  <2>2. now'[r] = now[r] \/ now'[r] = 0
    OBVIOUS
  <2> QED BY <2>1, <2>2
<1> QED BY <1>1, <1>2, <1>3 DEF IInv

\* A step that deletes keys of the Map and nothing else.
LEMMA DeletingIInv ==
  ASSUME IInv, UNCHANGED <<clock, heap, phase, keyOf, now, entry, toEvict, late>>,
         order' \in Seq(Key), map' \in [Key -> Entry \cup {NoEntry}]
  PROVE  IInv'
<1>1. TypeOK'
  BY DEF IInv, TypeOK
<1>2. \A r \in Request : InFlight(r)' <=> InFlight(r)
  BY DEF InFlight
<1>3. EntryHeld'
  BY <1>2 DEF IInv, EntryHeld
<1> QED BY <1>1, <1>2, <1>3, QuietStep

LEMMA DeleteIInv ==
  ASSUME IInv, NEW k \in Key, Delete(k),
         UNCHANGED <<clock, heap, phase, keyOf, now, entry, toEvict, late>>
  PROVE  IInv'
<1>1. order' \in Seq(Key) /\ map' \in [Key -> Entry \cup {NoEntry}]
  BY MapTypes DEF IInv, Delete
<1> QED BY <1>1, DeletingIInv

LEMMA GetIInv ==
  ASSUME IInv, NEW r \in Request, Get(r)
  PROVE  IInv'
<1>1. TypeOK'
  BY DEF IInv, TypeOK, Phase, Get, Moves, runVars
<1>2. EntryHeld'
  BY DEF IInv, TypeOK, EntryHeld, InFlight, Get, Moves, runVars
<1>3. \A s \in Request : /\ InFlight(s)' <=> InFlight(s)
                         /\ InFlight(s) => entry'[s] = entry[s] /\ now'[s] = now[s]
  BY DEF IInv, TypeOK, InFlight, Get, Moves, runVars
<1>4. /\ \A s \in Request : phase'[s] # "idle" => phase[s] # "idle"
      /\ UNCHANGED <<clock, heap, now, late>>
  BY DEF IInv, TypeOK, Get, Moves, runVars
<1> QED BY <1>1, <1>2, <1>3, <1>4, QuietStep

LEMMA TouchedFacts ==
  ASSUME IInv, NEW e \in Entry, NEW t \in Nat
  PROVE  /\ Touched(heap[e], t) \in Fields
         /\ Touched(heap[e], t).state = heap[e].state
         /\ Touched(heap[e], t).probe = heap[e].probe
         /\ Touched(heap[e], t).openedAt = heap[e].openedAt
BY DEF IInv, TypeOK, Fields, Touched, Stamp

\* Found and Touch: both touch the entry the run holds.
LEMMA TouchIInv ==
  ASSUME IInv, NEW r \in Request, Found(r) \/ Touch(r)
  PROVE  IInv'
<1> DEFINE e == entry[r]
<1>1. /\ e \in Entry /\ now[r] \in Nat /\ keyOf[r] \in Key
      /\ phase[r] \in {"read", "found"}
      /\ \/ phase' = [phase EXCEPT ![r] = "found"]
         \/ phase' = [phase EXCEPT ![r] = "touched"]
      /\ heap' = [heap EXCEPT ![e] = Touched(heap[e], now[r])]
      /\ Reinsert(keyOf[r], e) /\ UNCHANGED <<clock, entry, runVars>>
  BY DEF IInv, TypeOK, EntryHeld, Found, Touch, Moves
<1> HIDE DEF e
<1>2. \A d \in Entry : /\ heap'[d].state = heap[d].state
                       /\ heap'[d].probe = heap[d].probe
                       /\ heap'[d].openedAt = heap[d].openedAt
  BY <1>1, TouchedFacts DEF IInv, TypeOK
<1>3. TypeOK'
  <2>1. order' \in Seq(Key) /\ map' \in [Key -> Entry \cup {NoEntry}]
    BY <1>1, MapTypes DEF IInv, Reinsert
  <2>2. heap' \in [Entry -> Fields]
    BY <1>1, TouchedFacts DEF IInv, TypeOK
  <2> QED BY <1>1, <2>1, <2>2 DEF IInv, TypeOK, Phase, runVars
<1>4. EntryHeld'
  BY <1>1 DEF IInv, TypeOK, EntryHeld, InFlight, e
<1>5. \A s \in Request : /\ InFlight(s)' <=> InFlight(s)
                         /\ InFlight(s) => entry'[s] = entry[s] /\ now'[s] = now[s]
  BY <1>1 DEF IInv, TypeOK, InFlight, runVars
<1>6. \A s \in Request : phase'[s] # "idle" => phase[s] # "idle"
  BY <1>1 DEF IInv, TypeOK
<1> QED BY <1>1, <1>2, <1>3, <1>4, <1>5, <1>6, QuietStep DEF runVars

\* NotFound and Evicted: both store a new entry.
LEMMA CreateIInv ==
  ASSUME IInv, NEW r \in Request, NotFound(r) \/ Evicted(r)
  PROVE  IInv'
<1> DEFINE e == NewEntry
<1>1. /\ entry[r] = NoEntry /\ phase[r] \in {"read", "evicting"}
      /\ phase' = [phase EXCEPT ![r] = "found"]
      /\ Create(r) /\ UNCHANGED <<clock, runVars>>
  BY DEF IInv, EntryHeld, NotFound, Evicted, Moves
<1>2. e \in Entry /\ \A s \in Request : entry[s] # e
  BY <1>1, NewEntryFree DEF IInv, InUse
<1> HIDE DEF e
<1>3. /\ heap' = [heap EXCEPT ![e] = Fresh(now[r])]
      /\ entry' = [entry EXCEPT ![r] = e] /\ Set(keyOf[r], e)
      /\ keyOf[r] \in Key /\ now[r] \in Nat
  BY <1>1 DEF Create, e, IInv, TypeOK
<1>4. Fresh(now[r]) \in Fields /\ ~Fresh(now[r]).probe
  BY <1>3 DEF Fresh, Fields, Stamp
<1>5. TypeOK'
  <2>1. order' \in Seq(Key) /\ map' \in [Key -> Entry \cup {NoEntry}]
    BY <1>2, <1>3, MapTypes DEF IInv, TypeOK, Set
  <2> QED BY <1>1, <1>2, <1>3, <1>4, <2>1 DEF IInv, TypeOK, Phase, runVars
<1>6. \A s \in Request : /\ InFlight(s)' <=> InFlight(s)
                         /\ InFlight(s) => /\ entry'[s] = entry[s] /\ now'[s] = now[s]
                                           /\ entry[s] \in Entry
                                           /\ heap'[entry[s]] = heap[entry[s]]
  BY <1>1, <1>2, <1>3 DEF IInv, TypeOK, InFlight, EntryHeld, runVars
<1>7. NoStuckProbe'
  <2> SUFFICES ASSUME NEW d \in Entry, heap'[d].probe
               PROVE  /\ heap'[d].state = "half-open"
                      /\ \E s \in Request : entry'[s] = d /\ InFlight(s)'
    BY DEF NoStuckProbe
  <2>1. d # e /\ heap'[d] = heap[d]
    BY <1>2, <1>3, <1>4 DEF IInv, TypeOK
  <2> QED BY <1>6, <2>1 DEF IInv, NoStuckProbe
<1>8. EntryHeld'
  BY <1>1, <1>2, <1>3 DEF IInv, TypeOK, EntryHeld, InFlight
<1>9. CalledBeforeOpening'
  BY <1>6 DEF IInv, CalledBeforeOpening
<1>10. ProbeCounts'
  BY <1>1, <1>6 DEF IInv, ProbeCounts, runVars
<1>11. NoneLate' /\ \A s \in Request : now'[s] <= clock'
  BY <1>1 DEF IInv, TypeOK, NoneLate, runVars
<1> QED BY <1>5, <1>7, <1>8, <1>9, <1>10, <1>11 DEF IInv

LEMMA EvictingIInv ==
  ASSUME IInv, NEW r \in Request, StartEviction(r) \/ EvictOldest(r)
  PROVE  IInv'
<1> USE DEF IInv, StartEviction, EvictOldest, Moves
<1>1. /\ UNCHANGED <<clock, heap, keyOf, now, entry, late>>
      /\ \A s \in Request : InFlight(s)' <=> InFlight(s)
      /\ \A s \in Request : phase'[s] # "idle" => phase[s] # "idle"
  BY DEF TypeOK, InFlight
<1>2. order' \in Seq(Key) /\ map' \in [Key -> Entry \cup {NoEntry}]
  <2>1. order # <<>> => Head(order) \in Key
    BY EmptySeq, HeadTailProperties DEF TypeOK
  <2>2. CASE Delete(Head(order)) /\ order # <<>>
    BY <2>1, <2>2, MapTypes DEF Delete
  <2>3. CASE UNCHANGED <<order, map>>
    BY <2>3 DEF TypeOK
  <2> QED BY <2>2, <2>3
<1>3. TypeOK'
  <2>1. toEvict' \in [Request -> Nat]
    <3>1. Len(order) \in Nat
      BY LenProperties DEF TypeOK
    <3> QED BY <3>1, BreakerAssumption DEF TypeOK
  <2> QED BY <1>1, <1>2, <2>1 DEF TypeOK, Phase
<1>4. EntryHeld'
  BY <1>1 DEF TypeOK, EntryHeld, InFlight
<1> HIDE DEF StartEviction, EvictOldest, Moves
<1> QED BY <1>1, <1>3, <1>4, QuietStep

LEMMA RejectIInv ==
  ASSUME IInv, NEW r \in Request, Reject(r)
  PROVE  IInv'
<1> USE DEF IInv, Reject, Moves, Over
<1>1. TypeOK'
  BY DEF TypeOK, Phase
<1>2. EntryHeld'
  BY DEF TypeOK, EntryHeld, InFlight
<1>3. \A s \in Request : /\ InFlight(s)' <=> InFlight(s)
                         /\ InFlight(s) => entry'[s] = entry[s] /\ now'[s] = now[s]
  BY DEF TypeOK, InFlight
<1>4. /\ \A s \in Request : /\ phase'[s] # "idle" => phase[s] # "idle" /\ now'[s] = now[s]
                            /\ now'[s] \in {now[s], 0}
      /\ UNCHANGED <<clock, heap, late>>
  BY DEF TypeOK
<1> HIDE DEF Reject, Moves, Over
<1> QED BY <1>1, <1>2, <1>3, <1>4, QuietStep

LEMMA AdmitClosedIInv ==
  ASSUME IInv, NEW r \in Request, AdmitClosed(r)
  PROVE  IInv'
<1> USE DEF IInv, AdmitClosed, Moves, runVars, Closes
<1>1. TypeOK'
  BY DEF TypeOK, Phase
<1>2. EntryHeld' /\ entry[r] \in Entry
  BY DEF TypeOK, EntryHeld, InFlight
<1>3. \A s \in Request : InFlight(s) => InFlight(s)'
  BY DEF TypeOK, InFlight
<1>4. \A s \in Request : InFlight(s)' => InFlight(s) \/ s = r
  BY DEF TypeOK, InFlight
<1>5. NoStuckProbe'
  BY <1>3 DEF NoStuckProbe
<1>6. CalledBeforeOpening'
  BY <1>4 DEF CalledBeforeOpening
<1>7. ProbeCounts'
  BY <1>4 DEF ProbeCounts
<1>8. NoneLate' /\ \A s \in Request : now'[s] <= clock'
  BY DEF NoneLate, TypeOK
<1> QED BY <1>1, <1>2, <1>5, <1>6, <1>7, <1>8

\* A circuit that has cooled down has nobody in flight, unless a request is
\* late; one that is free to probe has nobody in flight either.
LEMMA AdmitProbeIInv ==
  ASSUME IInv, NEW r \in Request, AdmitProbe(r)
  PROVE  IInv'
<1> DEFINE e == entry[r]
           f == Probing(heap[e], now[r])
<1>1. /\ e \in Entry /\ heap[e] \in Fields /\ now[r] \in Nat /\ phase[r] = "touched"
      /\ phase' = [phase EXCEPT ![r] = "probing"]
      /\ heap' = [heap EXCEPT ![e] = f]
      /\ UNCHANGED <<clock, order, map, entry, runVars>>
      /\ CooledDown(r) \/ FreeToProbe(r)
  BY DEF IInv, TypeOK, EntryHeld, AdmitProbe, Moves
<1>2. f \in Fields /\ f.state = "half-open" /\ f.probe
  BY <1>1 DEF Fields, Probing, Stamp
<1>3. \A s \in Request : entry[s] = e => late \/ ~InFlight(s)
  <2> SUFFICES ASSUME NEW s \in Request, entry[s] = e, InFlight(s), ~late
               PROVE  FALSE
    OBVIOUS
  <2>1. CASE CooledDown(r)
    <3>1. now[s] <= heap[e].openedAt /\ now[r] >= heap[e].openedAt + Cooldown
      BY <2>1 DEF IInv, CalledBeforeOpening, CooledDown
    <3>2. clock < now[s] + Cooldown /\ now[r] <= clock
      BY DEF IInv, NoneLate, InFlight
    <3>3. heap[e].openedAt \in Nat /\ clock \in Nat /\ now[s] \in Nat /\ Cooldown \in Nat
      BY <1>1, BreakerAssumption DEF Fields, IInv, TypeOK
    <3> HIDE DEF e
    <3> QED BY <1>1, <3>1, <3>2, <3>3
  <2>2. CASE FreeToProbe(r)
    BY <2>2 DEF IInv, ProbeCounts, FreeToProbe
  <2> QED BY <1>1, <2>1, <2>2
<1> HIDE DEF e, f
<1>4. TypeOK'
  BY <1>1, <1>2 DEF IInv, TypeOK, Phase, runVars
<1>5. EntryHeld'
  BY <1>1 DEF IInv, TypeOK, EntryHeld, InFlight, e
<1>6. InFlight(r)' /\ entry'[r] = e /\ \A s \in Request \ {r} : InFlight(s)' <=> InFlight(s)
  BY <1>1 DEF IInv, TypeOK, InFlight, e
<1>7. heap'[e] = f /\ \A d \in Entry \ {e} : heap'[d] = heap[d]
  BY <1>1 DEF IInv, TypeOK
<1>8. NoStuckProbe'
  <2> SUFFICES ASSUME NEW d \in Entry, heap'[d].probe
               PROVE  /\ heap'[d].state = "half-open"
                      /\ \E s \in Request : entry'[s] = d /\ InFlight(s)'
    BY DEF NoStuckProbe
  <2>1. CASE d = e
    BY <1>2, <1>6, <1>7, <2>1
  <2>2. CASE d # e
    <3>1. /\ heap'[d].state = "half-open"
          /\ \E s \in Request : entry[s] = d /\ InFlight(s)
      BY <1>7, <2>2 DEF IInv, NoStuckProbe
    <3>2. PICK s \in Request : entry[s] = d /\ InFlight(s)
      BY <3>1
    <3>3. s # r
      BY <1>1, <3>2 DEF InFlight
    <3> QED BY <1>1, <1>6, <3>1, <3>2, <3>3
  <2> QED BY <2>1, <2>2
<1>9. CalledBeforeOpening'
  <2> SUFFICES ASSUME NEW s \in Request, InFlight(s)', heap'[entry[s]].state = "open"
               PROVE  now[s] <= heap'[entry[s]].openedAt
    BY <1>1 DEF CalledBeforeOpening, runVars
  <2>1. entry[s] # e
    BY <1>2, <1>7
  <2>2. s # r /\ InFlight(s) /\ entry[s] \in Entry
    BY <1>6, <2>1 DEF e, IInv, EntryHeld
  <2> QED BY <1>7, <2>1, <2>2 DEF IInv, CalledBeforeOpening
<1>10. ProbeCounts'
  <2> SUFFICES ASSUME ~late, NEW p \in Request, NEW s \in Request,
                      InFlight(p)', heap'[entry[p]].state = "half-open"
               PROVE  /\ heap'[entry[p]].probe
                      /\ InFlight(s)' /\ entry[s] = entry[p] => s = p
    BY <1>1 DEF ProbeCounts, runVars
  <2>1. CASE entry[p] = e
    BY <1>2, <1>3, <1>6, <1>7, <2>1
  <2>2. CASE entry[p] # e
    <3>1. p # r /\ InFlight(p) /\ entry[p] \in Entry /\ heap'[entry[p]] = heap[entry[p]]
      BY <1>6, <1>7, <2>2 DEF e, IInv, EntryHeld
    <3>2. InFlight(s)' /\ entry[s] = entry[p] => InFlight(s)
      BY <1>6, <2>2 DEF e
    <3> QED BY <3>1, <3>2 DEF IInv, ProbeCounts
  <2> QED BY <2>1, <2>2
<1>11. NoneLate' /\ \A s \in Request : now'[s] <= clock'
  BY <1>1 DEF IInv, TypeOK, NoneLate, runVars
<1> QED BY <1>4, <1>5, <1>8, <1>9, <1>10, <1>11 DEF IInv

\* What an answer makes of an entry: the flag goes only with the half-open
\* state, and an open entry was open or opened now.
LEMMA AnswerFacts ==
  ASSUME IInv, NEW e \in Entry,
         NEW f \in {AfterSuccess(heap[e]), AfterFailure(heap[e])}
  PROVE  /\ f \in Fields
         /\ f.probe => heap[e].probe /\ f.state = "half-open"
         /\ f.state = "half-open" => heap[e].state = "half-open" /\ f.probe = heap[e].probe
         /\ f.state = "open" =>
              \/ f.openedAt = clock
              \/ heap[e].state = "open" /\ f.openedAt = heap[e].openedAt
<1>1. /\ heap[e] \in Fields /\ clock \in Nat
      /\ heap[e].probe => heap[e].state = "half-open"
  BY DEF IInv, TypeOK, NoStuckProbe
<1>2. CASE f = AfterSuccess(heap[e])
  <2>1. CASE heap[e].state = "half-open" /\ heap[e].successes + 1 >= SuccessThreshold
    BY <1>1, <1>2, <2>1 DEF AfterSuccess, Closed, Fields, Stamp
  <2>2. CASE heap[e].state = "half-open" /\ ~(heap[e].successes + 1 >= SuccessThreshold)
    BY <1>1, <1>2, <2>2 DEF AfterSuccess, Fields
  <2>3. CASE heap[e].state # "half-open"
    BY <1>1, <1>2, <2>3 DEF AfterSuccess, Fields
  <2> QED BY <2>1, <2>2, <2>3
<1>3. CASE f = AfterFailure(heap[e])
  BY <1>1, <1>3, BreakerAssumption DEF AfterFailure, Opened, Fields, Stamp
<1> QED BY <1>2, <1>3

LEMMA SettlesIInv ==
  ASSUME IInv, NEW r \in Request, Succeed(r) \/ Fail(r)
  PROVE  IInv'
<1> DEFINE e == entry[r]
<1>1. PICK f \in {AfterSuccess(heap[e]), AfterFailure(heap[e])} : Settles(r, f)
  BY DEF Succeed, Fail
<1>2. /\ e \in Entry /\ InFlight(r) /\ keyOf[r] \in Key
      /\ phase' = [phase EXCEPT ![r] = "settled"]
      /\ heap' = [heap EXCEPT ![e] = f] /\ Set(keyOf[r], e)
      /\ UNCHANGED <<clock, entry, runVars>>
  BY <1>1 DEF IInv, TypeOK, EntryHeld, InFlight, Settles, Moves
<1>3. /\ f \in Fields
      /\ f.probe => heap[e].probe /\ f.state = "half-open"
      /\ f.state = "half-open" => heap[e].state = "half-open" /\ f.probe = heap[e].probe
      /\ f.state = "open" =>
           \/ f.openedAt = clock
           \/ heap[e].state = "open" /\ f.openedAt = heap[e].openedAt
  BY <1>2, AnswerFacts
<1> HIDE DEF e
<1>4. \A s \in Request : InFlight(s)' <=> InFlight(s)
  BY <1>2 DEF IInv, TypeOK, InFlight
<1>5. heap'[e] = f /\ \A d \in Entry \ {e} : heap'[d] = heap[d]
  BY <1>2 DEF IInv, TypeOK
<1>6. TypeOK'
  <2>1. order' \in Seq(Key) /\ map' \in [Key -> Entry \cup {NoEntry}]
    BY <1>2, MapTypes DEF IInv, TypeOK, Set
  <2> QED BY <1>2, <1>3, <2>1 DEF IInv, TypeOK, Phase, runVars
<1>7. EntryHeld'
  BY <1>2, <1>4 DEF IInv, TypeOK, EntryHeld
<1>8. NoStuckProbe'
  BY <1>2, <1>3, <1>4, <1>5 DEF IInv, NoStuckProbe, e
<1>9. CalledBeforeOpening'
  <2> SUFFICES ASSUME NEW s \in Request, InFlight(s), heap'[entry[s]].state = "open"
               PROVE  now[s] <= heap'[entry[s]].openedAt
    BY <1>2, <1>4 DEF CalledBeforeOpening, runVars
  <2>1. entry[s] \in Entry
    BY DEF IInv, EntryHeld
  <2> QED BY <1>3, <1>5, <2>1 DEF IInv, CalledBeforeOpening
<1>10. ProbeCounts'
  <2> SUFFICES ASSUME ~late, NEW p \in Request, NEW s \in Request,
                      InFlight(p), heap'[entry[p]].state = "half-open"
               PROVE  /\ heap'[entry[p]].probe
                      /\ InFlight(s) /\ entry[s] = entry[p] => s = p
    BY <1>2, <1>4 DEF ProbeCounts, runVars
  <2>1. entry[p] \in Entry
    BY DEF IInv, EntryHeld
  <2> QED BY <1>3, <1>5, <2>1 DEF IInv, ProbeCounts
<1>11. NoneLate' /\ \A s \in Request : now'[s] <= clock'
  <2>1. \A s \in Request : phase'[s] # "idle" => phase[s] # "idle"
    BY <1>2 DEF IInv, TypeOK, InFlight
  <2>2. NoneLate /\ UNCHANGED <<clock, now, late>> /\ \A s \in Request : now[s] <= clock
    BY <1>2 DEF IInv, runVars
  <2> QED BY <2>1, <2>2 DEF NoneLate
<1> QED BY <1>6, <1>7, <1>8, <1>9, <1>10, <1>11 DEF IInv

\* The finally block: the one request in flight on a half-open circuit takes
\* its flag away.
LEMMA LeavesIInv ==
  ASSUME IInv, NEW r \in Request, Finally(r) \/ Ignored(r)
  PROVE  IInv'
<1> DEFINE e == entry[r]
           f == AfterFinally(heap[e])
<1>1. /\ e \in Entry /\ InFlight(r) /\ keyOf[r] \in Key /\ clock \in Nat
      /\ phase' = [phase EXCEPT ![r] = "idle"]
      /\ heap' = [heap EXCEPT ![e] = f] /\ Reinsert(keyOf[r], e)
      /\ entry' = [entry EXCEPT ![r] = NoEntry] /\ now' = [now EXCEPT ![r] = 0]
      /\ UNCHANGED <<clock, keyOf, toEvict, late>>
  BY DEF IInv, TypeOK, EntryHeld, InFlight, Finally, Ignored, Leaves, Moves, Over
<1>2. f \in Fields /\ ~f.probe /\ f.state = heap[e].state /\ f.openedAt = heap[e].openedAt
  <2>1. heap[e] \in Fields /\ (heap[e].probe => heap[e].state = "half-open")
    BY <1>1 DEF IInv, TypeOK, NoStuckProbe
  <2>2. CASE heap[e].state = "half-open"
    BY <1>1, <2>1, <2>2 DEF Fields, AfterFinally, Touched, Stamp
  <2>3. CASE heap[e].state # "half-open"
    BY <1>1, <2>1, <2>3 DEF Fields, AfterFinally, Touched, Stamp
  <2> QED BY <2>2, <2>3
<1> HIDE DEF e, f
<1>3. /\ \A s \in Request \ {r} : /\ InFlight(s)' <=> InFlight(s)
                                  /\ entry'[s] = entry[s] /\ now'[s] = now[s]
                                  /\ phase'[s] = phase[s]
      /\ ~InFlight(r)' /\ phase'[r] = "idle" /\ now'[r] = 0 /\ entry'[r] = NoEntry
  BY <1>1 DEF IInv, TypeOK, InFlight
<1>4. heap'[e] = f /\ \A d \in Entry \ {e} : heap'[d] = heap[d]
  BY <1>1 DEF IInv, TypeOK
<1>5. TypeOK'
  <2>1. order' \in Seq(Key) /\ map' \in [Key -> Entry \cup {NoEntry}]
    BY <1>1, MapTypes DEF IInv, Reinsert
  <2> QED BY <1>1, <1>2, <2>1 DEF IInv, TypeOK, Phase
<1>6. EntryHeld'
  BY <1>3 DEF IInv, TypeOK, EntryHeld
<1>7. NoStuckProbe'
  <2> SUFFICES ASSUME NEW d \in Entry, heap'[d].probe
               PROVE  /\ heap'[d].state = "half-open"
                      /\ \E s \in Request : entry'[s] = d /\ InFlight(s)'
    BY DEF NoStuckProbe
  <2>1. d # e /\ heap'[d] = heap[d]
    BY <1>2, <1>4
  <2> QED BY <1>3, <2>1 DEF IInv, NoStuckProbe, e
<1>8. CalledBeforeOpening'
  <2> SUFFICES ASSUME NEW s \in Request, InFlight(s)', heap'[entry'[s]].state = "open"
               PROVE  now'[s] <= heap'[entry'[s]].openedAt
    BY DEF CalledBeforeOpening
  <2>1. s # r /\ InFlight(s) /\ entry'[s] = entry[s] /\ now'[s] = now[s]
    BY <1>3
  <2>2. entry[s] \in Entry
    BY <2>1 DEF IInv, EntryHeld
  <2> QED BY <1>2, <1>4, <2>1, <2>2 DEF IInv, CalledBeforeOpening
<1>9. ProbeCounts'
  <2> SUFFICES ASSUME ~late, NEW p \in Request, NEW s \in Request,
                      InFlight(p)', heap'[entry'[p]].state = "half-open"
               PROVE  /\ heap'[entry'[p]].probe
                      /\ InFlight(s)' /\ entry'[s] = entry'[p] => s = p
    BY <1>1 DEF ProbeCounts
  <2>1. p # r /\ InFlight(p) /\ entry'[p] = entry[p]
    BY <1>3
  <2>2. entry[p] \in Entry
    BY <2>1 DEF IInv, EntryHeld
  <2>3. entry[p] # e
    BY <1>1, <1>2, <1>4, <2>1, <2>2 DEF IInv, ProbeCounts, e
  <2> QED BY <1>3, <1>4, <2>1, <2>2, <2>3 DEF IInv, ProbeCounts
<1>10. NoneLate'
  <2>1. NoneLate /\ clock' = clock /\ late' = late
    BY <1>1 DEF IInv
  <2> QED BY <1>3, <2>1 DEF NoneLate
<1>11. \A s \in Request : now'[s] <= clock'
  BY <1>1, <1>3 DEF IInv
<1> QED BY <1>5, <1>6, <1>7, <1>8, <1>9, <1>10, <1>11 DEF IInv

LEMMA TickIInv ==
  ASSUME IInv, Tick
  PROVE  IInv'
<1> USE DEF IInv, Tick
<1>1. TypeOK'
  BY DEF TypeOK
<1>2. \A r \in Request : InFlight(r)' <=> InFlight(r)
  BY DEF InFlight
<1>3. NoneLate'
  <2> SUFFICES ASSUME ~late'
               PROVE  Cooldown > 0 /\ \A r \in Request :
                        phase[r] # "idle" => clock' < now[r] + Cooldown
    BY DEF NoneLate
  <2>1. ~late /\ ~ \E r \in Request : phase[r] # "idle" /\ clock' >= now[r] + Cooldown
    BY Zenon
  <2> QED BY <1>1, <2>1, BreakerAssumption DEF NoneLate, TypeOK
<1>4. late => late'
  BY Zenon
<1>5. NoStuckProbe' /\ CalledBeforeOpening' /\ ProbeCounts'
  <2>1. UNCHANGED <<heap, entry, now>>
    OBVIOUS
  <2> HIDE DEF Tick
  <2> QED BY <1>1, <1>2, <1>4, <2>1, CircuitsUnchanged
<1>6. EntryHeld'
  BY <1>2 DEF EntryHeld
<1>7. \A r \in Request : now'[r] <= clock'
  BY DEF TypeOK
<1> QED BY <1>1, <1>3, <1>5, <1>6, <1>7

LEMMA NextIInv == IInv /\ [Next]_vars => IInv'
<1> SUFFICES ASSUME IInv, [Next]_vars PROVE IInv'
  OBVIOUS
<1>1. ASSUME NEW r \in Request, NEW k \in Key, Call(r, k) \/ Prune(r, k)
      PROVE  IInv'
  BY <1>1, CallIInv, DeleteIInv DEF Prune, runVars
<1>2. ASSUME NEW r \in Request, Proceed(r)
      PROVE  IInv'
  <2>1. ASSUME NEW k \in Key, Prune(r, k) PROVE IInv'
    BY <1>1, <2>1
  <2> QED BY <1>2, <2>1, GetIInv, TouchIInv, CreateIInv, EvictingIInv, AdmitClosedIInv,
             AdmitProbeIInv, RejectIInv, LeavesIInv DEF Proceed
<1>3. ASSUME NEW r \in Request, Answer(r)
      PROVE  IInv'
  BY <1>3, SettlesIInv, LeavesIInv DEF Answer
<1>4. ASSUME NEW k \in Key, ResetKey(k) \/ SnapshotPrunes(k)
      PROVE  IInv'
  BY <1>4, DeleteIInv DEF ResetKey, SnapshotPrunes, runVars
<1>5. CASE ResetAll
  <2>1. order' \in Seq(Key) /\ map' \in [Key -> Entry \cup {NoEntry}]
    BY <1>5, EmptySeq DEF ResetAll
  <2> QED BY <1>5, <2>1, DeletingIInv DEF ResetAll, runVars
<1>6. CASE UNCHANGED vars
  BY <1>6, DeletingIInv DEF vars, IInv, TypeOK
<1> QED BY <1>1, <1>2, <1>3, <1>4, <1>5, <1>6, TickIInv DEF Next

-----------------------------------------------------------------------------
(* The theorems. *)

\* The strengthening holds of every reachable state.
THEOREM InductiveInvariant == Spec => []IInv
<1> QED BY InitIInv, NextIInv, PTL DEF Spec

\* Late answers, evictions and resets leave no circuit with a flag that
\* nobody clears, and no probe has company before a request outlives the
\* cooldown: for any thresholds, cooldown, capacity and number of requests.
THEOREM CircuitIsSafe == Spec => []Safety
<1>1. IInv => Safety
  <2> SUFFICES ASSUME IInv PROVE Safety
    OBVIOUS
  <2>1. ProbeAlone
    BY DEF IInv, ProbeCounts, ProbeAlone, InFlight
  <2> QED BY <2>1 DEF IInv, Safety
<1> QED BY <1>1, InductiveInvariant, PTL

\* Only a request called after the cooldown takes a circuit out of open, and
\* it takes it to half-open.
THEOREM CooldownIsKept == Spec => CooldownKept
<1> DEFINE Kept ==
      \A e \in Entry :
        InUse(e) /\ heap[e].state = "open" /\ heap'[e].state # "open" =>
          /\ heap'[e].state = "half-open"
          /\ clock >= heap[e].openedAt + Cooldown
<1>1. ASSUME IInv, Next PROVE Kept
  <2> SUFFICES ASSUME NEW e \in Entry, InUse(e), heap[e].state = "open",
                      heap'[e].state # "open"
               PROVE  /\ heap'[e].state = "half-open"
                      /\ clock >= heap[e].openedAt + Cooldown
    OBVIOUS
  <2>1. PICK r \in Request : Proceed(r) \/ Answer(r)
    BY <1>1 DEF Next, Call, ResetKey, SnapshotPrunes, ResetAll, Tick, runVars
  <2>2. CASE AdmitProbe(r)
    <3>1. entry[r] = e /\ CooledDown(r)
      BY <1>1, <2>2 DEF IInv, TypeOK, EntryHeld, AdmitProbe, Moves, FreeToProbe
    <3>2. heap'[e] = Probing(heap[e], now[r])
      BY <2>2, <3>1, <1>1 DEF IInv, TypeOK, AdmitProbe
    <3>3. now[r] >= heap[e].openedAt + Cooldown /\ now[r] <= clock
      BY <1>1, <3>1 DEF IInv, CooledDown
    <3>4. heap[e].openedAt \in Nat /\ clock \in Nat /\ now[r] \in Nat /\ Cooldown \in Nat
      BY <1>1, BreakerAssumption DEF Fields, IInv, TypeOK
    <3> QED BY <3>2, <3>3, <3>4 DEF Probing
  <2>3. CASE Found(r) \/ Touch(r)
    <3>1. /\ heap \in [Entry -> Fields] /\ entry[r] \in Entry
          /\ heap' = [heap EXCEPT ![entry[r]] = Touched(@, now[r])]
      BY <1>1, <2>3 DEF IInv, TypeOK, EntryHeld, Found, Touch, Moves
    <3>2. Touched(heap[e], now[r]).state = heap[e].state
      BY <3>1 DEF Touched, Fields
    <3> QED BY <3>1, <3>2
  <2>4. CASE NotFound(r) \/ Evicted(r)
    <3>1. entry[r] = NoEntry
      BY <1>1, <2>4 DEF IInv, EntryHeld, NotFound, Evicted, Moves
    <3>2. NewEntry # e
      BY <1>1, <3>1, NewEntryFree DEF IInv
    <3> QED BY <1>1, <2>4, <3>2 DEF NotFound, Evicted, Create, IInv, TypeOK
  <2>5. CASE Succeed(r) \/ Fail(r)
    <3>1. entry[r] \in Entry
      BY <1>1, <2>5 DEF IInv, EntryHeld, InFlight, Succeed, Fail, Settles, Moves
    <3>2. heap' = [heap EXCEPT ![entry[r]] = AfterSuccess(heap[entry[r]])]
          \/ heap' = [heap EXCEPT ![entry[r]] = AfterFailure(heap[entry[r]])]
      BY <2>5 DEF Succeed, Fail, Settles
    <3>3. heap \in [Entry -> Fields] /\ heap'[e] # heap[e]
      BY <1>1 DEF IInv, TypeOK
    <3>4. entry[r] = e
      BY <3>1, <3>2, <3>3
    <3>5. heap'[e] = AfterSuccess(heap[e]) \/ heap'[e] = AfterFailure(heap[e])
      BY <3>2, <3>3, <3>4
    <3> QED BY <3>3, <3>5
            DEF AfterSuccess, AfterFailure, Opened, Fields
  <2>6. CASE Finally(r) \/ Ignored(r)
    <3>1. /\ heap \in [Entry -> Fields] /\ entry[r] \in Entry
          /\ heap' = [heap EXCEPT ![entry[r]] = AfterFinally(@)]
      BY <1>1, <2>6 DEF IInv, TypeOK, EntryHeld, InFlight, Finally, Ignored, Leaves, Moves
    <3>2. AfterFinally(heap[e]).state = heap[e].state
      BY <3>1 DEF AfterFinally, Touched, Fields
    <3> QED BY <3>1, <3>2
  <2> QED BY <2>1, <2>2, <2>3, <2>4, <2>5, <2>6
          DEF Proceed, Answer, Prune, Get, StartEviction, EvictOldest, AdmitClosed,
              Reject, runVars
<1>2. ASSUME UNCHANGED vars PROVE Kept
  BY <1>2 DEF vars
<1>3. IInv /\ [Next]_vars => [Kept]_vars
  BY <1>1, <1>2
<1> QED BY <1>3, InductiveInvariant, PTL DEF Spec, CooldownKept
=============================================================================
