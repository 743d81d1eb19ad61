------------------------- MODULE OfflineQueueProofs -------------------------
(* The offline queue neither loses nor repeats a mutation and keeps their   *)
(* order, for any number of mutations and tabs, any limits and whatever     *)
(* disturbs it, with ids that never repeat and with the lock.               *)
EXTENDS OfflineQueue, FiniteSetTheorems, FunctionTheorems, TLAPS

-----------------------------------------------------------------------------
(* The order of a replay. *)

LEMMA ReplayOrder ==
  ASSUME NEW S, IsFiniteSet(S), NEW s \in ReplayOrders(S)
  PROVE  /\ s \in Seq(S) /\ ToSet(s) = S
         /\ \A m, n \in 1 .. Len(s) :
              /\ s[m] = s[n] => m = n
              /\ m < n => ~Before(s[n], s[m])
<1> DEFINE c == Cardinality(S)
<1>1. c \in Nat /\ IsFiniteSet(1 .. c) /\ Cardinality(1 .. c) = c
  BY FS_CardinalityType, FS_Interval
<1>2. /\ s \in SetToSeqs(S)
      /\ \A m, n \in 1 .. Len(s) : m < n => ~Before(s[n], s[m])
  BY DEF ReplayOrders
<1> HIDE DEF c
<1>3. s \in [1 .. c -> S] /\ \A m, n \in 1 .. c : m # n => s[m] # s[n]
  BY <1>2 DEF SetToSeqs, c
<1>4. s \in Seq(S) /\ Len(s) = c
  BY <1>1, <1>3
<1>5. \A i \in S : \E n \in 1 .. c : s[n] = i
  <2>1. s \in Injection(1 .. c, S)
    BY <1>3 DEF Injection, IsInjective
  <2>2. s \in Surjection(1 .. c, S)
    BY <2>1, <1>1, FS_Injection DEF c
  <2> QED BY <2>2 DEF Surjection
<1>6. ToSet(s) = S
  BY <1>3, <1>4, <1>5 DEF ToSet
<1> QED BY <1>2, <1>3, <1>4, <1>6

-----------------------------------------------------------------------------
(* Sequences, sets and types. *)

LEMMA ItemFields == Item = [id : Nat, op : Op, at : Nat]
BY DEF Item

LEMMA OpFinite ==
  \A S \in SUBSET Op : IsFiniteSet(S) /\ Cardinality(S) \in Nat
<1>1. IsFiniteSet(Op)
  BY QueueAssumption, FS_Interval DEF Op
<1> QED BY <1>1, FS_Subset, FS_CardinalityType

LEMMA OptionTypes ==
  ASSUME options \in Options
  PROVE  /\ options.concurrency \in Nat \ {0} /\ options.maxQueueSize \in Nat
         /\ options.calls \in 0 .. MaxOp /\ options.instants \subseteq Nat
BY QueueAssumption

LEMMA AppendFacts ==
  ASSUME NEW T, NEW s \in Seq(T), NEW x \in T
  PROVE  /\ Append(s, x) \in Seq(T) /\ Len(Append(s, x)) = Len(s) + 1
         /\ ToSet(Append(s, x)) = ToSet(s) \cup {x}
         /\ \A n \in 1 .. Len(s) : Append(s, x)[n] = s[n]
         /\ Append(s, x)[Len(s) + 1] = x
<1>1. /\ Append(s, x) \in Seq(T) /\ Len(Append(s, x)) = Len(s) + 1
      /\ \A n \in 1 .. Len(s) : Append(s, x)[n] = s[n]
      /\ Append(s, x)[Len(s) + 1] = x
  OBVIOUS
<1>2. DOMAIN Append(s, x) = 1 .. Len(s) + 1 /\ DOMAIN s = 1 .. Len(s)
  BY <1>1
<1>3. ASSUME NEW y PROVE y \in ToSet(Append(s, x)) <=> y \in ToSet(s) \cup {x}
  BY <1>1, <1>2 DEF ToSet
<1> QED BY <1>1, <1>3

LEMMA ToSetFacts ==
  ASSUME NEW T, NEW s \in Seq(T)
  PROVE  /\ ToSet(s) \subseteq T
         /\ \A n \in 1 .. Len(s) : s[n] \in ToSet(s)
         /\ \A x \in ToSet(s) : \E n \in 1 .. Len(s) : s[n] = x
BY DEF ToSet

LEMMA MinFacts ==
  ASSUME NEW a \in Nat \ {0}, NEW b \in Nat
  PROVE  /\ Min({a, b}) \in Nat /\ Min({a, b}) <= b
         /\ a = 1 /\ b # 0 => Min({a, b}) = 1
<1> DEFINE S == {a, b}
<1>1. \E m \in S : \A n \in S : m <= n
  OBVIOUS
<1>2. Min(S) \in S /\ \A n \in S : Min(S) <= n
  BY <1>1 DEF Min
<1> QED BY <1>2

\* What a flush takes from the front of what it has still to replay.
LEMMA FrontFacts ==
  ASSUME NEW T, NEW s \in Seq(T), NEW n \in Nat, n <= Len(s)
  PROVE  LET front == {s[j] : j \in 1 .. n}
             back == SubSeq(s, n + 1, Len(s))
         IN  /\ back \in Seq(T) /\ Len(back) = Len(s) - n
             /\ \A j \in 1 .. Len(s) - n : back[j] = s[j + n]
             /\ front \subseteq ToSet(s) /\ ToSet(back) \subseteq ToSet(s)
             /\ ToSet(s) = front \cup ToSet(back)
             /\ (\A j, k \in 1 .. Len(s) : s[j] = s[k] => j = k)
                => /\ front \cap ToSet(back) = {}
                   /\ \A j, k \in 1 .. Len(back) : back[j] = back[k] => j = k
<1> DEFINE front == {s[j] : j \in 1 .. n}
           back == SubSeq(s, n + 1, Len(s))
<1>1. Len(s) \in Nat /\ \A j \in 1 .. Len(s) : s[j] \in T
  OBVIOUS
<1>2. back \in Seq(T) /\ Len(back) = Len(s) - n
  BY <1>1
<1>3. \A j \in 1 .. Len(s) - n : back[j] = s[j + n]
  BY <1>1
<1> HIDE DEF back
<1>4. \A x : x \in ToSet(s) <=> \E j \in 1 .. Len(s) : s[j] = x
  BY DEF ToSet
<1>5. \A x : x \in ToSet(back) <=> \E j \in 1 .. Len(s) - n : back[j] = x
  BY <1>2 DEF ToSet
<1>6. \A x : x \in ToSet(back) <=> \E j \in n + 1 .. Len(s) : s[j] = x
  <2>1. ASSUME NEW j \in n + 1 .. Len(s) PROVE s[j] \in ToSet(back)
    <3>1. j - n \in 1 .. Len(s) - n /\ (j - n) + n = j
      BY <1>1
    <3> QED BY <3>1, <1>3, <1>5
  <2>2. ASSUME NEW j \in 1 .. Len(s) - n PROVE \E k \in n + 1 .. Len(s) : s[k] = back[j]
    <3>1. j + n \in n + 1 .. Len(s)
      BY <1>1
    <3> QED BY <3>1, <1>3
  <2> QED BY <2>1, <2>2, <1>5
<1>7. front \subseteq ToSet(s) /\ ToSet(back) \subseteq ToSet(s)
  BY <1>1, <1>4, <1>6
<1>8. ToSet(s) \subseteq front \cup ToSet(back)
  <2> SUFFICES ASSUME NEW j \in 1 .. Len(s) PROVE s[j] \in front \cup ToSet(back)
    BY <1>4
  <2>1. j \in 1 .. n \/ j \in n + 1 .. Len(s)
    BY <1>1
  <2> QED BY <2>1, <1>6
<1>9. ASSUME \A j, k \in 1 .. Len(s) : s[j] = s[k] => j = k
      PROVE  /\ front \cap ToSet(back) = {}
             /\ \A j, k \in 1 .. Len(back) : back[j] = back[k] => j = k
  <2>1. \A j \in 1 .. n, k \in n + 1 .. Len(s) : s[j] # s[k]
    BY <1>1, <1>9
  <2>2. front \cap ToSet(back) = {}
    BY <2>1, <1>6
  <2>3. ASSUME NEW j \in 1 .. Len(s) - n, NEW k \in 1 .. Len(s) - n, back[j] = back[k]
        PROVE  j = k
    <3>1. j + n \in 1 .. Len(s) /\ k + n \in 1 .. Len(s)
      BY <1>1
    <3>2. s[j + n] = s[k + n]
      BY <1>3, <2>3
    <3>3. j + n = k + n
      BY <3>1, <3>2, <1>9
    <3> QED BY <3>3
  <2> QED BY <2>2, <2>3, <1>2
<1> QED BY <1>2, <1>3, <1>7, <1>8, <1>9 DEF back

-----------------------------------------------------------------------------
(* What every step leaves as it was. *)

\* A mutation that has passed stays so while nothing is added for it.
LEMMA PassedStays ==
  ASSUME NEW p \in Op, Passed(p), item'[p] = item[p],
         ToSet(log) \subseteq ToSet(log)', expired \subseteq expired',
         item[p] \in store' => item[p] \in store,
         \A t \in Tab : ToReplay(p, t)' => ToReplay(p, t)
  PROVE  Passed(p)'
BY DEF Passed

\* The order of the replays does not depend on what is only queued.
LEMMA OrderStays ==
  ASSUME IInv, UNCHANGED <<log, rest, batch, options>>,
         \A p \in accepted : item'[p] = item[p] /\ earlier'[p] = earlier[p],
         doubtful \subseteq doubtful', expired \subseteq expired',
         \A p \in accepted : item[p] \in store' => item[p] \in store
  PROVE  OrderSound'
<1> SUFFICES ASSUME options.concurrency = 1 PROVE OrderSound'
  BY DEF OrderSound
<1>1. \A p \in accepted : Passed(p) => Passed(p)'
  <2> SUFFICES ASSUME NEW p \in accepted, Passed(p) PROVE Passed(p)'
    OBVIOUS
  <2>1. p \in Op
    BY DEF IInv, TypeOK
  <2>2. \A t \in Tab : ToReplay(p, t)' => ToReplay(p, t)
    BY DEF ToReplay
  <2> QED BY <2>1, <2>2, PassedStays
<1>2. \A o \in accepted : Predecessors(o)' \subseteq Predecessors(o)
                          /\ Predecessors(o) \subseteq accepted
  BY DEF IInv, TypeOK, CallsSound, Predecessors
<1>3. ToSet(log) \subseteq accepted
  BY DEF IInv, ReplayedSound
<1>4. \A t \in Tab : /\ \A i \in batch[t] : i.op \in accepted
                     /\ \A n \in 1 .. Len(rest[t]) : rest[t][n].op \in accepted
  BY ToSetFacts DEF IInv, TypeOK, ItemsSound, Known
<1>5. OneByOne
  BY DEF IInv, OrderSound
<1> HIDE DEF Passed, Predecessors
<1> QED BY <1>1, <1>2, <1>3, <1>4, <1>5 DEF OneByOne, OrderSound

-----------------------------------------------------------------------------
(* Every step. *)

LEMMA CheckIInv ==
  ASSUME UniqueIds, Locked, IInv, NEW o \in Op, Check(o)
  PROVE  IInv'
<1> USE DEF callVars, flushVars, envVars, vars
<1>0. PICK at \in options.instants :
        item' = [item EXCEPT ![o] = [id |-> o, op |-> o, at |-> at]]
  BY DEF Check
<1>1. TypeOK'
  <2> DEFINE New == [id |-> o, op |-> o, at |-> at]
  <2>1. New \in Item
    BY OptionTypes, ItemFields DEF IInv, TypeOK, Op
  <2>2. item' = [item EXCEPT ![o] = New]
    BY <1>0
  <2> HIDE DEF New
  <2> QED BY <2>1, <2>2 DEF IInv, TypeOK, Check
<1>2. CallsSound'
  BY <1>0 DEF IInv, TypeOK, Check, CallsSound, Sent
<1>4. ItemsSound'
  <2>1. \A p \in accepted : item'[p] = item[p] /\ earlier'[p] = earlier[p]
    BY DEF IInv, TypeOK, CallsSound, Check

  <2> QED BY <2>1 DEF IInv, ItemsSound, Known, Check
<1>5. FlushSound'
  BY DEF IInv, TypeOK, Check, FlushSound
<1>6. ReplayedSound'
  <2>1. \A p \in accepted : item'[p] = item[p] /\ earlier'[p] = earlier[p]
    BY DEF IInv, TypeOK, CallsSound, Check

  <2> QED BY <2>1 DEF IInv, ReplayedSound, ToReplay, Check
<1>7. NothingLost'
  BY DEF IInv, TypeOK, Check, NothingLost, Stored
<1>8. ReplayedOnce'
  BY DEF IInv, TypeOK, Check, ReplayedOnce
<1>9. OrderSound'
  <2>1. \A p \in accepted : item'[p] = item[p] /\ earlier'[p] = earlier[p]
    BY DEF IInv, TypeOK, CallsSound, Check

  <2>2. \A p \in accepted : item[p] \in store' => item[p] \in store
    BY DEF Check
  <2> QED BY <2>1, <2>2, OrderStays DEF Check
<1>10. ReplayedInOrder'
  <2>1. \A p \in accepted : item'[p] = item[p] /\ earlier'[p] = earlier[p]
    BY DEF IInv, TypeOK, CallsSound, Check

  <2>2. \A n \in DOMAIN log : log[n] \in accepted
    BY DEF IInv, ReplayedSound, ToSet
  <2> QED BY <2>1, <2>2 DEF IInv, ReplayedInOrder, Check
<1> QED BY <1>1, <1>2, <1>4, <1>5, <1>6, <1>7, <1>8, <1>9, <1>10 DEF IInv

LEMMA RefuseIInv ==
  ASSUME UniqueIds, Locked, IInv, NEW o \in Op, Refuse(o)
  PROVE  IInv'
<1> USE DEF callVars, flushVars, envVars, vars
<1>1. TypeOK'
  BY DEF IInv, TypeOK, Refuse
<1>2. CallsSound'
  BY DEF IInv, TypeOK, Refuse, CallsSound, Sent
<1>4. ItemsSound'
  BY DEF IInv, TypeOK, Refuse, ItemsSound, Known
<1>5. FlushSound'
  BY DEF IInv, TypeOK, Refuse, FlushSound
<1>6. ReplayedSound'
  BY DEF IInv, TypeOK, Refuse, ReplayedSound, ToReplay
<1>7. NothingLost'
  BY DEF IInv, TypeOK, Refuse, NothingLost, Stored
<1>8. ReplayedOnce'
  BY DEF IInv, TypeOK, Refuse, ReplayedOnce
<1>9. OrderSound'
  BY DEF IInv, TypeOK, Refuse, OrderSound, OneByOne, Predecessors, Passed, ToReplay
<1>10. ReplayedInOrder'
  BY DEF IInv, TypeOK, Refuse, ReplayedInOrder
<1> QED BY <1>1, <1>2, <1>4, <1>5, <1>6, <1>7, <1>8, <1>9, <1>10 DEF IInv

LEMMA PushIInv ==
  ASSUME UniqueIds, Locked, IInv, NEW o \in Op, Push(o)
  PROVE  IInv'
<1> USE DEF callVars, flushVars, envVars, vars
<1>1. TypeOK'
  BY DEF IInv, TypeOK, Push, Accept, Removed
<1>2. CallsSound'
  BY DEF IInv, TypeOK, Push, Accept, Removed, CallsSound, Sent
<1>4. ItemsSound'
  <2>1. item[o].op = o
    BY DEF IInv, CallsSound, Sent, Push, Accept
  <2>2. \A j \in store' : j \in store \/ j = item[o]
    BY DEF Push, Accept, Removed
  <2>3. \A j \in store' : Known(j)'
    BY <2>1, <2>2 DEF IInv, ItemsSound, Known, Push, Accept
  <2> QED BY <2>3 DEF IInv, ItemsSound, Known, Push, Accept
<1>5. FlushSound'
  BY DEF IInv, TypeOK, Push, Accept, Removed, FlushSound
<1>6. ReplayedSound'
  <2>1. o \notin accepted /\ item[o].op = o
    BY DEF IInv, TypeOK, CallsSound, Sent, Push, Accept
  <2>2. \A p \in accepted : item[p].op = p /\ item[p].id = p
    BY DEF IInv, TypeOK, CallsSound, Sent

  <2>3. \A p \in accepted : item[p] \in store' => item[p] \in store
    BY <2>1, <2>2 DEF Push, Accept, Removed
  <2> QED BY <2>3 DEF IInv, ReplayedSound, ToReplay, Push, Accept
<1>7. NothingLost'
  <2>1. \A j \in store : j.id # item[o].id
    <3>1. item[o].id = o /\ o \notin accepted
      BY DEF IInv, TypeOK, CallsSound, Sent, Push, Accept
    <3>2. \A j \in store : j.op \in accepted /\ j = item[j.op] /\ item[j.op].id = j.op
      BY DEF IInv, TypeOK, CallsSound, ItemsSound, Known, Sent
    <3> QED BY <3>1, <3>2
  <2>2. store' = store \cup {item[o]} /\ item[o].op = o
    BY <2>1 DEF IInv, CallsSound, Sent, Push, Accept, Removed
  <2>3. Stored' = Stored \cup {o}
    BY <2>2 DEF Stored
  <2> QED BY <2>3 DEF IInv, NothingLost, Push, Accept
<1>8. ReplayedOnce'
  BY DEF IInv, TypeOK, Push, Accept, Removed, ReplayedOnce
<1>9. OrderSound'
  <2>1. o \notin accepted /\ item[o].op = o
    BY DEF IInv, TypeOK, CallsSound, Sent, Push, Accept
  <2>2. \A p \in accepted : item[p].op = p /\ item[p].id = p
    BY DEF IInv, TypeOK, CallsSound, Sent

  <2>3. \A p \in accepted : item[p] \in store' => item[p] \in store
    BY <2>1, <2>2 DEF Push, Accept, Removed
  <2> QED BY <2>3, OrderStays DEF Push, Accept
<1>10. ReplayedInOrder'
  BY DEF IInv, TypeOK, Push, Accept, Removed, ReplayedInOrder
<1> QED BY <1>1, <1>2, <1>4, <1>5, <1>6, <1>7, <1>8, <1>9, <1>10 DEF IInv

\* The queued mutation is lost with the transaction of its push().
LEMMA PushAbortsIInv ==
  ASSUME UniqueIds, Locked, IInv, NEW o \in Op, PushAborts(o)
  PROVE  IInv'
<1> USE DEF callVars, flushVars, envVars, vars, PushAborts, Accept
<1>1. TypeOK'
  BY DEF IInv, TypeOK
<1>2. CallsSound'
  BY DEF IInv, TypeOK, CallsSound, Sent
<1>4. ItemsSound'
  BY DEF IInv, ItemsSound, Known
<1>5. FlushSound'
  BY DEF IInv, FlushSound
<1>6. ReplayedSound'
  BY DEF IInv, ReplayedSound, ToReplay
<1>7. NothingLost'
  BY DEF IInv, NothingLost, Stored
<1>8. ReplayedOnce'
  BY DEF IInv, ReplayedOnce
<1>9. OrderSound'
  BY OrderStays
<1>10. ReplayedInOrder'
  BY DEF IInv, ReplayedInOrder
<1> QED BY <1>1, <1>2, <1>4, <1>5, <1>6, <1>7, <1>8, <1>9, <1>10 DEF IInv

LEMMA ExpireIInv ==
  ASSUME UniqueIds, Locked, IInv, NEW o \in Op, Expire(o)
  PROVE  IInv'
<1> USE DEF callVars, flushVars, envVars, vars
<1>1. TypeOK'
  BY DEF IInv, TypeOK, Expire, Stored
<1>2. CallsSound'
  BY DEF IInv, TypeOK, Expire, Stored, CallsSound, Sent
<1>4. ItemsSound'
  BY DEF IInv, TypeOK, Expire, Stored, ItemsSound, Known
<1>5. FlushSound'
  BY DEF IInv, TypeOK, Expire, Stored, FlushSound
<1>6. ReplayedSound'
  BY DEF IInv, TypeOK, Expire, Stored, ReplayedSound, ToReplay
<1>7. NothingLost'
  BY DEF IInv, TypeOK, Expire, Stored, NothingLost, Stored
<1>8. ReplayedOnce'
  BY DEF IInv, TypeOK, Expire, Stored, ReplayedOnce
<1>9. OrderSound'
  BY DEF IInv, TypeOK, Expire, Stored, OrderSound, OneByOne, Predecessors, Passed, ToReplay
<1>10. ReplayedInOrder'
  BY DEF IInv, TypeOK, Expire, Stored, ReplayedInOrder
<1> QED BY <1>1, <1>2, <1>4, <1>5, <1>6, <1>7, <1>8, <1>9, <1>10 DEF IInv

\* What is in the storage, ready to be replayed, in the order of the replay.
LEMMA StartFlushFacts ==
  ASSUME IInv, NEW t \in Tab, StartFlush(t)
  PROVE  /\ rest'[t] \in Seq(Item)
         /\ ToSet(rest'[t]) = {i \in store : i.op \notin expired}
         /\ ToSet(rest'[t]) \subseteq store
         /\ \A m, n \in 1 .. Len(rest'[t]) :
              /\ rest'[t][m] = rest'[t][n] => m = n
              /\ m < n => ~Before(rest'[t][n], rest'[t][m])
<1> DEFINE S == {i \in store : i.op \notin expired}
<1>1. S \subseteq Item
  BY DEF IInv, TypeOK
<1>2. \A i \in S : i.op \in Op /\ i = item[i.op] /\ Sent(i.op)
  BY <1>1, ItemFields DEF IInv, TypeOK, ItemsSound, Known, CallsSound, Sent
<1>4. IsFiniteSet(S)
  <2> DEFINE op == [i \in S |-> i.op]
  <2>1. op \in Injection(S, Op)
    BY <1>2 DEF Injection, IsInjective
  <2> QED BY <2>1, OpFinite, FS_Injection
<1>5. PICK s \in ReplayOrders(S) : rest' = [rest EXCEPT ![t] = s]
  BY DEF StartFlush
<1>6. /\ s \in Seq(S) /\ ToSet(s) = S
      /\ \A m, n \in 1 .. Len(s) :
           /\ s[m] = s[n] => m = n
           /\ m < n => ~Before(s[n], s[m])
  BY <1>4, ReplayOrder
<1>7. rest'[t] = s /\ s \in Seq(Item)
  BY <1>1, <1>5, <1>6 DEF IInv, TypeOK
<1> QED BY <1>6, <1>7

LEMMA StartFlushIInv ==
  ASSUME UniqueIds, Locked, IInv, NEW t \in Tab, StartFlush(t)
  PROVE  IInv'
<1> USE DEF callVars, flushVars, envVars, vars
<1>1. TypeOK'
  <2>1. rest'[t] \in Seq(Item) /\ DOMAIN rest' = Tab /\ \A u \in Tab \ {t} : rest'[u] = rest[u]
    BY StartFlushFacts DEF IInv, TypeOK, StartFlush
  <2>2. rest' \in [Tab -> Seq(Item)]
    BY <2>1 DEF IInv, TypeOK, StartFlush
  <2> QED BY <2>2 DEF IInv, TypeOK, StartFlush
<1>2. CallsSound'
  BY DEF IInv, TypeOK, StartFlush, MayFlush, CallsSound, Sent
<1>4. ItemsSound'
  <2>1. ToSet(rest'[t]) \subseteq store
    BY StartFlushFacts
  <2>2. \A u \in Tab \ {t} : rest'[u] = rest[u] /\ stale'[u] = stale[u]
    BY DEF IInv, TypeOK, StartFlush
  <2>3. stale'[t] = {j \in store : j.op \in expired}
    BY DEF IInv, TypeOK, StartFlush
  <2> QED BY <2>1, <2>2, <2>3 DEF IInv, ItemsSound, Known, StartFlush
<1>5. FlushSound'
  <2>1. \A m, n \in 1 .. Len(rest'[t]) : rest'[t][m] = rest'[t][n] => m = n
    BY StartFlushFacts
  <2>2. flushing = {} /\ batch[t] = {} /\ removing[t] = {}
    BY DEF IInv, FlushSound, StartFlush, MayFlush
  <2>3. \A u \in Tab \ {t} : rest'[u] = rest[u] /\ stale'[u] = stale[u]
    BY DEF IInv, TypeOK, StartFlush
  <2> QED BY <2>1, <2>2, <2>3 DEF IInv, FlushSound, StartFlush
<1>6. ReplayedSound'
  <2>1. \A u \in Tab : batch[u] = {} /\ removing[u] = {} /\ rest[u] = <<>>
    BY DEF IInv, FlushSound, StartFlush, MayFlush
  <2>2. \A p \in ToSet(log) \ doubtful : item[p] \notin store
    BY <2>1 DEF IInv, ReplayedSound
  <2>3. ToSet(rest'[t]) \subseteq store
    BY StartFlushFacts
  <2>4. ToSet(<<>>) = {}
    BY DEF ToSet
  <2>5. \A u \in Tab : ToSet(rest'[u]) \subseteq store /\ batch'[u] = {}
    BY <2>1, <2>3, <2>4 DEF IInv, TypeOK, StartFlush
  <2>6. UNCHANGED <<log, doubtful, accepted, item, store>>
    BY DEF StartFlush
  <2>7. \A p \in ToSet(log) \ doubtful : \A u \in Tab : ~ToReplay(p, u)'
    BY <2>2, <2>5, <2>6 DEF ToReplay
  <2> QED BY <2>2, <2>6, <2>7 DEF IInv, ReplayedSound
<1>7. NothingLost'
  BY DEF IInv, TypeOK, StartFlush, MayFlush, NothingLost, Stored
<1>8. ReplayedOnce'
  BY DEF IInv, TypeOK, StartFlush, MayFlush, ReplayedOnce
<1>9. OrderSound'
  <2> SUFFICES ASSUME options.concurrency = 1 PROVE OneByOne'
    BY DEF OrderSound, StartFlush
  <2>1. \A u \in Tab : batch[u] = {} /\ removing[u] = {} /\ rest[u] = <<>>
    BY DEF IInv, FlushSound, StartFlush, MayFlush
  <2>2. \A u \in Tab \ {t} : rest'[u] = rest[u]
    BY DEF IInv, TypeOK, StartFlush
  <2>3. \A p \in accepted : item[p] \in ToSet(rest'[t]) <=> item[p] \in store /\ p \notin expired
    <3>1. ToSet(rest'[t]) = {j \in store : j.op \notin expired}
      BY StartFlushFacts
    <3>2. \A p \in accepted : item[p].op = p
      BY DEF IInv, TypeOK, CallsSound, Sent
    <3> QED BY <3>1, <3>2
  <2>4. \A p \in accepted : Passed(p)' \/ item[p] \in ToSet(rest'[t])
    <3>1. ToSet(<<>>) = {}
      BY DEF ToSet
    <3>2. UNCHANGED <<store, item, expired, batch>>
      BY DEF StartFlush
    <3>3. ASSUME NEW p \in accepted, item[p] \notin ToSet(rest'[t])
          PROVE  \A u \in Tab : ~ToReplay(p, u)'
      BY <2>1, <2>2, <3>1, <3>2, <3>3 DEF ToReplay
    <3> QED BY <2>3, <3>2, <3>3 DEF Passed
  <2>5. \A p \in accepted : Passed(p) => Passed(p)'
    <3> SUFFICES ASSUME NEW p \in accepted, Passed(p) PROVE Passed(p)'
      OBVIOUS
    <3>1. CASE p \in ToSet(log)
      BY <3>1 DEF Passed, StartFlush
    <3>2. CASE p \notin ToSet(log)
      <4>1. item[p] \notin ToSet(rest'[t])
        BY <3>2, <2>3 DEF Passed
      <4> QED BY <2>4, <4>1
    <3> QED BY <3>1, <3>2
  <2>6. \A p \in Op : Predecessors(p)' = Predecessors(p)
    BY DEF Predecessors, StartFlush
  <2>7. \A p \in accepted : Predecessors(p) \subseteq accepted
    BY DEF IInv, TypeOK, CallsSound, Predecessors
  <2>8. \A p \in ToSet(log)' : \A q \in Predecessors(p)' : Passed(q)'
    BY <2>5, <2>6, <2>7 DEF IInv, TypeOK, ReplayedSound, OrderSound, OneByOne, StartFlush
  <2>9. ASSUME NEW n \in 1 .. Len(rest'[t]), NEW p \in Predecessors(rest'[t][n].op)
        PROVE  Passed(p)' \/ \E m \in 1 .. n - 1 : rest'[t][m] = item[p]
    <3> DEFINE x == rest'[t][n]
    <3>1. x \in store /\ x \in Item /\ x.op \in accepted /\ x = item[x.op]
      BY StartFlushFacts, ToSetFacts DEF IInv, TypeOK, ItemsSound, Known
    <3>2. p \in accepted /\ p \in Op /\ item[p].op = p /\ item[p].at < x.at
          /\ (p \in Urgent <=> x.op \in Urgent)
      BY <3>1 DEF IInv, TypeOK, CallsSound, Sent, Predecessors
    <3>3. CASE item[p] \in ToSet(rest'[t])
      <4>1. PICK m \in 1 .. Len(rest'[t]) : rest'[t][m] = item[p]
        BY <3>3, StartFlushFacts, ToSetFacts
      <4>2. n < m => ~Before(item[p], x)
        BY <4>1, StartFlushFacts
      <4>3. Before(item[p], x)
        BY <3>1, <3>2, ItemFields DEF Before, IInv, TypeOK
      <4>4. m # n
        BY <3>1, <3>2, <4>1, ItemFields
      <4>5. m \in 1 .. n - 1
        BY <4>2, <4>3, <4>4
      <4> QED BY <4>1, <4>5
    <3> QED BY <3>2, <3>3, <2>4
  <2>10. \A p : Predecessors(p)' = Predecessors(p)
    BY DEF Predecessors, StartFlush
  <2>11. \A u \in Tab : batch'[u] = {} /\ item' = item
    BY <2>1 DEF StartFlush, callVars
  <2>12. \A u \in Tab \ {t} : 1 .. Len(rest'[u]) = {}
    BY <2>1, <2>2
  <2>13. \A u \in Tab : \A n \in 1 .. Len(rest'[u]) : \A p \in Predecessors(rest[u][n].op)' :
           Passed(p)' \/ \E m \in 1 .. n - 1 : rest'[u][m] = item'[p]
    <3> SUFFICES ASSUME NEW u \in Tab, NEW n \in 1 .. Len(rest'[u]),
                        NEW p \in Predecessors(rest'[u][n].op)
                 PROVE  Passed(p)' \/ \E m \in 1 .. n - 1 : rest'[u][m] = item'[p]
      BY <2>10
    <3>1. u = t
      BY <2>12
    <3> QED BY <2>9, <2>11, <3>1
  <2> HIDE DEF Passed, Predecessors
  <2> QED BY <2>8, <2>11, <2>13 DEF OneByOne
<1>10. ReplayedInOrder'
  BY DEF IInv, TypeOK, StartFlush, MayFlush, ReplayedInOrder
<1> QED BY <1>1, <1>2, <1>4, <1>5, <1>6, <1>7, <1>8, <1>9, <1>10 DEF IInv

LEMMA RemoveExpiredIInv ==
  ASSUME UniqueIds, Locked, IInv, NEW t \in Tab, NEW i \in stale[t], RemoveExpired(t, i)
  PROVE  IInv'
<1> USE DEF callVars, flushVars, envVars, vars
<1>1. TypeOK'
  BY DEF IInv, TypeOK, RemoveExpired, Removed
<1>2. CallsSound'
  BY DEF IInv, TypeOK, RemoveExpired, Removed, CallsSound, Sent
<1>4. ItemsSound'
  BY DEF IInv, TypeOK, RemoveExpired, Removed, ItemsSound, Known
<1>5. FlushSound'
  BY DEF IInv, TypeOK, RemoveExpired, Removed, FlushSound
<1>6. ReplayedSound'
  BY DEF IInv, TypeOK, RemoveExpired, Removed, ReplayedSound, ToReplay
<1>7. NothingLost'
  <2>1. i.op \in expired
    BY DEF IInv, ItemsSound
  <2>2. \A j \in store : j.id = i.id => j.op = i.op
    <3>1. \A p \in accepted : item[p].id = p
      BY DEF IInv, TypeOK, CallsSound, Sent
    <3>2. Known(i) /\ \A j \in store : Known(j)
      BY DEF IInv, ItemsSound
    <3> QED BY <3>1, <3>2 DEF Known
  <2>3. Stored \subseteq Stored' \cup {i.op}
    BY <2>2 DEF Stored, RemoveExpired, Removed
  <2> QED BY <2>1, <2>3 DEF IInv, NothingLost, RemoveExpired
<1>8. ReplayedOnce'
  BY DEF IInv, TypeOK, RemoveExpired, Removed, ReplayedOnce
<1>9. OrderSound'
  <2>1. \A p \in accepted : item[p] \in store' => item[p] \in store
    BY DEF RemoveExpired, Removed
  <2> QED BY <2>1, OrderStays DEF RemoveExpired
<1>10. ReplayedInOrder'
  BY DEF IInv, TypeOK, RemoveExpired, Removed, ReplayedInOrder
<1> QED BY <1>1, <1>2, <1>4, <1>5, <1>6, <1>7, <1>8, <1>9, <1>10 DEF IInv

LEMMA ExpiredStaysIInv ==
  ASSUME UniqueIds, Locked, IInv, NEW t \in Tab, NEW i \in stale[t], ExpiredStays(t, i)
  PROVE  IInv'
<1> USE DEF callVars, flushVars, envVars, vars, ExpiredStays
<1>1. TypeOK'
  BY DEF IInv, TypeOK
<1>2. CallsSound'
  BY DEF IInv, CallsSound, Sent
<1>4. ItemsSound'
  BY DEF IInv, TypeOK, ItemsSound, Known
<1>5. FlushSound'
  BY DEF IInv, TypeOK, FlushSound
<1>6. ReplayedSound'
  BY DEF IInv, ReplayedSound, ToReplay
<1>7. NothingLost'
  BY DEF IInv, NothingLost, Stored
<1>8. ReplayedOnce'
  BY DEF IInv, ReplayedOnce
<1>9. OrderSound'
  BY OrderStays
<1>10. ReplayedInOrder'
  BY DEF IInv, ReplayedInOrder
<1> QED BY <1>1, <1>2, <1>4, <1>5, <1>6, <1>7, <1>8, <1>9, <1>10 DEF IInv

\* The flush is given up before it replays anything; what else expired is gone.
LEMMA FlushFailsIInv ==
  ASSUME UniqueIds, Locked, IInv, NEW t \in Tab, FlushFails(t)
  PROVE  IInv'
<1> USE DEF callVars, flushVars, envVars, vars
<1>0. PICK gone \in SUBSET stale[t] :
        store' = {j \in store : \A g \in gone : j.id # g.id}
  BY DEF FlushFails
<1>1. /\ stale'[t] = {} /\ rest'[t] = <<>> /\ flushing' = flushing \ {t}
      /\ stale' \in [Tab -> SUBSET Item] /\ rest' \in [Tab -> Seq(Item)]
      /\ \A u \in Tab \ {t} : stale'[u] = stale[u] /\ rest'[u] = rest[u]
      /\ UNCHANGED <<log, batch, removing, callVars, envVars>>
  BY DEF FlushFails, IInv, TypeOK
<1>2. TypeOK'
  BY <1>0, <1>1 DEF IInv, TypeOK
<1>3. CallsSound'
  BY <1>1 DEF IInv, CallsSound, Sent
<1>4. ToSet(<<>>) = {} /\ 1 .. Len(rest'[t]) = {}
  BY <1>1 DEF ToSet
<1>5. \A u \in Tab : ToSet(rest'[u]) \subseteq ToSet(rest[u])
  BY <1>1, <1>4
<1>6. ItemsSound'
  BY <1>0, <1>1, <1>5 DEF IInv, ItemsSound, Known
<1>7. FlushSound'
  <2>1. batch' = batch /\ removing' = removing
    BY <1>1
  <2>2. batch[t] = {} /\ removing[t] = {}
    BY DEF IInv, FlushSound, FlushFails
  <2>3. \A u, v \in flushing' : u = v
    BY <1>1 DEF IInv, FlushSound
  <2>4. \A u \in Tab \ {t} :
          /\ rest'[u] = rest[u] /\ stale'[u] = stale[u]
          /\ u \in flushing' <=> u \in flushing
    BY <1>1
  <2>5. stale'[t] = {} /\ rest'[t] = <<>> /\ Len(rest'[t]) = 0 /\ ToSet(rest'[t]) = {}
    BY <1>1, <1>4
  <2> DEFINE P(u) ==
    /\ u \notin flushing =>
         stale[u] = {} /\ rest[u] = <<>> /\ batch[u] = {} /\ removing[u] = {}
    /\ stale[u] # {} => batch[u] = {} /\ removing[u] = {}
    /\ \A m, n \in 1 .. Len(rest[u]) : rest[u][m] = rest[u][n] => m = n
    /\ ToSet(rest[u]) \cap (batch[u] \cup removing[u]) = {}
    /\ batch[u] \cap removing[u] = {}
  <2>6. \A u \in Tab : P(u)
    BY DEF IInv, FlushSound
  <2>7. \A u \in Tab \ {t} : P(u)'
    BY <2>1, <2>4, <2>6
  <2>8. P(t)'
    BY <2>1, <2>2, <2>5
  <2> QED BY <2>3, <2>7, <2>8 DEF FlushSound
<1>8. \A p : \A u \in Tab : ToReplay(p, u)' => ToReplay(p, u)
  BY <1>1, <1>5 DEF ToReplay
<1>9. ReplayedSound'
  BY <1>0, <1>1, <1>8 DEF IInv, ReplayedSound
<1>10. NothingLost'
  <2>1. \A p \in accepted : item[p].id = p
    BY DEF IInv, TypeOK, CallsSound, Sent
  <2>2. \A g \in gone : Known(g) /\ g.op \in expired
    BY DEF IInv, ItemsSound
  <2>3. \A j \in store : Known(j)
    BY DEF IInv, ItemsSound
  <2>4. \A j \in store : j.op \in Stored' \/ j.op \in expired
    BY <1>0, <2>1, <2>2, <2>3 DEF Known, Stored
  <2>5. Stored \subseteq Stored' \cup expired
    BY <2>4 DEF Stored
  <2> QED BY <1>1, <2>5 DEF IInv, NothingLost
<1>11. ReplayedOnce'
  BY <1>1 DEF IInv, ReplayedOnce
<1>12. OrderSound'
  <2> SUFFICES ASSUME options.concurrency = 1 PROVE OneByOne'
    BY <1>1 DEF OrderSound
  <2>1. \A p : Passed(p) => Passed(p)'
    BY <1>0, <1>1, <1>8 DEF Passed
  <2>2. \A p : Predecessors(p)' = Predecessors(p)
    BY <1>1 DEF Predecessors
  <2>3. OneByOne
    BY DEF IInv, OrderSound
  <2>4. batch' = batch /\ log' = log /\ item' = item
    BY <1>1
  <2> HIDE DEF Passed, Predecessors
  <2>5. ASSUME NEW u \in Tab, NEW n \in 1 .. Len(rest'[u]), NEW p \in Predecessors(rest'[u][n].op)
        PROVE  Passed(p)' \/ item[p] \in batch[u] \/ \E m \in 1 .. n - 1 : rest'[u][m] = item[p]
    <3>1. u # t /\ rest'[u] = rest[u]
      BY <1>1, <1>4
    <3> QED BY <2>1, <2>3, <2>5, <3>1 DEF OneByOne
  <2> QED BY <2>1, <2>2, <2>3, <2>4, <2>5 DEF OneByOne
<1>13. ReplayedInOrder'
  BY <1>1 DEF IInv, ReplayedInOrder
<1> QED BY <1>2, <1>3, <1>6, <1>7, <1>9, <1>10, <1>11, <1>12, <1>13 DEF IInv

\* The first items of a flush become its batch.
LEMMA StartBatchFacts ==
  ASSUME IInv, NEW t \in Tab, StartBatch(t)
  PROVE  /\ rest' \in [Tab -> Seq(Item)] /\ batch' \in [Tab -> SUBSET Item]
         /\ \A u \in Tab \ {t} : rest'[u] = rest[u] /\ batch'[u] = batch[u]
         /\ \A u \in Tab : ToSet(rest'[u]) \cup batch'[u] = ToSet(rest[u]) \cup batch[u]
         /\ ToSet(rest'[t]) \cap batch'[t] = {}
         /\ \A m, n \in 1 .. Len(rest'[t]) : rest'[t][m] = rest'[t][n] => m = n
         /\ options.concurrency = 1 =>
              /\ Len(rest[t]) \in Nat \ {0}
              /\ batch'[t] = {rest[t][1]} /\ Len(rest'[t]) = Len(rest[t]) - 1
              /\ \A n \in 1 .. Len(rest[t]) - 1 : rest'[t][n] = rest[t][n + 1]
<1> DEFINE n == Min({options.concurrency, Len(rest[t])})
           front == {rest[t][j] : j \in 1 .. n}
           back == SubSeq(rest[t], n + 1, Len(rest[t]))
<1>1. rest[t] \in Seq(Item) /\ Len(rest[t]) \in Nat \ {0} /\ batch[t] = {}
  BY DEF IInv, TypeOK, StartBatch, AtRest
<1>2. options.concurrency \in Nat \ {0}
  BY OptionTypes DEF IInv, TypeOK
<1>3. n \in Nat /\ n <= Len(rest[t]) /\ (options.concurrency = 1 => n = 1)
  BY <1>1, <1>2, MinFacts
<1>4. /\ rest' = [rest EXCEPT ![t] = back] /\ batch' = [batch EXCEPT ![t] = front]
  BY DEF StartBatch
<1> HIDE DEF n
<1>5. /\ back \in Seq(Item) /\ Len(back) = Len(rest[t]) - n
      /\ \A j \in 1 .. Len(rest[t]) - n : back[j] = rest[t][j + n]
      /\ ToSet(rest[t]) = front \cup ToSet(back)
  <2>1. back \in Seq(Item) /\ Len(back) = Len(rest[t]) - n
    BY <1>1, <1>3, FrontFacts
  <2>2. \A j \in 1 .. Len(rest[t]) - n : back[j] = rest[t][j + n]
    BY <1>1, <1>3, FrontFacts
  <2>3. ToSet(rest[t]) = front \cup ToSet(back)
    BY <1>1, <1>3, FrontFacts
  <2> QED BY <2>1, <2>2, <2>3
<1>6. \A j, k \in 1 .. Len(rest[t]) : rest[t][j] = rest[t][k] => j = k
  BY DEF IInv, FlushSound
<1>7. /\ front \cap ToSet(back) = {}
      /\ \A j, k \in 1 .. Len(back) : back[j] = back[k] => j = k
  BY <1>1, <1>3, <1>6, FrontFacts
<1>8. front \subseteq Item
  BY <1>1, <1>3
<1>9. n = 1 => front = {rest[t][1]}
  OBVIOUS
<1> HIDE DEF front, back
<1>10. rest'[t] = back /\ batch'[t] = front
       /\ \A u \in Tab \ {t} : rest'[u] = rest[u] /\ batch'[u] = batch[u]
  BY <1>4 DEF IInv, TypeOK
<1>11. rest' \in [Tab -> Seq(Item)] /\ batch' \in [Tab -> SUBSET Item]
  BY <1>4, <1>5, <1>8 DEF IInv, TypeOK
<1>12. \A u \in Tab : ToSet(rest'[u]) \cup batch'[u] = ToSet(rest[u]) \cup batch[u]
  BY <1>1, <1>5, <1>10
<1> QED BY <1>1, <1>3, <1>5, <1>7, <1>9, <1>10, <1>11, <1>12

LEMMA StartBatchIInv ==
  ASSUME UniqueIds, Locked, IInv, NEW t \in Tab, StartBatch(t)
  PROVE  IInv'
<1> USE DEF callVars, flushVars, envVars, vars
<1>1. TypeOK'
  <2>1. rest' \in [Tab -> Seq(Item)] /\ batch' \in [Tab -> SUBSET Item]
    BY StartBatchFacts DEF IInv, TypeOK
  <2> QED BY <2>1 DEF IInv, TypeOK, StartBatch
<1>2. CallsSound'
  BY DEF IInv, CallsSound, Sent, StartBatch
<1>4. ItemsSound'
  <2>1. \A u \in Tab : ToSet(rest'[u]) \cup batch'[u] = ToSet(rest[u]) \cup batch[u]
    BY StartBatchFacts
  <2>2. UNCHANGED <<store, item, accepted, stale, removing, expired, log>>
    BY DEF StartBatch
  <2> QED BY <2>1, <2>2 DEF IInv, ItemsSound, Known
<1>5. FlushSound'
  <2>1. \A u \in Tab : ToSet(rest'[u]) \cup batch'[u] = ToSet(rest[u]) \cup batch[u]
    BY StartBatchFacts
  <2>2. \A u \in Tab \ {t} : rest'[u] = rest[u] /\ batch'[u] = batch[u]
    BY StartBatchFacts
  <2>3. t \in flushing /\ stale[t] = {} /\ removing[t] = {}
        /\ ToSet(rest'[t]) \cap batch'[t] = {}
        /\ \A m, n \in 1 .. Len(rest'[t]) : rest'[t][m] = rest'[t][n] => m = n
    BY StartBatchFacts DEF StartBatch, AtRest
  <2>4. UNCHANGED <<flushing, stale, removing>>
    BY DEF StartBatch
  <2> QED BY <2>2, <2>3, <2>4 DEF IInv, FlushSound
<1>6. ReplayedSound'
  <2>1. \A u \in Tab : ToSet(rest'[u]) \cup batch'[u] = ToSet(rest[u]) \cup batch[u]
    BY StartBatchFacts
  <2>2. \A p, u : u \in Tab => (ToReplay(p, u)' <=> ToReplay(p, u))
    BY <2>1 DEF ToReplay, StartBatch
  <2>3. UNCHANGED <<store, item, accepted, removing, log, doubtful>>
    BY DEF StartBatch
  <2> QED BY <2>2, <2>3 DEF IInv, ReplayedSound
<1>7. NothingLost'
  BY DEF IInv, TypeOK, StartBatch, AtRest, NothingLost, Stored
<1>8. ReplayedOnce'
  BY DEF IInv, TypeOK, StartBatch, AtRest, ReplayedOnce
<1>9. OrderSound'
  <2> SUFFICES ASSUME options.concurrency = 1 PROVE OneByOne'
    BY DEF OrderSound, StartBatch
  <2>0. UNCHANGED <<store, item, earlier, accepted, log, doubtful, expired>>
    BY DEF StartBatch
  <2>1. \A u \in Tab : ToSet(rest'[u]) \cup batch'[u] = ToSet(rest[u]) \cup batch[u]
    BY StartBatchFacts
  <2>2. \A p : Passed(p)' <=> Passed(p)
    BY <2>0, <2>1 DEF Passed, ToReplay
  <2>3. \A p : Predecessors(p)' = Predecessors(p)
    BY <2>0 DEF Predecessors
  <2>4. OneByOne
    BY DEF IInv, OrderSound
  <2>5. /\ Len(rest[t]) \in Nat \ {0} /\ batch[t] = {}
        /\ batch'[t] = {rest[t][1]} /\ Len(rest'[t]) = Len(rest[t]) - 1
        /\ \A n \in 1 .. Len(rest[t]) - 1 : rest'[t][n] = rest[t][n + 1]
    BY StartBatchFacts DEF StartBatch, AtRest
  <2>6. \A u \in Tab \ {t} : rest'[u] = rest[u] /\ batch'[u] = batch[u]
    BY StartBatchFacts
  <2>7. \A p \in Predecessors(rest[t][1].op) : Passed(p)
    BY <2>4, <2>5 DEF OneByOne
  <2>8. ASSUME NEW n \in 1 .. Len(rest'[t]), NEW p \in Predecessors(rest'[t][n].op)
        PROVE  Passed(p) \/ item[p] \in batch'[t] \/ \E m \in 1 .. n - 1 : rest'[t][m] = item[p]
    <3>1. n + 1 \in 1 .. Len(rest[t]) /\ rest'[t][n] = rest[t][n + 1]
      BY <2>5
    <3>2. Passed(p) \/ \E m \in 1 .. (n + 1) - 1 : rest[t][m] = item[p]
      <4>1. p \in Predecessors(rest[t][n + 1].op)
        BY <3>1
      <4>2. \/ Passed(p) \/ item[p] \in batch[t]
            \/ \E m \in 1 .. (n + 1) - 1 : rest[t][m] = item[p]
        BY <2>4, <3>1, <4>1 DEF OneByOne
      <4> QED BY <2>5, <4>2
    <3>3. ASSUME NEW m \in 1 .. (n + 1) - 1, rest[t][m] = item[p]
          PROVE  item[p] \in batch'[t] \/ \E k \in 1 .. n - 1 : rest'[t][k] = item[p]
      <4>1. CASE m = 1
        BY <2>5, <3>3, <4>1
      <4>2. CASE m # 1
        <5>1. m - 1 \in 1 .. n - 1 /\ m - 1 \in 1 .. Len(rest[t]) - 1 /\ (m - 1) + 1 = m
          BY <2>5, <4>2
        <5> QED BY <2>5, <3>3, <5>1
      <4> QED BY <4>1, <4>2
    <3> QED BY <3>2, <3>3
  <2>9. \A u \in Tab : /\ \A i, j \in batch'[u] : i = j
                       /\ \A i \in batch'[u] : \A p \in Predecessors(i.op) : Passed(p)
    BY <2>4, <2>5, <2>6, <2>7 DEF OneByOne
  <2>10. \A u \in Tab : \A n \in 1 .. Len(rest'[u]) : \A p \in Predecessors(rest'[u][n].op) :
           Passed(p) \/ item[p] \in batch'[u] \/ \E m \in 1 .. n - 1 : rest'[u][m] = item[p]
    BY <2>4, <2>6, <2>8 DEF OneByOne
  <2>11. \A p \in ToSet(log) : \A q \in Predecessors(p) : Passed(q)
    BY <2>4 DEF OneByOne
  <2> HIDE DEF Passed, Predecessors
  <2> QED BY <2>0, <2>2, <2>3, <2>9, <2>10, <2>11 DEF OneByOne
<1>10. ReplayedInOrder'
  BY DEF IInv, TypeOK, StartBatch, AtRest, ReplayedInOrder
<1> QED BY <1>1, <1>2, <1>4, <1>5, <1>6, <1>7, <1>8, <1>9, <1>10 DEF IInv

\* An item leaves its batch, and the server may have seen it: one that it has
\* not seen is doubtful from then on.
LEMMA SentOrder ==
  ASSUME IInv, NEW t \in Tab, NEW i \in batch[t],
         UNCHANGED <<store, item, earlier, accepted, rest, expired, options>>,
         batch'[t] = batch[t] \ {i}, \A u \in Tab \ {t} : batch'[u] = batch[u],
         ToSet(log) \subseteq ToSet(log'), ToSet(log') \subseteq ToSet(log) \cup {i.op},
         i.op \in ToSet(log') \/ i.op \in doubtful', doubtful \subseteq doubtful'
  PROVE  OrderSound'
<1> SUFFICES ASSUME options.concurrency = 1 PROVE OneByOne'
  BY DEF OrderSound
<1>1. OneByOne
  BY DEF IInv, OrderSound
<1>2. \A p : Passed(p) => Passed(p)'
  BY DEF Passed, ToReplay
<1>3. \A p : Predecessors(p)' = Predecessors(p) \ doubtful'
  BY DEF Predecessors
<1>4. i.op \in doubtful' \/ Passed(i.op)'
  BY DEF Passed
<1>5. \A p \in ToSet(log') : \A q \in Predecessors(p)' : Passed(q)'
  BY <1>1, <1>2, <1>3 DEF OneByOne
<1>6. \A u \in Tab : \A n \in 1 .. Len(rest[u]) : \A p \in Predecessors(rest[u][n].op) :
        item[p] = i => p = i.op
  <2> SUFFICES ASSUME NEW u \in Tab, NEW n \in 1 .. Len(rest[u]),
                      NEW p \in Predecessors(rest[u][n].op)
               PROVE  item[p].op = p
    OBVIOUS
  <2>1. rest[u][n].op \in accepted
    BY ToSetFacts DEF IInv, TypeOK, ItemsSound, Known
  <2>2. p \in accepted
    BY <2>1 DEF IInv, TypeOK, CallsSound, Predecessors
  <2> QED BY <2>2 DEF IInv, TypeOK, CallsSound, Sent
<1>7. \A u \in Tab : \A n \in 1 .. Len(rest[u]) : \A p \in Predecessors(rest[u][n].op)' :
        Passed(p)' \/ item[p] \in batch'[u] \/ \E m \in 1 .. n - 1 : rest[u][m] = item[p]
  BY <1>1, <1>2, <1>3, <1>4, <1>6 DEF OneByOne
<1>8. \A u \in Tab : /\ \A j, k \in batch'[u] : j = k
                     /\ \A j \in batch'[u] : \A p \in Predecessors(j.op)' : Passed(p)'
  BY <1>1, <1>2, <1>3 DEF OneByOne
<1> HIDE DEF Passed, Predecessors
<1> QED BY <1>5, <1>7, <1>8 DEF OneByOne

\* What the server sees next has no successor before it.
LEMMA SentInOrder ==
  ASSUME IInv, NEW t \in Tab, NEW i \in batch[t], log' = Append(log, i.op),
         UNCHANGED <<earlier, item, options>>, doubtful \subseteq doubtful'
  PROVE  ReplayedInOrder'
<1> SUFFICES ASSUME options.concurrency = 1 PROVE ReplayedInOrder'
  BY DEF ReplayedInOrder
<1>1. i.op \in Op /\ log \in Seq(Op)
  BY ItemFields DEF IInv, TypeOK
<1>2. /\ DOMAIN log = 1 .. Len(log) /\ DOMAIN log' = 1 .. Len(log) + 1 /\ Len(log) \in Nat
      /\ \A n \in 1 .. Len(log) : log'[n] = log[n]
      /\ log'[Len(log) + 1] = i.op
  BY <1>1, AppendFacts
<1>3. ToReplay(i.op, t)
  BY DEF IInv, ItemsSound, Known, ToReplay
<1>4. Passed(i.op) => i.op \in doubtful
  BY <1>3 DEF IInv, ReplayedSound, Passed
<1>5. ASSUME NEW n \in 1 .. Len(log), log[n] \in Urgent <=> i.op \in Urgent
      PROVE  ~(i.op \in earlier[log[n]] \ doubtful /\ item[i.op].at < item[log[n]].at)
  <2>1. log[n] \in ToSet(log)
    BY <1>1, ToSetFacts
  <2>2. i.op \in Predecessors(log[n]) => Passed(i.op)
    BY <2>1 DEF IInv, OrderSound, OneByOne
  <2> QED BY <1>4, <1>5, <2>2 DEF Predecessors
<1>6. \A m, n \in 1 .. Len(log) + 1 : m < n => m \in 1 .. Len(log) /\ (n = Len(log) + 1 \/ n \in 1 .. Len(log))
  BY <1>2
<1> QED BY <1>2, <1>5, <1>6 DEF IInv, ReplayedInOrder

LEMMA ReplayIInv ==
  ASSUME UniqueIds, Locked, IInv, NEW t \in Tab, NEW i \in batch[t], Replay(t, i)
  PROVE  IInv'
<1> USE DEF callVars, flushVars, envVars, vars
<1>1. TypeOK'
  <2>1. /\ log' = Append(log, i.op) /\ i.op \in Op /\ log \in Seq(Op)
        /\ ToSet(log') = ToSet(log) \cup {i.op}
    BY AppendFacts, ItemFields DEF IInv, TypeOK, Replay

  <2>2. log' \in Seq(Op)
    BY <2>1
  <2>3. batch' \in [Tab -> SUBSET Item] /\ removing' \in [Tab -> SUBSET Item]
    BY DEF IInv, TypeOK, Replay
  <2> QED BY <2>2, <2>3 DEF IInv, TypeOK, Replay
<1>2. CallsSound'
  BY DEF IInv, TypeOK, Replay, CallsSound, Sent
<1>4. ItemsSound'
  <2>1. /\ log' = Append(log, i.op) /\ i.op \in Op /\ log \in Seq(Op)
        /\ ToSet(log') = ToSet(log) \cup {i.op}
    BY AppendFacts, ItemFields DEF IInv, TypeOK, Replay

  <2>2. /\ batch'[t] = batch[t] \ {i} /\ removing'[t] = removing[t] \cup {i}
        /\ \A u \in Tab \ {t} : batch'[u] = batch[u] /\ removing'[u] = removing[u]
    BY DEF IInv, TypeOK, Replay

  <2>3. UNCHANGED <<store, item, accepted, stale, rest, expired>>
    BY DEF Replay
  <2> QED BY <2>1, <2>2, <2>3 DEF IInv, ItemsSound, Known
<1>5. FlushSound'
  <2>1. /\ batch'[t] = batch[t] \ {i} /\ removing'[t] = removing[t] \cup {i}
        /\ \A u \in Tab \ {t} : batch'[u] = batch[u] /\ removing'[u] = removing[u]
    BY DEF IInv, TypeOK, Replay

  <2>2. UNCHANGED <<flushing, stale, rest>>
    BY DEF Replay
  <2>3. t \in flushing
    BY DEF IInv, FlushSound
  <2> QED BY <2>1, <2>2, <2>3 DEF IInv, FlushSound
<1>6. ReplayedSound'
  <2>1. /\ log' = Append(log, i.op) /\ i.op \in Op /\ log \in Seq(Op)
        /\ ToSet(log') = ToSet(log) \cup {i.op}
    BY AppendFacts, ItemFields DEF IInv, TypeOK, Replay

  <2>2. /\ batch'[t] = batch[t] \ {i} /\ removing'[t] = removing[t] \cup {i}
        /\ \A u \in Tab \ {t} : batch'[u] = batch[u] /\ removing'[u] = removing[u]
    BY DEF IInv, TypeOK, Replay

  <2>3. UNCHANGED <<store, item, accepted, rest, doubtful>>
    BY DEF Replay
  <2>4. Known(i)
    BY DEF IInv, ItemsSound
  <2>5. i \notin ToSet(rest[t]) /\ \A u \in Tab \ {t} : batch[u] = {} /\ rest[u] = <<>>
    BY DEF IInv, FlushSound
  <2>6. \A u \in Tab : ~ToReplay(i.op, u)'
    BY <2>2, <2>3, <2>4, <2>5 DEF ToReplay, Known, ToSet
  <2>7. \A p, u : u \in Tab /\ ToReplay(p, u)' => ToReplay(p, u)
    BY <2>2, <2>3 DEF ToReplay
  <2>8. \A u \in Tab : removing[u] \subseteq removing'[u]
    BY <2>2
  <2> QED BY <2>1, <2>2, <2>3, <2>4, <2>6, <2>7, <2>8 DEF IInv, ReplayedSound, Known
<1>7. NothingLost'
  <2>1. /\ log' = Append(log, i.op) /\ i.op \in Op /\ log \in Seq(Op)
        /\ ToSet(log') = ToSet(log) \cup {i.op}
    BY AppendFacts, ItemFields DEF IInv, TypeOK, Replay

  <2> QED BY <2>1 DEF IInv, NothingLost, Stored, Replay
<1>8. ReplayedOnce'
  <2>1. /\ log' = Append(log, i.op) /\ i.op \in Op /\ log \in Seq(Op)
        /\ ToSet(log') = ToSet(log) \cup {i.op}
    BY AppendFacts, ItemFields DEF IInv, TypeOK, Replay

  <2>2. /\ DOMAIN log = 1 .. Len(log) /\ DOMAIN log' = 1 .. Len(log) + 1 /\ Len(log) \in Nat
        /\ \A n \in 1 .. Len(log) : log'[n] = log[n]
        /\ log'[Len(log) + 1] = i.op
    BY <2>1
  <2>3. \A n \in 1 .. Len(log) : log[n] \in ToSet(log)
    BY <2>1, ToSetFacts
  <2>4. i.op \in ToSet(log) => i.op \in doubtful
    BY DEF IInv, ItemsSound, Known, ReplayedSound, ToReplay
  <2>5. doubtful' = doubtful
    BY DEF Replay
  <2> QED BY <2>2, <2>3, <2>4, <2>5 DEF IInv, ReplayedOnce
<1>9. OrderSound'
  <2>1. batch'[t] = batch[t] \ {i} /\ \A u \in Tab \ {t} : batch'[u] = batch[u]
    BY DEF IInv, TypeOK, Replay
  <2>2. ToSet(log') = ToSet(log) \cup {i.op}
    BY AppendFacts, ItemFields DEF IInv, TypeOK, Replay
  <2> QED BY <2>1, <2>2, SentOrder DEF Replay
<1>10. ReplayedInOrder'
  <2>1. log' = Append(log, i.op) /\ doubtful' = doubtful /\ UNCHANGED <<earlier, item, options>>
    BY DEF Replay
  <2> QED BY <2>1, SentInOrder
<1> QED BY <1>1, <1>2, <1>4, <1>5, <1>6, <1>7, <1>8, <1>9, <1>10 DEF IInv

LEMMA ReplayFailsIInv ==
  ASSUME UniqueIds, Locked, IInv, NEW t \in Tab, NEW i \in batch[t], ReplayFails(t, i)
  PROVE  IInv'
<1> USE DEF callVars, flushVars, envVars, vars
<1>1. TypeOK'
  <2>1. batch'[t] = batch[t] \ {i} /\ \A u \in Tab \ {t} : batch'[u] = batch[u]
    BY DEF IInv, TypeOK, ReplayFails
  <2>2. /\ log' \in Seq(Op) /\ ToSet(log) \subseteq ToSet(log')
        /\ ToSet(log') \subseteq ToSet(log) \cup {i.op}
    <3>1. i.op \in Op /\ log \in Seq(Op)
      BY ItemFields DEF IInv, TypeOK
    <3>2. log' = log \/ log' = Append(log, i.op)
      BY DEF ReplayFails
    <3>3. CASE log' = log
      BY <3>1, <3>3
    <3>4. CASE log' = Append(log, i.op)
      BY <3>1, <3>4, AppendFacts
    <3> QED BY <3>2, <3>3, <3>4

  <2>3. batch' \in [Tab -> SUBSET Item] /\ doubtful' \subseteq Op
    BY ItemFields DEF IInv, TypeOK, ReplayFails
  <2> QED BY <2>2, <2>3 DEF IInv, TypeOK, ReplayFails
<1>2. CallsSound'
  BY DEF IInv, TypeOK, ReplayFails, CallsSound, Sent
<1>4. ItemsSound'
  <2>1. batch'[t] = batch[t] \ {i} /\ \A u \in Tab \ {t} : batch'[u] = batch[u]
    BY DEF IInv, TypeOK, ReplayFails
  <2>2. /\ log' \in Seq(Op) /\ ToSet(log) \subseteq ToSet(log')
        /\ ToSet(log') \subseteq ToSet(log) \cup {i.op}
    <3>1. i.op \in Op /\ log \in Seq(Op)
      BY ItemFields DEF IInv, TypeOK
    <3>2. log' = log \/ log' = Append(log, i.op)
      BY DEF ReplayFails
    <3>3. CASE log' = log
      BY <3>1, <3>3
    <3>4. CASE log' = Append(log, i.op)
      BY <3>1, <3>4, AppendFacts
    <3> QED BY <3>2, <3>3, <3>4

  <2>3. UNCHANGED <<store, item, accepted, stale, rest, removing, expired>>
    BY DEF ReplayFails
  <2> QED BY <2>1, <2>2, <2>3 DEF IInv, ItemsSound, Known
<1>5. FlushSound'
  BY DEF IInv, TypeOK, ReplayFails, FlushSound
<1>6. ReplayedSound'
  <2>1. batch'[t] = batch[t] \ {i} /\ \A u \in Tab \ {t} : batch'[u] = batch[u]
    BY DEF IInv, TypeOK, ReplayFails
  <2>2. /\ log' \in Seq(Op) /\ ToSet(log) \subseteq ToSet(log')
        /\ ToSet(log') \subseteq ToSet(log) \cup {i.op}
    <3>1. i.op \in Op /\ log \in Seq(Op)
      BY ItemFields DEF IInv, TypeOK
    <3>2. log' = log \/ log' = Append(log, i.op)
      BY DEF ReplayFails
    <3>3. CASE log' = log
      BY <3>1, <3>3
    <3>4. CASE log' = Append(log, i.op)
      BY <3>1, <3>4, AppendFacts
    <3> QED BY <3>2, <3>3, <3>4

  <2>3. UNCHANGED <<store, item, accepted, rest, removing>> /\ doubtful' = doubtful \cup {i.op}
    BY DEF ReplayFails
  <2>4. i.op \in accepted
    BY DEF IInv, ItemsSound, Known
  <2>5. \A p, u : u \in Tab /\ ToReplay(p, u)' => ToReplay(p, u)
    BY <2>1, <2>3 DEF ToReplay
  <2>6. ToSet(log') \ doubtful' \subseteq ToSet(log) \ doubtful
    BY <2>2, <2>3
  <2> QED BY <2>2, <2>3, <2>4, <2>5, <2>6 DEF IInv, ReplayedSound
<1>7. NothingLost'
  <2>1. batch'[t] = batch[t] \ {i} /\ \A u \in Tab \ {t} : batch'[u] = batch[u]
    BY DEF IInv, TypeOK, ReplayFails
  <2>2. /\ log' \in Seq(Op) /\ ToSet(log) \subseteq ToSet(log')
        /\ ToSet(log') \subseteq ToSet(log) \cup {i.op}
    <3>1. i.op \in Op /\ log \in Seq(Op)
      BY ItemFields DEF IInv, TypeOK
    <3>2. log' = log \/ log' = Append(log, i.op)
      BY DEF ReplayFails
    <3>3. CASE log' = log
      BY <3>1, <3>3
    <3>4. CASE log' = Append(log, i.op)
      BY <3>1, <3>4, AppendFacts
    <3> QED BY <3>2, <3>3, <3>4

  <2> QED BY <2>2 DEF IInv, NothingLost, Stored, ReplayFails
<1>8. ReplayedOnce'
  <2>1. CASE log' = log
    BY <2>1 DEF IInv, ReplayedOnce, ReplayFails
  <2>2. CASE log' = Append(log, i.op)
    <3>1. /\ DOMAIN log = 1 .. Len(log) /\ DOMAIN log' = 1 .. Len(log) + 1 /\ Len(log) \in Nat
          /\ \A n \in 1 .. Len(log) : log'[n] = log[n]
          /\ log'[Len(log) + 1] = i.op
      BY <2>2, AppendFacts, ItemFields DEF IInv, TypeOK
    <3>2. doubtful' = doubtful \cup {i.op}
      BY DEF ReplayFails
    <3> QED BY <3>1, <3>2 DEF IInv, ReplayedOnce
  <2> QED BY <2>1, <2>2 DEF ReplayFails
<1>9. OrderSound'
  <2>1. batch'[t] = batch[t] \ {i} /\ \A u \in Tab \ {t} : batch'[u] = batch[u]
    BY DEF IInv, TypeOK, ReplayFails
  <2>2. /\ log' \in Seq(Op) /\ ToSet(log) \subseteq ToSet(log')
        /\ ToSet(log') \subseteq ToSet(log) \cup {i.op}
    <3>1. i.op \in Op /\ log \in Seq(Op)
      BY ItemFields DEF IInv, TypeOK
    <3>2. log' = log \/ log' = Append(log, i.op)
      BY DEF ReplayFails
    <3>3. CASE log' = log
      BY <3>1, <3>3
    <3>4. CASE log' = Append(log, i.op)
      BY <3>1, <3>4, AppendFacts
    <3> QED BY <3>2, <3>3, <3>4

  <2>3. i.op \in doubtful' /\ doubtful \subseteq doubtful'
    BY DEF ReplayFails
  <2> QED BY <2>1, <2>2, <2>3, SentOrder DEF ReplayFails
<1>10. ReplayedInOrder'
  <2>1. UNCHANGED <<earlier, item, options>> /\ doubtful \subseteq doubtful'
    BY DEF ReplayFails
  <2>2. CASE log' = log
    BY <2>1, <2>2 DEF IInv, ReplayedInOrder
  <2>3. CASE log' = Append(log, i.op)
    BY <2>1, <2>3, SentInOrder
  <2> QED BY <2>2, <2>3 DEF ReplayFails
<1> QED BY <1>1, <1>2, <1>4, <1>5, <1>6, <1>7, <1>8, <1>9, <1>10 DEF IInv

LEMMA RemoveReplayedIInv ==
  ASSUME UniqueIds, Locked, IInv, NEW t \in Tab, NEW i \in removing[t], RemoveReplayed(t, i)
  PROVE  IInv'
<1> USE DEF callVars, flushVars, envVars, vars
<1>1. TypeOK'
  BY DEF IInv, TypeOK, RemoveReplayed, Removed
<1>2. CallsSound'
  BY DEF IInv, TypeOK, RemoveReplayed, Removed, CallsSound, Sent
<1>4. ItemsSound'
  BY DEF IInv, TypeOK, RemoveReplayed, Removed, ItemsSound, Known
<1>5. FlushSound'
  BY DEF IInv, TypeOK, RemoveReplayed, Removed, FlushSound
<1>6. ReplayedSound'
  BY DEF IInv, TypeOK, RemoveReplayed, Removed, ReplayedSound, ToReplay
<1>7. NothingLost'
  <2>1. i.op \in ToSet(log)
    BY DEF IInv, ItemsSound
  <2>2. \A j \in store : j.id = i.id => j.op = i.op
    <3>1. \A p \in accepted : item[p].id = p
      BY DEF IInv, TypeOK, CallsSound, Sent
    <3>2. Known(i) /\ \A j \in store : Known(j)
      BY DEF IInv, ItemsSound
    <3> QED BY <3>1, <3>2 DEF Known
  <2>3. Stored \subseteq Stored' \cup {i.op}
    BY <2>2 DEF Stored, RemoveReplayed, Removed
  <2> QED BY <2>1, <2>3 DEF IInv, NothingLost, RemoveReplayed
<1>8. ReplayedOnce'
  BY DEF IInv, TypeOK, RemoveReplayed, Removed, ReplayedOnce
<1>9. OrderSound'
  <2>1. \A p \in accepted : item[p] \in store' => item[p] \in store
    BY DEF RemoveReplayed, Removed
  <2> QED BY <2>1, OrderStays DEF RemoveReplayed
<1>10. ReplayedInOrder'
  BY DEF IInv, TypeOK, RemoveReplayed, Removed, ReplayedInOrder
<1> QED BY <1>1, <1>2, <1>4, <1>5, <1>6, <1>7, <1>8, <1>9, <1>10 DEF IInv

\* An item that was answered stays in the storage, and is doubtful from then on.
LEMMA RemoveFailsIInv ==
  ASSUME UniqueIds, Locked, IInv, NEW t \in Tab, NEW i \in removing[t], RemoveFails(t, i)
  PROVE  IInv'
<1> USE DEF callVars, flushVars, envVars, vars
<1>0. /\ removing' = [removing EXCEPT ![t] = @ \ {i}] /\ doubtful' = doubtful \cup {i.op}
      /\ UNCHANGED <<store, log, flushing, stale, rest, batch, callVars, expired,
                     cleared, unsaved, crashes, options>>
  BY DEF RemoveFails
<1>1. TypeOK'
  <2>1. i \in Item /\ removing' \in [Tab -> SUBSET Item]
    BY <1>0 DEF IInv, TypeOK
  <2>2. i.op \in Op
    BY <2>1 DEF Item
  <2>3. doubtful' \subseteq Op
    BY <1>0, <2>2 DEF IInv, TypeOK
  <2> QED BY <1>0, <2>1, <2>3 DEF IInv, TypeOK
<1>2. CallsSound'
  BY <1>0 DEF IInv, CallsSound, Sent
<1>3. \A u \in Tab : removing'[u] \subseteq removing[u]
      /\ \A j \in removing[u] \ {i} : j \in removing'[u]
  BY <1>0 DEF IInv, TypeOK
<1>4. ItemsSound'
  BY <1>0, <1>3 DEF IInv, ItemsSound, Known
<1>5. FlushSound'
  BY <1>0, <1>3 DEF IInv, FlushSound
<1>6. ReplayedSound'
  <2>1. \A p \in ToSet(log) : item[p].op = p
    BY DEF IInv, TypeOK, ReplayedSound, CallsSound, Sent
  <2>2. \A p \in ToSet(log) \ doubtful' : item[p] # i
    BY <1>0, <2>1
  <2>3. \A p \in ToSet(log) \ doubtful' :
          item[p] \in store => \E u \in Tab : item[p] \in removing'[u]
    BY <1>0, <1>3, <2>2 DEF IInv, ReplayedSound
  <2>4. \A p \in ToSet(log) \ doubtful' : \A u \in Tab : ~ToReplay(p, u)'
    BY <1>0 DEF IInv, ReplayedSound, ToReplay
  <2> QED BY <1>0, <2>3, <2>4 DEF IInv, ReplayedSound
<1>7. NothingLost'
  BY <1>0 DEF IInv, NothingLost, Stored
<1>8. ReplayedOnce'
  BY <1>0 DEF IInv, ReplayedOnce
<1>9. OrderSound'
  BY <1>0, OrderStays
<1>10. ReplayedInOrder'
  BY <1>0 DEF IInv, ReplayedInOrder
<1> QED BY <1>1, <1>2, <1>4, <1>5, <1>6, <1>7, <1>8, <1>9, <1>10 DEF IInv

LEMMA EndFlushIInv ==
  ASSUME UniqueIds, Locked, IInv, NEW t \in Tab, EndFlush(t)
  PROVE  IInv'
<1> USE DEF callVars, flushVars, envVars, vars
<1>1. TypeOK'
  BY DEF IInv, TypeOK, EndFlush, AtRest
<1>2. CallsSound'
  BY DEF IInv, TypeOK, EndFlush, AtRest, CallsSound, Sent
<1>4. ItemsSound'
  BY DEF IInv, TypeOK, EndFlush, AtRest, ItemsSound, Known
<1>5. FlushSound'
  BY DEF IInv, TypeOK, EndFlush, AtRest, FlushSound
<1>6. ReplayedSound'
  BY DEF IInv, TypeOK, EndFlush, AtRest, ReplayedSound, ToReplay
<1>7. NothingLost'
  BY DEF IInv, TypeOK, EndFlush, AtRest, NothingLost, Stored
<1>8. ReplayedOnce'
  BY DEF IInv, TypeOK, EndFlush, AtRest, ReplayedOnce
<1>9. OrderSound'
  BY OrderStays DEF EndFlush
<1>10. ReplayedInOrder'
  BY DEF IInv, TypeOK, EndFlush, AtRest, ReplayedInOrder
<1> QED BY <1>1, <1>2, <1>4, <1>5, <1>6, <1>7, <1>8, <1>9, <1>10 DEF IInv

LEMMA ReloadIInv ==
  ASSUME UniqueIds, Locked, IInv, NEW t \in Tab, Reload(t)
  PROVE  IInv'
<1> USE DEF callVars, flushVars, envVars, vars
<1>1. TypeOK'
  <2>1. stale' \in [Tab -> SUBSET Item] /\ batch' \in [Tab -> SUBSET Item]
        /\ removing' \in [Tab -> SUBSET Item]
    BY DEF IInv, TypeOK, Reload
  <2>2. rest' \in [Tab -> Seq(Item)]
    BY DEF IInv, TypeOK, Reload
  <2>3. doubtful' \subseteq Op
    BY ItemFields DEF IInv, TypeOK, Reload
  <2>4. counter' \in [Tab -> Nat \ {0}]
    BY DEF IInv, TypeOK, Reload
  <2>5. crashes' \in 0 .. MaxCrashes
    BY QueueAssumption DEF IInv, TypeOK, Reload
  <2> QED BY <2>1, <2>2, <2>3, <2>4, <2>5 DEF IInv, TypeOK, Reload
<1>2. CallsSound'
  BY DEF IInv, TypeOK, Reload, CallsSound, Sent
<1>4. ItemsSound'
  <2>1. /\ stale'[t] = {} /\ rest'[t] = <<>> /\ batch'[t] = {} /\ removing'[t] = {}
        /\ \A u \in Tab \ {t} : /\ stale'[u] = stale[u] /\ rest'[u] = rest[u]
                               /\ batch'[u] = batch[u] /\ removing'[u] = removing[u]
    BY DEF IInv, TypeOK, Reload
  <2>2. ToSet(<<>>) = {}
    BY DEF ToSet

  <2>3. UNCHANGED <<store, item, accepted, expired, log>>
    BY DEF Reload
  <2> QED BY <2>1, <2>2, <2>3 DEF IInv, ItemsSound, Known
<1>5. FlushSound'
  <2>1. /\ stale'[t] = {} /\ rest'[t] = <<>> /\ batch'[t] = {} /\ removing'[t] = {}
        /\ \A u \in Tab \ {t} : /\ stale'[u] = stale[u] /\ rest'[u] = rest[u]
                               /\ batch'[u] = batch[u] /\ removing'[u] = removing[u]
    BY DEF IInv, TypeOK, Reload
  <2>2. ToSet(<<>>) = {}
    BY DEF ToSet

  <2>3. flushing' = flushing \ {t}
    BY DEF Reload
  <2>4. 1 .. Len(rest'[t]) = {}
    BY <2>1
  <2> QED BY <2>1, <2>2, <2>3, <2>4 DEF IInv, FlushSound
<1>6. ReplayedSound'
  <2>1. /\ stale'[t] = {} /\ rest'[t] = <<>> /\ batch'[t] = {} /\ removing'[t] = {}
        /\ \A u \in Tab \ {t} : /\ stale'[u] = stale[u] /\ rest'[u] = rest[u]
                               /\ batch'[u] = batch[u] /\ removing'[u] = removing[u]
    BY DEF IInv, TypeOK, Reload
  <2>2. ToSet(<<>>) = {}
    BY DEF ToSet

  <2>3. UNCHANGED <<store, item, accepted, log>>
    BY DEF Reload
  <2>4. \A p : \A u \in Tab : ToReplay(p, u)' => ToReplay(p, u)
    BY <2>1, <2>2, <2>3 DEF ToReplay
  <2>5. ASSUME NEW p \in ToSet(log) \ doubtful', item[p] \in store
        PROVE  \E u \in Tab : item[p] \in removing'[u]
    <3>1. doubtful' = doubtful \cup {i.op : i \in removing[t]}
      BY DEF Reload
    <3>2. PICK u \in Tab : item[p] \in removing[u]
      BY <2>5, <3>1 DEF IInv, ReplayedSound
    <3>3. item[p].op = p
      BY DEF IInv, TypeOK, ReplayedSound, CallsSound, Sent
    <3>4. u # t
      BY <3>1, <3>2, <3>3
    <3> QED BY <2>1, <3>2, <3>4
  <2>6. doubtful \subseteq doubtful'
    BY DEF Reload
  <2> QED BY <2>3, <2>4, <2>5, <2>6 DEF IInv, ReplayedSound
<1>7. NothingLost'
  BY DEF IInv, TypeOK, Reload, NothingLost, Stored
<1>8. ReplayedOnce'
  BY DEF IInv, TypeOK, Reload, ReplayedOnce
<1>9. OrderSound'
  <2>1. /\ stale'[t] = {} /\ rest'[t] = <<>> /\ batch'[t] = {} /\ removing'[t] = {}
        /\ \A u \in Tab \ {t} : /\ stale'[u] = stale[u] /\ rest'[u] = rest[u]
                               /\ batch'[u] = batch[u] /\ removing'[u] = removing[u]
    BY DEF IInv, TypeOK, Reload
  <2>2. ToSet(<<>>) = {}
    BY DEF ToSet

  <2> SUFFICES ASSUME options.concurrency = 1 PROVE OneByOne'
    BY DEF OrderSound, Reload
  <2>3. UNCHANGED <<store, item, earlier, accepted, log, expired>> /\ doubtful \subseteq doubtful'
    BY DEF Reload
  <2>4. \A p : Passed(p) => Passed(p)'
    BY <2>1, <2>2, <2>3 DEF Passed, ToReplay
  <2>5. \A p : Predecessors(p)' \subseteq Predecessors(p)
    BY <2>3 DEF Predecessors
  <2>6. OneByOne
    BY DEF IInv, OrderSound
  <2>7. 1 .. Len(rest'[t]) = {}
    BY <2>1
  <2> HIDE DEF Passed, Predecessors
  <2>8. ASSUME NEW u \in Tab
        PROVE  /\ \A i, j \in batch'[u] : i = j
               /\ \A i \in batch'[u] : \A p \in Predecessors(i.op)' : Passed(p)'
               /\ \A n \in 1 .. Len(rest'[u]) : \A p \in Predecessors(rest[u][n].op)' :
                    \/ Passed(p)' \/ item[p] \in batch'[u]
                    \/ \E m \in 1 .. n - 1 : rest'[u][m] = item[p]
    <3>1. CASE u = t
      BY <3>1, <2>1, <2>7
    <3>2. CASE u # t
      BY <3>2, <2>1, <2>4, <2>5, <2>6 DEF OneByOne
    <3> QED BY <3>1, <3>2
  <2> QED BY <2>3, <2>4, <2>5, <2>6, <2>8 DEF OneByOne
<1>10. ReplayedInOrder'
  BY DEF IInv, TypeOK, Reload, ReplayedInOrder
<1> QED BY <1>1, <1>2, <1>4, <1>5, <1>6, <1>7, <1>8, <1>9, <1>10 DEF IInv

LEMMA ClearIInv ==
  ASSUME UniqueIds, Locked, IInv, Clear
  PROVE  IInv'
<1> USE DEF callVars, flushVars, envVars, vars
<1>1. TypeOK'
  <2>1. Stored \subseteq Op
    BY ItemFields DEF IInv, TypeOK, Stored
  <2> QED BY <2>1 DEF IInv, TypeOK, Clear
<1>2. CallsSound'
  BY DEF IInv, TypeOK, Clear, Stored, CallsSound, Sent
<1>4. ItemsSound'
  BY DEF IInv, TypeOK, Clear, Stored, ItemsSound, Known
<1>5. FlushSound'
  BY DEF IInv, TypeOK, Clear, Stored, FlushSound
<1>6. ReplayedSound'
  BY DEF IInv, TypeOK, Clear, Stored, ReplayedSound, ToReplay
<1>7. NothingLost'
  BY DEF IInv, TypeOK, Clear, Stored, NothingLost, Stored
<1>8. ReplayedOnce'
  BY DEF IInv, TypeOK, Clear, Stored, ReplayedOnce
<1>9. OrderSound'
  BY OrderStays DEF Clear
<1>10. ReplayedInOrder'
  BY DEF IInv, TypeOK, Clear, Stored, ReplayedInOrder
<1> QED BY <1>1, <1>2, <1>4, <1>5, <1>6, <1>7, <1>8, <1>9, <1>10 DEF IInv

-----------------------------------------------------------------------------
LEMMA InitIInv == Init => IInv
<1> SUFFICES ASSUME Init PROVE IInv
  OBVIOUS
<1>1. NoItem \in Item /\ MaxCrashes \in Nat
  BY QueueAssumption, ItemFields DEF NoItem, Op
<1>2. TypeOK
  BY <1>1 DEF Init, TypeOK
<1>3. ToSet(<<>>) = {}
  BY DEF ToSet
<1>4. CallsSound
  BY DEF Init, CallsSound, Sent
<1>5. ItemsSound /\ FlushSound
  BY <1>3 DEF Init, ItemsSound, FlushSound
<1>6. ReplayedSound
  BY <1>3 DEF Init, ReplayedSound
<1>7. NothingLost /\ ReplayedOnce /\ ReplayedInOrder
  BY DEF Init, NothingLost, ReplayedOnce, ReplayedInOrder
<1>8. OrderSound
  BY <1>3 DEF Init, OrderSound, OneByOne
<1> QED BY <1>2, <1>4, <1>5, <1>6, <1>7, <1>8 DEF IInv

LEMMA NextIInv == UniqueIds /\ Locked /\ IInv /\ [Next]_vars => IInv'
<1> SUFFICES ASSUME UniqueIds, Locked, IInv, [Next]_vars PROVE IInv'
  OBVIOUS
<1>1. ASSUME NEW o \in Op,
             Check(o) \/ Refuse(o) \/ Push(o) \/ PushAborts(o) \/ Expire(o)
      PROVE  IInv'
  BY <1>1, CheckIInv, RefuseIInv, PushIInv, PushAbortsIInv, ExpireIInv
<1>2. ASSUME NEW t \in Tab,
             StartFlush(t) \/ StartBatch(t) \/ EndFlush(t) \/ FlushFails(t) \/ Reload(t)
      PROVE  IInv'
  BY <1>2, StartFlushIInv, StartBatchIInv, EndFlushIInv, FlushFailsIInv, ReloadIInv
<1>3. ASSUME NEW t \in Tab, NEW i \in stale[t], RemoveExpired(t, i) \/ ExpiredStays(t, i)
      PROVE  IInv'
  BY <1>3, RemoveExpiredIInv, ExpiredStaysIInv
<1>4. ASSUME NEW t \in Tab, NEW i \in batch[t], Replay(t, i) \/ ReplayFails(t, i) PROVE IInv'
  BY <1>4, ReplayIInv, ReplayFailsIInv
<1>5. ASSUME NEW t \in Tab, NEW i \in removing[t],
             RemoveReplayed(t, i) \/ RemoveFails(t, i)
      PROVE  IInv'
  BY <1>5, RemoveReplayedIInv, RemoveFailsIInv
<1>6. CASE Clear
  BY <1>6, ClearIInv
<1>7. CASE UNCHANGED vars
  <2>1. TypeOK'
    BY <1>7 DEF vars, callVars, flushVars, envVars, IInv, TypeOK
  <2>2. CallsSound' /\ ItemsSound'
    BY <1>7 DEF vars, callVars, flushVars, envVars, IInv, CallsSound, Sent,
       ItemsSound, Known
  <2>3. FlushSound'
    BY <1>7 DEF vars, flushVars, IInv, FlushSound
  <2>4. ReplayedSound' /\ NothingLost' /\ ReplayedOnce' /\ ReplayedInOrder'
    BY <1>7 DEF vars, callVars, flushVars, envVars, IInv, ReplayedSound, ToReplay,
       NothingLost, Stored, ReplayedOnce, ReplayedInOrder
  <2>5. OrderSound'
    BY <1>7, OrderStays DEF vars, callVars, flushVars, envVars
  <2> QED BY <2>1, <2>2, <2>3, <2>4, <2>5 DEF IInv
<1> QED BY <1>1, <1>2, <1>3, <1>4, <1>5, <1>6, <1>7 DEF Next, Flush

-----------------------------------------------------------------------------
(* The theorems. *)

\* Calls, flushes of several tabs, expiry, clear(), rejected replays, failing
\* writes to the storage and closed tabs preserve the invariant at every step
\* (middleware/offlineQueue.ts).
THEOREM InductiveInvariant ==
  ASSUME UniqueIds, Locked
  PROVE  Spec => []IInv
<1>1. Init => IInv
  BY InitIInv
<1>2. IInv /\ [Next]_vars => IInv'
  BY NextIInv
<1> QED BY <1>1, <1>2, PTL DEF Spec

\* What a caller was told is queued stays in the storage until the server
\* answered it, it expired or it was cleared, unless the transaction of its
\* push() was aborted; and no mutation is replayed twice, unless a replay
\* rejected, its removal failed, or its tab was closed before it was removed.
THEOREM QueueIsSafe ==
  ASSUME UniqueIds, Locked
  PROVE  Spec => []Safety
<1>1. IInv => Safety
  BY DEF IInv, Safety
<1> QED BY <1>1, InductiveInvariant, PTL

\* Replayed one by one, a mutation does not reach the server before one of its
\* priority that its caller knew to be queued at an earlier millisecond, unless
\* the replay or the removal of that one failed, across flushes and reloads.
THEOREM ReplaysAreOrdered ==
  ASSUME UniqueIds, Locked
  PROVE  Spec => []ReplayedInOrder
<1>1. IInv => ReplayedInOrder
  BY DEF IInv
<1> QED BY <1>1, InductiveInvariant, PTL
=============================================================================
