--------------------------- MODULE NativePoolProofs ---------------------------
(* TLAPS proofs about NativePool. *)
EXTENDS NativePool, FiniteSetTheorems, SequenceTheorems, TLAPS

LEMMA FrontFacts ==
  ASSUME NEW S, NEW q \in Seq(S), q # <<>>
  PROVE  /\ Len(q) \in Nat \ {0}
         /\ Front(q) \in Seq(S) /\ Len(Front(q)) = Len(q) - 1
         /\ \A i \in 1 .. Len(q) - 1 : Front(q)[i] = q[i]
         /\ Last(q) = q[Len(q)] /\ Last(q) \in S
<1>1. Len(q) \in Nat \ {0} /\ \A i \in 1 .. Len(q) : q[i] \in S
  BY EmptySeq, ElementOfSeq
<1>2. /\ SubSeq(q, 1, Len(q) - 1) \in Seq(S)
      /\ Len(SubSeq(q, 1, Len(q) - 1)) = Len(q) - 1
      /\ \A i \in 1 .. Len(q) - 1 : SubSeq(q, 1, Len(q) - 1)[i] = q[i]
  BY <1>1, SubSeqProperties
<1> QED BY <1>1, <1>2 DEF Front, Last

LEMMA AppendFacts ==
  ASSUME NEW S, NEW q \in Seq(S), NEW e \in S
  PROVE  /\ Append(q, e) \in Seq(S) /\ Append(q, e) # <<>>
         /\ Len(q) \in Nat /\ Len(Append(q, e)) = Len(q) + 1
         /\ Append(q, e)[Len(q) + 1] = e
         /\ \A i \in 1 .. Len(q) : Append(q, e)[i] = q[i] /\ i \in 1 .. Len(q) + 1
         /\ \A i \in 1 .. Len(q) + 1 : i \in 1 .. Len(q) \/ i = Len(q) + 1
<1>1. Len(q) \in Nat
  BY LenProperties
<1> QED BY <1>1, AppendProperties

LEMMA TailFacts ==
  ASSUME NEW S, NEW q \in Seq(S), q # <<>>
  PROVE  /\ Len(q) \in Nat \ {0}
         /\ Tail(q) \in Seq(S) /\ Len(Tail(q)) = Len(q) - 1
         /\ Head(q) = q[1] /\ Head(q) \in S
         /\ \A i \in 1 .. Len(q) - 1 : Tail(q)[i] = q[i + 1] /\ i + 1 \in 2 .. Len(q)
         /\ \A i \in 2 .. Len(q) : i - 1 \in 1 .. Len(q) - 1 /\ Tail(q)[i - 1] = q[i]
<1>1. Len(q) \in Nat \ {0}
  BY EmptySeq
<1>2. /\ Head(q) \in S /\ Tail(q) \in Seq(S) /\ Len(Tail(q)) = Len(q) - 1
      /\ \A i \in 1 .. Len(q) - 1 : Tail(q)[i] = q[i + 1]
  BY <1>1, HeadTailProperties
<1>3. \A i \in 2 .. Len(q) : i - 1 \in 1 .. Len(q) - 1 /\ (i - 1) + 1 = i
  BY <1>1
<1> QED BY <1>1, <1>2, <1>3

-----------------------------------------------------------------------------
(* The tasks that use a driver. *)

LEMMA UsingFinite == IsFiniteSet(Using) /\ Cardinality(Using) \in Nat
<1>1. Using \in SUBSET Task
  BY DEF Using
<1> QED BY <1>1, PoolAssumption, FS_Subset, FS_CardinalityType

LEMMA LineTypes ==
  ASSUME TypeOK
  PROVE  /\ Len(pool) \in Nat /\ Len(queue) \in Nat
         /\ \A i \in 1 .. Len(pool) : pool[i] \in Driver
         /\ \A i \in 1 .. Len(queue) : queue[i] \in Task
  BY LenProperties, ElementOfSeq DEF TypeOK

\* A task that is given a driver nobody has, and that leaves the stack.
LEMMA GivenHeld ==
  ASSUME TypeOK, HeldSound, NEW t \in Task, phase[t] = "idle",
         NEW d \in Driver, Given(t, d), d \in created', repeated' = repeated,
         d \notin repeated =>
           /\ \A i \in 1 .. Len(pool') : pool'[i] # d
           /\ \A u \in Using : driver[u] # d,
         \A u \in Using :
           /\ driver[u] \in created'
           /\ driver[u] \notin repeated => \A i \in 1 .. Len(pool') : pool'[i] # driver[u]
  PROVE  HeldSound' /\ Using' = Using \cup {t} /\ t \notin Using
<1>1. Using' = Using \cup {t} /\ t \notin Using
  BY DEF Given, Using, TypeOK
<1>2. driver'[t] = d /\ \A u \in Using : driver'[u] = driver[u]
  BY <1>1 DEF Given, TypeOK, Using
<1>3. HeldSound'
  BY <1>1, <1>2 DEF HeldSound
<1> QED BY <1>1, <1>3

\* As long as no task starts or stops waiting the queue stays sound.
LEMMA QueueUnchanged ==
  ASSUME TypeOK, QueueSound, WaitersListed, queue' = queue,
         \A t \in Task : phase'[t] = "waiting" <=> phase[t] = "waiting"
  PROVE  QueueSound' /\ WaitersListed'
<1>1. QueueSound'
  BY LineTypes DEF QueueSound
<1>2. WaitersListed'
  BY DEF WaitersListed
<1> QED BY <1>1, <1>2

-----------------------------------------------------------------------------
(* IInv is inductive: one lemma per action. *)

LEMMA InitIInv == Init => IInv
<1> SUFFICES ASSUME Init PROVE IInv
  OBVIOUS
<1>1. Using = {} /\ Len(pool) = 0 /\ Len(queue) = 0
  BY EmptySeq DEF Init, Using
<1>2. TypeOK
  <2>1. /\ pool \in Seq(Driver) /\ activeCount \in Int /\ queue \in Seq(Task)
        /\ repeats \in Nat
    BY EmptySeq DEF Init
  <2>2. /\ phase \in [Task -> Phase] /\ job \in [Task -> {"query", "listen"}]
        /\ caller \in [Task -> Task \cup {NoTask}]
        /\ driver \in [Task -> Driver \cup {NoDriver}]
    BY DEF Init, Phase
  <2>3. /\ created \in SUBSET Driver /\ closing \in BOOLEAN /\ ending \in BOOLEAN
        /\ unlistened \in SUBSET Driver /\ repeated \in SUBSET Driver
    BY Zenon DEF Init
  <2> QED BY <2>1, <2>2, <2>3 DEF TypeOK
<1>3. ActiveAccounted /\ SizeBounded
  BY <1>1, FS_EmptySet, PoolAssumption DEF Init, ActiveAccounted, SizeBounded
<1>4. QueueSound /\ WaitersListed /\ IdleSound /\ HeldSound /\ LineInv /\ RepeatedSound
  BY <1>1 DEF Init, RepeatedSound, QueueSound, WaitersListed, IdleSound, HeldSound, LineInv
<1> QED BY <1>2, <1>3, <1>4 DEF IInv

LEMMA AcquireIdleIInv ==
  ASSUME IInv, NEW t \in Task, NEW j \in {"query", "listen"},
         NEW c \in Task \cup {NoTask}, AcquireIdle(t, j, c)
  PROVE  IInv'
<1> DEFINE d == Last(pool)
<1> USE DEF IInv, AcquireIdle, Called, endVars, listenVars
<1>1. /\ Len(pool) \in Nat \ {0} /\ pool' \in Seq(Driver) /\ d \in Driver
      /\ Len(pool') = Len(pool) - 1 /\ d = pool[Len(pool)]
      /\ \A i \in 1 .. Len(pool') : pool'[i] = pool[i] /\ i \in 1 .. Len(pool)
                                    /\ i # Len(pool)
  <2>1. pool \in Seq(Driver) /\ pool # <<>> /\ pool' = Front(pool)
    BY DEF TypeOK
  <2>2. /\ Len(pool) \in Nat \ {0}
        /\ Front(pool) \in Seq(Driver) /\ Len(Front(pool)) = Len(pool) - 1
        /\ \A i \in 1 .. Len(pool) - 1 : Front(pool)[i] = pool[i]
        /\ d = pool[Len(pool)] /\ d \in Driver
    BY <2>1, FrontFacts
  <2> HIDE DEF d
  <2> QED BY <2>1, <2>2
<1>2. TypeOK'
  BY <1>1 DEF TypeOK, Given, Phase
<1>3. /\ IdleSound' /\ d \in created
      /\ d \notin repeated => \A i \in 1 .. Len(pool') : pool'[i] # d
  <2>1. Len(pool) \in 1 .. Len(pool)
    BY <1>1
  <2> QED BY <1>1, <2>1 DEF IdleSound
<1>4. HeldSound' /\ Using' = Using \cup {t} /\ t \notin Using
  <2>1. Len(pool) \in 1 .. Len(pool)
    BY <1>1
  <2>2. \A u \in Using :
          /\ driver[u] \in created'
          /\ driver[u] \notin repeated =>
               driver[u] # d /\ \A i \in 1 .. Len(pool') : pool'[i] # driver[u]
    BY <1>1, <2>1 DEF HeldSound
  <2>3. TypeOK /\ HeldSound /\ phase[t] = "idle" /\ Given(t, d) /\ d \in Driver
        /\ d \in created' /\ repeated' = repeated
    BY <1>1, <1>3
  <2> HIDE DEF d, IInv, AcquireIdle, Called
  <2> QED BY <1>3, <2>2, <2>3, GivenHeld
<1>5. ActiveAccounted' /\ SizeBounded'
  <2>1. Cardinality(Using') = Cardinality(Using) + 1 /\ Cardinality(Using) \in Nat
    BY <1>4, UsingFinite, FS_AddElement
  <2>2. repeats \in Nat /\ repeats' = repeats /\ activeCount' = activeCount + 1
        /\ activeCount \in Int
    BY DEF TypeOK
  <2>3. ActiveAccounted'
    BY <2>1, <2>2 DEF ActiveAccounted
  <2> QED BY <1>1, <2>2, <2>3, PoolAssumption DEF SizeBounded
<1>6. QueueSound' /\ WaitersListed'
  BY QueueUnchanged DEF Given, TypeOK
<1>7. LineInv'
  BY DEF LineInv
<1>8. RepeatedSound'
  BY DEF RepeatedSound
<1> QED BY <1>2, <1>3, <1>4, <1>5, <1>6, <1>7, <1>8

LEMMA AcquireNewIInv ==
  ASSUME IInv, NEW t \in Task, NEW j \in {"query", "listen"},
         NEW c \in Task \cup {NoTask}, AcquireNew(t, j, c)
  PROVE  IInv'
<1> USE DEF IInv, AcquireNew, Called, endVars, listenVars
<1>1. NewDriver \in Driver \ created
  BY DEF NewDriver, TypeOK
<1>2. TypeOK'
  BY <1>1 DEF TypeOK, Given, Phase
<1>3. IdleSound' /\ \A i \in 1 .. Len(pool') : pool'[i] # NewDriver
  BY <1>1 DEF IdleSound
<1>4. HeldSound' /\ Using' = Using \cup {t} /\ t \notin Using
  <2>1. \A u \in Using :
          /\ driver[u] # NewDriver /\ driver[u] \in created'
          /\ driver[u] \notin repeated => \A i \in 1 .. Len(pool') : pool'[i] # driver[u]
    BY <1>1, EmptySeq DEF HeldSound
  <2> QED BY <1>1, <1>3, <2>1, GivenHeld
<1>5. ActiveAccounted' /\ SizeBounded'
  <2>1. Cardinality(Using') = Cardinality(Using) + 1 /\ Cardinality(Using) \in Nat
    BY <1>4, UsingFinite, FS_AddElement
  <2>2. Len(pool) = 0 /\ pool' = pool
    BY EmptySeq
  <2>3. repeats \in Nat /\ repeats' = repeats /\ activeCount' = activeCount + 1
        /\ activeCount \in Int
    BY DEF TypeOK
  <2>4. ActiveAccounted'
    BY <2>1, <2>3 DEF ActiveAccounted
  <2> QED BY <2>2, <2>3, <2>4, PoolAssumption DEF SizeBounded
<1>6. QueueSound' /\ WaitersListed'
  BY QueueUnchanged DEF Given, TypeOK
<1>7. LineInv'
  BY PoolAssumption DEF LineInv, TypeOK
<1>8. RepeatedSound'
  BY DEF RepeatedSound
<1> QED BY <1>2, <1>3, <1>4, <1>5, <1>6, <1>7, <1>8

LEMMA AcquireWaitIInv ==
  ASSUME IInv, NEW t \in Task, NEW j \in {"query", "listen"},
         NEW c \in Task \cup {NoTask}, AcquireWait(t, j, c)
  PROVE  IInv'
<1> USE DEF IInv, AcquireWait, Called, endVars, listenVars
<1>1. /\ queue \in Seq(Task) /\ queue' \in Seq(Task) /\ queue' # <<>>
      /\ Len(queue) \in Nat /\ Len(queue') = Len(queue) + 1
      /\ queue'[Len(queue) + 1] = t
      /\ \A i \in 1 .. Len(queue) :
           queue'[i] = queue[i] /\ i \in 1 .. Len(queue')
      /\ \A i \in 1 .. Len(queue') : i \in 1 .. Len(queue) \/ i = Len(queue) + 1
  BY AppendFacts DEF TypeOK
<1>2. TypeOK'
  BY <1>1 DEF TypeOK, Phase
<1>3. Using' = Using /\ phase'[t] = "waiting" /\ phase[t] = "idle"
      /\ \A u \in Task \ {t} : phase'[u] = phase[u]
  BY DEF Using, TypeOK
<1>4. ActiveAccounted' /\ SizeBounded' /\ IdleSound'
  BY <1>3 DEF ActiveAccounted, SizeBounded, IdleSound
<1>5. HeldSound'
  BY <1>3 DEF HeldSound
<1>6. \A i \in 1 .. Len(queue) : queue[i] \in Task \ {t}
  BY <1>3, LineTypes DEF QueueSound
<1>7. QueueSound'
  <2> SUFFICES ASSUME NEW i \in 1 .. Len(queue')
               PROVE  /\ phase'[queue'[i]] = "waiting"
                      /\ \A k \in 1 .. Len(queue') : queue'[k] = queue'[i] => k = i
    BY DEF QueueSound
  <2> QED BY <1>1, <1>3, <1>6 DEF QueueSound
<1>8. WaitersListed'
  <2> SUFFICES ASSUME NEW u \in Task, phase'[u] = "waiting"
               PROVE  \E i \in 1 .. Len(queue') : queue'[i] = u
    BY DEF WaitersListed
  <2>1. CASE u = t
    <3>1. Len(queue) + 1 \in 1 .. Len(queue')
      BY <1>1
    <3> QED BY <1>1, <2>1, <3>1
  <2>2. CASE u # t
    BY <1>1, <1>3, <2>2 DEF WaitersListed
  <2> QED BY <2>1, <2>2
<1>9. LineInv'
  <2>1. Len(pool) = 0
    BY EmptySeq
  <2> QED BY <2>1, PoolAssumption DEF LineInv, SizeBounded, TypeOK
<1>10. RepeatedSound'
  BY DEF RepeatedSound
<1> QED BY <1>2, <1>4, <1>5, <1>7, <1>8, <1>9, <1>10

\* release() while somebody waits: the driver changes hands.
LEMMA HandOverStep ==
  ASSUME IInv, NEW t \in Task, Finish(t), queue # <<>>
  PROVE  LET h == Head(queue)
         IN /\ h \in Task \ {t} /\ phase[h] = "waiting" /\ phase[t] = "busy"
            /\ queue' = Tail(queue)
            /\ UNCHANGED <<activeCount, pool>>
            /\ phase'[t] = "idle" /\ phase'[h] = "busy"
            /\ driver'[h] = driver[t]
            /\ \A u \in Task \ {t, h} : phase'[u] = phase[u] /\ driver'[u] = driver[u]
            /\ Using' = (Using \ {t}) \cup {h}
            /\ t \in Using /\ h \notin Using /\ UNCHANGED <<created, listenVars>>
<1> DEFINE h == Head(queue)
<1>1. h = queue[1] /\ h \in Task /\ 1 \in 1 .. Len(queue)
  BY TailFacts DEF IInv, TypeOK
<1>2. h \in Task \ {t} /\ phase[h] = "waiting" /\ phase[t] = "busy"
  BY <1>1 DEF IInv, QueueSound, Finish
<1> HIDE DEF h
<1>3. /\ queue' = Tail(queue)
      /\ phase' = [phase EXCEPT ![t] = "idle", ![h] = "busy"]
      /\ driver' = [driver EXCEPT ![t] = NoDriver, ![h] = driver[t]]
      /\ UNCHANGED <<activeCount, pool, created, listenVars>>
  BY DEF Finish, Release, h
<1>4. /\ phase'[t] = "idle" /\ phase'[h] = "busy" /\ driver'[h] = driver[t]
      /\ \A u \in Task \ {t, h} : phase'[u] = phase[u] /\ driver'[u] = driver[u]
  BY <1>2, <1>3 DEF IInv, TypeOK
<1>5. Using' = (Using \ {t}) \cup {h} /\ t \in Using /\ h \notin Using
  BY <1>2, <1>4 DEF Using
<1> QED BY <1>2, <1>3, <1>4, <1>5 DEF h

LEMMA HandOverIInv ==
  ASSUME IInv, NEW t \in Task, Finish(t), queue # <<>>
  PROVE  IInv'
<1> DEFINE h == Head(queue)
<1>1. /\ h \in Task \ {t} /\ phase[h] = "waiting" /\ phase[t] = "busy"
      /\ queue' = Tail(queue)
      /\ UNCHANGED <<activeCount, pool>>
      /\ phase'[t] = "idle" /\ phase'[h] = "busy" /\ driver'[h] = driver[t]
      /\ \A u \in Task \ {t, h} : phase'[u] = phase[u] /\ driver'[u] = driver[u]
      /\ Using' = (Using \ {t}) \cup {h} /\ t \in Using /\ h \notin Using
      /\ created' = created /\ repeated' = repeated /\ repeats' = repeats
      /\ unlistened' = unlistened
  BY HandOverStep DEF listenVars
<1>2. /\ Len(queue) \in Nat \ {0} /\ h = queue[1]
      /\ queue' \in Seq(Task) /\ Len(queue') = Len(queue) - 1
      /\ \A i \in 1 .. Len(queue') :
           queue'[i] = queue[i + 1] /\ i + 1 \in 2 .. Len(queue)
      /\ \A i \in 2 .. Len(queue) :
           i - 1 \in 1 .. Len(queue') /\ queue'[i - 1] = queue[i]
  BY <1>1, TailFacts DEF IInv, TypeOK
<1>3. TypeOK'
  <2>1. /\ phase' = [phase EXCEPT ![t] = "idle", ![h] = "busy"]
        /\ driver' = [driver EXCEPT ![t] = NoDriver, ![h] = driver[t]]
        /\ caller' = [caller EXCEPT ![t] = NoTask]
        /\ UNCHANGED <<job, created, closing, ending>>
    BY DEF Finish, Release, endVars, listenVars
  <2> HIDE DEF h
  <2> QED BY <1>1, <1>2, <2>1 DEF IInv, TypeOK, Phase
<1> HIDE DEF h
<1>4. ActiveAccounted'
  <2>1. Cardinality(Using \ {t}) = Cardinality(Using) - 1 /\ IsFiniteSet(Using \ {t})
    BY <1>1, UsingFinite, FS_RemoveElement
  <2>2. Cardinality(Using') = (Cardinality(Using) - 1) + 1
    BY <1>1, <2>1, FS_AddElement
  <2> QED BY <1>1, <2>2, UsingFinite DEF ActiveAccounted, IInv
<1>5. SizeBounded' /\ IdleSound'
  BY <1>1 DEF IInv, SizeBounded, IdleSound, Finish
<1>6. HeldSound'
  <2>1. \A u \in Using' : \E v \in Using : driver'[u] = driver[v]
                            /\ (u = h => v = t) /\ (u # h => v = u)
    BY <1>1 DEF Using
  <2>2. created' = created
    BY DEF Finish
  <2> QED BY <1>1, <2>1, <2>2 DEF IInv, HeldSound
<1>7. QueueSound'
  <2> SUFFICES ASSUME NEW i \in 1 .. Len(queue')
               PROVE  /\ phase'[queue'[i]] = "waiting"
                      /\ \A k \in 1 .. Len(queue') : queue'[k] = queue'[i] => k = i
    BY DEF QueueSound
  <2>1. \A m, n \in 1 .. Len(queue) :
          phase[queue[n]] = "waiting" /\ (queue[m] = queue[n] => m = n)
    BY DEF IInv, QueueSound
  <2>2. i + 1 \in 1 .. Len(queue) /\ 1 \in 1 .. Len(queue) /\ i + 1 # 1
        /\ queue'[i] = queue[i + 1]
    BY <1>2
  <2>3. queue'[i] \in Task \ {t, h} /\ phase[queue'[i]] = "waiting"
    BY <1>1, <1>2, <2>1, <2>2, LineTypes DEF IInv
  <2>4. ASSUME NEW k \in 1 .. Len(queue'), queue'[k] = queue'[i] PROVE k = i
    <3>1. k + 1 = i + 1
      BY <1>2, <2>1, <2>2, <2>4
    <3> QED BY <1>2, <3>1
  <2> QED BY <1>1, <2>3, <2>4
<1>8. WaitersListed'
  <2> SUFFICES ASSUME NEW u \in Task, phase'[u] = "waiting"
               PROVE  \E i \in 1 .. Len(queue') : queue'[i] = u
    BY DEF WaitersListed
  <2>1. phase[u] = "waiting" /\ u # h
    BY <1>1
  <2>2. PICK i \in 1 .. Len(queue) : queue[i] = u
    BY <2>1 DEF IInv, WaitersListed
  <2>3. i \in 2 .. Len(queue)
    BY <1>2, <2>1, <2>2
  <2> QED BY <1>2, <2>2, <2>3
<1>9. LineInv'
  BY <1>1 DEF IInv, LineInv
<1>10. RepeatedSound'
  BY <1>1 DEF IInv, RepeatedSound
<1> QED BY <1>3, <1>4, <1>5, <1>6, <1>7, <1>8, <1>9, <1>10 DEF IInv

\* release() while nobody waits: the driver goes back on the stack.
LEMMA PutBackStep ==
  ASSUME IInv, NEW t \in Task, Finish(t), queue = <<>>
  PROVE  /\ phase[t] = "busy" /\ queue' = queue
         /\ activeCount' = activeCount - 1 /\ pool' = Append(pool, driver[t])
         /\ phase'[t] = "idle"
         /\ \A u \in Task \ {t} : phase'[u] = phase[u] /\ driver'[u] = driver[u]
         /\ Using' = Using \ {t} /\ t \in Using
         /\ Cardinality(Using') = Cardinality(Using) - 1
         /\ UNCHANGED <<created, listenVars>>
<1>1. /\ phase[t] = "busy" /\ queue' = queue
      /\ activeCount' = activeCount - 1 /\ pool' = Append(pool, driver[t])
      /\ phase' = [phase EXCEPT ![t] = "idle"]
      /\ driver' = [driver EXCEPT ![t] = NoDriver]
      /\ UNCHANGED <<created, listenVars>>
  BY DEF Finish, Release
<1>2. /\ phase'[t] = "idle"
      /\ \A u \in Task \ {t} : phase'[u] = phase[u] /\ driver'[u] = driver[u]
  BY <1>1 DEF IInv, TypeOK
<1>3. Using' = Using \ {t} /\ t \in Using
  BY <1>1, <1>2 DEF Using
<1>4. Cardinality(Using') = Cardinality(Using) - 1
  BY <1>3, UsingFinite, FS_RemoveElement
<1> QED BY <1>1, <1>2, <1>3, <1>4

LEMMA PutBackIInv ==
  ASSUME IInv, NEW t \in Task, Finish(t), queue = <<>>
  PROVE  IInv'
<1> DEFINE d == driver[t]
<1>1. /\ phase[t] = "busy" /\ queue' = queue
      /\ activeCount' = activeCount - 1 /\ pool' = Append(pool, d)
      /\ phase'[t] = "idle"
      /\ \A u \in Task \ {t} : phase'[u] = phase[u] /\ driver'[u] = driver[u]
      /\ Using' = Using \ {t} /\ t \in Using
      /\ Cardinality(Using') = Cardinality(Using) - 1
      /\ created' = created /\ repeated' = repeated /\ repeats' = repeats
      /\ unlistened' = unlistened
  BY PutBackStep DEF listenVars
<1>2. /\ d \in created /\ d \in Driver
      /\ d \notin repeated =>
           /\ \A i \in 1 .. Len(pool) : pool[i] # d
           /\ \A u \in Using \ {t} : driver[u] # d
  BY <1>1 DEF Finish, IInv, HeldSound, TypeOK
<1>3. activeCount \in Int /\ repeats \in Nat /\ Cardinality(Using) \in Nat
  BY UsingFinite DEF IInv, TypeOK
<1> HIDE DEF d
<1>4. /\ Len(pool) \in Nat /\ pool' \in Seq(Driver) /\ Len(pool') = Len(pool) + 1
      /\ pool'[Len(pool) + 1] = d
      /\ \A i \in 1 .. Len(pool) : pool'[i] = pool[i]
      /\ \A i \in 1 .. Len(pool') : i \in 1 .. Len(pool) \/ i = Len(pool) + 1
  BY <1>1, <1>2, AppendFacts DEF IInv, TypeOK
<1>5. TypeOK'
  <2>1. activeCount' \in Int
    BY <1>1, <1>3
  <2> QED BY <1>1, <1>4, <2>1, PoolAssumption
          DEF IInv, TypeOK, Finish, Release, Phase, endVars, listenVars
<1>6. ActiveAccounted' /\ SizeBounded'
  BY <1>1, <1>3, <1>4, PoolAssumption DEF IInv, ActiveAccounted, SizeBounded
<1>7. IdleSound'
  <2> SUFFICES ASSUME NEW i \in 1 .. Len(pool')
               PROVE  /\ pool'[i] \in created
                      /\ \A j \in 1 .. Len(pool') :
                           pool'[j] = pool'[i] /\ pool'[i] \notin repeated => j = i
    BY <1>1, <1>2 DEF IdleSound
  <2> QED BY <1>2, <1>4 DEF IInv, IdleSound
<1>8. HeldSound'
  <2>1. \A u \in Using' : u \in Using \ {t} /\ driver'[u] = driver[u]
    BY <1>1 DEF Using
  <2>2. \A u \in Using', i \in 1 .. Len(pool') :
          driver[u] \notin repeated => pool'[i] # driver[u]
    BY <1>2, <1>4, <2>1 DEF IInv, HeldSound
  <2> QED BY <1>1, <1>2, <2>1, <2>2 DEF IInv, HeldSound
<1>9. QueueSound' /\ WaitersListed'
  <2>1. \A u \in Task : phase'[u] = "waiting" <=> phase[u] = "waiting"
    BY <1>1
  <2> QED BY <1>1, <2>1, QueueUnchanged DEF IInv
<1>10. LineInv'
  BY <1>1 DEF LineInv
<1>11. RepeatedSound'
  BY <1>1 DEF IInv, RepeatedSound
<1> QED BY <1>5, <1>6, <1>7, <1>8, <1>9, <1>10, <1>11 DEF IInv

\* listen() settles or is undone: its task goes on using the driver.
LEMMA ListenerIInv ==
  ASSUME IInv, NEW t \in Task, ListenSucceeds(t) \/ ListenFails(t) \/ Unlisten(t)
  PROVE  IInv'
<1>0. /\ driver[t] \in created /\ t \in Using
      /\ unlistened' \in {unlistened, unlistened \cup {driver[t]}}
      /\ created' = created /\ repeated' = repeated /\ repeats' = repeats
  BY DEF IInv, HeldSound, Using, Unlisten, ListenSucceeds, ListenFails, ListenSettles,
         listenVars
<1> USE DEF ListenSucceeds, ListenFails, ListenSettles, Unlisten, IInv, endVars, listenVars
<1>1. TypeOK'
  <2>1. unlistened' \in SUBSET Driver
    BY <1>0 DEF TypeOK
  <2> QED BY <2>1 DEF TypeOK, Phase
<1>2. /\ Using' = Using
      /\ \A u \in Task : phase'[u] = "waiting" <=> phase[u] = "waiting"
  BY DEF Using, TypeOK
<1>3. ActiveAccounted' /\ SizeBounded' /\ IdleSound' /\ LineInv'
  BY <1>2 DEF ActiveAccounted, SizeBounded, IdleSound, LineInv
<1>4. HeldSound'
  BY <1>2 DEF HeldSound
<1>5. QueueSound' /\ WaitersListed'
  BY <1>2, QueueUnchanged
<1>6. RepeatedSound'
  BY <1>0 DEF RepeatedSound
<1> QED BY <1>1, <1>3, <1>4, <1>5, <1>6

\* The same two cases when a listener is undone again, by nobody who holds the
\* driver: one task more has it, or it is on the stack, and it is marked.
LEMMA SignalFacts ==
  ASSUME IInv, NEW d \in Driver, UnlistenAgain(d)
  PROVE  /\ repeats \in Nat /\ repeats' = repeats + 1 /\ repeated' = repeated \cup {d}
         /\ d \in created /\ created' = created /\ unlistened' = unlistened
         /\ UNCHANGED <<job, caller, endVars>>
         /\ RepeatedSound'
  BY DEF IInv, TypeOK, UnlistenAgain, RepeatedSound

LEMMA SignalHandsOver ==
  ASSUME IInv, NEW d \in Driver, UnlistenAgain(d), queue # <<>>
  PROVE  LET h == Head(queue)
         IN /\ h \in Task /\ phase[h] = "waiting" /\ queue' = Tail(queue)
            /\ UNCHANGED <<activeCount, pool>>
            /\ phase' = [phase EXCEPT ![h] = "busy"] /\ driver' = [driver EXCEPT ![h] = d]
            /\ phase'[h] = "busy" /\ driver'[h] = d
            /\ \A u \in Task \ {h} : phase'[u] = phase[u] /\ driver'[u] = driver[u]
            /\ Using' = Using \cup {h} /\ h \notin Using
<1> DEFINE h == Head(queue)
<1>1. h = queue[1] /\ h \in Task /\ 1 \in 1 .. Len(queue)
  BY TailFacts DEF IInv, TypeOK
<1>2. phase[h] = "waiting"
  BY <1>1 DEF IInv, QueueSound
<1> HIDE DEF h
<1>3. /\ queue' = Tail(queue) /\ UNCHANGED <<activeCount, pool>>
      /\ phase' = [phase EXCEPT ![h] = "busy"] /\ driver' = [driver EXCEPT ![h] = d]
  BY DEF UnlistenAgain, Given, h
<1>4. /\ phase'[h] = "busy" /\ driver'[h] = d
      /\ \A u \in Task \ {h} : phase'[u] = phase[u] /\ driver'[u] = driver[u]
  BY <1>1, <1>3 DEF IInv, TypeOK
<1>5. Using' = Using \cup {h} /\ h \notin Using
  BY <1>1, <1>2, <1>4 DEF Using
<1> QED BY <1>1, <1>2, <1>3, <1>4, <1>5 DEF h

LEMMA SignalHandsOverIInv ==
  ASSUME IInv, NEW d \in Driver, UnlistenAgain(d), queue # <<>>
  PROVE  IInv'
<1> DEFINE h == Head(queue)
<1>1. /\ h \in Task /\ phase[h] = "waiting" /\ queue' = Tail(queue)
      /\ UNCHANGED <<activeCount, pool>>
      /\ phase' = [phase EXCEPT ![h] = "busy"] /\ driver' = [driver EXCEPT ![h] = d]
      /\ phase'[h] = "busy" /\ driver'[h] = d
      /\ \A u \in Task \ {h} : phase'[u] = phase[u] /\ driver'[u] = driver[u]
      /\ Using' = Using \cup {h} /\ h \notin Using
  BY SignalHandsOver
<1>2. /\ repeats \in Nat /\ repeats' = repeats + 1 /\ repeated' = repeated \cup {d}
      /\ d \in created /\ created' = created /\ unlistened' = unlistened
      /\ UNCHANGED <<job, caller, endVars>> /\ RepeatedSound'
  BY SignalFacts
<1>3. /\ Len(queue) \in Nat \ {0} /\ h = queue[1]
      /\ queue' \in Seq(Task) /\ Len(queue') = Len(queue) - 1
      /\ \A i \in 1 .. Len(queue') :
           queue'[i] = queue[i + 1] /\ i + 1 \in 2 .. Len(queue)
      /\ \A i \in 2 .. Len(queue) :
           i - 1 \in 1 .. Len(queue') /\ queue'[i - 1] = queue[i]
  BY <1>1, TailFacts DEF IInv, TypeOK
<1> HIDE DEF h
<1>4. TypeOK'
  BY <1>1, <1>2, <1>3 DEF IInv, TypeOK, Phase, endVars
<1>5. ActiveAccounted'
  <2>1. Cardinality(Using') = Cardinality(Using) + 1 /\ Cardinality(Using) \in Nat
    BY <1>1, UsingFinite, FS_AddElement
  <2> QED BY <1>1, <1>2, <2>1 DEF ActiveAccounted, IInv
<1>6. SizeBounded' /\ IdleSound' /\ LineInv'
  <2>1. SizeBounded'
    BY <1>1 DEF IInv, SizeBounded
  <2>2. IdleSound'
    BY <1>1, <1>2 DEF IInv, IdleSound
  <2>3. LineInv'
    BY <1>1 DEF IInv, LineInv
  <2> QED BY <2>1, <2>2, <2>3
<1>7. HeldSound'
  <2>1. \A u \in Using : u # h /\ u \in Task /\ driver'[u] = driver[u]
    BY <1>1 DEF Using
  <2> QED BY <1>1, <1>2, <2>1 DEF IInv, HeldSound
<1>8. QueueSound'
  <2> SUFFICES ASSUME NEW i \in 1 .. Len(queue')
               PROVE  /\ phase'[queue'[i]] = "waiting"
                      /\ \A k \in 1 .. Len(queue') : queue'[k] = queue'[i] => k = i
    BY DEF QueueSound
  <2>1. \A m, n \in 1 .. Len(queue) :
          phase[queue[n]] = "waiting" /\ (queue[m] = queue[n] => m = n)
    BY DEF IInv, QueueSound
  <2>2. i + 1 \in 1 .. Len(queue) /\ 1 \in 1 .. Len(queue) /\ i + 1 # 1
        /\ queue'[i] = queue[i + 1]
    BY <1>3
  <2>3. queue'[i] \in Task \ {h} /\ phase[queue'[i]] = "waiting"
    BY <1>1, <1>3, <2>1, <2>2, LineTypes DEF IInv
  <2>4. ASSUME NEW k \in 1 .. Len(queue'), queue'[k] = queue'[i] PROVE k = i
    <3>1. k + 1 = i + 1
      BY <1>3, <2>1, <2>2, <2>4
    <3> QED BY <1>3, <3>1
  <2> QED BY <1>1, <2>3, <2>4
<1>9. WaitersListed'
  <2> SUFFICES ASSUME NEW u \in Task, phase'[u] = "waiting"
               PROVE  \E i \in 1 .. Len(queue') : queue'[i] = u
    BY DEF WaitersListed
  <2>1. phase[u] = "waiting" /\ u # h
    BY <1>1
  <2>2. PICK i \in 1 .. Len(queue) : queue[i] = u
    BY <2>1 DEF IInv, WaitersListed
  <2>3. i \in 2 .. Len(queue)
    BY <1>3, <2>1, <2>2
  <2> QED BY <1>3, <2>2, <2>3
<1> QED BY <1>2, <1>4, <1>5, <1>6, <1>7, <1>8, <1>9 DEF IInv

LEMMA SignalPutsBack ==
  ASSUME IInv, NEW d \in Driver, UnlistenAgain(d), queue = <<>>
  PROVE  /\ UNCHANGED <<queue, phase, driver>> /\ Using' = Using
         /\ activeCount' = activeCount - 1 /\ pool' = Append(pool, d)
  BY DEF UnlistenAgain, Using

LEMMA SignalPutsBackIInv ==
  ASSUME IInv, NEW d \in Driver, UnlistenAgain(d), queue = <<>>
  PROVE  IInv'
<1>1. /\ UNCHANGED <<queue, phase, driver>> /\ Using' = Using
      /\ activeCount' = activeCount - 1 /\ pool' = Append(pool, d)
  BY SignalPutsBack
<1>2. /\ repeats \in Nat /\ repeats' = repeats + 1 /\ repeated' = repeated \cup {d}
      /\ d \in created /\ created' = created /\ unlistened' = unlistened
      /\ UNCHANGED <<job, caller, endVars>> /\ RepeatedSound'
  BY SignalFacts
<1>3. /\ Len(pool) \in Nat /\ pool' \in Seq(Driver) /\ Len(pool') = Len(pool) + 1
      /\ pool'[Len(pool) + 1] = d
      /\ \A i \in 1 .. Len(pool) : pool'[i] = pool[i]
      /\ \A i \in 1 .. Len(pool') : i \in 1 .. Len(pool) \/ i = Len(pool) + 1
  BY <1>1, AppendFacts DEF IInv, TypeOK
<1>4. TypeOK'
  BY <1>1, <1>2, <1>3 DEF IInv, TypeOK, endVars
<1>5. ActiveAccounted' /\ SizeBounded'
  <2>1. Cardinality(Using) \in Nat /\ activeCount \in Int
    BY UsingFinite DEF IInv, TypeOK
  <2> QED BY <1>1, <1>2, <1>3, <2>1, PoolAssumption DEF IInv, ActiveAccounted, SizeBounded
<1>6. IdleSound'
  <2> SUFFICES ASSUME NEW i \in 1 .. Len(pool')
               PROVE  /\ pool'[i] \in created
                      /\ \A j \in 1 .. Len(pool') :
                           pool'[j] = pool'[i] /\ pool'[i] \notin repeated \cup {d} => j = i
    BY <1>2 DEF IdleSound
  <2> QED BY <1>2, <1>3 DEF IInv, IdleSound
<1>7. HeldSound'
  BY <1>1, <1>2, <1>3 DEF IInv, HeldSound
<1>8. QueueSound' /\ WaitersListed'
  BY <1>1, QueueUnchanged DEF IInv
<1>9. LineInv'
  BY <1>1 DEF LineInv
<1> QED BY <1>2, <1>4, <1>5, <1>6, <1>7, <1>8, <1>9 DEF IInv

LEMMA EndIInv ==
  ASSUME IInv, EndCall \/ EndDone \/ EndFails
  PROVE  IInv'
<1> USE DEF EndCall, EndDone, EndFails, IInv, listenVars
<1>1. \/ pool' = pool
      \/ pool' = <<>> /\ Len(pool') = 0
  BY EmptySeq
<1>2. TypeOK'
  <2>1. <<>> \in Seq(Driver)
    BY EmptySeq
  <2>2. closing' \in BOOLEAN /\ ending' \in BOOLEAN
    BY DEF TypeOK
  <2> QED BY <2>1, <2>2 DEF TypeOK
<1>3. Using' = Using /\ UNCHANGED <<phase, driver, created, queue, activeCount, listenVars>>
  BY DEF Using
<1>4. ActiveAccounted' /\ SizeBounded'
  BY <1>1, <1>3, LineTypes, PoolAssumption DEF ActiveAccounted, SizeBounded, TypeOK
<1>5. IdleSound' /\ LineInv'
  BY <1>1, <1>3 DEF IdleSound, LineInv
<1>6. HeldSound'
  BY <1>1, <1>3 DEF HeldSound
<1>7. QueueSound' /\ WaitersListed' /\ RepeatedSound'
  BY <1>3, QueueUnchanged DEF RepeatedSound
<1> QED BY <1>2, <1>4, <1>5, <1>6, <1>7

LEMMA NextIInv == IInv /\ [Next]_vars => IInv'
<1> SUFFICES ASSUME IInv, [Next]_vars PROVE IInv'
  OBVIOUS
<1>1. CASE UNCHANGED vars
  BY <1>1 DEF vars, RepeatedSound, IInv, TypeOK, ActiveAccounted, SizeBounded, Using,
              QueueSound, WaitersListed, IdleSound, HeldSound, LineInv
<1>2. ASSUME NEW t \in Task, NEW j \in {"query", "listen"},
             NEW c \in Task \cup {NoTask},
             AcquireIdle(t, j, c) \/ AcquireNew(t, j, c) \/ AcquireWait(t, j, c)
      PROVE  IInv'
  BY <1>2, AcquireIdleIInv, AcquireNewIInv, AcquireWaitIInv
<1>3. ASSUME NEW t \in Task, Finish(t) PROVE IInv'
  BY <1>3, HandOverIInv, PutBackIInv
<1>4. ASSUME NEW t \in Task, ListenSucceeds(t) \/ ListenFails(t) \/ Unlisten(t)
      PROVE  IInv'
  BY <1>4, ListenerIInv
<1>6. ASSUME NEW d \in Driver, UnlistenAgain(d) PROVE IInv'
  BY <1>6, SignalHandsOverIInv, SignalPutsBackIInv
<1>7. CASE EndCall \/ EndDone \/ EndFails
  BY <1>7, EndIInv
<1> QED BY <1>1, <1>2, <1>3, <1>4, <1>6, <1>7 DEF Next

-----------------------------------------------------------------------------
(* What follows from it. *)

\* For any number of tasks, drivers and maxSize, and whatever nested calls,
\* listeners and end() do, the invariant below holds.
THEOREM InductiveInvariant == Spec => []IInv
<1> QED BY InitIInv, NextIInv, PTL DEF Spec

\* The counter of the pool is exact, its connections are bounded and exclusive,
\* and none is idle beside a task that waits for one, but for the drivers and the
\* number of permits that repeated calls of an unlisten function touched (acquire(),
\* release(), listen() and end() of NativePool and NativeMysqlPool).
THEOREM PoolIsSafe == Spec => []Safety
<1>1. ASSUME IInv PROVE Safety
  <2>1. DOMAIN pool = 1 .. Len(pool) /\ ToSet(pool) = {pool[i] : i \in 1 .. Len(pool)}
    BY <1>1, LenProperties DEF IInv, TypeOK, ToSet
  <2>2. ExclusiveDrivers
    BY <1>1, <2>1 DEF IInv, HeldSound, IdleSound, ExclusiveDrivers
  <2>3. NoIdleDriverWhileWaiting
    BY <1>1, UsingFinite, PoolAssumption
       DEF IInv, TypeOK, LineInv, ActiveAccounted, NoIdleDriverWhileWaiting
  <2> QED BY <1>1, <2>2, <2>3 DEF IInv, Safety
<1>2. IInv => Safety
  BY <1>1
<1> QED BY <1>2, InductiveInvariant, PTL

\* Whoever waits has one place in the queue, and nobody else has one: no
\* acquire() is forgotten by release(), none is answered twice.
THEOREM WaitersQueuedOnce == Spec => [](QueueSound /\ WaitersListed)
<1>1. IInv => QueueSound /\ WaitersListed
  BY DEF IInv
<1> QED BY <1>1, InductiveInvariant, PTL
-----------------------------------------------------------------------------
(* Refinement of the first-come-first-served semaphore. *)

HoldersBar == [k \in {"pool"} |-> Using]
LineBar == [k \in {"pool"} |-> queue]
PermitsBar == [k \in {"pool"} |-> MaxSize + repeats]

\* The instance has copies of the library operators it uses.
LEMMA SameCardinality == \A S : Semaphore!Cardinality(S) = Cardinality(S)
  BY DEF Semaphore!Cardinality, Cardinality

LEMMA SameToSet == \A q : Semaphore!ToSet(q) = ToSet(q)
  BY DEF Semaphore!ToSet, ToSet

LEMMA NotInvolved ==
  ASSUME IInv, NEW t \in Task, phase[t] = "idle"
  PROVE  \A k \in {"pool"} : ~Semaphore!Involved(t, k)
<1>1. t \notin Using
  BY DEF Using
<1>2. t \notin ToSet(queue)
  <2>1. DOMAIN queue = 1 .. Len(queue)
    BY LenProperties DEF IInv, TypeOK
  <2> QED BY <2>1 DEF ToSet, IInv, QueueSound
<1> QED BY <1>1, <1>2, SameToSet DEF Semaphore!Involved

\* A driver is had without waiting.
LEMMA AcquireEnters ==
  ASSUME IInv, NEW t \in Task, NEW j \in {"query", "listen"},
         NEW c \in Task \cup {NoTask}, AcquireIdle(t, j, c) \/ AcquireNew(t, j, c)
  PROVE  Semaphore!Enter(t, "pool")
<1>1. phase[t] = "idle" /\ queue' = queue /\ phase' = [phase EXCEPT ![t] = "busy"]
  BY DEF AcquireIdle, AcquireNew, Called, Given
<1>2. Using' = Using \cup {t}
  BY <1>1 DEF Using, IInv, TypeOK
<1>3. queue = <<>> /\ Cardinality(Using) < MaxSize + repeats
  <2>1. Cardinality(Using) \in Nat /\ repeats \in Nat /\ activeCount \in Int
    BY UsingFinite DEF IInv, TypeOK
  <2>2. queue = <<>> /\ activeCount < MaxSize
    <3>1. CASE AcquireIdle(t, j, c)
      <4>1. pool # <<>> /\ Len(pool) \in Nat \ {0}
        BY <3>1, EmptySeq DEF AcquireIdle, IInv, TypeOK
      <4> QED BY <2>1, <4>1, PoolAssumption DEF IInv, LineInv, SizeBounded
    <3>2. CASE AcquireNew(t, j, c)
      BY <2>1, <3>2, PoolAssumption DEF AcquireNew, IInv, LineInv
    <3> QED BY <3>1, <3>2
  <2> QED BY <2>1, <2>2, PoolAssumption DEF IInv, ActiveAccounted
<1>4. /\ HoldersBar' = [HoldersBar EXCEPT !["pool"] = @ \cup {t}]
      /\ LineBar' = LineBar /\ PermitsBar' = PermitsBar
  <2>1. repeats' = repeats
    BY DEF AcquireIdle, AcquireNew, listenVars
  <2> QED BY <1>1, <1>2, <2>1 DEF HoldersBar, LineBar, PermitsBar
<1>5. /\ LineBar["pool"] = <<>>
      /\ Cardinality(HoldersBar["pool"]) < PermitsBar["pool"]
  BY <1>3 DEF HoldersBar, LineBar, PermitsBar
<1> QED BY <1>1, <1>4, <1>5, NotInvolved, SameCardinality
        DEF Semaphore!Enter, HoldersBar, LineBar, PermitsBar

LEMMA AcquireWaits ==
  ASSUME IInv, NEW t \in Task, NEW j \in {"query", "listen"},
         NEW c \in Task \cup {NoTask}, AcquireWait(t, j, c)
  PROVE  Semaphore!Wait(t, "pool")
<1>1. /\ phase[t] = "idle" /\ queue' = Append(queue, t) /\ activeCount >= MaxSize
      /\ phase' = [phase EXCEPT ![t] = "waiting"]
  BY DEF AcquireWait, Called
<1>2. Using' = Using
  BY <1>1 DEF Using, IInv, TypeOK
<1>3. Cardinality(Using) = MaxSize + repeats
  <2>1. Cardinality(Using) \in Nat /\ repeats \in Nat /\ activeCount \in Int
        /\ Len(pool) \in Nat
    BY UsingFinite, LineTypes DEF IInv, TypeOK
  <2> QED BY <1>1, <2>1, PoolAssumption DEF IInv, SizeBounded, ActiveAccounted
<1>4. /\ HoldersBar' = HoldersBar /\ PermitsBar' = PermitsBar
      /\ LineBar' = [LineBar EXCEPT !["pool"] = Append(@, t)]
  <2>1. repeats' = repeats
    BY DEF AcquireWait, listenVars
  <2> QED BY <1>1, <1>2, <2>1 DEF HoldersBar, LineBar, PermitsBar
<1>5. Cardinality(HoldersBar["pool"]) = PermitsBar["pool"]
  BY <1>3 DEF HoldersBar, PermitsBar
<1> QED BY <1>1, <1>4, <1>5, NotInvolved, SameCardinality
        DEF Semaphore!Wait, HoldersBar, LineBar, PermitsBar

LEMMA FinishLeaves ==
  ASSUME IInv, NEW t \in Task, Finish(t)
  PROVE  Semaphore!Leave(t, "pool")
<1>1. CASE queue = <<>>
  <2>1. queue' = queue /\ Using' = Using \ {t} /\ t \in Using /\ repeats' = repeats
    BY <1>1, PutBackStep DEF listenVars
  <2>2. /\ t \in HoldersBar["pool"] /\ LineBar["pool"] = <<>> /\ LineBar' = LineBar
        /\ HoldersBar' = [HoldersBar EXCEPT !["pool"] = @ \ {t}]
        /\ PermitsBar' = PermitsBar
    BY <1>1, <2>1 DEF HoldersBar, LineBar, PermitsBar
  <2> QED BY <2>2 DEF Semaphore!Leave, HoldersBar, LineBar, PermitsBar
<1>2. CASE queue # <<>>
  <2>1. /\ queue' = Tail(queue) /\ t \in Using /\ repeats' = repeats
        /\ Using' = (Using \ {t}) \cup {Head(queue)}
    BY <1>2, HandOverStep DEF listenVars
  <2>2. /\ t \in HoldersBar["pool"] /\ LineBar["pool"] # <<>>
        /\ HoldersBar' = [HoldersBar EXCEPT !["pool"] =
                            (@ \ {t}) \cup {Head(LineBar["pool"])}]
        /\ LineBar' = [LineBar EXCEPT !["pool"] = Tail(@)]
        /\ PermitsBar' = PermitsBar
    BY <1>2, <2>1 DEF HoldersBar, LineBar, PermitsBar
  <2> QED BY <2>2 DEF Semaphore!Leave, HoldersBar, LineBar, PermitsBar
<1> QED BY <1>1, <1>2

\* A listener that is undone again gives a permit that nobody held.
LEMMA UnlistenAgainSignals ==
  ASSUME IInv, NEW d \in Driver, UnlistenAgain(d)
  PROVE  Semaphore!Signal("pool")
<1>1. repeats' = repeats + 1 /\ repeats \in Nat
  BY SignalFacts
<1>2. PermitsBar' = [PermitsBar EXCEPT !["pool"] = @ + 1]
  <2>1. MaxSize + (repeats + 1) = (MaxSize + repeats) + 1
    BY <1>1, PoolAssumption
  <2> QED BY <1>1, <2>1 DEF PermitsBar
<1>3. CASE queue = <<>>
  <2>1. queue' = queue /\ Using' = Using
    BY <1>3, SignalPutsBack
  <2>2. LineBar["pool"] = <<>> /\ LineBar' = LineBar /\ HoldersBar' = HoldersBar
    BY <1>3, <2>1 DEF HoldersBar, LineBar
  <2> QED BY <1>2, <2>2 DEF Semaphore!Signal, HoldersBar, LineBar, PermitsBar
<1>4. CASE queue # <<>>
  <2>1. queue' = Tail(queue) /\ Using' = Using \cup {Head(queue)}
    BY <1>4, SignalHandsOver
  <2>2. /\ LineBar["pool"] # <<>>
        /\ HoldersBar' = [HoldersBar EXCEPT !["pool"] = @ \cup {Head(LineBar["pool"])}]
        /\ LineBar' = [LineBar EXCEPT !["pool"] = Tail(@)]
    BY <1>4, <2>1 DEF HoldersBar, LineBar
  <2> QED BY <1>2, <2>2 DEF Semaphore!Signal, HoldersBar, LineBar, PermitsBar
<1> QED BY <1>3, <1>4

\* The pool is a first-come-first-served semaphore of maxSize permits: a step
\* of acquire() or release() is a step of the semaphore, a repeated call of what
\* listen() returned is a signal of it, and what listeners, leaks and end() do
\* otherwise changes nothing it can see.
THEOREM RefinesSemaphore == Spec => ImplementsSemaphore
<1>1. Init => Semaphore!Init
  <2> SUFFICES ASSUME Init PROVE Semaphore!Init
    OBVIOUS
  <2>1. Using = {} /\ queue = <<>> /\ MaxSize + repeats = MaxSize
    BY PoolAssumption DEF Init, Using
  <2> QED BY <2>1 DEF Semaphore!Init
<1>2. ASSUME IInv, [Next]_vars PROVE [Semaphore!Next]_(Semaphore!vars)
  <2>1. ASSUME NEW t \in Task, NEW j \in {"query", "listen"},
               NEW c \in Task \cup {NoTask},
               AcquireIdle(t, j, c) \/ AcquireNew(t, j, c)
        PROVE  Semaphore!Next
    <3>1. Semaphore!Enter(t, "pool")
      BY <1>2, <2>1, AcquireEnters
    <3> QED BY <3>1, Zenon DEF Semaphore!Next
  <2>2. ASSUME NEW t \in Task, NEW j \in {"query", "listen"},
               NEW c \in Task \cup {NoTask}, AcquireWait(t, j, c)
        PROVE  Semaphore!Next
    <3>1. Semaphore!Wait(t, "pool")
      BY <1>2, <2>2, AcquireWaits
    <3> QED BY <3>1, Zenon DEF Semaphore!Next
  <2>3. ASSUME NEW t \in Task, Finish(t) PROVE Semaphore!Next
    <3>1. Semaphore!Leave(t, "pool")
      BY <1>2, <2>3, FinishLeaves
    <3> QED BY <3>1, Zenon DEF Semaphore!Next
  <2>4. CASE \/ \E t \in Task : ListenSucceeds(t) \/ ListenFails(t) \/ Unlisten(t)
             \/ EndCall \/ EndDone \/ EndFails \/ UNCHANGED vars
    <3>1. Using' = Using /\ queue' = queue /\ repeats' = repeats
      BY <1>2, <2>4 DEF ListenSucceeds, ListenFails, ListenSettles, Unlisten, EndCall,
                        EndDone, EndFails, vars, listenVars, Using, IInv, TypeOK
    <3> QED BY <3>1 DEF Semaphore!vars
  <2>5. ASSUME NEW d \in Driver, UnlistenAgain(d) PROVE Semaphore!Next
    <3>1. Semaphore!Signal("pool")
      BY <1>2, <2>5, UnlistenAgainSignals
    <3> QED BY <3>1, Zenon DEF Semaphore!Next
  <2> QED BY <1>2, <2>1, <2>2, <2>3, <2>4, <2>5 DEF Next
<1>3. IInv /\ [Next]_vars => [Semaphore!Next]_(Semaphore!vars)
  BY <1>2
<1>4. Spec => Semaphore!Spec
  BY <1>1, <1>3, InductiveInvariant, PTL DEF Spec, Semaphore!Spec
<1> QED BY <1>4 DEF ImplementsSemaphore
===============================================================================
