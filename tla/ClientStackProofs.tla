-------------------------- MODULE ClientStackProofs --------------------------
(* TLAPS proofs about ClientStack. *)
EXTENDS ClientStack, FiniteSetTheorems, TLAPS

-----------------------------------------------------------------------------
(* The waits of retry() are natural numbers. *)

LEMMA PowerOfTwo == ASSUME NEW n \in Nat PROVE 2 ^ n \in Nat
<1>1. IsFiniteSet(1 .. n) /\ Cardinality(1 .. n) = n
  BY FS_Interval
<1>2. /\ IsFiniteSet(SUBSET (1 .. n))
      /\ Cardinality(SUBSET (1 .. n)) = 2 ^ Cardinality(1 .. n)
  BY <1>1, FS_SUBSET
<1>3. Cardinality(SUBSET (1 .. n)) \in Nat
  BY <1>2, FS_CardinalityType
<1> QED BY <1>1, <1>2, <1>3

LEMMA MinMaxType ==
  ASSUME NEW a \in Nat, NEW b \in Nat
  PROVE  Min({a, b}) \in Nat /\ Max({a, b}) \in Nat
<1>1. \E x \in {a, b} : \A y \in {a, b} : x =< y
  OBVIOUS
<1>2. \E x \in {a, b} : \A y \in {a, b} : x >= y
  OBVIOUS
<1>3. Min({a, b}) \in {a, b}
  BY <1>1 DEF Min
<1>4. Max({a, b}) \in {a, b}
  BY <1>2 DEF Max
<1> QED BY <1>3, <1>4

LEMMA WaitsType ==
  ASSUME TypeOK, NEW r \in Request, NEW wait \in Waits(r)
  PROVE  wait \in Nat
<1>1. attempts[r] \in Nat /\ Delay \in Nat /\ MaxDelay \in Nat /\ RetryAfter \subseteq Nat
  BY StackAssumption DEF TypeOK
<1>2. BaseWait(r) \in Nat
  <2>1. Delay * 2 ^ attempts[r] \in Nat
    BY <1>1, PowerOfTwo
  <2> QED BY <1>1, <2>1, MinMaxType DEF BaseWait
<1>3. \A a \in RetryAfter : Max({BaseWait(r), a}) \in Nat
  BY <1>1, <1>2, MinMaxType
<1>4. wait \in 0 .. BaseWait(r) \/ \E a \in RetryAfter : wait = Max({BaseWait(r), a})
  BY Zenon DEF Waits
<1>5. CASE wait \in 0 .. BaseWait(r)
  BY <1>2, <1>5
<1>6. CASE \E a \in RetryAfter : wait = Max({BaseWait(r), a})
  BY <1>3, <1>6
<1> QED BY <1>4, <1>5, <1>6

\* The options of the client are numbers.
LEMMA StackType ==
  ASSUME TypeOK
  PROVE  /\ stack.retries \in Nat /\ stack.refreshes \in Nat /\ stack.until \in Nat
         /\ clock \in Nat /\ Timeout \in Nat \ {0} /\ NoRequest \notin Request
         /\ \A r \in Request : calledAt[r] \in Nat
BY StackAssumption DEF TypeOK

-----------------------------------------------------------------------------
(* IInv is inductive: one lemma per action. *)

LEMMA InitIInv == Init => IInv
<1> SUFFICES ASSUME Init PROVE IInv
  OBVIOUS
<1>1. \A r \in Request : ~InStack(r)
  BY DEF Init, InStack
<1>2. TypeOK
  <2>1. stack \in [retries : Nat, refreshes : Nat, until : Nat]
    BY StackAssumption DEF Init
  <2>2. 0 \in 0 .. stack.retries /\ 0 \in 0 .. stack.refreshes /\ 0 \in 0 .. stack.until
    BY <2>1
  <2>3. 0 \in 0 .. Budget
    BY StackAssumption
  <2> QED BY <2>2, <2>3 DEF Init, TypeOK, Phase, Method, Status
<1>3. OneFlight
  BY <1>1, StackAssumption DEF Init, OneFlight
<1>4. OneRefresh
  BY DEF Init, OneRefresh
<1>5. AbortedInTime /\ ExecutionsKnown
  BY <1>1 DEF Init, AbortedInTime, ExecutionsKnown
<1> QED BY <1>2, <1>3, <1>4, <1>5 DEF IInv

LEMMA FollowIInv ==
  ASSUME IInv, NEW r \in Request, Follow(r)
  PROVE  IInv'
<1> USE StackType DEF IInv, Follow, Begins, callVars, authVars, retryVars, server
<1>1. TypeOK'
  BY StackAssumption DEF TypeOK, Phase, Method, Status
<1>2. OneFlight'
  BY StackAssumption DEF TypeOK, OneFlight, InStack
<1>3. OneRefresh'
  BY Zenon DEF TypeOK, OneRefresh
<1>4. AbortedInTime'
  BY StackAssumption DEF TypeOK, AbortedInTime, InStack, DeadlineAt
<1>5. ExecutionsKnown'
  BY StackAssumption DEF TypeOK, ExecutionsKnown, InStack, IdempotencyKey
<1> QED BY <1>1, <1>2, <1>3, <1>4, <1>5

LEMMA LeadIInv ==
  ASSUME IInv, NEW r \in Request, Lead(r)
  PROVE  IInv'
<1> USE StackType DEF IInv, Lead, Begins, callVars, authVars, retryVars, server
<1>1. TypeOK'
  BY StackAssumption DEF TypeOK, Phase, Method, Status
<1>2. OneFlight'
  BY StackAssumption DEF TypeOK, OneFlight, InStack
<1>3. OneRefresh'
  BY Zenon DEF TypeOK, OneRefresh
<1>4. AbortedInTime'
  BY StackAssumption DEF TypeOK, AbortedInTime, InStack, DeadlineAt
<1>5. ExecutionsKnown'
  BY StackAssumption DEF TypeOK, ExecutionsKnown, InStack, IdempotencyKey
<1> QED BY <1>1, <1>2, <1>3, <1>4, <1>5

LEMMA MutateIInv ==
  ASSUME IInv, NEW r \in Request, NEW m \in Method, Mutate(r, m)
  PROVE  IInv'
<1> USE StackType DEF IInv, Mutate, Begins, callVars, authVars, retryVars, server
<1>1. TypeOK'
  BY StackAssumption DEF TypeOK, Phase, Method, Status
<1>2. OneFlight'
  BY StackAssumption DEF TypeOK, OneFlight, InStack
<1>3. OneRefresh'
  BY Zenon DEF TypeOK, OneRefresh
<1>4. AbortedInTime'
  BY StackAssumption DEF TypeOK, AbortedInTime, InStack, DeadlineAt
<1>5. ExecutionsKnown'
  BY StackAssumption DEF TypeOK, ExecutionsKnown, InStack, IdempotencyKey
<1> QED BY <1>1, <1>2, <1>3, <1>4, <1>5

LEMMA ServeIInv ==
  ASSUME IInv, NEW r \in Request, Serve(r)
  PROVE  IInv'
<1> USE StackType DEF IInv, Serve, Answers, IdempotencyKey, callVars, authVars, retryVars, server
<1>1. TypeOK'
  BY StackAssumption DEF TypeOK, Phase, Method, Status
<1>2. OneFlight'
  BY StackAssumption DEF TypeOK, OneFlight, InStack
<1>3. OneRefresh'
  BY Zenon DEF TypeOK, OneRefresh
<1>4. AbortedInTime'
  BY StackAssumption DEF TypeOK, AbortedInTime, InStack, DeadlineAt
<1>5. ExecutionsKnown'
  <2> SUFFICES ASSUME NEW p \in Request
               PROVE  /\ executed'[p] \in {0, 1}
                      /\ executed'[p] = 1 =>
                           /\ InStack(p)' /\ method'[p] # "GET" /\ 0 \in seen'[p]
                           /\ method'[p] = "POST" =>
                                phase'[p] = "answered" /\ answer'[p] \in {"200", "error"}
    BY DEF ExecutionsKnown
  <2>1. /\ executed[p] \in {0, 1}
        /\ executed[p] = 1 =>
             /\ InStack(p) /\ method[p] # "GET" /\ 0 \in seen[p]
             /\ method[p] = "POST" => phase[p] = "answered" /\ answer[p] \in {"200", "error"}
    BY DEF ExecutionsKnown
  <2>2. CASE p # r
    BY <2>1, <2>2 DEF TypeOK, InStack
  <2>3. CASE p = r
    BY <2>1, <2>3 DEF TypeOK, InStack, Method
  <2> QED BY <2>2, <2>3
<1> QED BY <1>1, <1>2, <1>3, <1>4, <1>5

LEMMA RefuseIInv ==
  ASSUME IInv, NEW r \in Request, Refuse(r)
  PROVE  IInv'
<1> USE StackType DEF IInv, Refuse, Answers, callVars, authVars, retryVars, server
<1>1. TypeOK'
  BY StackAssumption DEF TypeOK, Phase, Method, Status
<1>2. OneFlight'
  BY StackAssumption DEF TypeOK, OneFlight, InStack
<1>3. OneRefresh'
  <2>1. \A p \in Request : phase'[p] = "refreshing" <=> phase[p] = "refreshing"
    BY DEF TypeOK
  <2>2. refreshPromise' = refreshPromise /\ refreshing' = refreshing
    OBVIOUS
  <2> QED BY <2>1, <2>2 DEF OneRefresh
<1>4. AbortedInTime'
  BY StackAssumption DEF TypeOK, AbortedInTime, InStack, DeadlineAt
<1>5. ExecutionsKnown'
  BY StackAssumption DEF TypeOK, ExecutionsKnown, InStack, IdempotencyKey
<1> QED BY <1>1, <1>2, <1>3, <1>4, <1>5

LEMMA BreakIInv ==
  ASSUME IInv, NEW r \in Request, Break(r)
  PROVE  IInv'
<1> USE StackType DEF IInv, Break, Answers, callVars, authVars, retryVars, server
<1>1. TypeOK'
  BY StackAssumption DEF TypeOK, Phase, Method, Status
<1>2. OneFlight'
  BY StackAssumption DEF TypeOK, OneFlight, InStack
<1>3. OneRefresh'
  BY Zenon DEF TypeOK, OneRefresh
<1>4. AbortedInTime'
  BY StackAssumption DEF TypeOK, AbortedInTime, InStack, DeadlineAt
<1>5. ExecutionsKnown'
  BY StackAssumption DEF TypeOK, ExecutionsKnown, InStack, IdempotencyKey
<1> QED BY <1>1, <1>2, <1>3, <1>4, <1>5

LEMMA RefreshIInv ==
  ASSUME IInv, NEW r \in Request, Refresh(r)
  PROVE  IInv'
<1> USE StackType DEF IInv, Refresh, MayRefresh, Starts, callVars, authVars, retryVars, server
<1>1. TypeOK'
  BY StackAssumption DEF TypeOK, Phase, Method, Status
<1>2. OneFlight'
  BY StackAssumption DEF TypeOK, OneFlight, InStack
<1>3. OneRefresh'
  <2>1. phase'[r] = "refreshing" /\ refreshPromise'
    BY DEF TypeOK
  <2>2. refreshing' = 1
    <3>1. CASE refreshPromise
      BY <3>1 DEF OneRefresh
    <3>2. CASE ~refreshPromise
      <4>1. refreshing \in Nat /\ refreshing <= 1 /\ refreshing # 1
        BY <3>2 DEF OneRefresh, TypeOK
      <4> QED BY <3>2, <4>1
    <3> QED BY <3>1, <3>2
  <2>3. refreshing' <= 1
    BY <2>2
  <2> QED BY <2>1, <2>2, <2>3, Zenon DEF OneRefresh
<1>4. AbortedInTime'
  BY StackAssumption DEF TypeOK, AbortedInTime, InStack, DeadlineAt
<1>5. ExecutionsKnown'
  BY StackAssumption DEF TypeOK, ExecutionsKnown, InStack, IdempotencyKey
<1> QED BY <1>1, <1>2, <1>3, <1>4, <1>5

LEMMA ResumeIInv ==
  ASSUME IInv, NEW r \in Request, Resume(r)
  PROVE  IInv'
<1> USE StackType DEF IInv, Resume, callVars, authVars, retryVars, server
<1>1. TypeOK'
  BY StackAssumption DEF TypeOK, Phase, Method, Status
<1>2. OneFlight'
  BY StackAssumption DEF TypeOK, OneFlight, InStack
<1>3. OneRefresh'
  BY Zenon DEF TypeOK, OneRefresh
<1>4. AbortedInTime'
  BY StackAssumption DEF TypeOK, AbortedInTime, InStack, DeadlineAt
<1>5. ExecutionsKnown'
  BY StackAssumption DEF TypeOK, ExecutionsKnown, InStack, IdempotencyKey
<1> QED BY <1>1, <1>2, <1>3, <1>4, <1>5

LEMMA WakeIInv ==
  ASSUME IInv, NEW r \in Request, Wake(r)
  PROVE  IInv'
<1> USE StackType DEF IInv, Wake, callVars, authVars, retryVars, server
<1>1. TypeOK'
  BY StackAssumption DEF TypeOK, Phase, Method, Status
<1>2. OneFlight'
  BY StackAssumption DEF TypeOK, OneFlight, InStack
<1>3. OneRefresh'
  BY Zenon DEF TypeOK, OneRefresh
<1>4. AbortedInTime'
  BY StackAssumption DEF TypeOK, AbortedInTime, InStack, DeadlineAt
<1>5. ExecutionsKnown'
  BY StackAssumption DEF TypeOK, ExecutionsKnown, InStack, IdempotencyKey
<1> QED BY <1>1, <1>2, <1>3, <1>4, <1>5

LEMMA AbortIInv ==
  ASSUME IInv, NEW r \in Request, Abort(r)
  PROVE  IInv'
<1> USE StackType DEF IInv, Abort, InStack, callVars, authVars, retryVars, server
<1>1. TypeOK'
  BY StackAssumption DEF TypeOK, Phase, Method, Status
<1>2. OneFlight'
  BY StackAssumption DEF TypeOK, OneFlight, InStack
<1>3. OneRefresh'
  BY Zenon DEF TypeOK, OneRefresh
<1>4. AbortedInTime'
  BY StackAssumption DEF TypeOK, AbortedInTime, InStack, DeadlineAt
<1>5. ExecutionsKnown'
  BY StackAssumption DEF TypeOK, ExecutionsKnown, InStack, IdempotencyKey
<1> QED BY <1>1, <1>2, <1>3, <1>4, <1>5

LEMMA RefreshSettlesIInv ==
  ASSUME IInv, RefreshSettles
  PROVE  IInv'
<1> USE StackType DEF IInv, RefreshSettles, callVars, authVars, retryVars, server
<1>1. TypeOK'
  <2>1. refreshing - 1 \in Nat
    BY DEF TypeOK
  <2>2. answer' \in [Request -> Status]
    <3>1. PICK result \in {"none", "error"} :
            answer' = [r \in Request |-> IF phase[r] = "refreshing" THEN result ELSE answer[r]]
      OBVIOUS
    <3> QED BY <3>1 DEF TypeOK, Status
  <2>3. phase' \in [Request -> Phase]
    BY DEF TypeOK, Phase
  <2> QED BY <2>1, <2>2, <2>3 DEF TypeOK
<1>2. OneFlight'
  BY StackAssumption DEF TypeOK, OneFlight, InStack
<1>3. OneRefresh'
  <2>1. ~refreshPromise' /\ \A r \in Request : phase'[r] # "refreshing"
    BY DEF TypeOK
  <2>2. refreshing' = 0
    BY DEF OneRefresh, TypeOK
  <2>3. refreshing' <= 1 /\ refreshing' # 1
    BY <2>2
  <2> QED BY <2>1, <2>3, Zenon DEF OneRefresh
<1>4. AbortedInTime'
  BY StackAssumption DEF TypeOK, AbortedInTime, InStack, DeadlineAt
<1>5. ExecutionsKnown'
  BY StackAssumption DEF TypeOK, ExecutionsKnown, InStack, IdempotencyKey
<1> QED BY <1>1, <1>2, <1>3, <1>4, <1>5

LEMMA RetryIInv ==
  ASSUME IInv, NEW r \in Request, Retry(r)
  PROVE  IInv'
<1> USE StackType DEF IInv, Retry, MayRetry, WithinBudget, callVars, authVars, retryVars, server
<1>1. TypeOK'
  BY WaitsType, StackAssumption DEF TypeOK, Phase, Method, Status
<1>2. OneFlight'
  BY WaitsType, StackAssumption DEF TypeOK, OneFlight, InStack
<1>3. OneRefresh'
  BY WaitsType, Zenon DEF TypeOK, OneRefresh
<1>4. AbortedInTime'
  BY WaitsType, StackAssumption DEF TypeOK, AbortedInTime, InStack, DeadlineAt
<1>5. ExecutionsKnown'
  BY WaitsType, StackAssumption DEF TypeOK, ExecutionsKnown, InStack, IdempotencyKey
<1> QED BY <1>1, <1>2, <1>3, <1>4, <1>5

LEMMA EndsIInv ==
  ASSUME IInv, NEW r \in Request, Ends(r), phase[r] \in {"sent", "answered", "sleeping", "refreshed"},
         UNCHANGED <<refreshPromise, refreshing>>
  PROVE  IInv'
<1> USE StackType DEF IInv, Ends, Party, Forgets, callVars, authVars, retryVars, server
<1>1. TypeOK'
  BY StackAssumption DEF TypeOK, Phase, Method, Status
<1>2. OneFlight'
  BY StackAssumption DEF TypeOK, OneFlight, InStack
<1>3. OneRefresh'
  BY Zenon DEF TypeOK, OneRefresh
<1>4. AbortedInTime'
  BY StackAssumption DEF TypeOK, AbortedInTime, InStack, DeadlineAt
<1>5. ExecutionsKnown'
  BY StackAssumption DEF TypeOK, ExecutionsKnown, InStack, IdempotencyKey
<1> QED BY <1>1, <1>2, <1>3, <1>4, <1>5

LEMMA TickIInv ==
  ASSUME IInv, Tick
  PROVE  IInv'
<1> USE StackType DEF IInv, Tick, Due, Hears, InStack, callVars, authVars, retryVars, server
<1>1. TypeOK'
  BY StackAssumption DEF TypeOK, Phase, Method, Status
<1>2. OneFlight'
  BY StackAssumption DEF TypeOK, OneFlight, InStack
<1>3. OneRefresh'
  BY Zenon DEF TypeOK, OneRefresh
<1>4. AbortedInTime'
  <2> SUFFICES ASSUME NEW r \in Request, InStack(r),
                      ~aborted[r] \/ phase[r] \notin {"refreshing", "refreshed"}
               PROVE  clock + 1 <= calledAt[r] + Timeout
    BY DEF AbortedInTime, DeadlineAt
  <2>1. ~aborted[r]
    BY DEF TypeOK, Phase
  <2>2. ~(clock >= calledAt[r] + Timeout)
    BY <2>1 DEF DeadlineAt
  <2> QED BY <2>2
<1>5. ExecutionsKnown'
  BY StackAssumption DEF TypeOK, ExecutionsKnown, InStack, IdempotencyKey
<1> QED BY <1>1, <1>2, <1>3, <1>4, <1>5

LEMMA NextIInv == IInv /\ [Next]_vars => IInv'
<1> SUFFICES ASSUME IInv, [Next]_vars PROVE IInv'
  OBVIOUS
<1>1. ASSUME NEW r \in Request, Done(r) \/ OutOfBudget(r) \/ Rejected(r)
      PROVE  IInv'
  BY <1>1, EndsIInv DEF Done, OutOfBudget, Rejected, Hears
<1>2. CASE UNCHANGED vars
  <2> USE <1>2 DEF vars, callVars, authVars, retryVars, server
  <2>1. TypeOK'
    BY DEF IInv, TypeOK
  <2>2. OneFlight' /\ AbortedInTime'
    BY DEF IInv, OneFlight, AbortedInTime, InStack, DeadlineAt
  <2>3. OneRefresh' /\ ExecutionsKnown'
    BY DEF IInv, OneRefresh, ExecutionsKnown, InStack, IdempotencyKey
  <2> QED BY <2>1, <2>2, <2>3 DEF IInv
<1> QED BY <1>1, <1>2, FollowIInv, LeadIInv, MutateIInv, ServeIInv, RefuseIInv, BreakIInv,
           RefreshIInv, ResumeIInv, RetryIInv, WakeIInv, AbortIInv, RefreshSettlesIInv,
           TickIInv DEF Next

-----------------------------------------------------------------------------
(* The theorems. *)

\* The strengthening holds of every reachable state.
THEOREM InductiveInvariant == Spec => []IInv
<1> QED BY InitIInv, NextIInv, PTL DEF Spec

\* Through retries, refreshes, aborts and failures there is one read and one
\* refresh under way, and no call outlives its deadline: for any number of calls
\* and any options of the middlewares.
THEOREM StackIsSafe == Spec => []Safety
<1>1. IInv => Safety
  BY DEF IInv, Safety, AbortedInTime, DeadlineKept
<1> QED BY <1>1, InductiveInvariant, PTL

\* The server executes no mutation twice, however often it is sent.
THEOREM NoMutationTwice == Spec => []ExecutedOnce
<1>1. IInv => ExecutedOnce
  BY DEF IInv, ExecutionsKnown, ExecutedOnce
<1> QED BY <1>1, InductiveInvariant, PTL
=============================================================================
