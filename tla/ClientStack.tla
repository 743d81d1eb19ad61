---------------------------- MODULE ClientStack ----------------------------
(***************************************************************************)
(* A client with the middlewares dedupe, idempotencyKey, deadline, retry   *)
(* and authRefresh, in this order, around execute() and fetch.  A request  *)
(* runs down to fetch in one turn; an action is what happens from the settlement of  *)
(* fetch, a timer or an abort to the next await.  Reads are GETs of one    *)
(* resource and share a dedupe key; "PUT" is a mutation the server         *)
(* deduplicates by idempotency key, "POST" one whose key it ignores.       *)
(***************************************************************************)
EXTENDS Naturals, FiniteSets, FiniteSetsExt

CONSTANTS
  Request,      \* calls of the client; a finished one may be made again
  NoRequest,
  Timeout,      \* defaultTimeoutMs of deadline()
  Stacks,       \* maxRetries of retry(), maxAttempts of authRefresh(), and a bound:
                \* no call is made whose deadline is later than until
  Delay,        \* delay of retry(), with backoff and jitter
  MaxDelay,
  Budget,       \* retryBudgetMs
  RetryAfter    \* the values of the Retry-After header of a 503

ASSUME StackAssumption ==
  /\ NoRequest \notin Request
  /\ Timeout \in Nat \ {0} /\ Delay \in Nat
  /\ MaxDelay \in Nat /\ Budget \in Nat \ {0} /\ RetryAfter \subseteq Nat
  /\ Stacks \subseteq [retries : Nat, refreshes : Nat, until : Nat]

VARIABLES
  stack,      \* the options of this client
  clock,
  inflight,   \* the Map of dedupe(): the request of the pending promise
  phase,      \* where each call is
  method,
  leader,     \* the request whose promise a following call awaits
  attempts,   \* of retry()
  waited,     \* totalWaitMs
  wakeAt,     \* when its sleep() ends
  calledAt,   \* when the call was made; deadlineAt is Timeout later
  refreshPromise,  \* authRefresh() has a promise that its calls share
  refreshing, \* how many calls of refresh() are under way
  refreshed,  \* attempts of authRefresh(), for one attempt of retry()
  aborted,    \* the signal that deadline() has joined
  answer,     \* what fetch will resolve to
  seen,       \* the idempotency keys of the call the server has seen
  executed    \* history: how often the server has executed the call

callVars == <<stack, clock, inflight, method, leader, calledAt>>
authVars == <<refreshPromise, refreshing, refreshed>>
retryVars == <<attempts, waited, wakeAt>>
server == <<seen, executed>>
vars == <<callVars, authVars, retryVars, server, phase, aborted, answer>>

Method == {"GET", "PUT", "POST"}
Phase == {"idle", "following", "sent", "answered", "sleeping", "refreshing", "refreshed"}
Status == {"none", "200", "401", "503", "error"}

Init ==
  /\ stack \in Stacks
  /\ clock = 0
  /\ inflight = NoRequest
  /\ phase = [r \in Request |-> "idle"]
  /\ method = [r \in Request |-> "GET"]
  /\ leader = [r \in Request |-> NoRequest]
  /\ attempts = [r \in Request |-> 0] /\ waited = [r \in Request |-> 0]
  /\ wakeAt = [r \in Request |-> 0] /\ calledAt = [r \in Request |-> 0]
  /\ refreshPromise = FALSE /\ refreshing = 0
  /\ refreshed = [r \in Request |-> 0]
  /\ aborted = [r \in Request |-> FALSE]
  /\ answer = [r \in Request |-> "none"]
  /\ seen = [r \in Request |-> {}] /\ executed = [r \in Request |-> 0]

-----------------------------------------------------------------------------
(* A call goes down the stack. *)

Begins(r, m, to) ==
  /\ phase[r] = "idle" /\ clock + Timeout <= stack.until
  /\ phase' = [phase EXCEPT ![r] = to]
  /\ method' = [method EXCEPT ![r] = m]
  /\ calledAt' = [calledAt EXCEPT ![r] = clock]
  /\ UNCHANGED <<stack, clock, server, retryVars, authVars, aborted, answer>>

\* dedupe() finds a pending promise, and awaits it.
Follow(r) ==
  /\ inflight # NoRequest
  /\ Begins(r, "GET", "following")
  /\ leader' = [leader EXCEPT ![r] = inflight]
  /\ UNCHANGED inflight

Lead(r) ==
  /\ inflight = NoRequest
  /\ Begins(r, "GET", "sent")
  /\ inflight' = r
  /\ UNCHANGED leader

\* dedupe() lets it pass, idempotencyKey() gives it a key.
Mutate(r, m) ==
  /\ m # "GET"
  /\ Begins(r, m, "sent")
  /\ UNCHANGED <<inflight, leader>>

-----------------------------------------------------------------------------
(* The server. *)

\* Mutant: a new key for every attempt.
MutKeyPerAttempt(r) == attempts[r]

\* The idempotency key of the request that retry() hands down.
IdempotencyKey(r) == 0

Answers(r, status) ==
  /\ phase' = [phase EXCEPT ![r] = "answered"]
  /\ answer' = [answer EXCEPT ![r] = status]
  /\ UNCHANGED <<callVars, retryVars, authVars, aborted>>

\* A mutation is executed, unless it is a PUT with a key the server knows.
Serve(r) ==
  /\ phase[r] = "sent"
  /\ Answers(r, "200")
  /\ IF method[r] = "GET" \/ (method[r] = "PUT" /\ IdempotencyKey(r) \in seen[r])
     THEN UNCHANGED server
     ELSE /\ seen' = [seen EXCEPT ![r] = @ \cup {IdempotencyKey(r)}]
          /\ executed' = [executed EXCEPT ![r] = @ + 1]

\* Unavailable, or the token is not valid (any more): a 401, in the stacks that have
\* authRefresh (in the others it goes up like the answer to a read).
Refuse(r) ==
  /\ phase[r] = "sent"
  /\ \E status \in {"503"} \cup {s \in {"401"} : stack.refreshes > 0} : Answers(r, status)
  /\ UNCHANGED server

\* The connection breaks, before or after the server has acted.
Break(r) ==
  /\ phase[r] \in {"sent", "answered"} /\ answer[r] # "error"
  /\ Answers(r, "error")
  /\ UNCHANGED server

-----------------------------------------------------------------------------
(* A call ends: deadline() clears its timer, dedupe() forgets the promise,  *)
(* and whoever follows the call gets what it got.                           *)

Party(r) == {r} \cup {f \in Request : phase[f] = "following" /\ leader[f] = r}

\* Mutant: no finally block in dedupe().
MutRemembers(r) == inflight

Forgets(r) == IF inflight = r THEN NoRequest ELSE inflight

Ends(r) ==
  /\ inflight' = Forgets(r)
  /\ phase' = [p \in Request |-> IF p \in Party(r) THEN "idle" ELSE phase[p]]
  /\ leader' = [p \in Request |-> IF p \in Party(r) THEN NoRequest ELSE leader[p]]
  /\ calledAt' = [p \in Request |-> IF p \in Party(r) THEN 0 ELSE calledAt[p]]
  /\ method' = [method EXCEPT ![r] = "GET"]
  /\ attempts' = [attempts EXCEPT ![r] = 0]
  /\ waited' = [waited EXCEPT ![r] = 0]
  /\ wakeAt' = [wakeAt EXCEPT ![r] = 0]
  /\ aborted' = [aborted EXCEPT ![r] = FALSE]
  /\ answer' = [answer EXCEPT ![r] = "none"]
  /\ seen' = [seen EXCEPT ![r] = {}]
  /\ executed' = [executed EXCEPT ![r] = 0]
  /\ refreshed' = [refreshed EXCEPT ![r] = 0]
  /\ UNCHANGED <<stack, clock>>

-----------------------------------------------------------------------------
(* authRefresh() *)

MayRefresh(r) == refreshed[r] < stack.refreshes

Starts == ~refreshPromise

\* A 401: start a refresh, or share the one under way.
Refresh(r) ==
  /\ phase[r] = "answered" /\ ~aborted[r]
  /\ answer[r] = "401" /\ MayRefresh(r)
  /\ refreshed' = [refreshed EXCEPT ![r] = @ + 1]
  /\ refreshPromise' = TRUE
  /\ refreshing' = IF Starts THEN refreshing + 1 ELSE refreshing
  /\ phase' = [phase EXCEPT ![r] = "refreshing"]
  /\ answer' = [answer EXCEPT ![r] = "none"]
  /\ UNCHANGED <<callVars, retryVars, aborted, server>>

\* refresh() settles, either way, for everyone who awaits it.
RefreshSettles ==
  /\ refreshing > 0
  /\ refreshPromise' = FALSE /\ refreshing' = refreshing - 1
  /\ \E result \in {"none", "error"} :
       answer' = [r \in Request |-> IF phase[r] = "refreshing" THEN result ELSE answer[r]]
  /\ phase' = [r \in Request |-> IF phase[r] = "refreshing" THEN "refreshed" ELSE phase[r]]
  /\ UNCHANGED <<callVars, refreshed, retryVars, aborted, server>>

\* The request is sent again with the new token, or PUREQ_AUTH_REFRESH_FAILED goes
\* up to retry(), which takes it for a network error.
Resume(r) ==
  /\ phase[r] = "refreshed" /\ ~aborted[r]
  /\ phase' = [phase EXCEPT ![r] = IF answer[r] = "error" THEN "answered" ELSE "sent"]
  /\ UNCHANGED <<callVars, authVars, retryVars, aborted, answer, server>>

-----------------------------------------------------------------------------
(* retry() *)

MayRetry(r) == attempts[r] < stack.retries /\ method[r] # "POST"

\* delay * 2 ** (attempts - 1), attempts being counted up already.
BaseWait(r) == Min({Delay * 2 ^ attempts[r], MaxDelay})

\* The wait before the next attempt: full jitter, unless the response names a
\* Retry-After, which is honoured beyond maxDelay.
Waits(r) ==
  0 .. BaseWait(r) \cup
  IF answer[r] = "503" THEN {Max({BaseWait(r), a}) : a \in RetryAfter} ELSE {}

WithinBudget(r, wait) == waited[r] + wait <= Budget

\* The response goes up, or the error does.
Done(r) ==
  /\ phase[r] = "answered" /\ ~aborted[r]
  /\ \/ answer[r] = "200"
     \/ answer[r] = "401" /\ ~MayRefresh(r)
     \/ answer[r] \in {"503", "error"} /\ ~MayRetry(r)
  /\ Ends(r)
  /\ UNCHANGED <<refreshPromise, refreshing>>

\* "retry budget exhausted"
OutOfBudget(r) ==
  /\ phase[r] = "answered" /\ ~aborted[r]
  /\ answer[r] \in {"503", "error"} /\ MayRetry(r)
  /\ \E wait \in Waits(r) : ~WithinBudget(r, wait)
  /\ Ends(r)
  /\ UNCHANGED <<refreshPromise, refreshing>>

\* sleep() resolves at once when there is nothing to wait for.
Retry(r) ==
  /\ phase[r] = "answered" /\ ~aborted[r]
  /\ answer[r] \in {"503", "error"} /\ MayRetry(r)
  /\ \E wait \in Waits(r) :
       /\ WithinBudget(r, wait)
       /\ waited' = [waited EXCEPT ![r] = @ + wait]
       /\ wakeAt' = [wakeAt EXCEPT ![r] = IF wait = 0 THEN 0 ELSE clock + wait]
       /\ phase' = [phase EXCEPT ![r] = IF wait = 0 THEN "sent" ELSE "sleeping"]
  /\ attempts' = [attempts EXCEPT ![r] = @ + 1]
  /\ answer' = [answer EXCEPT ![r] = "none"]
  /\ refreshed' = [refreshed EXCEPT ![r] = 0]
  /\ UNCHANGED <<callVars, aborted, server, refreshPromise, refreshing>>

\* The timer of sleep().
Wake(r) ==
  /\ phase[r] = "sleeping" /\ ~aborted[r] /\ clock >= wakeAt[r]
  /\ phase' = [phase EXCEPT ![r] = "sent"]
  /\ wakeAt' = [wakeAt EXCEPT ![r] = 0]
  /\ UNCHANGED <<callVars, authVars, attempts, waited, aborted, answer, server>>

-----------------------------------------------------------------------------
(* Aborts, and time. *)

InStack(r) == phase[r] \notin {"idle", "following"}

DeadlineAt(r) == calledAt[r] + Timeout

\* The timer of deadline(), or the caller: dedupe() looks at no signal, so the
\* abort of a follower changes nothing and that of a leader reaches them all.
Abort(r) ==
  /\ InStack(r) /\ ~aborted[r]
  /\ aborted' = [aborted EXCEPT ![r] = TRUE]
  /\ UNCHANGED <<callVars, authVars, phase, retryVars, answer, server>>

\* Mutant: sleep() does not listen to the signal.
MutDeafSleep(r) == phase[r] \in {"sent", "answered", "refreshed"}

\* fetch and sleep() listen to the signal; the await of refresh() does not, and the
\* fetch after it rejects at once.
Hears(r) == phase[r] \in {"sent", "answered", "sleeping", "refreshed"}

\* An aborted fetch or sleep() rejects.  The catch block may count one more
\* attempt, but its sleep() rejects as well, or fetch does before it sends.
Rejected(r) ==
  /\ aborted[r] /\ Hears(r)
  /\ Ends(r)
  /\ UNCHANGED <<refreshPromise, refreshing>>

\* The event loop is not blocked: what is due happens before the clock moves.
Due(r) ==
  \/ InStack(r) /\ ~aborted[r] /\ clock >= DeadlineAt(r)
  \/ aborted[r] /\ Hears(r)
  \/ phase[r] = "sleeping" /\ ~aborted[r] /\ clock >= wakeAt[r]
  \/ phase[r] = "refreshed"

Tick ==
  /\ clock < stack.until /\ \A r \in Request : ~Due(r)
  /\ clock' = clock + 1
  /\ UNCHANGED <<stack, inflight, phase, method, leader, calledAt, authVars, retryVars,
                 aborted, answer, server>>

Next ==
  \/ \E r \in Request :
       \/ Follow(r) \/ Lead(r) \/ \E m \in Method : Mutate(r, m)
       \/ Serve(r) \/ Refuse(r) \/ Break(r)
       \/ Refresh(r) \/ Resume(r)
       \/ Done(r) \/ OutOfBudget(r) \/ Retry(r) \/ Wake(r)
       \/ Abort(r) \/ Rejected(r)
  \/ RefreshSettles
  \/ Tick

Spec == Init /\ [][Next]_vars

\* Time passes, whatever happens at one instant, and timers fire.  The server
\* owes nothing, but the refresh() of the application settles.
Fairness ==
  /\ SF_vars(Tick) /\ WF_vars(RefreshSettles)
  /\ \A r \in Request :
       /\ WF_vars(clock >= DeadlineAt(r) /\ Abort(r))
       /\ WF_vars(Rejected(r)) /\ WF_vars(Wake(r)) /\ WF_vars(Resume(r))

FairSpec == Spec /\ Fairness

-----------------------------------------------------------------------------
(* Properties. *)

\* Every variable keeps its shape.
TypeOK ==
  /\ stack \in Stacks
  /\ clock \in 0 .. stack.until
  /\ inflight \in Request \cup {NoRequest}
  /\ phase \in [Request -> Phase] /\ method \in [Request -> Method]
  /\ leader \in [Request -> Request \cup {NoRequest}]
  /\ attempts \in [Request -> 0 .. stack.retries]
  /\ refreshPromise \in BOOLEAN /\ refreshing \in Nat
  /\ refreshed \in [Request -> 0 .. stack.refreshes]
  /\ waited \in [Request -> 0 .. Budget]
  /\ wakeAt \in [Request -> Nat] /\ calledAt \in [Request -> 0 .. stack.until]
  /\ aborted \in [Request -> BOOLEAN]
  /\ answer \in [Request -> Status]
  /\ seen \in [Request -> SUBSET (0 .. stack.retries)]
  /\ executed \in [Request -> Nat]

\* "collapses concurrent duplicate requests into one in-flight execution":
\* through retries, aborts and failures there is one read under way, and the
\* pending promise in the Map is that one's.
OneFlight ==
  \A r \in Request :
    InStack(r) /\ method[r] = "GET" <=> inflight = r

\* Whatever is retried, lost or aborted, the server executes a mutation once
\* at most: a PUT because every attempt has the same key, a POST because there
\* is one attempt.
ExecutedOnce == \A r \in Request : executed[r] <= 1

\* "enforces a total request budget across retries": no call is left in the
\* stack after its deadline, whether it was waiting for the server or for the
\* next attempt - unless it awaits a refresh, which no signal reaches.
DeadlineKept ==
  \A r \in Request : InStack(r) /\ phase[r] \notin {"refreshing", "refreshed"}
                      => clock <= DeadlineAt(r)

\* Calls that fail with 401 while a token is refreshed share that refresh, and
\* nobody awaits one that is over: through retries that start anew with the old
\* token, failures and aborted callers the shared promise is there exactly while one
\* call of refresh() is under way and somebody waits for it.
OneRefresh ==
  /\ refreshing <= 1
  /\ refreshPromise <=> refreshing = 1
  /\ refreshPromise <=> \E r \in Request : phase[r] = "refreshing"

\* Every call ends, followers too, even if the server never answers.
CallEnds == \A r \in Request : phase[r] # "idle" ~> phase[r] = "idle"

\* One read and one refresh under way, and no call after its deadline.
Safety == TypeOK /\ OneFlight /\ OneRefresh /\ DeadlineKept

-----------------------------------------------------------------------------
(* The inductive invariant behind these properties. *)

\* DeadlineKept, and what it rests on: the timer of deadline() aborts a call
\* in time, wherever it is, so that a refresh resumes none too late.
AbortedInTime ==
  \A r \in Request :
    InStack(r) /\ (~aborted[r] \/ phase[r] \notin {"refreshing", "refreshed"})
      => clock <= DeadlineAt(r)

\* A mutation the server has executed: it knows the key of a PUT, and the one
\* attempt of a POST is over.
ExecutionsKnown ==
  \A r \in Request :
    /\ executed[r] \in {0, 1}
    /\ executed[r] = 1 =>
         /\ InStack(r) /\ method[r] # "GET"
         /\ IdempotencyKey(r) \in seen[r]
         /\ method[r] = "POST" => phase[r] = "answered" /\ answer[r] \in {"200", "error"}

IInv ==
  /\ TypeOK
  /\ OneFlight
  /\ OneRefresh
  /\ AbortedInTime
  /\ ExecutionsKnown
=============================================================================
