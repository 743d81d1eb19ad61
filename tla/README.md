# Verification of pureq

pureq is a set of TypeScript packages: `pureq` (an HTTP client built from
middleware), `auth` (sessions, tokens, sign-in), `db` (connection pools, wire
protocols, a query builder, migrations), `connectivity`, `rpc` and `validation`.
This directory holds TLA+ models of the parts of it that keep state while several
calls, tabs or processes are under way, and of the algorithms between them; TLC
configurations that check them exhaustively on small instances; and proofs,
checked by TLAPS, for every value of the constants.

All paths below are relative to `src/`; `middleware/` is
`packages/pureq/src/middleware/`, `db/` is `packages/db/src/`, `auth/` is
`packages/auth/src/`.

## 1. The system

JavaScript runs one turn at a time, so a data race in the usual sense does not
exist.  What exists is interleaving at every `await`: code reads some state, awaits
the transport, a store, a database or a timer, and goes on with what it read.
Between processes and browser tabs (migrations, the offline queue, sessions) the
only shared things are a database, a browser storage and broadcast messages.

| Component | Source | State it keeps | Operations | What makes it correct |
|---|---|---|---|---|
| Concurrency limit | `middleware/concurrencyLimit.ts` | a bucket (counter, queue of tickets) per key | a call, its abort, its end | never more than the limit, no slot lost, first come first served, nobody forgotten, no bucket left behind |
| Connection pools | `db/drivers/native/{postgres,mysql}/pool.ts` | idle stack, counter, queue of resolvers | `execute`, `transaction`, `listen`, the function it returns, `end` | a connection has one user, at most `maxSize`, waiters are served |
| Native sessions | `db/drivers/native/*/*-connection.ts`, `driver.ts` | an open socket, the position in a response, a statement cache | `execute`, `stream`, `transaction` | a statement reads its own answer; the caller is told what the server did |
| Circuit breaker | `middleware/circuitBreaker.ts` | a Map of mutable entries | a request, `snapshot`, `reset` | cooldown respected, one probe, no lock-out |
| Migrations | `db/migration/index.ts` | a table in the database | `apply`, `rollback` by several processes | a migration is applied once or not at all, in order |
| HTTP cache | `middleware/httpCache.ts`, `stalePolicy.ts` | an LRU Map | a request | bounded staleness, validators matched |
| Offline queue | `middleware/offlineQueue.ts`, storage adapters | stored items, an id counter per tab | a call while offline, `flush`, `clear` | nothing lost, nothing sent twice, order kept |
| Dedupe, idempotency key, deadline, retry, auth refresh | `middleware/*.ts`, `executor/execute.ts` | promises under way, attempts, budgets, timers | a request, its abort | one flight, one refresh and one execution at a time; bounded attempts and time |
| Session manager | `auth/session/index.ts`, `storage/`, `hooks/` | two stored tokens, a refresh lock, a broadcast channel | `setTokens`, `rotateTokens`, `refreshIfNeeded`, `logout`, `clear`, remote messages | one session in every tab, one refresh at a time |
| Session exporter | `auth/session/exporters.ts` | a buffer, a flush under way | `auditEvent`, `flush`, `clear` | every event that is not cleared delivered once, in order |
| Request handlers | `auth/core/index.ts`, `bridge/`, `kit.ts` | a shared session manager, the database | sign-in and callback by e-mail, OAuth, credentials; session; sign-out | an answer shows the caller's own session; a mailed token signs in once |
| Adapters | `auth/adapter/` | four tables | `createUser`, `linkAccount`, `useVerificationToken`, ... | the three answer alike |
| OIDC flow | `auth/oidc/index.ts` | a discovery document, recent codes | `getAuthorizationUrl`, `exchangeCallback`, endpoints | only the answer to one's own sign-in becomes tokens |
| Revocation, JWT, CSRF, cookies | `auth/revocation/`, `jwt/`, `csrf/`, `bridge/` | three maps with expiry | a request | what was revoked stays so; what was issued is accepted |
| Wire codecs, SCRAM | `db/protocol/`, `scram.ts` | a position in a buffer | encoders and parsers | the size computed is the size written; what is sent is what is read |
| Stream reader | `packages/connectivity/src/index.ts` | buffered chunks | `read` | messages in order, each once, wherever the network cuts |
| Query builder and compiler | `db/builder/` | the builder's joins | `compile`, `execute` | the SQL means the expression; filters of the context hold |
| Validation | `packages/validation/src/` | a walk over a graph | `stringify` | every policy is found again; cycles are refused |
| RPC codec and server | `packages/rpc/src/` | a slab | `encode`, `decode`, a request | a value arrives as it was sent |

How they interact.  `createClient()` composes the middlewares around a transport:
each one calls the next with `next(req)`, a promise that settles when everything
below is done.  A middleware therefore sees what is below it as "an answer that
arrives later, or an error", and what is above it as "calls that may be concurrent
and may be aborted".  The pools call drivers, which own one connection each; a
driver reads messages from the stream reader and decodes them with the wire codec;
the migration manager calls whatever driver its database object was given, a single
connection or a pool, and that difference matters (section 6).  The request
handlers call an adapter, the OIDC flow and one session manager, which they fill
from the cookies of each request.  Tabs share the queue's and the session's storage,
the Web Lock that a flush may hold and, if they have the same secret, broadcasts.

Hard behaviours: abort signals that fire while a ticket is queued, in the same turn
as its promotion or after it; answers that arrive after the state they were sent in
has changed (circuit breaker, cache, session); entries held by a request while the
Map forgets them; a function inside a transaction that needs another connection of
the same pool; an answer that is left in the stream when a statement fails; two
deployments that migrate at once; a tab that is closed between the answer to a
replay and the removal of the item; tokens that are two writes; requests that share
a session manager; two statements that read and delete one row.  `PROJECT.json`
lists every hazard with its line and the properties that watch it.

## 2. Modules

| Module | Models | Composes or refines |
|---|---|---|
| `FifoSemaphore` | abstract: a keyed counting semaphore, first come first served, whose waiters may give up | |
| `ConcurrencyLimit` | the middleware `concurrencyLimit` | refines `FifoSemaphore` |
| `NativePool` | both connection pools | refines `FifoSemaphore` |
| `NativeSession` | a PostgreSQL or MySQL connection and its driver | the server is external; relies on the pool's `ExclusiveDrivers`, hence on a listener that is not released twice |
| `CircuitBreaker` | `createCircuitBreaker` with the default store | |
| `Migration` | `MigrationManager` of several processes, driver transaction included | |
| `HttpCache` | `httpCache` and `resolveStalePolicy` | |
| `OfflineQueue` | `createOfflineQueue` in several tabs over one storage | |
| `ClientStack` | `dedupe`, `idempotencyKey`, `deadline`, `retry`, `authRefresh` in this order, and the abort handling of `execute` | composes five middlewares with a server |
| `AuthSession` | session managers of several tabs, their stores, UI store, broadcasts, `withAuthSession` | extends `SessionExporter`, whose sink may be slow |
| `SessionExporter` | the buffered exporter | |
| `AuthServer` | the request handlers, the adapters' statements, the shared session manager, browsers and mailboxes | |
| `Bytes`, `PgWire`, `MysqlWire`, `Scram` | the two wire codecs, the SCRAM client | `Bytes`: views, UTF-8, buffers that are laid out before they are written |
| `MessageStream` | the three readers that put messages together | extends `PgWire` |
| `QueryCompiler` | expressions, statements, pushdown of a context's policies | |
| `Validation` | JSON pointers, policies, `stringify` | |
| `HyperCodec` | the RPC codec, the signed request, the row transcoder | |
| `AuthAdapters`, `Oidc`, `AuthTokens` | adapters as functions on tables; the OIDC flow; revocation, JWT, CSRF, cookies, legacy tokens | |
| `*Samples`, `MCAlgorithms` | bounded inputs and the reference definitions the algorithms are compared to | instantiate the modules above |
| `ConcurrencyLimitProofs`, `NativePoolProofs`, `CircuitBreakerProofs`, `MigrationProofs`, `HttpCacheProofs`, `OfflineQueueProofs`, `ClientStackProofs`, `NativeSessionProofs` | theorems about the module of that name (section 5) | extend the component's module |
| `MCHttpCache`, `MCNativeSession`, `MCOfflineQueue`, `MCClientStack`, `MCAuthSession`, `MCAuthServer` | values of the constants | |

An action is the code from one `await` to the next (for `Migration`: one statement
of the server).  Where an operation's code runs without awaiting, it is one action,
with every helper it calls.

**ConcurrencyLimit.**  `buckets[k]` is the Map's bucket of a key (`open` says that
the Map has one, `active` is its counter, `queue` its tickets; a ticket is the
request that holds it).  `phase[r]` is where the run of request `r` is: `queued`
while it awaits its ticket, `granted` between the resolution of the ticket and the
continuation of the middleware, `running` in `next(req)`.  `TakeSlot`, `Enqueue`,
`RejectFull`, `RejectAborted` are the paths of `acquire()`; `AbortQueued` is the
abort listener of a ticket; `AbortGranted` an abort after the promotion;
`Settle` is the `finally` block with `release()`, `promoteNext()` and
`cleanupBucketIfEmpty()`.

**NativePool.**  `pool`, `activeCount`, `queue` are the fields of the class.  A task
is a call of the pool; `caller[t]` is the transaction whose function made the
call.  `AcquireIdle`, `AcquireNew`, `AcquireWait` are the branches of `acquire()`,
`Release` is `release()`, `ListenFails` the path of `listen()` that keeps the
driver (phase `leaked`).  `Unlisten` is the first call of the function that `listen()`
returns, `UnlistenAgain` every later one, which releases a driver that is not the
caller's any more: `repeats` counts them and `repeated` has the drivers they touched.
`EndCall`, `EndDone` and `EndFails` are the two sides of the `await` in `end()`, whose
`close()` calls may reject.

**CircuitBreaker.**  `map` and `order` are the Map with its insertion order, `heap`
the entry objects, `entry[r]` the object a request holds.  The objects are
separate from the Map because a request goes on updating the object it holds
after the Map has evicted, expired or reset it.  `Get`/`Found`/`NotFound` are
apart because the result of `store.get()` is awaited before it is looked at.

**Migration.**  `tracked` and `net` are what the database has committed (the rows
of `_pureq_migrations`; the runs of `up()` minus those of `down()`), `writes[p]`
what the open transaction of process `p` has not committed.  With `Pooled` a
statement of the function goes to another connection and is committed by itself.
The database (row locks, primary key, rollback when a process dies) is the
environment.

**HttpCache.**  A response body is the version of the resource it shows; the server
changes the version at any moment and answers at any moment, so answers overtake
each other.  `lastSeen[k][v]` is a history: when `v` stopped being current.

**OfflineQueue.**  `store` is the durable storage as a set of items by id (both
durable adapters replace an item of the same id).  A flush keeps its copy of the
queue in `rest`, `batch` and `removing`.  `Reload` closes and reopens a tab between
any two steps.  `item[o].at` is what `Date.now()` gave, which may be the same for two
mutations, or less than before; a flush sorts what it read into one of the orders
`ReplayOrders`, since ties keep the order of the storage.  `PushAborts`, `RemoveFails`,
`ExpiredStays` and `FlushFails` are what the storage may do: an IndexedDB call rejects,
or resolves at `request.onsuccess` (`indexedDBAdapter.ts:36`) and its transaction is
aborted later.  `log` is what the server was sent; `doubtful` is a history of replays
that rejected, were cut off or whose removal failed, `unsaved` one of pushes that were
aborted.

**ClientStack.**  The middlewares in the order that
`packages/pureq/docs/reliability_primitives.md:46` recommends, with `authRefresh`
innermost, where `retry` sees what it does not repair.  `inflight` is the
Map of `dedupe` for one key, `leader[r]` whose promise a follower awaits;
`attempts` and `waited` are the locals of `retry`, `calledAt` stands for the
`deadlineAt` of `deadline`, `aborted` for the signal it joins, `refreshPromise` is
the promise that the calls of `authRefresh` share and `refreshed[r]` its local
`attempts`.  The server acts on a request, refuses it, answers 401 or says nothing,
and the connection breaks before or after; `seen` is what the server remembers of
idempotency keys, `executed` a history.  `Refresh` starts or joins a refresh,
`RefreshSettles` is the application's `refresh()`, `Resume` the continuation of those
that awaited it.  `Rejected` is what an abort comes to: `fetch` or `sleep` rejects,
`retry` may count one more attempt in its `catch`, whose `sleep` or `fetch` rejects
at once.

**NativeSession.**  `toServer` and `fromServer` are the two directions of the stream
as messages that carry, for the properties only, the number of the statement they
belong to (`of`).  `stage` is the read or write the connection awaits, `purpose`
what the statement is for (a call's own, BEGIN, COMMIT, ROLLBACK).  The server is
external: it answers in order, buffers what a transaction wrote (`pending`) and makes
it `durable`.  `behind` counts the answers that were left unread; `course` says whether the
stream was in step when the transaction began and what its function did since: left a
stream early, caught an error, or called `transaction()` of the driver again (`nested`
such calls are not over).  The statements of all of them are one `body`, because the
server knows one transaction.

**AuthSession.**  A token is the number of its pair; `jar` is the storage that the
tabs share, `own` the memory of each tab.  A call is a record with the step it
awaits (`call[c].at`); reads, writes and removals of the two tokens are steps of
their own.  `promised` is a history: the session that the completed changes come to.

**AuthServer.**  `request[w]` is the request a worker handles, with the step it awaits;
`db` the four tables, `session` the one store behind the shared session manager,
`cookie[p]` the browser of a person and `mailbox[p]` what was mailed to them.
`deployment` is the adapter, the rotation policy, whether accounts may be linked by
e-mail, and the kinds of request that arrive.

**MCAlgorithms.**  Every initial state is an input (`sample`), and the invariants
compare what the modelled code does with it to a reference: bytes to the grammar of
the protocol, SQL to the expression read back, a query to its meaning over small
tables, `stringify` to a definition over the structure of the schema, a codec to what
was sent, rounded as JavaScript rounds it, an adapter to the in-memory one, a registry
to its history.  For `MessageStream` the state then evolves: the bytes arrive in pieces
of any size.

## 3. Runs

`Safety` of a module is the conjunction of its type invariant and its first
properties, named here after the run.

| Run | Instance | What it shows |
|---|---|---|
| `limit` | 4 requests, 2 keys, 1 slot, queue of 2 | `Safety` (counter exact, limit kept, no idle slot beside a waiter, no bucket left), order of arrival, every waiter served or aborted, refinement |
| `pool` | 4 tasks, 2 connections, 3 driver objects; nesting, listeners, one release too many, `end()` that may fail | `Safety` (until a listener is released twice: counter exact, size bounded, a driver has one user; always: no idle driver beside a waiter), refinement, waiters served unless every connection is out of reach |
| `db_session` | both dialects, rows of 0 and 1; 5 statements and streams, or 4 on a connection that may break, 5 of them without streams, and 7 of transactions inside transactions | `Safety` (a statement in step reads its own answer; how far a PostgreSQL connection is behind is exactly the number of statements that failed or were left), `OutcomeTold` (a transaction that resolves is durable, one that throws left nothing), every call ends unless MySQL is behind |
| `breaker` | 2 requests (each may call again), 1 key, room for 1 entry, cooldown 1, ttl 2, clock to 2, resets | `Safety` (no stuck probe, probe alone), cooldown kept, probes and runs end |
| `migration` | 2 processes, 3 migrations, 2 failures or crashes, one process also rolls back | `Safety` (applied and tracked together, in order), every call ends |
| `migration_pooled` (violation) | 1 process, 1 migration, a pool of 2 | a failure leaves a migration applied and not tracked |
| `cache` | 2 requests, 2 keys, room for 1, ttl 1, stale-if-error 1, latency 1, 2 versions, clock to 5 | `Safety` (bounded staleness), a 304 refreshes what the server confirmed |
| `queue` | 2 tabs and a lock; 2 mutations with room for 2 or for 1 (replayed one by one, or together) and expiry, `clear()`, rejected replays, lost responses, a storage that fails or aborts, equal and decreasing times, a reload; or 3 mutations, one of them urgent, with such times | `Safety` (nothing accepted is lost, nothing is sent twice but for the histories named), order of replays within a priority, everything is replayed in the end |
| `stack` | 2 callers of reads, PUTs and POSTs; two retries and deadline by 3, or one retry, one refresh and deadline by 2; budget 2, aborts at any moment | `Safety` (one read under way, one refresh under way, deadline kept), mutations executed once, every caller and follower ends |
| `auth_session` | 2 tabs, 2 calls in the first beside 1 in the second, 2 message handlers; 6 scenarios of stores, policies and secrets | `Safety` (refreshes paced), `OneSession` (what every tab holds and shows at rest), `EventsInOrder` (exporter, with `clear()` and events after `dispose()`), every call ends |
| `auth_server` | 2 people, 2 requests at a time, 9 deployments (3 adapters, 2 policies, linking), 1 failing database call | `Safety` (an answer carries its own browser's session), `TokenSignsInOnce`, `RefusalExplained` |
| `algorithms` | some 81,500 inputs, and 2 streams of 2 messages in every fragmentation, for three readers | one invariant per algorithm: `WireExact`, `ScramMutual`, `MessagesIntact`, `QueryReadsBack`, `PoliciesKept`, `PoliciesShown`, `CodecExact`, `AdaptersAgree`, `SignInsSound`, `TokensSound` |

Why the bounds are enough.  `limit`: a queue of two is the smallest where an abort
can come from the middle and somebody can be overtaken; two keys show that buckets
do not mix; the values of the limits themselves are covered by the proof.
`pool`: with two connections and four tasks both connections can be held by
transactions whose functions wait for the pool, beside an outsider; one release too
many is enough to give a driver to two tasks, the proof covers any number.
`db_session`: five statements are a failed one, BEGIN, a body, COMMIT and one after
it, so that a transaction can run on a connection that is behind; and a rollback has
room; seven are a transaction inside another with statements before, in and after it.
`breaker`: the clock reaches opening, cooling down and expiry (ttl beyond the
cooldown, so that a half-open entry exists before it expires); with room for one
entry and three entry objects a request can hold an entry that was evicted while
another has replaced it.  `migration`: three migrations make "the middle one" exist,
two failures make a retry fail as well.  `cache`: the clock passes the sum of both
windows and the latency; two versions let an old answer overwrite a newer one, and
two keys with room for one make every insertion evict.  `queue`: room for one
with two tabs lets the size check race, two mutations are what disturbances need, and
a third lets an urgent one come between two others; two values of the clock make
mutations tie, follow one another or go back.  `stack`:
the deadline leaves time for a sleep and for a retry after it, the budget for two
waits of one or a Retry-After of two.  `auth_session`: two concurrent changes, from
one tab or two, overlap at each of their writes; three calls and a clock of two make
a refresh that is due again; each scenario makes the calls its stores and policy make
interesting.  `auth_server`: three or four requests are two sign-ins and their
callbacks, overlapping or not.  `algorithms`: lengths on both sides of every change
of encoding, lists of zero to three members (nine for a bitmap of two bytes), integers about 2^31,
2^53 and the ends of 64 bits, all sequences of three or four calls for what keeps
state.  The limits of the RPC codec (16 MB, a million items, its slabs) are constants,
made small enough that the inputs reach them.

Bounds that cut behaviour: `MaxClock`, `MaxVersion`, `MaxFailures`, `MaxCrashes`,
`MaxSends` (a response is not lost again once the server has had so many),
`MaxLatency` of the cache (an answer takes at most so long: the staleness bound
contains it, and without any bound on the latency there is no bound on the age),
`MaxRepeats` of a pool (calls of a listener's function beyond the first), `MaxStatements`,
`MaxRows` and the uses of a session, `until` of a client stack, `calls` and
`time` of a session scenario, `requests` of a deployment, `MaxFaults`.  Requests,
tasks and processes of the other modules run again and again without a bound.  Runs
with such a bound on calls say `CHECK_DEADLOCK FALSE`: when the calls are used up
the system rests.

## 4. Fairness

`ConcurrencyLimit` and `NativePool`: the continuation of a granted request runs (the
event loop runs its microtasks) and what is below settles (a transport has a timeout
or fails).  Nobody is obliged to call, to abort, to stop listening or to call
`end()`.  A pool without deadlines can starve, and the property says when: all
connections held by transactions that wait for the pool, or by listeners.
`NativeSession`: the event loop runs what may run and the server reads what it is
sent; nobody is obliged to call, and the network may break or not.
`CircuitBreaker`: microtasks run and the transport settles; time need not pass.
`Migration`: the server answers every statement, and serves waiters for a row in
some fair order, hence strong fairness.  `OfflineQueue`: the application flushes
again and again, a flush goes on, and of what is tried infinitely often some replay gets through
and some expired item out of the storage (strong fairness of `SomeReplay` and
`SomeRemoval`; not of each mutation by itself); reloads are bounded.  `ClientStack`:
timers fire and time passes, however often callers call and abort at one instant
(strong fairness of `Tick`), and the application's `refresh()` settles; the server
owes nothing, not even an answer.  `AuthSession`: what a call awaits (a store, the
application's `refresh()`, a lock) settles, well or not.  `AuthServer`, `HttpCache`
and the algorithms promise nothing that needs fairness.

## 5. Proofs

A module `XProofs` extends the module `X` and proves, for every value of its
constants, what the run of `X` checks on one instance.  Each of them has the same
shape: `IInv`, at the end of `X`, is the inductive invariant (TLC was given it as an
invariant of the run before anything was proved); a lemma per action says that the
action preserves it, with a step per conjunct the action disturbs; `NextIInv` puts
them together; the theorems follow with `PTL`.

| Module | Theorem | States | Assumes |
|---|---|---|---|
| `ConcurrencyLimitProofs` | `BucketsAreSafe` | `Safety`: type, accounting, the limit, work conservation, no bucket left | the constants' own |
| | `LimitRespected`, `TicketsUnique` | at most `MaxConcurrent` in flight; a waiting request has one ticket | |
| | `GrantedInOrder` | the action property `NoOvertaking` | |
| | `RefinesSemaphore` | the middleware implements `FifoSemaphore` | |
| `NativePoolProofs` | `PoolIsSafe` | `Safety`: counter, size and exclusive drivers but for what was released twice, nobody waits beside an idle driver | the constants' own |
| | `WaitersQueuedOnce` | the queue of resolvers holds the waiting tasks, each once | |
| | `RefinesSemaphore` | the pool implements `FifoSemaphore` with one key, where a second release of a listener is a signal too many | |
| `CircuitBreakerProofs` | `CircuitIsSafe` | `Safety`: no stuck probe, a probe is alone | `EntryAssumption` |
| | `CooldownIsKept` | the action property `CooldownKept` | |
| `MigrationProofs` | `MigrationsAreSafe` | `Safety`: applied and tracked together, in order | `~Pooled`, `OneRoller` |
| `HttpCacheProofs` | `CacheIsSafe` | `Safety`: both staleness bounds | `~OwnValidator` |
| | `EtagIsMatched` | the action property `EtagMatched` | |
| `OfflineQueueProofs` | `QueueIsSafe` | `Safety`: nothing lost, nothing replayed twice, but for the histories it names | `UniqueIds`, `Locked` |
| | `ReplaysAreOrdered` | `ReplayedInOrder` | |
| `ClientStackProofs` | `StackIsSafe` | `Safety`: one read, one refresh, the deadline | the constants' own |
| | `NoMutationTwice` | `ExecutedOnce` | |
| `NativeSessionProofs` | `SessionIsSafe` | `Safety`: type, whose answers are read and what a call leaves unread | the constants' own |
| | `OutcomesAreTold` | `OutcomeTold`: what `transaction()` tells is what the server did, if it held no other and the stream was in step | |

Each module also proves `InductiveInvariant`, `Spec => []IInv` (`MigrationProofs`
within its one theorem).

**Assumptions.**  "The constants' own" are the named assumptions of the module, which
TLC evaluates in its run: finite sets, natural numbers, at least one slot.  The
others say what the code does not promise by itself:

- `EntryAssumption`: the model names entry objects from a set, and a new object must
  have a free name.  A request holds one entry and a key maps to one, so as many names
  as there are of both suffice; the proof shows that they do.
- `~Pooled`: over a pool the migration manager is not safe, which the run
  `migration_pooled` shows.  `OneRoller`: two processes that roll back at once read the
  same latest migration and both revert it, since `DELETE` of an absent row succeeds;
  with two of them TLC finds `Safety` violated.  Any number of processes may apply
  beside the one that rolls back.
- `~OwnValidator`: a caller with an `If-None-Match` of its own is given the cached
  entry on a 304 that did not confirm it (section 6).
- `UniqueIds`, `Locked`: the options `generateId` and `lockName` of the queue.  The
  default ids repeat after a reload (section 6), and without the lock two tabs replay
  the same copy of the queue.

**The arguments.**

`ConcurrencyLimit`.  "At most `MaxConcurrent` in flight" needs that the counter is the
number of those in flight; that the counter is exact needs that a promotion counts a
request that was not counted before, so that every ticket in a queue belongs to a
suspended request of that key (`TicketsSound`), only once; that nobody waits beside an
idle slot needs that a queue exists only while the counter is at the limit
(`CounterInv`).  The hard case is `Settle` with a waiter: `release()` gives a slot
back, `promoteNext()` takes it in the same turn, and the set of holders changes by two
elements while the counter stays.  Refinement and order follow from `IInv` and the
shape of each step: only the head of a queue is ever promoted, and only by a release.

`NativePool`.  The same, with objects: a driver handed to a waiter passes from one user
to the next without lying on the stack, so exclusiveness (`HeldSound`, `IdleSound`)
needs that nobody waits while the stack has a driver (`LineInv`) and that a waiter is
in the queue once (`QueueSound`, `WaitersListed`).  Leaks, listeners and `end()`, which
may fail, lower nothing that the counter does not lower.  A second call of what
`listen()` returned does: the counter is then short of the users by one (`repeats`),
and the driver it hands on may have a user, or be on the stack, already (`repeated`);
all other drivers remain exclusive, the line remains first come first served, and the
semaphore has a permit more.  A repeated driver is one that a listener gave back
(`RepeatedSound`), so it exists.

`CircuitBreaker`.  A request goes on with the entry object it holds (`EntryHeld`) after
the Map has dropped it, so everything is said about objects, not keys.  That a late
answer does not end another request's probe rests on two facts about time: a request
in flight on an open circuit was called before it opened (`CalledBeforeOpening`), so
that when the cooldown is over and a probe is let in, whoever else is in flight has
outlived the cooldown (`NoneLate`); otherwise the flag counts the requests in flight
exactly (`ProbeCounts`).  With a cooldown of zero every request outlives it, hence
`late` is true from the start.

`Migration`.  What a transaction holds is known from where its process is
(`WritesAtPhase`); two inserts or deletes of one row exclude each other
(`RowHeldOnce`), and a row that is to be deleted is there (`RowAtPhase`), which is
where a second roller breaks the induction.  Order needs the loop invariant of
`apply()`: whatever is not in `todo` is tracked or was rolled back meanwhile
(`LoopInv`).

`HttpCache`.  The staleness bound is about an answer that was the server's when it was
made: every entry, the copies that requests keep included, shows what the server still
had not earlier than `MaxLatency` before it was stored (`Dated`, `CachedSound`); an
answer under way shows what the server had at some time since its request
(`AnswerSound`); and a 304 confirms the very version that the request named, which is
that of its own copy (`EtagSound`), however often the entry was replaced meanwhile.

`OfflineQueue`.  An item is its mutation's wherever it is (`ItemsSound`), so a removal
by id removes what was replayed and nothing else.  With the lock every item is in one
place of one flush (`FlushSound`), so what was replayed is not to be replayed again
unless it is doubtful (`ReplayedSound`).  The order of replays is not a property of
one flush: a mutation that has *passed* was replayed, or is in no flush and will get
into none; what a caller knew to be queued is stored until then (`NothingLost`), and if
its time is less it comes first in every order of a flush that takes both (`OneByOne`).
A mutation whose replay or removal failed is no predecessor any more (`Predecessors`):
the loop goes on behind it, and it comes back later.  Nothing is assumed of the clock.

`ClientStack`.  The pending promise in the Map of `dedupe` belongs to the one read in
the stack, and the shared refresh is there exactly while somebody awaits it: these are
inductive with the type.  The deadline needs that time does not pass over an abort
that is due (`AbortedInTime`); single execution needs that the server still knows the
key of what it executed, and that a POST is not tried again (`ExecutionsKnown`).

`NativeSession`.  For `connect()` the invariant lists what the two sides have said at
each stage (`ConnectSound`), because a driver that takes any packet for the expected
one is right only as long as no other can come.  For statements it distinguishes.  On
PostgreSQL every answer ends in its own ReadyForQuery, so the answers unread are
counted: as many as statements threw or streams were left, plus one while a statement
reads (`UnreadCounted`); reading a message lowers the count exactly if it is a
ReadyForQuery, which is the lemma `ReadiesOfTail`, a bijection between what is left of
a stream and its tail.  On a connection in step more is known: the stream holds
nothing, the request, or what is left of the statement's own answer, which ends in the
message its loop waits for and has no other of that type (`InStep`, `EndsIn`).  This
is why an error must be read where it comes first, and it needs the statement cache to
be right about columns.  `OutcomeTold` needs that what the server has executed of a
transaction in step is pending (`BodySound`, until the COMMIT is executed), and that
after a failure a ROLLBACK is read before anything else could make it durable
(`RollbackFirst` in `GaveUpSound`): on PostgreSQL it may be read when the client is an
answer behind already, which is why this is said of the requests and not of what the
client has read.  Rows of any number are covered by the lemmas about an answer,
`SuccessAnswers` and `FailureAnswers`.

**What is only model-checked.**  Liveness (the leads-to properties, fairness): the
prover does not reason about fairness or `ENABLED`.  The algorithms of
`MCAlgorithms`: they are folds and recursive functions over data, some in modules with
`RECURSIVE` operators.  (The proofs above that need induction over a sequence or a
number take a least counterexample, `LeastNatural`, or a bijection with an interval;
for the codecs and compilers this is out of proportion.)  `Safety`, `OneSession` and
`EventsInOrder` of `AuthSession` and the three invariants of `AuthServer` are not
proved: their runs hold several tabs, managers, browsers and adapters at once, and what
makes them right is spread over all of them.  Every other invariant and action property
of a passing run is proved.

## 6. Where the code and its documents disagree

One disagreement is kept as a run (`migration_pooled`, `PROJECT.json` quotes the
sentence): over `NativePool`, `up()` and its INSERT are not in one transaction
(`db/migration/index.ts:38`).  The others were met while modelling; each is what the
model does, and the properties name the exception where they meet it.

Client:

- Over a pool of one connection `apply()` waits for a second connection forever
  (`packages/db/docs/api_reference.md:93`; set `Pooled = TRUE`, `PoolSize = 1` and
  check `CallEnds`).
- Two concurrent first requests make two circuit-breaker entries and their failures
  are counted apart, so `failureThreshold` failures in a row may leave the circuit
  closed (`circuitBreaker.ts:196-220`, `packages/pureq/docs/middleware_reference.md:58`).
- The 304 branch of the cache inserts without evicting: the Map grows past
  `maxEntries` (`httpCache.ts:100-104`, `:12`).  A caller that sends its own
  `If-None-Match` gets, on a 304, the cached version and not the confirmed one
  (set `OwnValidator = TRUE` and check `EtagMatched`).
- The default ids of the offline queue count from 1 in every queue object, so a
  reloaded tab overwrites stored mutations (`offlineQueue.ts:141`,
  `packages/pureq/docs/storage_adapters.md:34`; set `UniqueIds = FALSE`).
- `push()` and `remove()` of the IndexedDB adapter resolve at `request.onsuccess`
  (`indexedDBAdapter.ts:36`, `:58`), before their transaction completes: if it aborts, a
  mutation that was answered 202 is not stored (`unsaved`).  A `remove()` that rejects
  after the server answered counts as a failed replay (`offlineQueue.ts:226-256`): the
  item is replayed again, and behind those that came after it (`doubtful`).  Items of
  the same `Date.now()` are replayed in the order of the storage, that of their ids.
- The second `next()` of `hedge.ts:100` is rejected by `compose.ts:38-41`: a hedged
  request is never sent.  `hedge.test.ts` calls the middleware without `compose`.
- No signal reaches the `await` of `refresh()` (`authRefresh.ts:62`): a call outlives
  its deadline while a refresh hangs; `DeadlineKept` exempts these calls.  `dedupe`
  looks at no signal either: a follower ends with its leader.

Database:

- The function that `listen()` returns releases its driver at every call
  (`postgres/pool.ts:48-50`): the second one lowers `activeConnections` below the number
  of users, below zero if there are none, opens a connection too many, and gives one
  driver to two callers.  An `end()` that rejects leaves drivers that were closed on the
  stack (`:82-83`).
- `tx.transaction()` inside a transaction sends BEGIN and COMMIT over the same
  connection (`postgres/driver.ts:104-116`, `mysql/driver.ts:71-82`): the inner COMMIT
  makes the outer statements durable, and an outer function that throws later makes
  `transaction()` throw although they are.  A stream that is left early inside a
  transaction leaves it an answer behind.  `OutcomeTold` excludes both (`course`).
- A failed PostgreSQL statement leaves ReadyForQuery unread (`pg-connection.ts:94`):
  later statements read the answer to an earlier one, and a transaction may resolve
  though COMMIT was refused.  A MySQL error that answers a statement without columns
  is taken for success (`mysql-connection.ts:74-79`); `streamQuery` never reads the OK
  of one.  The pure driver reads parameter definitions, the native one does not.  A
  driver keeps a connection that is dead.
- The startup message counts characters, not bytes (`pg-wire.ts:187-203`); binary
  arrays of more than one dimension are misread (`:539`); MySQL's `parseField` reads
  each string from the bytes that follow it (`mysql-wire.ts:325`); a length that is
  missing reads as zero (`:459`); eager and lazy rows disagree about MySQL dates and
  duplicate names.  64-bit integers become doubles (`pg-wire.ts:475`,
  `mysql-wire.ts:389`): `WireExact` demands the exact value up to 2^53 and the nearest
  double beyond.  NUMERIC, OID, DATE, TIME and INET in binary are the text of their bytes
  (`pg-wire.ts:503-505`); unsigned MySQL columns are read as signed ones; ENUM, SET, BIT
  and packed dates come as "Unsupported".
- A joined alias is not written after AS, so a qualifier may name no table
  (`compiler.ts:104-115`; `getUserByAccount` of the query-builder adapter does so).
  Masks do not reach column expressions; right and full joins are not restricted by a
  filter on their ON; a builder that is executed twice adds its join filters twice.
- `InsertBuilder.execute` consults no `policy.rls` (`builder.ts:488-497`): a context may
  insert a row of another owner, and an UPDATE may give one away; `compileUpsert` knows
  no context at all.  `PoliciesKept` says so: it demands the filter of SELECT, UPDATE and
  DELETE, the check of a `userId` column of INSERT, and otherwise that what is written is
  what was given, on a table with a policy of its own too.
- A policy on a nullable or optional wrapper applies to its null alone
  (`nullable.ts:26-39`), and defaults of a later policy override what an earlier one
  set (`merge.ts:65-66`).  The `policy()` of a guard schema calls itself
  (`composite/guard.ts:87`): the schema of a table with a non-nullable date or json
  column that has a policy is a RangeError.  A date column takes `Date` objects only,
  and `stringify` shows one as `{}` (`stringify.ts:90`).

RPC:

- The writer has no limit on strings and items, the reader refuses more than 16 MB and
  a million (`codec.ts:139`): such values do not arrive.  A slab doubles, so a value of
  more than half of the 128 MB may be refused although it fits (`:19-23`).  A bigint, a
  function or a symbol writes nothing, and what is read then is not the value.  -0
  arrives as 0 and undefined as null.
- Whatever throws in the handler, its procedure and the encoding of the answer
  included, is answered 403 (`handler.ts:73-76`).
- `transcodePgRow` writes into a slab that does not grow (`transcoder.ts:14-54`): single
  bytes past its end are lost without a word, a string or a buffer there throws.

Auth:

- `AdaptersAgree` names where the adapters differ: database constraints are errors
  where the memory adapter replaces; ids given by the caller are not kept; in the
  query-builder adapter `getUserByAccount` is always an error, expiry is never
  checked and a missing row is no error.
- A discovery that was rejected stays rejected (`oidc/index.ts:243-249`); a code is
  recorded before its exchange, so a failed exchange cannot be repeated; the
  verifier that is returned does not belong to the caller's own `codeChallenge`;
  `extraParams` may replace `state`, `nonce` and `redirect_uri`.
- `clear()` of the exporter drops buffered events, and a manager goes on recording
  events after `dispose()` when a call was under way (`session/index.ts:159-162`).
- An empty `s=` in the answer of a SCRAM server is taken for a salt
  (`scram.ts:105-112`).
- With a revocation backend that answers with promises, claims with a `jti` are never
  revoked and others always are (`revocation/index.ts:87-96`).
- Instances that were given no secret sign broadcasts with secrets of their own and
  never follow each other; the idle timeout compares times of one call
  (`session/index.ts:243-249`); a logout during a refresh is undone by it; `clear()`
  and `regenerateSession()` are not broadcast; tokens set by a late broadcast replace
  newer ones.  `OneSession` therefore speaks of changes that do not overlap.
- `authCookieStore` writes HttpOnly cookies by default, which no script may write
  (`storage/index.ts:116`): it then is the memory store of its fallback.
- All requests of a server share one session manager: overlapping ones may be answered
  with each other's session, and `Safety` of `AuthServer` speaks of requests handled
  alone.  `createUser` and `linkAccount` are two calls; a failure between them makes
  the next callback a refusal.  Overlapping callbacks may both use one verification
  token over SQL (`packages/auth/docs/adapter_harness.md:34`).  Under
  `require-refresh-token` every callback fails once its token is spent, and a callback
  with an `id_token` fails for want of an expected nonce (`core/index.ts:303-305`).

Some properties hold under a condition that the code does not enforce; the condition
is part of the formula and named by a variable: `ActiveAccounted` and
`ExclusiveDrivers` (`repeats`, `repeated`), `ProbeAlone` (no request outlives the
cooldown: `late`), `NothingLost` (`unsaved`), `ReplayedOnce` and `ReplayedInOrder`
(`doubtful`), `InOrder` (`reverted`), `AnswersMatched`, `OutcomeTold` and, for MySQL,
`CallEnds` (`behind`, `course`), `EventsInOrder` (`dropped`), `OneSession`
(`overlapped`, `behind`), `RefusalExplained` (`halfLinked`).  `migration` has one
process that rolls back: two of them both run `down()` of the same migration, since
`DELETE` of an absent row succeeds.

## 7. What is not modelled, and the plan

Proofs next: `AuthSession`, where `RefreshPaced` follows from the lock of a tab and
`EventsInOrder` from the exporter alone, then `TokenSignsInOnce` of `AuthServer`.

Not modelled: `hedge` over `compose` (it never sends its second request, above),
`fallback` and `defaultTimeout` (a constant answer, one timer), the options and
diagnostics of `createClient`, telemetry and redaction of log entries, the result
type; framework adapters, hooks of UI libraries other than the store, provider
tables, e-mail sending, token encryption (platform cryptography around one call); the
HTTP and in-process drivers (Neon, PlanetScale, D1, SQLite), which keep no state
between calls; the project starter; opening sockets; examples and tests.  Of modelled
parts: `listen()` notifications are modelled in the pool and not in the session;
the function of a transaction awaits each call before it makes the next (no
`Promise.all`, no statement inside the loop over a stream of the same driver); a pool's
`end()` is called again only after it has settled; what `parseFloat`, `JSON.parse` and
`Date` make of a text in the wire codecs is a term that names the conversion and the
text, and custom decoders are left out.
