-------------------------- MODULE ConcurrencyLimit --------------------------
(***************************************************************************)
(* The concurrencyLimit() middleware of the HTTP transport: a map from key *)
(* to bucket, a bucket being a counter of granted slots and a queue of     *)
(* tickets.  One request is one run of the middleware function; the        *)
(* program is single-threaded, so an action is a maximal piece of code     *)
(* between two awaits:                                                     *)
(*                                                                         *)
(*   - the call of the middleware up to the end of acquire(), which ends   *)
(*     with a slot (TakeSlot), with an error (RejectFull, RejectAborted)   *)
(*     or suspended on a ticket (Enqueue);                                 *)
(*   - the caller aborting the request's signal, with the listener that    *)
(*     the ticket registered (AbortQueued) or without one (AbortGranted);  *)
(*   - the continuation that calls next(req) (Begin);                      *)
(*   - next(req) settling and the finally block: release() with the whole  *)
(*     promotion loop and the clean-up it ends with (Settle).              *)
(***************************************************************************)
EXTENDS Naturals, FiniteSets, Sequences, SequencesExt

CONSTANTS
  Request,        \* runs of the middleware; a finished one may run again
  Key,            \* what keyBuilder can return
  MaxConcurrent,  \* options.maxConcurrent
  MaxQueue        \* options.maxQueue; undefined is any value >= |Request|

\* validateOptions(): a positive integer, and an integer >= 0.
ASSUME LimitAssumption == MaxConcurrent \in Nat \ {0} /\ MaxQueue \in Nat

\* A process has finitely many requests in flight.
ASSUME RequestAssumption == IsFiniteSet(Request)

VARIABLES
  buckets,   \* the Map: an absent bucket has open = FALSE and is blank
  phase,     \* where each run of the middleware is
  keyOf,     \* the key the run was given by keyBuilder
  aborted    \* whether the run's AbortSignal has fired

vars == <<buckets, phase, keyOf, aborted>>

Bucket == [open : BOOLEAN, active : Nat, queue : Seq(Request)]
NoBucket == [open |-> FALSE, active |-> 0, queue |-> <<>>]
Phase == {"idle", "queued", "granted", "running", "rejected"}

Init ==
  /\ buckets = [k \in Key |-> NoBucket]
  /\ phase = [r \in Request |-> "idle"]
  /\ keyOf \in [Request -> Key]
  /\ aborted = [r \in Request |-> FALSE]

-----------------------------------------------------------------------------
(* The helpers of the closure.  What getBucket() creates for an absent key  *)
(* has the counter and the queue of NoBucket, so reading needs no helper.  *)

InUse(active, queue) == [open |-> TRUE, active |-> active, queue |-> queue]

\* cleanupBucketIfEmpty(): a bucket nobody uses leaves the map.
Cleaned(active, queue) ==
  IF active = 0 /\ queue = <<>> THEN NoBucket ELSE InUse(active, queue)

\* Mutant: release() gives the slot back and promotes nobody.
MutNoPromotion(active, queue) == 0

\* How many tickets the while loop of promoteNext() shifts.
Promotions(active, queue) ==
  IF active >= MaxConcurrent THEN 0
  ELSE IF MaxConcurrent - active <= Len(queue) THEN MaxConcurrent - active
  ELSE Len(queue)

\* Mutant: the ticket is shifted and counted, its promise never resolved.
MutNeverResolved(active, queue) == {}

Promoted(active, queue) == {queue[i] : i \in 1 .. Promotions(active, queue)}

\* Mutant: the promotion loop forgets `bucket.active += 1`.
MutUncounted(active, queue) ==
  LET n == Promotions(active, queue)
  IN Cleaned(active, SubSeq(queue, n + 1, Len(queue)))

PromoteNext(active, queue) ==
  LET n == Promotions(active, queue)
  IN Cleaned(active + n, SubSeq(queue, n + 1, Len(queue)))

\* release() before its promotion loop: the counter never goes below zero.
Released(active) == IF active > 0 THEN active - 1 ELSE 0

-----------------------------------------------------------------------------
Finished(r) == phase[r] \in {"idle", "rejected"}

\* A new run of the middleware: keyBuilder(req) is k, req.signal.aborted is a.
Called(r, k, a) ==
  /\ Finished(r)
  /\ keyOf' = [keyOf EXCEPT ![r] = k]
  /\ aborted' = [aborted EXCEPT ![r] = a]

\* acquire(): a free slot is taken at once, the signal is not looked at.
TakeSlot(r, k, a) ==
  /\ Called(r, k, a)
  /\ buckets[k].active < MaxConcurrent
  /\ buckets' = [buckets EXCEPT ![k] = InUse(@.active + 1, @.queue)]
  /\ phase' = [phase EXCEPT ![r] = "granted"]

\* acquire(): no slot, and the queue is at its limit.
RejectFull(r, k, a) ==
  /\ Called(r, k, a)
  /\ buckets[k].active >= MaxConcurrent
  /\ Len(buckets[k].queue) >= MaxQueue
  /\ buckets' = [buckets EXCEPT ![k] = InUse(@.active, @.queue)]
  /\ phase' = [phase EXCEPT ![r] = "rejected"]

\* acquire(): it would have to wait, but its signal has fired already.
RejectAborted(r, k) ==
  /\ Called(r, k, TRUE)
  /\ buckets[k].active >= MaxConcurrent
  /\ Len(buckets[k].queue) < MaxQueue
  /\ buckets' = [buckets EXCEPT ![k] = InUse(@.active, @.queue)]
  /\ phase' = [phase EXCEPT ![r] = "rejected"]

\* Mutant: the ticket goes to the front of the queue (unshift).
MutUnshift(r, k) ==
  /\ Called(r, k, FALSE)
  /\ buckets[k].active >= MaxConcurrent
  /\ Len(buckets[k].queue) < MaxQueue
  /\ buckets' = [buckets EXCEPT ![k] = InUse(@.active, <<r>> \o @.queue)]
  /\ phase' = [phase EXCEPT ![r] = "queued"]

\* acquire(): a ticket at the end of the queue, and the promise is awaited.
Enqueue(r, k) ==
  /\ Called(r, k, FALSE)
  /\ buckets[k].active >= MaxConcurrent
  /\ Len(buckets[k].queue) < MaxQueue
  /\ buckets' = [buckets EXCEPT ![k] = InUse(@.active, Append(@.queue, r))]
  /\ phase' = [phase EXCEPT ![r] = "queued"]

\* The ticket's abort listener: splice the ticket, clean up, reject.
AbortQueued(r) ==
  /\ phase[r] = "queued"
  /\ aborted' = [aborted EXCEPT ![r] = TRUE]
  /\ buckets' = [buckets EXCEPT
                   ![keyOf[r]] = Cleaned(@.active, RemoveFirst(@.queue, r))]
  /\ phase' = [phase EXCEPT ![r] = "rejected"]
  /\ UNCHANGED keyOf

\* After the promotion removed the listener an abort changes no bucket.
AbortGranted(r) ==
  /\ phase[r] \in {"granted", "running"}
  /\ ~aborted[r]
  /\ aborted' = [aborted EXCEPT ![r] = TRUE]
  /\ UNCHANGED <<buckets, phase, keyOf>>

\* The continuation of `await acquire(...)`: next(req) is called.
Begin(r) ==
  /\ phase[r] = "granted"
  /\ phase' = [phase EXCEPT ![r] = "running"]
  /\ UNCHANGED <<buckets, keyOf, aborted>>

\* next(req) fulfils or rejects; the finally block releases the slot.  (An
\* absent bucket would stay as it is: it is blank, and so is what is left.)
Settle(r) ==
  LET active == Released(buckets[keyOf[r]].active)
      queue == buckets[keyOf[r]].queue
  IN /\ phase[r] = "running"
     /\ buckets' = [buckets EXCEPT ![keyOf[r]] = PromoteNext(active, queue)]
     /\ phase' = [q \in Request |->
                    CASE q = r -> "idle"
                       [] q \in Promoted(active, queue) \ {r} -> "granted"
                       [] OTHER -> phase[q]]
     /\ UNCHANGED <<keyOf, aborted>>

Next ==
  \E r \in Request :
    \/ \E k \in Key :
         \/ \E a \in BOOLEAN : TakeSlot(r, k, a) \/ RejectFull(r, k, a)
         \/ RejectAborted(r, k)
         \/ Enqueue(r, k)
    \/ AbortQueued(r)
    \/ AbortGranted(r)
    \/ Begin(r)
    \/ Settle(r)

Spec == Init /\ [][Next]_vars

\* The event loop runs the continuation of a granted slot, and the transport
\* below settles (it has a timeout or a deadline of its own).  Nothing obliges
\* a caller to call or to abort.
Fairness == \A r \in Request : WF_vars(Begin(r)) /\ WF_vars(Settle(r))

FairSpec == Spec /\ Fairness

-----------------------------------------------------------------------------
(* Properties. *)

\* The requests that hold a slot of k: granted one, or in next(req).
InFlight(k) ==
  {r \in Request : keyOf[r] = k /\ phase[r] \in {"granted", "running"}}

\* Every variable keeps its shape.
TypeOK ==
  /\ buckets \in [Key -> Bucket]
  /\ phase \in [Request -> Phase]
  /\ keyOf \in [Request -> Key]
  /\ aborted \in [Request -> BOOLEAN]

\* The counter of a bucket is the number of requests that hold one of its
\* slots, whatever mixture of grants, aborts, failures and promotions led
\* here: a leaked slot would block the key forever, a doubly released one
\* would admit too many.
SlotsAccounted == \A k \in Key : buckets[k].active = Cardinality(InFlight(k))

\* The limit itself: never more than maxConcurrent requests of a key are
\* between their grant and the release of their finally block.
AtMostMaxConcurrent == \A k \in Key : Cardinality(InFlight(k)) <= MaxConcurrent

\* No request waits while a slot of its key is free.
NoIdleSlotWhileWaiting ==
  \A k \in Key :
    buckets[k].queue # <<>> => Cardinality(InFlight(k)) = MaxConcurrent

\* The map holds a bucket exactly while the key is in use, so that a keyed
\* limit does not grow with every key it has ever seen.
BucketsReclaimed ==
  \A k \in Key : buckets[k].open <=> \E r \in Request :
                   keyOf[r] = k /\ phase[r] \in {"queued", "granted", "running"}

\* A slot is neither leaked nor given twice, no waiter is left beside a free
\* one, and no bucket outlives its requests.
Safety ==
  /\ TypeOK /\ SlotsAccounted /\ AtMostMaxConcurrent
  /\ NoIdleSlotWhileWaiting /\ BucketsReclaimed

\* A suspended request has one ticket, in the queue of its own key, and a
\* request that is not suspended has none: nobody waits unnoticed, nobody is
\* granted a slot after it gave up.
OneTicketPerWaiter ==
  \A k \in Key, r \in Request :
    LET Tickets == {i \in DOMAIN buckets[k].queue : buckets[k].queue[i] = r}
    IN Cardinality(Tickets) = IF phase[r] = "queued" /\ keyOf[r] = k THEN 1 ELSE 0

\* A slot is granted in the order of arrival: whoever is granted one leaves
\* nobody behind who was waiting before it, neither a newcomer nor a ticket
\* from the middle of the queue overtakes.
Ahead(r, q) ==
  {w \in ToSet(q) \ {r} : r \in ToSet(q) => \E i, j \in DOMAIN q :
                                              i < j /\ q[i] = w /\ q[j] = r}
NoOvertaking ==
  [][\A r \in Request :
       phase[r] # "granted" /\ phase'[r] = "granted" =>
         Ahead(r, buckets[keyOf'[r]].queue)
           \cap ToSet(buckets'[keyOf'[r]].queue) = {}]_vars

\* As long as the requests in flight settle, a queued request is granted its
\* slot or gives up; no ticket is forgotten.
EveryWaiterServed ==
  \A r \in Request : phase[r] = "queued" ~> phase[r] # "queued"

\* The middleware implements the abstract keyed semaphore.
Semaphore == INSTANCE FifoSemaphore WITH
  Client <- Request, Capacity <- MaxConcurrent,
  holders <- [k \in Key |-> InFlight(k)],
  line <- [k \in Key |-> buckets[k].queue],
  permits <- [k \in Key |-> MaxConcurrent]

\* Every step of the buckets is a step of the keyed first-come-first-served
\* semaphore, or changes nothing it can see.
ImplementsSemaphore == Semaphore!Spec

-----------------------------------------------------------------------------
(* The inductive invariant behind these properties. *)

\* The counter stays within the limit and nobody queues below it.
CounterInv ==
  \A k \in Key :
    /\ buckets[k].active <= MaxConcurrent
    /\ buckets[k].queue # <<>> => buckets[k].active = MaxConcurrent
    /\ buckets[k].open <=> (buckets[k].active # 0 \/ buckets[k].queue # <<>>)

\* Every ticket of k belongs to a request suspended on k, and to one only.
TicketsSound(k) ==
  LET q == buckets[k].queue
  IN \A i \in 1 .. Len(q) :
       /\ phase[q[i]] = "queued" /\ keyOf[q[i]] = k
       /\ \A j \in 1 .. Len(q) : q[j] = q[i] => j = i

\* Every request suspended on k has a ticket.
WaitersListed(k) ==
  \A r \in Request :
    phase[r] = "queued" /\ keyOf[r] = k =>
      \E i \in 1 .. Len(buckets[k].queue) : buckets[k].queue[i] = r

QueueInv == \A k \in Key : TicketsSound(k) /\ WaitersListed(k)

\* Counters count holders, queues hold the waiters, and a queue means that
\* the counter is at the limit: preserved by every step of the middleware.
IInv == TypeOK /\ SlotsAccounted /\ CounterInv /\ QueueInv
=============================================================================
