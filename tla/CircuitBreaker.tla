--------------------------- MODULE CircuitBreaker ---------------------------
(***************************************************************************)
(* createCircuitBreaker() with its default in-memory store: a Map from key *)
(* to an entry object.  The entries are objects: a request reads one from  *)
(* the Map, keeps the reference while it awaits next(req) and updates the  *)
(* object it kept, whatever the Map holds by then.  Every store operation  *)
(* is awaited, so requests interleave between any two of them; an action   *)
(* is the code between two awaits.  Date.now() is clock.                   *)
(***************************************************************************)
EXTENDS Naturals, Sequences, FiniteSets, SequencesExt

CONSTANTS
  Request,           \* runs of the middleware; a finished one may run again
  Key,
  Entry,             \* identities of the entry objects
  NoEntry,           \* the Map has no entry (undefined)
  FailureThreshold,
  SuccessThreshold,
  Cooldown,          \* cooldownMs
  MaxEntries,        \* Infinity is any value above |Key|
  EntryTtl,          \* entryTtlMs, 0 when it is undefined
  AllowReset,        \* reset() is called
  MaxClock           \* bound: the clock stops there

ASSUME BreakerAssumption ==
  /\ FailureThreshold \in Nat \ {0} /\ SuccessThreshold \in Nat \ {0}
  /\ Cooldown \in Nat /\ MaxEntries \in Nat \ {0} /\ EntryTtl \in Nat
  /\ AllowReset \in BOOLEAN /\ MaxClock \in Nat /\ NoEntry \notin Entry

\* There is always an identity left for a new object.
ASSUME EntryAssumption ==
  /\ IsFiniteSet(Key) /\ IsFiniteSet(Request)
  /\ IsFiniteSet(Entry) => Cardinality(Entry) >= Cardinality(Key) + Cardinality(Request)

VARIABLES
  clock,
  order,      \* the keys of the Map, in insertion order
  map,        \* map[k]: the entry of k, NoEntry for an absent key
  heap,       \* heap[e]: the fields of entry object e
  phase,      \* where each run of the middleware is
  keyOf,      \* keyBuilder(req)
  now,        \* `now`, read when the middleware was called
  entry,      \* `entry`, the object the run refers to
  toEvict,    \* entries its while loop in getEntry() has still to evict
  late        \* history: some request was in flight for the whole cooldown
              \* (any request was, when there is no cooldown)

vars == <<clock, order, map, heap, phase, keyOf, now, entry, toEvict,
          late>>
runVars == <<keyOf, now, toEvict, late>>

Phase == {"idle", "pruning", "read", "evicting", "found", "touched", "running",
          "probing", "settled"}
Fields == [state : {"closed", "open", "half-open"}, failures : Nat,
           successes : Nat, openedAt : Nat, probe : BOOLEAN, accessed : Nat]

\* lastAccessedAt is read by the pruning only: without a ttl it is left out.
Stamp(t) == IF EntryTtl = 0 THEN 0 ELSE t

Fresh(t) == [state |-> "closed", failures |-> 0, successes |-> 0,
             openedAt |-> 0, probe |-> FALSE, accessed |-> Stamp(t)]

Init ==
  /\ clock = 0
  /\ order = <<>> /\ map = [k \in Key |-> NoEntry]
  /\ heap = [e \in Entry |-> Fresh(0)]
  /\ phase = [r \in Request |-> "idle"]
  /\ keyOf \in [Request -> Key]
  /\ now = [r \in Request |-> 0]
  /\ entry = [r \in Request |-> NoEntry]
  /\ toEvict = [r \in Request |-> 0]
  /\ late = (Cooldown = 0)

-----------------------------------------------------------------------------
(* The Map and the entries. *)

\* A Map holds a key once.
Delete(k) ==
  /\ order' = RemoveFirst(order, k)
  /\ map' = [map EXCEPT ![k] = NoEntry]

\* map.set(): a new key goes last, a known one keeps its place.
Set(k, e) ==
  /\ order' = IF map[k] = NoEntry THEN Append(order, k) ELSE order
  /\ map' = [map EXCEPT ![k] = e]

\* touchEntry(): delete and set, so that k goes last.
Reinsert(k, e) ==
  /\ order' = Append(RemoveFirst(order, k), k)
  /\ map' = [map EXCEPT ![k] = e]

Touched(f, t) == [f EXCEPT !.accessed = Stamp(t)]

Opened(f, t) == [state |-> "open", failures |-> 0, successes |-> 0,
                 openedAt |-> t, probe |-> FALSE, accessed |-> Stamp(t)]

Closed(f, t) == [state |-> "closed", failures |-> 0, successes |-> 0,
                 openedAt |-> f.openedAt, probe |-> FALSE,
                 accessed |-> Stamp(t)]

\* moveToHalfOpen() and, in the same run, halfOpenProbeInFlight = true.
Probing(f, t) == [state |-> "half-open", failures |-> f.failures,
                  successes |-> IF f.state = "open" THEN 0 ELSE f.successes,
                  openedAt |-> f.openedAt, probe |-> TRUE,
                  accessed |-> IF f.state = "open" THEN Stamp(t) ELSE f.accessed]

\* A response or an error that shouldTrip() counts.
AfterFailure(f) ==
  IF f.state = "half-open" \/ f.failures + 1 >= FailureThreshold
  THEN Opened(f, clock)
  ELSE [f EXCEPT !.failures = @ + 1]

\* Mutant: a success closes the circuit in any state.
MutClosesOpen(f) ==
  IF f.state # "closed" THEN Closed(f, clock) ELSE [f EXCEPT !.failures = 0]

\* A response that it does not count.
AfterSuccess(f) ==
  IF f.state = "half-open"
  THEN IF f.successes + 1 >= SuccessThreshold
       THEN Closed(f, clock)
       ELSE [f EXCEPT !.successes = @ + 1]
  ELSE [f EXCEPT !.failures = 0]

\* The finally block.
AfterFinally(f) ==
  Touched([f EXCEPT !.probe = IF f.state = "half-open" THEN FALSE ELSE @], clock)

-----------------------------------------------------------------------------
(* The middleware. *)

Moves(r, from, to) ==
  /\ phase[r] = from
  /\ phase' = [phase EXCEPT ![r] = to]

Call(r, k) ==
  /\ Moves(r, "idle", "pruning")
  /\ keyOf' = [keyOf EXCEPT ![r] = k]
  /\ now' = [now EXCEPT ![r] = clock]
  /\ UNCHANGED <<clock, order, map, heap, entry, toEvict, late>>

Expired(k, t) ==
  /\ EntryTtl > 0 /\ map[k] # NoEntry
  /\ t >= heap[map[k]].accessed + EntryTtl

\* pruneExpiredEntries(): one await per deleted entry.
Prune(r, k) ==
  /\ phase[r] = "pruning" /\ Expired(k, now[r])
  /\ Delete(k)
  /\ UNCHANGED <<clock, heap, phase, entry, runVars>>

\* store.get(key), whose result is awaited before it is looked at.
Get(r) ==
  /\ Moves(r, "pruning", "read")
  /\ \A k \in Key : ~Expired(k, now[r])
  /\ entry' = [entry EXCEPT ![r] = map[keyOf[r]]]
  /\ UNCHANGED <<clock, order, map, heap, runVars>>

Found(r) ==
  /\ Moves(r, "read", "found")
  /\ entry[r] # NoEntry
  /\ heap' = [heap EXCEPT ![entry[r]] = Touched(@, now[r])]
  /\ Reinsert(keyOf[r], entry[r])
  /\ UNCHANGED <<clock, entry, runVars>>

InUse(e) == (\E k \in Key : map[k] = e) \/ (\E r \in Request : entry[r] = e)

\* A new object: any identity will do.
NewEntry == CHOOSE e \in Entry : ~InUse(e)

Create(r) ==
  /\ heap' = [heap EXCEPT ![NewEntry] = Fresh(now[r])]
  /\ entry' = [entry EXCEPT ![r] = NewEntry]
  /\ Set(keyOf[r], NewEntry)

NotFound(r) ==
  /\ Moves(r, "read", "found")
  /\ entry[r] = NoEntry /\ Len(order) < MaxEntries
  /\ Create(r)
  /\ UNCHANGED <<clock, runVars>>

\* currentSize is read once, before the awaits of the loop.
StartEviction(r) ==
  /\ Moves(r, "read", "evicting")
  /\ entry[r] = NoEntry /\ Len(order) >= MaxEntries
  /\ toEvict' = [toEvict EXCEPT ![r] = Len(order) - MaxEntries + 1]
  /\ UNCHANGED <<clock, order, map, heap, keyOf, now, entry, late>>

\* Mutants: the loop forgets to count down; it runs once too often.
MutLoopsForever(r) ==
  /\ phase[r] = "evicting" /\ toEvict[r] > 0
  /\ IF order = <<>> THEN UNCHANGED <<order, map>> ELSE Delete(Head(order))
  /\ UNCHANGED <<clock, heap, phase, entry, runVars>>

EvictOldest(r) ==
  /\ phase[r] = "evicting" /\ toEvict[r] > 0
  /\ toEvict' = [toEvict EXCEPT ![r] = @ - 1]
  /\ IF order = <<>> THEN UNCHANGED <<order, map>> ELSE Delete(Head(order))
  /\ UNCHANGED <<clock, heap, phase, keyOf, now, entry, late>>

Evicted(r) ==
  /\ Moves(r, "evicting", "found")
  /\ toEvict[r] = 0
  /\ Create(r)
  /\ UNCHANGED <<clock, runVars>>

\* The touchEntry() of the middleware itself.
Touch(r) ==
  /\ Moves(r, "found", "touched")
  /\ heap' = [heap EXCEPT ![entry[r]] = Touched(@, now[r])]
  /\ Reinsert(keyOf[r], entry[r])
  /\ UNCHANGED <<clock, entry, runVars>>

Closes(r) == heap[entry[r]].state = "closed"

\* `now - entry.openedAt < cooldownMs` is false.
CooledDown(r) ==
  heap[entry[r]].state = "open" /\ now[r] >= heap[entry[r]].openedAt + Cooldown

\* Mutant: halfOpenProbeInFlight is not looked at.
MutManyProbes(r) == heap[entry[r]].state = "half-open"

FreeToProbe(r) == heap[entry[r]].state = "half-open" /\ ~heap[entry[r]].probe

AdmitClosed(r) ==
  /\ Moves(r, "touched", "running")
  /\ Closes(r)
  /\ UNCHANGED <<clock, order, map, heap, entry, runVars>>

AdmitProbe(r) ==
  /\ Moves(r, "touched", "probing")
  /\ CooledDown(r) \/ FreeToProbe(r)
  /\ heap' = [heap EXCEPT ![entry[r]] = Probing(@, now[r])]
  /\ UNCHANGED <<clock, order, map, entry, runVars>>

\* The locals of a run that is over.
Over(r) ==
  /\ entry' = [entry EXCEPT ![r] = NoEntry]
  /\ now' = [now EXCEPT ![r] = 0]

\* PureqCircuitOpenError: thrown before the try block.
Reject(r) ==
  /\ Moves(r, "touched", "idle")
  /\ ~Closes(r) /\ ~CooledDown(r) /\ ~FreeToProbe(r)
  /\ Over(r)
  /\ UNCHANGED <<clock, order, map, heap, keyOf, toEvict, late>>

\* next(req) settled; the entry is updated, then store.set() is awaited.
Settles(r, fields) ==
  /\ Moves(r, "running", "settled") \/ Moves(r, "probing", "settled")
  /\ heap' = [heap EXCEPT ![entry[r]] = fields]
  /\ Set(keyOf[r], entry[r])
  /\ UNCHANGED <<clock, entry, runVars>>

Succeed(r) == Settles(r, AfterSuccess(heap[entry[r]]))
Fail(r) == Settles(r, AfterFailure(heap[entry[r]]))

\* The finally block; the run is over.
Leaves(r) ==
  /\ heap' = [heap EXCEPT ![entry[r]] = AfterFinally(@)]
  /\ Reinsert(keyOf[r], entry[r])
  /\ Over(r)
  /\ UNCHANGED <<clock, keyOf, toEvict, late>>

Finally(r) == Moves(r, "settled", "idle") /\ Leaves(r)

\* An error that shouldTrip() does not count is rethrown at once.
Ignored(r) ==
  /\ Moves(r, "running", "idle") \/ Moves(r, "probing", "idle")
  /\ Leaves(r)

-----------------------------------------------------------------------------
(* The controller, and time. *)

ResetKey(k) ==
  /\ AllowReset
  /\ Delete(k)
  /\ UNCHANGED <<clock, heap, phase, entry, runVars>>

ResetAll ==
  /\ AllowReset
  /\ order' = <<>> /\ map' = [k \in Key |-> NoEntry]
  /\ UNCHANGED <<clock, heap, phase, entry, runVars>>

\* snapshot() prunes, with a clock of its own, before it reads.
SnapshotPrunes(k) ==
  /\ Expired(k, clock)
  /\ Delete(k)
  /\ UNCHANGED <<clock, heap, phase, entry, runVars>>

Tick ==
  /\ clock < MaxClock
  /\ clock' = clock + 1
  /\ late' = (late \/ \E r \in Request : phase[r] # "idle" /\ clock' >= now[r] + Cooldown)
  /\ UNCHANGED <<order, map, heap, phase, keyOf, now, entry, toEvict>>

\* The microtasks of r, which the event loop runs without being asked.
Proceed(r) ==
  \/ \E k \in Key : Prune(r, k)
  \/ Get(r) \/ Found(r) \/ NotFound(r)
  \/ StartEviction(r) \/ EvictOldest(r) \/ Evicted(r)
  \/ Touch(r) \/ AdmitClosed(r) \/ AdmitProbe(r) \/ Reject(r)
  \/ Finally(r)

Answer(r) == Succeed(r) \/ Fail(r) \/ Ignored(r)

Next ==
  \/ \E r \in Request :
       \/ \E k \in Key : Call(r, k)
       \/ Proceed(r)
       \/ Answer(r)
  \/ \E k \in Key : ResetKey(k) \/ SnapshotPrunes(k)
  \/ ResetAll
  \/ Tick

Spec == Init /\ [][Next]_vars

\* Microtasks run, and the transport below settles.
Fairness == \A r \in Request : WF_vars(Proceed(r)) /\ WF_vars(Answer(r))

FairSpec == Spec /\ Fairness

-----------------------------------------------------------------------------
(* Properties. *)

\* next(req) was called and the finally block has not run.
InFlight(r) == phase[r] \in {"running", "probing", "settled"}

\* Every variable keeps its shape.
TypeOK ==
  /\ clock \in Nat
  /\ order \in Seq(Key) /\ map \in [Key -> Entry \cup {NoEntry}]
  /\ heap \in [Entry -> Fields]
  /\ phase \in [Request -> Phase] /\ keyOf \in [Request -> Key]
  /\ now \in [Request -> Nat] /\ toEvict \in [Request -> Nat]
  /\ late \in BOOLEAN
  /\ entry \in [Request -> Entry \cup {NoEntry}]

\* The flag that rejects every request of a half-open circuit is only set
\* while a request is in flight that will clear it: whatever late answers,
\* evictions and resets do in between, a circuit cannot lock itself.
NoStuckProbe ==
  \A e \in Entry : heap[e].probe =>
    /\ heap[e].state = "half-open"
    /\ \E r \in Request : entry[r] = e /\ InFlight(r)

\* An open circuit lets nobody through before its cooldown is over, and then
\* only a probe: an answer that arrives late closes nothing.
CooldownKept ==
  [][\A e \in Entry :
       InUse(e) /\ heap[e].state = "open" /\ heap'[e].state # "open" =>
         /\ heap'[e].state = "half-open"
         /\ clock >= heap[e].openedAt + Cooldown]_vars

\* As long as no request has outlived the cooldown, a half-open circuit has
\* one probe and nothing else in flight.
ProbeAlone ==
  ~late => \A r, s \in Request :
    phase[r] = "probing" /\ heap[entry[r]].state = "half-open"
      /\ entry[s] = entry[r] /\ phase[s] \in {"running", "probing"} => s = r

\* A half-open circuit does not reject forever.
ProbeEnds == \A e \in Entry : heap[e].probe ~> ~heap[e].probe

\* Every run of the middleware ends: pruning and eviction loops included.
RunEnds == \A r \in Request : phase[r] # "idle" ~> phase[r] = "idle"

\* Neither a probe nor a run of the middleware goes on for ever.
ProbesAndRunsEnd == ProbeEnds /\ RunEnds

\* A circuit has no probe flag nobody will clear, and a probe no company.
Safety == TypeOK /\ NoStuckProbe /\ ProbeAlone

-----------------------------------------------------------------------------
(* The inductive invariant behind these properties. *)

\* A run has an entry from getEntry() to its end, and none before.
EntryHeld ==
  \A r \in Request :
    /\ phase[r] \in {"found", "touched"} \/ InFlight(r) => entry[r] \in Entry
    /\ phase[r] \in {"idle", "pruning", "evicting"} => entry[r] = NoEntry

\* What `late` remembers.
NoneLate ==
  ~late => Cooldown > 0 /\ \A r \in Request :
                             phase[r] # "idle" => clock < now[r] + Cooldown

\* A request in flight on an open circuit was called before it opened.
CalledBeforeOpening ==
  \A r \in Request :
    InFlight(r) /\ heap[entry[r]].state = "open" => now[r] <= heap[entry[r]].openedAt

\* As long as no request is late the flag of a half-open circuit counts the
\* requests in flight on it.
ProbeCounts ==
  ~late => \A r, s \in Request :
    InFlight(r) /\ heap[entry[r]].state = "half-open" =>
      /\ heap[entry[r]].probe
      /\ InFlight(s) /\ entry[s] = entry[r] => s = r

IInv ==
  /\ TypeOK
  /\ \A r \in Request : now[r] <= clock
  /\ EntryHeld
  /\ NoStuckProbe
  /\ NoneLate
  /\ CalledBeforeOpening
  /\ ProbeCounts
=============================================================================
