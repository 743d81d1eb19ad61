---------------------------- MODULE OfflineQueue ----------------------------
(***************************************************************************)
(* createOfflineQueue() in several tabs of a browser that share a durable  *)
(* storage adapter (IndexedDBQueueStorageAdapter, whose push() is a put()  *)
(* by id; FileSystemQueueStorageAdapter writes a file named by id).  The   *)
(* middleware queues what is called while offline; a flush takes a copy of *)
(* the queue and replays it in batches.  Tabs are closed and opened again  *)
(* between any two steps.  A call made while online passes the queue by.   *)
(*                                                                         *)
(* An IndexedDB write may reject, and it resolves before its transaction   *)
(* completes: if that aborts, the write was not made although the caller   *)
(* went on.  Nobody sees it in between, since whoever reads the storage    *)
(* waits for the transaction.                                              *)
(***************************************************************************)
EXTENDS Naturals, FiniteSets, Sequences, SequencesExt

CONSTANTS
  MaxOp,         \* the mutations the application sends: 1 .. MaxOp
  Tab,
  Urgent,        \* the mutations with a priority
  Options,       \* what an application may do: maxQueueSize, the concurrency of flush(),
                 \* how many mutations it sends, what disturbs them, and the values of
                 \* Date.now(), which may repeat one, or step back
  UniqueIds,     \* options.generateId is given, and never repeats an id
  Locked,        \* options.lockName is given, and there are Web Locks
  MaxSends,      \* bound: after so many replays no response is lost, none is repeated
  MaxCrashes     \* bound: how often a tab is closed

Op == 1 .. MaxOp

\* ttlMs passes; clear(); replay() rejects before or after the server acted; writes
\* to the storage fail; tabs are closed.
Disturbance == {"ttl", "clear", "replay", "storage", "close"}

ASSUME QueueAssumption ==
  /\ MaxOp \in Nat \ {0} /\ Urgent \subseteq Op
  /\ Options \subseteq [maxQueueSize : Nat, concurrency : Nat \ {0},
                       calls : 0 .. MaxOp, disturbed : SUBSET Disturbance,
                       instants : SUBSET Nat]
  /\ MaxSends \in Nat /\ MaxCrashes \in Nat
  /\ {UniqueIds, Locked} \subseteq BOOLEAN

VARIABLES
  store,      \* the stored items
  counter,    \* nextIdCounter of every tab
  status,     \* where the call of every mutation is
  item,       \* the item of a mutation: id, mutation, and queuedAt
  earlier,    \* what the caller knew to be queued when it sent a mutation
  tabOf,      \* the tab the mutation was sent from
  flushing,   \* the tabs in performFlush()
  stale,      \* the expired items a flush has still to remove
  rest,       \* what a flush has still to replay, in its order
  batch,      \* what it is replaying
  removing,   \* what it has replayed and not yet removed
  log,        \* what the server was sent and answered, in its order
  accepted,   \* the mutations whose caller was told that they are queued
  expired,    \* mutations older than ttlMs
  cleared,    \* mutations removed by clear()
  unsaved,    \* history: queued, but the transaction of push() was aborted
  doubtful,   \* history: a replay rejected or its item was not removed after it
  crashes,
  options     \* the application's choice

callVars == <<counter, status, item, earlier, tabOf, accepted>>
flushVars == <<flushing, stale, rest, batch, removing>>
envVars == <<expired, cleared, unsaved, doubtful, crashes, options>>
vars == <<store, log, callVars, flushVars, envVars>>

Item == [id : Nat, op : Op, at : Nat]
NoItem == [id |-> 0, op |-> 1, at |-> 0]

Init ==
  /\ store = {} /\ log = <<>> /\ accepted = {}
  /\ counter = [t \in Tab |-> 1]
  /\ status = [o \in Op |-> "new"]
  /\ item = [o \in Op |-> NoItem]
  /\ earlier = [o \in Op |-> {}]
  /\ flushing = {}
  /\ stale = [t \in Tab |-> {}] /\ rest = [t \in Tab |-> <<>>]
  /\ batch = [t \in Tab |-> {}] /\ removing = [t \in Tab |-> {}]
  /\ expired = {} /\ cleared = {} /\ unsaved = {} /\ doubtful = {} /\ crashes = 0
  /\ options \in Options /\ tabOf \in [1 .. options.calls -> Tab]

\* storage.remove(id)
Removed(s, id) == {i \in s : i.id # id}

Stored == {i.op : i \in store}

-----------------------------------------------------------------------------
(* The middleware. *)

Full == Cardinality(store) >= options.maxQueueSize

\* storage.size() is read, and generateId() and Date.now() when there is room.
Check(o) ==
  LET t == tabOf[o]
      id == IF UniqueIds THEN o ELSE counter[t]
  IN /\ status[o] = "new" /\ o <= options.calls /\ ~Full
     /\ status' = [status EXCEPT ![o] = "checked"]
     /\ \E at \in options.instants :
          item' = [item EXCEPT ![o] = [id |-> id, op |-> o, at |-> at]]
     /\ earlier' = [earlier EXCEPT ![o] = accepted]
     /\ counter' = IF UniqueIds THEN counter ELSE [counter EXCEPT ![t] = @ + 1]
     /\ UNCHANGED <<store, log, tabOf, accepted, flushVars, envVars>>

\* The queue is full, or size() or push() rejects: the caller is told.
Refuse(o) ==
  /\ \/ status[o] = "new" /\ o <= options.calls /\ (Full \/ "storage" \in options.disturbed)
     \/ status[o] = "checked" /\ "storage" \in options.disturbed
  /\ status' = [status EXCEPT ![o] = "refused"]
  /\ UNCHANGED <<store, log, counter, item, earlier, tabOf, accepted, flushVars,
                 envVars>>

Accept(o) ==
  /\ status[o] = "checked"
  /\ status' = [status EXCEPT ![o] = "queued"]
  /\ accepted' = accepted \cup {o}
  /\ UNCHANGED <<log, counter, item, earlier, tabOf, flushVars, expired, cleared,
                 doubtful, crashes, options>>

\* storage.push(), and the 202 response.
Push(o) ==
  /\ Accept(o)
  /\ store' = Removed(store, item[o].id) \cup {item[o]}
  /\ UNCHANGED unsaved

\* The same, and the transaction of push() is aborted after it resolved.
PushAborts(o) ==
  /\ Accept(o) /\ "storage" \in options.disturbed
  /\ unsaved' = unsaved \cup {o}
  /\ UNCHANGED store

-----------------------------------------------------------------------------
(* flush() *)

\* Mutant: the lock is not asked for.
MutNoLock == TRUE

MayFlush == Locked => flushing = {}

\* Mutant: the newest first.
MutNewest(i, j) ==
  IF (i.op \in Urgent) = (j.op \in Urgent) THEN i.at > j.at ELSE i.op \in Urgent

\* By priority, then by queuedAt.
Before(i, j) ==
  IF (i.op \in Urgent) = (j.op \in Urgent) THEN i.at < j.at ELSE i.op \in Urgent

\* Mutant: the loop over the items starts at 1.
MutSkipsFirst(S) ==
  {SubSeq(s, 2, Len(s)) :
     s \in {q \in SetToSeqs(S) :
             \A m, n \in 1 .. Len(q) : m < n => ~Before(q[n], q[m])}}

\* Items that tie keep the order of the storage, which is any order.
ReplayOrders(S) ==
  {s \in SetToSeqs(S) : \A m, n \in 1 .. Len(s) : m < n => ~Before(s[n], s[m])}

\* getAll(), and the items that have expired are set apart.
StartFlush(t) ==
  /\ t \notin flushing /\ MayFlush
  /\ flushing' = flushing \cup {t}
  /\ stale' = [stale EXCEPT ![t] = {i \in store : i.op \in expired}]
  /\ \E s \in ReplayOrders({i \in store : i.op \notin expired}) :
       rest' = [rest EXCEPT ![t] = s]
  /\ UNCHANGED <<store, log, batch, removing, callVars, envVars>>

RemoveExpired(t, i) ==
  /\ i \in stale[t]
  /\ stale' = [stale EXCEPT ![t] = @ \ {i}]
  /\ store' = Removed(store, i.id)
  /\ UNCHANGED <<log, flushing, rest, batch, removing, callVars, envVars>>

\* The transaction of its remove() is aborted after it resolved.
ExpiredStays(t, i) ==
  /\ i \in stale[t] /\ "storage" \in options.disturbed
  /\ stale' = [stale EXCEPT ![t] = @ \ {i}]
  /\ UNCHANGED <<store, log, flushing, rest, batch, removing, callVars, envVars>>

\* One of these remove() rejects, and performFlush() with it, before anything is
\* replayed.  The others were issued with it, and are over by the next getAll().
FlushFails(t) ==
  /\ stale[t] # {} /\ "storage" \in options.disturbed
  /\ flushing' = flushing \ {t}
  /\ stale' = [stale EXCEPT ![t] = {}] /\ rest' = [rest EXCEPT ![t] = <<>>]
  /\ \E gone \in SUBSET stale[t] :
       store' = {i \in store : \A g \in gone : i.id # g.id}
  /\ UNCHANGED <<log, batch, removing, callVars, envVars>>

AtRest(t) == t \in flushing /\ stale[t] = {} /\ batch[t] = {} /\ removing[t] = {}

StartBatch(t) ==
  LET n == Min({options.concurrency, Len(rest[t])})
  IN /\ AtRest(t) /\ rest[t] # <<>>
     /\ batch' = [batch EXCEPT ![t] = {rest[t][j] : j \in 1 .. n}]
     /\ rest' = [rest EXCEPT ![t] = SubSeq(@, n + 1, Len(@))]
     /\ UNCHANGED <<store, log, flushing, stale, removing, callVars, envVars>>

\* replay() resolves: whatever the response is, the item is to be removed.
Replay(t, i) ==
  /\ i \in batch[t]
  /\ batch' = [batch EXCEPT ![t] = @ \ {i}]
  /\ removing' = [removing EXCEPT ![t] = @ \cup {i}]
  /\ log' = Append(log, i.op)
  /\ UNCHANGED <<store, flushing, stale, rest, callVars, envVars>>

\* replay() rejects: nothing was sent, or the response was lost.
ReplayFails(t, i) ==
  /\ i \in batch[t] /\ "replay" \in options.disturbed
  /\ batch' = [batch EXCEPT ![t] = @ \ {i}]
  /\ \/ UNCHANGED log
     \/ Len(log) < MaxSends /\ log' = Append(log, i.op)
  /\ doubtful' = doubtful \cup {i.op}
  /\ UNCHANGED <<store, flushing, stale, rest, removing, callVars, expired,
                 cleared, unsaved, crashes, options>>

RemoveReplayed(t, i) ==
  /\ i \in removing[t]
  /\ removing' = [removing EXCEPT ![t] = @ \ {i}]
  /\ store' = Removed(store, i.id)
  /\ UNCHANGED <<log, flushing, stale, rest, batch, callVars, envVars>>

\* remove() rejects, as if replay() had, or its transaction is aborted after it
\* resolved: the server answered, and the item is there for the next flush.
RemoveFails(t, i) ==
  /\ i \in removing[t] /\ "storage" \in options.disturbed /\ Len(log) <= MaxSends
  /\ removing' = [removing EXCEPT ![t] = @ \ {i}]
  /\ doubtful' = doubtful \cup {i.op}
  /\ UNCHANGED <<store, log, flushing, stale, rest, batch, callVars, expired,
                 cleared, unsaved, crashes, options>>

EndFlush(t) ==
  /\ AtRest(t) /\ rest[t] = <<>>
  /\ flushing' = flushing \ {t}
  /\ UNCHANGED <<store, log, stale, rest, batch, removing, callVars, envVars>>

-----------------------------------------------------------------------------
(* The rest. *)

Clear ==
  /\ "clear" \in options.disturbed
  /\ store' = {} /\ cleared' = cleared \cup Stored
  /\ UNCHANGED <<log, callVars, flushVars, expired, unsaved, doubtful, crashes,
                 options>>

\* ttlMs passes for a queued mutation.
Expire(o) ==
  /\ "ttl" \in options.disturbed /\ o \in Stored \ expired
  /\ expired' = expired \cup {o}
  /\ UNCHANGED <<store, log, callVars, flushVars, cleared, unsaved, doubtful,
                 crashes, options>>

\* The tab is closed, what it had in memory and its lock are gone; it is
\* opened again, with a queue of its own that counts from 1.
Reload(t) ==
  /\ "close" \in options.disturbed /\ crashes < MaxCrashes
  /\ crashes' = crashes + 1
  /\ counter' = [counter EXCEPT ![t] = 1]
  /\ status' = [o \in Op |-> IF status[o] = "checked" /\ tabOf[o] = t
                             THEN "lost" ELSE status[o]]
  /\ flushing' = flushing \ {t}
  /\ stale' = [stale EXCEPT ![t] = {}] /\ rest' = [rest EXCEPT ![t] = <<>>]
  /\ batch' = [batch EXCEPT ![t] = {}] /\ removing' = [removing EXCEPT ![t] = {}]
  /\ doubtful' = doubtful \cup {i.op : i \in removing[t]}
  /\ UNCHANGED <<store, log, item, earlier, tabOf, accepted, expired, cleared,
                 unsaved, options>>

Flush(t) ==
  \/ StartBatch(t) \/ EndFlush(t)
  \/ \E i \in stale[t] : RemoveExpired(t, i)
  \/ \E i \in batch[t] : Replay(t, i)
  \/ \E i \in removing[t] : RemoveReplayed(t, i)

Next ==
  \/ \E o \in Op : Check(o) \/ Refuse(o) \/ Push(o) \/ PushAborts(o) \/ Expire(o)
  \/ \E t \in Tab : \/ StartFlush(t) \/ Flush(t) \/ FlushFails(t) \/ Reload(t)
                    \/ \E i \in stale[t] : ExpiredStays(t, i)
                    \/ \E i \in batch[t] : ReplayFails(t, i)
                    \/ \E i \in removing[t] : RemoveFails(t, i)
  \/ Clear

Spec == Init /\ [][Next]_vars

\* The application flushes again and again (on every `online` event), a flush
\* that was started goes on, and of what is tried over and over some replay gets
\* through to the server in the end, and some expired item out of the storage.
SomeReplay == \E t \in Tab : \E i \in batch[t] : Replay(t, i)
SomeRemoval == \E t \in Tab : \E i \in stale[t] : RemoveExpired(t, i)

Fairness ==
  /\ \A t \in Tab : WF_vars(StartFlush(t)) /\ WF_vars(Flush(t))
  /\ SF_vars(SomeReplay) /\ SF_vars(SomeRemoval)

FairSpec == Spec /\ Fairness

-----------------------------------------------------------------------------
(* Properties. *)

\* Every variable keeps its shape.
TypeOK ==
  /\ store \subseteq Item /\ log \in Seq(Op) /\ accepted \subseteq Op
  /\ counter \in [Tab -> Nat \ {0}] /\ item \in [Op -> Item]
  /\ earlier \in [Op -> SUBSET Op] /\ tabOf \in [1 .. options.calls -> Tab]
  /\ status \in [Op -> {"new", "checked", "queued", "refused", "lost"}]
  /\ flushing \subseteq Tab
  /\ stale \in [Tab -> SUBSET Item] /\ rest \in [Tab -> Seq(Item)]
  /\ batch \in [Tab -> SUBSET Item] /\ removing \in [Tab -> SUBSET Item]
  /\ expired \subseteq Op /\ cleared \subseteq Op /\ unsaved \subseteq Op
  /\ doubtful \subseteq Op /\ crashes \in 0 .. MaxCrashes /\ options \in Options

\* A mutation the caller was told is queued stays in the storage until the
\* server answered it, it expired or it was cleared: "to ensure that mutation
\* requests are not lost even if the user closes the tab before they can be
\* replayed".  Except for one whose push() resolved before its transaction was
\* aborted.
NothingLost ==
  \A o \in accepted :
    o \in Stored \cup ToSet(log) \cup expired \cup cleared \cup unsaved

\* With the lock a mutation reaches the server at most once, however often the
\* tabs flush: unless its replay rejected after the server had acted, its
\* removal failed, or the tab was closed before the item was removed.
ReplayedOnce ==
  \A i, j \in DOMAIN log : i # j /\ log[i] = log[j] => log[i] \in doubtful

\* A mutation that was sent when another one of its priority was known to be
\* queued, and at a later millisecond, does not reach the server before it,
\* unless the replay or the removal of the other one failed: the loop does not
\* stop at an error.  (Of two with the same queuedAt, and in batches of several,
\* there is no order.)
ReplayedInOrder ==
  options.concurrency = 1 =>
  \A i, j \in DOMAIN log :
    i < j /\ (log[i] \in Urgent <=> log[j] \in Urgent) =>
      ~(log[j] \in earlier[log[i]] \ doubtful /\ item[log[j]].at < item[log[i]].at)

\* What was queued is replayed in the end, all of it (what is queued, replayed, expired
\* or cleared once remains so).
EventuallyReplayed ==
  <>[](accepted \subseteq ToSet(log) \cup expired \cup cleared \cup unsaved)

\* A mutation is replayed, once: neither lost before nor repeated after.
Safety == TypeOK /\ NothingLost /\ ReplayedOnce

-----------------------------------------------------------------------------
(* The inductive invariant behind Safety and ReplayedInOrder, with the ids   *)
(* of the application (UniqueIds) and the lock (Locked).                     *)

Sent(o) == status[o] \in {"checked", "queued"}

\* What was checked has an item of its own.
CallsSound ==
  \A o \in Op :
    /\ o \in accepted <=> status[o] = "queued"
    /\ earlier[o] \subseteq accepted
    /\ Sent(o) => item[o].id = o /\ item[o].op = o

\* An item, wherever it is, is the one its mutation was accepted with.
Known(i) == i.op \in accepted /\ i = item[i.op]

ItemsSound ==
  /\ \A i \in store : Known(i)
  /\ \A t \in Tab :
       /\ \A i \in stale[t] : Known(i) /\ i.op \in expired
       /\ \A i \in ToSet(rest[t]) \cup batch[t] : Known(i)
       /\ \A i \in removing[t] : Known(i) /\ i.op \in ToSet(log)

\* One tab flushes, and has every item in one place.
FlushSound ==
  /\ \A t, u \in flushing : t = u
  /\ \A t \in Tab :
       /\ t \notin flushing =>
            stale[t] = {} /\ rest[t] = <<>> /\ batch[t] = {} /\ removing[t] = {}
       /\ stale[t] # {} => batch[t] = {} /\ removing[t] = {}
       /\ \A m, n \in 1 .. Len(rest[t]) : rest[t][m] = rest[t][n] => m = n
       /\ ToSet(rest[t]) \cap (batch[t] \cup removing[t]) = {}
       /\ batch[t] \cap removing[t] = {}

ToReplay(o, t) == item[o] \in ToSet(rest[t]) \cup batch[t]

\* What was replayed will not be replayed again: it is about to be removed.
ReplayedSound ==
  /\ ToSet(log) \subseteq accepted
  /\ \A o \in ToSet(log) \ doubtful :
       /\ \A t \in Tab : ~ToReplay(o, t)
       /\ item[o] \in store => \E t \in Tab : item[o] \in removing[t]

\* A mutation was replayed, or will be no more.
Passed(o) ==
  \/ o \in ToSet(log)
  \/ /\ item[o] \in store => o \in expired
     /\ \A t \in Tab : ~ToReplay(o, t)

\* What must not be replayed after o.
Predecessors(o) ==
  {p \in earlier[o] \ doubtful :
     (p \in Urgent <=> o \in Urgent) /\ item[p].at < item[o].at}

\* When a mutation is replayed one by one its predecessors have been; while it
\* has still to be, they may be before it.
OneByOne ==
  /\ \A o \in ToSet(log) : \A p \in Predecessors(o) : Passed(p)
  /\ \A t \in Tab :
       /\ \A i, j \in batch[t] : i = j
       /\ \A i \in batch[t] : \A p \in Predecessors(i.op) : Passed(p)
       /\ \A n \in 1 .. Len(rest[t]) : \A p \in Predecessors(rest[t][n].op) :
            \/ Passed(p)
            \/ item[p] \in batch[t]
            \/ \E m \in 1 .. n - 1 : rest[t][m] = item[p]

OrderSound == options.concurrency = 1 => OneByOne

IInv ==
  /\ TypeOK /\ CallsSound /\ ItemsSound /\ FlushSound
  /\ NothingLost /\ ReplayedOnce /\ ReplayedSound
  /\ OrderSound /\ ReplayedInOrder
=============================================================================
