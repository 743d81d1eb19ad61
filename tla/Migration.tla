------------------------------ MODULE Migration ------------------------------
(***************************************************************************)
(* MigrationManager: apply() and rollback() of several processes (two      *)
(* deployments started together) over one database.  The functions given   *)
(* to driver.transaction() ignore the transaction's own driver: they call  *)
(* this.db.driver again.  When that driver is one connection the statement *)
(* runs inside the BEGIN of the transaction; when it is a pool it runs on  *)
(* another connection, outside the transaction (Pooled).  An action is one *)
(* statement that the server executes.                                     *)
(***************************************************************************)
EXTENDS Integers, FiniteSets, FiniteSetsExt

CONSTANTS
  Process,      \* processes that own a MigrationManager
  Last,         \* the migrations are 1 .. Last, in the order of timestamp
  NoMigration,
  Pooled,       \* db.driver is a NativePool
  PoolSize,     \* its maxSize
  Roller,       \* the processes that call rollback()
  MaxFailures   \* bound: statements that fail, and processes that crash

Mig == 1 .. Last

ASSUME MigrationAssumption ==
  /\ Last \in Nat \ {0} /\ NoMigration \notin Mig
  /\ Pooled \in BOOLEAN /\ PoolSize \in Nat \ {0}
  /\ Roller \subseteq Process /\ MaxFailures \in Nat

VARIABLES
  tracked,   \* committed rows of _pureq_migrations
  net,       \* net[m]: committed runs of m.up minus committed runs of m.down
  phase,     \* where each process is
  todo,      \* toApply, what the loop has still to do
  current,   \* the migration of the open transaction
  writes,    \* what the open transaction of a process has not committed yet
  failures,
  reverted   \* history: the migrations a rollback has ever reverted

vars == <<tracked, net, phase, todo, current, writes, failures, reverted>>

Phase == {"idle", "applying", "selected", "begun", "up", "insert",
          "rollingBack", "latest", "reverting", "down", "delete"}
Write == {"up", "insert", "down", "delete"}

Init ==
  /\ tracked = {} /\ net = [m \in Mig |-> 0]
  /\ phase = [p \in Process |-> "idle"]
  /\ todo = [p \in Process |-> {}]
  /\ current = [p \in Process |-> NoMigration]
  /\ writes = [p \in Process |-> {}]
  /\ failures = 0 /\ reverted = {}

Moves(p, from, to) ==
  /\ phase[p] = from
  /\ phase' = [phase EXCEPT ![p] = to]

\* The pool has a connection for a statement of the function: the one of the
\* transaction is taken.
ConnectionFree == Pooled => PoolSize > 1

\* The effect of a set of writes of migration m on the database.
Applied(m, w) ==
  /\ net' = [net EXCEPT ![m] = @ + (IF "up" \in w THEN 1 ELSE 0)
                                 - (IF "down" \in w THEN 1 ELSE 0)]
  /\ tracked' = (IF "insert" \in w THEN tracked \cup {m} ELSE tracked)
                  \ (IF "delete" \in w THEN {m} ELSE {})

\* this.db.driver.execute() in the function of the transaction.
Execute(p, w) ==
  IF Pooled
  THEN Applied(current[p], {w}) /\ UNCHANGED writes
  ELSE /\ writes' = [writes EXCEPT ![p] = @ \cup {w}]
       /\ UNCHANGED <<tracked, net>>

-----------------------------------------------------------------------------
(* apply() *)

\* setup(): CREATE TABLE IF NOT EXISTS.
Apply(p) ==
  /\ Moves(p, "idle", "applying")
  /\ UNCHANGED <<tracked, net, todo, current, writes, failures, reverted>>

\* SELECT id, then filter and sort.
Select(p) ==
  /\ Moves(p, "applying", "selected")
  /\ todo' = [todo EXCEPT ![p] = Mig \ tracked]
  /\ UNCHANGED <<tracked, net, current, writes, failures, reverted>>

\* Mutant: the pending migrations are not sorted.
MutUnsorted(S) == S

\* toApply.sort(): the first one of the loop.
Pending(S) == {m \in S : \A other \in S : m <= other}

Begin(p) ==
  /\ Moves(p, "selected", "begun")
  /\ \E m \in Pending(todo[p]) :
       /\ current' = [current EXCEPT ![p] = m]
       /\ todo' = [todo EXCEPT ![p] = @ \ {m}]
  /\ UNCHANGED <<tracked, net, writes, failures, reverted>>

Up(p) ==
  /\ Moves(p, "begun", "up")
  /\ ConnectionFree
  /\ Execute(p, "up")
  /\ UNCHANGED <<todo, current, failures, reverted>>

\* The row of another open transaction makes this one wait.
RowLocked(p) ==
  \E q \in Process \ {p} :
    current[q] = current[p] /\ writes[q] \cap {"insert", "delete"} # {}

\* INSERT: the primary key refuses a migration another process has tracked.
Insert(p) ==
  /\ Moves(p, "up", "insert")
  /\ ConnectionFree /\ ~RowLocked(p)
  /\ current[p] \notin tracked
  /\ Execute(p, "insert")
  /\ UNCHANGED <<todo, current, failures, reverted>>

\* COMMIT; the loop goes on.
CommitApply(p) ==
  /\ Moves(p, "insert", "selected")
  /\ Applied(current[p], writes[p])
  /\ writes' = [writes EXCEPT ![p] = {}]
  /\ current' = [current EXCEPT ![p] = NoMigration]
  /\ UNCHANGED <<todo, failures, reverted>>

ApplyDone(p) ==
  /\ Moves(p, "selected", "idle")
  /\ todo[p] = {}
  /\ UNCHANGED <<tracked, net, todo, current, writes, failures, reverted>>

-----------------------------------------------------------------------------
(* rollback() *)

Rollback(p) ==
  /\ p \in Roller
  /\ Moves(p, "idle", "rollingBack")
  /\ UNCHANGED <<tracked, net, todo, current, writes, failures, reverted>>

\* Nothing is applied or the query fails (getLatestApplied() is null), or the
\* list has no such migration, or the migration no down().
NothingToRevert(p) ==
  /\ Moves(p, "rollingBack", "idle")
  /\ UNCHANGED <<tracked, net, todo, current, writes, failures, reverted>>

GetLatestApplied(p) ==
  /\ Moves(p, "rollingBack", "latest")
  /\ tracked # {}
  /\ current' = [current EXCEPT ![p] = Max(tracked)]
  /\ UNCHANGED <<tracked, net, todo, writes, failures, reverted>>

BeginRollback(p) ==
  /\ Moves(p, "latest", "reverting")
  /\ UNCHANGED <<tracked, net, todo, current, writes, failures, reverted>>

Down(p) ==
  /\ Moves(p, "reverting", "down")
  /\ ConnectionFree
  /\ Execute(p, "down")
  /\ UNCHANGED <<todo, current, failures, reverted>>

\* DELETE: no error when there is no such row.
DeleteRow(p) ==
  /\ Moves(p, "down", "delete")
  /\ ConnectionFree /\ ~RowLocked(p)
  /\ Execute(p, "delete")
  /\ UNCHANGED <<todo, current, failures, reverted>>

\* The process of a call that is over, one way or the other.
Over(p) ==
  /\ writes' = [writes EXCEPT ![p] = {}]
  /\ current' = [current EXCEPT ![p] = NoMigration]
  /\ todo' = [todo EXCEPT ![p] = {}]

CommitRollback(p) ==
  /\ Moves(p, "delete", "idle")
  /\ Applied(current[p], writes[p])
  /\ Over(p)
  /\ reverted' = reverted \cup {current[p]}
  /\ UNCHANGED failures

-----------------------------------------------------------------------------
(* Errors. *)

\* Mutant: the statements are tried again.
MutTriesAgain(p) ==
  /\ Moves(p, "up", "begun")
  /\ current[p] \in tracked
  /\ UNCHANGED <<tracked, net, todo, current, writes, failures, reverted>>

\* The INSERT of a tracked migration fails: ROLLBACK, and apply() rejects.
InsertRefused(p) ==
  /\ Moves(p, "up", "idle")
  /\ ConnectionFree /\ ~RowLocked(p)
  /\ current[p] \in tracked
  /\ Over(p)
  /\ UNCHANGED <<tracked, net, failures, reverted>>

\* Any other statement fails and the transaction is rolled back, or the
\* process crashes and the server does it; the call is over either way.
Fail(p) ==
  /\ phase[p] # "idle" /\ failures < MaxFailures
  /\ failures' = failures + 1
  /\ phase' = [phase EXCEPT ![p] = "idle"]
  /\ Over(p)
  /\ UNCHANGED <<tracked, net, reverted>>

Proceed(p) ==
  \/ Select(p) \/ Begin(p) \/ Up(p) \/ Insert(p) \/ CommitApply(p)
  \/ ApplyDone(p) \/ InsertRefused(p)
  \/ NothingToRevert(p) \/ GetLatestApplied(p) \/ BeginRollback(p) \/ Down(p)
  \/ DeleteRow(p) \/ CommitRollback(p)

Next ==
  \E p \in Process : Apply(p) \/ Rollback(p) \/ Proceed(p) \/ Fail(p)

Spec == Init /\ [][Next]_vars

\* The server answers every statement it is sent, also one that has to wait
\* for a row again and again: its lock queues are fair.
FairSpec == Spec /\ \A p \in Process : SF_vars(Proceed(p))

-----------------------------------------------------------------------------
(* Properties. *)

\* Every variable keeps its shape.
TypeOK ==
  /\ tracked \subseteq Mig /\ net \in [Mig -> Int]
  /\ phase \in [Process -> Phase]
  /\ todo \in [Process -> SUBSET Mig]
  /\ current \in [Process -> Mig \cup {NoMigration}]
  /\ writes \in [Process -> SUBSET Write]
  /\ failures \in 0 .. MaxFailures /\ reverted \subseteq Mig

Exact(m) == net[m] = IF m \in tracked THEN 1 ELSE 0

\* Whatever fails, and however many processes migrate at once, a migration is
\* in the database exactly when its row says so: applied once and tracked, or
\* not at all.
Atomic == \A m \in Mig : Exact(m)

\* "Each migration is wrapped in a database transaction to ensure atomicity":
\* when no call is under way, no migration is in the database without its row
\* or the other way round.
AtomicAtRest ==
  (\A p \in Process : phase[p] = "idle") => \A m \in Mig : Exact(m)

\* Migrations are applied in the order of their timestamps: what is tracked is
\* an initial part of the list, but for what a rollback took out of it, also
\* when several processes migrate at once.
InOrder == \A m \in tracked : 1 .. m \subseteq tracked \cup reverted

\* A call of apply() or rollback() comes to an end.
CallEnds == \A p \in Process : phase[p] # "idle" ~> phase[p] = "idle"

\* What is in the database is what is tracked, and an initial part of the list.
Safety == TypeOK /\ Atomic /\ InOrder

-----------------------------------------------------------------------------
(* The inductive invariant behind Safety, for a driver that is one           *)
(* connection (~Pooled) and for one process that rolls back (OneRoller): two *)
(* would read the same latest migration and revert it twice, since DELETE    *)
(* does not say that there was no row.                                       *)

OneRoller == \A p, q \in Roller : p = q

Upgrading(p) == phase[p] \in {"begun", "up", "insert"}
Reverting(p) == phase[p] \in {"latest", "reverting", "down", "delete"}

\* What the open transaction of a process holds, by the place where it is.
WritesAtPhase ==
  \A p \in Process :
    /\ writes[p] = CASE phase[p] = "up" -> {"up"}
                     [] phase[p] = "insert" -> {"up", "insert"}
                     [] phase[p] = "down" -> {"down"}
                     [] phase[p] = "delete" -> {"down", "delete"}
                     [] OTHER -> {}
    /\ IF Upgrading(p) \/ Reverting(p) THEN current[p] \in Mig
                                       ELSE current[p] = NoMigration

\* One transaction at a time holds the row of a migration.
RowHeldOnce ==
  \A p, q \in Process :
    /\ p # q /\ current[p] = current[q]
    /\ phase[p] \in {"insert", "delete"}
    => phase[q] \notin {"insert", "delete"}

\* A row that is being inserted is not there yet; the one that is being
\* deleted is.
RowAtPhase ==
  \A p \in Process :
    /\ phase[p] = "insert" => current[p] \notin tracked
    /\ Reverting(p) => p \in Roller /\ current[p] \in tracked
    /\ phase[p] = "rollingBack" => p \in Roller

\* A process that applies has seen, or has itself applied, everything that it
\* has not still to do; what it is doing is the first of that.
LoopInv ==
  \A p \in Process :
    /\ phase[p] = "selected" => Mig \ todo[p] \subseteq tracked \cup reverted
    /\ Upgrading(p) =>
         /\ Mig \ (todo[p] \cup {current[p]}) \subseteq tracked \cup reverted
         /\ \A m \in todo[p] : current[p] < m

IInv ==
  /\ TypeOK
  /\ WritesAtPhase /\ RowHeldOnce /\ RowAtPhase /\ LoopInv
  /\ Atomic /\ InOrder
=============================================================================
