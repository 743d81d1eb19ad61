--------------------------- MODULE MigrationProofs ---------------------------
(* TLAPS proofs about Migration. *)
EXTENDS Migration, WellFoundedInduction, TLAPS

-----------------------------------------------------------------------------
(* The latest migration. *)

LEMMA LeastNatural ==
  ASSUME NEW T, T \subseteq Nat, T # {}
  PROVE  \E n \in T : \A m \in T : n <= m
<1>1. \E n \in T : \A m \in T : ~ (<<m, n>> \in OpToRel(<, Nat))
  BY NatLessThanWellFounded, WFMin
<1>2. \A m \in Nat, n \in Nat : m < n => <<m, n>> \in OpToRel(<, Nat)
  BY Zenon DEF OpToRel
<1>3. \E n \in T : \A m \in T : ~(m < n)
  BY <1>1, <1>2, Zenon
<1> QED BY <1>3

LEMMA MaxTracked ==
  ASSUME NEW S, S \subseteq Mig, S # {}
  PROVE  Max(S) \in S
<1> DEFINE Bounds == {n \in Nat : \A m \in S : m <= n}
<1>1. Last \in Bounds
  BY MigrationAssumption DEF Mig
<1>2. PICK n \in Bounds : \A b \in Bounds : n <= b
  <2> HIDE DEF Bounds
  <2>1. Bounds \subseteq Nat
    BY DEF Bounds
  <2> QED BY <1>1, <2>1, LeastNatural
<1>3. n \in S
  <2> SUFFICES ASSUME n \notin S PROVE FALSE
    OBVIOUS
  <2>1. \A m \in S : m \in Nat \ {0} /\ m <= n /\ m # n
    BY DEF Mig
  <2>2. n \in Nat /\ \E m \in S : m \in Nat \ {0} /\ m <= n
    BY <2>1
  <2>3. n - 1 \in Nat
    BY <2>2
  <2>4. ASSUME NEW m \in S PROVE m <= n - 1
    <3>1. m \in Nat \ {0} /\ m <= n /\ m # n
      BY <2>1
    <3> QED BY <2>2, <3>1
  <2>5. n - 1 \in Bounds /\ ~(n <= n - 1)
    BY <2>2, <2>3, <2>4
  <2> QED BY <1>2, <2>5
<1>4. \E m \in S : \A o \in S : m >= o
  BY <1>3 DEF Mig
<1> QED BY <1>4 DEF Max

-----------------------------------------------------------------------------
(* IInv is inductive. *)

LEMMA InitIInv == Init => IInv
<1> SUFFICES ASSUME Init PROVE IInv
  OBVIOUS
<1> USE MigrationAssumption DEF Init
<1>1. TypeOK
  BY DEF TypeOK, Phase
<1>2. WritesAtPhase
  BY DEF WritesAtPhase, Upgrading, Reverting
<1>3. RowHeldOnce /\ RowAtPhase /\ LoopInv
  BY DEF RowHeldOnce, RowAtPhase, LoopInv, Upgrading, Reverting
<1>4. Atomic /\ InOrder
  BY DEF Atomic, Exact, InOrder
<1> QED BY <1>1, <1>2, <1>3, <1>4 DEF IInv

\* A step that commits nothing and holds no new row.
LEMMA DatabaseUnchanged ==
  ASSUME IInv, TypeOK', UNCHANGED <<tracked, net, reverted>>
  PROVE  Atomic' /\ InOrder'
BY DEF IInv, Atomic, Exact, InOrder

LEMMA ApplyIInv ==
  ASSUME IInv, ~Pooled, NEW p \in Process, Apply(p)
  PROVE  IInv'
<1> USE MigrationAssumption DEF IInv, Apply, Moves
<1>1. TypeOK'
  BY DEF TypeOK, Phase, Write
<1>2. WritesAtPhase'
  BY DEF TypeOK, WritesAtPhase, Upgrading, Reverting
<1>3. RowHeldOnce'
  BY DEF TypeOK, RowHeldOnce, WritesAtPhase, Upgrading, Reverting
<1>4. RowAtPhase'
  BY DEF TypeOK, RowAtPhase, WritesAtPhase, Upgrading, Reverting
<1>5. LoopInv'
  BY DEF TypeOK, LoopInv, WritesAtPhase, Upgrading, Reverting
<1>6. Atomic' /\ InOrder'
  <2>1. UNCHANGED <<tracked, net, reverted>>
    OBVIOUS
  <2> QED BY <1>1, <2>1, DatabaseUnchanged
<1> QED BY <1>1, <1>2, <1>3, <1>4, <1>5, <1>6

LEMMA SelectIInv ==
  ASSUME IInv, ~Pooled, NEW p \in Process, Select(p)
  PROVE  IInv'
<1> USE MigrationAssumption DEF IInv, Select, Moves
<1>1. TypeOK'
  BY DEF TypeOK, Phase, Write
<1>2. WritesAtPhase'
  BY DEF TypeOK, WritesAtPhase, Upgrading, Reverting
<1>3. RowHeldOnce'
  BY DEF TypeOK, RowHeldOnce, WritesAtPhase, Upgrading, Reverting
<1>4. RowAtPhase'
  BY DEF TypeOK, RowAtPhase, WritesAtPhase, Upgrading, Reverting
<1>5. LoopInv'
  BY DEF TypeOK, LoopInv, WritesAtPhase, Upgrading, Reverting
<1>6. Atomic' /\ InOrder'
  <2>1. UNCHANGED <<tracked, net, reverted>>
    OBVIOUS
  <2> QED BY <1>1, <2>1, DatabaseUnchanged
<1> QED BY <1>1, <1>2, <1>3, <1>4, <1>5, <1>6

LEMMA BeginIInv ==
  ASSUME IInv, ~Pooled, NEW p \in Process, Begin(p)
  PROVE  IInv'
<1> USE MigrationAssumption DEF IInv, Begin, Moves, Pending, Mig
<1>1. TypeOK'
  BY DEF TypeOK, Phase, Write
<1>2. WritesAtPhase'
  BY DEF TypeOK, WritesAtPhase, Upgrading, Reverting
<1>3. RowHeldOnce'
  BY DEF TypeOK, RowHeldOnce, WritesAtPhase, Upgrading, Reverting
<1>4. RowAtPhase'
  BY DEF TypeOK, RowAtPhase, WritesAtPhase, Upgrading, Reverting
<1>5. LoopInv'
  BY DEF TypeOK, LoopInv, WritesAtPhase, Upgrading, Reverting
<1>6. Atomic' /\ InOrder'
  <2>1. UNCHANGED <<tracked, net, reverted>>
    OBVIOUS
  <2> QED BY <1>1, <2>1, DatabaseUnchanged
<1> QED BY <1>1, <1>2, <1>3, <1>4, <1>5, <1>6

LEMMA UpIInv ==
  ASSUME IInv, ~Pooled, NEW p \in Process, Up(p)
  PROVE  IInv'
<1> USE MigrationAssumption DEF IInv, Up, Moves, Execute
<1>1. TypeOK'
  BY DEF TypeOK, Phase, Write
<1>2. WritesAtPhase'
  BY DEF TypeOK, WritesAtPhase, Upgrading, Reverting
<1>3. RowHeldOnce'
  BY DEF TypeOK, RowHeldOnce, WritesAtPhase, Upgrading, Reverting
<1>4. RowAtPhase'
  BY DEF TypeOK, RowAtPhase, WritesAtPhase, Upgrading, Reverting
<1>5. LoopInv'
  BY DEF TypeOK, LoopInv, WritesAtPhase, Upgrading, Reverting
<1>6. Atomic' /\ InOrder'
  <2>1. UNCHANGED <<tracked, net, reverted>>
    OBVIOUS
  <2> QED BY <1>1, <2>1, DatabaseUnchanged
<1> QED BY <1>1, <1>2, <1>3, <1>4, <1>5, <1>6

LEMMA InsertIInv ==
  ASSUME IInv, ~Pooled, NEW p \in Process, Insert(p)
  PROVE  IInv'
<1> USE MigrationAssumption DEF IInv, Insert, Moves, Execute, RowLocked
<1>1. TypeOK'
  BY DEF TypeOK, Phase, Write
<1>2. WritesAtPhase'
  BY DEF TypeOK, WritesAtPhase, Upgrading, Reverting
<1>3. RowHeldOnce'
  BY DEF TypeOK, RowHeldOnce, WritesAtPhase, Upgrading, Reverting
<1>4. RowAtPhase'
  BY DEF TypeOK, RowAtPhase, WritesAtPhase, Upgrading, Reverting
<1>5. LoopInv'
  BY DEF TypeOK, LoopInv, WritesAtPhase, Upgrading, Reverting
<1>6. Atomic' /\ InOrder'
  <2>1. UNCHANGED <<tracked, net, reverted>>
    OBVIOUS
  <2> QED BY <1>1, <2>1, DatabaseUnchanged
<1> QED BY <1>1, <1>2, <1>3, <1>4, <1>5, <1>6

LEMMA ApplyDoneIInv ==
  ASSUME IInv, ~Pooled, NEW p \in Process, ApplyDone(p)
  PROVE  IInv'
<1> USE MigrationAssumption DEF IInv, ApplyDone, Moves
<1>1. TypeOK'
  BY DEF TypeOK, Phase, Write
<1>2. WritesAtPhase'
  BY DEF TypeOK, WritesAtPhase, Upgrading, Reverting
<1>3. RowHeldOnce'
  BY DEF TypeOK, RowHeldOnce, WritesAtPhase, Upgrading, Reverting
<1>4. RowAtPhase'
  BY DEF TypeOK, RowAtPhase, WritesAtPhase, Upgrading, Reverting
<1>5. LoopInv'
  BY DEF TypeOK, LoopInv, WritesAtPhase, Upgrading, Reverting
<1>6. Atomic' /\ InOrder'
  <2>1. UNCHANGED <<tracked, net, reverted>>
    OBVIOUS
  <2> QED BY <1>1, <2>1, DatabaseUnchanged
<1> QED BY <1>1, <1>2, <1>3, <1>4, <1>5, <1>6

LEMMA InsertRefusedIInv ==
  ASSUME IInv, ~Pooled, NEW p \in Process, InsertRefused(p)
  PROVE  IInv'
<1> USE MigrationAssumption DEF IInv, InsertRefused, Moves, Over
<1>1. TypeOK'
  BY DEF TypeOK, Phase, Write
<1>2. WritesAtPhase'
  BY DEF TypeOK, WritesAtPhase, Upgrading, Reverting
<1>3. RowHeldOnce'
  BY DEF TypeOK, RowHeldOnce, WritesAtPhase, Upgrading, Reverting
<1>4. RowAtPhase'
  BY DEF TypeOK, RowAtPhase, WritesAtPhase, Upgrading, Reverting
<1>5. LoopInv'
  BY DEF TypeOK, LoopInv, WritesAtPhase, Upgrading, Reverting
<1>6. Atomic' /\ InOrder'
  <2>1. UNCHANGED <<tracked, net, reverted>>
    OBVIOUS
  <2> QED BY <1>1, <2>1, DatabaseUnchanged
<1> QED BY <1>1, <1>2, <1>3, <1>4, <1>5, <1>6

LEMMA RollbackIInv ==
  ASSUME IInv, ~Pooled, NEW p \in Process, Rollback(p)
  PROVE  IInv'
<1> USE MigrationAssumption DEF IInv, Rollback, Moves
<1>1. TypeOK'
  BY DEF TypeOK, Phase, Write
<1>2. WritesAtPhase'
  BY DEF TypeOK, WritesAtPhase, Upgrading, Reverting
<1>3. RowHeldOnce'
  BY DEF TypeOK, RowHeldOnce, WritesAtPhase, Upgrading, Reverting
<1>4. RowAtPhase'
  BY DEF TypeOK, RowAtPhase, WritesAtPhase, Upgrading, Reverting
<1>5. LoopInv'
  BY DEF TypeOK, LoopInv, WritesAtPhase, Upgrading, Reverting
<1>6. Atomic' /\ InOrder'
  <2>1. UNCHANGED <<tracked, net, reverted>>
    OBVIOUS
  <2> QED BY <1>1, <2>1, DatabaseUnchanged
<1> QED BY <1>1, <1>2, <1>3, <1>4, <1>5, <1>6

LEMMA NothingToRevertIInv ==
  ASSUME IInv, ~Pooled, NEW p \in Process, NothingToRevert(p)
  PROVE  IInv'
<1> USE MigrationAssumption DEF IInv, NothingToRevert, Moves
<1>1. TypeOK'
  BY DEF TypeOK, Phase, Write
<1>2. WritesAtPhase'
  BY DEF TypeOK, WritesAtPhase, Upgrading, Reverting
<1>3. RowHeldOnce'
  BY DEF TypeOK, RowHeldOnce, WritesAtPhase, Upgrading, Reverting
<1>4. RowAtPhase'
  BY DEF TypeOK, RowAtPhase, WritesAtPhase, Upgrading, Reverting
<1>5. LoopInv'
  BY DEF TypeOK, LoopInv, WritesAtPhase, Upgrading, Reverting
<1>6. Atomic' /\ InOrder'
  <2>1. UNCHANGED <<tracked, net, reverted>>
    OBVIOUS
  <2> QED BY <1>1, <2>1, DatabaseUnchanged
<1> QED BY <1>1, <1>2, <1>3, <1>4, <1>5, <1>6

LEMMA GetLatestAppliedIInv ==
  ASSUME IInv, ~Pooled, NEW p \in Process, GetLatestApplied(p)
  PROVE  IInv'
<1> USE MigrationAssumption DEF IInv, GetLatestApplied, Moves
<1>1. TypeOK'
  BY MaxTracked DEF TypeOK, Phase, Write
<1>2. WritesAtPhase'
  BY MaxTracked DEF TypeOK, WritesAtPhase, Upgrading, Reverting
<1>3. RowHeldOnce'
  BY DEF TypeOK, RowHeldOnce, WritesAtPhase, Upgrading, Reverting
<1>4. RowAtPhase'
  BY MaxTracked DEF TypeOK, RowAtPhase, WritesAtPhase, Upgrading, Reverting
<1>5. LoopInv'
  BY DEF TypeOK, LoopInv, WritesAtPhase, Upgrading, Reverting
<1>6. Atomic' /\ InOrder'
  <2>1. UNCHANGED <<tracked, net, reverted>>
    OBVIOUS
  <2> QED BY <1>1, <2>1, DatabaseUnchanged
<1> QED BY <1>1, <1>2, <1>3, <1>4, <1>5, <1>6

LEMMA BeginRollbackIInv ==
  ASSUME IInv, ~Pooled, NEW p \in Process, BeginRollback(p)
  PROVE  IInv'
<1> USE MigrationAssumption DEF IInv, BeginRollback, Moves
<1>1. TypeOK'
  BY DEF TypeOK, Phase, Write
<1>2. WritesAtPhase'
  BY DEF TypeOK, WritesAtPhase, Upgrading, Reverting
<1>3. RowHeldOnce'
  BY DEF TypeOK, RowHeldOnce, WritesAtPhase, Upgrading, Reverting
<1>4. RowAtPhase'
  BY DEF TypeOK, RowAtPhase, WritesAtPhase, Upgrading, Reverting
<1>5. LoopInv'
  BY DEF TypeOK, LoopInv, WritesAtPhase, Upgrading, Reverting
<1>6. Atomic' /\ InOrder'
  <2>1. UNCHANGED <<tracked, net, reverted>>
    OBVIOUS
  <2> QED BY <1>1, <2>1, DatabaseUnchanged
<1> QED BY <1>1, <1>2, <1>3, <1>4, <1>5, <1>6

LEMMA DownIInv ==
  ASSUME IInv, ~Pooled, NEW p \in Process, Down(p)
  PROVE  IInv'
<1> USE MigrationAssumption DEF IInv, Down, Moves, Execute
<1>1. TypeOK'
  BY DEF TypeOK, Phase, Write
<1>2. WritesAtPhase'
  BY DEF TypeOK, WritesAtPhase, Upgrading, Reverting
<1>3. RowHeldOnce'
  BY DEF TypeOK, RowHeldOnce, WritesAtPhase, Upgrading, Reverting
<1>4. RowAtPhase'
  BY DEF TypeOK, RowAtPhase, WritesAtPhase, Upgrading, Reverting
<1>5. LoopInv'
  BY DEF TypeOK, LoopInv, WritesAtPhase, Upgrading, Reverting
<1>6. Atomic' /\ InOrder'
  <2>1. UNCHANGED <<tracked, net, reverted>>
    OBVIOUS
  <2> QED BY <1>1, <2>1, DatabaseUnchanged
<1> QED BY <1>1, <1>2, <1>3, <1>4, <1>5, <1>6

LEMMA DeleteRowIInv ==
  ASSUME IInv, ~Pooled, NEW p \in Process, DeleteRow(p)
  PROVE  IInv'
<1> USE MigrationAssumption DEF IInv, DeleteRow, Moves, Execute, RowLocked
<1>1. TypeOK'
  BY DEF TypeOK, Phase, Write
<1>2. WritesAtPhase'
  BY DEF TypeOK, WritesAtPhase, Upgrading, Reverting
<1>3. RowHeldOnce'
  <2>1. \A q \in Process \ {p} :
          current[q] = current[p] => phase[q] \notin {"insert", "delete"}
    BY DEF WritesAtPhase
  <2>2. /\ current' = current /\ phase'[p] = "delete"
        /\ \A q \in Process \ {p} : phase'[q] = phase[q]
    BY DEF TypeOK
  <2> HIDE DEF DeleteRow
  <2> QED BY <2>1, <2>2 DEF RowHeldOnce
<1>4. RowAtPhase'
  BY DEF TypeOK, RowAtPhase, WritesAtPhase, Upgrading, Reverting
<1>5. LoopInv'
  BY DEF TypeOK, LoopInv, WritesAtPhase, Upgrading, Reverting
<1>6. Atomic' /\ InOrder'
  <2>1. UNCHANGED <<tracked, net, reverted>>
    OBVIOUS
  <2> QED BY <1>1, <2>1, DatabaseUnchanged
<1> QED BY <1>1, <1>2, <1>3, <1>4, <1>5, <1>6

LEMMA FailIInv ==
  ASSUME IInv, ~Pooled, NEW p \in Process, Fail(p)
  PROVE  IInv'
<1> USE MigrationAssumption DEF IInv, Fail, Over
<1>1. TypeOK'
  BY DEF TypeOK, Phase, Write
<1>2. WritesAtPhase'
  BY DEF TypeOK, WritesAtPhase, Upgrading, Reverting
<1>3. RowHeldOnce'
  BY DEF TypeOK, RowHeldOnce, WritesAtPhase, Upgrading, Reverting
<1>4. RowAtPhase'
  BY DEF TypeOK, RowAtPhase, WritesAtPhase, Upgrading, Reverting
<1>5. LoopInv'
  BY DEF TypeOK, LoopInv, WritesAtPhase, Upgrading, Reverting
<1>6. Atomic' /\ InOrder'
  <2>1. UNCHANGED <<tracked, net, reverted>>
    OBVIOUS
  <2> QED BY <1>1, <2>1, DatabaseUnchanged
<1> QED BY <1>1, <1>2, <1>3, <1>4, <1>5, <1>6

\* COMMIT of a migration: everything before it is tracked or was reverted.
LEMMA CommitApplyIInv ==
  ASSUME IInv, ~Pooled, NEW p \in Process, CommitApply(p)
  PROVE  IInv'
<1> DEFINE m == current[p]
<1>1. /\ m \in Mig /\ m \notin tracked /\ writes[p] = {"up", "insert"}
      /\ Mig \ (todo[p] \cup {m}) \subseteq tracked \cup reverted
      /\ \A o \in todo[p] : m < o
      /\ phase[p] = "insert" /\ phase' = [phase EXCEPT ![p] = "selected"]
      /\ writes' = [writes EXCEPT ![p] = {}]
      /\ current' = [current EXCEPT ![p] = NoMigration]
      /\ UNCHANGED <<todo, failures, reverted>>
  BY DEF IInv, WritesAtPhase, RowAtPhase, LoopInv, Upgrading, CommitApply, Moves
<1>2. net' = [net EXCEPT ![m] = @ + 1] /\ tracked' = tracked \cup {m}
  <2>1. /\ net' = [net EXCEPT ![m] = @ + 1 - 0]
        /\ tracked' = (tracked \cup {m}) \ {}
    BY <1>1 DEF CommitApply, Applied
  <2> QED BY <1>1, <2>1 DEF IInv, TypeOK
<1> HIDE DEF m
<1>3. TypeOK'
  BY <1>1, <1>2 DEF IInv, TypeOK, Phase
<1>4. WritesAtPhase'
  BY <1>1 DEF IInv, TypeOK, WritesAtPhase, Upgrading, Reverting
<1>5. RowHeldOnce'
  BY <1>1, MigrationAssumption
     DEF IInv, TypeOK, RowHeldOnce, WritesAtPhase, Upgrading, Reverting
<1>6. RowAtPhase'
  <2>1. \A q \in Process \ {p} : phase[q] = "insert" => current[q] # m
    BY <1>1 DEF IInv, RowHeldOnce, m
  <2> QED BY <1>1, <1>2, <2>1 DEF IInv, TypeOK, RowAtPhase, Reverting
<1>7. LoopInv'
  BY <1>1, <1>2 DEF IInv, TypeOK, LoopInv, Upgrading
<1>8. Atomic'
  BY <1>1, <1>2 DEF IInv, TypeOK, Atomic, Exact
<1>9. InOrder'
  <2>1. 1 .. m \subseteq tracked' \cup reverted'
    <3>1. ASSUME NEW o \in 1 .. m PROVE o \in tracked \cup reverted \cup {m}
      <4>1. o \in Mig /\ o <= m
        BY <1>1, MigrationAssumption DEF Mig
      <4>2. o \notin todo[p]
        BY <1>1, <4>1 DEF Mig
      <4> QED BY <1>1, <4>1, <4>2
    <3> QED BY <1>1, <1>2, <3>1
  <2> QED BY <1>1, <1>2, <2>1 DEF IInv, InOrder
<1> QED BY <1>3, <1>4, <1>5, <1>6, <1>7, <1>8, <1>9 DEF IInv

\* COMMIT of a rollback: the row was there, and goes with the migration.
LEMMA CommitRollbackIInv ==
  ASSUME IInv, ~Pooled, OneRoller, NEW p \in Process, CommitRollback(p)
  PROVE  IInv'
<1> DEFINE m == current[p]
<1>1. /\ m \in Mig /\ m \in tracked /\ writes[p] = {"down", "delete"} /\ p \in Roller
      /\ phase[p] = "delete" /\ phase' = [phase EXCEPT ![p] = "idle"]
      /\ Over(p) /\ reverted' = reverted \cup {m} /\ UNCHANGED failures
  BY DEF IInv, WritesAtPhase, RowAtPhase, Reverting, CommitRollback, Moves
<1>2. net' = [net EXCEPT ![m] = @ - 1] /\ tracked' = tracked \ {m}
  <2>1. /\ net' = [net EXCEPT ![m] = @ + 0 - 1]
        /\ tracked' = tracked \ {m}
    BY <1>1 DEF CommitRollback, Applied
  <2>2. net[m] \in Int
    BY <1>1 DEF IInv, TypeOK
  <2>3. net[m] + 0 - 1 = net[m] - 1
    BY <2>2
  <2> QED BY <2>1, <2>3
<1> HIDE DEF m
<1>3. TypeOK'
  BY <1>1, <1>2 DEF IInv, TypeOK, Phase, Over
<1>4. WritesAtPhase'
  BY <1>1 DEF IInv, TypeOK, WritesAtPhase, Upgrading, Reverting, Over
<1>5. RowHeldOnce'
  BY <1>1 DEF IInv, TypeOK, RowHeldOnce, Over
<1>6. RowAtPhase'
  <2>1. \A q \in Process \ {p} : ~Reverting(q)
    BY <1>1 DEF IInv, RowAtPhase, OneRoller
  <2> QED BY <1>1, <1>2, <2>1 DEF IInv, TypeOK, RowAtPhase, Reverting, Over
<1>7. LoopInv'
  BY <1>1, <1>2 DEF IInv, TypeOK, LoopInv, Upgrading, Over
<1>8. Atomic'
  BY <1>1, <1>2 DEF IInv, TypeOK, Atomic, Exact
<1>9. InOrder'
  BY <1>1, <1>2 DEF IInv, InOrder
<1> QED BY <1>3, <1>4, <1>5, <1>6, <1>7, <1>8, <1>9 DEF IInv

LEMMA NextIInv == ~Pooled /\ OneRoller /\ IInv /\ [Next]_vars => IInv'
<1> SUFFICES ASSUME ~Pooled, OneRoller, IInv, [Next]_vars PROVE IInv'
  OBVIOUS
<1>1. CASE UNCHANGED vars
  <2> USE <1>1 DEF vars
  <2>1. TypeOK'
    BY DEF IInv, TypeOK
  <2>2. WritesAtPhase' /\ RowHeldOnce' /\ RowAtPhase' /\ LoopInv'
    BY DEF IInv, WritesAtPhase, RowHeldOnce, RowAtPhase, LoopInv, Upgrading, Reverting
  <2> QED BY <2>1, <2>2, DatabaseUnchanged DEF IInv
<1>2. ASSUME NEW p \in Process, Apply(p) \/ Rollback(p) \/ Proceed(p) \/ Fail(p)
      PROVE  IInv'
  BY <1>2, ApplyIInv, SelectIInv, BeginIInv, UpIInv, InsertIInv, CommitApplyIInv,
     ApplyDoneIInv, InsertRefusedIInv, RollbackIInv, NothingToRevertIInv,
     GetLatestAppliedIInv, BeginRollbackIInv, DownIInv, DeleteRowIInv,
     CommitRollbackIInv, FailIInv DEF Proceed
<1> QED BY <1>1, <1>2 DEF Next

-----------------------------------------------------------------------------
(* The theorem. *)

\* Over one connection, with any number of processes that migrate, one of which
\* may roll back, whatever fails: a migration is applied when its row says so,
\* once, and what is tracked is an initial part of the list.
THEOREM MigrationsAreSafe ==
  ASSUME ~Pooled, OneRoller
  PROVE  Spec => []Safety
<1>1. IInv => Safety
  BY DEF IInv, Safety
<1>2. IInv /\ [Next]_vars => IInv'
  BY NextIInv
<1> QED BY <1>1, <1>2, InitIInv, PTL DEF Spec
=============================================================================
