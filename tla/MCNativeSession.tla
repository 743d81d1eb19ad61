-------------------------- MODULE MCNativeSession --------------------------
(* Statements, streams and transactions on a connection that holds, and     *)
(* fewer on one that may break; and transactions inside transactions, which *)
(* take more statements.                                                    *)
EXTENDS NativeSession

Use(calls, statements, breaks) ==
  [calls |-> calls, statements |-> statements, breaks |-> breaks]

MCUses == {
  Use({"execute", "stream", "transaction"}, 5, FALSE),
  Use({"execute", "stream", "transaction"}, 4, TRUE),
  Use({"execute", "transaction"}, 5, TRUE),
  Use({"execute", "transaction", "nested"}, 7, FALSE)}
=============================================================================
