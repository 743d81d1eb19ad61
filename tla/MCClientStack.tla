--------------------------- MODULE MCClientStack ---------------------------
(* Two retries without a token to refresh, and one retry with one refresh.  *)
EXTENDS ClientStack

MCStacks ==
  {[retries |-> 2, refreshes |-> 0, until |-> 3],
   [retries |-> 1, refreshes |-> 1, until |-> 2]}
=============================================================================
