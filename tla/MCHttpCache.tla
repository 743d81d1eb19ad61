----------------------------- MODULE MCHttpCache -----------------------------
(* TLC instances of HttpCache. *)
EXTENDS HttpCache

Symmetry == Permutations(Request) \cup Permutations(Key)
=============================================================================
