--------------------------- MODULE MCOfflineQueue ---------------------------
(* Two mutations that are disturbed, with room for both, or for one (where  *)
(* two tabs that look at the size at once make it two), in milliseconds of   *)
(* their own or in the same; and three, one of them urgent, undisturbed.    *)
EXTENDS OfflineQueue

Option(room, concurrency, calls, disturbed, instants) ==
  [maxQueueSize |-> room, concurrency |-> concurrency, calls |-> calls,
   disturbed |-> disturbed, instants |-> instants]

MCOptions == {
  Option(2, 1, 2, {"ttl", "replay", "storage"}, {1, 2}),
  Option(2, 1, 2, {"clear", "replay", "close"}, {1}),
  Option(1, 2, 2, {"ttl", "replay", "close"}, {1}),
  Option(1, 2, 2, {"ttl", "storage", "close"}, {1}),
  Option(3, 1, 3, {}, {1, 2})}
=============================================================================
