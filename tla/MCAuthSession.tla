--------------------------- MODULE MCAuthSession ---------------------------
(* Two tabs, two concurrent calls in the first and one in the second, over  *)
(* the stores, policies and secrets that a deployment combines.  Each       *)
(* scenario makes the calls its stores and its policy make interesting.     *)
EXTENDS AuthSession, TLC

MCOwner == [x \in {"a1", "a2", "ha"} |-> "A"] @@ [x \in {"b1", "hb"} |-> "B"]

Deployment(access, refresh, policy, signed) ==
    [store |-> [access |-> access, refresh |-> refresh], policy |-> policy,
     policies |-> {policy, "clear"}, signed |-> signed]

Making(ops, callers, calls, time) ==
    [ops |-> ops, callers |-> callers, calls |-> calls, time |-> time]

Watched(audited, disposing) == [audited |-> audited, disposing |-> disposing]

MCScenarios ==
    {Deployment("web", "web", "preserve", TRUE)
       @@ Making({"setTokens", "logout", "storeRefresh"}, {"a1", "b1"}, 2, 0)
       @@ Watched({}, {}),
     Deployment("web", "web", "preserve", FALSE)
       @@ Making({"refreshIfNeeded"}, {"a1", "a2"}, 3, 2)
       @@ Watched({}, {}),
     Deployment("cookie", "cookie", "preserve", TRUE)
       @@ Making({"rotateTokens", "logout"}, {"a1", "b1"}, 2, 0)
       @@ Watched({}, {}),
     Deployment("memory", "memory", "require", TRUE)
       @@ Making({"setTokens", "clear", "regenerate"}, {"a1", "a2"}, 2, 0)
       @@ Watched({"A"}, {}),
     Deployment("memory", "web", "clear", FALSE)
       @@ Making({"authSession"}, {"a1", "b1"}, 2, 2)
       @@ Watched({}, {"A"}),
     Deployment("web", "absent", "require", TRUE)
       @@ Making({"rotateTokens", "storeRefresh"}, {"a1", "b1"}, 2, 0)
       @@ Watched({"A"}, {"A"})}
=============================================================================
