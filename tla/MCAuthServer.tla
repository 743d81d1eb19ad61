---------------------------- MODULE MCAuthServer ----------------------------
(* Two people, two requests at a time; each deployment receives the kinds   *)
(* of request that its adapter and policy make interesting.                 *)
EXTENDS AuthServer

Deployed(adapter, policy, linking, kinds, requests) ==
    [adapter |-> adapter, policy |-> policy, linking |-> linking, kinds |-> kinds,
     requests |-> requests]

MCDeployments ==
    {Deployed("memory", "preserve", FALSE, {"credentials", "session", "signOut"}, 3),
     Deployed("sql", "require", FALSE, {"credentials", "session"}, 3),
     Deployed("memory", "require", FALSE, {"emailSignIn", "emailCallback"}, 4),
     Deployed("sql", "preserve", FALSE, {"emailSignIn", "emailCallback"}, 4),
     Deployed("pureq", "require", TRUE, {"emailSignIn", "emailCallback", "credentials"}, 3),
     Deployed("memory", "preserve", FALSE, {"oauthCallback"}, 3),
     Deployed("sql", "preserve", FALSE, {"oauthCallback"}, 3),
     Deployed("sql", "preserve", TRUE, {"oauthCallback"}, 3),
     Deployed("pureq", "preserve", TRUE, {"oauthCallback"}, 2)}
=============================================================================
