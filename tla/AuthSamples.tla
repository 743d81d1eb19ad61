---------------------------- MODULE AuthSamples ----------------------------
(***************************************************************************)
(* Programs for the adapters of packages/auth, and what is known to tell   *)
(* them apart; sign-ins, callbacks and other calls for its OIDC flows;     *)
(* revocations, JSON Web Tokens, cookies and legacy sessions.              *)
(***************************************************************************)
EXTENDS Integers, SequencesExt

Ad == INSTANCE AuthAdapters

Call(op, x) == [op |-> op, x |-> x]
Maybe(values) == {<<>>} \cup {<<v>> : v \in values}

\* Users 1, 2, ... are those the adapter numbers; 9 has an id of its own.
UserCall ==
       {Call("createUser", [id |-> id, email |-> e, name |-> "n"]) : id \in {<<>>, <<9>>}, e \in {"e", "f"}}
  \cup {Call("getUser", id) : id \in {1, 2}} \cup {Call("getUserByEmail", "f")}
  \cup {Call("updateUser", [id |-> id, email |-> e, name |-> n]) :
           id \in {1, 2}, e \in Maybe({"f"}), n \in Maybe({"m"})}
  \cup {Call("deleteUser", 1)}
AccountCall ==
       {Call("linkAccount", [account |-> "a", user |-> u]) : u \in {1, 2}}
  \cup {Call("unlinkAccount", "a"), Call("getUserByAccount", "a")}
SessionCall ==
       {Call("createSession", [token |-> "s", user |-> u, lapsed |-> l]) : u \in {1, 2}, l \in BOOLEAN}
  \cup {Call("getSessionAndUser", "s"), Call("deleteSession", "s")}
  \cup {Call("updateSession", [token |-> "s", user |-> u, lapsed |-> l]) :
           u \in Maybe({2}), l \in Maybe(BOOLEAN)}
TokenCall ==
       {Call("createVerificationToken", [key |-> "k", lapsed |-> l]) : l \in BOOLEAN}
  \cup {Call("useVerificationToken", "k")}

Memory(db, c) ==
  CASE c.op = "createUser" -> Ad!MemoryCreateUser(db, c.x)
    [] c.op = "getUser" -> Ad!MemoryGetUser(db, c.x)
    [] c.op = "getUserByEmail" -> Ad!MemoryGetUserByEmail(db, c.x)
    [] c.op = "getUserByAccount" -> Ad!MemoryGetUserByAccount(db, c.x)
    [] c.op = "updateUser" -> Ad!MemoryUpdateUser(db, c.x)
    [] c.op = "deleteUser" -> Ad!MemoryDeleteUser(db, c.x)
    [] c.op = "linkAccount" -> Ad!MemoryLinkAccount(db, c.x)
    [] c.op = "unlinkAccount" -> Ad!MemoryUnlinkAccount(db, c.x)
    [] c.op = "createSession" -> Ad!MemoryCreateSession(db, c.x)
    [] c.op = "getSessionAndUser" -> Ad!MemoryGetSessionAndUser(db, c.x)
    [] c.op = "updateSession" -> Ad!MemoryUpdateSession(db, c.x)
    [] c.op = "deleteSession" -> Ad!MemoryDeleteSession(db, c.x)
    [] c.op = "createVerificationToken" -> Ad!MemoryCreateVerificationToken(db, c.x)
    [] c.op = "useVerificationToken" -> Ad!MemoryUseVerificationToken(db, c.x)
Sql(db, c) ==
  CASE c.op = "createUser" -> Ad!SqlCreateUser(db, c.x)
    [] c.op = "getUser" -> Ad!SqlGetUser(db, c.x)
    [] c.op = "getUserByEmail" -> Ad!SqlGetUserByEmail(db, c.x)
    [] c.op = "getUserByAccount" -> Ad!SqlGetUserByAccount(db, c.x)
    [] c.op = "updateUser" -> Ad!SqlUpdateUser(db, c.x)
    [] c.op = "deleteUser" -> Ad!SqlDeleteUser(db, c.x)
    [] c.op = "linkAccount" -> Ad!SqlLinkAccount(db, c.x)
    [] c.op = "unlinkAccount" -> Ad!SqlUnlinkAccount(db, c.x)
    [] c.op = "createSession" -> Ad!SqlCreateSession(db, c.x)
    [] c.op = "getSessionAndUser" -> Ad!SqlGetSessionAndUser(db, c.x)
    [] c.op = "updateSession" -> Ad!SqlUpdateSession(db, c.x)
    [] c.op = "deleteSession" -> Ad!SqlDeleteSession(db, c.x)
    [] c.op = "createVerificationToken" -> Ad!SqlCreateVerificationToken(db, c.x)
    [] c.op = "useVerificationToken" -> Ad!SqlUseVerificationToken(db, c.x)
Pureq(db, c) ==
  CASE c.op = "createUser" -> Ad!PureqCreateUser(db, c.x)
    [] c.op = "getUser" -> Ad!PureqGetUser(db, c.x)
    [] c.op = "getUserByEmail" -> Ad!PureqGetUserByEmail(db, c.x)
    [] c.op = "getUserByAccount" -> Ad!PureqGetUserByAccount(db, c.x)
    [] c.op = "updateUser" -> Ad!PureqUpdateUser(db, c.x)
    [] c.op = "deleteUser" -> Ad!PureqDeleteUser(db, c.x)
    [] c.op = "linkAccount" -> Ad!PureqLinkAccount(db, c.x)
    [] c.op = "unlinkAccount" -> Ad!PureqUnlinkAccount(db, c.x)
    [] c.op = "createSession" -> Ad!PureqCreateSession(db, c.x)
    [] c.op = "getSessionAndUser" -> Ad!PureqGetSessionAndUser(db, c.x)
    [] c.op = "updateSession" -> Ad!PureqUpdateSession(db, c.x)
    [] c.op = "deleteSession" -> Ad!PureqDeleteSession(db, c.x)
    [] c.op = "createVerificationToken" -> Ad!PureqCreateVerificationToken(db, c.x)
    [] c.op = "useVerificationToken" -> Ad!PureqUseVerificationToken(db, c.x)

\* Where the adapters of a database are known to do something else than the maps do:
\* constraints refuse what a map replaces, ids of the caller's are not kept, and the
\* join of sessions and users misses a session that has no user.
Diverges(db, c) ==
  LET same(rows, P(_)) == Ad!Has(rows, P)
  IN CASE c.op = "createUser" -> c.x.id # <<>> \/ same(db.users, LAMBDA u : u.email = c.x.email)
       [] c.op = "updateUser" ->
            c.x.email # <<>> /\ same(db.users, LAMBDA u : u.id # c.x.id /\ u.email = c.x.email[1])
       [] c.op = "linkAccount" -> same(db.accounts, LAMBDA a : a.account = c.x.account)
       [] c.op = "createSession" -> same(db.sessions, LAMBDA s : s.token = c.x.token)
       [] c.op = "createVerificationToken" -> same(db.tokens, LAMBDA t : t.key = c.x.key)
       [] c.op = "getSessionAndUser" ->
            same(db.sessions, LAMBDA s : s.token = c.x /\ s.lapsed /\ ~same(db.users, LAMBDA u : u.id = s.user))
       [] OTHER -> FALSE
\* And @pureq/db's besides: no account is ever found, expiry is not looked at, a missing
\* user is no error and an update of nothing is one.
PureqDiverges(db, c) ==
  \/ Diverges(db, c)
  \/ c.op = "getUserByAccount"
  \/ c.op = "getSessionAndUser" /\ \E i \in DOMAIN db.sessions : db.sessions[i].lapsed
  \/ c.op = "useVerificationToken" /\ \E i \in DOMAIN db.tokens : db.tokens[i].lapsed
  \/ /\ c.op = "updateUser"
     /\ c.x.email \o c.x.name = <<>> \/ c.x.id \notin {db.users[i].id : i \in DOMAIN db.users}
  \/ c.op = "updateSession" /\ c.x.user \o c.x.lapsed = <<>>

\* The adapter gives what the maps give, for as long as nothing tells them apart.
RECURSIVE Follows(_, _, _, _)
Follows(adapter, db, maps, calls) ==
  \/ calls = <<>>
  \/ IF adapter = "sql" THEN Diverges(db, Head(calls)) ELSE PureqDiverges(db, Head(calls))
  \/ LET got == IF adapter = "sql" THEN Sql(db, Head(calls)) ELSE Pureq(db, Head(calls))
         reference == Memory(maps, Head(calls))
     IN got.r = reference.r /\ Follows(adapter, got.db, reference.db, Tail(calls))

Programs(calls) == {<<Call("createUser", [id |-> <<>>, email |-> "e", name |-> "n"])>> \o p : p \in calls}
AdapterSample ==
  Programs([1 .. 3 -> UserCall \cup AccountCall] \cup [1 .. 3 -> SessionCall \cup {Call("deleteUser", 1)}]
             \cup [1 .. 4 -> TokenCall])

-----------------------------------------------------------------------------
O == INSTANCE Oidc WITH REPLAY_TTL <- 2, MAX_REPLAY_ENTRIES <- 2

CallbackParam ==
  { <<"code", "c">>, <<"code", "d">>, <<"code", "">>, <<"code", O!Oversize>>, <<"state", "s">>,
    <<"state", "x">>, <<"error", "denied">>, <<"error", "">>, <<"error_description", O!Oversize>> }
CallbackSample == [params : UNION {[1 .. k -> CallbackParam] : k \in 0 .. 3}, expected : Maybe({"s"})]

\* A callback is the answer to the sign-in: one code, its state, no error.
Belongs(params, expected) ==
  LET real(name) == SelectSeq(params, LAMBDA p : p[1] = name /\ p[2] # "")
  IN /\ real("error") = <<>>
     /\ Len(real("code")) = 1 /\ real("code")[1][2] # O!Oversize
     /\ Len(real("state")) <= 1
     /\ expected # <<>> => real("state") = << <<"state", expected[1]>> >>

Client(method) == [clientId |-> "app", clientSecret |-> <<"key">>, redirectUri |-> "here", authMethod |-> method]
Fresh(n) == [state |-> <<"state A", "state B">>[n], nonce |-> <<"nonce A", "nonce B">>[n], verifier |-> <<"verifier A", "verifier B">>[n]]
SignInSample ==
  [method : {"client_secret_post", "client_secret_basic", "none"},
   given : [state : Maybe({"s"}), nonce : Maybe({"n"}), codeChallenge : Maybe({<<"sha256", "another">>}),
            codeChallengeMethod : Maybe({"plain"}), prompt : {<<"login">>},
            extraParams : {<<>>} \cup {<< <<name, "changed">> >> : name \in {"state", "nonce", "redirect_uri", "prompt"}}],
   defaults : {<<>>, << <<"prompt", "consent">> >>}, refuses : {{}, {<<"plain">>}},
   other : BOOLEAN, nonced : BOOLEAN, issuer : Maybe({"idp", "elsewhere"})]

\* The provider: it sends the user back with a code for what the URL asked, and gives
\* tokens to who can authenticate, name the same address and show the verifier.
SentBack(url) == << <<"code", "c">>, <<"state", url["state"]>> >>
ProviderAnswer(url, request) ==
  [ok |-> /\ <<"key">> \in {request.client_secret, request.authorization}
          /\ request.body.redirect_uri = url["redirect_uri"]
          /\ O!Challenge(request.body.code_verifier, url["code_challenge_method"]) = url["code_challenge"],
   accessToken |-> <<"access">>,
   idToken |-> << [garbled |-> FALSE, iss |-> "idp", aud |-> {"app"}, expired |-> FALSE, nonce |-> url["nonce"]] >>]

\* The user of one sign-in comes back with the answer to it, or (`other`) to another one.
SignIn(i) ==
  LET client == Client(i.method)
      provider == [authorizationDefaults |-> i.defaults, refuses |-> i.refuses]
      begin(n) == O!FromProvider(provider, client, i.given, Fresh(n))
      mine == begin(1)
      theirs == IF i.other THEN begin(2) ELSE mine
      x == O!ExchangeCallback(O!NewFlow, client, "loaded", SentBack(theirs.url),
             [state |-> <<mine.state>>, codeVerifier |-> mine.codeVerifier], 0)
  IN IF O!Failed(mine) THEN mine
     ELSE IF x.request = <<>> THEN x.result
     ELSE O!CodeExchanged(client, ProviderAnswer(theirs.url, x.request[1]),
                          IF i.nonced THEN <<mine.nonce>> ELSE <<>>, i.issuer)

\* Callbacks with several codes, minutes apart; and requests of all kinds to a provider
\* whose discovery document is there at one time and not at another.
ReplaySample == [1 .. 4 -> [code : {"a", "b", "c"}, wait : {0, 1, 2}]]
Time(events, i) == FoldLeft(LAMBDA t, e : t + e.wait, 0, SubSeq(events, 1, i))
Replayed(events) ==
  FoldLeft(LAMBDA acc, i :
    LET x == O!ExchangeCallback(acc.flow, Client("none"), "loaded", << <<"code", events[i].code>> >>,
               [state |-> <<>>, codeVerifier |-> "v"], Time(events, i))
    IN [flow |-> x.flow, sent |-> Append(acc.sent, x.request # <<>>)],
    [flow |-> O!NewFlow, sent |-> <<>>], [i \in DOMAIN events |-> i]).sent

Endpoints == {"token", "userinfo", "end_session"}
EndpointSample == [1 .. 3 -> [endpoint : Endpoints \cup {"introspection"}, discovery : {"loaded", "refused"}, ok : BOOLEAN]]
Asked(events) ==
  FoldLeft(LAMBDA acc, e :
    LET x == O!AskEndpoint(acc.flow, e.discovery, e.endpoint, Endpoints,
                           [ok |-> e.ok, accessToken |-> <<"access">>, idToken |-> <<>>])
    IN [flow |-> x.flow, ok |-> Append(acc.ok, ~O!Failed(x.result))],
    [flow |-> O!NewFlow, ok |-> <<>>], events).ok

-----------------------------------------------------------------------------
T == INSTANCE AuthTokens WITH MAX_COOKIE_SEGMENTS <- 3, MAX_COOKIE_HEADER_LENGTH <- 14

RevocationEvent ==
       [op : {"revoke"}, bucket : T!Buckets, expiresAt : Maybe({1, 3})]
  \cup [op : {"clear", "clearExpired", "wait"}, bucket : {"tokens"}, expiresAt : {<<>>}]
RevocationSample == [events : UNION {[1 .. k -> RevocationEvent] : k \in 0 .. 3}]
Claims == [jti : Maybe({"k"}), sid : Maybe({"k", "other"}), sub : Maybe({"k"})]

\* `wait` is two units of time; isRevoked() clears as clearExpired() does.
RegistryAfter(events) ==
  FoldLeft(LAMBDA s, e :
    CASE e.op = "revoke" -> [s EXCEPT !.registry = T!Revoke(@, e.bucket, "k", e.expiresAt)]
      [] e.op = "clear" -> [s EXCEPT !.registry = T!EmptyRegistry]
      [] e.op = "clearExpired" -> [s EXCEPT !.registry = T!ClearExpired(@, s.now)]
      [] e.op = "wait" -> [s EXCEPT !.now = @ + 2],
    [registry |-> T!EmptyRegistry, now |-> 0], events)
\* The last thing said of a key's bucket is a revocation that is not over.
StillRevoked(events, bucket, now) ==
  LET last == SelectLastInSubSeq(events, 1, Len(events), LAMBDA e :
                e.op = "clear" \/ (e.op = "revoke" /\ e.bucket = bucket))
  IN /\ last # 0 /\ events[last].op = "revoke"
     /\ events[last].expiresAt = <<>> \/ events[last].expiresAt[1] > now

\* A token that was issued, and one that was changed after it was signed.
Payload == [exp : Maybe({3, 5}), nbf : Maybe({3, 5}), iss : Maybe({"i"}), aud : {<<>>, <<"you", "me">>}]
Issued(alg, key, payload) ==
  [alg |-> alg, payload |-> payload, signature |-> [alg |-> alg, key |-> key, over |-> <<alg, payload>>]]
JwtSample ==
  [payload : Payload, by : {<<"HS256", "k">>, <<"HS256", "l">>, <<"RS256", "r">>},
   changed : {"nothing", "alg", "none", "payload"},
   key : {[type |-> "text", id |-> "k"], [type |-> "text", id |-> "r"],
          [type |-> "CryptoKey", id |-> "r", alg |-> "RS256"]},
   algorithms : {{"HS256"}, {"HS256", "RS256"}}, tolerance : {0, 1}]
Presented(i) ==
  LET t == Issued(i.by[1], i.by[2], i.payload)
  IN CASE i.changed = "nothing" -> t
       [] i.changed = "alg" -> [t EXCEPT !.alg = IF @ = "HS256" THEN "RS256" ELSE "HS256"]
       [] i.changed = "none" -> [t EXCEPT !.alg = "none"]
       [] i.changed = "payload" -> [t EXCEPT !.payload.exp = <<9>>]

CsrfSample ==
  [method : {"GET", "POST"}, expected : {"", "t", T!Oversize}, query : {"", "t", "u"},
   headers : {<<>>} \cup {<< [lower |-> "x-csrf-token", value |-> v] >> : v \in {"", "t", "u", T!Oversize}}]

TokenText == {<<>>, <<"a">>, <<";">>, <<"=", "a">>, <<"%">>, <<" ", "a">>, <<"a", " ">>}
CookieSample ==
  [accessToken : Maybe(TokenText), refreshToken : Maybe(TokenText), bearer : Maybe({<<"b">>}), first : BOOLEAN,
   foreign : {<<>>, <<"x", "=", "%">>, <<"y">>, <<"=", "z">>, <<"x", "=", "1", ";", " ", "y", "=", "2">>,
              <<"x", "=", "1", ";", "w">>},
   before : Maybe({<<"a">>})]
\* What a browser sends that held a session before and was then sent another.
Sent(i) ==
  LET held == T!BuildSetCookieHeaders([accessToken |-> i.before, refreshToken |-> <<>>])
      set == T!BuildSetCookieHeaders([accessToken |-> i.accessToken, refreshToken |-> i.refreshToken])
      kept(n) == LET c == SelectSeq(held \o set, LAMBDA x : x.name = n)
                 IN IF Last(c).expires THEN <<>> ELSE << n \o <<"=">> \o Last(c).value >>
      own == kept(T!AccessName) \o kept(T!RefreshName)
      foreign == IF i.foreign = <<>> THEN <<>> ELSE <<i.foreign>>
      all == IF i.first THEN foreign \o own ELSE own \o foreign
  IN [header |-> IF all = <<>> THEN <<>>
                 ELSE FlattenSeq([k \in DOMAIN all |-> IF k = 1 THEN all[k] ELSE <<";", " ">> \o all[k]]),
      segments |-> Len(own) + Len(SelectSeq(i.foreign, LAMBDA c : c = ";"))
                     + (IF foreign = <<>> THEN 0 ELSE 1)]

Levels(v) == UNION {[names -> {v, "  "}] : names \in SUBSET {"access_token", "token", "refresh"}}
Texts(v) == [{T!Text} -> {v, "  "}]
LegacySample == {<<l>> : l \in Levels("outer") \cup Texts("outer")}
                \cup {<<l, n>> : l \in Levels("outer"), n \in Levels("inner") \cup Texts("inner")}
Named(level, v) == \E k \in DOMAIN level \ {"refresh"} : level[k] = v
IsText(level) == T!Text \in DOMAIN level
=============================================================================
