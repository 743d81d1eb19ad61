----------------------------- MODULE AuthServer -----------------------------
(***************************************************************************)
(* The request handlers of the auth package (auth/src/core/index.ts) on a  *)
(* server that works on several requests at a time.  They share one        *)
(* database, behind one of three adapters (adapter/index.ts, sql.ts,       *)
(* pureq.ts), and one session manager over one memory store                *)
(* (presets/index.ts), which the bridge fills from the cookies of a request *)
(* (bridge/index.ts).  Every awaited call of a handler is a step.          *)
(*                                                                         *)
(* A person is their e-mail address, their account at the OAuth provider   *)
(* and their id at the credentials provider.  Ids and tokens are tuples    *)
(* tagged with their origin; None is null.                                 *)
(***************************************************************************)
EXTENDS Naturals, Sequences, FiniteSets

CONSTANTS
    Persons,       \* the people whose browsers send requests
    Workers,       \* requests handled at a time
    Deployments,   \* adapter, rotation policy, account linking, kinds of
                   \* request and a bound on the requests
    MaxFaults      \* bound on the database calls that fail

VARIABLES
    deployment,
    db,            \* the four tables
    session,       \* the tokens in the shared session manager's store
    request,       \* the request each worker handles
    cookie,        \* the session cookies each browser holds
    mailbox,       \* verification tokens mailed to each person
    lapsed,        \* verification tokens whose hour has passed
    issued,        \* ids and random tokens issued so far
    received,      \* requests received so far
    faults,        \* database calls that failed so far
    answered,      \* history: the answers given
    halfLinked     \* history: persons for whom a user was created and an
                   \* account not (yet) linked to it

vars == <<deployment, db, session, request, cookie, mailbox, lapsed, issued, received,
          faults, answered, halfLinked>>

None == <<"none">>
NoTokens == [access |-> None, refresh |-> None]
Idle == [kind |-> "none", pc |-> "idle", person |-> "none", carries |-> NoTokens,
         token |-> 0, user |-> None, state |-> NoTokens, alone |-> TRUE,
         fresh |-> FALSE]

Init ==
    /\ deployment \in Deployments
    /\ db = [users |-> {}, accounts |-> {}, sessions |-> {}, tokens |-> {}]
    /\ session = NoTokens
    /\ request = [w \in Workers |-> Idle]
    /\ cookie = [p \in Persons |-> NoTokens]
    /\ mailbox = [p \in Persons |-> {}]
    /\ lapsed = {} /\ issued = 0 /\ received = 0 /\ faults = 0
    /\ answered = {}
    /\ halfLinked = {}

-----------------------------------------------------------------------------
(* The tables, as each adapter uses them                                    *)

Adapter == deployment.adapter
UsersWith(email) == {u \in db.users : u.email = email}
UserOf(id) == {u \in db.users : u.id = id}
AccountsOf(p) == {a \in db.accounts : a.person = p}

\* createUser: only the in-memory adapter keeps the id it is given; only the
\* SQL schema has a unique e-mail address.
NewUser(w) ==
    [id |-> IF Adapter = "memory" /\ request[w].kind = "credentials"
            THEN <<"own", request[w].person>> ELSE <<"new", issued + 1>>,
     email |-> request[w].person]
UserConflicts(user) == Adapter = "sql" /\ UsersWith(user.email) # {}

\* As it would be if the in-memory adapter filed accounts under the provider.
MutFiledByProvider(account) ==
    IF Adapter = "memory" THEN {account} ELSE db.accounts \cup {account}

\* linkAccount: a map entry, a row with a primary key, or just a row.
Linked(account) ==
    IF Adapter = "memory"
    THEN {a \in db.accounts : a.person # account.person} \cup {account}
    ELSE db.accounts \cup {account}
AccountConflicts(account) == Adapter = "sql" /\ AccountsOf(account.person) # {}

\* The rows a useVerificationToken finds, and what it leaves.
TokenRows(p, n) == {t \in db.tokens : t.person = p /\ t.id = n}
MutWithoutNone(p, n) == db.tokens
WithoutToken(p, n) == db.tokens \ TokenRows(p, n)

-----------------------------------------------------------------------------
(* Requests                                                                 *)

Busy(w) == request[w].kind # "none"
At(w, pc) == request[w].pc = pc
Kind(w) == request[w].kind
Person(w) == request[w].person
Step(w, next) == request' = [request EXCEPT ![w] = next]
Go(w, pc) == Step(w, [request[w] EXCEPT !.pc = pc])

\* No callback has come for a token yet.
Unspent(n) ==
    /\ \A w \in Workers : Kind(w) = "emailCallback" => request[w].token # n
    /\ \A a \in answered : a.kind = "emailCallback" => a.token # n

\* A request arrives.  It is alone while no other one is being handled.
Receive(w, p, kind) ==
    LET carried == cookie[p]
        alone == \A v \in Workers : ~Busy(v)
        first == CASE kind = "credentials"   -> "getUser"
                   [] kind = "emailSignIn"   -> "createToken"
                   [] kind = "emailCallback" -> "useToken"
                   [] kind = "oauthCallback" -> "findByAccount"
                   [] kind = "signOut"       ->
                          IF carried.access = None THEN "clear" ELSE "deleteSession"
                   [] kind = "session"       ->      \* hydrateSessionManager
                          IF carried.access = None THEN "clear" ELSE "setAccess"
        new(n) == [Idle EXCEPT !.kind = kind, !.pc = first, !.person = p,
                     !.carries = carried, !.token = n, !.alone = alone,
                     !.fresh = Unspent(n),
                     !.user = IF kind = "credentials" THEN <<"own", p>> ELSE None]
    IN  /\ ~Busy(w) /\ received < deployment.requests
        /\ received' = received + 1
        /\ \E n \in IF kind = "emailCallback" THEN mailbox[p] ELSE {0} :
             request' = [v \in Workers |->
                 IF v = w THEN new(n)
                 ELSE IF Busy(v) THEN [request[v] EXCEPT !.alone = FALSE]
                 ELSE request[v]]
    /\ UNCHANGED <<deployment, db, session, cookie, mailbox, lapsed, issued, faults,
                   answered, halfLinked>>

\* The handler answers; signing in with credentials and signing out set both
\* cookies from the state of the session manager.
Answer(w, status) ==
    /\ request' = [request EXCEPT ![w] = Idle]
    /\ answered' = answered \cup
         {[kind |-> Kind(w), person |-> Person(w), status |-> status,
           carried |-> request[w].carries, state |-> request[w].state,
           token |-> request[w].token, user |-> request[w].user,
           alone |-> request[w].alone,
           fresh |-> request[w].fresh /\ request[w].token \notin lapsed,
           faultless |-> status # "failed" /\ faults = 0, refreshable |-> session.refresh # None,
           halfLinked |-> Person(w) \in halfLinked]}

Unanswered == UNCHANGED <<answered, cookie>>

-----------------------------------------------------------------------------
(* Finding, creating and linking the user                                   *)

\* Credentials: does the user that authorize() returned exist?
GetUser(w) ==
    /\ At(w, "getUser")
    /\ Go(w, IF UserOf(request[w].user) # {} THEN "setAccess" ELSE "createUser")
    /\ Unanswered
    /\ UNCHANGED <<deployment, db, session, mailbox, lapsed, issued, received, faults,
                   halfLinked>>

\* OAuth: the provider has vouched for the account.  The pureq adapter's
\* query names an alias that the compiled SQL does not declare.
FindByAccount(w) ==
    /\ At(w, "findByAccount")
    /\ IF Adapter = "pureq" THEN Answer(w, "error") /\ UNCHANGED cookie
       ELSE /\ Unanswered
            /\ \/ \E a \in AccountsOf(Person(w)) : \E u \in UserOf(a.user) :
                    Step(w, [request[w] EXCEPT !.pc = "setAccess", !.user = u.id])
               \/ /\ \A a \in AccountsOf(Person(w)) : UserOf(a.user) = {}
                  /\ Go(w, "findByEmail")
    /\ UNCHANGED <<deployment, db, session, mailbox, lapsed, issued, received, faults,
                   halfLinked>>

\* By e-mail: OAuth links an existing user only when that is allowed.
FindByEmail(w) ==
    LET found == UsersWith(Person(w)) IN
    /\ At(w, "findByEmail")
    /\ \/ found = {} /\ Go(w, "createUser") /\ Unanswered
       \/ \E u \in found :
            /\ Kind(w) = "emailCallback" \/ deployment.linking
            /\ Step(w, [request[w] EXCEPT !.user = u.id,
                 !.pc = IF Kind(w) = "emailCallback" THEN "setAccess" ELSE "linkAccount"])
            /\ Unanswered
       \/ /\ found # {} /\ Kind(w) = "oauthCallback" /\ ~deployment.linking
          /\ Answer(w, "refused") /\ UNCHANGED cookie
    /\ UNCHANGED <<deployment, db, session, mailbox, lapsed, issued, received, faults,
                   halfLinked>>

CreateUser(w) ==
    LET user == NewUser(w) IN
    /\ At(w, "createUser")
    /\ IF UserConflicts(user)
       THEN /\ Answer(w, "error")
            /\ UNCHANGED <<db, cookie, issued, halfLinked>>
       ELSE /\ db' = [db EXCEPT !.users = @ \cup {user}]
            /\ issued' = issued + 1
            /\ halfLinked' = IF Kind(w) = "oauthCallback"
                             THEN halfLinked \cup {Person(w)} ELSE halfLinked
            /\ Step(w, [request[w] EXCEPT
                 !.user = IF Kind(w) = "credentials" THEN @ ELSE user.id,
                 !.pc = IF Kind(w) = "oauthCallback" THEN "linkAccount" ELSE "setAccess"])
            /\ Unanswered
    /\ UNCHANGED <<deployment, session, mailbox, lapsed, received, faults>>

LinkAccount(w) ==
    LET account == [person |-> Person(w), user |-> request[w].user] IN
    /\ At(w, "linkAccount")
    /\ IF AccountConflicts(account)
       THEN Answer(w, "error") /\ UNCHANGED <<db, cookie, halfLinked>>
       ELSE /\ db' = [db EXCEPT !.accounts = Linked(account)]
            /\ halfLinked' = halfLinked \ {Person(w)}
            /\ Go(w, "setAccess")
            /\ Unanswered
    /\ UNCHANGED <<deployment, session, mailbox, lapsed, issued, received, faults>>

-----------------------------------------------------------------------------
(* Verification tokens                                                      *)

\* Sign in by e-mail: the token is stored, and then mailed.
CreateToken(w) ==
    /\ At(w, "createToken")
    /\ issued' = issued + 1
    /\ db' = [db EXCEPT !.tokens = @ \cup
                {[person |-> Person(w), id |-> issued + 1]}]
    /\ Step(w, [request[w] EXCEPT !.pc = "send", !.token = issued + 1])
    /\ Unanswered
    /\ UNCHANGED <<deployment, session, mailbox, lapsed, received, faults, halfLinked>>

Send(w) ==
    /\ At(w, "send")
    /\ mailbox' = [mailbox EXCEPT ![Person(w)] = @ \cup {request[w].token}]
    /\ Answer(w, "ok")
    /\ UNCHANGED <<deployment, db, session, cookie, lapsed, issued, received, faults,
                   halfLinked>>

\* useVerificationToken: at once in memory; elsewhere the row is selected and
\* the DELETE is another statement, whose count nobody looks at.
UseToken(w) ==
    LET rows == TokenRows(Person(w), request[w].token) IN
    /\ At(w, "useToken")
    /\ IF rows = {} THEN Answer(w, "unauthorized") /\ UNCHANGED <<db, cookie>>
       ELSE IF Adapter = "memory"
       THEN /\ db' = [db EXCEPT !.tokens = WithoutToken(Person(w), request[w].token)]
            /\ IF request[w].token \in lapsed
               THEN Answer(w, "unauthorized") /\ UNCHANGED cookie
               ELSE Go(w, "findByEmail") /\ Unanswered
       ELSE Go(w, "deleteToken") /\ Unanswered /\ UNCHANGED db
    /\ UNCHANGED <<deployment, session, mailbox, lapsed, issued, received, faults,
                   halfLinked>>

\* Only the SQL adapter compares the expiry, with the clock after the DELETE.
DeleteToken(w) ==
    /\ At(w, "deleteToken")
    /\ db' = [db EXCEPT !.tokens = WithoutToken(Person(w), request[w].token)]
    /\ \/ /\ Adapter = "sql" /\ request[w].token \in lapsed
          /\ Answer(w, "unauthorized") /\ UNCHANGED cookie
       \/ /\ Adapter = "pureq" \/ request[w].token \notin lapsed
          /\ Go(w, "findByEmail") /\ Unanswered
    /\ UNCHANGED <<deployment, session, mailbox, lapsed, issued, received, faults,
                   halfLinked>>

\* An hour passes.
Lapse(n) ==
    /\ n \notin lapsed
    /\ lapsed' = lapsed \cup {n}
    /\ UNCHANGED <<deployment, db, session, request, cookie, mailbox, issued,
                   received, faults, answered, halfLinked>>

-----------------------------------------------------------------------------
(* The shared session manager                                               *)

\* What follows an access token that comes without a refresh token.
Stored(w) == IF Kind(w) = "session" THEN "readAccess" ELSE "createSession"
AfterAccess(w) ==
    IF deployment.policy = "require" THEN "requireRefresh" ELSE Stored(w)

\* setTokens of the request's own tokens: the user's id for credentials, a
\* random token for the callbacks, the cookies for a session request.
SetAccess(w) ==
    /\ At(w, "setAccess")
    /\ IF Kind(w) \in {"credentials", "session"}
       THEN /\ session' = [session EXCEPT !.access =
                  IF Kind(w) = "session" THEN request[w].carries.access
                  ELSE <<"session", request[w].user>>]
            /\ Go(w, CASE Kind(w) = "credentials" \/ request[w].carries.refresh # None
                               -> "setRefresh"
                       [] OTHER -> AfterAccess(w))
            /\ UNCHANGED issued
       ELSE /\ session' = [session EXCEPT !.access = <<"random", issued + 1>>]
            /\ issued' = issued + 1
            /\ Step(w, [request[w] EXCEPT !.state.access = <<"random", issued + 1>>,
                                              !.pc = AfterAccess(w)])
    /\ Unanswered
    /\ UNCHANGED <<deployment, db, mailbox, lapsed, received, faults, halfLinked>>

SetRefresh(w) ==
    /\ At(w, "setRefresh")
    /\ session' = [session EXCEPT !.refresh =
          IF Kind(w) = "session" THEN request[w].carries.refresh
          ELSE <<"refresh", request[w].user>>]
    /\ Go(w, "readAccess")
    /\ Unanswered
    /\ UNCHANGED <<deployment, db, mailbox, lapsed, issued, received, faults, halfLinked>>

\* The callbacks bring no refresh token: under require-refresh-token they
\* depend on the one that is there, whosever it is.
RequireRefresh(w) ==
    /\ At(w, "requireRefresh")
    /\ IF session.refresh = None THEN Answer(w, "error") /\ UNCHANGED cookie
       ELSE Go(w, Stored(w)) /\ Unanswered
    /\ UNCHANGED <<deployment, db, session, mailbox, lapsed, issued, received, faults,
                   halfLinked>>

CreateSession(w) ==
    /\ At(w, "createSession")
    /\ db' = [db EXCEPT !.sessions = @ \cup
                {[token |-> request[w].state.access, user |-> request[w].user,
                  person |-> Person(w)]}]
    /\ Answer(w, "ok")
    /\ UNCHANGED <<deployment, session, cookie, mailbox, lapsed, issued, received, faults,
                   halfLinked>>

\* Signing out deletes the row of the token without its "session:" prefix,
\* and logs the shared session manager out.
DeleteSession(w) ==
    /\ At(w, "deleteSession")
    /\ db' = [db EXCEPT !.sessions =
          {s \in @ : s.token # request[w].carries.access}]
    /\ Go(w, "clear")
    /\ Unanswered
    /\ UNCHANGED <<deployment, session, mailbox, lapsed, issued, received, faults, halfLinked>>

\* As it would be if a session request without cookies left the store alone.
MutKeeps(w) == IF Kind(w) = "session" THEN session ELSE [session EXCEPT !.access = None]
ClearedAccess(w) == [session EXCEPT !.access = None]

Clear(w) ==
    /\ At(w, "clear") \/ At(w, "clearRefresh")
    /\ IF At(w, "clear")
       THEN session' = ClearedAccess(w) /\ Go(w, "clearRefresh")
       ELSE session' = [session EXCEPT !.refresh = None] /\ Go(w, "readAccess")
    /\ Unanswered
    /\ UNCHANGED <<deployment, db, mailbox, lapsed, issued, received, faults, halfLinked>>

\* getState: two reads, and whatever the store holds by then.
ReadAccess(w) ==
    /\ At(w, "readAccess")
    /\ Step(w, [request[w] EXCEPT !.pc = "readRefresh", !.state.access = session.access])
    /\ Unanswered
    /\ UNCHANGED <<deployment, db, session, mailbox, lapsed, issued, received, faults,
                   halfLinked>>

ReadRefresh(w) ==
    LET read == [request[w] EXCEPT !.pc = "respond", !.state.refresh = session.refresh] IN
    /\ At(w, "readRefresh")
    /\ Step(w, read)
    /\ Unanswered
    /\ UNCHANGED <<deployment, db, session, mailbox, lapsed, issued, received, faults,
                   halfLinked>>

Respond(w) ==
    /\ At(w, "respond")
    /\ Answer(w, "ok")
    /\ cookie' = IF Kind(w) = "session" THEN cookie
                 ELSE [cookie EXCEPT ![Person(w)] = request[w].state]
    /\ UNCHANGED <<deployment, db, session, mailbox, lapsed, issued, received, faults,
                   halfLinked>>

-----------------------------------------------------------------------------
DatabaseSteps == {"getUser", "findByAccount", "findByEmail", "createUser",
                  "linkAccount", "createToken", "useToken", "deleteToken",
                  "createSession", "deleteSession"}

\* A database call fails: the handler gives up where it is.
DatabaseFails(w) ==
    /\ request[w].pc \in DatabaseSteps /\ faults < MaxFaults
    /\ faults' = faults + 1
    /\ Answer(w, "failed")
    /\ UNCHANGED <<deployment, db, session, cookie, mailbox, lapsed, issued, received,
                   halfLinked>>

Handle(w) ==
    \/ GetUser(w) \/ FindByAccount(w) \/ FindByEmail(w) \/ CreateUser(w)
    \/ LinkAccount(w) \/ CreateToken(w) \/ Send(w) \/ UseToken(w)
    \/ DeleteToken(w) \/ SetAccess(w) \/ SetRefresh(w) \/ RequireRefresh(w)
    \/ CreateSession(w) \/ DeleteSession(w) \/ Clear(w) \/ ReadAccess(w)
    \/ ReadRefresh(w) \/ Respond(w) \/ DatabaseFails(w)

Next ==
    \/ \E w \in Workers : Handle(w)
    \/ \E w \in Workers, p \in Persons, kind \in deployment.kinds : Receive(w, p, kind)
    \/ \E p \in Persons : \E n \in mailbox[p] : Lapse(n)

Spec == Init /\ [][Next]_vars

-----------------------------------------------------------------------------
(* Properties                                                               *)

Tokens == {"none", "session", "refresh", "random", "own", "new"}
Tagged(t) == t = None \/ (Len(t) = 2 /\ t[1] \in Tokens)

\* The type of the state: what a deployment stores is tagged with where it is from,
\* and no adapter leaves a row that none of its queries could have made.
TypeOK ==
    /\ deployment \in Deployments
    /\ \A u \in db.users : u.email \in Persons /\ u.id[1] \in {"own", "new"}
    /\ \A a \in db.accounts : a.person \in Persons /\ a.user[1] = "new"
    /\ \A s \in db.sessions : s.person \in Persons /\ s.token[1] = "random"
    /\ db.tokens \subseteq [person : Persons, id : 1 .. issued]
    /\ \A half \in {"access", "refresh"} :
          /\ Tagged(session[half])
          /\ \A p \in Persons : Tagged(cookie[p][half])
    /\ \A w \in Workers : request[w].person \in Persons \cup {"none"}
    /\ \A p \in Persons : mailbox[p] \subseteq 1 .. issued
    /\ lapsed \subseteq 1 .. issued /\ issued \in Nat
    /\ received \in 0 .. deployment.requests /\ faults \in 0 .. MaxFaults
    /\ \A a \in answered : a.status \in {"ok", "unauthorized", "refused", "error", "failed"}
    /\ halfLinked \subseteq Persons

\* However many requests the shared session manager served before, and
\* although nothing of it is reset between them, a request that is handled
\* alone is answered with the session of its own browser: the one it has just
\* signed in with, the one its cookies carry, or none.  (A browser that has
\* only an access token is answered with whatever refresh token is there.)
\* (core/index.ts 157-177,
\* 393-437; bridge/index.ts 170-183).
AnswersOwnSession ==
    \A a \in answered :
        a.alone /\ a.status = "ok" =>
            CASE a.kind = "credentials" ->
                     a.state = [access  |-> <<"session", <<"own", a.person>>>>,
                                refresh |-> <<"refresh", <<"own", a.person>>>>]
              [] a.kind = "session"     ->
                     IF a.carried.access = None THEN a.state = NoTokens
                     ELSE /\ a.state.access = a.carried.access
                          /\ a.carried.refresh \in {None, a.state.refresh}
              [] a.kind = "signOut"     -> a.state = NoTokens
              [] OTHER                  -> TRUE

\* The type of the state, and whose session an answer carries.
Safety == TypeOK /\ AnswersOwnSession

\* A verification token signs in once: more than once only where reading and
\* deleting it are two statements, and then only for callbacks that overlapped
\* (adapter/index.ts 100-106, sql.ts 306-330, pureq.ts 223-242).
TokenSpentOnce ==
    \A a \in answered :
        a.kind = "emailCallback" /\ a.status = "ok" /\ (a.alone \/ Adapter = "memory")
        => /\ \A w \in Workers :
                 Kind(w) = "emailCallback" /\ request[w].token = a.token
                 => At(w, "useToken")
           /\ \A b \in answered :
                 b.kind = "emailCallback" /\ b.status = "ok" /\ b.token = a.token
                 => b = a

\* A token that was mailed and neither used nor expired signs its owner in,
\* however many others were mailed to them, as long as the callback is alone,
\* no database call fails and the rotation policy can be met
\* (core/index.ts 232-268; sql.ts 306-330).
FreshTokenSignsIn ==
    \A a \in answered :
        /\ a.kind = "emailCallback" /\ a.fresh /\ a.alone /\ a.faultless
        /\ deployment.policy = "require" => a.refreshable
        => a.status = "ok"

\* A token that was mailed signs its owner in, and does so once.
TokenSignsInOnce == TokenSpentOnce /\ FreshTokenSignsIn

\* The account table never strands a person: a callback is refused because
\* its e-mail address belongs to a user without that account, and that user
\* was made by another way of signing in, or by an earlier callback that
\* failed, or was overtaken, between creating and linking it
\* (core/index.ts 341-367).
RefusalExplained ==
    \A a \in answered :
        a.status = "refused" /\ a.alone /\ deployment.kinds \cap {"credentials", "emailCallback"} = {}
        => a.halfLinked
=============================================================================
