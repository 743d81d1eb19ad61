---------------------------- MODULE AuthSession ----------------------------
(***************************************************************************)
(* The session managers of several tabs (auth/src/session/index.ts) over   *)
(* their token stores (storage/index.ts), the UI store that follows one    *)
(* (hooks/index.ts), the middleware that refreshes before a request        *)
(* (middleware/authSession.ts) and the messages the managers broadcast.    *)
(*                                                                         *)
(* A token is the number of its pair: pair n was the n-th one issued.  0 is *)
(* null.  A pair may come without a refresh token.  `jar` is the storage   *)
(* the tabs share, `own` what each tab keeps in memory.  Every await of    *)
(* the code ends a step, so calls of one tab and of different tabs         *)
(* interleave between any two accesses to a store.                         *)
(***************************************************************************)
EXTENDS Integers, Sequences, FiniteSets, SessionExporter

CONSTANTS
    Tabs,                \* session managers, one per tab
    Callers,             \* concurrent calls
    Handlers,            \* concurrent handlers of broadcast messages
    Owner,               \* the tab of each caller and handler
    Scenarios,           \* stores, policy and secret a deployment may choose,
                         \* the calls it makes, and bounds on them and the clock
    Life,                \* life of an access token
    Threshold,           \* thresholdMs of needsRefresh
    MinRefreshInterval,  \* minRefreshIntervalMs
    SlidingWindow,       \* slidingWindowMs
    IdleTimeout          \* idleTimeoutMs

Tasks == Callers \cup Handlers
Halves == {"access", "refresh"}

VARIABLES
    deployment,   \* the scenario: a store per half, policy, shared secret
    jar, own,     \* contents of the shared and of the private stores
    now, expiry,  \* the clock; expiry[n] is exp of access token n
    call,         \* the calls and message handlers under way
    lock,         \* refreshLock of each tab: the task that refreshes, or none
    lastRefreshAt, lastAccessAt,
    disposed,     \* tabs whose manager was disposed
    mail,         \* broadcast messages not yet handled
    snapshot,     \* what each tab's UI store shows
    made,         \* calls made so far
    refreshes,    \* history: when each tab called refresh()
    promised,     \* history: the session the completed changes amount to
    overlapped,   \* history: two changes of the session overlapped
    behind        \* history: tabs that were not told of a change

store == <<jar, own>>
history == <<refreshes, promised, overlapped, behind>>
vars == <<deployment, jar, own, now, expiry, call, lock, lastRefreshAt,
          lastAccessAt, disposed, mail, snapshot, made, history, exporter>>

None == "none"
NoSession == [access |-> 0, refresh |-> 0]
Rest == [op |-> None, pc |-> "rest", tokens |-> 0, paired |-> FALSE,
         policy |-> None, access |-> 0, refresh |-> 0, due |-> FALSE,
         dirty |-> FALSE]

Init ==
    /\ deployment \in Scenarios
    /\ jar = [access |-> 1, refresh |-> IF deployment.store.refresh = "absent"
                                        THEN 0 ELSE 1]
    /\ own = [t \in Tabs |-> jar]
    /\ now = 0
    /\ expiry = <<Life>>
    /\ call = [c \in Tasks |-> Rest]
    /\ lock = [t \in Tabs |-> None]
    /\ lastRefreshAt = [t \in Tabs |-> -MinRefreshInterval]
    /\ lastAccessAt = [t \in Tabs |-> 0]
    /\ disposed = {}
    /\ mail = {}
    /\ snapshot = [t \in Tabs |-> jar]
    /\ made = 0
    /\ refreshes = [t \in Tabs |-> <<>>]
    /\ promised = jar
    /\ overlapped = FALSE
    /\ behind = {}
    /\ exporter = EmptyExporter

-----------------------------------------------------------------------------
(* The stores.  A deployment picks a store per half: authHybridStore, or    *)
(* the same one twice.                                                      *)

\* createWebStorage: what every tab of the browser sees.
WebStorage(t, half) == jar[half]
\* authCookieStore: the cookie or else the copy kept in memory.
CookieStore(t, half) == IF jar[half] # 0 THEN jar[half] ELSE own[t][half]
\* authMemoryStore: this tab's own.
MemoryStore(t, half) == own[t][half]
\* authCustomStore without callbacks for a half: there is never a token in it.
CustomStore(t, half) == 0

\* get() and getRefresh(), each of the store its half is delegated to
Get(t, half) ==
    CASE deployment.store[half] = "web"    -> WebStorage(t, half)
      [] deployment.store[half] = "cookie" -> CookieStore(t, half)
      [] deployment.store[half] = "memory" -> MemoryStore(t, half)
      [] deployment.store[half] = "absent" -> CustomStore(t, half)

\* set(), setRefresh(), and with 0 clear() and clearRefresh(): setCookie and
\* clearCookie change the browser's cookies, as localStorage does its items
SetShared(half, n) ==
    jar' = IF deployment.store[half] \in {"web", "cookie"}
           THEN [jar EXCEPT ![half] = n] ELSE jar
SetOwn(t, half, n) ==
    own' = IF deployment.store[half] \in {"cookie", "memory"}
           THEN [own EXCEPT ![t][half] = n] ELSE own
Set(t, half, n) == SetShared(half, n) /\ SetOwn(t, half, n)

View(t) == [half \in Halves |-> Get(t, half)]

\* A task writes one half of its tab's store: every other task under way, and
\* every message not yet handled, now works on an older session.
Put(c, half, n, next) ==
    /\ Set(Owner[c], half, n)
    /\ call' = [d \in Tasks |-> IF d = c THEN next
                                ELSE [call[d] EXCEPT !.dirty = TRUE]]
    /\ mail' = {[m EXCEPT !.dirty = TRUE] : m \in mail}

-----------------------------------------------------------------------------
(* Calls                                                                    *)

Step(c, next) == call' = [call EXCEPT ![c] = next]
Go(c, pc) == Step(c, [call[c] EXCEPT !.pc = pc])
Resting(c) == call[c].pc = "rest"
At(c, pc) == call[c].pc = pc

\* notify: the exporter hears of an event, after dispose() too (a call that was under
\* way goes on), and the tab's UI store, until dispose() forgets the listeners.
Notify(t, shown, stale) ==
    /\ exporter' = IF t \in deployment.audited THEN Audited(exporter) ELSE exporter
    /\ snapshot' = IF t \in disposed THEN snapshot
                   ELSE [snapshot EXCEPT ![t] = shown]
    /\ overlapped' = (overlapped \/ stale)

\* As it would be if the message left out the policy of the rotation.
MutForgetsPolicy(c, kind) ==
    mail' = mail \cup
        {[to |-> t, from |-> Owner[c], kind |-> kind, tokens |-> call[c].tokens,
          paired |-> call[c].paired, policy |-> deployment.policy,
          dirty |-> call[c].dirty] : t \in Tabs \ {Owner[c]}}

\* broadcast(): one message for each other tab, signed with this tab's secret.
Broadcast(c, kind) ==
    mail' = mail \cup
        {[to |-> t, from |-> Owner[c], kind |-> kind, tokens |-> call[c].tokens,
          paired |-> call[c].paired, policy |-> call[c].policy,
          dirty |-> call[c].dirty] : t \in Tabs \ {Owner[c]}}

\* A change this tab keeps to itself leaves the other tabs behind.
Untold(c) == behind' = behind \cup (Tabs \ {Owner[c]})
Told(c) == behind' = IF deployment.signed THEN behind
                     ELSE behind \cup (Tabs \ {Owner[c]})

\* setTokens, rotateTokens, clear, logout, refreshIfNeeded, regenerateSession,
\* getState, the UI store's refresh() and the authSession middleware.  New
\* tokens come from the server, with or without a refresh token.
Begin(c, op) ==
    LET t == Owner[c]
        reads == op \in {"getState", "storeRefresh", "authSession"}
        issued == op \in {"setTokens", "rotateTokens", "regenerate"}
        new == [Rest EXCEPT !.op = op,
                  !.pc = CASE op \in {"setTokens", "rotateTokens"} -> "set"
                           [] op \in {"clear", "logout", "regenerate"} -> "clear"
                           [] OTHER -> IF reads THEN "get" ELSE "check",
                  !.policy = deployment.policy]
    IN  /\ Resting(c) /\ made < deployment.calls
        /\ t \notin disposed                           \* assertActive
        /\ made' = made + 1
        /\ lastAccessAt' = IF reads THEN [lastAccessAt EXCEPT ![t] = now]
                           ELSE lastAccessAt
        /\ IF issued
           THEN /\ expiry' = Append(expiry, now + Life)
                /\ \E paired \in BOOLEAN :
                     \E policy \in IF op = "rotateTokens" THEN deployment.policies
                                   ELSE {deployment.policy} :
                       Step(c, [new EXCEPT !.tokens = Len(expiry) + 1,
                                           !.paired = paired, !.policy = policy])
           ELSE Step(c, new) /\ UNCHANGED expiry
    /\ UNCHANGED <<deployment, store, now, lock, lastRefreshAt, disposed, mail,
                   snapshot, history, exporter>>

\* readState: the access token, then the refresh token, then its claims.
ReadAccess(c) ==
    /\ call[c].pc \in {"get", "check", "reread"}
    /\ Step(c, [call[c] EXCEPT !.access = Get(Owner[c], "access"),
                  !.pc = CASE @ = "get" -> "getRefresh"
                           [] @ = "check" -> "checkRefresh"
                           [] @ = "reread" -> "rereadRefresh"])
    /\ UNCHANGED <<deployment, store, now, expiry, lock, lastRefreshAt,
                   lastAccessAt, disposed, mail, snapshot, made, history, exporter>>

ReadRefresh(c) ==
    /\ call[c].pc \in {"getRefresh", "checkRefresh", "rereadRefresh"}
    /\ Step(c, [call[c] EXCEPT !.refresh = Get(Owner[c], "refresh"),
                  !.pc = CASE @ = "getRefresh" -> "got"
                           [] @ = "checkRefresh" -> "checked"
                           [] @ = "rereadRefresh" -> "rotated"])
    /\ UNCHANGED <<deployment, store, now, expiry, lock, lastRefreshAt,
                   lastAccessAt, disposed, mail, snapshot, made, history, exporter>>

StateRead(c) == [access |-> call[c].access, refresh |-> call[c].refresh]

\* A call that ends in getState: the UI store shows what it read; the
\* middleware goes on to refreshIfNeeded.
GotState(c, state) ==
    CASE call[c].op = "storeRefresh" ->
           /\ Step(c, Rest)
           /\ snapshot' = IF Owner[c] \in disposed THEN snapshot
                          ELSE [snapshot EXCEPT ![Owner[c]] = state]
           /\ overlapped' = (overlapped \/ call[c].dirty \/ state # StateRead(c))
      [] call[c].op = "authSession" /\ Owner[c] \notin disposed ->
           /\ Step(c, [call[c] EXCEPT !.op = "refreshIfNeeded", !.pc = "check"])
           /\ UNCHANGED <<snapshot, overlapped>>
      [] OTHER -> Step(c, Rest) /\ UNCHANGED <<snapshot, overlapped>>

\* getState() after readState: the idle timeout compares the clock with the
\* access that this very call recorded; the sliding window stores the token
\* that was read once more.
GetState(c) ==
    LET t == Owner[c]
        idle == now - lastAccessAt[t] > IdleTimeout
        remaining == IF call[c].access = 0 THEN 0
                     ELSE expiry[call[c].access] - now
        slides == remaining > 0 /\ remaining < SlidingWindow
    IN  /\ At(c, "got")
        /\ IF idle THEN GotState(c, NoSession)
           ELSE IF slides THEN Go(c, "slide") /\ UNCHANGED <<snapshot, overlapped>>
           ELSE GotState(c, StateRead(c))
    /\ UNCHANGED <<deployment, store, now, expiry, lock, lastRefreshAt,
                   lastAccessAt, disposed, mail, made, refreshes, promised,
                   behind, exporter>>

Slide(c) ==
    /\ At(c, "slide")
    /\ Put(c, "access", call[c].access, [call[c] EXCEPT !.pc = "slid"])
    /\ overlapped' = (overlapped \/ call[c].dirty)
    /\ UNCHANGED <<deployment, now, expiry, lock, lastRefreshAt, lastAccessAt,
                   disposed, snapshot, made, refreshes, promised, behind, exporter>>

Slid(c) ==
    /\ At(c, "slid")
    /\ GotState(c, StateRead(c))
    /\ UNCHANGED <<deployment, store, now, expiry, lock, lastRefreshAt,
                   lastAccessAt, disposed, mail, made, refreshes, promised,
                   behind, exporter>>

-----------------------------------------------------------------------------
(* refreshIfNeeded                                                          *)

\* needsRefresh() answers, and refreshIfNeeded resumes in a later step.
NeedsRefresh(c) ==
    /\ At(c, "checked")
    /\ Step(c, [call[c] EXCEPT !.pc = "decide",
                  !.due = call[c].access # 0
                          /\ expiry[call[c].access] - now <= Threshold])
    /\ UNCHANGED <<deployment, store, now, expiry, lock, lastRefreshAt,
                   lastAccessAt, disposed, mail, snapshot, made, history, exporter>>

\* As it would be with the interval alone, or if those who joined were forgotten.
MutUnlocked(t) == now - lastRefreshAt[t] >= MinRefreshInterval
MutForgetsJoined(c) ==
    /\ lock' = [lock EXCEPT ![Owner[c]] = None]
    /\ call' = [call EXCEPT ![c] = Rest]

\* May this tab call refresh() now?  (refreshLock and SEC-M3)
MayRefresh(t) ==
    /\ lock[t] = None
    /\ now - lastRefreshAt[t] >= MinRefreshInterval

\* Join the refresh under way, start one, or fall back to getState().
RefreshIfNeeded(c) ==
    LET t == Owner[c] IN
    /\ At(c, "decide")
    /\ \/ /\ call[c].due /\ lock[t] # None
          /\ Go(c, "join")
          /\ UNCHANGED <<lock, lastRefreshAt, lastAccessAt, refreshes>>
       \/ /\ call[c].due /\ MayRefresh(t)
          /\ lock' = [lock EXCEPT ![t] = c]
          /\ lastRefreshAt' = [lastRefreshAt EXCEPT ![t] = now]
          /\ refreshes' = [refreshes EXCEPT ![t] = Append(@, now)]
          /\ Step(c, [call[c] EXCEPT !.pc = "refreshing", !.dirty = FALSE])
          /\ UNCHANGED lastAccessAt
       \/ /\ ~call[c].due \/ (lock[t] = None /\ ~MayRefresh(t))
          /\ UNCHANGED <<lock, lastRefreshAt, refreshes>>
          /\ IF t \in disposed
             THEN Step(c, Rest) /\ UNCHANGED lastAccessAt
             ELSE /\ Step(c, [call[c] EXCEPT !.pc = "get", !.dirty = FALSE])
                  /\ lastAccessAt' = [lastAccessAt EXCEPT ![t] = now]
    /\ UNCHANGED <<deployment, store, now, expiry, disposed, mail, snapshot,
                   made, promised, overlapped, behind, exporter>>

\* refreshLock settles: the lock is free and everyone who joined has the answer.
Settled(c) ==
    /\ lock' = [lock EXCEPT ![Owner[c]] = None]
    /\ call' = [d \in Tasks |->
          IF d = c \/ (Owner[d] = Owner[c] /\ At(d, "join")) THEN Rest
          ELSE call[d]]

\* The callback refresh() returns new tokens, and rotateTokens stores them
\* unless the manager was disposed meanwhile: then they are lost.
RefreshAnswers(c) ==
    /\ At(c, "refreshing")
    /\ expiry' = Append(expiry, now + Life)
    /\ IF Owner[c] \in disposed
       THEN Settled(c) /\ overlapped' = TRUE
       ELSE /\ \E paired \in BOOLEAN :
                 Step(c, [call[c] EXCEPT !.pc = "set", !.paired = paired,
                                         !.tokens = Len(expiry) + 1])
            /\ UNCHANGED <<lock, overlapped>>
    /\ UNCHANGED <<deployment, store, now, lastRefreshAt, lastAccessAt, disposed,
                   mail, snapshot, made, refreshes, promised, behind, exporter>>

RefreshFails(c) ==
    /\ At(c, "refreshing")
    /\ Settled(c)
    /\ UNCHANGED <<deployment, store, now, expiry, lastRefreshAt, lastAccessAt,
                   disposed, mail, snapshot, made, history, exporter>>

-----------------------------------------------------------------------------
(* rotateTokensInternal                                                     *)

\* What the session is once tokens n are in place.
Rotated(session, c) ==
    [access  |-> call[c].tokens,
     refresh |-> IF deployment.store.refresh = "absent" THEN 0
                 ELSE IF call[c].paired THEN call[c].tokens
                 ELSE IF call[c].policy = "clear" THEN 0 ELSE session.refresh]

SetAccess(c) ==
    /\ At(c, "set")
    /\ Put(c, "access", call[c].tokens,
           [call[c] EXCEPT !.pc =
               IF call[c].paired THEN "setRefresh"
               ELSE CASE call[c].policy = "preserve" -> "reread"
                      [] call[c].policy = "clear"    -> "dropRefresh"
                      [] call[c].policy = "require"  -> "require"])
    /\ promised' = IF c \in Callers THEN Rotated(promised, c) ELSE promised
    /\ overlapped' = (overlapped \/ call[c].dirty)
    /\ UNCHANGED <<deployment, now, expiry, lock, lastRefreshAt, lastAccessAt,
                   disposed, snapshot, made, refreshes, behind, exporter>>

SetRefresh(c) ==
    /\ call[c].pc \in {"setRefresh", "dropRefresh"}
    /\ Put(c, "refresh", IF At(c, "setRefresh") THEN call[c].tokens ELSE 0,
           [call[c] EXCEPT !.pc = "reread"])
    /\ overlapped' = (overlapped \/ call[c].dirty)
    /\ UNCHANGED <<deployment, now, expiry, lock, lastRefreshAt, lastAccessAt,
                   disposed, snapshot, made, refreshes, promised, behind, exporter>>

\* A call gives up: a refresh lets everyone who joined it fail too.
Throws(c) ==
    IF lock[Owner[c]] = c THEN Settled(c) ELSE Step(c, Rest) /\ UNCHANGED lock

\* The policy requires a refresh token and none is stored: the call fails,
\* with the new access token in place and nobody told.  A handler reports
\* the failure as an event.
RequireRefresh(c) ==
    /\ At(c, "require")
    /\ IF Get(Owner[c], "refresh") # 0
       THEN Go(c, "reread") /\ UNCHANGED <<lock, behind, snapshot, overlapped, exporter>>
       ELSE /\ Throws(c)
            /\ behind' = Tabs                \* even this tab's UI store
            /\ IF c \in Handlers
               THEN Notify(Owner[c], snapshot[Owner[c]], FALSE)
               ELSE UNCHANGED <<snapshot, overlapped, exporter>>
    /\ UNCHANGED <<deployment, store, now, expiry, lastRefreshAt, lastAccessAt,
                   disposed, mail, made, refreshes, promised>>

\* The tokens are in place and read back: tell the listeners and, unless this
\* is regenerateSession or a message's handler, the other tabs.
RotationEnds(c) ==
    LET broadcasts == c \in Callers /\ call[c].op # "regenerate" IN
    /\ At(c, "rotated")
    /\ Notify(Owner[c], StateRead(c), call[c].dirty)
    /\ IF broadcasts THEN Broadcast(c, "rotate") /\ Told(c)
       ELSE UNCHANGED mail /\ (IF c \in Callers THEN Untold(c) ELSE UNCHANGED behind)
    /\ IF call[c].op \in {"refreshIfNeeded", "authSession"}
       THEN Go(c, "refreshed") ELSE Step(c, Rest)
    /\ UNCHANGED <<deployment, store, now, expiry, lock, lastRefreshAt,
                   lastAccessAt, disposed, made, refreshes, promised>>

\* session-refreshed: the refresh is over, and its lock with it.
Refreshed(c) ==
    /\ At(c, "refreshed")
    /\ Notify(Owner[c], StateRead(c), call[c].dirty)
    /\ Settled(c)
    /\ UNCHANGED <<deployment, store, now, expiry, lastRefreshAt, lastAccessAt,
                   disposed, mail, made, refreshes, promised, behind>>

-----------------------------------------------------------------------------
(* clear, logout and regenerateSession; dispose; broadcast messages         *)

ClearAccess(c) ==
    /\ At(c, "clear")
    /\ Put(c, "access", 0, [call[c] EXCEPT !.pc = "clearRefresh"])
    /\ promised' = IF c \in Callers THEN NoSession ELSE promised
    /\ overlapped' = (overlapped \/ call[c].dirty)
    /\ UNCHANGED <<deployment, now, expiry, lock, lastRefreshAt, lastAccessAt,
                   disposed, snapshot, made, refreshes, behind, exporter>>

ClearRefresh(c) ==
    /\ At(c, "clearRefresh")
    /\ Put(c, "refresh", 0,
           [call[c] EXCEPT !.pc = IF call[c].op = "regenerate" THEN "set" ELSE "cleared"])
    /\ overlapped' = (overlapped \/ call[c].dirty)
    /\ UNCHANGED <<deployment, now, expiry, lock, lastRefreshAt, lastAccessAt,
                   disposed, snapshot, made, refreshes, promised, behind, exporter>>

\* tokens-cleared, and for logout session-logout and the message.
Cleared(c) ==
    /\ At(c, "cleared")
    /\ Notify(Owner[c], NoSession, call[c].dirty)
    /\ CASE c \in Handlers        -> Step(c, Rest) /\ UNCHANGED <<mail, behind>>
         [] call[c].op = "clear"  -> Step(c, Rest) /\ UNCHANGED mail /\ Untold(c)
         [] call[c].op = "logout" -> Go(c, "loggedOut") /\ UNCHANGED <<mail, behind>>
    /\ UNCHANGED <<deployment, store, now, expiry, lock, lastRefreshAt,
                   lastAccessAt, disposed, made, refreshes, promised>>

LoggedOut(c) ==
    /\ At(c, "loggedOut")
    /\ Notify(Owner[c], NoSession, call[c].dirty)
    /\ Broadcast(c, "logout")
    /\ Told(c)
    /\ Step(c, Rest)
    /\ UNCHANGED <<deployment, store, now, expiry, lock, lastRefreshAt,
                   lastAccessAt, disposed, made, refreshes, promised>>

\* channel.onmessage: the signature is verified in the background, and the
\* change is applied to this tab's store.
Receive(h, m) ==
    /\ h \in Handlers /\ Resting(h) /\ Owner[h] = m.to
    /\ m \in mail
    /\ deployment.signed /\ {m.from, m.to} \cap disposed = {}
    /\ mail' = mail \ {m}
    /\ Step(h, [Rest EXCEPT !.op = m.kind, !.tokens = m.tokens,
                  !.paired = m.paired, !.policy = m.policy, !.dirty = m.dirty,
                  !.pc = IF m.kind = "rotate" THEN "set" ELSE "clear"])
    /\ UNCHANGED <<deployment, store, now, expiry, lock, lastRefreshAt,
                   lastAccessAt, disposed, snapshot, made, history, exporter>>

\* A message is not posted, not heard, or signed with another secret.
Drop(m) ==
    /\ m \in mail
    /\ ~deployment.signed \/ {m.from, m.to} \cap disposed # {}
    /\ mail' = mail \ {m}
    /\ behind' = behind \cup {m.to}
    /\ UNCHANGED <<deployment, store, now, expiry, call, lock, lastRefreshAt,
                   lastAccessAt, disposed, snapshot, made, refreshes, promised,
                   overlapped, exporter>>

Dispose(t) ==
    /\ t \in Tabs \ disposed /\ made < deployment.calls
    /\ made' = made + 1
    /\ disposed' = disposed \cup {t}
    /\ UNCHANGED <<deployment, store, now, expiry, call, lock, lastRefreshAt,
                   lastAccessAt, mail, snapshot, history, exporter>>

Tick ==
    /\ now < deployment.time
    /\ now' = now + 1
    /\ UNCHANGED <<deployment, store, expiry, call, lock, lastRefreshAt,
                   lastAccessAt, disposed, mail, snapshot, made, history, exporter>>

Export ==
    /\ Flush \/ SinkSettles \/ Clear
    /\ UNCHANGED <<deployment, store, now, expiry, call, lock, lastRefreshAt,
                   lastAccessAt, disposed, mail, snapshot, made, history>>

-----------------------------------------------------------------------------
Runs(c) ==
    \/ ReadAccess(c) \/ ReadRefresh(c) \/ GetState(c) \/ Slide(c) \/ Slid(c)
    \/ NeedsRefresh(c) \/ RefreshIfNeeded(c)
    \/ RefreshAnswers(c) \/ RefreshFails(c)
    \/ SetAccess(c) \/ SetRefresh(c) \/ RequireRefresh(c) \/ RotationEnds(c)
    \/ Refreshed(c) \/ ClearAccess(c) \/ ClearRefresh(c) \/ Cleared(c) \/ LoggedOut(c)

Next ==
    \/ \E c \in deployment.callers, op \in deployment.ops : Begin(c, op)
    \/ \E c \in Tasks : Runs(c)
    \/ \E m \in mail : Drop(m) \/ \E h \in Handlers : Receive(h, m)
    \/ \E t \in deployment.disposing : Dispose(t)
    \/ Tick
    \/ Export

Spec == Init /\ [][Next]_vars

\* The event loop runs every continuation, and refresh() settles.
FairSpec == Spec /\ \A c \in Tasks : WF_vars(Runs(c))

-----------------------------------------------------------------------------
(* Properties                                                               *)

Token == 0 .. Len(expiry)
SessionOf(x) == x.access \in Token /\ x.refresh \in Token

\* The type of the state: a store, a message and a call hold tokens that were
\* issued, a lock is held by a call of its own tab, and the clock is bounded.
TypeOK ==
    /\ deployment \in Scenarios
    /\ SessionOf(jar) /\ SessionOf(promised)
    /\ \A t \in Tabs :
          /\ SessionOf(own[t]) /\ SessionOf(snapshot[t])
          /\ lock[t] = None \/ (lock[t] \in Callers /\ Owner[lock[t]] = t)
          /\ lastRefreshAt[t] \in -MinRefreshInterval .. now /\ lastAccessAt[t] \in 0 .. now
    /\ \A c \in Tasks : SessionOf(call[c]) /\ call[c].tokens \in Token
    /\ \A m \in mail : m.tokens \in Token /\ {m.from, m.to} \subseteq Tabs
    /\ now \in 0 .. deployment.time /\ made \in 0 .. deployment.calls
    /\ disposed \cup behind \subseteq Tabs /\ overlapped \in BOOLEAN

\* In each tab refresh() is never called twice at a time nor twice within the
\* minimum interval, however the calls that need it interleave (SEC-M3 and
\* refreshLock, session/index.ts 343-367).
RefreshPaced ==
    \A t \in Tabs :
        /\ Cardinality({c \in Callers : Owner[c] = t /\ At(c, "refreshing")}) <= 1
        /\ \A i, j \in DOMAIN refreshes[t] :
               i < j => refreshes[t][j] - refreshes[t][i] >= MinRefreshInterval

\* The type of the state, and the pace of the refreshes.
Safety == TypeOK /\ RefreshPaced

\* The tabs read and write one and the same storage.
Shared == \A half \in Halves : deployment.store[half] \in {"web", "absent"}

\* Once everything has come to rest, and unless two changes of the session
\* overlapped, every tab holds exactly the session that the changes made one
\* after the other amount to - signed out after a logout, with the refresh
\* token the policy keeps after a rotation - and its UI shows it.  Tabs that
\* do not share the store are spoken for as long as they were told of every
\* change (session/index.ts 68-93, 184-238, 265-315, 370-382; the stores;
\* hooks/index.ts).
OneSession ==
    (/\ \A c \in Tasks : Resting(c)
     /\ mail = {} /\ ~overlapped)
    => \A t \in Tabs :
          /\ t \notin behind \/ Shared => View(t) = promised
          /\ t \notin behind \cup disposed => snapshot[t] = promised

\* Once no further call is made every call ends, whoever it waits for and
\* however refresh() settles, and so does every handler: no tab holds its
\* refresh lock for ever (session/index.ts 350-364).
CallsEnd == []<>(\A c \in Tasks : Resting(c))
=============================================================================
