------------------------------ MODULE HttpCache ------------------------------
(***************************************************************************)
(* The httpCache() middleware and resolveStalePolicy(): a Map in LRU order *)
(* from key to a response with the time it was stored.  A request looks    *)
(* into the Map once, keeps the entry it saw (`cached`) while next() is    *)
(* under way, and writes to the Map when the answer arrives: answers to    *)
(* the same key may arrive in another order than the server gave them.     *)
(* A response body is the version of the resource that it shows.           *)
(***************************************************************************)
EXTENDS Naturals, Sequences, SequencesExt

CONSTANTS
  Request,        \* runs of the middleware; a finished one may run again
  Key,
  Ttl,            \* ttlMs
  StaleIfError,   \* staleIfErrorMs
  MaxEntries,     \* Infinity is any value above |Key|
  Validators,     \* responses carry an ETag or a Last-Modified
  OwnValidator,   \* callers send an If-None-Match of their own
  MaxLatency,     \* an answer takes at most so long
  MaxVersion,     \* bound: versions of a resource
  MaxClock        \* bound: the clock stops there

ASSUME CacheAssumption ==
  /\ Ttl \in Nat \ {0} /\ StaleIfError \in Nat /\ MaxEntries \in Nat
  /\ Validators \in BOOLEAN /\ OwnValidator \in BOOLEAN
  /\ MaxLatency \in Nat /\ MaxVersion \in Nat \ {0} /\ MaxClock \in Nat

VARIABLES
  clock,      \* Date.now()
  version,    \* version[k]: what the server has now
  lastSeen,   \* lastSeen[k][v]: when v was last the server's version
  cache,      \* the Map: a sequence of entries, least recently used first
  phase,      \* where each run of the middleware is
  sentAt,     \* when next() was called
  keyOf,      \* keyBuilder(req)
  cached,     \* `cached`: a set of at most one entry
  own,        \* the version the caller's own validator names, 0 for none
  answer      \* what the transport below will deliver

vars == <<clock, version, lastSeen, cache, phase, sentAt, keyOf, cached, own,
          answer>>
server == <<version, lastSeen>>

Version == 1 .. MaxVersion
Entry == [key : Key, version : Version, storedAt : 0 .. MaxClock]
Answer == [status : {"none", "200", "304", "500", "error"},
           version : 0 .. MaxVersion]
NoAnswer == [status |-> "none", version |-> 0]

Init ==
  /\ clock = 0
  /\ version = [k \in Key |-> 1]
  /\ lastSeen = [k \in Key |-> [v \in Version |-> 0]]
  /\ cache = <<>>
  /\ phase = [r \in Request |-> "idle"]
  /\ sentAt = [r \in Request |-> 0]
  /\ keyOf \in [Request -> Key]
  /\ cached = [r \in Request |-> {}]
  /\ own = [r \in Request |-> 0]
  /\ answer = [r \in Request |-> NoAnswer]

-----------------------------------------------------------------------------
(* The Map, and resolveStalePolicy(). *)

Found(k) == {e \in ToSet(cache) : e.key = k}

\* A Map holds a key once.
Without(s, k) == RemoveFirstMatch(s, LAMBDA e : e.key = k)

\* delete and set.
Stored(s, k, v, t) ==
  Append(Without(s, k), [key |-> k, version |-> v, storedAt |-> t])

\* The oldest entry goes when a new key finds the Map full.
Evicted(k) ==
  IF Len(cache) >= MaxEntries /\ Found(k) = {} /\ cache # <<>>
  THEN Tail(cache)
  ELSE cache

Fresh(e) == clock <= e.storedAt + Ttl

ServableOnError(e) == clock <= e.storedAt + Ttl + StaleIfError

-----------------------------------------------------------------------------
(* The middleware. *)

Hit(r, k) ==
  /\ phase[r] = "idle"
  /\ \E e \in Found(k) :
       /\ Fresh(e)
       /\ cache' = Append(Without(cache, k), e)
  /\ UNCHANGED <<clock, server, phase, sentAt, keyOf, cached, own, answer>>

\* A miss, or an entry that has to be revalidated.
Miss(r, k, o) ==
  /\ phase[r] = "idle"
  /\ \A e \in Found(k) : ~Fresh(e)
  /\ phase' = [phase EXCEPT ![r] = "sent"]
  /\ sentAt' = [sentAt EXCEPT ![r] = clock]
  /\ keyOf' = [keyOf EXCEPT ![r] = k]
  /\ cached' = [cached EXCEPT ![r] = Found(k)]
  /\ own' = [own EXCEPT ![r] = o]
  /\ UNCHANGED <<clock, server, cache, answer>>

\* The run is over.
Ends(r) ==
  /\ phase' = [phase EXCEPT ![r] = "idle"]
  /\ cached' = [cached EXCEPT ![r] = {}]
  /\ own' = [own EXCEPT ![r] = 0]
  /\ answer' = [answer EXCEPT ![r] = NoAnswer]
  /\ UNCHANGED <<clock, server, sentAt, keyOf>>

Answered(r, status) == phase[r] = "answered" /\ answer[r].status = status

Store(r) ==
  /\ Answered(r, "200")
  /\ cache' = Stored(Evicted(keyOf[r]), keyOf[r], answer[r].version, clock)
  /\ Ends(r)

\* Mutant: the Map is read again after the await.
MutReadsAgain(r) ==
  /\ Answered(r, "304")
  /\ \E e \in Found(keyOf[r]) :
       cache' = Stored(cache, keyOf[r], e.version, clock)
  /\ Ends(r)

\* 304 with an entry at hand: the entry seen before the await goes back.
Revalidate(r) ==
  /\ Answered(r, "304")
  /\ \E e \in cached[r] : cache' = Stored(cache, keyOf[r], e.version, clock)
  /\ Ends(r)

\* Any other response is handed on.
PassOn(r) ==
  /\ Answered(r, "500") \/ (Answered(r, "304") /\ cached[r] = {})
  /\ Ends(r)
  /\ UNCHANGED cache

\* Mutant: an answer given in an emergency counts as a new one.
MutStaleRefreshed(r) ==
  /\ Answered(r, "error")
  /\ \E e \in cached[r] :
       /\ ServableOnError(e)
       /\ cache' = Stored(cache, keyOf[r], e.version, clock)
  /\ Ends(r)

ServeStale(r) ==
  /\ Answered(r, "error")
  /\ \E e \in cached[r] : ServableOnError(e)
  /\ Ends(r)
  /\ UNCHANGED cache

Throw(r) ==
  /\ Answered(r, "error")
  /\ \A e \in cached[r] : ~ServableOnError(e)
  /\ Ends(r)
  /\ UNCHANGED cache

-----------------------------------------------------------------------------
(* The transport and the server below, and time. *)

\* The version a conditional request names: the caller's header is kept.
Named(r) ==
  IF own[r] # 0 THEN {own[r]}
  ELSE IF Validators THEN {e.version : e \in cached[r]}
  ELSE {}

Delivers(r, status, v) ==
  /\ phase[r] = "sent"
  /\ phase' = [phase EXCEPT ![r] = "answered"]
  /\ answer' = [answer EXCEPT ![r] = [status |-> status, version |-> v]]
  /\ UNCHANGED <<clock, server, cache, sentAt, keyOf, cached, own>>

\* The server answers now; the answer is delivered later.
Answers(r) ==
  LET v == version[keyOf[r]]
  IN \/ Delivers(r, IF v \in Named(r) THEN "304" ELSE "200", v)
     \/ Delivers(r, "500", 0)
     \/ Delivers(r, "error", 0)

Write(k) ==
  /\ version[k] < MaxVersion
  /\ version' = [version EXCEPT ![k] = @ + 1]
  /\ lastSeen' = [lastSeen EXCEPT ![k][version[k]] = clock]
  /\ UNCHANGED <<clock, cache, phase, sentAt, keyOf, cached, own, answer>>

Tick ==
  /\ clock < MaxClock
  /\ \A r \in Request : phase[r] # "idle" => clock < sentAt[r] + MaxLatency
  /\ clock' = clock + 1
  /\ UNCHANGED <<server, cache, phase, sentAt, keyOf, cached, own, answer>>

Next ==
  \/ \E r \in Request :
       \/ \E k \in Key :
            \/ Hit(r, k)
            \/ \E o \in IF OwnValidator THEN 0 .. version[k] ELSE {0} :
                 Miss(r, k, o)
       \/ Store(r) \/ Revalidate(r) \/ PassOn(r) \/ ServeStale(r) \/ Throw(r)
       \/ Answers(r)
  \/ \E k \in Key : Write(k)
  \/ Tick

Spec == Init /\ [][Next]_vars

-----------------------------------------------------------------------------
(* Properties. *)

\* Every variable keeps its shape.
TypeOK ==
  /\ clock \in 0 .. MaxClock
  /\ version \in [Key -> Version]
  /\ lastSeen \in [Key -> [Version -> 0 .. MaxClock]]
  /\ cache \in Seq(Entry)
  /\ phase \in [Request -> {"idle", "sent", "answered"}]
  /\ sentAt \in [Request -> 0 .. MaxClock] /\ keyOf \in [Request -> Key]
  /\ cached \in [Request -> SUBSET Entry]
  /\ own \in [Request -> 0 .. MaxVersion] /\ answer \in [Request -> Answer]

\* How long ago the server had this version.
Age(e) ==
  IF e.version = version[e.key] THEN 0 ELSE clock - lastSeen[e.key][e.version]

\* What a call would be given without asking the server was the server's
\* answer not longer ago than the ttl and the latency of one request: neither
\* answers out of order nor revalidations keep old content alive.
FreshIsRecent ==
  \A e \in ToSet(cache) : Fresh(e) => Age(e) <= Ttl + MaxLatency

\* What a call is given instead of an error is not older than the two windows
\* and the latency of the request that stored it.
StaleIsBounded ==
  \A r \in Request : \A e \in cached[r] :
    ServableOnError(e) => Age(e) <= Ttl + StaleIfError + MaxLatency

\* A 304 is taken for "etag matched": what is then served and stored again is
\* the version the server confirmed.
EtagMatched ==
  [][\A r \in Request :
       Answered(r, "304") /\ cached[r] # {} /\ phase'[r] = "idle" =>
         Last(cache').version = answer[r].version]_vars

\* What is served without the server, in time or on errors, is not too old.
Safety == TypeOK /\ FreshIsRecent /\ StaleIsBounded

-----------------------------------------------------------------------------
(* The inductive invariant behind these properties, for callers that send no *)
(* validator of their own (~OwnValidator).                                   *)

UniqueKeys(s) == \A i, j \in 1 .. Len(s) : s[i].key = s[j].key => i = j

\* The server still had the version when the request that stored it was made.
Dated(e) ==
  /\ e.storedAt <= clock
  /\ \/ e.version = version[e.key]
     \/ e.storedAt <= lastSeen[e.key][e.version] + MaxLatency

\* The entry a run keeps is the one of its key.
CachedSound ==
  \A r \in Request : \A e \in cached[r] :
    /\ Dated(e) /\ e.key = keyOf[r]
    /\ \A f \in cached[r] : f = e

\* An answer shows what the server had at some time since the request, and no
\* request is under way for longer than the latency.
AnswerSound ==
  \A r \in Request :
    /\ phase[r] # "idle" => sentAt[r] <= clock /\ clock <= sentAt[r] + MaxLatency
    /\ phase[r] = "answered" /\ answer[r].status \in {"200", "304"} =>
         /\ answer[r].version \in Version
         /\ \/ answer[r].version = version[keyOf[r]]
            \/ sentAt[r] <= lastSeen[keyOf[r]][answer[r].version]

\* A 304 confirms the entry seen before the request.
EtagSound ==
  \A r \in Request :
    /\ own[r] = 0
    /\ Answered(r, "304") => \A e \in cached[r] : e.version = answer[r].version

IInv ==
  /\ TypeOK
  /\ UniqueKeys(cache)
  /\ \A e \in ToSet(cache) : Dated(e)
  /\ CachedSound
  /\ AnswerSound
  /\ EtagSound
=============================================================================
