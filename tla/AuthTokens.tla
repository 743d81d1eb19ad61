----------------------------- MODULE AuthTokens -----------------------------
(***************************************************************************)
(* The parts of packages/auth that decide about a token on a request: the  *)
(* revocation registry and its guard, verification of a JWT, the CSRF      *)
(* guard, the cookies of the bridge, and the tokens of a legacy session.   *)
(* A value that may be missing is <<>> or <<v>>; text in which single      *)
(* characters matter is a sequence of them.                                *)
(***************************************************************************)
EXTENDS Integers, SequencesExt

CONSTANTS MAX_COOKIE_SEGMENTS, MAX_COOKIE_HEADER_LENGTH

-----------------------------------------------------------------------------
(* createAuthRevocationRegistry(): three maps from keys to their expiry *)

Buckets == {"tokens", "sessions", "subjects"}
ClaimOf == [tokens |-> "jti", sessions |-> "sid", subjects |-> "sub"]
EmptyRegistry == [b \in Buckets |-> <<>>]

IsExpired(expiresAt, now) == expiresAt # <<>> /\ expiresAt[1] <= now
\* mutant: a revocation does not replace the one before it
MutRevoke(registry, bucket, key, expiresAt) ==
  [registry EXCEPT ![bucket] = @ @@ (key :> expiresAt)]
Revoke(registry, bucket, key, expiresAt) ==
  [registry EXCEPT ![bucket] = (key :> expiresAt) @@ @]
ClearExpired(registry, now) ==
  [b \in Buckets |-> Restrict(registry[b],
                       {k \in DOMAIN registry[b] : ~IsExpired(registry[b][k], now)})]
IsRevoked(registry, claims, now) ==
  \E b \in Buckets : \E c \in ToSet(claims[ClaimOf[b]]) : c \in DOMAIN ClearExpired(registry, now)[b]
\* With a backend: its answers are used when the first is no promise; a promise is true.
BackendIsRevoked(async, registry, claims, now) ==
  IF ~async THEN IsRevoked(registry, claims, now)
  ELSE claims.jti = <<>> /\ (claims.sid # <<>> \/ claims.sub # <<>>)
\* withRevocationGuard()
RevocationPasses(async, registry, claims, now) ==
  claims = <<>> \/ ~BackendIsRevoked(async, registry, claims[1], now)

-----------------------------------------------------------------------------
(* verifyJwt(): a key is a secret text or a CryptoKey for one algorithm *)

Hmac(alg) == alg \in {"HS256", "HS384", "HS512"}
Asymmetric(alg) == alg \in {"RS256", "ES256"}
SignatureValid(token, key) ==
  /\ token.signature = [alg |-> token.alg, key |-> key.id, over |-> <<token.alg, token.payload>>]
  /\ key.type = "CryptoKey" => key.alg = token.alg
VerifyJwt(token, options, now) ==
  LET p == token.payload
  IN /\ token.alg # "none" /\ token.alg \in options.algorithms
     /\ Hmac(token.alg) \/ Asymmetric(token.alg)
     /\ options.key.type = "text" => Hmac(token.alg)
     /\ SignatureValid(token, options.key)
     /\ p.exp \in {<<>>, <<0>>} \/ now - options.clockTolerance < p.exp[1]
     /\ p.nbf \in {<<>>, <<0>>} \/ now + options.clockTolerance >= p.nbf[1]
     /\ options.issuer # <<>> => p.iss = options.issuer
     /\ options.audience # <<>> => options.audience[1] \in ToSet(p.aud)

-----------------------------------------------------------------------------
(* createAuthCsrfProtection() *)

SafeMethods == {"GET", "HEAD", "OPTIONS"}
Oversize == "longer than MAX_CSRF_TOKEN_LENGTH"
\* getHeader() looks the name up in any case, and takes the first that is there.
GetHeader(headers, lower) ==
  LET found == SelectSeq(headers, LAMBDA h : h.lower = lower)
  IN IF found = <<>> THEN "" ELSE found[1].value
GetRequestToken(req) ==
  LET header == GetHeader(req.headers, "x-csrf-token") IN IF header # "" THEN header ELSE req.query
VerifyCsrf(req, expected) ==
  \/ req.method \in SafeMethods
  \/ expected \notin {"", Oversize} /\ GetRequestToken(req) = expected

-----------------------------------------------------------------------------
(* createAuthBridge() *)

Escape == (";" :> "%3B" @@ "=" :> "%3D" @@ " " :> "%20" @@ "%" :> "%25")
EncodeURIComponent(text) ==
  [i \in DOMAIN text |-> IF text[i] \in DOMAIN Escape THEN Escape[text[i]] ELSE text[i]]
\* decodeURIComponent() throws at a percent sign that begins no escape.
Decodes(text) == \A i \in DOMAIN text : text[i] # "%"
DecodeURIComponent(text) ==
  [i \in DOMAIN text |-> IF \E c \in DOMAIN Escape : Escape[c] = text[i]
                         THEN CHOOSE c \in DOMAIN Escape : Escape[c] = text[i] ELSE text[i]]

Trim(text) ==
  LET kept == {i \in DOMAIN text : text[i] # " "}
  IN IF kept = {} THEN <<>> ELSE SubSeq(text, Min(kept), Max(kept))
Split(text, mark) ==
  LET marks == {0, Len(text) + 1} \cup {i \in DOMAIN text : text[i] = mark}
      sorted == SetToSortSeq(marks, <)
  IN [i \in 1 .. Len(sorted) - 1 |-> SubSeq(text, sorted[i] + 1, sorted[i + 1] - 1)]

\* The pair of a segment, or <<>>.
ParseSegment(segment) ==
  LET text == Trim(segment)
      at == SelectInSeq(text, LAMBDA c : c = "=")
      name == Trim(SubSeq(text, 1, at - 1))
      value == Trim(SubSeq(text, at + 1, Len(text)))
  IN IF at <= 1 \/ name = <<>> THEN <<>>
     ELSE IF Decodes(name) /\ Decodes(value)
     THEN << <<DecodeURIComponent(name), DecodeURIComponent(value)>> >> ELSE << <<name, value>> >>
ParseCookieHeader(header) ==
  LET segments == Split(header, ";")
      read == SubSeq(segments, 1, Min({Len(segments), MAX_COOKIE_SEGMENTS}))
  IN IF Len(header) > MAX_COOKIE_HEADER_LENGTH THEN <<>>
     ELSE FlattenSeq([i \in DOMAIN read |-> ParseSegment(read[i])])
\* The last of several cookies of a name is kept.
Cookie(cookies, name) ==
  LET found == SelectSeq(cookies, LAMBDA c : c[1] = name) IN IF found = <<>> THEN <<>> ELSE <<Last(found)[2]>>

AccessName == <<"access">>
RefreshName == <<"refresh">>
ReadSession(header, bearer) ==
  LET cookies == IF header = <<>> THEN <<>> ELSE ParseCookieHeader(header)
      access == Cookie(cookies, AccessName)
  IN [accessToken |-> IF access # <<>> THEN access ELSE bearer,
      refreshToken |-> Cookie(cookies, RefreshName)]
SetCookie(name, token) ==
  [name |-> EncodeURIComponent(name), value |-> IF token = <<>> THEN <<>> ELSE EncodeURIComponent(token[1]),
   expires |-> token = <<>>]
BuildSetCookieHeaders(session) ==
  <<SetCookie(AccessName, session.accessToken), SetCookie(RefreshName, session.refreshToken)>>

-----------------------------------------------------------------------------
(* normalizeLegacyAuthTokens(): a session is text, or a record that may nest *)

ReadLegacyField(snapshot, keys) ==
  LET found == SelectSeq(keys, LAMBDA k : k \in DOMAIN snapshot /\ snapshot[k] # "  ")
  IN IF found = <<>> THEN <<>> ELSE <<snapshot[found[1]]>>
NormalizeRecord(fields) ==
  LET access == ReadLegacyField(fields, <<"accessToken", "access_token", "token">>)
      refresh == ReadLegacyField(fields, <<"refreshToken", "refresh_token", "refresh">>)
  IN IF access = <<>> THEN <<>> ELSE << [accessToken |-> access, refreshToken |-> refresh] >>
\* `levels` are what is given and what is nested in it: text that is given is the access
\* token; of records, the deepest that has one gives the tokens; nested text is no record.
Text == "(text)"
NormalizeLegacyAuthTokens(levels) ==
  LET text == ReadLegacyField(levels[1], <<Text>>)
      found == SelectSeq(Reverse(levels), LAMBDA l : NormalizeRecord(l) # <<>>)
  IN IF text # <<>> THEN << [accessToken |-> text, refreshToken |-> <<>>] >>
     ELSE IF found = <<>> THEN <<>> ELSE NormalizeRecord(found[1])
\* migrateLegacyTokensToStore(): what the store then holds
MigrateLegacyTokensToStore(levels) ==
  LET tokens == NormalizeLegacyAuthTokens(levels)
  IN IF tokens = <<>> THEN [accessToken |-> <<>>, refreshToken |-> <<>>] ELSE tokens[1]
=============================================================================
