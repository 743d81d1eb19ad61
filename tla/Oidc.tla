-------------------------------- MODULE Oidc --------------------------------
(***************************************************************************)
(* createOIDCFlow() of packages/auth: one flow object, to which callbacks  *)
(* come one after the other.  exchangeCallback() checks a callback and     *)
(* records its code without awaiting anything, so callbacks that overlap   *)
(* do so only in the answers they wait for.                                *)
(*                                                                         *)
(* A callback is its sequence of <<name, value>> parameters; an option     *)
(* that is not given is <<>>.                                              *)
(***************************************************************************)
EXTENDS Integers, SequencesExt

CONSTANTS REPLAY_TTL, MAX_REPLAY_ENTRIES

NewFlow == [metadata |-> "unknown", consumed |-> <<>>]

Given(option, otherwise) == IF option = <<>> THEN otherwise ELSE option[1]
Refused(code) == [is |-> "error", code |-> code]
Failed(r) == r.is = "error"

\* The checks of a function, in their order: the first that applies is its answer.
FirstOf(checks, otherwise) ==
  LET applying == SelectSeq(checks, LAMBDA c : c[1])
  IN IF applying = <<>> THEN otherwise ELSE Refused(applying[1][2])

-----------------------------------------------------------------------------
(* The callback *)

Oversize == "longer than MAX_CALLBACK_VALUE_LENGTH"

Values(params, name) ==
  LET found == SelectSeq(params, LAMBDA p : p[1] = name /\ p[2] # "")
  IN [i \in DOMAIN found |-> found[i][2]]
\* readSingle() throws
NotSingle(params, name) ==
  LET values == Values(params, name) IN Len(values) > 1 \/ values = <<Oversize>>

\* mutant: a callback without a state belongs to every sign-in
MutParseOIDCCallbackParams(params, expectedState) ==
  LET code == Values(params, "code")
      state == Values(params, "state")
  IN FirstOf(<< <<\E n \in {"error", "code", "state"} : NotSingle(params, n), "INVALID_CALLBACK">>,
                <<Values(params, "error") # <<>>, "CALLBACK_ERROR">>, <<code = <<>>, "MISSING_CODE">>,
                <<expectedState # <<>> /\ state # <<>> /\ state # expectedState, "STATE_MISMATCH">> >>,
             [is |-> "callback", code |-> Given(code, "")])
ParseOIDCCallbackParams(params, expectedState) ==
  LET code == Values(params, "code")
  IN FirstOf(<< <<NotSingle(params, "error"), "INVALID_CALLBACK">>,
                <<Values(params, "error") # <<>> /\ NotSingle(params, "error_description"), "INVALID_CALLBACK">>,
                <<Values(params, "error") # <<>>, "CALLBACK_ERROR">>,
                <<NotSingle(params, "code"), "INVALID_CALLBACK">>,
                <<code = <<>>, "MISSING_CODE">>,
                <<NotSingle(params, "state"), "INVALID_CALLBACK">>,
                <<expectedState # <<>> /\ Values(params, "state") # expectedState, "STATE_MISMATCH">> >>,
             [is |-> "callback", code |-> Given(code, "")])

\* The map keeps the place of a code that is recorded again.
SweepReplayCache(consumed, now) ==
  IF Len(consumed) <= MAX_REPLAY_ENTRIES THEN consumed
  ELSE FoldLeft(LAMBDA kept, entry :
                  IF now - entry.at > REPLAY_TTL \/ Len(kept) > MAX_REPLAY_ENTRIES
                  THEN SelectSeq(kept, LAMBDA e : e # entry) ELSE kept,
                consumed, consumed)

Recorded(consumed, code, now) ==
  IF \E i \in DOMAIN consumed : consumed[i].code = code
  THEN [i \in DOMAIN consumed |-> IF consumed[i].code = code THEN [consumed[i] EXCEPT !.at = now]
                                  ELSE consumed[i]]
  ELSE Append(consumed, [code |-> code, at |-> now])

IsReplay(consumed, code, now) ==
  \E i \in DOMAIN consumed : consumed[i].code = code /\ now - consumed[i].at < REPLAY_TTL

-----------------------------------------------------------------------------
(* Requests to the provider *)

\* The first answer of the discovery document is kept, a refusal too.
GetMetadata(flow, discovery) ==
  IF flow.metadata = "unknown" THEN [flow EXCEPT !.metadata = discovery] ELSE flow
MetadataError(flow) ==
  IF flow.metadata = "refused" THEN Refused("DISCOVERY_FAILED")
  ELSE Refused("INVALID_DISCOVERY_DOCUMENT")

AppendClientCredentials(options, body) ==
  [client_id |-> options.clientId,
   client_secret |-> IF options.authMethod = "client_secret_post" THEN options.clientSecret ELSE <<>>,
   authorization |-> IF options.authMethod = "client_secret_basic" THEN options.clientSecret ELSE <<>>,
   body |-> body]

ToTokenResponse(raw) ==
  IF raw.accessToken = <<>> THEN Refused("INVALID_TOKEN_RESPONSE")
  ELSE [is |-> "tokens", accessToken |-> raw.accessToken[1], idToken |-> raw.idToken]

ValidateIdTokenClaims(claims, issuer, audience, nonce) ==
  FirstOf(<< <<claims.garbled, "INVALID_ID_TOKEN">>,
             <<issuer # <<>> /\ claims.iss # issuer[1], "ID_TOKEN_ISSUER_MISMATCH">>,
             <<audience \notin claims.aud, "ID_TOKEN_AUDIENCE_MISMATCH">>,
             <<claims.expired, "ID_TOKEN_EXPIRED">>,
             <<claims.nonce # nonce, "ID_TOKEN_NONCE_MISMATCH">> >>, [is |-> "valid"])

\* What exchangeCode() makes of the answer to its request.
CodeExchanged(options, response, expectedNonce, issuer) ==
  LET tokens == ToTokenResponse(response)
      valid == ValidateIdTokenClaims(tokens.idToken[1], issuer, options.clientId, expectedNonce[1])
  IN IF ~response.ok THEN Refused("TOKEN_EXCHANGE_FAILED")
     ELSE IF Failed(tokens) \/ tokens.idToken = <<>> THEN tokens
     ELSE IF expectedNonce = <<>> THEN Refused("MISSING_EXPECTED_NONCE")
     ELSE IF Failed(valid) THEN valid ELSE tokens

TokenRequest(options, code, codeVerifier) ==
  AppendClientCredentials(options,
    [grant_type |-> "authorization_code", code |-> code, redirect_uri |-> options.redirectUri,
     code_verifier |-> codeVerifier])

\* exchangeCallback() until the token endpoint answers: a result, or the request that
\* is sent, whose answer CodeExchanged() makes the result of.
ExchangeCallback(flow, options, discovery, callback, given, now) ==
  LET parsed == ParseOIDCCallbackParams(callback, given.state)
      consumed == SweepReplayCache(flow.consumed, now)
      recorded == [flow EXCEPT !.consumed = Recorded(consumed, parsed.code, now)]
      ready == GetMetadata(recorded, discovery)
      done(f, r) == [flow |-> f, result |-> r, request |-> <<>>]
  IN IF Failed(parsed) THEN done(flow, parsed)
     ELSE IF IsReplay(consumed, parsed.code, now)
     THEN done([flow EXCEPT !.consumed = consumed], Refused("CALLBACK_REPLAY"))
     ELSE IF ready.metadata # "loaded" THEN done(ready, MetadataError(ready))
     ELSE [flow |-> ready, result |-> [is |-> "awaited"],
           request |-> <<TokenRequest(options, parsed.code, given.codeVerifier)>>]

\* refresh(), getUserInfo(), introspect() and getLogoutUrl(), which asks nobody: the
\* endpoint has to be in the metadata (the token endpoint always is).
AskEndpoint(flow, discovery, endpoint, endpoints, response) ==
  LET ready == GetMetadata(flow, discovery)
  IN [flow |-> ready,
      result |-> IF ready.metadata # "loaded" THEN MetadataError(ready)
                 ELSE IF endpoint \notin endpoints THEN Refused("NO_ENDPOINT")
                 ELSE IF endpoint = "end_session" THEN [is |-> "url"]
                 ELSE IF ~response.ok THEN Refused("REQUEST_FAILED")
                 ELSE IF endpoint = "token" THEN ToTokenResponse(response) ELSE [is |-> "json"]]

-----------------------------------------------------------------------------
(* getAuthorizationUrl(), of the flow and of a provider's definition *)

Challenge(verifier, method) == IF method = "plain" THEN <<verifier>> ELSE <<"sha256", verifier>>

\* What is set last is kept: the caller's parameters may replace the flow's.
AuthorizationUrl(options, given, fresh) ==
  LET method == Given(given.codeChallengeMethod, "S256")
      state == Given(given.state, fresh.state)
      nonce == Given(given.nonce, fresh.nonce)
      set == << <<"response_type", "code">>, <<"client_id", options.clientId>>,
                <<"redirect_uri", options.redirectUri>>, <<"state", state>>, <<"nonce", nonce>>,
                <<"code_challenge", Given(given.codeChallenge, Challenge(fresh.verifier, method))>>,
                <<"code_challenge_method", method>> >>
               \o (IF given.prompt = <<>> THEN <<>> ELSE << <<"prompt", given.prompt[1]>> >>)
               \o given.extraParams
      last(name) == SelectLastInSubSeq(set, 1, Len(set), LAMBDA p : p[1] = name)
  IN [is |-> "url", url |-> [name \in {set[i][1] : i \in DOMAIN set} |-> set[last(name)][2]],
      state |-> state, nonce |-> nonce, codeVerifier |-> fresh.verifier]

\* A provider may refuse a method of the challenge, before there is a URL; its defaults
\* come before the parameters of the caller.
FromProvider(provider, options, given, fresh) ==
  IF given.codeChallengeMethod \in provider.refuses THEN Refused("INVALID_PROVIDER")
  ELSE AuthorizationUrl(options, [given EXCEPT !.extraParams = provider.authorizationDefaults \o @], fresh)

=============================================================================
