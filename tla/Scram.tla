------------------------------- MODULE Scram -------------------------------
(***************************************************************************)
(* ScramSha256, the client's side of SCRAM-SHA-256.  The primitives of the *)
(* platform are terms: a hash or a key is equal to another only when it    *)
(* was made from equal things, and Xor undoes itself.  A message is a      *)
(* record of its parts, a nonce a sequence of random choices.              *)
(***************************************************************************)
EXTENDS Sequences, SequencesExt

Hmac(key, data) == <<"hmac", key, data>>
Hash(x) == <<"sha256", x>>
Pbkdf2(password, salt, iterations) == <<"pbkdf2", password, salt, iterations>>
\* Exclusive or of terms, as the set of those that occur once.
Xor(x, y) == (x \ y) \cup (y \ x)

ClientFirstBare(user, nonce) == [user |-> user, nonce |-> nonce]

\* Mutant: any nonce of the server is taken.
MutAnyNonce(nonce, serverFirst) == serverFirst.nonce # <<>> /\ serverFirst.salt # <<>>
                                   /\ serverFirst.iterations > 0

\* The server's nonce extends the client's, and its message is complete: an empty nonce
\* and 0 iterations are as good as none, but an empty salt is a salt (scram.ts:112).
Accepts(nonce, serverFirst) ==
  /\ serverFirst.nonce # <<>> /\ IsPrefix(nonce, serverFirst.nonce)
  /\ serverFirst.salt # <<>> /\ serverFirst.iterations > 0

AuthMessage(user, nonce, serverFirst) ==
  <<ClientFirstBare(user, nonce), serverFirst, serverFirst.nonce>>

SaltedPassword(password, serverFirst) ==
  Pbkdf2(password, serverFirst.salt, serverFirst.iterations)

\* clientFinalMessage(): the nonce and the proof.
ClientFinal(user, password, nonce, serverFirst) ==
  LET clientKey == Hmac(SaltedPassword(password, serverFirst), "Client Key")
      signature == Hmac(Hash(clientKey), AuthMessage(user, nonce, serverFirst))
  IN [nonce |-> serverFirst.nonce, proof |-> Xor({clientKey}, {signature})]

\* verifyServerSignature()
VerifyServerSignature(user, password, nonce, serverFirst, signature) ==
  LET serverKey == Hmac(SaltedPassword(password, serverFirst), "Server Key")
  IN signature = Hmac(serverKey, AuthMessage(user, nonce, serverFirst))
=============================================================================
