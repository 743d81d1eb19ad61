---------------------------- MODULE MCAlgorithms ----------------------------
(***************************************************************************)
(* The pure parts of the repository against what they are to compute, on   *)
(* bounded inputs: an initial state is an input, or a stream of messages   *)
(* that then arrives in every way.                                         *)
(***************************************************************************)
EXTENDS WireSamples, QuerySamples, ValidationSamples, CodecSamples, AuthSamples

VARIABLES sample, reader, messages, incoming, chunks, offset, totalLength, field, type,
          length, got, aligned

MCStreams ==
  { <<[type |-> 90, data |-> <<73>>], [type |-> 68, data |-> <<>>]>>,
    <<[type |-> 68, data |-> <<>>], [type |-> 67, data |-> <<1, 2>>]>> }

S == INSTANCE MessageStream WITH Streams <- MCStreams

\* One kind of input after the other.
Sampled ==
  \/ sample \in Sample("pg message", PgSample) \/ sample \in Sample("mysql message", MySample)
  \/ sample \in Sample("pg row", PgRow) \/ sample \in Sample("mysql row", MyRow)
  \/ sample \in Sample("number", LenEncSample) \/ sample \in ServerSample
  \/ sample \in Sample("scram", ScramSample) \/ sample \in Sample("expression", ExprSample)
  \/ sample \in Sample("query", QuerySample) \/ sample \in Sample("write", WriteSample)
  \/ sample \in Sample("stringify", StringifySample) \/ sample \in Sample("table row", RowSample)
  \/ sample \in Sample("codec", CodecSample) \/ sample \in Sample("request", RequestSample)
  \/ sample \in Sample("transcode", TranscodeSample) \/ sample \in Sample("adapter", AdapterSample)
  \/ sample \in Sample("callback", CallbackSample) \/ sample \in Sample("sign-in", SignInSample)
  \/ sample \in Sample("replay", ReplaySample) \/ sample \in Sample("endpoint", EndpointSample)
  \/ sample \in Sample("revocation", RevocationSample) \/ sample \in Sample("jwt", JwtSample)
  \/ sample \in Sample("csrf", CsrfSample) \/ sample \in Sample("cookie", CookieSample)
  \/ sample \in Sample("legacy", LegacySample)

Init ==
  \/ Sampled /\ S!InitOf("chunk", <<>>)
  \/ sample = [area |-> "stream", input |-> <<>>] /\ S!Init

Next == S!Next /\ UNCHANGED sample

vars == <<sample, S!streamVars>>
Spec == Init /\ [][Next]_vars

Is(area) == sample.area = area
Input == sample.input

-----------------------------------------------------------------------------
\* A message is framed as the protocol says: the size computed before it is
\* written is the size of what is written, for text that is longer in bytes than
\* in characters, null parameters, and bitmaps of more than one byte.  (The startup
\* message only for non-empty ASCII: it counts characters, pg-wire.ts:187-203.)
FramesExact ==
  /\ Is("pg message") /\ StartupFits(Input) => PgEncoded(Input) = Bytes(PgExpected(Input))
  /\ Is("mysql message") => MyEncoded(Input) = Bytes(MyExpected(Input))
  /\ Is("number") => /\ Len(My!LenEnc(Input)) = My!LenEncLength(Input)
                     /\ My!ReadLenEnc(My!LenEnc(Input) \o <<7>>) =
                          [value |-> Input, length |-> Len(My!LenEnc(Input))]

\* What a server says is read as it was said, and the server takes the proof of the
\* password it knows, and of no other.  (Of a field only the type: its name is read from
\* the bytes that follow it, mysql-wire.ts:325.)
ServerHeard ==
  LET l == Input
  IN CASE Is("pg error") ->
              LET r == Pg!ParseErrorResponse(Each(l, LAMBDA f : <<f[1]>> \o Z(f[2])) \o <<0>>)
              IN /\ DOMAIN r = {l[i][1] : i \in DOMAIN l}
                 /\ \A c \in DOMAIN r : \E i \in DOMAIN l :
                      l[i] = <<c, r[c]>> /\ \A j \in i + 1 .. Len(l) : l[j][1] # c
         [] Is("notification") ->
              Pg!ParseNotification(Pg!Int32(7) \o Z(l[1]) \o Z(l[2]))
                = [processId |-> 7, channel |-> l[1], payload |-> l[2]]
         [] Is("mysql error") ->
              My!ParseError(<<255, 21, 4>> \o l[1] \o Utf8(l[2]))
                = [ok |-> TRUE, code |-> 1045, message |-> l[2]]
         [] Is("greeting") ->
              My!ParseInitialHandshake(Greeting(l[1], l[2]))
                = [ok |-> TRUE, serverVersion |-> l[1], salt |-> Front(Salt(l[2]))]
         [] Is("field") -> LET f == My!ParseField(FieldOf(l)) IN f.ok /\ f.type = 3
         [] Is("packet") ->
              LET b == My!CreatePacket(l, 258)[2]
              IN /\ My!ParsePacket(b) = [sequenceId |-> 2, payload |-> l, consumed |-> Len(b)]
                 /\ My!Complete(b)
                 /\ \A n \in {0, 3, Len(b) - 1} : ~My!Complete(Prefix(b, n))
         [] Is("native password") ->
              LET stored == My!Sha1(My!Sha1(l[2]))
                  key == My!Xor(My!HashPasswordNative(l[1], "salt"), {My!Sha1(<<"salt", stored>>)})
              IN (\E k \in key : key = {k} /\ My!Sha1(k) = stored) <=> l[1] = l[2]
         [] OTHER -> TRUE

CutShort(b) == {Prefix(b, n) : n \in 0 .. Len(b) - 1}

\* A row is read as it was sent: whole numbers up to 2^53, and above the nearest double;
\* floats by their bytes, JSON, decimals and dates in text by the platform's own reading
\* of that text; and what decodeBinaryValue() has no case for (numeric, oid, date, time,
\* inet) as the text of its bytes, which is not what was meant.  The lazy row gives what the eager one gives, on
\* every column (but for MySQL's dates, which only the eager one refuses); and a row
\* that was cut short is never taken for a whole one (but by readLenEnc(), for
\* which a length that is missing is zero, mysql-wire.ts:459).
RowsDecoded ==
  /\ Is("pg row") =>
       \A fields \in {Pg!ParseRowDescription(PgDescription(Input))} :
       \A row \in {Pg!ParseDataRow(PgRowBytes(Input), fields.fields)} :
         /\ fields.ok /\ fields.fields = PgFields(Input) /\ row.ok
         /\ \A i \in DOMAIN Input :
              /\ Pg!Column(row.row, ColumnName(i)) = Input[i].value
              /\ Pg!LazyGet(PgRowBytes(Input), fields.fields, ColumnName(i)) = Input[i].value
         /\ \A b \in CutShort(PgRowBytes(Input)) : ~Pg!ParseDataRow(b, fields.fields).ok
         /\ \A b \in CutShort(PgDescription(Input)) : ~Pg!ParseRowDescription(b).ok
  /\ Is("mysql row") =>
       \A b \in {MyRowBytes(Input)}, fields \in {MyFields(Input)} :
       \A row \in {My!ParseBinaryRow(b, fields)} :
         /\ row.ok /\ row.row = [i \in DOMAIN Input |-> Input[i].value]
         /\ \A i \in DOMAIN Input : fields[i].type # My!Type.datetime =>
              My!LazyGet(b, fields, ColumnName(i)) = Input[i].value
         /\ \A p \in CutShort(b) : My!ParseBinaryRow(p, fields).ok =>
              \E i \in DOMAIN fields : My!Width(fields[i].type) = 0

\* The wire carries what was meant, in both directions, but for what the three parts except.
WireExact == FramesExact /\ ServerHeard /\ RowsDecoded

\* The client accepts a server exactly when it has the password's keys and its
\* nonce extends the client's; and then the server accepts the client.
ScramMutual ==
  Is("scram") =>
    LET first == ServerFirst(Input)
        final == Sc!ClientFinal("u", "secret", <<1>>, first)
        accepts == /\ Sc!Accepts(<<1>>, first)
                   /\ Sc!VerifyServerSignature("u", "secret", <<1>>, first, ServerSignature(Input))
    IN /\ accepts => ServerTakes(Input, final) /\ Input.known = "secret"
       /\ Sc!Accepts(<<1>>, first) =>
            Input.nonce \in {<<1>>, <<1, 2>>} /\ Input.salt # <<>> /\ Input.iterations > 0
       /\ Input.known = "secret" /\ Sc!Accepts(<<1>>, first) => accepts

\* SQL reads back as the expression it was compiled from: parentheses keep what was
\* nested nested although chains are flattened by a stack, every placeholder stands
\* for the value at its place over all the clauses, and a name, an operator or a
\* function that is not allowed compiles to nothing.
QueryReadsBack ==
  /\ Is("expression") =>
       LET odd == Input \in Odd \/ (Input.type = "binary" /\ Input.left \in Odd)
           sql == Q!CompileDelete("t", <<Input>>)
       IN IF odd THEN sql = Q!Refused
          ELSE Clauses(sql.sql, sql.params) = <<<<"WHERE", Plain(Input)>>>>
  /\ Is("query") =>
       LET s == Q!ExecutedSelect(Input.builder, Input.context)
           sql == Q!CompileSelect(s)
       IN s.columns # <<>> => Clauses(sql.sql, sql.params) = StatementClauses(s)

Hidden(table, scopes, c) ==
  /\ c.name \in ToSet(table.columns)
  /\ table.policy[c.name].redact = "hide" /\ ~Q!HasScope(table.policy[c.name], scopes)

\* A context's filters make a query mean what it means over the rows the context may
\* see: inner and left joins keep the unmatched rows they had (a filter of a joined
\* table is no condition on the result), an OR of the caller does not weaken a
\* filter, and a builder that is executed again does the same again though its joins
\* were changed by the first time.  (Not so for right and full joins, whose ON does not
\* restrict the joined table.)  No hidden column is selected.
ReadsKept ==
  Is("query") =>
    LET b == Input.builder
        ctx == Input.context
        s == Q!ExecutedSelect(IF Input.times = 1 THEN b ELSE Q!BuilderAfter(b, ctx), ctx)
        visible(t) == Visible(t, ctx)
    IN /\ Selected(s, Rows(b.base), JoinedRows(b, Rows))
            = Selected(b, visible(b.base), JoinedRows(b, visible))
       /\ ctx # Q!NoContext =>
            \A c \in ToSet(s.columns) :
              /\ c.type = "name" => ~Hidden(b.base, ctx.scopes, c)
              /\ c.type = "column" => ~\E t \in {b.base} \cup {j.table : j \in ToSet(b.joins)} :
                                         t.name = c.table /\ Hidden(t, ctx.scopes, c)

\* An update and a delete touch the rows their context may see, by a policy of the
\* table's own too, and no others.  Of what is written there is one check: an insert
\* into a table with a column userId fills it in with the context's user, and is refused
\* when it names another.  An insert consults no policy of the table (builder.ts:488-497),
\* an update may give a row to another user, and an upsert does neither: such values are
\* written as they are given.
WritesKept ==
  Is("write") =>
    LET t == Input.table
        ctx == Input.context
        owned == ctx.user # "" /\ "userId" \in ToSet(t.columns)
        rows(e) == {r \in Visible(t, ctx) : Holds([base |-> t], [base |-> <<r>>, joined |-> <<>>], e)}
        before == UNION {{e} : e \in ToSet(Input.where)}
        sql == CASE Input.op = "insert" -> Q!ExecutedInsert(t, Input.values, ctx)
                 [] Input.op = "upsert" -> Q!CompileUpsert(t.name, Input.values, <<"id">>)
                 [] Input.op = "update" -> Q!ExecutedUpdate(t, Input.values, Input.where, ctx)
                 [] Input.op = "delete" -> Q!ExecutedDelete(t, Input.where, ctx)
        clauses == Clauses(sql.sql, sql.params)
        touched == IF clauses = <<>> \/ Last(clauses)[1] # "WHERE" THEN Rows(t)
                   ELSE {r \in Rows(t) :
                           Holds([base |-> t], [base |-> <<r>>, joined |-> <<>>], Last(clauses)[2])}
    IN CASE Input.op = "insert" ->
              IF owned /\ \E u \in UserOf(Input.values) : u # ctx.user THEN sql = Q!Refused
              ELSE LET ids == SelectSeq(sql.sql, LAMBDA k : k[1] = "id")
                       given == [i \in DOMAIN sql.params |-> <<ids[i + 1][2], sql.params[i]>>]
                   IN /\ IsPrefix(Input.values, given)
                      /\ owned => UserOf(given) = {ctx.user}
                      /\ ~owned => given = Input.values
         [] Input.op = "upsert" -> sql.params = [i \in DOMAIN Input.values |-> Input.values[i][2]]
         [] OTHER -> touched = IF before = {} THEN Visible(t, ctx)
                               ELSE rows(Input.where[1])

\* A context's policies are kept by queries, and by writes as far as WritesKept says.
PoliciesKept == ReadsKept /\ WritesKept

\* What is shown of a value is what its schema's structure says: every policy is found
\* again under the pointer it was collected by, for keys that need escaping too; an
\* object that is shared is no cycle, and one that contains itself is refused at
\* whatever depth.  (Not so for a policy set on an optional or nullable schema itself,
\* nullable.ts:26-39, and for keys that are empty or end with a space.)  A row of a table
\* is shown when its cell is of its column's type, a date only as the empty object of its
\* entries (stringify.ts:90), and under the policy of its column; but a date or JSON
\* column that has one and is not nullable has no schema (guard.ts:87 calls itself).
PoliciesShown ==
  /\ Is("stringify") =>
       \A r \in {V!Stringify(Input.heap, Input.schema, Node(1), Input.granted, Input.maxDepth)} :
       \A shown \in {Shown(Input.heap, Input.schema, Node(1), Input.granted)} :
         IF ~Conforms(Input.heap, Input.schema, Node(1), Input.maxDepth, {})
         THEN ~r.ok /\ r.code # "FORBIDDEN_SCOPE"
         ELSE /\ r.ok = shown.ok
              /\ r.ok => r = IF shown.present THEN shown ELSE V!Present(<<"null">>)
  /\ Is("table row") =>
       LET column == Input.column
           v == Input.cell
           schema == V!ToValidationSchema(<<<<A, column>>>>)
           r == V!Stringify(<<<<"object", <<<<A, v>>>>>>>>, schema, Node(1), {}, 20)
           guarded == column.policy # <<>> /\ (column.nullable => v = <<"null">>)
       IN IF column.type \in {"date", "json"} /\ column.policy # <<>> /\ ~column.nullable
          THEN schema = V!Throws
          ELSE /\ r.ok <=> \/ column.type = "json" \/ v[1] = column.type
                           \/ v = <<"null">> /\ column.nullable
               /\ r.ok => r.value = <<"object", <<<<A, IF guarded THEN V!Redacted
                                                     ELSE IF v[1] = "date" THEN <<"object", <<>>>>
                                                     ELSE v>>>>>>

\* A value arrives as it was sent, from a slab of any size, its numbers as 32-bit ones or
\* as doubles; the server's encoding of what arrived is the client's, so that a signature
\* holds exactly for the request it was made of; and of a value that was cut short
\* nothing arrives.  What does not arrive is refused, never taken for another value: what
\* is over the reader's limits on strings and items, which the writer does not have, and
\* a value with a part that writes nothing.  encode() takes what fits in half of its
\* limit; above, that depends on how the slab grew.  A request is answered when nothing
\* on its way throws.  A row that the transcoder copies into a slab without room for it
\* throws, or returns an offset past the slab's end.
CodecExact ==
  /\ Is("codec") =>
       \A e \in {H!Encode(Input.value, Input.capacity)} :
       \A d \in {H!Decode(e.bytes)} :
         /\ e.ok => Len(e.bytes) = Size(Input.value) /\ Size(Input.value) <= 128
         /\ 2 * Size(Input.value) <= 128 => e.ok
         /\ e.ok => (d.ok <=> Readable(Input.value))
         /\ e.ok /\ d.ok => d.value = Arrived(Input.value) /\ H!Encode(d.value, 128).bytes = e.bytes
         /\ e.ok => \A b \in CutShort(e.bytes) : ~H!Decode(b).ok
  /\ Is("request") =>
       \A sent \in {H!ClientRequest("s", Query, Input.params)} :
       \A status \in {H!HandleRequest(IF Input.known THEN {Query} ELSE {},
                       IF Input.registered THEN {Query} ELSE {}, IF Input.same THEN "s" ELSE "t",
                       Input.maxSize, Input.contentLength, sent.body, sent.signature, Input.result)} :
         LET large == Input.contentLength > Input.maxSize \/ Len(sent.body) > Input.maxSize
         IN sent.ok =>
              /\ status \in {200, 403, 413} /\ (status = 413 <=> large)
              /\ status = 200 => Input.known /\ Input.registered /\ Input.same
                                 /\ Readable(Input.params) /\ Input.result # H!ThrowsResult
              /\ status = 403 /\ Input.known /\ Input.registered /\ Input.same =>
                   \/ ~Readable(Input.params) \/ Input.result = H!ThrowsResult
                   \/ 2 * Size(Input.result) > 128
  /\ Is("transcode") =>
       LET meant == <<"object", Whitelisted(Input.row, Input.whitelist)>>
       IN \A slab \in {H!TranscodePgRow(RowData(Input.row), RowFields(Input.row), Input.whitelist,
                                        SlabWith(Input.before, Input.capacity))} :
          \A d \in {H!Decode(H!Drop(slab.bytes, Input.before))} :
            /\ slab.ok /\ slab.offset <= Input.capacity <=>
                 Input.before + Size(meant) <= Input.capacity
            /\ slab.ok /\ slab.offset <= Input.capacity =>
                 IF Readable(meant) THEN d.ok /\ d.value = meant ELSE ~d.ok

\* An adapter over a database answers as the in-memory one does, through every sequence
\* of calls, until one of the known differences (AuthSamples!Diverges) tells them apart.
AdaptersAgree ==
  Is("adapter") => \A a \in {"sql", "pureq"} : Follows(a, Ad!Empty, Ad!Empty, Input)

\* A sign-in ends with tokens exactly when the user comes back with the answer to it (and
\* the client is known, shows the nonce, and has changed none of what the URL said: the
\* verifier that is returned does not belong to a challenge of the caller's; and the
\* provider takes the method of the challenge); a code
\* goes to the provider once until its time is over, or more than MAX_REPLAY_ENTRIES
\* codes came between; and a flow answers as its first look at the discovery
\* document went, however that was.
SignInsSound ==
  /\ Is("callback") => LET r == O!ParseOIDCCallbackParams(Input.params, Input.expected)
                       IN ~O!Failed(r) <=> Belongs(Input.params, Input.expected)
  /\ Is("sign-in") =>
       LET g == Input.given
           kept == g.extraParams = <<>> \/ g.extraParams[1][1] = "prompt"
       IN ~O!Failed(SignIn(Input)) <=>
            /\ Input.method # "none" /\ g.codeChallenge = <<>> /\ kept
            /\ Input.nonced /\ Input.issuer # <<"elsewhere">> /\ ~Input.other
            /\ g.codeChallengeMethod \notin Input.refuses
  /\ Is("replay") =>
       LET sent == Replayed(Input)
           replay(i) == \E j \in 1 .. i - 1 : /\ sent[j] /\ Input[j].code = Input[i].code
                                             /\ Time(Input, i) - Time(Input, j) < 2
       IN \A i \in DOMAIN Input :
            /\ ~sent[i] => replay(i)
            /\ sent[i] /\ replay(i) => Cardinality({Input[j].code : j \in 1 .. i - 1}) > 2
  /\ Is("endpoint") =>
       \A i \in DOMAIN Input :
         Asked(Input)[i] <=> /\ Input[1].discovery = "loaded" /\ Input[i].endpoint \in Endpoints
                             /\ Input[i].ok \/ Input[i].endpoint = "end_session"

\* A key is revoked as long as the last revocation says, and no longer than until clear(),
\* whatever was looked up or cleaned in between (not so with a backend that answers with
\* promises, revocation/index.ts:87-96); a JWT is accepted when it is as it was
\* issued, under an allowed algorithm, with the issuer's key, in its time; a write
\* needs the expected CSRF token; a session is read from the request as it was
\* sent in cookies, whatever its characters and whatever other cookies there are (up
\* to the limits on them); the tokens of a legacy session are of one level, or are
\* the text that is given, and nested text is nothing.
TokensSound ==
  /\ Is("revocation") =>
       LET s == RegistryAfter(Input.events)
       IN \A c \in Claims :
            T!RevocationPasses(FALSE, s.registry, <<c>>, s.now) <=>
              \A b \in T!Buckets : c[T!ClaimOf[b]] = <<"k">> => ~StillRevoked(Input.events, b, s.now)
  /\ Is("jwt") =>
       LET ours == Input.by[2] = Input.key.id /\ (Input.key.type = "text" <=> Input.by[1] = "HS256")
           p == Input.payload
       IN T!VerifyJwt(Presented(Input), [algorithms |-> Input.algorithms, key |-> Input.key, issuer |-> <<"i">>,
                        audience |-> <<"me">>, clockTolerance |-> Input.tolerance], 4)
          <=> /\ Input.changed = "nothing" /\ ours /\ Input.by[1] \in Input.algorithms
              /\ p.exp = <<3>> => Input.tolerance > 1
              /\ p.nbf = <<5>> => Input.tolerance = 1
              /\ p.iss = <<"i">> /\ p.aud # <<>>
  /\ Is("csrf") =>
       (T!VerifyCsrf(Input, Input.expected) <=>
          \/ Input.method = "GET"
          \/ /\ Input.expected = "t"
             /\ LET h == IF Input.headers = <<>> THEN "" ELSE Input.headers[1].value
                IN h = "t" \/ (h = "" /\ Input.query = "t"))
  /\ Is("cookie") =>
       LET sent == Sent(Input)
           read == T!ReadSession(sent.header, Input.bearer)
       IN Len(sent.header) <= 14 /\ sent.segments <= 3 =>
            /\ read.accessToken = IF Input.accessToken = <<>> THEN Input.bearer ELSE Input.accessToken
            /\ read.refreshToken = Input.refreshToken
  /\ Is("legacy") =>
       LET store == T!MigrateLegacyTokensToStore(Input)
           inner == Len(Input) = 2 /\ ~IsText(Input[2]) /\ Named(Input[2], "inner")
       IN /\ store.accessToken = IF inner THEN <<"inner">>
                                 ELSE IF Named(Input[1], "outer") THEN <<"outer">> ELSE <<>>
          /\ store.refreshToken \in {<<>>, store.accessToken}

\* The three readers put the messages of a stream together again.
MessagesIntact == S!MessagesIntact
=============================================================================
