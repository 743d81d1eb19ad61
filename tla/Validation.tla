----------------------------- MODULE Validation -----------------------------
(***************************************************************************)
(* packages/validation: parsing a value by a schema, which collects the    *)
(* policy of every place under its JSON pointer, and stringify(), which    *)
(* looks the policies up by pointer again.                                 *)
(*                                                                         *)
(* A value is a tuple whose first item is its type; an object or an array  *)
(* is <<"node", n>>, whose content is h[n], so that it can be shared and   *)
(* cyclic.  A key and a pointer are sequences of characters.               *)
(***************************************************************************)
EXTENDS Integers, SequencesExt

ForbiddenKeys == {<<"__proto__">>, <<"constructor">>, <<"prototype">>}
Undefined == <<"undefined">>
NoPolicy == [redact |-> "none", pii |-> FALSE, scope |-> {}, onDenied |-> "error"]

\* The later policy wins where it is one value, its defaults included.
MergePolicy(base, next) ==
  [redact |-> next.redact, pii |-> base.pii \/ next.pii, scope |-> base.scope \cup next.scope,
   onDenied |-> next.onDenied]

-----------------------------------------------------------------------------
(* JSON pointers *)

Replaced(token, char, by) ==
  FlattenSeq([i \in DOMAIN token |-> IF token[i] = char THEN by ELSE <<token[i]>>])
RECURSIVE ReplacedPair(_, _, _, _)
ReplacedPair(token, a, b, by) ==
  IF Len(token) < 2 THEN token
  ELSE IF token[1] = a /\ token[2] = b
  THEN <<by>> \o ReplacedPair(SubSeq(token, 3, Len(token)), a, b, by)
  ELSE <<token[1]>> \o ReplacedPair(Tail(token), a, b, by)

EscapeToken(token) == Replaced(Replaced(token, "~", <<"~", "0">>), "/", <<"~", "1">>)
MutUnescapeToken(token) ==        \* mutant: the tilde first, which may then stand before a 1
  ReplacedPair(ReplacedPair(token, "~", "0", "~"), "~", "1", "/")
UnescapeToken(token) == ReplacedPair(ReplacedPair(token, "~", "1", "/"), "~", "0", "~")

EncodeJsonPointer(tokens) ==
  IF tokens = <<>> THEN <<"/">>
  ELSE FlattenSeq([i \in DOMAIN tokens |-> <<"/">> \o EscapeToken(tokens[i])])

RECURSIVE Split(_)
Split(path) ==                                                      \* split("/")
  LET at == {i \in DOMAIN path : path[i] = "/"}
      k == CHOOSE i \in at : \A j \in at : i <= j
  IN IF at = {} THEN <<path>>
     ELSE <<SubSeq(path, 1, k - 1)>> \o Split(SubSeq(path, k + 1, Len(path)))
DecodeJsonPointer(pointer) ==
  IF pointer = <<"/">> \/ Head(pointer) # "/" THEN <<>>
  ELSE LET raw == Split(Tail(pointer)) IN [i \in DOMAIN raw |-> UnescapeToken(raw[i])]

RECURSIVE Trim(_)
Trim(path) ==
  IF path = <<>> THEN path
  ELSE IF Head(path) = " " THEN Trim(Tail(path))
  ELSE IF Last(path) = " " THEN Trim(Front(path)) ELSE path
\* Of a path that is a pointer already; the looser forms are not modelled.
NormalizePath(path) ==
  IF Trim(path) = <<>> THEN <<"/">> ELSE EncodeJsonPointer(DecodeJsonPointer(Trim(path)))

-----------------------------------------------------------------------------
(* Schemas: a record with its kind, its policy and what the kind needs *)

Schema(kind, policy) == [kind |-> kind, policy |-> policy]
Text(formats, policy) == [kind |-> "string", formats |-> formats, policy |-> policy]
ListOf(item, policy) == [kind |-> "array", item |-> item, policy |-> policy]
Shape(shape, policy) == [kind |-> "object", shape |-> shape, policy |-> policy]
Maybe(kind, inner) == [kind |-> kind, inner |-> inner, policy |-> inner.policy]
Guard(outcome, policy) == [kind |-> "guard", outcome |-> outcome, policy |-> policy]
Throws == [kind |-> "throws"]
\* schema.policy().  That of a guard schema makes another guard schema and calls its
\* policy(), without end: a RangeError.
WithPolicy(schema, policy) ==
  IF schema.kind = "guard" THEN Throws ELSE [schema EXCEPT !.policy = MergePolicy(@, policy)]

Failed(code, path) == [ok |-> FALSE, code |-> code, path |-> path]
Parsed(data, path, policy) == [ok |-> TRUE, data |-> data, policies |-> path :> policy]

\* What the function of a guard returns: one outcome, or "Date": value instanceof Date.
GuardOutcome(s, v) ==
  IF s.outcome = "Date" THEN IF v[1] = "date" THEN "true" ELSE "false" ELSE s.outcome

\* What createGuard() makes of a synchronous function, and parse() of a promise.
GuardCode(outcome) ==
  CASE outcome = "false" -> "GUARDRAIL_FAILED"
    [] outcome \in {"throws", "promise"} -> "INTERNAL_GUARD_EXCEPTION"

ParsePrimitive(s, v, path) ==
  IF v[1] # s.kind THEN Failed("INVALID_TYPE", path)
  ELSE IF s.kind = "string" /\ ~s.formats \subseteq v[3] THEN Failed("INVALID_FORMAT", path)
  ELSE Parsed(v, path, s.policy)

RECURSIVE Parse(_, _, _, _, _, _, _), ParseEach(_, _, _, _, _, _)
\* Items are <<token, schema, value>>; the first that fails ends the loop.
ParseEach(h, items, tokens, depth, maxDepth, seen) ==
  LET item == Head(items)
      path == EncodeJsonPointer(Append(tokens, item[1]))
      first == Parse(h, item[2], item[3], path, depth, maxDepth, seen)
      rest == ParseEach(h, Tail(items), tokens, depth, maxDepth, seen)
  IN IF items = <<>> THEN [ok |-> TRUE, data |-> <<>>, policies |-> <<>>]
     ELSE IF item[1] \in ForbiddenKeys THEN Failed("FORBIDDEN_KEY", path)
     ELSE IF ~first.ok THEN first
     ELSE IF ~rest.ok THEN rest
     ELSE [ok |-> TRUE, data |-> <<<<item[1], first.data>>>> \o rest.data,
           policies |-> rest.policies @@ first.policies]

ValueAt(entries, key) ==                                            \* source[key]
  LET at == {i \in DOMAIN entries : entries[i][1] = key}
  IN IF at = {} THEN Undefined ELSE entries[CHOOSE i \in at : TRUE][2]
Index(i) == <<ToString(i)>>

ParseComposite(h, s, v, path, depth, maxDepth, seen) ==
  LET pointer == NormalizePath(path)
      content == h[v[2]][2]
      items == IF s.kind = "array"
               THEN [i \in DOMAIN content |-> <<Index(i - 1), s.item, content[i]>>]
               ELSE [i \in DOMAIN s.shape |->
                       <<s.shape[i][1], s.shape[i][2], ValueAt(content, s.shape[i][1])>>]
      each == ParseEach(h, items, DecodeJsonPointer(pointer), depth + 1, maxDepth, seen \cup {v[2]})
  IN IF depth >= maxDepth THEN Failed("MAX_DEPTH_EXCEEDED", pointer)
     ELSE IF v[1] # "node" THEN Failed("INVALID_TYPE", pointer)
     ELSE IF h[v[2]][1] # s.kind THEN Failed("INVALID_TYPE", pointer)
     ELSE IF v[2] \in seen THEN Failed("CYCLIC_REFERENCE", pointer)
     ELSE IF ~each.ok THEN each
     ELSE [ok |-> TRUE, data |-> <<s.kind, each.data>>,
           policies |-> each.policies @@ pointer :> s.policy]

\* A wrapper's own policy is that of the null it lets through, never of a value.
Parse(h, s, v, path, depth, maxDepth, seen) ==
  CASE s.kind \in {"array", "object"} -> ParseComposite(h, s, v, path, depth, maxDepth, seen)
    [] s.kind \in {"string", "number", "boolean"} -> ParsePrimitive(s, v, NormalizePath(path))
    [] s.kind = "optional" -> IF v = Undefined THEN Parsed(v, path, s.policy)
                              ELSE Parse(h, s.inner, v, path, depth, maxDepth, seen)
    [] s.kind = "nullable" -> IF v = <<"null">> THEN Parsed(v, path, s.policy)
                              ELSE Parse(h, s.inner, v, path, depth, maxDepth, seen)
    [] s.kind = "guard" -> IF GuardOutcome(s, v) = "true" THEN Parsed(v, path, s.policy)
                           ELSE Failed(GuardCode(GuardOutcome(s, v)), path)

-----------------------------------------------------------------------------
(* stringify() *)

HasAccess(required, granted) == required = {} \/ required \cap granted # {}
Present(value) == [ok |-> TRUE, present |-> TRUE, value |-> value]
Absent == [ok |-> TRUE, present |-> FALSE]
Redacted == <<"string", "[REDACTED]", {}>>

ChildPath(path, key) == (IF path = <<"/">> THEN <<>> ELSE path) \o <<"/">> \o EscapeToken(key)

RECURSIVE RenderValue(_, _, _, _), RenderEach(_, _, _, _)
RenderEach(entries, path, policies, granted) ==
  LET child == RenderValue(Head(entries)[2], ChildPath(path, Head(entries)[1]), policies, granted)
      rest == RenderEach(Tail(entries), path, policies, granted)
  IN IF entries = <<>> THEN Present(<<>>)
     ELSE IF ~child.ok THEN child
     ELSE IF ~rest.ok THEN rest
     ELSE Present((IF child.present THEN <<<<Head(entries)[1], child.value>>>> ELSE <<>>)
                  \o rest.value)

RenderValue(value, path, policies, granted) ==
  LET policy == IF path \in DOMAIN policies THEN policies[path] ELSE NoPolicy
      each == RenderEach(value[2], path, policies, granted)
  IN IF ~HasAccess(policy.scope, granted)
     THEN IF policy.onDenied = "drop" THEN Absent ELSE Failed("FORBIDDEN_SCOPE", path)
     ELSE IF policy.pii /\ policy.redact = "hide" THEN Absent
     ELSE IF policy.pii /\ policy.redact = "mask" THEN Present(Redacted)
     ELSE IF value[1] = "date" THEN Present(<<"object", <<>>>>)    \* it has no entries
     ELSE IF value[1] \notin {"array", "object"} THEN Present(value)
     ELSE IF ~each.ok THEN each
     ELSE IF value[1] = "object" THEN Present(<<"object", each.value>>)
     ELSE Present(<<"array", [i \in DOMAIN each.value |-> each.value[i][2]]>>)

Stringify(h, s, v, granted, maxDepth) ==
  LET parsed == Parse(h, s, v, <<"/">>, 0, maxDepth, {})
      rendered == RenderValue(parsed.data, <<"/">>, parsed.policies, granted)
  IN IF ~parsed.ok THEN parsed
     ELSE IF ~rendered.ok THEN rendered
     ELSE IF ~rendered.present THEN Present(<<"null">>) ELSE rendered

-----------------------------------------------------------------------------
(* The schema of a table's rows, of packages/db.  A column is [type, nullable, *)
(* policy], its policy a list of at most one.                                   *)

BaseSchema(type) ==
  CASE type \in {"string", "uuid"} -> Text({}, NoPolicy)
    [] type \in {"number", "boolean"} -> Schema(type, NoPolicy)
    [] type = "date" -> Guard("Date", NoPolicy)
    [] type = "json" -> Guard("true", NoPolicy)

ColumnToValidationSchema(column) ==
  LET base == BaseSchema(column.type)
      schema == IF column.nullable THEN Maybe("nullable", base) ELSE base
  IN IF column.policy = <<>> THEN schema ELSE WithPolicy(schema, column.policy[1])

ToValidationSchema(columns) ==                     \* columns: pairs <<name, column>>
  LET shape == [i \in DOMAIN columns |->
                  <<columns[i][1], ColumnToValidationSchema(columns[i][2])>>]
  IN IF \E i \in DOMAIN shape : shape[i][2] = Throws THEN Throws ELSE Shape(shape, NoPolicy)
=============================================================================
