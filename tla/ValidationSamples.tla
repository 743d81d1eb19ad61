------------------------- MODULE ValidationSamples -------------------------
(***************************************************************************)
(* Schemas and values to stringify, and what should be shown of a value by *)
(* the structure of its schema alone, without pointers.                    *)
(***************************************************************************)
EXTENDS Integers, SequencesExt

V == INSTANCE Validation

P(redact, pii, scope, onDenied) ==
  [redact |-> redact, pii |-> pii, scope |-> scope, onDenied |-> onDenied]
LeafPolicy == {V!NoPolicy, P("mask", TRUE, {}, "error"), P("hide", TRUE, {}, "error"),
               P("mask", FALSE, {}, "error"), P("none", FALSE, {"s"}, "drop"),
               P("none", TRUE, {"s", "t"}, "error")}
NodePolicy == {V!NoPolicy, P("hide", TRUE, {}, "error"), P("none", FALSE, {"s"}, "drop")}

A == <<"a">>
Str(s) == <<"string", s, {}>>
Node(n) == <<"node", n>>
\* A tree, one whose node 2 is shared, one whose node 2 is its own child, wrong types.
Heaps(key) ==
  { <<<<"object", <<<<A, Str("x")>>, <<key, Node(2)>>>>>>, <<"array", <<Str("y"), Str("z")>>>>>>,
    <<<<"object", <<<<A, Str("x")>>, <<key, Node(2)>>>>>>, <<"array", <<Node(2)>>>>>>,
    <<<<"object", <<<<key, Node(2)>>>>>>, <<"array", <<<<"number", 1>>>>>>>>,
    <<<<"object", <<<<A, <<"null">>>>, <<key, Node(2)>>>>>>, <<"array", <<>>>>>> }

Deep(key, p1, p2, p3, p4) ==
  V!Shape(<<<<A, V!Maybe("optional", V!WithPolicy(V!Text({}, V!NoPolicy), p1))>>,
            <<key, V!WithPolicy(V!ListOf(V!WithPolicy(V!Text({}, V!NoPolicy), p2), V!NoPolicy), p3)>>>>, p4)
\* Node 2 twice under one schema, and inside itself.
Shared(key, p1, p2) ==
  V!Shape(<<<<key, V!ListOf(V!ListOf(V!Text({}, p1), p2), V!NoPolicy)>>>>, V!NoPolicy)
SharedHeaps(key) ==
  { <<<<"object", <<<<key, Node(2)>>>>>>, <<"array", <<Node(3), Node(3)>>>>, <<"array", <<Str("x")>>>>>>,
    <<<<"object", <<<<key, Node(2)>>>>>>, <<"array", <<Node(3), Node(2)>>>>, <<"array", <<>>>>>> }

Keys == {<<"b">>, <<"/">>, <<"~", "1">>, <<"a", "/", "b">>}
StringifySample ==
  UNION {
    [schema : {Deep(key, p1, p2, p3, p4) : p1, p2 \in LeafPolicy, p3, p4 \in NodePolicy},
     heap : Heaps(key), granted : {{}, {"s"}}, maxDepth : {20}] : key \in {<<"/">>, <<"~", "1">>} }
  \cup UNION {
    [schema : {Shared(key, p1, p2) : p1, p2 \in LeafPolicy}, heap : SharedHeaps(key),
     granted : {{}, {"t"}}, maxDepth : {1, 2, 20}] : key \in Keys }
  \cup [schema : {V!Shape(<<<<A, V!Guard(o, V!NoPolicy)>>>>, V!NoPolicy) :
                    o \in {"true", "false", "throws", "promise"}}
                 \cup {V!Shape(<<<<<<"__proto__">>, V!Text({}, V!NoPolicy)>>>>, V!NoPolicy),
                       V!Shape(<<<<A, V!Text({"uuid"}, V!NoPolicy)>>>>, V!NoPolicy)},
        heap : Heaps(<<"b">>), granted : {{}}, maxDepth : {20}]

ColumnSample ==
  [type : {"string", "number", "boolean", "date", "json"}, nullable : BOOLEAN,
   policy : {<<>>, <<P("mask", TRUE, {}, "error")>>}]
CellSample == {Str("x"), <<"number", 1>>, <<"boolean", TRUE>>, <<"date", 0>>, <<"null">>,
               V!Undefined}
RowSample == [column : ColumnSample, cell : CellSample]

-----------------------------------------------------------------------------
RECURSIVE Conforms(_, _, _, _, _)
\* depth: how many levels are left
Conforms(h, s, v, depth, ancestors) ==
  CASE s.kind \in {"string", "number", "boolean"} ->
         v[1] = s.kind /\ (s.kind = "string" => s.formats \subseteq v[3])
    [] s.kind = "guard" -> s.outcome = "true"
    [] s.kind = "optional" -> v = V!Undefined \/ Conforms(h, s.inner, v, depth, ancestors)
    [] s.kind = "nullable" -> v = <<"null">> \/ Conforms(h, s.inner, v, depth, ancestors)
    [] OTHER ->
         /\ depth > 0 /\ v[1] = "node"
         /\ h[v[2]][1] = s.kind /\ v[2] \notin ancestors
         /\ LET of(sub, value) == Conforms(h, sub, value, depth - 1, ancestors \cup {v[2]})
                content == h[v[2]][2]
            IN IF s.kind = "array" THEN \A i \in DOMAIN content : of(s.item, content[i])
               ELSE \A i \in DOMAIN s.shape :
                      /\ s.shape[i][1] \notin V!ForbiddenKeys
                      /\ of(s.shape[i][2], V!ValueAt(content, s.shape[i][1]))

Denied == [ok |-> FALSE]
RECURSIVE Shown(_, _, _, _)
Shown(h, s, v, granted) ==
  LET wrapped == s.kind \in {"optional", "nullable"} /\ v \notin {V!Undefined, <<"null">>}
      p == s.policy
      content == h[v[2]][2]
      all == IF s.kind = "array"
             THEN [i \in DOMAIN content |-> Shown(h, s.item, content[i], granted)]
             ELSE [i \in DOMAIN s.shape |->
                     Shown(h, s.shape[i][2], V!ValueAt(content, s.shape[i][1]), granted)]
      keyed == [i \in DOMAIN all |-> [of |-> all[i], key |-> IF s.kind = "array" THEN A ELSE s.shape[i][1]]]
      left == SelectSeq(keyed, LAMBDA k : k.of.present)
  IN IF wrapped THEN Shown(h, s.inner, v, granted)
     ELSE IF p.scope # {} /\ p.scope \cap granted = {}
     THEN IF p.onDenied = "drop" THEN V!Absent ELSE Denied
     ELSE IF p.pii /\ p.redact = "hide" THEN V!Absent
     ELSE IF p.pii /\ p.redact = "mask" THEN V!Present(V!Redacted)
     ELSE IF s.kind \notin {"array", "object"} THEN V!Present(v)
     ELSE IF \E i \in DOMAIN all : ~all[i].ok THEN Denied
     ELSE V!Present(<<s.kind, [i \in DOMAIN left |->
            IF s.kind = "array" THEN left[i].of.value ELSE <<left[i].key, left[i].of.value>>]>>)
=============================================================================
