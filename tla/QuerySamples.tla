---------------------------- MODULE QuerySamples ----------------------------
(***************************************************************************)
(* Queries to compile, a reader of the SQL they compile to, and what a     *)
(* query means over rows.                                                  *)
(***************************************************************************)
EXTENDS Integers, SequencesExt

Q == INSTANCE QueryCompiler WITH Identifiers <- {"a", "t", "id", "userId", "owner", "body",
                                                 "users", "posts", "notes"}

-----------------------------------------------------------------------------
(* Reading SQL back: an expression, what is left of the tokens and the values *)

Constant(holds) == [type |-> "constant", holds |-> holds]
Reading(expr, sql, values) == [expr |-> expr, sql |-> sql, values |-> values]
From(sql, n) == SubSeq(sql, n, Len(sql))

RECURSIVE ReadExpr(_, _), ReadOperands(_, _, _, _)
ReadOperands(sql, values, operands, op) ==
  LET r == ReadExpr(sql, values)
      all == Append(operands, r.expr)
  IN IF r.sql[1] = Q!Sql(")")
     THEN [operands |-> all, op |-> op, sql |-> Tail(r.sql), values |-> r.values]
     ELSE ReadOperands(Tail(r.sql), r.values, all, r.sql[1][2])

Operation(r) ==
  IF r.op \in {"none", ","} THEN [type |-> "list", items |-> r.operands]
  ELSE IF r.op = "->>" THEN Q!Fun("JSON_EXTRACT", r.operands)
  ELSE IF r.op \in {"IN", "NOT IN"} /\ r.operands[2].type = "list"
  THEN Q!Bin(r.operands[1], r.op,
             Q!Many([i \in DOMAIN r.operands[2].items |-> r.operands[2].items[i].value]))
  ELSE FoldLeft(LAMBDA acc, e : Q!Bin(acc, r.op, e), Head(r.operands), Tail(r.operands))

ReadExpr(sql, values) ==
  CASE sql[1][1] = "id" ->
         IF Len(sql) > 1 /\ sql[2] = Q!Sql(".")
         THEN Reading(Q!Col(sql[3][2], sql[1][2]), From(sql, 4), values)
         ELSE Reading(Q!Col(sql[1][2], ""), Tail(sql), values)
    [] sql[1] = Q!Placeholder -> Reading(Q!Lit(values[1]), Tail(sql), Tail(values))
    [] sql[1] = Q!Sql("*") -> Reading(Constant(TRUE), Tail(sql), values)
    [] sql[1] = Q!Sql("(1 = 0)") -> Reading(Constant(FALSE), Tail(sql), values)
    [] sql[1] = Q!Sql("(1 = 1)") -> Reading(Constant(TRUE), Tail(sql), values)
    [] sql[1] = Q!Sql("(") ->
         LET r == ReadOperands(Tail(sql), values, <<>>, "none")
         IN Reading(Operation(r), r.sql, r.values)
    [] OTHER -> LET r == ReadOperands(From(sql, 3), values, <<>>, "none")
                IN Reading(Q!Fun(sql[1][2], r.operands), r.sql, r.values)

\* The clauses of a statement, each with its expression.
Keywords == {"SELECT", ",", "ON", "WHERE", "HAVING", "=", "VALUES"}
RECURSIVE Clauses(_, _)
Clauses(sql, values) ==
  IF sql = <<>> THEN <<>>
  ELSE IF sql[1][1] = "sql" /\ sql[1][2] \in Keywords
  THEN LET r == ReadExpr(Tail(sql), values)
       IN <<<<sql[1][2], r.expr>>>> \o Clauses(r.sql, r.values)
  ELSE Clauses(Tail(sql), values)

-----------------------------------------------------------------------------
(* Expressions and statements *)

Leaf == {Q!Col("a", ""), Q!Col("a", "t"), Q!Lit("1")}
Binary(lefts, ops, rights) == {Q!Bin(l, o, r) : l \in lefts, o \in ops, r \in rights}
Membership ==
  Binary(Leaf, {"IN", "NOT IN"}, {Q!Many(vs) : vs \in {<<>>, <<"2">>, <<"2", "3">>}})
Calls == {Q!Fun("LOWER", <<l>>) : l \in Leaf}
           \cup {Q!Fun("JSON_EXTRACT", <<Q!Col("a", ""), Q!Lit("$")>>)}
Simple == Leaf \cup Calls \cup Binary(Leaf, {"=", "AND", "OR"}, Leaf) \cup Membership
Odd == {Q!Col("x y", ""), Q!Col("a", "x y"), Q!Fun("LOAD_FILE", <<Q!Lit("1")>>),
        Q!Fun("JSON_EXTRACT", <<Q!Lit("1")>>), Q!Bin(Q!Lit("1"), "; --", Q!Lit("2"))}
Chains ==
  {Q!And(<<a, Q!Or(<<b, Q!Lit("4"), c>>), d>>) : a, b, c, d \in Leaf}
    \cup {Q!Or(<<>>), Q!And(<<>>)}
ExprSample ==
  Binary(Simple, {"=", "AND", "OR"}, Simple) \cup Chains \cup Odd
    \cup Binary(Odd, {"AND", "IN"}, Leaf)

\* What is read back: an empty list is a constant.
RECURSIVE Plain(_)
Plain(e) ==
  CASE e.type = "binary" ->
         IF e.operator \in {"IN", "NOT IN"} /\ e.right = Q!Many(<<>>)
         THEN Constant(e.operator = "NOT IN")
         ELSE Q!Bin(Plain(e.left), e.operator, Plain(e.right))
    [] e.type = "function" -> Q!Fun(e.name, [i \in DOMAIN e.args |-> Plain(e.args[i])])
    [] OTHER -> e

Policy(scope, redact, pii) == [scope |-> scope, redact |-> redact, pii |-> pii]
Public == Policy({}, "none", FALSE)
Users == [name |-> "users", columns |-> <<"id", "userId", "body">>, rls |-> <<>>,
          policy |-> [id |-> Public, userId |-> Public, body |-> Policy({"pii"}, "mask", TRUE)]]
Posts == [name |-> "posts", columns |-> <<"id", "owner", "body">>, rls |-> <<"owner">>,
          policy |-> [id |-> Public, owner |-> Public, body |-> Policy({"staff"}, "hide", FALSE)]]
Notes == [name |-> "notes", columns |-> <<"id", "body">>, rls |-> <<>>,
          policy |-> [id |-> Public, body |-> Public]]

On(base, joined) == Q!Eq(Q!Col("id", base.name), Q!Col("id", joined.name))
Joins(base) ==
  {<<>>} \cup
  {<<[type |-> type, alias |-> t.name, table |-> t, on |-> On(base, t)]>> :
     type \in {"inner", "left"}, t \in {Users, Posts, Notes} \ {base}}
Columns(base) ==
  {Q!Star, <<Q!Named("id"), Q!Named("body")>>,
   <<Q!Col("body", base.name), Q!Lit("9")>>}
Where(base) == {<<>>, <<Q!Bin(Q!Col("id", base.name), "!=", Q!Lit("1"))>>,
                <<Q!Or(<<Q!Eq(Q!Col("id", base.name), Q!Lit("1")), Q!Lit("true")>>)>>}
Builder(base, joins, columns, where, having) ==
  [base |-> base, table |-> base.name, joins |-> joins, columns |-> columns, where |-> where,
   groupBy |-> <<"id">>, having |-> having, orderBy |-> <<"id">>]
BuilderSample ==
  UNION {{Builder(base, joins, columns, where, having) :
            joins \in Joins(base), columns \in Columns(base), where \in Where(base),
            having \in {<<>>, <<Q!Eq(Q!Fun("COUNT", <<Q!Col("id", "")>>), Q!Lit("7"))>>}} :
         base \in {Users, Posts, Notes}}

Contexts == [user : {"", "u1", "u2"}, scopes : SUBSET {"pii", "staff"}, none : {FALSE}]
              \cup {Q!NoContext}
QuerySample == [builder : BuilderSample, context : Contexts, times : {1, 2}]

\* The clauses a statement is made of, in order.
Clause(word, exprs) == [i \in DOMAIN exprs |-> <<word, Plain(exprs[i])>>]
ColumnExpr(c) == CASE c.type = "name" -> Q!Col(c.name, "") [] c.type = "*" -> Constant(TRUE)
                   [] OTHER -> c
StatementClauses(s) ==
  [i \in DOMAIN s.columns |-> <<IF i = 1 THEN "SELECT" ELSE ",", ColumnExpr(s.columns[i])>>]
  \o [i \in DOMAIN s.joins |-> <<"ON", Plain(s.joins[i].on)>>]
  \o Clause("WHERE", s.where) \o Clause("HAVING", s.having)

-----------------------------------------------------------------------------
(* What a query means: rows of a table are functions on its columns *)

Missing == "null"
Rows(table) ==
  CASE table.name = "users" -> {[id |-> i, userId |-> "u" \o i, body |-> "b"] : i \in {"1", "2"}}
    [] table.name = "posts" -> {[id |-> i, owner |-> o, body |-> "b"] :
                                  i \in {"1", "2"}, o \in {"u1", "u2"}}
    [] table.name = "notes" -> {[id |-> i, body |-> "b"] : i \in {"1", "2"}}

OwnerColumn(table) ==
  IF table.rls # <<>> THEN table.rls
  ELSE IF "userId" \in ToSet(table.columns) THEN <<"userId">> ELSE <<>>
\* The rows a context may see; a filter on userId needs a user, one of the table's own
\* policy is applied without.
Visible(table, context) ==
  LET column == OwnerColumn(table)
  IN IF context = Q!NoContext \/ column = <<>> \/ (table.rls = <<>> /\ context.user = "")
     THEN Rows(table)
     ELSE {r \in Rows(table) : r[column[1]] = context.user}

\* A row of a query: a row of the base table and one of the joined table, or none.
Cell(b, env, c) ==
  LET row == IF c.table \in {"", b.base.name} THEN env.base ELSE env.joined
  IN IF row = <<>> THEN Missing ELSE row[1][c.name]

RECURSIVE Holds(_, _, _)
Holds(b, env, e) ==
  LET at(x) == IF x.type = "literal" THEN x.value ELSE Cell(b, env, x)
  IN CASE e.type = "literal" -> e.value = "true"
       [] e.operator = "AND" -> Holds(b, env, e.left) /\ Holds(b, env, e.right)
       [] e.operator = "OR" -> Holds(b, env, e.left) \/ Holds(b, env, e.right)
       [] e.operator = "=" -> at(e.left) = at(e.right) /\ at(e.left) # Missing
       [] e.operator = "!=" -> at(e.left) # at(e.right) /\ at(e.left) # Missing

Selected(b, baseRows, joinedRows) ==
  LET base == {[base |-> <<r>>, joined |-> <<>>] : r \in baseRows}
      pairs == {[base |-> <<r>>, joined |-> <<q>>] : r \in baseRows, q \in joinedRows}
      matched == {p \in pairs : Holds(b, p, b.joins[1].on)}
      all == IF b.joins = <<>> THEN base
             ELSE IF b.joins[1].type = "inner" THEN matched
             ELSE matched \cup {e \in base : ~\E p \in matched : p.base = e.base}
  IN {e \in all : \A w \in ToSet(b.where) : Holds(b, e, w)}

JoinedRows(b, rows(_)) == IF b.joins = <<>> THEN {} ELSE rows(b.joins[1].table)

-----------------------------------------------------------------------------
(* Writes *)

Pair(table) ==
  {p \in {<<"id", "1">>, <<"userId", "u1">>, <<"userId", "u2">>, <<"owner", "u1">>,
          <<"owner", "u2">>, <<"body", "b">>} : p[1] \in ToSet(table.columns)}
WriteSample ==
  UNION {[op : {"insert", "update", "delete", "upsert"}, table : {t},
          values : {<<p>> : p \in Pair(t)}
                     \cup {<<p, <<"body", "c">>>> : p \in Pair(t) \ {<<"body", "b">>}},
          where : Where(t), context : Contexts] : t \in {Users, Posts, Notes}}
UserOf(values) == {values[i][2] : i \in {k \in DOMAIN values : values[k][1] = "userId"}}
=============================================================================
