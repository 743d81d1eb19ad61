--------------------------- MODULE QueryCompiler ---------------------------
(***************************************************************************)
(* The query builders of packages/db (src/builder): what an expression, a  *)
(* statement and the policies of its tables compile to.  SQL is a sequence *)
(* of tokens, a value is a string, a name is a string that the check of    *)
(* identifiers accepts when it is in Identifiers.                          *)
(***************************************************************************)
EXTENDS Integers, SequencesExt

CONSTANT Identifiers

Sql(word) == <<"sql", word>>
Id(name) == <<"id", name>>
Placeholder == <<"?">>
Undefined == ""

\* { type: "column" | "literal" | "binary" | "function" }
Col(name, table) == [type |-> "column", name |-> name, table |-> table]
Lit(value) == [type |-> "literal", value |-> value]
Many(values) == [type |-> "literals", values |-> values]     \* a literal that is an array
Bin(left, operator, right) ==
  [type |-> "binary", left |-> left, operator |-> operator, right |-> right]
Fun(name, args) == [type |-> "function", name |-> name, args |-> args]
Eq(left, right) == Bin(left, "=", right)

\* and(...), or(...): an empty list is a literal, a longer one a left-heavy chain.
Reduce(operator, exprs, empty) ==
  IF exprs = <<>> THEN Lit(empty)
  ELSE FoldLeft(LAMBDA acc, e : Bin(acc, operator, e), Head(exprs), Tail(exprs))
And(exprs) == Reduce("AND", exprs, "true")
Or(exprs) == Reduce("OR", exprs, "false")

-----------------------------------------------------------------------------
(* What is accepted *)

Upper(word) ==
  CASE word = "and" -> "AND" [] word = "or" -> "OR" [] word = "in" -> "IN"
    [] word = "lower" -> "LOWER" [] OTHER -> word

AllowedOperators ==
  {"=", "!=", "<", "<=", ">", ">=", "LIKE", "ILIKE", "IN", "NOT IN", "IS", "IS NOT",
   "AND", "OR", "||"}
AllowedFunctions ==
  {"COUNT", "SUM", "AVG", "MIN", "MAX", "COALESCE", "LOWER", "UPPER", "NOW", "DATE",
   "SUBSTR", "SUBSTRING", "JSON_EXTRACT"}

ValidIdentifier(name) == name \in Identifiers
ValidOperator(op) == Upper(op) \in AllowedOperators
ValidFunction(name) == Upper(name) \in AllowedFunctions

RECURSIVE ValidExpression(_)
ValidExpression(e) ==
  CASE e.type = "column" ->
         ValidIdentifier(e.name) /\ (e.table # Undefined => ValidIdentifier(e.table))
    [] e.type \in {"literal", "literals"} -> TRUE
    [] e.type = "binary" ->
         ValidOperator(e.operator) /\ ValidExpression(e.left) /\ ValidExpression(e.right)
    [] e.type = "function" ->
         ValidFunction(e.name) /\ \A i \in DOMAIN e.args : ValidExpression(e.args[i])

-----------------------------------------------------------------------------
(* Expressions *)

Compiled(sql, params) == [sql |-> sql, params |-> params]
Refused == [refused |-> TRUE]

Join(parts, between) ==                                        \* parts.join(between)
  FlattenSeq([i \in DOMAIN parts |-> (IF i = 1 THEN <<>> ELSE <<between>>) \o parts[i].sql])
Joined(parts, between) ==
  Compiled(Join(parts, between), FlattenSeq([i \in DOMAIN parts |-> parts[i].params]))
Parenthesised(c) == Compiled(<<Sql("(")>> \o c.sql \o <<Sql(")")>>, c.params)
Placeholders(values) ==
  Joined([i \in DOMAIN values |-> Compiled(<<Placeholder>>, <<values[i]>>)], Sql(","))
QualifiedName(e) ==
  (IF e.table = Undefined THEN <<>> ELSE <<Id(e.table), Sql(".")>>) \o <<Id(e.name)>>

\* The chain of one operator, flattened on the left by a stack.
RECURSIVE Flatten(_, _, _)
Flatten(current, op, stack) ==
  IF current.type = "binary" /\ current.operator = op
  THEN Flatten(current.left, op, Append(stack, current.right))
  ELSE Append(stack, current)
MutUnreversed(stack) == stack          \* mutant: the nodes in the order they were pushed
Popped(stack) == Reverse(stack)

RECURSIVE CompileExpression(_)
CompileChain(e) ==
  LET nodes == Popped(Flatten(e, e.operator, <<>>))
  IN Parenthesised(Joined([i \in DOMAIN nodes |-> CompileExpression(nodes[i])], Sql(e.operator)))

CompileIn(e, op) ==
  LET left == CompileExpression(e.left)
      list == Parenthesised(Placeholders(e.right.values))
  IN IF e.right.values = <<>>
     THEN Compiled(<<Sql(IF op = "IN" THEN "(1 = 0)" ELSE "(1 = 1)")>>, <<>>)
     ELSE Parenthesised(Joined(<<left, list>>, Sql(op)))

CompileFunction(e) ==
  LET args == [i \in DOMAIN e.args |-> CompileExpression(e.args[i])]
      call == Parenthesised(Joined(args, Sql(",")))
  IN IF Upper(e.name) = "JSON_EXTRACT"
     THEN Parenthesised(Joined(SubSeq(args, 1, 2), Sql("->>")))
     ELSE Compiled(<<Sql(Upper(e.name))>> \o call.sql, call.params)

CompileExpression(e) ==
  CASE e.type = "column" -> Compiled(QualifiedName(e), <<>>)
    [] e.type = "literal" -> Compiled(<<Placeholder>>, <<e.value>>)
    [] e.type = "literals" -> Compiled(<<Placeholder>>, <<e.values>>)
    [] e.type = "function" -> CompileFunction(e)
    [] e.type = "binary" ->
         IF e.operator \in {"AND", "OR"} THEN CompileChain(e)
         ELSE LET op == Upper(e.operator) IN
              IF op \in {"IN", "NOT IN"} /\ e.right.type = "literals" THEN CompileIn(e, op)
              ELSE Parenthesised(Joined(<<CompileExpression(e.left), CompileExpression(e.right)>>,
                                        Sql(op)))

RECURSIVE JsonComplete(_)
JsonComplete(e) ==                             \* JSON_EXTRACT needs its two arguments
  CASE e.type = "binary" -> JsonComplete(e.left) /\ JsonComplete(e.right)
    [] e.type = "function" -> /\ Upper(e.name) = "JSON_EXTRACT" => Len(e.args) >= 2
                              /\ \A i \in DOMAIN e.args : JsonComplete(e.args[i])
    [] OTHER -> TRUE
Compiles(e) == ValidExpression(e) /\ JsonComplete(e)

-----------------------------------------------------------------------------
(* Statements: where and having are lists of at most one expression *)

Star == <<[type |-> "*"]>>
Named(name) == [type |-> "name", name |-> name]
JoinTypes == {"inner", "left", "right", "full"}

Part(words, exprs) ==
  IF exprs = <<>> THEN Compiled(<<>>, <<>>)
  ELSE LET c == CompileExpression(exprs[1]) IN Compiled(words \o c.sql, c.params)
Text(sql) == Compiled(sql, <<>>)
Listed(words, parts) ==
  IF parts = <<>> THEN Text(<<>>)
  ELSE LET c == Joined(parts, Sql(",")) IN Compiled(words \o c.sql, c.params)
Concatenated(parts) ==
  Compiled(FlattenSeq([i \in DOMAIN parts |-> parts[i].sql]),
           FlattenSeq([i \in DOMAIN parts |-> parts[i].params]))

CompileColumn(c, joins) ==
  IF c.type = "name" THEN Text(<<Id(c.name)>>)
  ELSE LET compiled == CompileExpression(c)
           label == IF c.type = "column" /\ c.table # Undefined /\ joins # <<>>
                    THEN <<Sql("AS"), <<"alias", c.table, c.name>>>> ELSE <<>>
       IN Compiled(compiled.sql \o label, compiled.params)

CompileColumns(s) ==
  IF s.columns = Star THEN Text(<<Sql("*")>>)
  ELSE Joined([i \in DOMAIN s.columns |-> CompileColumn(s.columns[i], s.joins)], Sql(","))

CompileJoin(j) == Part(<<Sql(j.type), Sql("JOIN"), Id(j.table.name), Sql("ON")>>, <<j.on>>)

Names(words, names) ==
  Listed(words, [i \in DOMAIN names |-> Text(<<Id(names[i])>>)])

SelectCompiles(s) ==
  /\ ValidIdentifier(s.table)
  /\ \A i \in DOMAIN s.columns :
       CASE s.columns[i].type = "*" -> TRUE
         [] s.columns[i].type = "name" -> ValidIdentifier(s.columns[i].name)
         [] OTHER -> Compiles(s.columns[i])
  /\ \A i \in DOMAIN s.joins :
       /\ s.joins[i].type \in JoinTypes
       /\ ValidIdentifier(s.joins[i].table.name) /\ Compiles(s.joins[i].on)
  /\ \A e \in ToSet(s.where \o s.having) : Compiles(e)
  /\ \A name \in ToSet(s.groupBy \o s.orderBy) : ValidIdentifier(name)

CompileSelect(s) ==
  IF ~SelectCompiles(s) THEN Refused
  ELSE Concatenated(
         <<Text(<<Sql("SELECT")>>), CompileColumns(s), Text(<<Sql("FROM"), Id(s.table)>>)>>
         \o [i \in DOMAIN s.joins |-> CompileJoin(s.joins[i])]
         \o <<Part(<<Sql("WHERE")>>, s.where), Names(<<Sql("GROUP BY")>>, s.groupBy),
              Part(<<Sql("HAVING")>>, s.having), Names(<<Sql("ORDER BY")>>, s.orderBy)>>)

\* values: a sequence of pairs <<column, value>>
ValidKeys(table, values) ==
  ValidIdentifier(table) /\ \A i \in DOMAIN values : ValidIdentifier(values[i][1])

CompileInsert(table, values) ==
  IF ~ValidKeys(table, values) THEN Refused
  ELSE Concatenated(
         <<Text(<<Sql("INSERT INTO"), Id(table)>>),
           Parenthesised(Names(<<>>, [i \in DOMAIN values |-> values[i][1]])),
           Text(<<Sql("VALUES")>>),
           Parenthesised(Placeholders([i \in DOMAIN values |-> values[i][2]]))>>)

CompileUpdate(table, values, where) ==
  LET set(pair) == Compiled(<<Id(pair[1]), Sql("="), Placeholder>>, <<pair[2]>>)
  IN IF ~ValidKeys(table, values) \/ ~\A e \in ToSet(where) : Compiles(e) THEN Refused
     ELSE Concatenated(
            <<Text(<<Sql("UPDATE"), Id(table)>>),
              Listed(<<Sql("SET")>>, [i \in DOMAIN values |-> set(values[i])]),
              Part(<<Sql("WHERE")>>, where)>>)

CompileDelete(table, where) ==
  IF ~ValidIdentifier(table) \/ ~\A e \in ToSet(where) : Compiles(e) THEN Refused
  ELSE Concatenated(<<Text(<<Sql("DELETE FROM"), Id(table)>>), Part(<<Sql("WHERE")>>, where)>>)

CompileUpsert(table, values, target) ==
  LET insert == CompileInsert(table, values)
      keys == SelectSeq([i \in DOMAIN values |-> values[i][1]], LAMBDA k : ~Contains(target, k))
      set(k) == Text(<<Id(k), Sql("="), Sql("EXCLUDED"), Sql("."), Id(k)>>)
  IN IF insert = Refused THEN Refused
     ELSE Concatenated(
            <<insert, Text(<<Sql("ON CONFLICT")>>), Parenthesised(Names(<<>>, target)),
              Text(<<Sql("DO UPDATE SET")>>),
              Joined([i \in DOMAIN keys |-> set(keys[i])], Sql(","))>>)

-----------------------------------------------------------------------------
(* The builders.  A table has a name, columns, the policy of each column and, in *)
(* rls, the column its own filter compares with the user, if it has one.         *)

NoContext == [user |-> Undefined, scopes |-> {}, none |-> TRUE]

AddWhere(where, e) == IF where = <<>> THEN <<e>> ELSE <<Bin(where[1], "AND", e)>>

Filter(table, context, target) ==
  IF context = NoContext THEN <<>>
  ELSE IF table.rls # <<>> THEN <<Eq(Col(table.rls[1], table.name), Lit(context.user))>>
  ELSE IF context.user # Undefined /\ "userId" \in ToSet(table.columns)
       THEN <<Eq(Col("userId", target), Lit(context.user))>> ELSE <<>>

\* mutant: the filter of a joined table is a condition on the result
MutFilterInWhere(s, table, context, alias) ==
  LET filter == Filter(table, context, IF alias = Undefined THEN table.name ELSE alias)
  IN IF filter = <<>> THEN s ELSE [s EXCEPT !.where = AddWhere(@, filter[1])]

\* The filter of a joined table goes to its ON, any other to WHERE.
ApplyRLS(s, table, context, alias) ==
  LET filter == Filter(table, context, IF alias = Undefined THEN table.name ELSE alias)
      of == {i \in DOMAIN s.joins : s.joins[i].table.name = table.name}
  IN IF filter = <<>> THEN s
     ELSE IF alias # Undefined /\ of # {}
     THEN [s EXCEPT !.joins[CHOOSE i \in of : \A k \in of : i <= k].on =
                      Bin(@, "AND", filter[1])]
     ELSE [s EXCEPT !.where = AddWhere(@, filter[1])]

HasScope(policy, scopes) == policy.scope = {} \/ policy.scope \cap scopes # {}
Allowed(table, scopes, name) ==
  name \in ToSet(table.columns) =>
    HasScope(table.policy[name], scopes) \/ table.policy[name].redact = "mask"

Redacted(table, name, tableName) ==
  IF name \in ToSet(table.columns) /\ table.policy[name].pii /\ table.policy[name].redact = "mask"
  THEN Bin(Fun("SUBSTR", <<Col(name, tableName), Lit("1"), Lit("3")>>), "||", Lit("***"))
  ELSE Named(name)

ApplyColumnSecurity(s, table, alias, scopes) ==
  LET tableName == IF alias = Undefined THEN table.name ELSE alias
      mine(c) == c.type = "column" /\ c.table \in {Undefined, tableName}
      kept(c) == (c.type = "name" \/ mine(c)) => Allowed(table, scopes, c.name)
      asked == IF s.columns = Star THEN [i \in DOMAIN table.columns |-> Named(table.columns[i])]
               ELSE s.columns
      left == SelectSeq(asked, kept)
  IN [s EXCEPT !.columns =
        [i \in DOMAIN left |-> IF left[i].type = "name"
                               THEN Redacted(table, left[i].name, tableName) ELSE left[i]]]

\* SELECT * with joins names its columns, the joined ones by alias.
Expand(b) ==
  IF b.joins = <<>> \/ b.columns # Star THEN b
  ELSE LET cols(table, name) == [i \in DOMAIN table.columns |-> Col(table.columns[i], name)]
       IN [b EXCEPT !.columns =
             cols(b.base, b.base.name)
             \o FlattenSeq([i \in DOMAIN b.joins |-> cols(b.joins[i].table, b.joins[i].alias)])]

AliasOf(b, tableName) ==
  b.joins[CHOOSE i \in DOMAIN b.joins : /\ b.joins[i].table.name = tableName
                                        /\ \A k \in 1 .. i - 1 : b.joins[k].table.name # tableName].alias

\* (The policy of a column that is asked for by name is looked up in every table; of
\* one that a joined table lacks the code throws a TypeError, builder.ts:420: here a
\* query asks for columns that all its tables have.)
Pushdown(b, context) ==
  LET secured(s, table, alias) ==
        ApplyColumnSecurity(ApplyRLS(s, table, context, alias), table, alias, context.scopes)
      step(s, j) == secured(s, j.table, AliasOf(b, j.table.name))
  IN IF context = NoContext THEN b
     ELSE FoldLeft(step, secured(b, b.base, Undefined), b.joins)

\* execute(): the statement that runs, and the builder after it, which keeps the
\* expanded columns and the joins, whose objects the statement shares.
ExecutedSelect(b, context) == Pushdown(Expand(b), context)
BuilderAfter(b, context) ==
  [Expand(b) EXCEPT !.joins = ExecutedSelect(b, context).joins]

ExecutedInsert(table, values, context) ==
  LET own == {i \in DOMAIN values : values[i][1] = "userId"}
  IN IF context.user = Undefined \/ "userId" \notin ToSet(table.columns)
     THEN CompileInsert(table.name, values)
     ELSE IF own = {} THEN CompileInsert(table.name, Append(values, <<"userId", context.user>>))
     ELSE IF \E i \in own : values[i][2] # context.user THEN Refused
     ELSE CompileInsert(table.name, values)

ExecutedUpdate(table, values, where, context) ==
  CompileUpdate(table.name, values,
    ApplyRLS([joins |-> <<>>, where |-> where], table, context, Undefined).where)
ExecutedDelete(table, where, context) ==
  CompileDelete(table.name,
    ApplyRLS([joins |-> <<>>, where |-> where], table, context, Undefined).where)
=============================================================================
