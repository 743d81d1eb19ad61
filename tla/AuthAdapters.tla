---------------------------- MODULE AuthAdapters ----------------------------
(***************************************************************************)
(* The three adapters of packages/auth over a database: the maps of the    *)
(* in-memory one, the statements of the SQL one over the tables of         *)
(* getSqlSchemaStatements(), and those of the one built on @pureq/db,      *)
(* whose tables have primary keys only.                                    *)
(*                                                                         *)
(* An operation maps a database to the database it leaves and its result.  *)
(* A field that is not given is <<>>; a row whose expiry has passed is     *)
(* `lapsed`; ids are numbered in the order they are made up.               *)
(***************************************************************************)
EXTENDS Integers, SequencesExt

Empty == [users |-> <<>>, accounts |-> <<>>, sessions |-> <<>>, tokens |-> <<>>, ids |-> 0]

Done(db, r) == [db |-> db, r |-> r]
Null == [is |-> "null"]
Error == [is |-> "error"]
Row(row) == [is |-> "row", row |-> row]

\* What a SELECT ... LIMIT 1, an UPDATE and a DELETE do to rows; and a Map's set().
First(rows, P(_)) == LET found == SelectSeq(rows, P) IN IF found = <<>> THEN Null ELSE Row(found[1])
Changed(rows, P(_), f(_)) == [i \in DOMAIN rows |-> IF P(rows[i]) THEN f(rows[i]) ELSE rows[i]]
Without(rows, P(_)) == SelectSeq(rows, LAMBDA r : ~P(r))
Has(rows, P(_)) == \E i \in DOMAIN rows : P(rows[i])
Put(rows, P(_), row) ==
  IF Has(rows, P) THEN Changed(rows, P, LAMBDA r : row) ELSE Append(rows, row)
Given(field, old) == IF field = <<>> THEN old ELSE field[1]

-----------------------------------------------------------------------------
(* createInMemoryAdapter() *)

MemoryCreateUser(db, u) ==
  LET user == [id |-> Given(u.id, db.ids + 1), email |-> u.email, name |-> u.name]
  IN Done([db EXCEPT !.users = Put(@, LAMBDA v : v.id = user.id, user), !.ids = @ + 1], Row(user))
MemoryGetUser(db, id) == Done(db, First(db.users, LAMBDA u : u.id = id))
MemoryGetUserByEmail(db, email) == Done(db, First(db.users, LAMBDA u : u.email = email))
MemoryGetUserByAccount(db, account) ==
  LET linked == First(db.accounts, LAMBDA a : a.account = account)
  IN Done(db, IF linked = Null THEN Null ELSE First(db.users, LAMBDA u : u.id = linked.row.user))
MemoryUpdateUser(db, u) ==
  LET old == First(db.users, LAMBDA v : v.id = u.id)
      new == [id |-> u.id, email |-> Given(u.email, old.row.email), name |-> Given(u.name, old.row.name)]
  IN IF old = Null THEN Done(db, Error)
     ELSE Done([db EXCEPT !.users = Put(@, LAMBDA v : v.id = u.id, new)], Row(new))
MemoryDeleteUser(db, id) == Done([db EXCEPT !.users = Without(@, LAMBDA u : u.id = id)], Null)
MemoryLinkAccount(db, a) ==
  Done([db EXCEPT !.accounts = Put(@, LAMBDA b : b.account = a.account, a)], Row(a))
MemoryUnlinkAccount(db, account) ==
  Done([db EXCEPT !.accounts = Without(@, LAMBDA a : a.account = account)], Null)
MemoryCreateSession(db, s) ==
  Done([db EXCEPT !.sessions = Put(@, LAMBDA t : t.token = s.token, s)], Row(s))
MemoryGetSessionAndUser(db, token) ==
  LET s == First(db.sessions, LAMBDA t : t.token = token)
      u == First(db.users, LAMBDA v : v.id = s.row.user)
  IN IF s = Null THEN Done(db, Null)
     ELSE IF s.row.lapsed
     THEN Done([db EXCEPT !.sessions = Without(@, LAMBDA t : t.token = token)], Null)
     ELSE Done(db, IF u = Null THEN Null ELSE Row([session |-> s.row, user |-> u.row]))
MemoryUpdateSession(db, s) ==
  LET old == First(db.sessions, LAMBDA t : t.token = s.token)
      new == [token |-> s.token, user |-> Given(s.user, old.row.user), lapsed |-> Given(s.lapsed, old.row.lapsed)]
  IN IF old = Null THEN Done(db, Null)
     ELSE Done([db EXCEPT !.sessions = Put(@, LAMBDA t : t.token = s.token, new)], Row(new))
MemoryDeleteSession(db, token) ==
  Done([db EXCEPT !.sessions = Without(@, LAMBDA t : t.token = token)], Null)
MemoryCreateVerificationToken(db, t) ==
  Done([db EXCEPT !.tokens = Put(@, LAMBDA x : x.key = t.key, t)], Row(t))
MemoryUseVerificationToken(db, key) ==
  LET t == First(db.tokens, LAMBDA x : x.key = key)
  IN IF t = Null THEN Done(db, Null)
     ELSE Done([db EXCEPT !.tokens = Without(@, LAMBDA x : x.key = key)],
               IF t.row.lapsed THEN Null ELSE t)

-----------------------------------------------------------------------------
(* createSqlAdapter(): a statement that violates a constraint is an error *)

SqlCreateUser(db, u) ==
  LET user == [id |-> db.ids + 1, email |-> u.email, name |-> u.name]
  IN IF Has(db.users, LAMBDA v : v.email = u.email) THEN Done(db, Error)
     ELSE Done([db EXCEPT !.users = Append(@, user), !.ids = @ + 1], Row(user))
SqlGetUser(db, id) == Done(db, First(db.users, LAMBDA u : u.id = id))
SqlGetUserByEmail(db, email) == Done(db, First(db.users, LAMBDA u : u.email = email))
SqlGetUserByAccount(db, account) ==
  Done(db, First(db.users, LAMBDA u :
    Has(db.accounts, LAMBDA a : a.account = account /\ a.user = u.id)))
\* mutant: the fields that are not given are set to null
MutSqlUpdateUser(db, u) ==
  LET old == SqlGetUser(db, u.id).r
      merged == [id |-> u.id, email |-> Given(u.email, "null"), name |-> Given(u.name, "null")]
  IN IF old = Null THEN Done(db, Error)
     ELSE Done([db EXCEPT !.users = Changed(@, LAMBDA v : v.id = u.id, LAMBDA v : merged)], Row(merged))
SqlUpdateUser(db, u) ==
  LET old == SqlGetUser(db, u.id).r
      merged == [id |-> u.id, email |-> Given(u.email, old.row.email), name |-> Given(u.name, old.row.name)]
      taken == Has(db.users, LAMBDA v : v.id # u.id /\ v.email = merged.email)
  IN IF old = Null \/ taken THEN Done(db, Error)
     ELSE Done([db EXCEPT !.users = Changed(@, LAMBDA v : v.id = u.id, LAMBDA v : merged)], Row(merged))
SqlDeleteUser(db, id) == Done([db EXCEPT !.users = Without(@, LAMBDA u : u.id = id)], Null)
SqlLinkAccount(db, a) ==
  IF Has(db.accounts, LAMBDA b : b.account = a.account) THEN Done(db, Error)
  ELSE Done([db EXCEPT !.accounts = Append(@, a)], Row(a))
SqlUnlinkAccount(db, account) ==
  Done([db EXCEPT !.accounts = Without(@, LAMBDA a : a.account = account)], Null)
SqlCreateSession(db, s) ==
  IF Has(db.sessions, LAMBDA t : t.token = s.token) THEN Done(db, Error)
  ELSE Done([db EXCEPT !.sessions = Append(@, s)], Row(s))
SqlGetSessionAndUser(db, token) ==
  LET s == First(db.sessions, LAMBDA t : t.token = token)
      u == First(db.users, LAMBDA v : v.id = s.row.user)
  IN IF s = Null THEN Done(db, Null)
     ELSE IF u = Null THEN Done(db, Null)
     ELSE IF s.row.lapsed
     THEN Done([db EXCEPT !.sessions = Without(@, LAMBDA t : t.token = token)], Null)
     ELSE Done(db, Row([session |-> s.row, user |-> u.row]))
SqlUpdateSession(db, s) ==
  LET old == First(db.sessions, LAMBDA t : t.token = s.token)
      next == [token |-> s.token, user |-> Given(s.user, old.row.user), lapsed |-> Given(s.lapsed, old.row.lapsed)]
  IN IF old = Null THEN Done(db, Null)
     ELSE Done([db EXCEPT !.sessions = Changed(@, LAMBDA t : t.token = s.token, LAMBDA t : next)], Row(next))
SqlDeleteSession(db, token) ==
  Done([db EXCEPT !.sessions = Without(@, LAMBDA t : t.token = token)], Null)
SqlCreateVerificationToken(db, t) ==
  IF Has(db.tokens, LAMBDA x : x.key = t.key) THEN Done(db, Error)
  ELSE Done([db EXCEPT !.tokens = Append(@, t)], Row(t))
SqlUseVerificationToken(db, key) ==
  LET t == First(db.tokens, LAMBDA x : x.key = key)
  IN IF t = Null THEN Done(db, Null)
     ELSE Done([db EXCEPT !.tokens = Without(@, LAMBDA x : x.key = key)],
               IF t.row.lapsed THEN Null ELSE t)

-----------------------------------------------------------------------------
(* createPureqDbAdapter() *)

PureqCreateUser(db, u) ==
  LET data == [id |-> db.ids + 1, email |-> u.email, name |-> u.name]
  IN Done([db EXCEPT !.users = Append(@, data), !.ids = @ + 1], Row(data))
PureqGetUser(db, id) == Done(db, First(db.users, LAMBDA u : u.id = id))
PureqGetUserByEmail(db, email) == Done(db, First(db.users, LAMBDA u : u.email = email))
\* The condition names the table "a", which the compiled statement does not have.
PureqGetUserByAccount(db, account) == Done(db, Error)
PureqUpdateUser(db, u) ==
  LET set(v) == [v EXCEPT !.email = Given(u.email, @), !.name = Given(u.name, @)]
      after == [db EXCEPT !.users = Changed(@, LAMBDA v : v.id = u.id, set)]
  IN IF u.email = <<>> /\ u.name = <<>> THEN Done(db, Error)     \* UPDATE ... SET of nothing
     ELSE PureqGetUser(after, u.id)
PureqDeleteUser(db, id) == Done([db EXCEPT !.users = Without(@, LAMBDA u : u.id = id)], Null)
PureqLinkAccount(db, a) == Done([db EXCEPT !.accounts = Append(@, a)], Row(a))
PureqUnlinkAccount(db, account) ==
  Done([db EXCEPT !.accounts = Without(@, LAMBDA a : a.account = account)], Null)
PureqCreateSession(db, s) ==
  IF Has(db.sessions, LAMBDA t : t.token = s.token) THEN Done(db, Error)
  ELSE Done([db EXCEPT !.sessions = Append(@, s)], Row(s))
PureqGetSessionAndUser(db, token) ==
  LET s == First(db.sessions, LAMBDA t : t.token = token)
      u == PureqGetUser(db, s.row.user).r
  IN Done(db, IF s = Null THEN Null
              ELSE IF u = Null THEN Null ELSE Row([session |-> s.row, user |-> u.row]))
PureqUpdateSession(db, s) ==
  LET set(t) == [t EXCEPT !.user = Given(s.user, @), !.lapsed = Given(s.lapsed, @)]
      after == Changed(db.sessions, LAMBDA t : t.token = s.token, set)
  IN IF s.user = <<>> /\ s.lapsed = <<>> THEN Done(db, Error)
     ELSE Done([db EXCEPT !.sessions = after], First(after, LAMBDA t : t.token = s.token))
PureqDeleteSession(db, token) ==
  Done([db EXCEPT !.sessions = Without(@, LAMBDA t : t.token = token)], Null)
PureqCreateVerificationToken(db, t) == Done([db EXCEPT !.tokens = Append(@, t)], Row(t))
PureqUseVerificationToken(db, key) ==
  LET t == First(db.tokens, LAMBDA x : x.key = key)
  IN IF t = Null THEN Done(db, Null)
     ELSE Done([db EXCEPT !.tokens = Without(@, LAMBDA x : x.key = key)], t)
=============================================================================
