--------------------------- MODULE NativeSession ---------------------------
(***************************************************************************)
(* A native driver (PostgreSQL or MySQL) over its one connection: opening  *)
(* and authenticating it, the statements that are written to it and the    *)
(* messages read back, execute(), stream() and transaction().  The pool    *)
(* gives a driver one user at a time (NativePool, ExclusiveDrivers), so    *)
(* there is one call at a time, and calls follow one another.              *)
(*                                                                         *)
(* The server is external: it answers what it reads, in order, and closes  *)
(* the connection of a client it does not accept.  It sends what the       *)
(* client's code is written to read.                                       *)
(***************************************************************************)
EXTENDS Naturals, Sequences, FiniteSets, SequencesExt

CONSTANTS
  Dialects,       \* which of "pg" and "mysql" to consider
  Uses,           \* what may be done with a driver: which calls, at most how many
                  \* statements, and whether the network breaks
  MaxStatements,  \* bound on the statements of a history
  MaxRows         \* bound on the rows of a result

ASSUME SessionAssumption ==
  /\ Dialects \subseteq {"pg", "mysql"}
  /\ Uses \subseteq [calls : SUBSET {"execute", "stream", "transaction", "nested"},
                    statements : 0 .. MaxStatements, breaks : BOOLEAN]
  /\ MaxStatements \in Nat /\ MaxRows \in Nat

VARIABLES
  dialect, use,  \* which of the two drivers this is, and what is done with it
  open,          \* driver.connection is set
  isConnected,   \* connection.isConnected
  lost,          \* the stream is closed: reads end, writes reject
  toServer, fromServer,
  stage,         \* where the call is
  call,          \* who reads the statement under way: "execute", "stream"
  sql, purpose,  \* the statement under way and what it is for
  count,         \* statements sent so far: their identities
  statementCache,
  columns,       \* fields.length > 0, for the statement under way
  seen,          \* whose messages the statement under way has read
  behind,        \* statements whose answer was left in the stream
  session, tx, pending, durable, refused,   \* the server's
  body, told,    \* of the last transaction: its statements, what it told
  course,        \* and whether it was in step, caught errors, held another one
  nested         \* transaction() calls inside its function that are not over

conn == <<dialect, use, open, isConnected, lost>>
wire == <<toServer, fromServer>>
server == <<session, tx, pending, durable, refused>>
outcome == <<body, course, told, nested>>
statement == <<call, sql, purpose, count, columns, seen>>
vars == <<conn, wire, stage, statement, statementCache, behind, server,
          outcome>>

Sql == {"begin", "commit", "rollback", "write", "read"}
Stage == {"idle", "opening", "greeting", "authenticating", "sasl", "verifying",
          "writing", "preparing", "defining", "reading", "yielded", "callback"}

Init ==
  /\ dialect \in Dialects /\ use \in Uses
  /\ open = FALSE /\ isConnected = FALSE /\ lost = FALSE
  /\ toServer = <<>> /\ fromServer = <<>>
  /\ stage = "idle" /\ call = "execute"
  /\ sql = "read" /\ purpose = "single" /\ count = 0 /\ columns = FALSE
  /\ seen = {} /\ statementCache = {} /\ behind = 0
  /\ session = "new" /\ tx = "none" /\ pending = {} /\ durable = {} /\ refused = {}
  /\ body = {} /\ course = "in step" /\ told = "none" /\ nested = 0

Reply(type, n) == [type |-> type, of |-> n]
Sends(m) == toServer' = Append(toServer, m)
Reads(x) ==
  /\ fromServer # <<>> /\ x = Head(fromServer)
  /\ fromServer' = Tail(fromServer)

-----------------------------------------------------------------------------
(* The calls.  Issue: the next statement of a call, up to its first await. *)

Room(n) == count + n <= use.statements

Issue(c, s, p) ==
  /\ count < MaxStatements
  /\ count' = count + 1 /\ call' = c /\ sql' = s /\ purpose' = p /\ seen' = {}
  /\ columns' = FALSE
  /\ stage' = IF ~open THEN "opening"
              ELSE IF ~isConnected THEN "greeting" ELSE "writing"

\* execute() and stream() of a statement the policy lets through.
Execute(c, s) ==
  /\ stage = "idle" /\ c \in use.calls \ {"transaction", "nested"} /\ Room(1)
  /\ s \in {"read", "write"}
  /\ Issue(c, s, "single")
  /\ UNCHANGED <<conn, wire, statementCache, behind, server, outcome>>

\* A transaction starts on a stream with nothing left to read, or it does not.
Transaction ==
  /\ stage = "idle" /\ "transaction" \in use.calls /\ Room(3)
  /\ Issue("execute", "begin", "begin")
  /\ body' = {} /\ told' = "none" /\ course' = IF behind = 0 THEN "in step" ELSE "behind"
  /\ UNCHANGED <<conn, wire, statementCache, behind, server, nested>>

\* The function given to transaction() awaits another statement or stream; it
\* returns, or throws; or it awaits transaction() of the driver it was given,
\* whose BEGIN and COMMIT go over the same connection.  (The bounds leave room
\* for a COMMIT and a ROLLBACK of each.)
Callback ==
  /\ stage = "callback"
  /\ \/ /\ Room(2 * nested + 3)
        /\ \E c \in use.calls \ {"transaction", "nested"}, s \in {"read", "write"} :
             Issue(c, s, "body")
        /\ UNCHANGED <<course, nested>>
     \/ /\ \E s \in {"commit", "rollback"} : Issue("execute", s, s)
        /\ UNCHANGED <<course, nested>>
     \/ /\ "nested" \in use.calls /\ Room(2 * nested + 5)
        /\ Issue("execute", "begin", "begin")
        /\ nested' = nested + 1 /\ course' = "nested"
  /\ body' = IF sql' \in {"begin", "rollback"} THEN body ELSE body \cup {count + 1}
  /\ UNCHANGED <<conn, wire, statementCache, behind, server, told>>

Tell(r) ==
  /\ nested = 0
  /\ stage' = "idle" /\ told' = IF purpose = "single" THEN told ELSE r
  /\ UNCHANGED <<call, sql, purpose, count, columns, body, course, nested>>

\* A transaction() inside another one is over: the function around it catches
\* the error if there is one, or throws in its turn (Callback).
Returns ==
  /\ nested > 0 /\ nested' = nested - 1
  /\ stage' = "callback"
  /\ UNCHANGED <<call, sql, purpose, count, columns, body, course, told>>

\* Mutant: COMMIT is outside the try too, and its error is swallowed.
MutCommitCaught ==
  /\ seen' = {}
  /\ \/ purpose \in {"single", "begin", "rollback"} /\ (Tell("error") \/ Returns)
     \/ purpose = "body" /\ Issue("execute", "rollback", "rollback") /\ UNCHANGED outcome
     \/ purpose = "commit" /\ (Tell("ok") \/ Returns)

\* The statement threw: BEGIN is outside the try, everything after it inside.
Throws ==
  /\ seen' = {}
  /\ \/ purpose \in {"single", "begin", "rollback"} /\ (Tell("error") \/ Returns)
     \/ /\ purpose \in {"body", "commit"} /\ Issue("execute", "rollback", "rollback")
        /\ UNCHANGED outcome
     \/ /\ purpose = "body"     \* the function catches the error and goes on
        /\ stage' = "callback" /\ course' = "caught"
        /\ UNCHANGED <<call, sql, purpose, count, columns, body, told, nested>>

Resolves ==
  \/ /\ purpose \in {"begin", "body"}
     /\ stage' = "callback"
     /\ UNCHANGED <<call, sql, purpose, count, columns, outcome>>
  \/ purpose \in {"single", "commit"} /\ (Tell("ok") \/ Returns)
  \/ purpose = "rollback" /\ (Tell("error") \/ Returns)

\* The rest of the answer is left in the stream: nothing is read of it.
Leaves ==
  /\ behind' = behind + 1
  /\ stage' = IF purpose = "single" THEN "idle" ELSE "callback"
  /\ course' = IF purpose = "single" THEN course ELSE "behind"
  /\ UNCHANGED <<statement, body, told, nested>>

-----------------------------------------------------------------------------
(* Opening the connection and authenticating. *)

\* this.connection is set before connect() has run.
Opened ==
  /\ stage = "opening"
  /\ open' = TRUE /\ stage' = "greeting"
  /\ UNCHANGED <<dialect, use, isConnected, lost, wire, statement,
                 statementCache, behind, server, outcome>>

OpenFails ==
  /\ stage = "opening"
  /\ Throws
  /\ UNCHANGED <<conn, wire, statementCache, behind, server>>

PgGreeting ==
  /\ stage = "greeting" /\ dialect = "pg" /\ ~lost
  /\ Sends(Reply("startup", 0))
  /\ stage' = "authenticating"
  /\ UNCHANGED <<conn, fromServer, statement, statementCache, behind,
                 server, outcome>>

\* One message of connect()'s loop.
PgAuthenticate ==
  /\ stage = "authenticating" /\ dialect = "pg"
  /\ \E x \in Range(fromServer) :
       /\ Reads(x)
       /\ \/ /\ x.type \in {"auth ok", "parameter"}
             /\ UNCHANGED <<stage, isConnected, toServer, statement, outcome>>
          \/ /\ x.type = "ready"
             /\ isConnected' = TRUE /\ stage' = "writing"
             /\ UNCHANGED <<toServer, statement, outcome>>
          \/ /\ x.type = "auth sasl"
             /\ Sends(Reply("sasl initial", 0)) /\ stage' = "sasl"
             /\ UNCHANGED <<isConnected, statement, outcome>>
          \/ /\ x.type \in {"auth md5", "error"} /\ Throws
             /\ UNCHANGED <<isConnected, toServer>>
  /\ UNCHANGED <<dialect, use, open, lost, statementCache, behind, server>>

\* Whatever comes is taken for the server's SCRAM message.
PgSasl ==
  /\ stage \in {"sasl", "verifying"}
  /\ \E x \in Range(fromServer) :
       /\ Reads(x)
       /\ \/ /\ stage = "sasl" /\ x.type = "sasl continue"
             /\ Sends(Reply("sasl final", 0)) /\ stage' = "verifying"
             /\ UNCHANGED <<statement, outcome>>
          \/ /\ stage = "verifying" /\ x.type = "sasl verified"
             /\ stage' = "authenticating"
             /\ UNCHANGED <<toServer, statement, outcome>>
          \/ /\ x.type \notin {"sasl continue", "sasl verified"} /\ Throws
             /\ UNCHANGED toServer
  /\ UNCHANGED <<conn, statementCache, behind, server>>

MysqlGreeting ==
  /\ stage = "greeting" /\ dialect = "mysql" /\ ~lost
  /\ \E x \in Range(fromServer) : Reads(x)
  /\ Sends(Reply("login", 0))
  /\ stage' = "authenticating"
  /\ UNCHANGED <<conn, statement, statementCache, behind, server, outcome>>

\* Only an error packet is looked for: any other answer means connected.
MysqlAuthenticate ==
  /\ stage = "authenticating" /\ dialect = "mysql"
  /\ \E x \in Range(fromServer) :
       /\ Reads(x)
       /\ \/ /\ x.type = "error" /\ Throws /\ UNCHANGED isConnected
          \/ /\ x.type # "error"
             /\ isConnected' = TRUE /\ stage' = "writing"
             /\ UNCHANGED <<statement, outcome>>
  /\ UNCHANGED <<dialect, use, open, lost, toServer, statementCache, behind,
                 server>>

-----------------------------------------------------------------------------
(* A statement over the connection. *)

PgWrite ==
  /\ stage = "writing" /\ dialect = "pg" /\ ~lost
  /\ Sends(Reply(sql, count)) /\ stage' = "reading"
  /\ UNCHANGED <<conn, fromServer, statement, statementCache, behind,
                 server, outcome>>

\* One message of the loops of executeExtendedQuery() and streamQuery(), which
\* end at a message of type last.
ReadUntil(last) ==
  /\ stage = "reading" /\ dialect = "pg"
  /\ \E x \in Range(fromServer) :
       /\ Reads(x)
       /\ \/ /\ x.type \notin {"row", "error", last}
             /\ seen' = seen \cup {x.of}
             /\ UNCHANGED <<stage, call, sql, purpose, count, columns, outcome, behind>>
          \/ /\ x.type = "row" /\ seen' = seen \cup {x.of}
             /\ stage' = IF call = "stream" THEN "yielded" ELSE stage
             /\ UNCHANGED <<call, sql, purpose, count, columns, outcome, behind>>
          \/ /\ x.type = last /\ seen' = seen \cup {x.of}
             /\ Resolves /\ UNCHANGED behind
          \/ /\ x.type = "error"
             /\ Throws /\ behind' = behind + 1
  /\ UNCHANGED <<conn, toServer, statementCache, server>>

\* Mutant: the loops end with the command, not when the server is ready.
MutEndsAtComplete == ReadUntil("complete")

PgRead == ReadUntil("ready")

\* The consumer of a stream asks for the next row, or leaves its loop.
Consume ==
  /\ stage = "yielded"
  /\ \/ stage' = "reading" /\ UNCHANGED <<statement, outcome, behind>>
     \/ Leaves
  /\ UNCHANGED <<conn, wire, statementCache, server>>

MysqlPrepare ==
  /\ stage = "writing" /\ dialect = "mysql" /\ ~lost
  /\ \/ /\ \E e \in statementCache : e[1] = sql /\ columns' = e[2]
        /\ Sends(Reply(sql, count)) /\ stage' = "reading"
     \/ /\ ~\E e \in statementCache : e[1] = sql
        /\ Sends(Reply("prepare", count)) /\ stage' = "preparing"
        /\ UNCHANGED columns
  /\ UNCHANGED <<conn, fromServer, call, sql, purpose, count, seen,
                 statementCache, behind, server, outcome>>

\* The first packet of the answer to a prepare.  A packet of another answer is
\* taken for it, and its bytes may mean anything.
MysqlPrepared ==
  /\ stage = "preparing"
  /\ \E x \in Range(fromServer) :
       /\ Reads(x)
       /\ \/ /\ x.type # "prepared" /\ x.type # "prepared columns"
             /\ Throws /\ UNCHANGED <<toServer, statementCache>>
          \/ /\ x.type \notin {"prepared columns", "error"}
             /\ seen' = seen \cup {x.of} /\ columns' = FALSE
             /\ statementCache' = statementCache \cup {<<sql, FALSE>>}
             /\ Sends(Reply(sql, count)) /\ stage' = "reading"
             /\ UNCHANGED <<call, sql, purpose, count, outcome>>
          \/ /\ x.type \notin {"prepared", "error"}
             /\ seen' = seen \cup {x.of} /\ columns' = TRUE
             /\ stage' = "defining"
             /\ UNCHANGED <<call, sql, purpose, count, outcome, toServer, statementCache>>
  /\ UNCHANGED <<conn, behind, server>>

\* The definition of the column, and the packet that ends the definitions.
MysqlDefined ==
  /\ stage = "defining" /\ Len(fromServer) >= 2
  /\ fromServer' = Tail(Tail(fromServer))
  /\ seen' = seen \cup {fromServer[1].of, fromServer[2].of}
  /\ statementCache' = statementCache \cup {<<sql, TRUE>>}
  /\ Sends(Reply(sql, count)) /\ stage' = "reading"
  /\ UNCHANGED <<conn, call, sql, purpose, count, columns, behind, server,
                 outcome>>

\* Mutant: an end packet is waited for, also when there are no rows.
MutWaitsForEnd ==
  /\ stage = "reading" /\ dialect = "mysql" /\ ~columns
  /\ \E x \in Range(fromServer) :
       Reads(x) /\ x.type = "end" /\ seen' = seen \cup {x.of}
  /\ Resolves
  /\ UNCHANGED <<conn, toServer, statementCache, behind, server>>

\* The answer of a statement without columns is one packet, and its type is
\* only looked at for the number of rows; streamQuery() does not read it.
MysqlReadOk ==
  /\ stage = "reading" /\ dialect = "mysql" /\ ~columns
  /\ \/ /\ call = "stream"
        /\ Leaves /\ UNCHANGED fromServer
     \/ /\ call = "execute"
        /\ \E x \in Range(fromServer) : Reads(x) /\ seen' = seen \cup {x.of}
        /\ Resolves /\ UNCHANGED behind
  /\ UNCHANGED <<conn, toServer, statementCache, server>>

MysqlReadRow ==
  /\ stage = "reading" /\ dialect = "mysql" /\ columns
  /\ \E x \in Range(fromServer) :
       /\ Reads(x)
       /\ \/ /\ x.type = "end" /\ seen' = seen \cup {x.of} /\ Resolves
          \/ x.type = "error" /\ Throws
          \/ /\ x.type \notin {"end", "error"} /\ seen' = seen \cup {x.of}
             /\ stage' = IF call = "stream" THEN "yielded" ELSE stage
             /\ UNCHANGED <<call, sql, purpose, count, columns, outcome>>
  /\ UNCHANGED <<conn, toServer, statementCache, behind, server>>

\* Reads end and writes reject once the stream is closed, also those of every
\* later call: the driver keeps its connection.
Broken ==
  /\ \/ stage \in {"greeting", "writing"} /\ lost
     \/ /\ stage \in {"authenticating", "sasl", "verifying", "preparing",
                       "reading"}
        /\ lost /\ fromServer = <<>>
     \/ stage = "greeting" /\ dialect = "mysql" /\ lost /\ fromServer = <<>>
     \/ stage = "defining" /\ lost /\ Len(fromServer) < 2
  /\ Throws
  /\ UNCHANGED <<conn, wire, statementCache, behind, server>>

-----------------------------------------------------------------------------
(* The server and the network. *)

Answers(messages) == fromServer' = fromServer \o messages
Rows(n) == {[i \in 1 .. k |-> Reply("row", n)] : k \in 0 .. MaxRows}

\* A MySQL server speaks first.
ServerGreets ==
  /\ dialect = "mysql" /\ open /\ session = "new" /\ ~lost
  /\ Answers(<<Reply("handshake", 0)>>) /\ session' = "greeted"
  /\ UNCHANGED <<conn, toServer, stage, statement, statementCache, behind,
                 tx, pending, durable, refused, outcome>>

Welcome == <<Reply("auth ok", 0), Reply("parameter", 0), Reply("ready", 0)>>

\* An authentication message: accepted, refused, or answered with a method.
ServerAuthenticates ==
  /\ toServer # <<>> /\ session # "ready" /\ ~lost
  /\ toServer' = Tail(toServer)
  /\ \/ /\ \/ Head(toServer).type = "startup" /\ session = "new"
           \/ Head(toServer).type = "sasl final"
        /\ session' = "ready" /\ UNCHANGED lost
        /\ Answers(IF session = "new" THEN Welcome
                   ELSE <<Reply("sasl verified", 0)>> \o Welcome)
     \/ /\ Head(toServer).type = "startup" /\ session = "new"
        /\ session' = "asked" /\ UNCHANGED lost
        /\ \E m \in {"auth sasl", "auth md5"} : Answers(<<Reply(m, 0)>>)
     \/ /\ Head(toServer).type = "sasl initial"
        /\ Answers(<<Reply("sasl continue", 0)>>) /\ UNCHANGED <<session, lost>>
     \/ /\ Head(toServer).type = "login" /\ session' = "ready"
        /\ Answers(<<Reply("ok", 0)>>) /\ UNCHANGED lost
     \/ /\ Head(toServer).type = "login" /\ session = "greeted"
        /\ session' = "switch"
        /\ Answers(<<Reply("auth switch", 0)>>) /\ UNCHANGED lost
     \/ /\ lost' = TRUE /\ Answers(<<Reply("error", 0)>>)
        /\ UNCHANGED session
  /\ UNCHANGED <<dialect, use, open, isConnected, stage, statement,
                 statementCache, behind, tx, pending, durable, refused, outcome>>

\* A statement takes effect, in its transaction or at once, or fails; an error
\* aborts a PostgreSQL transaction, and only the statement in MySQL.  A BEGIN in
\* a transaction is a warning in PostgreSQL, and commits it in MySQL.
Takes(m) ==
  /\ m.type \in {"begin", "write", "read"} => tx # "failed"
  /\ tx' = CASE m.type = "begin" -> "open"
              [] m.type \in {"commit", "rollback"} -> "none"
              [] OTHER -> tx
  /\ pending' = CASE m.type = "begin" -> IF dialect = "pg" THEN pending ELSE {}
                   [] m.type \in {"commit", "rollback"} -> {}
                   [] m.type \in {"read", "write"} /\ tx = "open" -> pending \cup {m.of}
                   [] OTHER -> pending
  /\ durable' = CASE m.type \in {"read", "write"} /\ tx = "none" -> durable \cup {m.of}
                   [] m.type = "commit" /\ tx = "open" -> durable \cup pending \cup {m.of}
                   [] m.type = "begin" /\ dialect = "mysql" -> durable \cup pending
                   [] OTHER -> durable
  /\ UNCHANGED refused

Refuses(m) ==
  /\ m.type \in {"begin", "read", "write", "commit"}
  /\ m.type = "begin" => dialect = "pg" /\ tx = "failed"
  /\ tx' = IF m.type = "commit" THEN "none"
           ELSE IF tx = "open" /\ dialect = "pg" THEN "failed" ELSE tx
  /\ pending' = IF m.type = "commit" THEN {} ELSE pending
  /\ refused' = refused \cup {m.of}
  /\ UNCHANGED durable

ServerPrepares ==
  /\ Head(toServer).type = "prepare"
  /\ \/ /\ sql \in {"read", "write"}
        /\ Answers(<<Reply("error", Head(toServer).of)>>)
     \/ sql # "read" /\ Answers(<<Reply("prepared", Head(toServer).of)>>)
     \/ /\ sql = "read"
        /\ Answers([i \in 1 .. 3 |-> Reply(<<"prepared columns", "column", "end">>[i],
                                          Head(toServer).of)])
  /\ UNCHANGED <<tx, pending, durable, refused>>

\* The messages that end an answer.
Success(m) ==
  IF dialect = "pg" THEN <<Reply("complete", m.of), Reply("ready", m.of)>>
  ELSE <<Reply(IF m.type = "read" THEN "end" ELSE "ok", m.of)>>
Failure(m) ==
  <<Reply("error", m.of)>> \o
  (IF dialect = "pg" THEN <<Reply("ready", m.of)>> ELSE <<>>)

ServerExecutes ==
  LET m == Head(toServer) IN
  /\ m.type \in Sql
  /\ \E rows \in IF m.type = "read" THEN Rows(m.of) ELSE {<<>>} :
       \/ Takes(m) /\ Answers(rows \o Success(m))
       \/ Refuses(m) /\ Answers(rows \o Failure(m))

Serves ==
  /\ session = "ready" /\ toServer # <<>> /\ ~lost
  /\ toServer' = Tail(toServer)
  /\ ServerPrepares \/ ServerExecutes
  /\ UNCHANGED <<conn, stage, statement, statementCache, behind, session,
                 outcome>>

\* The connection breaks: what was not delivered may be gone.
Loses ==
  /\ use.breaks /\ open /\ ~lost
  /\ lost' = TRUE /\ toServer' = <<>>
  /\ fromServer' \in {fromServer, <<>>}
  /\ tx' = "none" /\ pending' = {}
  /\ UNCHANGED <<dialect, use, open, isConnected, stage, statement,
                 statementCache, behind, session, durable, refused, outcome>>

-----------------------------------------------------------------------------
Proceed ==
  \/ Opened \/ OpenFails \/ PgGreeting \/ PgAuthenticate \/ PgSasl
  \/ MysqlGreeting \/ MysqlAuthenticate \/ PgWrite \/ PgRead \/ MysqlPrepare
  \/ MysqlPrepared \/ MysqlDefined \/ MysqlReadOk \/ MysqlReadRow \/ Broken
  \/ Consume \/ Callback

Server == ServerGreets \/ ServerAuthenticates \/ Serves

Next ==
  \/ \E c \in {"execute", "stream"}, s \in {"read", "write"} : Execute(c, s)
  \/ Transaction \/ Proceed \/ Server \/ Loses

Spec == Init /\ [][Next]_vars

\* The event loop runs what may run, and the server reads what it is sent.
FairSpec == Spec /\ WF_vars(Proceed) /\ WF_vars(Server)

-----------------------------------------------------------------------------
(* Properties *)

CallType ==
  /\ dialect \in Dialects /\ use \in Uses /\ open \in BOOLEAN /\ isConnected \in BOOLEAN /\ lost \in BOOLEAN
  /\ stage \in Stage /\ call \in {"execute", "stream"} /\ sql \in Sql
  /\ purpose \in {"single", "begin", "body", "commit", "rollback"} /\ columns \in BOOLEAN
  /\ course \in {"in step", "behind", "caught", "nested"} /\ told \in {"none", "ok", "error"}
  /\ nested \in Nat
NumberType ==
  /\ count \in 0 .. MaxStatements /\ seen \subseteq 0 .. count /\ behind \in Nat
  /\ pending \cup durable \cup refused \cup body \subseteq 1 .. MaxStatements
ServerType ==
  /\ statementCache \subseteq Sql \X BOOLEAN
  /\ session \in {"new", "greeted", "asked", "switch", "ready"}
  /\ tx \in {"none", "open", "failed"}

\* The type of the state: a statement is known by its place in the history, which
\* the driver itself never looks at.
TypeOK ==
  /\ CallType /\ NumberType /\ ServerType
  /\ \A m \in Range(toServer \o fromServer) : m.of \in 0 .. count

\* Answers that are still to be read, or still to be given.
Unread == Cardinality({i \in DOMAIN fromServer : fromServer[i].type = "ready"})
          + Len(toServer)

\* Who reads whose messages (stmtName and the portal carry no identity back): on
\* a connection where no answer was left unread, a statement reads the messages
\* of its own answer only, and a call that ended leaves nothing behind.  On a
\* PostgreSQL connection each statement that threw, and each stream left early,
\* leaves exactly one answer unread (line 94 throws before ReadyForQuery), and
\* every later statement is answered by so many answers too old.
AnswersMatched ==
  /\ behind = 0 /\ ~lost => seen \subseteq {count}
  /\ stage = "idle" /\ isConnected /\ ~lost /\ session = "ready" =>
       IF dialect = "pg" THEN Unread = behind
       ELSE behind = 0 => fromServer = <<>> /\ toServer = <<>>

\* The type of the state, and whose answers are read.
Safety == TypeOK /\ AnswersMatched

\* What transaction() tells its caller is what the server did, when the stream
\* was in step at BEGIN, and its function left no stream before its end, caught
\* no error and called no transaction() of the same driver (whose COMMIT ends
\* this transaction): it resolves only after every statement is durable, it
\* throws only when none is, unless the connection broke.  (MySQL: unless the
\* server refused a statement without columns, COMMIT included, whose error packet
\* line 75 takes for success.)
OutcomeTold ==
  stage = "idle" /\ course = "in step" =>
    /\ told = "ok" /\ (dialect = "pg" \/ body \cap refused = {}) =>
         body \subseteq durable
    /\ told = "error" /\ ~lost => body \cap durable = {}

\* A call ends, whatever messages come, also when the server closes the
\* connection in the middle of an exchange.  (A MySQL statement on a connection
\* that is out of step may wait for packets that never come.)
CallEnds ==
  stage # "idle" ~> stage = "idle" \/ (dialect = "mysql" /\ behind > 0)

-----------------------------------------------------------------------------
(* Why Safety and OutcomeTold hold: an invariant that the steps preserve. *)

\* A sequence whose one message of a type of T is its last.
EndsIn(s, T) ==
  s # <<>> /\ \A i \in 1 .. Len(s) : s[i].type \in T <=> i = Len(s)
Only(s, m) == Len(s) = 1 /\ s[1] = m
Quiet == toServer = <<>> /\ fromServer = <<>>

Type == Sql \cup
  {"startup", "sasl initial", "sasl final", "login", "prepare",
   "auth ok", "parameter", "ready", "auth sasl", "auth md5", "sasl continue",
   "sasl verified", "handshake", "ok", "auth switch", "error", "prepared",
   "prepared columns", "column", "row", "end", "complete"}
Message == [type : Type, of : Nat]

\* What is on the wire: messages about the statements sent so far.
ToServerSound ==
  /\ toServer \in Seq(Message)
  /\ \A i \in 1 .. Len(toServer) :
       /\ toServer[i].of <= count
       /\ toServer[i].type \in Sql => toServer[i].of > 0
       /\ dialect = "pg" /\ isConnected /\ ~lost => toServer[i].type \in Sql
FromServerSound ==
  /\ fromServer \in Seq(Message)
  /\ \A i \in 1 .. Len(fromServer) : fromServer[i].of <= count

\* The server knows no other statement.
KnownSound == pending \cup durable \cup refused \cup body \subseteq 1 .. count

\* Where a call is: on which driver, before or after connect().
StageSound ==
  /\ stage = "opening" => ~open
  /\ stage \in {"greeting", "authenticating", "sasl", "verifying"} => open /\ ~isConnected
  /\ stage \in {"writing", "preparing", "defining", "reading", "yielded", "callback"} =>
       isConnected
  /\ isConnected \/ lost => open
  /\ stage \in {"sasl", "verifying"} => dialect = "pg"
  /\ stage \in {"preparing", "defining"} => dialect = "mysql"

\* Which call it is, and the statement that it has reached.
CallSound ==
  /\ stage = "yielded" => call = "stream"
  /\ stage \in {"yielded", "callback"} /\ purpose # "single" /\ course = "in step" =>
       purpose \in {"begin", "body"}
  /\ stage = "callback" => purpose # "single"
  /\ call = "stream" => purpose \in {"single", "body"}
  /\ purpose # "single" => (stage = "idle" <=> told # "none")
  /\ purpose \in {"body", "commit", "rollback"} => isConnected
  /\ nested # 0 =>
       stage # "idle" /\ isConnected /\ purpose # "single" /\ course # "in step"
  /\ IF purpose \in {"single", "body"} THEN sql \in {"read", "write"} ELSE sql = purpose

\* The statements of the transaction, counted.
BodyCounted ==
  /\ stage # "idle" => count > 0
  /\ purpose = "begin" /\ course = "in step" => body = {}
  /\ stage # "idle" => (count \in body <=> purpose \in {"body", "commit"})

\* The server has let the client in before a statement is answered.
SessionSound ==
  /\ isConnected /\ ~lost => session = "ready" \/ (session = "switch" /\ dialect = "mysql")
  /\ session # "ready" =>
       /\ behind = 0 /\ statementCache = {} /\ purpose \in {"single", "begin"}
       /\ nested = 0 /\ stage \notin {"defining", "reading", "yielded", "callback"}
       /\ stage = "preparing" =>
            \A i \in 1 .. Len(fromServer) : fromServer[i].type = "error"

\* connect(), message by message, and what the two sides have said.
ConnectSound ==
  ~isConnected =>
  /\ behind = 0 /\ statementCache = {}
  /\ ~lost =>
     /\ ~open => session = "new" /\ stage \in {"idle", "opening"}
     /\ stage \in {"idle", "opening"} =>
          Quiet /\ session \in {"new", "asked"} /\ (dialect = "mysql" => ~open)
     /\ stage = "greeting" /\ dialect = "pg" => Quiet /\ session \in {"new", "asked"}
     /\ stage = "greeting" /\ dialect = "mysql" =>
          /\ toServer = <<>>
          /\ \/ session = "new" /\ fromServer = <<>>
             \/ session = "greeted" /\ Len(fromServer) = 1
     /\ stage = "authenticating" /\ dialect = "pg" =>
          \/ Only(toServer, Reply("startup", 0)) /\ fromServer = <<>> /\ session \in {"new", "asked"}
          \/ /\ toServer = <<>> /\ session = "asked" /\ Len(fromServer) = 1
             /\ fromServer[1].type \in {"auth sasl", "auth md5"}
          \/ /\ toServer = <<>> /\ session = "ready" /\ EndsIn(fromServer, {"ready"})
             /\ \A i \in 1 .. Len(fromServer) :
                  fromServer[i].type \in {"auth ok", "parameter", "ready"}
     /\ stage = "sasl" =>
          /\ session = "asked"
          /\ \/ Only(toServer, Reply("sasl initial", 0)) /\ fromServer = <<>>
             \/ toServer = <<>> /\ Only(fromServer, Reply("sasl continue", 0))
     /\ stage = "verifying" =>
          \/ Only(toServer, Reply("sasl final", 0)) /\ fromServer = <<>> /\ session = "asked"
          \/ /\ toServer = <<>> /\ session = "ready" /\ EndsIn(fromServer, {"ready"})
             /\ Len(fromServer) > 1 /\ fromServer[1].type = "sasl verified"
             /\ \A i \in 2 .. Len(fromServer) :
                  fromServer[i].type \in {"auth ok", "parameter", "ready"}
     /\ stage = "authenticating" /\ dialect = "mysql" =>
          \/ Only(toServer, Reply("login", 0)) /\ fromServer = <<>> /\ session = "greeted"
          \/ /\ toServer = <<>> /\ session \in {"ready", "switch"}
             /\ Len(fromServer) = 1 /\ fromServer[1].type # "error"

\* PostgreSQL: every answer owed ends in its own ReadyForQuery.
UnreadCounted ==
  dialect = "pg" /\ isConnected /\ ~lost =>
    Unread = behind + (IF stage \in {"reading", "yielded"} THEN 1 ELSE 0)

\* A connection in step: between statements nothing is on the wire, and during
\* one there is the message it sent or what is left of its own answer.
Owed(m) == IF toServer = <<>> THEN fromServer # <<>> ELSE Only(toServer, m) /\ fromServer = <<>>
Own(s) == \A i \in 1 .. Len(s) : s[i].of = count
LastOf == IF dialect = "pg" THEN {"ready"}
        ELSE {"error", IF columns THEN "end" ELSE "ok"}
InStep ==
  isConnected /\ behind = 0 =>
  /\ stage \in {"idle", "writing", "callback"} /\ ~lost => Quiet
  /\ \A e \in statementCache : e[2] <=> e[1] = "read"
  /\ stage = "preparing" =>
       /\ ~lost => Owed(Reply("prepare", count))
       /\ \/ fromServer = <<>>
          \/ /\ Len(fromServer) = 1 /\ fromServer[1].type = "error"
             /\ ~lost => sql \in {"read", "write"}
          \/ Only(fromServer, Reply("prepared", count)) /\ sql # "read"
          \/ /\ Len(fromServer) = 3 /\ fromServer[1].type = "prepared columns"
             /\ Own(fromServer) /\ sql = "read"
  /\ stage = "defining" =>
       /\ columns /\ sql = "read" /\ Own(fromServer)
       /\ fromServer = <<>> \/ Len(fromServer) = 2
       /\ ~lost => toServer = <<>> /\ fromServer # <<>>
  /\ stage \in {"reading", "yielded"} =>
       /\ dialect = "mysql" => (columns <=> sql = "read") /\ (columns \/ Len(fromServer) <= 1)
       /\ ~lost => Owed(Reply(sql, count))
       /\ fromServer # <<>> => EndsIn(fromServer, LastOf) /\ Own(fromServer)

OwnSeen == behind = 0 => seen \subseteq {count}

\* The transaction under way, no statement of which has thrown: what the server
\* has executed of it is pending, or was refused (MySQL), until it commits.
UnderWay ==
  course = "in step" /\ told = "none" /\ purpose \in {"begin", "body", "commit"}
Executed ==
  stage = "callback" \/ (stage \in {"reading", "yielded"} /\ toServer = <<>>)
Failed ==
  dialect = "pg" /\ \E i \in 1 .. Len(fromServer) : fromServer[i].type = "error"
NoneRefused == body \cap refused = {}
BodySound ==
  UnderWay =>
  /\ behind = 0
  /\ ~lost /\ ~Failed /\ (purpose = "begin" => Executed) /\ (purpose = "commit" => ~Executed) =>
       /\ tx = "open"
       /\ (IF Executed THEN body ELSE body \ {count}) \subseteq pending \cup refused
       /\ dialect = "pg" => NoneRefused
  /\ ~lost /\ ~(purpose = "commit" /\ Executed /\ ~Failed) => body \cap durable = {}
  /\ /\ purpose = "commit" /\ stage = "reading" /\ fromServer # <<>>
     /\ ~Failed /\ (dialect = "pg" \/ NoneRefused)
     => body \subseteq durable

\* A transaction that gave up: nothing of it is durable, nor will be: what is
\* pending of it is dropped by the ROLLBACK that the server reads first.
GaveUp == course = "in step" /\ (told = "error" \/ purpose = "rollback")
RollbackFirst ==
  \/ purpose = "rollback" /\ (stage = "writing" => toServer = <<>>)
     /\ stage \in {"writing", "preparing"}
  \/ toServer # <<>> /\ toServer[1].type = "rollback"
GaveUpSound ==
  /\ GaveUp /\ ~lost =>
     /\ body \cap durable = {}
     /\ body \cap pending = {} \/ RollbackFirst
     /\ \A i \in 1 .. Len(toServer) : toServer[i].of \notin body
  /\ dialect = "mysql" /\ purpose # "single" /\ course = "in step" => behind = 0

CommitSound ==
  course = "in step" /\ told = "ok" /\ (dialect = "pg" \/ NoneRefused) =>
    body \subseteq durable

IInv ==
  /\ ToServerSound /\ FromServerSound /\ KnownSound
  /\ CallType /\ NumberType /\ ServerType
  /\ StageSound /\ CallSound /\ BodyCounted /\ SessionSound
  /\ ConnectSound /\ UnreadCounted
  /\ InStep /\ OwnSeen /\ BodySound /\ GaveUpSound /\ CommitSound
=============================================================================
