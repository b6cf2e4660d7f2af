-------------------------------- MODULE Mirror ---------------------------------
(***************************************************************************)
(* The SQL side of MyDB (ts/linkself/src/sqlproxy.ts, mydb.ts): an exec    *)
(* that inserts or updates reads the whole table back and puts every row   *)
(* into devicesync, one awaited put after the other; migrations are        *)
(* executed and recorded by two statements.  The statements go to the      *)
(* database in a worker (sqlite.ts, sqlite-worker.ts), which takes them in *)
(* the order they were posted; close ends the worker.  Calls of the        *)
(* application overlap at every await, and the page may reload at any      *)
(* point: the database stays, what is in memory does not.                  *)
(***************************************************************************)
EXTENDS Naturals, Sequences

CONSTANTS
  Rows,         \* the rows of the table, by primary key
  LastVersion,  \* the migrations are 1..LastVersion
  MaxCalls,     \* bound: calls of exec, migrate and close
  MaxFailures,  \* bound: statements that fail although the database is open
  MaxReloads    \* bound: page reloads

ASSUME MirrorAssumption ==
  LastVersion \in Nat /\ MaxCalls \in Nat /\ MaxFailures \in Nat /\ MaxReloads \in Nat

Calls == 1..MaxCalls
Versions == 1..LastVersion

VARIABLES
  table,     \* table[r]: the call that wrote row r last, 0 if there is no row
  records,   \* records[r]: what devicesync has of row r, 0 if nothing
  schema,    \* the migrations whose sql was executed
  versions,  \* _migrations: the migrations recorded
  calls,     \* calls[c]: not made, waiting for an answer, with rows to put, or settled
  posted,    \* the statements the worker has not taken, as [call, op, x]
  answers,   \* the answers the page has not taken, as [stmt, ok, got]
  open,      \* is the database of the worker open?
  live,      \* the worker has not been terminated
  failures, reloads,
  behind     \* history: rows whose record is older than the row, and why that is known:
             \* a put came late, a read-back failed, or the page reloaded

vars == <<table, records, schema, versions, calls, posted, answers, open, live, failures,
          reloads, behind>>

worker == <<table, schema, versions, open, failures>>

NoRow == [r \in Rows |-> 0]
Unmade == [is |-> "unmade", rows |-> NoRow]
Waiting == [is |-> "waiting", rows |-> NoRow]
Settled == [is |-> "settled", rows |-> NoRow]

Init ==
  /\ table = NoRow /\ records = NoRow
  /\ schema = {} /\ versions = {}
  /\ calls = [c \in Calls |-> Unmade]
  /\ posted = <<>> /\ answers = <<>>
  /\ open = TRUE /\ live = TRUE
  /\ failures = 0 /\ reloads = 0
  /\ behind = {}

-----------------------------------------------------------------------------
(* The page *)

\* a call posts its next statement
Post(c, op, x) ==
  /\ posted' = Append(posted, [call |-> c, op |-> op, x |-> x])
  /\ calls' = [calls EXCEPT ![c] = Waiting]

Settle(c) == calls' = [calls EXCEPT ![c] = Settled] /\ UNCHANGED posted

\* MyDB.exec, migrate, SqliteWasmDatabase.close: one more call
Make ==
  \E c \in Calls :
    /\ calls[c] = Unmade /\ \A d \in 1..(c - 1) : calls[d] # Unmade
    /\ \/ \E r \in Rows, op \in {"write", "delete"} : Post(c, op, r)
       \/ Versions # {} /\ Post(c, "count", 1)
       \/ Post(c, "close", 0)
    /\ UNCHANGED <<table, records, schema, versions, answers, open, live, failures, reloads,
                   behind>>

\* migrate goes on with the next migration, or is done
NextMigration(c, v) ==
  IF v + 1 \in Versions THEN Post(c, "count", v + 1) ELSE Settle(c)

\* mutant of AfterCount: the migration is recorded before it is executed
AfterCount_RecordFirst(c, v) == Post(c, "record", v)

\* a migration that is not recorded is executed
AfterCount(c, v) == Post(c, "schema", v)

\* mutant of Mirrored: the loop over the rows ends after the first
Mirrored_One(c, rows) ==
  IF rows = NoRow \/ calls[c].is = "put" THEN Settle(c)
  ELSE /\ calls' = [calls EXCEPT ![c] = [is |-> "put", rows |-> rows]]
       /\ UNCHANGED posted

\* wireSqlSync has the rows: those there are will be put
Mirrored(c, rows) ==
  IF rows = NoRow THEN Settle(c)
  ELSE /\ calls' = [calls EXCEPT ![c] = [is |-> "put", rows |-> rows]]
       /\ UNCHANGED posted

\* the page takes an answer, and the call that waited for it goes on; a statement that
\* failed ends its call, but a read-back that failed is no failure of the exec
TakeAnswer ==
  /\ answers # <<>>
  /\ LET a == Head(answers)
         c == a.stmt.call
         op == a.stmt.op
         x == a.stmt.x
     IN /\ IF ~a.ok THEN Settle(c)
           ELSE CASE op = "write" -> Post(c, "read", x)
                  [] op = "read" -> Mirrored(c, a.got)
                  [] op = "count" -> IF x \in a.got THEN NextMigration(c, x) ELSE AfterCount(c, x)
                  [] op = "schema" -> Post(c, "record", x)
                  [] op = "record" -> NextMigration(c, x)
                  [] OTHER -> Settle(c)
        /\ live' = (live /\ ~(op = "close" /\ a.ok))
        /\ behind' = IF op = "read" /\ ~a.ok
                     THEN behind \cup {r \in Rows : records[r] # table[r]} ELSE behind
  /\ answers' = Tail(answers)
  /\ UNCHANGED <<worker, records, reloads>>

\* wireSqlSync: one more awaited put
Put(c) ==
  /\ calls[c].is = "put"
  /\ \E r \in Rows :
       LET rows == calls[c].rows IN
       /\ rows[r] # 0
       /\ records' = [records EXCEPT ![r] = rows[r]]
       /\ behind' = IF rows[r] = table[r] THEN behind \ {r} ELSE behind \cup {r}
       /\ Mirrored(c, [rows EXCEPT ![r] = 0])
  /\ UNCHANGED <<worker, answers, live, reloads>>

\* the page reloads, with a new worker for the database and an empty devicesync storage
Reload ==
  /\ reloads < MaxReloads
  /\ reloads' = reloads + 1
  /\ calls' = [c \in Calls |-> IF calls[c] = Unmade THEN Unmade ELSE Settled]
  /\ posted' = <<>> /\ answers' = <<>>
  /\ open' = TRUE /\ live' = TRUE
  /\ records' = NoRow
  /\ behind' = Rows
  /\ UNCHANGED <<table, schema, versions, failures>>

-----------------------------------------------------------------------------
(* The worker *)

\* what a statement answers
ResultOf(s) ==
  CASE s.op = "read" -> table
    [] s.op = "count" -> versions
    [] OTHER -> 0

\* what a statement changes
Executed(s) ==
  /\ table' = CASE s.op = "write" -> [table EXCEPT ![s.x] = s.call]
                [] s.op = "delete" -> [table EXCEPT ![s.x] = 0]
                [] OTHER -> table
  /\ schema' = IF s.op = "schema" THEN schema \cup {s.x} ELSE schema
  /\ versions' = IF s.op = "record" THEN versions \cup {s.x} ELSE versions
  /\ open' = (open /\ s.op # "close")

\* mutant of ErrorAnswer: an error is not caught
ErrorAnswer_Lost(s) == <<>>

\* the answer to a statement that failed
ErrorAnswer(s) == <<[stmt |-> s, ok |-> FALSE, got |-> 0]>>

\* handle: a version recorded twice breaks the primary key, and a closed database or any
\* other error is answered as such
Take ==
  /\ live /\ posted # <<>>
  /\ LET s == Head(posted)
         broken == ~open \/ (s.op = "record" /\ s.x \in versions)
     IN \/ /\ ~broken
           /\ Executed(s)
           /\ answers' = Append(answers, [stmt |-> s, ok |-> TRUE, got |-> ResultOf(s)])
           /\ UNCHANGED failures
        \/ /\ broken \/ failures < MaxFailures
           /\ failures' = IF broken THEN failures ELSE failures + 1
           /\ answers' = answers \o ErrorAnswer(s)
           /\ UNCHANGED <<table, schema, versions, open>>
  /\ posted' = Tail(posted)
  /\ UNCHANGED <<records, calls, live, reloads, behind>>

-----------------------------------------------------------------------------

Page == TakeAnswer \/ \E c \in Calls : Put(c)

Next == Make \/ Page \/ Take \/ Reload

Spec == Init /\ [][Next]_vars

\* the worker and the page handle what is posted to them, and started puts go on
FairSpec == Spec /\ WF_vars(Take) /\ WF_vars(TakeAnswer) /\ \A c \in Calls : WF_vars(Put(c))

-----------------------------------------------------------------------------

Idle == \A c \in Calls : calls[c] \in {Unmade, Settled}

\* When no call is under way, devicesync has the rows of the table (mydb.ts 112-136), except
\* those known to be behind: however execs overlap, no other write goes unmirrored.  A row
\* that was deleted keeps its record, as deletions are not mirrored.
MirrorsTable ==
  Idle => \A r \in Rows : table[r] # 0 /\ r \notin behind => records[r] = table[r]

\* Migrations are recorded in their order and only once executed (sqlproxy.ts 93-105),
\* although two migrate calls may overlap, a statement may fail, and a reload may come
\* between the two statements of a migration.
MigrationsInOrder ==
  \A v \in versions : 1..v \subseteq versions /\ v \in schema

\* A call settles, whatever else is under way, unless close terminates the worker with
\* statements still posted (sqlite.ts 142-145).
CallsSettle ==
  \A c \in Calls : calls[c] # Unmade ~> calls[c] = Settled \/ ~live

=============================================================================
