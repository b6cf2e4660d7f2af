----------------------------- MODULE MirrorProofs ------------------------------
(***************************************************************************)
(* Migrations are recorded in order and only once executed, and no write   *)
(* goes unmirrored, for any number of rows, migrations, calls, failures    *)
(* and reloads.  What makes them inductive is what the statements on their *)
(* way, the answers to them and the rows still to be put already imply.    *)
(***************************************************************************)
EXTENDS Mirror, TLAPS

\* v is a migration and the ones before it are recorded
Before(v) == v \in Versions /\ \A u \in Versions : u < v => u \in versions

\* what a posted statement of a migration implies
Justified(s) ==
  /\ s.op \in {"count", "schema", "record"} => Before(s.x)
  /\ s.op = "record" => s.x \in schema

\* what an answer implies
Truthful(a) ==
  /\ Justified(a.stmt)
  /\ a.ok /\ a.stmt.op = "count" => a.got \subseteq versions
  /\ a.ok /\ a.stmt.op = "schema" => a.stmt.x \in schema
  /\ a.ok /\ a.stmt.op = "record" => a.stmt.x \in versions

Statements ==
  [call : Calls, op : {"write", "read", "delete", "count", "schema", "record", "close"},
   x : Rows \cup Nat]

Answers == [stmt : Statements, ok : BOOLEAN, got : (SUBSET Nat) \cup [Rows -> Nat] \cup {0}]

\* what is in a queue
Elems(q) == {q[i] : i \in 1..Len(q)}

DatabaseOK ==
  /\ table \in [Rows -> Nat]
  /\ versions \subseteq Versions
  /\ \A v \in versions : v \in schema /\ Before(v)

PostedOK == posted \in Seq(Statements) /\ \A s \in Elems(posted) : Justified(s)

AnswersOK == answers \in Seq(Answers) /\ \A a \in Elems(answers) : Truthful(a)

\* the inductive invariant
IInv == DatabaseOK /\ PostedOK /\ AnswersOK

-----------------------------------------------------------------------------
(* Queues *)

LEMMA Appended ==
  ASSUME NEW S, NEW q \in Seq(S), NEW e \in S
  PROVE  Append(q, e) \in Seq(S) /\ Elems(Append(q, e)) = Elems(q) \cup {e}
<1>1. /\ Append(q, e) \in Seq(S) /\ Len(Append(q, e)) = Len(q) + 1 /\ Len(q) \in Nat
      /\ Append(q, e)[Len(q) + 1] = e
      /\ \A i \in 1..Len(q) : Append(q, e)[i] = q[i]
  OBVIOUS
<1>2. 1..(Len(q) + 1) = (1..Len(q)) \cup {Len(q) + 1}
  BY <1>1
<1> HIDE DEF Elems
<1>3. Elems(Append(q, e)) = {Append(q, e)[i] : i \in 1..(Len(q) + 1)}
  BY <1>1 DEF Elems
<1>4. ASSUME NEW y \in Elems(Append(q, e)) PROVE y \in Elems(q) \cup {e}
  BY <1>1, <1>2, <1>3, <1>4 DEF Elems
<1>5. ASSUME NEW y \in Elems(q) \cup {e} PROVE y \in Elems(Append(q, e))
  BY <1>1, <1>2, <1>3, <1>5 DEF Elems
<1> QED
  BY <1>1, <1>4, <1>5

LEMMA Shortened ==
  ASSUME NEW S, NEW q \in Seq(S), q # <<>>
  PROVE  /\ Head(q) \in S /\ Head(q) \in Elems(q)
         /\ Tail(q) \in Seq(S) /\ Elems(Tail(q)) \subseteq Elems(q)
<1>1. /\ Tail(q) \in Seq(S) /\ Head(q) = q[1] /\ 1 \in 1..Len(q)
      /\ \A i \in 1..Len(Tail(q)) : i + 1 \in 1..Len(q) /\ Tail(q)[i] = q[i + 1]
  OBVIOUS
<1> QED
  BY <1>1 DEF Elems

LEMMA Within ==
  ASSUME NEW S, NEW q \in Seq(S), NEW r,
         r = q \/ r = <<>> \/ (q # <<>> /\ r = Tail(q))
  PROVE  r \in Seq(S) /\ Elems(r) \subseteq Elems(q)
<1>1. CASE r = q
  BY <1>1
<1>2. CASE r = <<>>
  <2>1. 1..Len(<<>>) = {}
    OBVIOUS
  <2> QED
    BY <1>2, <2>1 DEF Elems
<1>3. CASE q # <<>> /\ r = Tail(q)
  BY <1>3, Shortened
<1> QED
  BY <1>1, <1>2, <1>3

-----------------------------------------------------------------------------
(* What the database has, it keeps *)

Grows == versions \subseteq versions' /\ schema \subseteq schema'

LEMMA JustifiedStays ==
  ASSUME Grows, NEW s, Justified(s)
  PROVE  Justified(s)'
BY DEF Grows, Justified, Before

LEMMA TruthfulStays ==
  ASSUME Grows, NEW a, Truthful(a)
  PROVE  Truthful(a)'
<1>1. Justified(a.stmt)'
  BY JustifiedStays DEF Truthful
<1> QED
  BY <1>1 DEF Grows, Truthful

LEMMA PostedStays ==
  ASSUME Grows, PostedOK,
         \/ posted' = posted
         \/ posted' = <<>>
         \/ posted # <<>> /\ posted' = Tail(posted)
  PROVE  PostedOK'
<1>1. posted' \in Seq(Statements) /\ Elems(posted') \subseteq Elems(posted)
  BY Within DEF PostedOK
<1>2. ASSUME NEW s \in Elems(posted') PROVE Justified(s)'
  BY <1>1, JustifiedStays DEF PostedOK
<1> QED
  BY <1>1, <1>2 DEF PostedOK, Elems

LEMMA PostedMore ==
  ASSUME Grows, PostedOK, NEW s \in Statements, Justified(s), posted' = Append(posted, s)
  PROVE  PostedOK'
<1>1. posted' \in Seq(Statements) /\ Elems(posted') = Elems(posted) \cup {s}
  BY Appended DEF PostedOK
<1>2. ASSUME NEW t \in Elems(posted') PROVE Justified(t)'
  BY <1>1, JustifiedStays DEF PostedOK
<1> QED
  BY <1>1, <1>2 DEF PostedOK, Elems

LEMMA AnswersStay ==
  ASSUME Grows, AnswersOK,
         \/ answers' = answers
         \/ answers' = <<>>
         \/ answers # <<>> /\ answers' = Tail(answers)
  PROVE  AnswersOK'
<1>1. answers' \in Seq(Answers) /\ Elems(answers') \subseteq Elems(answers)
  BY Within DEF AnswersOK
<1>2. ASSUME NEW a \in Elems(answers') PROVE Truthful(a)'
  BY <1>1, TruthfulStays DEF AnswersOK
<1> QED
  BY <1>1, <1>2 DEF AnswersOK, Elems

LEMMA AnswersMore ==
  ASSUME Grows, AnswersOK, NEW a \in Answers, Truthful(a)', answers' = Append(answers, a)
  PROVE  AnswersOK'
<1>1. answers' \in Seq(Answers) /\ Elems(answers') = Elems(answers) \cup {a}
  BY Appended DEF AnswersOK
<1>2. ASSUME NEW b \in Elems(answers') PROVE Truthful(b)'
  BY <1>1, TruthfulStays DEF AnswersOK
<1> QED
  BY <1>1, <1>2 DEF AnswersOK, Elems

LEMMA DatabaseStays ==
  ASSUME DatabaseOK, UNCHANGED <<table, schema, versions>>
  PROVE  DatabaseOK' /\ Grows
BY DEF DatabaseOK, Before, Grows

-----------------------------------------------------------------------------
(* The actions *)

LEMMA InitIInv == Init => IInv
<1> SUFFICES ASSUME Init PROVE IInv
  OBVIOUS
<1>1. <<>> \in Seq(Statements) /\ <<>> \in Seq(Answers) /\ 1..Len(<<>>) = {}
  OBVIOUS
<1> QED
  BY <1>1 DEF Init, IInv, DatabaseOK, PostedOK, AnswersOK, Elems, NoRow

LEMMA MakeIInv == IInv /\ Make => IInv'
<1> SUFFICES ASSUME IInv, Make PROVE IInv'
  OBVIOUS
<1>1. DatabaseOK' /\ Grows
  BY DatabaseStays DEF IInv, Make
<1>2. AnswersOK'
  BY <1>1, AnswersStay DEF IInv, Make
<1>3. \E s \in Statements : Justified(s) /\ posted' = Append(posted, s)
  <2>1. PICK c \in Calls :
          \/ \E r \in Rows, op \in {"write", "delete"} : Post(c, op, r)
          \/ Versions # {} /\ Post(c, "count", 1)
          \/ Post(c, "close", 0)
    BY DEF Make
  <2>2. CASE \E r \in Rows, op \in {"write", "delete"} : Post(c, op, r)
    BY <2>2 DEF Post, Statements, Justified
  <2>3. CASE Versions # {} /\ Post(c, "count", 1)
    <3>1. Before(1)
      BY <2>3, MirrorAssumption DEF Before, Versions
    <3> QED
      BY <2>3, <3>1 DEF Post, Statements, Justified
  <2>4. CASE Post(c, "close", 0)
    BY <2>4 DEF Post, Statements, Justified
  <2> QED
    BY <2>1, <2>2, <2>3, <2>4
<1>4. PostedOK'
  BY <1>1, <1>3, PostedMore DEF IInv
<1> QED
  BY <1>1, <1>2, <1>4 DEF IInv

\* what a call posts when its migration is recorded, or is to be executed
LEMMA NextPosted ==
  ASSUME DatabaseOK, NEW c \in Calls, NEW x \in Versions, Before(x),
         \/ x \in versions /\ NextMigration(c, x)
         \/ AfterCount(c, x)
         \/ x \in schema /\ Post(c, "record", x)
  PROVE  \/ posted' = posted
         \/ \E s \in Statements : Justified(s) /\ posted' = Append(posted, s)
<1>0. x \in Nat /\ x + 1 \in Nat
  BY DEF Versions
<1>1. CASE x \in versions /\ NextMigration(c, x)
  <2>1. CASE x + 1 \in Versions
    <3>1. Before(x + 1)
      BY <1>1, <2>1 DEF Before, Versions
    <3> QED
      BY <1>0, <1>1, <2>1, <3>1 DEF NextMigration, Post, Statements, Justified
  <2>2. CASE x + 1 \notin Versions
    BY <1>1, <2>2 DEF NextMigration, Settle
  <2> QED
    BY <2>1, <2>2
<1>2. CASE AfterCount(c, x)
  BY <1>0, <1>2 DEF AfterCount, Post, Statements, Justified
<1>3. CASE x \in schema /\ Post(c, "record", x)
  BY <1>0, <1>3 DEF Post, Statements, Justified
<1> QED
  BY <1>1, <1>2, <1>3

LEMMA TakeAnswerIInv == IInv /\ TakeAnswer => IInv'
<1> SUFFICES ASSUME IInv, TakeAnswer PROVE IInv'
  OBVIOUS
<1>1. DatabaseOK' /\ Grows
  BY DatabaseStays DEF IInv, TakeAnswer, worker
<1>2. AnswersOK'
  BY <1>1, AnswersStay DEF IInv, TakeAnswer
<1> DEFINE a == Head(answers)
           c == a.stmt.call
           op == a.stmt.op
           x == a.stmt.x
<1>3. a \in Answers /\ Truthful(a)
  BY Shortened DEF IInv, AnswersOK, TakeAnswer
<1>4. c \in Calls /\ x \in Rows \cup Nat /\ a.ok \in BOOLEAN
  BY <1>3 DEF Answers, Statements
<1>5. \/ posted' = posted
      \/ \E s \in Statements : Justified(s) /\ posted' = Append(posted, s)
  <2>1. CASE ~a.ok
    <3>1. Settle(c)
      BY <1>4, <2>1 DEF TakeAnswer
    <3> QED
      BY <3>1 DEF Settle
  <2>2. CASE a.ok /\ op = "write"
    <3>1. Post(c, "read", x)
      BY <2>2 DEF TakeAnswer
    <3> QED
      BY <1>4, <3>1 DEF Post, Statements, Justified
  <2>3. CASE a.ok /\ op = "read"
    BY <2>3 DEF TakeAnswer, Mirrored, Settle
  <2>4. CASE a.ok /\ op \in {"count", "schema", "record"}
    <3>1. x \in Versions /\ Before(x)
      BY <1>3, <2>4 DEF Truthful, Justified, Before
    <3>2. \/ x \in versions /\ NextMigration(c, x)
          \/ AfterCount(c, x)
          \/ x \in schema /\ Post(c, "record", x)
      <4>1. CASE op = "count"
        BY <1>3, <2>4, <4>1 DEF TakeAnswer, Truthful
      <4>2. CASE op = "schema"
        BY <1>3, <2>4, <4>2 DEF TakeAnswer, Truthful
      <4>3. CASE op = "record"
        BY <1>3, <2>4, <4>3 DEF TakeAnswer, Truthful
      <4> QED
        BY <2>4, <4>1, <4>2, <4>3
    <3> QED
      BY <1>4, <3>1, <3>2, NextPosted DEF IInv
  <2>5. CASE a.ok /\ op \notin {"write", "read", "count", "schema", "record"}
    BY <2>5 DEF TakeAnswer, Settle
  <2> QED
    BY <1>4, <2>1, <2>2, <2>3, <2>4, <2>5
<1>6. PostedOK'
  BY <1>1, <1>5, PostedStays, PostedMore DEF IInv
<1> QED
  BY <1>1, <1>2, <1>6 DEF IInv

LEMMA PutIInv == ASSUME NEW c \in Calls PROVE IInv /\ Put(c) => IInv'
<1> SUFFICES ASSUME IInv, Put(c) PROVE IInv'
  OBVIOUS
<1>1. DatabaseOK' /\ Grows
  BY DatabaseStays DEF IInv, Put, worker
<1>2. AnswersOK'
  BY <1>1, AnswersStay DEF IInv, Put
<1>3. PostedOK'
  BY <1>1, PostedStays DEF IInv, Put, Mirrored, Settle
<1> QED
  BY <1>1, <1>2, <1>3 DEF IInv

LEMMA ReloadIInv == IInv /\ Reload => IInv'
<1> SUFFICES ASSUME IInv, Reload PROVE IInv'
  OBVIOUS
<1>1. DatabaseOK' /\ Grows
  BY DatabaseStays DEF IInv, Reload
<1>2. AnswersOK'
  BY <1>1, AnswersStay DEF IInv, Reload
<1>3. PostedOK'
  BY <1>1, PostedStays DEF IInv, Reload
<1> QED
  BY <1>1, <1>2, <1>3 DEF IInv

\* an executed statement keeps the database in order, and its answer is truthful
LEMMA ExecutedIInv ==
  ASSUME DatabaseOK, NEW s \in Statements, Justified(s), Executed(s)
  PROVE  /\ DatabaseOK' /\ Grows
         /\ \E a \in Answers :
              a = [stmt |-> s, ok |-> TRUE, got |-> ResultOf(s)] /\ Truthful(a)'
<1>1. Grows
  BY DEF Executed, Grows
<1>2. table' \in [Rows -> Nat]
  <2>1. s.call \in Nat
    BY DEF Statements, Calls
  <2> QED
    BY <2>1 DEF DatabaseOK, Executed
<1>3. versions' \subseteq Versions
  BY DEF DatabaseOK, Executed, Justified, Before
<1>4. ASSUME NEW v \in versions' PROVE v \in schema' /\ Before(v)'
  <2>1. v \in versions \/ (s.op = "record" /\ v = s.x)
    BY <1>4 DEF Executed
  <2>2. v \in schema /\ Before(v)
    BY <2>1 DEF DatabaseOK, Justified
  <2> QED
    BY <1>1, <2>2 DEF Grows, Before
<1>5. Justified(s)'
  BY <1>1, JustifiedStays
<1>0. PICK a : a = [stmt |-> s, ok |-> TRUE, got |-> ResultOf(s)]
  OBVIOUS
<1>6. a \in Answers
  <2>1. versions \subseteq Nat
    BY DEF DatabaseOK, Versions
  <2>2. ResultOf(s) \in (SUBSET Nat) \cup [Rows -> Nat] \cup {0}
    <3>1. CASE s.op = "read"
      BY <3>1 DEF ResultOf, DatabaseOK
    <3>2. CASE s.op = "count"
      BY <2>1, <3>2 DEF ResultOf
    <3>3. CASE s.op \notin {"read", "count"}
      BY <3>3 DEF ResultOf
    <3> QED
      BY <3>1, <3>2, <3>3
  <2> QED
    BY <1>0, <2>2 DEF Answers
<1>7. Truthful(a)'
  <2>1. s.op = "count" => a.got \subseteq versions'
    BY <1>0, <1>1 DEF ResultOf, Grows
  <2>2. s.op = "schema" => s.x \in schema'
    BY DEF Executed
  <2>3. s.op = "record" => s.x \in versions'
    BY DEF Executed
  <2>4. a.stmt = s
    BY <1>0
  <2> QED
    BY <1>5, <2>1, <2>2, <2>3, <2>4 DEF Truthful
<1> QED
  BY <1>0, <1>1, <1>2, <1>3, <1>4, <1>6, <1>7 DEF DatabaseOK

LEMMA TakeIInv == IInv /\ Take => IInv'
<1> SUFFICES ASSUME IInv, Take PROVE IInv'
  OBVIOUS
<1>0. PICK s : s = Head(posted)
  OBVIOUS
<1>1. s \in Statements /\ Justified(s)
  BY <1>0, Shortened DEF IInv, PostedOK, Take
<1>2. /\ DatabaseOK' /\ Grows
      /\ \/ answers' = answers
         \/ \E a \in Answers : Truthful(a)' /\ answers' = Append(answers, a)
  <2>1. CASE Executed(s) /\ answers' = Append(answers, [stmt |-> s, ok |-> TRUE, got |-> ResultOf(s)])
    BY <1>1, <2>1, ExecutedIInv DEF IInv
  <2>2. CASE /\ UNCHANGED <<table, schema, versions>>
             /\ answers' = answers \o ErrorAnswer(s)
    <3>1. DatabaseOK' /\ Grows
      BY <2>2, DatabaseStays DEF IInv
    <3>0. PICK a : a = [stmt |-> s, ok |-> FALSE, got |-> 0]
      OBVIOUS
    <3>2. a \in Answers
      BY <1>1, <3>0 DEF Answers
    <3>3. Truthful(a)'
      <4>1. Justified(s)'
        BY <1>1, <3>1, JustifiedStays
      <4> QED
        BY <3>0, <4>1 DEF Truthful
    <3>4. answers' = Append(answers, a)
      BY <2>2, <3>0, <3>2 DEF IInv, AnswersOK, ErrorAnswer
    <3> QED
      BY <3>1, <3>2, <3>3, <3>4
  <2> QED
    BY <1>0, <2>1, <2>2 DEF Take
<1>3. PostedOK'
  BY <1>2, PostedStays DEF IInv, Take
<1>4. AnswersOK'
  BY <1>2, AnswersStay, AnswersMore DEF IInv
<1> QED
  BY <1>2, <1>3, <1>4 DEF IInv

LEMMA NextIInv == IInv /\ [Next]_vars => IInv'
<1> SUFFICES ASSUME IInv, [Next]_vars PROVE IInv'
  OBVIOUS
<1>1. CASE UNCHANGED vars
  <2>1. DatabaseOK' /\ Grows
    BY <1>1, DatabaseStays DEF IInv, vars
  <2> QED
    BY <1>1, <2>1, PostedStays, AnswersStay DEF IInv, vars
<1> QED
  BY <1>1, MakeIInv, TakeAnswerIInv, PutIInv, TakeIInv, ReloadIInv DEF Next, Page

LEMMA IInvImplies == IInv => MigrationsInOrder
<1> SUFFICES ASSUME IInv, NEW v \in versions PROVE 1..v \subseteq versions /\ v \in schema
  BY DEF MigrationsInOrder
<1>1. v \in Versions /\ v \in schema /\ \A u \in Versions : u < v => u \in versions
  BY DEF IInv, DatabaseOK, Before
<1>2. ASSUME NEW u \in 1..v PROVE u \in versions
  BY <1>1, <1>2, MirrorAssumption DEF Versions
<1> QED
  BY <1>1, <1>2

\* However many migrate calls overlap, whatever statement fails and whenever the page
\* reloads, _migrations holds a prefix of the list, of migrations that were executed
\* (sqlproxy.ts 93-105).
THEOREM MigrationsSafe == Spec => []MigrationsInOrder
<1>1. IInv /\ [Next]_vars => IInv'
  BY NextIInv
<1> QED
  BY InitIInv, IInvImplies, <1>1, PTL DEF Spec

-----------------------------------------------------------------------------
(* The calls under way, and what they still bring to devicesync *)

Call == [is : {"unmade", "waiting", "put", "settled"}, rows : [Rows -> Nat]]

\* the calls of a queue of statements, and of a queue of answers
StatementCall == [s \in Statements |-> s.call]
AnswerCall == [a \in Answers |-> a.stmt.call]

\* no call is twice in a queue
Distinct(q, of) == \A i, j \in 1..Len(q) : of[q[i]] = of[q[j]] => i = j

\* every call in a queue waits, for one answer
Flight ==
  /\ \A s \in Elems(posted) : calls[s.call].is = "waiting"
  /\ \A a \in Elems(answers) : calls[a.stmt.call].is = "waiting"
  /\ Distinct(posted, StatementCall) /\ Distinct(answers, AnswerCall)
  /\ \A s \in Elems(posted), a \in Elems(answers) : s.call # a.stmt.call

\* a row will be put as it is now, or a read-back fails and is noticed
Coming(r) ==
  \/ \E a \in Elems(answers) : a.stmt.op = "write" /\ a.ok
  \/ \E s \in Elems(posted) : s.op = "read"
  \/ \E a \in Elems(answers) : a.stmt.op = "read" /\ (a.ok => a.got[r] = table[r])
  \/ \E c \in Calls : calls[c].is = "put" /\ calls[c].rows[r] = table[r]

PageOK ==
  /\ calls \in [Calls -> Call] /\ records \in [Rows -> Nat]
  /\ \A a \in Elems(answers) : a.ok /\ a.stmt.op = "read" => a.got \in [Rows -> Nat]

\* no write of a row goes unmirrored
Mirroring ==
  \A r \in Rows : table[r] # 0 /\ r \notin behind => records[r] = table[r] \/ Coming(r)

\* the inductive invariant of the mirror
MInv == IInv /\ PageOK /\ Flight /\ Mirroring

LEMMA DistinctAppended ==
  ASSUME NEW S, NEW q \in Seq(S), NEW e \in S, NEW of, Distinct(q, of),
         \A x \in Elems(q) : of[x] # of[e]
  PROVE  Distinct(Append(q, e), of)
<1> DEFINE r == Append(q, e)
<1>1. /\ Len(r) = Len(q) + 1 /\ Len(q) \in Nat /\ r[Len(q) + 1] = e
      /\ \A i \in 1..Len(q) : r[i] = q[i] /\ q[i] \in Elems(q)
  BY DEF Elems
<1> HIDE DEF r
<1>2. ASSUME NEW i \in 1..Len(r), NEW j \in 1..Len(r), of[r[i]] = of[r[j]]
      PROVE  i = j
  <2>1. i \in 1..Len(q) \/ i = Len(q) + 1
    BY <1>1
  <2>2. j \in 1..Len(q) \/ j = Len(q) + 1
    BY <1>1
  <2>3. ASSUME i \in 1..Len(q), j \in 1..Len(q) PROVE i = j
    BY <1>1, <1>2, <2>3 DEF Distinct
  <2>4. ~(i \in 1..Len(q) /\ j = Len(q) + 1)
    BY <1>1, <1>2
  <2>5. ~(j \in 1..Len(q) /\ i = Len(q) + 1)
    BY <1>1, <1>2
  <2> QED
    BY <2>1, <2>2, <2>3, <2>4, <2>5
<1> QED
  BY <1>2 DEF Distinct, r

LEMMA DistinctTail ==
  ASSUME NEW S, NEW q \in Seq(S), q # <<>>, NEW of, Distinct(q, of)
  PROVE  /\ Distinct(Tail(q), of)
         /\ \A x \in Elems(Tail(q)) : of[x] # of[Head(q)]
         /\ \A x \in Elems(q) : x = Head(q) \/ x \in Elems(Tail(q))
<1> DEFINE t == Tail(q)
<1>1. /\ Head(q) = q[1] /\ 1 \in 1..Len(q) /\ Len(q) \in Nat /\ Len(t) = Len(q) - 1
      /\ \A i \in 1..Len(t) : i + 1 \in 1..Len(q) /\ t[i] = q[i + 1]
  OBVIOUS
<1> HIDE DEF t
<1>2. Distinct(t, of)
  BY <1>1 DEF Distinct
<1>3. ASSUME NEW x \in Elems(t) PROVE of[x] # of[Head(q)]
  <2>1. PICK i \in 1..Len(t) : x = t[i]
    BY <1>3 DEF Elems
  <2> QED
    BY <1>1, <2>1 DEF Distinct
<1>4. ASSUME NEW x \in Elems(q) PROVE x = Head(q) \/ x \in Elems(t)
  <2>1. PICK i \in 1..Len(q) : x = q[i]
    BY <1>4 DEF Elems
  <2>2. CASE i = 1
    BY <1>1, <2>1, <2>2
  <2>3. CASE i # 1
    <3>1. i - 1 \in 1..Len(t) /\ t[i - 1] = x
      BY <1>1, <2>1, <2>3
    <3> QED
      BY <3>1 DEF Elems
  <2> QED
    BY <2>2, <2>3
<1> QED
  BY <1>2, <1>3, <1>4 DEF t

-----------------------------------------------------------------------------
(* Every call waits for one answer *)

\* what a statement or an answer in a queue says
LEMMA InFlight ==
  ASSUME IInv
  PROVE  /\ \A s \in Elems(posted) : s \in Statements /\ StatementCall[s] = s.call
         /\ \A a \in Elems(answers) :
              a \in Answers /\ a.stmt \in Statements /\ AnswerCall[a] = a.stmt.call
<1>1. Elems(posted) \subseteq Statements /\ Elems(answers) \subseteq Answers
  BY DEF IInv, PostedOK, AnswersOK, Elems
<1> QED
  BY <1>1 DEF StatementCall, AnswerCall, Answers

\* a call makes its next step, with its answer gone and its next statement posted
LEMMA CallGoesOn ==
  ASSUME IInv, PageOK, Flight, NEW c \in Calls, NEW k, calls' = [calls EXCEPT ![c] = k],
         \A s \in Elems(posted) : s.call # c,
         \/ answers' = answers /\ \A a \in Elems(answers) : a.stmt.call # c
         \/ answers # <<>> /\ answers' = Tail(answers) /\ Head(answers).stmt.call = c,
         \/ posted' = posted
         \/ \E s \in Statements :
              s.call = c /\ k.is = "waiting" /\ posted' = Append(posted, s)
  PROVE  Flight'
<1>1. posted \in Seq(Statements) /\ answers \in Seq(Answers)
  BY DEF IInv, PostedOK, AnswersOK
<1>2. /\ Distinct(answers', AnswerCall)
      /\ \A a \in Elems(answers') : a \in Elems(answers) /\ a.stmt.call # c
  <2>1. CASE answers' = answers /\ \A a \in Elems(answers) : a.stmt.call # c
    BY <2>1 DEF Flight
  <2>2. CASE answers # <<>> /\ answers' = Tail(answers) /\ Head(answers).stmt.call = c
    <3>1. /\ Distinct(Tail(answers), AnswerCall)
          /\ \A a \in Elems(Tail(answers)) : AnswerCall[a] # AnswerCall[Head(answers)]
      BY <1>1, <2>2, DistinctTail DEF Flight
    <3>2. Elems(Tail(answers)) \subseteq Elems(answers) /\ Head(answers) \in Elems(answers)
      BY <1>1, <2>2, Shortened
    <3> QED
      BY <2>2, <3>1, <3>2, InFlight
  <2> QED
    BY <2>1, <2>2
<1>3. \A d \in Calls : d # c => calls'[d] = calls[d]
  BY DEF PageOK
<1>4. \A a \in Elems(answers') : calls'[a.stmt.call].is = "waiting"
  <2>1. \A a \in Elems(answers) : a.stmt.call \in Calls
    BY InFlight DEF Statements
  <2> QED
    BY <1>2, <1>3, <2>1 DEF Flight
<1>5. \A s \in Elems(posted) : calls'[s.call].is = "waiting"
  <2>1. \A s \in Elems(posted) : s.call \in Calls
    BY InFlight DEF Statements
  <2> QED
    BY <1>3, <2>1 DEF Flight
<1>6. CASE posted' = posted
  BY <1>2, <1>4, <1>5, <1>6 DEF Flight, StatementCall, AnswerCall
<1>7. CASE \E s \in Statements :
             s.call = c /\ k.is = "waiting" /\ posted' = Append(posted, s)
  <2>1. PICK s \in Statements : s.call = c /\ k.is = "waiting" /\ posted' = Append(posted, s)
    BY <1>7
  <2>2. Elems(posted') = Elems(posted) \cup {s}
    BY <1>1, <2>1, Appended
  <2>3. StatementCall[s] = c
    BY <2>1 DEF StatementCall
  <2>4. Distinct(posted', StatementCall)
    BY <1>1, <2>1, <2>3, InFlight, DistinctAppended DEF Flight
  <2>5. calls'[c].is = "waiting"
    BY <2>1 DEF PageOK
  <2> QED
    BY <1>2, <1>4, <1>5, <2>1, <2>2, <2>4, <2>5 DEF Flight, StatementCall, AnswerCall
<1> QED
  BY <1>6, <1>7

LEMMA InitMInv == Init => MInv
<1> SUFFICES ASSUME Init PROVE MInv
  OBVIOUS
<1>1. 1..Len(<<>>) = {} /\ Elems(<<>>) = {}
  BY DEF Elems
<1>2. PageOK
  BY <1>1 DEF Init, PageOK, Call, NoRow, Unmade
<1>3. Flight
  BY <1>1 DEF Init, Flight, Distinct
<1>4. Mirroring
  BY DEF Init, Mirroring, NoRow
<1> QED
  BY <1>2, <1>3, <1>4, InitIInv DEF MInv

LEMMA MakeMInv == MInv /\ Make => MInv'
<1> SUFFICES ASSUME MInv, Make PROVE MInv'
  OBVIOUS
<1>1. PICK c \in Calls :
        /\ calls[c] = Unmade
        /\ \/ \E r \in Rows, op \in {"write", "delete"} : Post(c, op, r)
           \/ Versions # {} /\ Post(c, "count", 1)
           \/ Post(c, "close", 0)
  BY DEF Make
<1>2. /\ UNCHANGED <<table, records, answers, behind>>
      /\ posted \in Seq(Statements)
  BY DEF Make, MInv, IInv, PostedOK
<1>3. /\ \E s \in Statements : s.call = c /\ posted' = Append(posted, s)
      /\ calls' = [calls EXCEPT ![c] = Waiting]
  BY <1>1 DEF Post, Statements
<1>4. PageOK'
  BY <1>2, <1>3 DEF MInv, PageOK, Call, Waiting, NoRow
<1>5. Flight'
  <2>1. \A s \in Elems(posted) : s.call # c
    BY <1>1 DEF MInv, Flight, Unmade
  <2>2. \A a \in Elems(answers) : a.stmt.call # c
    BY <1>1 DEF MInv, Flight, Unmade
  <2>3. PICK k : k = Waiting
    OBVIOUS
  <2>4. k.is = "waiting"
    BY <2>3 DEF Waiting
  <2> QED
    BY <1>2, <1>3, <2>1, <2>2, <2>3, <2>4, CallGoesOn DEF MInv
<1>6. Mirroring'
  <2>1. Elems(posted) \subseteq Elems(posted')
    BY <1>2, <1>3, Appended
  <2>2. \A d \in Calls : calls[d].is = "put" => calls'[d] = calls[d]
    BY <1>1, <1>3 DEF MInv, PageOK, Unmade
  <2>3. ASSUME NEW r \in Rows, Coming(r) PROVE Coming(r)'
    BY <1>2, <2>1, <2>2, <2>3 DEF Coming
  <2> QED
    BY <1>2, <2>3 DEF MInv, Mirroring
<1>7. IInv'
  BY MakeIInv DEF MInv
<1> QED
  BY <1>4, <1>5, <1>6, <1>7 DEF MInv

LEMMA PutMInv == ASSUME NEW c \in Calls PROVE MInv /\ Put(c) => MInv'
<1> SUFFICES ASSUME MInv, Put(c) PROVE MInv'
  OBVIOUS
<1> DEFINE rows == calls[c].rows
<1>1. PICK r0 \in Rows :
        /\ rows[r0] # 0
        /\ records' = [records EXCEPT ![r0] = rows[r0]]
        /\ behind' = IF rows[r0] = table[r0] THEN behind \ {r0} ELSE behind \cup {r0}
        /\ Mirrored(c, [rows EXCEPT ![r0] = 0])
  BY DEF Put
<1> DEFINE left == [rows EXCEPT ![r0] = 0]
<1>2. calls[c].is = "put" /\ UNCHANGED <<table, answers, posted>>
  BY <1>1 DEF Put, worker, Mirrored, Settle
<1>3. rows \in [Rows -> Nat] /\ left \in [Rows -> Nat] /\ records \in [Rows -> Nat]
  BY DEF MInv, PageOK, Call
<1>4. PICK k \in Call :
        /\ calls' = [calls EXCEPT ![c] = k]
        /\ left # NoRow => k = [is |-> "put", rows |-> left]
  <2>1. CASE left = NoRow
    BY <1>1, <2>1 DEF Mirrored, Settle, Settled, Call, NoRow
  <2>2. CASE left # NoRow
    BY <1>1, <1>3, <2>2 DEF Mirrored, Call
  <2> QED
    BY <2>1, <2>2
<1>5. PageOK'
  BY <1>1, <1>2, <1>3, <1>4 DEF MInv, PageOK
<1>6. Flight'
  <2>1. \A s \in Elems(posted) : s.call # c
    BY <1>2 DEF MInv, Flight
  <2>2. \A a \in Elems(answers) : a.stmt.call # c
    BY <1>2 DEF MInv, Flight
  <2> QED
    BY <1>2, <1>4, <2>1, <2>2, CallGoesOn DEF MInv
<1>7. ASSUME NEW r \in Rows, table'[r] # 0, r \notin behind'
      PROVE  records'[r] = table'[r] \/ Coming(r)'
  <2>1. CASE r = r0
    BY <1>1, <1>2, <1>3, <1>7, <2>1
  <2>2. CASE r # r0
    <3>1. records'[r] = records[r] /\ r \notin behind /\ left[r] = rows[r]
      BY <1>1, <1>3, <1>7, <2>2
    <3>2. ASSUME Coming(r) PROVE Coming(r)'
      <4>1. CASE rows[r] = table[r]
        <5>1. left # NoRow
          BY <1>2, <1>7, <3>1, <4>1 DEF NoRow
        <5>2. calls'[c] = [is |-> "put", rows |-> left]
          BY <1>4, <5>1 DEF MInv, PageOK
        <5>3. calls'[c].is = "put" /\ calls'[c].rows[r] = table'[r]
          BY <1>2, <1>3, <3>1, <4>1, <5>2
        <5> QED
          BY <5>3 DEF Coming
      <4>2. CASE rows[r] # table[r]
        <5>1. \A d \in Calls : d # c => calls'[d] = calls[d]
          BY <1>4 DEF MInv, PageOK
        <5> QED
          BY <1>2, <3>2, <4>2, <5>1 DEF Coming
      <4> QED
        BY <4>1, <4>2
    <3> QED
      BY <1>2, <1>7, <3>1, <3>2 DEF MInv, Mirroring
  <2> QED
    BY <2>1, <2>2
<1>8. IInv'
  BY PutIInv DEF MInv
<1> QED
  BY <1>5, <1>6, <1>7, <1>8 DEF MInv, Mirroring

LEMMA ReloadMInv == MInv /\ Reload => MInv'
<1> SUFFICES ASSUME MInv, Reload PROVE MInv'
  OBVIOUS
<1>1. 1..Len(<<>>) = {} /\ Elems(<<>>) = {}
  BY DEF Elems
<1>2. PageOK'
  BY <1>1 DEF Reload, PageOK, Call, NoRow, Unmade, Settled
<1>3. Flight'
  BY <1>1 DEF Reload, Flight, Distinct
<1>4. Mirroring'
  BY DEF Reload, Mirroring
<1> QED
  BY <1>2, <1>3, <1>4, ReloadIInv DEF MInv

\* what an answer makes of its call
LEMMA AnswerTaken ==
  ASSUME MInv, TakeAnswer, NEW c, c = Head(answers).stmt.call
  PROVE  /\ c \in Calls
         /\ \E k \in Call :
              /\ calls' = [calls EXCEPT ![c] = k]
              /\ \/ posted' = posted
                 \/ \E s \in Statements :
                      s.call = c /\ k.is = "waiting" /\ posted' = Append(posted, s)
              /\ LET a == Head(answers) IN
                 /\ a.ok /\ a.stmt.op = "write"
                      => \E s \in Statements : s.op = "read" /\ posted' = Append(posted, s)
                 /\ a.ok /\ a.stmt.op = "read" /\ a.got # NoRow
                      => k = [is |-> "put", rows |-> a.got]
<1>0. PICK a : a = Head(answers)
  OBVIOUS
<1>1. a \in Elems(answers) /\ a \in Answers /\ a.stmt \in Statements
  BY <1>0, Shortened, InFlight DEF MInv, IInv, AnswersOK, TakeAnswer
<1>2. PICK x : x = a.stmt.x
  OBVIOUS
<1>3. /\ c = a.stmt.call /\ c \in Calls /\ x \in Rows \cup Nat
      /\ a.stmt.op \in {"write", "read", "delete", "count", "schema", "record", "close"}
  BY <1>0, <1>1, <1>2 DEF Statements
<1>4. /\ ~a.ok => Settle(c)
      /\ a.ok /\ a.stmt.op = "write" => Post(c, "read", x)
      /\ a.ok /\ a.stmt.op = "read" => Mirrored(c, a.got)
      /\ a.ok /\ a.stmt.op = "count" => NextMigration(c, x) \/ AfterCount(c, x)
      /\ a.ok /\ a.stmt.op = "schema" => Post(c, "record", x)
      /\ a.ok /\ a.stmt.op = "record" => NextMigration(c, x)
      /\ a.ok /\ a.stmt.op \in {"delete", "close"} => Settle(c)
  BY <1>0, <1>2, <1>3 DEF TakeAnswer
<1>5. Waiting \in Call /\ Settled \in Call /\ Waiting.is = "waiting"
  BY DEF Waiting, Settled, Call, NoRow
<1>6. ASSUME Settle(c)
      PROVE  calls' = [calls EXCEPT ![c] = Settled] /\ posted' = posted
  BY <1>6 DEF Settle
<1>7. ASSUME NEW op \in {"read", "schema", "record", "count"}, NEW y \in Rows \cup Nat,
             Post(c, op, y)
      PROVE  /\ calls' = [calls EXCEPT ![c] = Waiting]
             /\ \E s \in Statements : s.call = c /\ s.op = op /\ posted' = Append(posted, s)
  BY <1>3, <1>7 DEF Post, Statements
<1>8. CASE ~a.ok \/ (a.ok /\ a.stmt.op \in {"delete", "close"})
  BY <1>0, <1>3, <1>4, <1>5, <1>6, <1>8
<1>9. CASE a.ok /\ a.stmt.op = "write"
  BY <1>0, <1>3, <1>4, <1>5, <1>7, <1>9
<1>10. CASE a.ok /\ a.stmt.op = "read"
  <2>1. CASE a.got = NoRow
    BY <1>0, <1>3, <1>4, <1>5, <1>6, <1>10, <2>1 DEF Mirrored
  <2>2. CASE a.got # NoRow
    <3>1. PICK k : k = [is |-> "put", rows |-> a.got]
      OBVIOUS
    <3>2. k \in Call
      BY <1>1, <1>10, <3>1 DEF MInv, PageOK, Call
    <3>3. calls' = [calls EXCEPT ![c] = k] /\ posted' = posted
      BY <1>4, <1>10, <2>2, <3>1 DEF Mirrored
    <3> QED
      BY <1>0, <1>3, <1>10, <3>1, <3>2, <3>3
  <2> QED
    BY <2>1, <2>2
<1>11. CASE a.ok /\ a.stmt.op \in {"count", "schema", "record"}
  <2>1. x \in Nat /\ x + 1 \in Nat
    BY <1>1, <1>2, <1>11, Shortened
       DEF MInv, IInv, AnswersOK, Truthful, Justified, Before, Versions
  <2>2. \/ Settle(c)
        \/ \E op \in {"read", "schema", "record", "count"}, y \in Rows \cup Nat :
             Post(c, op, y)
    BY <1>4, <1>11, <2>1 DEF NextMigration, AfterCount
  <2> QED
    BY <1>0, <1>3, <1>5, <1>6, <1>7, <1>11, <2>2
<1> QED
  BY <1>1, <1>3, <1>8, <1>9, <1>10, <1>11

LEMMA TakeAnswerMInv == MInv /\ TakeAnswer => MInv'
<1> SUFFICES ASSUME MInv, TakeAnswer PROVE MInv'
  OBVIOUS
<1>0. PICK a, c : a = Head(answers) /\ c = a.stmt.call
  OBVIOUS
<1>1. /\ answers # <<>> /\ answers' = Tail(answers)
      /\ UNCHANGED <<table, records>>
      /\ behind' = IF a.stmt.op = "read" /\ ~a.ok
                   THEN behind \cup {r \in Rows : records[r] # table[r]} ELSE behind
  BY <1>0 DEF TakeAnswer, worker
<1>2. /\ c \in Calls /\ posted \in Seq(Statements) /\ answers \in Seq(Answers)
      /\ a \in Elems(answers) /\ Elems(answers') \subseteq Elems(answers)
      /\ \A b \in Elems(answers) : b = a \/ b \in Elems(answers')
  BY <1>0, <1>1, AnswerTaken, Shortened, DistinctTail
     DEF MInv, IInv, PostedOK, AnswersOK, Flight
<1>3. PICK k \in Call :
        /\ calls' = [calls EXCEPT ![c] = k]
        /\ \/ posted' = posted
           \/ \E s \in Statements :
                s.call = c /\ k.is = "waiting" /\ posted' = Append(posted, s)
        /\ a.ok /\ a.stmt.op = "write"
             => \E s \in Statements : s.op = "read" /\ posted' = Append(posted, s)
        /\ a.ok /\ a.stmt.op = "read" /\ a.got # NoRow
             => k = [is |-> "put", rows |-> a.got]
  BY <1>0, AnswerTaken
<1>4. /\ Elems(posted) \subseteq Elems(posted')
      /\ \A s \in Statements : posted' = Append(posted, s) => s \in Elems(posted')
  <2>1. ASSUME NEW s \in Statements, posted' = Append(posted, s)
        PROVE  Elems(posted') = Elems(posted) \cup {s}
    BY <1>2, <2>1, Appended
  <2>2. posted' = posted \/ \E s \in Statements : posted' = Append(posted, s)
    BY <1>3
  <2> QED
    BY <2>1, <2>2
<1>5. PageOK'
  BY <1>1, <1>2, <1>3 DEF MInv, PageOK
<1>6. Flight'
  <2>1. \A s \in Elems(posted) : s.call # c
    BY <1>0, <1>2 DEF MInv, Flight
  <2> QED
    BY <1>0, <1>1, <1>2, <1>3, <2>1, CallGoesOn DEF MInv
<1>7. \A d \in Calls : calls[d].is = "put" => calls'[d] = calls[d]
  <2>1. calls[c].is # "put"
    BY <1>0, <1>2 DEF MInv, Flight
  <2> QED
    BY <1>3, <2>1 DEF MInv, PageOK
<1>8. calls'[c] = k
  BY <1>2, <1>3 DEF MInv, PageOK
<1>9. ASSUME NEW r \in Rows, table'[r] # 0, r \notin behind', Coming(r)
      PROVE  records'[r] = table'[r] \/ Coming(r)'
  <2>1. CASE \E b \in Elems(answers) : b.stmt.op = "write" /\ b.ok
    BY <1>2, <1>3, <1>4, <2>1 DEF Coming
  <2>2. CASE \E s \in Elems(posted) : s.op = "read"
    BY <1>4, <2>2 DEF Coming
  <2>3. CASE \E b \in Elems(answers) : b.stmt.op = "read" /\ (b.ok => b.got[r] = table[r])
    <3>1. PICK b \in Elems(answers) : b.stmt.op = "read" /\ (b.ok => b.got[r] = table[r])
      BY <2>3
    <3>2. CASE b # a
      BY <1>1, <1>2, <3>1, <3>2 DEF Coming
    <3>3. CASE b = a /\ a.ok
      <4>1. a.got # NoRow
        BY <1>1, <1>9, <3>1, <3>3 DEF NoRow
      <4>2. calls'[c].is = "put" /\ calls'[c].rows[r] = table'[r]
        BY <1>1, <1>3, <1>8, <3>1, <3>3, <4>1
      <4> QED
        BY <1>2, <4>2 DEF Coming
    <3>4. CASE b = a /\ ~a.ok
      BY <1>1, <1>9, <3>1, <3>4
    <3> QED
      BY <3>2, <3>3, <3>4
  <2>4. CASE \E d \in Calls : calls[d].is = "put" /\ calls[d].rows[r] = table[r]
    BY <1>1, <1>7, <2>4 DEF Coming
  <2> QED
    BY <1>9, <2>1, <2>2, <2>3, <2>4 DEF Coming
<1>10. Mirroring'
  BY <1>1, <1>9 DEF MInv, Mirroring
<1> QED
  BY <1>5, <1>6, <1>10, TakeAnswerIInv DEF MInv

LEMMA TakeMInv == MInv /\ Take => MInv'
<1> SUFFICES ASSUME MInv, Take PROVE MInv'
  OBVIOUS
<1>0. PICK s : s = Head(posted)
  OBVIOUS
<1>1. /\ posted # <<>> /\ posted' = Tail(posted)
      /\ UNCHANGED <<records, calls, behind>>
  BY DEF Take
<1>2. /\ posted \in Seq(Statements) /\ answers \in Seq(Answers) /\ s \in Statements
      /\ s \in Elems(posted) /\ Elems(posted') \subseteq Elems(posted)
      /\ Distinct(posted', StatementCall)
      /\ \A t \in Elems(posted') : t.call # s.call
      /\ \A t \in Elems(posted) : t = s \/ t \in Elems(posted')
  BY <1>0, <1>1, Shortened, DistinctTail, InFlight
     DEF MInv, IInv, PostedOK, AnswersOK, Flight
<1>3. \/ Executed(s) /\ answers' = Append(answers, [stmt |-> s, ok |-> TRUE, got |-> ResultOf(s)])
      \/ /\ UNCHANGED <<table, schema, versions>>
         /\ answers' = answers \o ErrorAnswer(s)
  BY <1>0 DEF Take
<1>4. PICK a \in Answers :
        /\ answers' = Append(answers, a) /\ a.stmt = s
        /\ a.ok /\ s.op = "read" => a.got = table /\ table' = table
        /\ \/ table' = table
           \/ a.ok /\ s.op = "write"
           \/ s.op = "delete" /\ table' = [table EXCEPT ![s.x] = 0]
  <2>1. CASE Executed(s) /\ answers' = Append(answers, [stmt |-> s, ok |-> TRUE, got |-> ResultOf(s)])
    <3>1. Justified(s)
      BY <1>2 DEF MInv, IInv, PostedOK
    <3>2. PICK a \in Answers : a = [stmt |-> s, ok |-> TRUE, got |-> ResultOf(s)]
      BY <1>2, <2>1, <3>1, ExecutedIInv DEF MInv, IInv
    <3>3. a.ok /\ a.stmt = s /\ a.got = ResultOf(s) /\ answers' = Append(answers, a)
      BY <2>1, <3>2
    <3> QED
      BY <2>1, <3>3 DEF Executed, ResultOf
  <2>2. CASE /\ UNCHANGED <<table, schema, versions>>
             /\ answers' = answers \o ErrorAnswer(s)
    <3>1. PICK a : a = [stmt |-> s, ok |-> FALSE, got |-> 0]
      OBVIOUS
    <3>2. a \in Answers /\ a.stmt = s /\ a.ok = FALSE
      BY <1>2, <3>1 DEF Answers
    <3>3. answers' = Append(answers, a)
      BY <1>2, <2>2, <3>1, <3>2 DEF ErrorAnswer
    <3> QED
      BY <2>2, <3>2, <3>3
  <2> QED
    BY <1>3, <2>1, <2>2
<1>5. Elems(answers') = Elems(answers) \cup {a}
  BY <1>2, <1>4, Appended
<1>6. IInv'
  BY TakeIInv DEF MInv
<1>7. PageOK'
  <2>1. a.ok /\ a.stmt.op = "read" => a.got \in [Rows -> Nat]
    BY <1>4 DEF MInv, IInv, DatabaseOK
  <2> QED
    BY <1>1, <1>5, <2>1 DEF MInv, PageOK
<1>8. Flight'
  <2>1. calls[s.call].is = "waiting" /\ \A b \in Elems(answers) : b.stmt.call # s.call
    BY <1>2 DEF MInv, Flight
  <2>2. Distinct(answers', AnswerCall)
    <3>1. AnswerCall[a] = s.call
      BY <1>4 DEF AnswerCall
    <3>2. \A b \in Elems(answers) : AnswerCall[b] # AnswerCall[a]
      BY <2>1, <3>1, InFlight DEF MInv
    <3> QED
      BY <1>2, <1>4, <3>2, DistinctAppended DEF MInv, Flight
  <2>3. \A b \in Elems(answers') : calls[b.stmt.call].is = "waiting"
    BY <1>4, <1>5, <2>1 DEF MInv, Flight
  <2>4. \A t \in Elems(posted'), b \in Elems(answers') : t.call # b.stmt.call
    BY <1>2, <1>4, <1>5, <2>1 DEF MInv, Flight
  <2> QED
    BY <1>1, <1>2, <2>2, <2>3, <2>4 DEF MInv, Flight, StatementCall, AnswerCall
<1>9. ASSUME NEW r \in Rows, table'[r] # 0, r \notin behind'
      PROVE  records'[r] = table'[r] \/ Coming(r)'
  <2>1. CASE a.ok /\ s.op = "write"
    BY <1>4, <1>5, <2>1 DEF Coming
  <2>2. CASE ~(a.ok /\ s.op = "write")
    <3>1. table'[r] = table[r]
      BY <1>4, <1>9, <2>2 DEF MInv, IInv, DatabaseOK
    <3>2. ASSUME Coming(r) PROVE Coming(r)'
      <4>1. CASE \E t \in Elems(posted) : t.op = "read"
        <5>1. PICK t \in Elems(posted) : t.op = "read"
          BY <4>1
        <5>2. CASE t = s
          <6>1. a \in Elems(answers') /\ a.stmt.op = "read" /\ (a.ok => a.got[r] = table'[r])
            BY <1>4, <1>5, <3>1, <5>1, <5>2
          <6> QED
            BY <6>1 DEF Coming
        <5>3. CASE t # s
          BY <1>2, <5>1, <5>3 DEF Coming
        <5> QED
          BY <5>2, <5>3
      <4>2. CASE ~(\E t \in Elems(posted) : t.op = "read")
        BY <1>1, <1>5, <3>1, <3>2, <4>2 DEF Coming
      <4> QED
        BY <4>1, <4>2
    <3> QED
      BY <1>1, <1>9, <3>1, <3>2 DEF MInv, Mirroring
  <2> QED
    BY <2>1, <2>2
<1> QED
  BY <1>6, <1>7, <1>8, <1>9 DEF MInv, Mirroring

LEMMA NextMInv == MInv /\ [Next]_vars => MInv'
<1> SUFFICES ASSUME MInv, [Next]_vars PROVE MInv'
  OBVIOUS
<1>1. CASE UNCHANGED vars
  <2>1. IInv'
    BY <1>1, NextIInv DEF MInv
  <2> QED
    BY <1>1, <2>1 DEF MInv, PageOK, Flight, StatementCall, AnswerCall, Mirroring, Coming, vars
<1> QED
  BY <1>1, MakeMInv, TakeAnswerMInv, PutMInv, TakeMInv, ReloadMInv DEF Next, Page

\* With no call under way nothing is coming any more.
LEMMA MInvImplies == MInv => MirrorsTable
<1> SUFFICES ASSUME MInv, Idle, NEW r \in Rows, table[r] # 0, r \notin behind
             PROVE  records[r] = table[r]
  BY DEF MirrorsTable
<1>1. \A c \in Calls : calls[c].is # "waiting" /\ calls[c].is # "put"
  BY DEF Idle, Unmade, Settled
<1>2. Elems(posted) = {} /\ Elems(answers) = {}
  BY <1>1, InFlight DEF MInv, Flight, Statements
<1> QED
  BY <1>1, <1>2 DEF MInv, Mirroring, Coming

\* Whatever calls overlap and whatever statement fails, no write of a row goes
\* unmirrored once the calls are settled, but those that came late, failed to be
\* read back or fell to a reload (wireSqlSync, mydb.ts 112-136).
THEOREM TableIsMirrored == Spec => []MirrorsTable
<1>1. MInv /\ [Next]_vars => MInv'
  BY NextMInv
<1> QED
  BY InitMInv, MInvImplies, <1>1, PTL DEF Spec

=============================================================================
