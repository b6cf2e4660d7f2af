----------------------------- MODULE ChatAppProofs -----------------------------
(***************************************************************************)
(* Theorems about ChatApp, for any people, groups and messages: what the   *)
(* window shows is stored or its statement has failed or is still to run,  *)
(* and a group on the screen is stored with exactly its members.           *)
(*                                                                         *)
(* The inductive invariant says of every call under way which statements   *)
(* it has left and what the database has of the ones before (CallOK), and  *)
(* that no group is being created or saved twice (Tokens): two savings of  *)
(* one group would clear each other's members.                             *)
(***************************************************************************)
EXTENDS ChatApp, FiniteSetTheorems, TLAPS

\* the calls, or statements, in a queue
Elems(q) == {q[i] : i \in 1..Len(q)}

Kinds ==
  {"start", "migrate", "contacts", "requests", "groups", "friendRequest", "insert", "add",
   "select", "create", "saved", "text", "request"}
Ops ==
  {"start", "migrate", "network", "query", "putContact", "putRequest", "putMessage",
   "putGroup", "clearMembers", "putMember"}
Subjects == Conversations \cup Texts \cup {Nobody}
Statements ==
  {s \in [op : Ops, x : Subjects \cup (Groups \X People)] :
     /\ s.op \in {"putContact", "putRequest"} => s.x \in People
     /\ s.op = "putMessage" => s.x \in Texts
     /\ s.op \in {"putGroup", "clearMembers"} => s.x \in Groups
     /\ s.op = "putMember" => s.x \in Groups \X People}
CallRecords ==
  [for : Kinds, x : Subjects, members : SUBSET People, todo : Seq(Statements), ok : BOOLEAN]
Tables ==
  [migrated : BOOLEAN, contacts : SUBSET People, requests : SUBSET People,
   messages : SUBSET Texts, groups : SUBSET Groups, members : SUBSET (Groups \X People)]
Windows ==
  [conversation : Conversations \cup {Nobody}, contacts : SUBSET People,
   requests : SUBSET People, groups : SUBSET [id : Groups, members : SUBSET People],
   messages : SUBSET Texts]
Histories ==
  [texts : SUBSET Texts, groups : SUBSET Groups, arrivals : Nat, failures : Nat, restarts : Nat]


\* appending adds one element to those of a sequence
LEMMA ElemsAppend ==
  ASSUME NEW S, NEW q \in Seq(S), NEW x \in S
  PROVE  Append(q, x) \in Seq(S) /\ Elems(Append(q, x)) = Elems(q) \cup {x}
<1>1. Append(q, x) \in Seq(S) /\ Len(Append(q, x)) = Len(q) + 1 /\ Len(q) \in Nat
  OBVIOUS
<1>2. \A i \in 1..Len(q) + 1 : Append(q, x)[i] = IF i = Len(q) + 1 THEN x ELSE q[i]
  OBVIOUS
<1>3. \A y : y \in Elems(Append(q, x)) <=> y \in Elems(q) \cup {x}
  <2> SUFFICES ASSUME NEW y
               PROVE  y \in Elems(Append(q, x)) <=> y \in Elems(q) \cup {x}
    OBVIOUS
  <2>1. ASSUME y \in Elems(Append(q, x)) PROVE y \in Elems(q) \cup {x}
    BY <1>1, <1>2, <2>1 DEF Elems
  <2>2. ASSUME y \in Elems(q) PROVE y \in Elems(Append(q, x))
    <3>1. PICK i \in 1..Len(q) : y = q[i]
      BY <2>2 DEF Elems
    <3>2. i \in 1..Len(q) + 1 /\ Append(q, x)[i] = y
      BY <1>1, <1>2, <3>1
    <3> QED
      BY <1>1, <3>2 DEF Elems
  <2>3. x \in Elems(Append(q, x))
    <3>1. Len(q) + 1 \in 1..Len(q) + 1 /\ Append(q, x)[Len(q) + 1] = x
      BY <1>1, <1>2
    <3> QED
      BY <1>1, <3>1 DEF Elems
  <2> QED
    BY <2>1, <2>2, <2>3
<1> QED
  BY <1>1, <1>3

\* the elements of a sequence are its head and those of its tail
LEMMA ElemsTail ==
  ASSUME NEW S, NEW q \in Seq(S), q # <<>>
  PROVE  /\ Tail(q) \in Seq(S) /\ Head(q) \in S
         /\ Elems(q) = {Head(q)} \cup Elems(Tail(q))
<1>1. Tail(q) \in Seq(S) /\ Len(Tail(q)) = Len(q) - 1 /\ Len(q) \in Nat \ {0}
  OBVIOUS
<1>2. \A i \in 1..Len(q) - 1 : Tail(q)[i] = q[i + 1] /\ i + 1 \in 1..Len(q)
  BY <1>1
<1>3. Head(q) = q[1] /\ 1 \in 1..Len(q) /\ Head(q) \in S
  BY <1>1
<1>4. ASSUME NEW i \in 1..Len(q) PROVE q[i] \in {Head(q)} \cup Elems(Tail(q))
  <2>1. CASE i = 1
    BY <1>3, <2>1
  <2>2. CASE i # 1
    <3>1. i - 1 \in 1..Len(Tail(q)) /\ q[i] = Tail(q)[i - 1]
      BY <1>1, <1>2, <2>2
    <3> QED
      BY <3>1 DEF Elems
  <2> QED
    BY <2>1, <2>2
<1> QED
  BY <1>1, <1>2, <1>3, <1>4 DEF Elems

\* the empty sequence has no elements
LEMMA ElemsEmpty == Elems(<<>>) = {}
BY DEF Elems

\* the elements of two sequences joined are those of both
LEMMA ElemsConcat ==
  ASSUME NEW S, NEW q \in Seq(S), NEW r \in Seq(S)
  PROVE  q \o r \in Seq(S) /\ Elems(q \o r) = Elems(q) \cup Elems(r)
<1>1. /\ q \o r \in Seq(S) /\ Len(q \o r) = Len(q) + Len(r) /\ Len(q) \in Nat /\ Len(r) \in Nat
      /\ \A i \in 1..Len(q) + Len(r) : (q \o r)[i] = IF i <= Len(q) THEN q[i] ELSE r[i - Len(q)]
  OBVIOUS
<1>2. ASSUME NEW y \in Elems(q \o r) PROVE y \in Elems(q) \cup Elems(r)
  <2>1. PICK i \in 1..Len(q) + Len(r) : y = (q \o r)[i]
    BY <1>1, <1>2 DEF Elems
  <2>2. CASE i <= Len(q)
    BY <1>1, <2>1, <2>2 DEF Elems
  <2>3. CASE ~(i <= Len(q))
    <3>1. i - Len(q) \in 1..Len(r) /\ y = r[i - Len(q)]
      BY <1>1, <2>1, <2>3
    <3> QED
      BY <3>1 DEF Elems
  <2> QED
    BY <2>2, <2>3
<1>3. ASSUME NEW y \in Elems(q) PROVE y \in Elems(q \o r)
  <2>1. PICK i \in 1..Len(q) : y = q[i]
    BY <1>3 DEF Elems
  <2>2. i \in 1..Len(q) + Len(r) /\ y = (q \o r)[i]
    BY <1>1, <2>1
  <2> QED
    BY <1>1, <2>2 DEF Elems
<1>4. ASSUME NEW y \in Elems(r) PROVE y \in Elems(q \o r)
  <2>1. PICK i \in 1..Len(r) : y = r[i]
    BY <1>4 DEF Elems
  <2>2. Len(q) + i \in 1..Len(q) + Len(r) /\ y = (q \o r)[Len(q) + i]
    BY <1>1, <2>1
  <2> QED
    BY <1>1, <2>2 DEF Elems
<1> QED
  BY <1>1, <1>2, <1>3, <1>4

\* the members of a finite set in some order
LEMMA SetInOrder ==
  ASSUME NEW S, IsFiniteSet(S)
  PROVE  SetToSeq(S) \in Seq(S) /\ Elems(SetToSeq(S)) = S
<1> DEFINE n == Cardinality(S)
<1>1. n \in Nat /\ ExistsBijection(1..n, S)
  BY FS_CardinalityType
<1>2. PICK f \in Bijection(1..n, S) : TRUE
  BY <1>1 DEF ExistsBijection
<1>3. f \in [1..n -> S] /\ IsInjective(f)
  BY <1>2 DEF Bijection, Injection, Surjection, IsInjective
<1>4. SetToSeq(S) \in [1..n -> S] /\ IsInjective(SetToSeq(S))
  BY <1>3 DEF SetToSeq
<1>5. SetToSeq(S) \in Injection(1..n, S)
  BY <1>4 DEF Injection, IsInjective
<1>6. Cardinality(1..n) = n
  BY <1>1, FS_Interval
<1>7. SetToSeq(S) \in Surjection(1..n, S)
  BY <1>5, <1>6, FS_Injection
<1>8. SetToSeq(S) \in Seq(S) /\ Len(SetToSeq(S)) = n
  BY <1>1, <1>4
<1>9. \A y \in S : \E i \in 1..n : SetToSeq(S)[i] = y
  BY <1>7 DEF Surjection
<1> QED
  BY <1>4, <1>8, <1>9 DEF Elems

-----------------------------------------------------------------------------
(* Groups being created *)

\* the group that a call creates or saves
Makes(c) == IF c.for \in {"create", "saved"} THEN {c.x} ELSE {}
GroupsIn(q) == UNION {Makes(c) : c \in Elems(q)}

\* no two calls of a queue are about the same group
Once(q) == \A i, j \in 1..Len(q) : i # j => Makes(q[i]) \cap Makes(q[j]) = {}

LEMMA OnceTail ==
  ASSUME NEW S, NEW q \in Seq(S), q # <<>>
  PROVE  /\ GroupsIn(q) = Makes(Head(q)) \cup GroupsIn(Tail(q))
         /\ Once(q) => Once(Tail(q)) /\ Makes(Head(q)) \cap GroupsIn(Tail(q)) = {}
<1>1. GroupsIn(q) = Makes(Head(q)) \cup GroupsIn(Tail(q))
  BY ElemsTail DEF GroupsIn
<1>2. Tail(q) \in Seq(S) /\ Len(Tail(q)) = Len(q) - 1 /\ Len(q) \in Nat \ {0}
  OBVIOUS
<1>3. \A i \in 1..Len(Tail(q)) : Tail(q)[i] = q[i + 1] /\ i + 1 \in 1..Len(q) /\ i + 1 # 1
  BY <1>2
<1>4. Head(q) = q[1] /\ 1 \in 1..Len(q)
  BY <1>2
<1>5. ASSUME Once(q) PROVE Once(Tail(q))
  <2> SUFFICES ASSUME NEW i \in 1..Len(Tail(q)), NEW j \in 1..Len(Tail(q)), i # j
               PROVE  Makes(Tail(q)[i]) \cap Makes(Tail(q)[j]) = {}
    BY DEF Once
  <2>1. i + 1 # j + 1
    OBVIOUS
  <2> QED
    BY <1>3, <1>5, <2>1 DEF Once
<1>6. ASSUME Once(q) PROVE Makes(Head(q)) \cap GroupsIn(Tail(q)) = {}
  <2>1. \A i \in 1..Len(Tail(q)) : Makes(Head(q)) \cap Makes(Tail(q)[i]) = {}
    BY <1>3, <1>4, <1>6 DEF Once
  <2> QED
    BY <2>1 DEF GroupsIn, Elems
<1> QED
  BY <1>1, <1>5, <1>6

LEMMA OnceConcat ==
  ASSUME NEW S, NEW q \in Seq(S), NEW r \in Seq(S)
  PROVE  /\ GroupsIn(q \o r) = GroupsIn(q) \cup GroupsIn(r)
         /\ Once(q) /\ Once(r) /\ GroupsIn(q) \cap GroupsIn(r) = {} => Once(q \o r)
<1>1. GroupsIn(q \o r) = GroupsIn(q) \cup GroupsIn(r)
  BY ElemsConcat DEF GroupsIn
<1>2. /\ q \o r \in Seq(S) /\ Len(q \o r) = Len(q) + Len(r) /\ Len(q) \in Nat /\ Len(r) \in Nat
      /\ \A i \in 1..Len(q) + Len(r) : (q \o r)[i] = IF i <= Len(q) THEN q[i] ELSE r[i - Len(q)]
  OBVIOUS
<1>3. ASSUME Once(q), Once(r), GroupsIn(q) \cap GroupsIn(r) = {}
      PROVE  Once(q \o r)
  <2>1. \A i \in 1..Len(q), j \in 1..Len(r) : Makes(q[i]) \cap Makes(r[j]) = {}
    BY <1>3 DEF GroupsIn, Elems
  <2> SUFFICES ASSUME NEW i \in 1..Len(q) + Len(r), NEW j \in 1..Len(q) + Len(r), i # j
               PROVE  Makes((q \o r)[i]) \cap Makes((q \o r)[j]) = {}
    BY <1>2 DEF Once
  <2>2. /\ i <= Len(q) => i \in 1..Len(q) /\ (q \o r)[i] = q[i]
        /\ ~(i <= Len(q)) => i - Len(q) \in 1..Len(r) /\ (q \o r)[i] = r[i - Len(q)]
        /\ j <= Len(q) => j \in 1..Len(q) /\ (q \o r)[j] = q[j]
        /\ ~(j <= Len(q)) => j - Len(q) \in 1..Len(r) /\ (q \o r)[j] = r[j - Len(q)]
    BY <1>2
  <2>3. i - Len(q) # j - Len(q)
    BY <1>2
  <2> QED
    BY <1>3, <2>1, <2>2, <2>3 DEF Once
<1> QED
  BY <1>1, <1>3

LEMMA OnceOne ==
  ASSUME NEW S, NEW c \in S
  PROVE  <<c>> \in Seq(S) /\ Elems(<<c>>) = {c} /\ GroupsIn(<<c>>) = Makes(c) /\ Once(<<c>>)
BY DEF GroupsIn, Elems, Once

LEMMA OnceNone ==
  ASSUME NEW S
  PROVE  <<>> \in Seq(S) /\ Elems(<<>>) = {} /\ GroupsIn(<<>>) = {} /\ Once(<<>>)
BY DEF GroupsIn, Elems, Once

\* calls that create nothing
LEMMA OnceOthers ==
  ASSUME NEW S, NEW q \in Seq(S), \A c \in Elems(q) : c.for \notin {"create", "saved"}
  PROVE  GroupsIn(q) = {} /\ Once(q)
<1>1. \A i \in 1..Len(q) : Makes(q[i]) = {}
  BY DEF Makes, Elems
<1> QED
  BY <1>1 DEF GroupsIn, Once, Elems

LEMMA OnceAppend ==
  ASSUME NEW S, NEW q \in Seq(S), NEW c \in S
  PROVE  /\ GroupsIn(Append(q, c)) = GroupsIn(q) \cup Makes(c)
         /\ Once(q) /\ GroupsIn(q) \cap Makes(c) = {} => Once(Append(q, c))
<1>1. Append(q, c) = q \o <<c>>
  OBVIOUS
<1>2. <<c>> \in Seq(S) /\ GroupsIn(<<c>>) = Makes(c) /\ Once(<<c>>)
  BY OnceOne
<1>3. /\ GroupsIn(q \o <<c>>) = GroupsIn(q) \cup GroupsIn(<<c>>)
      /\ Once(q) /\ Once(<<c>>) /\ GroupsIn(q) \cap GroupsIn(<<c>>) = {} => Once(q \o <<c>>)
  BY <1>2, OnceConcat
<1> QED
  BY <1>1, <1>2, <1>3

-----------------------------------------------------------------------------
(* The invariant *)

\* the database d has group c.x with exactly the members c.members
Stored(c, d) ==
  /\ c.x \in d.groups
  /\ \A p \in People : <<c.x, p>> \in d.members <=> p \in c.members

\* what groups:save has left to do, and what it has done
SavedLeft(c, d) ==
  \/ c.todo = GroupsSave(c.x, c.members)
  \/ c.todo = Tail(GroupsSave(c.x, c.members)) /\ c.x \in d.groups
  \/ /\ c.x \in d.groups
     /\ Elems(c.todo) \subseteq {Stmt("putMember", <<c.x, p>>) : p \in c.members}
     /\ \A p \in People : <<c.x, p>> \in d.members => p \in c.members
     /\ \A p \in c.members :
          <<c.x, p>> \in d.members \/ Stmt("putMember", <<c.x, p>>) \in Elems(c.todo)

\* a call whose next statement is with the daemon
CallOK(c, d) ==
  /\ c.for \notin {"text", "request"}
  /\ c.todo # <<>>
  /\ c.for = "insert" => c.x \in Texts /\ c.todo = MessagesInsert(c.x)
  /\ c.for = "add" =>
       /\ c.x \in People
       /\ \/ c.todo = ContactsAdd(c.x)
          \/ c.todo = <<Query>> /\ c.x \in d.contacts
  /\ c.for \in {"create", "saved"} => c.x \in Groups
  /\ c.for = "saved" => SavedLeft(c, d)
  /\ c.for # "saved" => \A s \in Elems(c.todo) : s.op \notin {"clearMembers", "putMember"}

\* an answer, or a message, on its way to the window
AnswerOK(c, d) ==
  /\ c.for = "text" => c.x \in Texts
  /\ c.for = "request" => c.x \in People
  /\ c.for \in {"create", "saved"} => c.x \in Groups
  /\ c.for = "saved" /\ c.ok => Stored(c, d)

AppTypes ==
  /\ stdin \in Seq(CallRecords) /\ ipc \in Seq(CallRecords)
  /\ db \in Tables /\ ui \in Windows /\ used \in Histories

CallsOK == \A c \in Elems(stdin) : CallOK(c, db)
AnswersOK == \A c \in Elems(ipc) : AnswerOK(c, db)

ShownGroups == {g.id : g \in ui.groups}

\* every group is created once: by a call under way, by one that has been answered, or it is shown
Tokens ==
  /\ Once(stdin) /\ Once(ipc) /\ GroupsIn(stdin) \cap GroupsIn(ipc) = {}
  /\ GroupsIn(stdin) \cup GroupsIn(ipc) \cup ShownGroups \subseteq used.groups
  /\ ShownGroups \cap (GroupsIn(stdin) \cup GroupsIn(ipc)) = {}

Kept(g, d) ==
  /\ g.id \in d.groups
  /\ \A p \in People : <<g.id, p>> \in d.members <=> p \in g.members
GroupsKept == \A g \in ui.groups : Kept(g, db)

\* what the calls of a queue for one purpose are about
About(q, for) == {c.x : c \in {e \in Elems(q) : e.for = for}}

ShownKept ==
  /\ ui.messages \subseteq db.messages \cup failed \cup About(stdin, "insert")
  /\ ui.contacts \subseteq db.contacts \cup failed \cup About(stdin, "add")

IInv ==
  /\ AppTypes /\ CallsOK /\ AnswersOK
  /\ Tokens /\ GroupsKept /\ ShownKept

-----------------------------------------------------------------------------
(* Statements *)

\* what a statement does to the tables
LEMMA WrittenTables ==
  ASSUME ChatAppAssumption, db \in Tables, NEW s \in Statements
  PROVE  /\ Written(s) \in Tables
         /\ db.contacts \subseteq Written(s).contacts
         /\ db.messages \subseteq Written(s).messages
         /\ db.groups \subseteq Written(s).groups
         /\ s.op = "putContact" => s.x \in Written(s).contacts
         /\ s.op = "putMessage" => s.x \in Written(s).messages
         /\ s.op = "putGroup" => s.x \in Written(s).groups
         /\ s.op = "clearMembers" => Written(s).members = {q \in db.members : q[1] # s.x}
         /\ s.op = "putMember" => Written(s).members = db.members \cup {s.x}
         /\ s.op \notin {"clearMembers", "putMember"} => Written(s).members = db.members
<1>1. CASE s.op = "migrate"
  BY <1>1 DEF Written, Tables, Statements
<1>2. CASE s.op = "putContact"
  BY <1>2 DEF Written, Tables, Statements
<1>3. CASE s.op = "putRequest"
  BY <1>3 DEF Written, Tables, Statements
<1>4. CASE s.op = "putMessage"
  BY <1>4 DEF Written, Tables, Statements
<1>5. CASE s.op = "putGroup"
  BY <1>5 DEF Written, Tables, Statements
<1>6. CASE s.op = "clearMembers"
  BY <1>6 DEF Written, Tables, Statements
<1>7. CASE s.op = "putMember"
  BY <1>7 DEF Written, Tables, Statements
<1>8. CASE s.op \in {"start", "network", "query"}
  BY <1>8 DEF Written, Tables, Statements
<1> QED
  BY <1>1, <1>2, <1>3, <1>4, <1>5, <1>6, <1>7, <1>8 DEF Statements, Ops

\* the statements of groups:save
LEMMA SaveParts ==
  ASSUME ChatAppAssumption, NEW g \in Groups, NEW ms \in SUBSET People
  PROVE  /\ Inserts(g, ms) \in Seq(Statements)
         /\ Elems(Inserts(g, ms)) = {Stmt("putMember", <<g, p>>) : p \in ms}
         /\ GroupsSave(g, ms) \in Seq(Statements) /\ GroupsSave(g, ms) # <<>>
         /\ Head(GroupsSave(g, ms)) = Stmt("putGroup", g)
         /\ Tail(GroupsSave(g, ms)) \in Seq(Statements) /\ Tail(GroupsSave(g, ms)) # <<>>
         /\ Head(Tail(GroupsSave(g, ms))) = Stmt("clearMembers", g)
         /\ Tail(Tail(GroupsSave(g, ms))) = Inserts(g, ms)
<1> DEFINE P == {Stmt("putMember", <<g, p>>) : p \in ms}
           a == Stmt("putGroup", g)
           b == Stmt("clearMembers", g)
           r == Inserts(g, ms)
<1>1. IsFiniteSet(ms)
  BY FS_Subset DEF ChatAppAssumption
<1>2. IsFiniteSet(P)
  <2> DEFINE f == [p \in ms |-> Stmt("putMember", <<g, p>>)]
  <2>1. f \in Surjection(ms, P)
    BY DEF Surjection
  <2> QED
    BY <1>1, <2>1, FS_Surjection
<1>3. r \in Seq(P) /\ Elems(r) = P
  BY <1>2, SetInOrder DEF Inserts
<1>4. P \subseteq Statements /\ a \in Statements /\ b \in Statements
  BY DEF Stmt, Statements, Ops, Subjects, Conversations
<1>5. r \in Seq(Statements)
  BY <1>3, <1>4
<1>6. GroupsSave(g, ms) = <<a, b>> \o r
  BY DEF GroupsSave
<1> HIDE DEF P, a, b, r
<1>7. /\ <<a, b>> \o r \in Seq(Statements) /\ <<a, b>> \o r # <<>> /\ Head(<<a, b>> \o r) = a
      /\ Tail(<<a, b>> \o r) = <<b>> \o r
  BY <1>4, <1>5
<1>8. /\ <<b>> \o r \in Seq(Statements) /\ <<b>> \o r # <<>> /\ Head(<<b>> \o r) = b
      /\ Tail(<<b>> \o r) = r
  BY <1>4, <1>5
<1> QED
  BY <1>3, <1>5, <1>6, <1>7, <1>8 DEF P, a, b, r

\* one statement of groups:save brings it one step further
LEMMA SavedStep ==
  ASSUME ChatAppAssumption, db \in Tables,
         NEW c \in CallRecords, c.for = "saved", c.x \in Groups, c.todo # <<>>,
         SavedLeft(c, db), db' = Written(Head(c.todo))
  PROVE  /\ Head(c.todo) # Query
         /\ Head(c.todo).op = "clearMembers" => Head(c.todo).x = c.x
         /\ Head(c.todo).op = "putMember" => Head(c.todo).x[1] = c.x
         /\ Tail(c.todo) = <<>> => Stored(c, db')
         /\ Tail(c.todo) # <<>> => SavedLeft([c EXCEPT !.todo = Tail(@)], db')
<1> DEFINE s == Head(c.todo)
           e == [c EXCEPT !.todo = Tail(@)]
<1>1. c.members \in SUBSET People /\ c.todo \in Seq(Statements)
  BY DEF CallRecords
<1>2. s \in Statements /\ Tail(c.todo) \in Seq(Statements)
      /\ Elems(c.todo) = {s} \cup Elems(Tail(c.todo))
  BY <1>1, ElemsTail
<1>3. e.x = c.x /\ e.members = c.members /\ e.todo = Tail(c.todo)
  BY DEF CallRecords
<1>4. \A o, x : Stmt(o, x).op = o /\ Stmt(o, x).x = x
  BY DEF Stmt
<1>5. CASE c.todo = GroupsSave(c.x, c.members)
  <2>1. s = Stmt("putGroup", c.x) /\ Tail(c.todo) # <<>>
    BY <1>1, <1>5, SaveParts
  <2>2. c.x \in db'.groups
    BY <1>2, <1>4, <2>1, WrittenTables
  <2> QED
    BY <1>3, <1>4, <1>5, <2>1, <2>2 DEF SavedLeft, Query
<1>6. CASE c.todo = Tail(GroupsSave(c.x, c.members)) /\ c.x \in db.groups
  <2>1. s = Stmt("clearMembers", c.x) /\ Tail(c.todo) = Inserts(c.x, c.members)
    BY <1>1, <1>6, SaveParts
  <2>2. c.x \in db'.groups /\ db'.members = {q \in db.members : q[1] # c.x}
    BY <1>2, <1>4, <1>6, <2>1, WrittenTables
  <2>3. \A p \in People : <<c.x, p>> \notin db'.members
    BY <2>2
  <2>4. Elems(Tail(c.todo)) = {Stmt("putMember", <<c.x, p>>) : p \in c.members}
    BY <1>1, <2>1, SaveParts
  <2>5. Tail(c.todo) = <<>> => c.members = {}
    <3>1. Tail(c.todo) = <<>> => Elems(Tail(c.todo)) = {}
      BY ElemsEmpty
    <3> QED
      BY <2>4, <3>1
  <2>6. Tail(c.todo) = <<>> => Stored(c, db')
    BY <2>2, <2>3, <2>5 DEF Stored
  <2>7. SavedLeft(e, db')
    <3>1. \A p \in c.members : Stmt("putMember", <<c.x, p>>) \in Elems(Tail(c.todo))
      BY <2>4
    <3>2. Elems(e.todo) \subseteq {Stmt("putMember", <<e.x, p>>) : p \in e.members}
      BY <1>3, <2>4
    <3>3. /\ \A p \in People : <<e.x, p>> \in db'.members => p \in e.members
          /\ \A p \in e.members : Stmt("putMember", <<e.x, p>>) \in Elems(e.todo)
      BY <1>3, <2>3, <3>1
    <3> QED
      BY <1>3, <2>2, <3>2, <3>3 DEF SavedLeft
  <2> QED
    BY <1>4, <2>1, <2>6, <2>7 DEF Query
<1>7. CASE /\ c.x \in db.groups
           /\ Elems(c.todo) \subseteq {Stmt("putMember", <<c.x, p>>) : p \in c.members}
           /\ \A p \in People : <<c.x, p>> \in db.members => p \in c.members
           /\ \A p \in c.members :
                <<c.x, p>> \in db.members \/ Stmt("putMember", <<c.x, p>>) \in Elems(c.todo)
  <2>1. PICK n \in c.members : s = Stmt("putMember", <<c.x, n>>)
    BY <1>2, <1>7
  <2>2. c.x \in db'.groups /\ db'.members = db.members \cup {<<c.x, n>>}
    BY <1>2, <1>4, <1>7, <2>1, WrittenTables
  <2>3. \A p \in People : <<c.x, p>> \in db'.members => p \in c.members
    BY <1>7, <2>1, <2>2
  <2>4. \A p \in c.members :
          <<c.x, p>> \in db'.members \/ Stmt("putMember", <<c.x, p>>) \in Elems(Tail(c.todo))
    <3> SUFFICES ASSUME NEW p \in c.members, <<c.x, p>> \notin db'.members
                 PROVE  Stmt("putMember", <<c.x, p>>) \in Elems(Tail(c.todo))
      OBVIOUS
    <3>1. <<c.x, p>> \notin db.members /\ <<c.x, p>> # <<c.x, n>>
      BY <2>2
    <3>2. Stmt("putMember", <<c.x, p>>) \in Elems(c.todo)
      BY <1>7, <3>1
    <3>3. Stmt("putMember", <<c.x, p>>) # s
      BY <1>4, <2>1, <3>1
    <3> QED
      BY <1>2, <3>2, <3>3
  <2>5. Tail(c.todo) = <<>> => Stored(c, db')
    BY <1>1, <2>2, <2>3, <2>4, ElemsEmpty DEF Stored
  <2>6. SavedLeft(e, db')
    BY <1>2, <1>3, <1>7, <2>2, <2>3, <2>4 DEF SavedLeft
  <2>7. s # Query /\ s.op = "putMember" /\ s.x[1] = c.x
    BY <1>4, <2>1 DEF Query
  <2> QED
    BY <2>5, <2>6, <2>7
<1> QED
  BY <1>5, <1>6, <1>7 DEF SavedLeft

-----------------------------------------------------------------------------
(* One statement and the calls it is not part of *)

\* a statement leaves the members of all groups alone but that of its call
LEMMA RowsKept ==
  ASSUME ChatAppAssumption, db \in Tables, NEW c \in CallRecords, CallOK(c, db),
         db' = Written(Head(c.todo)), NEW g \in Groups, g \notin Makes(c)
  PROVE  \A p \in People : <<g, p>> \in db'.members <=> <<g, p>> \in db.members
<1>1. Head(c.todo) \in Statements /\ Head(c.todo) \in Elems(c.todo)
  BY ElemsTail DEF CallOK, CallRecords
<1>2. CASE Head(c.todo).op \notin {"clearMembers", "putMember"}
  BY <1>1, <1>2, WrittenTables
<1>3. CASE Head(c.todo).op \in {"clearMembers", "putMember"}
  <2>1. c.for = "saved" /\ c.x \in Groups /\ c.todo # <<>> /\ SavedLeft(c, db) /\ c.x # g
    BY <1>1, <1>3 DEF CallOK, Makes
  <2>2. /\ Head(c.todo).op = "clearMembers" => Head(c.todo).x = c.x
        /\ Head(c.todo).op = "putMember" => Head(c.todo).x[1] = c.x
    BY <2>1, SavedStep
  <2>3. CASE Head(c.todo).op = "clearMembers"
    BY <1>1, <2>1, <2>2, <2>3, WrittenTables
  <2>4. CASE Head(c.todo).op = "putMember"
    <3>1. db'.members = db.members \cup {Head(c.todo).x}
      BY <1>1, <2>4, WrittenTables
    <3>2. \A p \in People : <<g, p>> # Head(c.todo).x
      BY <2>1, <2>2, <2>4
    <3> QED
      BY <3>1, <3>2
  <2> QED
    BY <1>3, <2>3, <2>4
<1> QED
  BY <1>2, <1>3

LEMMA OthersKept ==
  ASSUME ChatAppAssumption, db \in Tables, NEW c \in CallRecords, CallOK(c, db),
         db' = Written(Head(c.todo)), NEW e \in CallRecords, Makes(e) \cap Makes(c) = {}
  PROVE  /\ CallOK(e, db) => CallOK(e, db')
         /\ AnswerOK(e, db) => AnswerOK(e, db')
<1>1. Head(c.todo) \in Statements
  BY ElemsTail DEF CallOK, CallRecords
<1>2. db.groups \subseteq db'.groups /\ db.contacts \subseteq db'.contacts
  BY <1>1, WrittenTables
<1>3. e.members \in SUBSET People
  BY DEF CallRecords
<1>4. ASSUME e.for = "saved", e.x \in Groups
      PROVE  /\ \A p \in People : <<e.x, p>> \in db'.members <=> <<e.x, p>> \in db.members
             /\ SavedLeft(e, db) => SavedLeft(e, db')
             /\ Stored(e, db) => Stored(e, db')
  <2>1. \A p \in People : <<e.x, p>> \in db'.members <=> <<e.x, p>> \in db.members
    <3>1. e.x \notin Makes(c)
      BY <1>4 DEF Makes
    <3> QED
      BY <1>4, <3>1, RowsKept
  <2>2. Stored(e, db) => Stored(e, db')
    BY <1>2, <2>1 DEF Stored
  <2>3. SavedLeft(e, db) => SavedLeft(e, db')
    BY <1>2, <1>3, <2>1 DEF SavedLeft
  <2> QED
    BY <2>1, <2>2, <2>3
<1>5. CallOK(e, db) => CallOK(e, db')
  BY <1>2, <1>4 DEF CallOK
<1>6. AnswerOK(e, db) => AnswerOK(e, db')
  BY <1>4 DEF AnswerOK
<1> QED
  BY <1>5, <1>6

\* the call whose statement it is goes on, or is answered
LEMMA HeadStep ==
  ASSUME ChatAppAssumption, db \in Tables, NEW c \in CallRecords, CallOK(c, db),
         db' = Written(Head(c.todo)), NEW b \in BOOLEAN
  PROVE  /\ Tail(c.todo) # <<>> => CallOK([c EXCEPT !.todo = Tail(@)], db')
         /\ Tail(c.todo) = <<>> => AnswerOK([c EXCEPT !.todo = <<>>, !.ok = b], db')
         /\ c.for = "insert" => c.x \in db'.messages
         /\ c.for = "add" => c.x \in db'.contacts
<1> DEFINE e == [c EXCEPT !.todo = Tail(@)]
           a == [c EXCEPT !.todo = <<>>, !.ok = b]
           s == Head(c.todo)
<1>1. c.todo \in Seq(Statements) /\ c.todo # <<>>
  BY DEF CallRecords, CallOK
<1>2. s \in Statements /\ Elems(c.todo) = {s} \cup Elems(Tail(c.todo))
  BY <1>1, ElemsTail
<1>3. /\ e.for = c.for /\ e.x = c.x /\ e.members = c.members /\ e.todo = Tail(c.todo)
      /\ a.for = c.for /\ a.x = c.x /\ a.members = c.members /\ a.ok = b
  BY DEF CallRecords
<1>4. \A o, x : Stmt(o, x).op = o /\ Stmt(o, x).x = x
  BY DEF Stmt
<1>5. ASSUME c.for = "insert" PROVE c.x \in db'.messages /\ Tail(c.todo) = <<>>
  <2>1. c.todo = <<Stmt("putMessage", c.x)>>
    BY <1>5 DEF CallOK, MessagesInsert
  <2>2. s = Stmt("putMessage", c.x) /\ Tail(c.todo) = <<>>
    BY <2>1
  <2> QED
    BY <1>2, <1>4, <2>2, WrittenTables
<1>6. ASSUME c.for = "add"
      PROVE  /\ c.x \in db'.contacts /\ c.x \in People
             /\ Tail(c.todo) # <<>> => Tail(c.todo) = <<Query>>
  <2>1. CASE c.todo = ContactsAdd(c.x)
    <3>1. s = Stmt("putContact", c.x) /\ Tail(c.todo) = <<Query>>
      BY <2>1 DEF ContactsAdd
    <3> QED
      BY <1>2, <1>4, <1>6, <3>1, WrittenTables DEF CallOK
  <2>2. CASE c.todo = <<Query>> /\ c.x \in db.contacts
    <3>1. Tail(c.todo) = <<>>
      BY <2>2
    <3>2. c.x \in db'.contacts
      BY <1>2, <2>2, WrittenTables
    <3> QED
      BY <1>6, <3>1, <3>2 DEF CallOK
  <2> QED
    BY <1>6, <2>1, <2>2 DEF CallOK
<1>7. ASSUME c.for = "saved"
      PROVE  /\ Tail(c.todo) = <<>> => Stored(a, db')
             /\ Tail(c.todo) # <<>> => SavedLeft(e, db')
  <2>1. c.x \in Groups /\ SavedLeft(c, db)
    BY <1>7 DEF CallOK
  <2>2. /\ Tail(c.todo) = <<>> => Stored(c, db')
        /\ Tail(c.todo) # <<>> => SavedLeft([c EXCEPT !.todo = Tail(@)], db')
    BY <1>1, <1>7, <2>1, SavedStep
  <2>3. Stored(c, db') => Stored(a, db')
    BY <1>3 DEF Stored
  <2> QED
    BY <2>2, <2>3
<1>8. Tail(c.todo) # <<>> => CallOK(e, db')
  <2> SUFFICES ASSUME Tail(c.todo) # <<>> PROVE CallOK(e, db')
    OBVIOUS
  <2>1. c.for # "insert"
    BY <1>5
  <2>2. e.for = "add" => e.x \in People /\ e.todo = <<Query>> /\ e.x \in db'.contacts
    BY <1>3, <1>6
  <2>3. e.for = "saved" => SavedLeft(e, db')
    BY <1>3, <1>7
  <2>4. e.for # "saved" => \A o \in Elems(e.todo) : o.op \notin {"clearMembers", "putMember"}
    BY <1>2, <1>3 DEF CallOK
  <2>5. e.for \notin {"text", "request"} /\ (e.for \in {"create", "saved"} => e.x \in Groups)
    BY <1>3 DEF CallOK
  <2> HIDE DEF e
  <2> QED
    BY <1>3, <2>1, <2>2, <2>3, <2>4, <2>5 DEF CallOK
<1>9. Tail(c.todo) = <<>> => AnswerOK(a, db')
  <2>1. a.for \notin {"text", "request"} /\ (a.for \in {"create", "saved"} => a.x \in Groups)
    BY <1>3 DEF CallOK
  <2> HIDE DEF a
  <2> QED
    BY <1>3, <1>7, <2>1 DEF AnswerOK
<1> QED
  BY <1>5, <1>6, <1>8, <1>9

-----------------------------------------------------------------------------
(* The queues *)

\* the daemon has read the last statement of a call, or it has failed: its answer goes to the window
LEMMA AnsweredQueues ==
  ASSUME AppTypes, Tokens, stdin # <<>>, NEW b \in BOOLEAN, Answered(Head(stdin), b),
         ui' = ui, used'.groups = used.groups
  PROVE  LET c == Head(stdin)
             a == [c EXCEPT !.todo = <<>>, !.ok = b]
         IN  /\ stdin' \in Seq(CallRecords) /\ ipc' \in Seq(CallRecords)
             /\ c \in CallRecords /\ c \in Elems(stdin) /\ Tokens'
             /\ Elems(stdin') \subseteq Elems(stdin) /\ Elems(ipc') = Elems(ipc) \cup {a}
             /\ Elems(stdin) = {c} \cup Elems(stdin')
             /\ Makes(c) \cap GroupsIn(stdin') = {} /\ Makes(c) \cap GroupsIn(ipc) = {}
             /\ Makes(c) \cap ShownGroups = {}
<1> DEFINE c == Head(stdin)
           a == [c EXCEPT !.todo = <<>>, !.ok = b]
<1>1. /\ Tail(stdin) \in Seq(CallRecords) /\ c \in CallRecords
      /\ Elems(stdin) = {c} \cup Elems(Tail(stdin))
  BY ElemsTail DEF AppTypes
<1>2. /\ GroupsIn(stdin) = Makes(c) \cup GroupsIn(Tail(stdin))
      /\ Once(Tail(stdin)) /\ Makes(c) \cap GroupsIn(Tail(stdin)) = {}
  BY OnceTail DEF AppTypes, Tokens
<1>3. a \in CallRecords /\ Makes(a) = Makes(c)
  <2>1. <<>> \in Seq(Statements)
    OBVIOUS
  <2>2. a \in CallRecords
    BY <1>1, <2>1 DEF CallRecords
  <2>3. a.for = c.for /\ a.x = c.x
    BY <1>1 DEF CallRecords
  <2> HIDE DEF a
  <2> QED
    BY <2>2, <2>3 DEF Makes
<1> HIDE DEF a, c
<1>4. Append(ipc, a) \in Seq(CallRecords) /\ Elems(Append(ipc, a)) = Elems(ipc) \cup {a}
  BY <1>3, ElemsAppend DEF AppTypes
<1>5. GroupsIn(ipc) \cap Makes(a) = {}
  BY <1>2, <1>3 DEF Tokens
<1>6. GroupsIn(Append(ipc, a)) = GroupsIn(ipc) \cup Makes(c) /\ Once(Append(ipc, a))
  BY <1>3, <1>5, OnceAppend DEF AppTypes, Tokens
<1>7. stdin' = Tail(stdin) /\ ipc' = Append(ipc, a)
  BY DEF Answered, a, c
<1>8. ShownGroups' = ShownGroups
  BY DEF ShownGroups
<1>9. Once(stdin') /\ Once(ipc') /\ GroupsIn(stdin') = GroupsIn(Tail(stdin))
      /\ GroupsIn(ipc') = GroupsIn(ipc) \cup Makes(c)
  BY <1>2, <1>6, <1>7
<1>10. Tokens'
  BY <1>2, <1>5, <1>3, <1>8, <1>9 DEF Tokens
<1> QED
  BY <1>1, <1>2, <1>3, <1>4, <1>5, <1>7, <1>10 DEF Tokens, a, c

\* a call goes on: its next statement is the last in the queue
LEMMA GoingOnQueues ==
  ASSUME AppTypes, Tokens, stdin # <<>>,
         stdin' = Append(Tail(stdin), [Head(stdin) EXCEPT !.todo = Tail(@)]),
         Head(stdin).todo # <<>>, ipc' = ipc, ui' = ui, used' = used
  PROVE  LET c == Head(stdin)
             e == [c EXCEPT !.todo = Tail(@)]
         IN  /\ stdin' \in Seq(CallRecords)
             /\ c \in CallRecords /\ c \in Elems(stdin) /\ Tokens'
             /\ Elems(stdin') = Elems(Tail(stdin)) \cup {e}
             /\ Elems(stdin) = {c} \cup Elems(Tail(stdin))
             /\ Makes(c) \cap GroupsIn(Tail(stdin)) = {} /\ Makes(c) \cap GroupsIn(ipc) = {}
             /\ Makes(c) \cap ShownGroups = {}
<1> DEFINE c == Head(stdin)
           e == [c EXCEPT !.todo = Tail(@)]
           t == Tail(stdin)
<1>1. /\ Tail(stdin) \in Seq(CallRecords) /\ c \in CallRecords
      /\ Elems(stdin) = {c} \cup Elems(Tail(stdin))
  BY ElemsTail DEF AppTypes
<1>2. /\ GroupsIn(stdin) = Makes(c) \cup GroupsIn(Tail(stdin))
      /\ Once(Tail(stdin)) /\ Makes(c) \cap GroupsIn(Tail(stdin)) = {}
  BY OnceTail DEF AppTypes, Tokens
<1>3. e \in CallRecords /\ Makes(e) = Makes(c)
  <2>1. Tail(c.todo) \in Seq(Statements)
    BY <1>1, ElemsTail DEF CallRecords
  <2> QED
    BY <1>1, <2>1 DEF CallRecords, Makes
<1>4. stdin' = Append(t, e) /\ t \in Seq(CallRecords)
  BY <1>1
<1> HIDE DEF e, c
<1>5. Append(t, e) \in Seq(CallRecords) /\ Elems(Append(t, e)) = Elems(t) \cup {e}
  <2> HIDE DEF t
  <2> QED
    BY <1>3, <1>4, ElemsAppend
<1>6. GroupsIn(Append(t, e)) = GroupsIn(t) \cup Makes(c) /\ Once(Append(t, e))
  <2>1. Once(t) /\ GroupsIn(t) \cap Makes(e) = {}
    BY <1>2, <1>3
  <2> HIDE DEF t
  <2> QED
    BY <1>3, <1>4, <2>1, OnceAppend
<1>7. Once(stdin') /\ Once(ipc') /\ GroupsIn(stdin') = GroupsIn(stdin)
      /\ GroupsIn(ipc') = GroupsIn(ipc)
  BY <1>2, <1>4, <1>6 DEF Tokens
<1>9. ShownGroups' = ShownGroups
  BY DEF ShownGroups
<1>8. Tokens'
  BY <1>7, <1>9 DEF Tokens
<1> QED
  BY <1>1, <1>2, <1>4, <1>5, <1>8 DEF Tokens, e, c

\* the window handles the next event and makes the calls r; the groups N appear
LEMMA HandledQueues ==
  ASSUME AppTypes, Tokens, ipc # <<>>, ipc' = Tail(ipc),
         NEW r \in Seq(CallRecords), stdin' = stdin \o r, Once(r), used' = used,
         NEW N, ShownGroups' = ShownGroups \cup N, N \cap GroupsIn(r) = {},
         N \cup GroupsIn(r) \subseteq Makes(Head(ipc))
  PROVE  /\ stdin' \in Seq(CallRecords) /\ ipc' \in Seq(CallRecords) /\ Tokens'
         /\ Head(ipc) \in CallRecords /\ Head(ipc) \in Elems(ipc)
         /\ Elems(ipc') \subseteq Elems(ipc) /\ Elems(stdin') = Elems(stdin) \cup Elems(r)
<1> DEFINE c == Head(ipc)
<1>1. /\ Tail(ipc) \in Seq(CallRecords) /\ c \in CallRecords
      /\ Elems(ipc) = {c} \cup Elems(Tail(ipc))
  BY ElemsTail DEF AppTypes
<1>2. /\ GroupsIn(ipc) = Makes(c) \cup GroupsIn(Tail(ipc))
      /\ Once(Tail(ipc)) /\ Makes(c) \cap GroupsIn(Tail(ipc)) = {}
  BY OnceTail DEF AppTypes, Tokens
<1> HIDE DEF c
<1>3. stdin \o r \in Seq(CallRecords) /\ Elems(stdin \o r) = Elems(stdin) \cup Elems(r)
  BY ElemsConcat DEF AppTypes
<1>4. GroupsIn(stdin) \cap GroupsIn(r) = {}
  BY <1>2 DEF Tokens, c
<1>5. GroupsIn(stdin \o r) = GroupsIn(stdin) \cup GroupsIn(r) /\ Once(stdin \o r)
  BY <1>4, OnceConcat DEF AppTypes, Tokens
<1>6. Once(stdin') /\ Once(ipc') /\ GroupsIn(stdin') = GroupsIn(stdin) \cup GroupsIn(r)
      /\ GroupsIn(ipc') = GroupsIn(Tail(ipc))
  BY <1>2, <1>5
<1>7. Tokens'
  BY <1>2, <1>4, <1>6 DEF Tokens, c
<1> QED
  BY <1>1, <1>3, <1>7 DEF c

\* the user makes the calls r, about groups not seen before
LEMMA InvokedQueues ==
  ASSUME AppTypes, Tokens, ipc' = ipc,
         NEW r \in Seq(CallRecords), stdin' = stdin \o r, Once(r),
         GroupsIn(r) \cap used.groups = {}, used'.groups = used.groups \cup GroupsIn(r),
         ShownGroups' = ShownGroups
  PROVE  stdin' \in Seq(CallRecords) /\ Tokens' /\ Elems(stdin') = Elems(stdin) \cup Elems(r)
<1>1. stdin \o r \in Seq(CallRecords) /\ Elems(stdin \o r) = Elems(stdin) \cup Elems(r)
  BY ElemsConcat DEF AppTypes
<1>2. GroupsIn(stdin) \cap GroupsIn(r) = {}
  BY DEF Tokens
<1>3. GroupsIn(stdin \o r) = GroupsIn(stdin) \cup GroupsIn(r) /\ Once(stdin \o r)
  BY <1>2, OnceConcat DEF AppTypes, Tokens
<1>4. Once(stdin') /\ Once(ipc') /\ GroupsIn(stdin') = GroupsIn(stdin) \cup GroupsIn(r)
      /\ GroupsIn(ipc') = GroupsIn(ipc)
  BY <1>3 DEF Tokens
<1>5. Tokens'
  BY <1>4 DEF Tokens
<1> QED
  BY <1>1, <1>5

LEMMA ElemsIn ==
  ASSUME NEW S, NEW q \in Seq(S)
  PROVE  Elems(q) \subseteq S
BY DEF Elems

-----------------------------------------------------------------------------
(* Every step keeps the invariant *)

\* a statement, whatever becomes of its call: the calls that wait and the answers are kept, and
\* so are the groups on the screen
LEMMA StatementKeeps ==
  ASSUME ChatAppAssumption, AppTypes, CallsOK, AnswersOK, GroupsKept,
         NEW c \in CallRecords, c \in Elems(stdin), db' = Written(Head(c.todo)), ui' = ui,
         NEW W, W \subseteq Elems(stdin),
         \A e \in W : Makes(e) \cap Makes(c) = {},
         Makes(c) \cap GroupsIn(ipc) = {}, Makes(c) \cap ShownGroups = {}
  PROVE  /\ \A e \in W : CallOK(e, db')
         /\ \A e \in Elems(ipc) : AnswerOK(e, db')
         /\ GroupsKept' /\ db' \in Tables
         /\ db.messages \subseteq db'.messages /\ db.contacts \subseteq db'.contacts
<1>1. CallOK(c, db) /\ db \in Tables
  BY DEF CallsOK, AppTypes
<1>2. Head(c.todo) \in Statements
  BY <1>1, ElemsTail DEF CallOK, CallRecords
<1>3. /\ db' \in Tables /\ db.groups \subseteq db'.groups
      /\ db.messages \subseteq db'.messages /\ db.contacts \subseteq db'.contacts
  BY <1>1, <1>2, WrittenTables
<1>4. Elems(stdin) \subseteq CallRecords /\ Elems(ipc) \subseteq CallRecords
  BY ElemsIn DEF AppTypes
<1>5. ASSUME NEW e \in W PROVE CallOK(e, db')
  <2>1. e \in CallRecords /\ CallOK(e, db) /\ Makes(e) \cap Makes(c) = {}
    BY <1>4, <1>5 DEF CallsOK
  <2> QED
    BY <1>1, <2>1, OthersKept
<1>6. ASSUME NEW e \in Elems(ipc) PROVE AnswerOK(e, db')
  <2>1. e \in CallRecords /\ AnswerOK(e, db)
    BY <1>4, <1>6 DEF AnswersOK
  <2>2. Makes(e) \cap Makes(c) = {}
    BY <1>6 DEF GroupsIn
  <2> QED
    BY <1>1, <2>1, <2>2, OthersKept
<1>7. ASSUME NEW g \in ui.groups PROVE Kept(g, db')
  <2>1. g.id \in Groups /\ g.id \notin Makes(c) /\ Kept(g, db)
    BY <1>7 DEF AppTypes, Windows, ShownGroups, GroupsKept
  <2>2. \A p \in People : <<g.id, p>> \in db'.members <=> <<g.id, p>> \in db.members
    BY <1>1, <2>1, RowsKept
  <2> QED
    BY <1>3, <2>1, <2>2 DEF Kept
<1>8. GroupsKept'
  BY <1>7 DEF GroupsKept, Kept
<1> QED
  BY <1>3, <1>5, <1>6, <1>8

LEMMA ExecuteKeeps ==
  ASSUME ChatAppAssumption, IInv, Execute
  PROVE  IInv'
<1> USE DEF IInv
<1> DEFINE c == Head(stdin)
           b == Resolved(c)
           a == [c EXCEPT !.todo = <<>>, !.ok = b]
           e == [c EXCEPT !.todo = Tail(@)]
<1>1. /\ stdin # <<>> /\ db' = Written(Head(c.todo)) /\ ui' = ui /\ used' = used
      /\ failed' = failed
      /\ \/ Tail(c.todo) = <<>> /\ Answered(c, b)
         \/ /\ Tail(c.todo) # <<>> /\ stdin' = Append(Tail(stdin), e) /\ ipc' = ipc
  BY DEF Execute
<1>2. c \in CallRecords /\ c \in Elems(stdin) /\ CallOK(c, db) /\ c.todo # <<>>
  BY <1>1, ElemsTail DEF AppTypes, CallsOK, CallOK
<1>3. b \in BOOLEAN
  BY DEF Resolved
<1>4. db \in Tables
  BY DEF AppTypes
<1>5. /\ c.for = "insert" => c.x \in db'.messages
      /\ c.for = "add" => c.x \in db'.contacts
  BY <1>1, <1>2, <1>3, <1>4, HeadStep
<1>6. CASE Tail(c.todo) = <<>> /\ Answered(c, b)
  <2>1. /\ stdin' \in Seq(CallRecords) /\ ipc' \in Seq(CallRecords) /\ Tokens'
        /\ Elems(stdin') \subseteq Elems(stdin) /\ Elems(ipc') = Elems(ipc) \cup {a}
        /\ Elems(stdin) = {c} \cup Elems(stdin')
        /\ Makes(c) \cap GroupsIn(stdin') = {} /\ Makes(c) \cap GroupsIn(ipc) = {}
        /\ Makes(c) \cap ShownGroups = {}
    BY <1>1, <1>3, <1>6, AnsweredQueues
  <2>2. \A w \in Elems(stdin') : Makes(w) \cap Makes(c) = {}
    BY <2>1 DEF GroupsIn
  <2>3. /\ \A w \in Elems(stdin') : CallOK(w, db')
        /\ \A w \in Elems(ipc) : AnswerOK(w, db')
        /\ GroupsKept' /\ db' \in Tables
        /\ db.messages \subseteq db'.messages /\ db.contacts \subseteq db'.contacts
    BY <1>1, <1>2, <2>1, <2>2, StatementKeeps
  <2>4. AnswerOK(a, db')
    BY <1>1, <1>2, <1>3, <1>4, <1>6, HeadStep
  <2>5. CallsOK' /\ AnswersOK'
    BY <2>1, <2>3, <2>4 DEF CallsOK, AnswersOK
  <2>6. /\ About(stdin, "insert") \subseteq About(stdin', "insert") \cup db'.messages
        /\ About(stdin, "add") \subseteq About(stdin', "add") \cup db'.contacts
    BY <1>5, <2>1 DEF About
  <2>7. ShownKept'
    BY <1>1, <2>3, <2>6 DEF ShownKept
  <2>8. AppTypes'
    BY <1>1, <2>1, <2>3 DEF AppTypes
  <2> QED
    BY <2>1, <2>3, <2>5, <2>7, <2>8
<1>7. CASE Tail(c.todo) # <<>> /\ stdin' = Append(Tail(stdin), e) /\ ipc' = ipc
  <2>1. /\ stdin' \in Seq(CallRecords) /\ Tokens'
        /\ Elems(stdin') = Elems(Tail(stdin)) \cup {e}
        /\ Elems(stdin) = {c} \cup Elems(Tail(stdin))
        /\ Makes(c) \cap GroupsIn(Tail(stdin)) = {} /\ Makes(c) \cap GroupsIn(ipc) = {}
        /\ Makes(c) \cap ShownGroups = {}
    BY <1>1, <1>2, <1>7, GoingOnQueues
  <2>2. \A w \in Elems(Tail(stdin)) : Makes(w) \cap Makes(c) = {}
    BY <2>1 DEF GroupsIn
  <2>3. /\ \A w \in Elems(Tail(stdin)) : CallOK(w, db')
        /\ \A w \in Elems(ipc) : AnswerOK(w, db')
        /\ GroupsKept' /\ db' \in Tables
        /\ db.messages \subseteq db'.messages /\ db.contacts \subseteq db'.contacts
    BY <1>1, <1>2, <2>1, <2>2, StatementKeeps
  <2>4. CallOK(e, db')
    BY <1>1, <1>2, <1>3, <1>4, <1>7, HeadStep
  <2>5. CallsOK' /\ AnswersOK'
    BY <1>7, <2>1, <2>3, <2>4 DEF CallsOK, AnswersOK
  <2>6. e.for = c.for /\ e.x = c.x
    BY <1>2 DEF CallRecords
  <2>7. /\ About(stdin, "insert") \subseteq About(stdin', "insert")
        /\ About(stdin, "add") \subseteq About(stdin', "add")
    BY <2>1, <2>6 DEF About
  <2>8. ShownKept'
    BY <1>1, <2>3, <2>7 DEF ShownKept
  <2>9. AppTypes'
    BY <1>1, <1>7, <2>1, <2>3 DEF AppTypes
  <2> QED
    BY <2>1, <2>3, <2>5, <2>8, <2>9
<1> QED
  BY <1>1, <1>6, <1>7

LEMMA FailKeeps ==
  ASSUME ChatAppAssumption, IInv, Fail
  PROVE  IInv'
<1> USE DEF IInv
<1> DEFINE c == Head(stdin)
           b == c.for \in {"contacts", "requests"}
           a == [c EXCEPT !.todo = <<>>, !.ok = b]
<1>1. /\ stdin # <<>> /\ db' = db /\ ui' = ui /\ Answered(c, b)
      /\ used' \in {used, [used EXCEPT !.failures = @ + 1]}
      /\ failed \subseteq failed'
      /\ Head(c.todo) # Query => c.x \in failed'
  BY DEF Fail
<1>2. c \in CallRecords /\ c \in Elems(stdin) /\ CallOK(c, db) /\ c.todo # <<>>
  BY <1>1, ElemsTail DEF AppTypes, CallsOK, CallOK
<1>3. used' \in Histories /\ used'.groups = used.groups
  <2>1. used \in Histories /\ used.failures + 1 \in Nat
    BY DEF AppTypes, Histories
  <2>2. /\ [used EXCEPT !.failures = @ + 1] \in Histories
        /\ [used EXCEPT !.failures = @ + 1].groups = used.groups
    BY <2>1 DEF Histories
  <2> QED
    BY <1>1, <2>1, <2>2
<1>11. b \in BOOLEAN
  OBVIOUS
<1>4. /\ stdin' \in Seq(CallRecords) /\ ipc' \in Seq(CallRecords) /\ Tokens'
      /\ Elems(stdin') \subseteq Elems(stdin) /\ Elems(ipc') = Elems(ipc) \cup {a}
      /\ Elems(stdin) = {c} \cup Elems(stdin')
  <2> HIDE DEF b
  <2> QED
    BY <1>1, <1>3, <1>11, AnsweredQueues
<1>5. AnswerOK(a, db)
  <2>1. a.for = c.for /\ a.x = c.x /\ a.ok = b
    BY <1>2 DEF CallRecords
  <2> HIDE DEF a
  <2> QED
    BY <1>2, <2>1 DEF AnswerOK, CallOK
<1>6. CallsOK' /\ AnswersOK' /\ GroupsKept'
  BY <1>1, <1>4, <1>5 DEF CallsOK, AnswersOK, GroupsKept
<1>7. /\ c.for = "insert" => c.x \in failed'
      /\ c.for = "add" => c.x \in failed' \cup db'.contacts
  <2>1. c.for = "insert" => Head(c.todo) # Query
    BY <1>2 DEF CallOK, MessagesInsert, Query, Stmt
  <2>2. c.for = "add" => Head(c.todo) # Query \/ c.x \in db.contacts
    <3>1. c.todo = ContactsAdd(c.x) => Head(c.todo) = Stmt("putContact", c.x)
      BY DEF ContactsAdd
    <3>2. Stmt("putContact", c.x) # Query
      BY DEF Query, Stmt
    <3> QED
      BY <1>2, <3>1, <3>2 DEF CallOK
  <2> QED
    BY <1>1, <2>1, <2>2
<1>8. /\ About(stdin, "insert") \subseteq About(stdin', "insert") \cup failed'
      /\ About(stdin, "add") \subseteq About(stdin', "add") \cup failed' \cup db'.contacts
  BY <1>4, <1>7 DEF About
<1>9. ShownKept'
  BY <1>1, <1>8 DEF ShownKept
<1>10. AppTypes'
  BY <1>1, <1>3, <1>4 DEF AppTypes
<1> QED
  BY <1>4, <1>6, <1>9, <1>10

\* a call that is about no group
LEMMA PlainCall ==
  ASSUME NEW for \in Kinds \ {"text", "request", "create", "saved", "insert", "add"},
         NEW x \in Subjects, NEW todo \in Seq(Statements), todo # <<>>,
         \A s \in Elems(todo) : s.op \notin {"clearMembers", "putMember"}, NEW d
  PROVE  /\ Plain(for, x, todo) \in CallRecords /\ Makes(Plain(for, x, todo)) = {}
         /\ CallOK(Plain(for, x, todo), d)
<1> DEFINE c == Plain(for, x, todo)
<1>1. c \in CallRecords /\ c.for = for /\ c.x = x /\ c.todo = todo
  BY DEF Plain, Call, CallRecords
<1> HIDE DEF c
<1>2. Makes(c) = {} /\ CallOK(c, d)
  BY <1>1 DEF Makes, CallOK
<1> QED
  BY <1>1, <1>2 DEF c

\* a statement about no group is one of its own
LEMMA OneStatement ==
  ASSUME NEW s \in Statements
  PROVE  <<s>> \in Seq(Statements) /\ <<s>> # <<>> /\ Elems(<<s>>) = {s}
BY DEF Elems

LEMMA PlainStatements ==
  ASSUME NEW o \in {"start", "migrate", "network", "query"}
  PROVE  Stmt(o, Nobody) \in Statements /\ Stmt(o, Nobody).op = o
BY DEF Stmt, Statements, Ops, Subjects

\* the calls that follow an answer: at most the saving of the group just created
LEMMA ContinuedCalls ==
  ASSUME ChatAppAssumption, NEW c \in CallRecords, NEW d, AnswerOK(c, d)
  PROVE  /\ Continued(c) \in Seq(CallRecords) /\ Once(Continued(c))
         /\ GroupsIn(Continued(c)) \subseteq Makes(c)
         /\ c.for = "saved" => Continued(c) = <<>>
         /\ \A e \in Elems(Continued(c)) : CallOK(e, d)
<1>1. CASE c.for = "start"
  <2> DEFINE m == Plain("migrate", Nobody, <<Stmt("migrate", Nobody)>>)
  <2>1. m \in CallRecords /\ Makes(m) = {} /\ CallOK(m, d)
    <3>1. Stmt("migrate", Nobody) \in Statements /\ Stmt("migrate", Nobody).op = "migrate"
      BY PlainStatements
    <3>2. /\ <<Stmt("migrate", Nobody)>> \in Seq(Statements) /\ <<Stmt("migrate", Nobody)>> # <<>>
          /\ \A s \in Elems(<<Stmt("migrate", Nobody)>>) : s.op \notin {"clearMembers", "putMember"}
      BY <3>1, OneStatement
    <3>3. "migrate" \in Kinds \ {"text", "request", "create", "saved", "insert", "add"}
      BY DEF Kinds
    <3>4. Nobody \in Subjects
      BY DEF Subjects
    <3> QED
      BY <3>2, <3>3, <3>4, PlainCall
  <2>2. Continued(c) = <<m>>
    BY <1>1 DEF Continued
  <2> HIDE DEF m
  <2> QED
    BY <1>1, <2>1, <2>2, OnceOne
<1>2. CASE c.for = "migrate"
  <2> DEFINE p(for) == Plain(for, Nobody, <<Query>>)
  <2>1. \A for \in {"contacts", "requests", "groups"} :
          p(for) \in CallRecords /\ Makes(p(for)) = {} /\ CallOK(p(for), d)
    <3> SUFFICES ASSUME NEW for \in {"contacts", "requests", "groups"}
                 PROVE  p(for) \in CallRecords /\ Makes(p(for)) = {} /\ CallOK(p(for), d)
      OBVIOUS
    <3>1. Query \in Statements /\ Query.op = "query"
      BY PlainStatements DEF Query
    <3>2. /\ <<Query>> \in Seq(Statements) /\ <<Query>> # <<>>
          /\ \A s \in Elems(<<Query>>) : s.op \notin {"clearMembers", "putMember"}
      BY <3>1, OneStatement
    <3>3. for \in Kinds \ {"text", "request", "create", "saved", "insert", "add"}
      BY DEF Kinds
    <3>4. Nobody \in Subjects
      BY DEF Subjects
    <3> QED
      BY <3>2, <3>3, <3>4, PlainCall
  <2>2. Continued(c) = <<p("contacts"), p("requests"), p("groups")>>
    BY <1>2 DEF Continued
  <2> HIDE DEF p
  <2> DEFINE q == <<p("contacts"), p("requests"), p("groups")>>
  <2>3. q \in Seq(CallRecords) /\ Len(q) = 3
    BY <2>1
  <2>4. \A i \in 1..3 : Makes(q[i]) = {} /\ CallOK(q[i], d)
    BY <2>1
  <2> HIDE DEF q
  <2>5. Once(q) /\ GroupsIn(q) = {} /\ \A e \in Elems(q) : CallOK(e, d)
    BY <2>3, <2>4 DEF Once, GroupsIn, Elems
  <2> QED
    BY <1>2, <2>2, <2>3, <2>5 DEF q
<1>3. CASE c.for = "create"
  <2> DEFINE m == Call("saved", c.x, c.members, GroupsSave(c.x, c.members))
  <2>1. c.x \in Groups /\ c.members \in SUBSET People
    BY <1>3 DEF AnswerOK, CallRecords
  <2>2. GroupsSave(c.x, c.members) \in Seq(Statements) /\ GroupsSave(c.x, c.members) # <<>>
    BY <2>1, SaveParts
  <2>3. /\ m.for = "saved" /\ m.x = c.x /\ m.members = c.members
        /\ m.todo = GroupsSave(c.x, c.members) /\ m \in CallRecords
    BY <2>1, <2>2 DEF Call, CallRecords, Kinds, Subjects, Conversations
  <2>4. Continued(c) = <<m>>
    BY <1>3 DEF Continued, AfterCreate
  <2> HIDE DEF m
  <2>5. CallOK(m, d) /\ Makes(m) = Makes(c)
    BY <1>3, <2>1, <2>2, <2>3 DEF CallOK, SavedLeft, Makes
  <2> QED
    BY <1>3, <2>3, <2>4, <2>5, OnceOne
<1>4. CASE c.for \notin {"start", "migrate", "create"}
  <2>1. Continued(c) = <<>>
    BY <1>4 DEF Continued
  <2> QED
    BY <2>1, OnceNone
<1> QED
  BY <1>1, <1>2, <1>3, <1>4

LEMMA AnswerKeeps ==
  ASSUME ChatAppAssumption, IInv, Answer
  PROVE  IInv'
<1> USE DEF IInv
<1> DEFINE c == Head(ipc)
           r == IF c.ok THEN Continued(c) ELSE <<>>
           shown == c.for = "saved" /\ c.ok
           g == [id |-> c.x, members |-> c.members]
           N == IF shown THEN {c.x} ELSE {}
<1>1. /\ ipc # <<>> /\ ipc' = Tail(ipc) /\ stdin' = stdin \o r
      /\ db' = db /\ used' = used /\ failed' = failed
      /\ ui' = IF shown THEN [ui EXCEPT !.groups = @ \cup {g}, !.conversation = c.x] ELSE ui
  BY DEF Answer, Invoke
<1>2. c \in CallRecords /\ AnswerOK(c, db)
  BY <1>1, ElemsTail DEF AppTypes, AnswersOK
<1>3. /\ r \in Seq(CallRecords) /\ Once(r) /\ GroupsIn(r) \subseteq Makes(c)
      /\ shown => r = <<>>
      /\ \A e \in Elems(r) : CallOK(e, db)
  <2>1. CASE c.ok
    BY <1>2, <2>1, ContinuedCalls
  <2>2. CASE ~c.ok
    BY <2>2, OnceNone
  <2> QED
    BY <2>1, <2>2
<1>4. /\ ui' \in Windows /\ ui'.messages = ui.messages /\ ui'.contacts = ui.contacts
      /\ ui'.groups = IF shown THEN ui.groups \cup {g} ELSE ui.groups
  <2>1. ui \in Windows
    BY DEF AppTypes
  <2>2. shown => c.x \in Groups /\ c.members \in SUBSET People
    BY <1>2 DEF AnswerOK, CallRecords
  <2>3. CASE ~shown
    BY <1>1, <2>1, <2>3
  <2>4. CASE shown
    <3> DEFINE w == [ui EXCEPT !.groups = @ \cup {g}, !.conversation = c.x]
    <3>1. g \in [id : Groups, members : SUBSET People] /\ c.x \in Conversations
      BY <2>2, <2>4 DEF Conversations
    <3> HIDE DEF g
    <3>2. /\ w \in Windows /\ w.messages = ui.messages /\ w.contacts = ui.contacts
          /\ w.groups = ui.groups \cup {g}
      BY <2>1, <3>1 DEF Windows
    <3>3. ui' = w
      BY <1>1, <2>4
    <3> HIDE DEF w
    <3> QED
      BY <2>4, <3>2, <3>3
  <2> QED
    BY <2>3, <2>4
<1>5. ShownGroups' = ShownGroups \cup N
  <2>1. ShownGroups' = {h.id : h \in ui'.groups}
    BY DEF ShownGroups
  <2>2. CASE shown
    <3>1. g.id = c.x
      OBVIOUS
    <3> HIDE DEF g
    <3> QED
      BY <1>4, <2>1, <2>2, <3>1 DEF ShownGroups
  <2>3. CASE ~shown
    BY <1>4, <2>1, <2>3 DEF ShownGroups
  <2> QED
    BY <2>2, <2>3
<1>6. N \subseteq Makes(c) /\ N \cap GroupsIn(r) = {}
  <2>1. shown => GroupsIn(r) = {}
    BY <1>3, OnceNone
  <2> QED
    BY <2>1 DEF Makes
<1> HIDE DEF r, N
<1>7. /\ stdin' \in Seq(CallRecords) /\ ipc' \in Seq(CallRecords) /\ Tokens'
      /\ Elems(ipc') \subseteq Elems(ipc) /\ Elems(stdin') = Elems(stdin) \cup Elems(r)
  BY <1>1, <1>3, <1>5, <1>6, HandledQueues
<1>8. CallsOK' /\ AnswersOK'
  BY <1>1, <1>3, <1>7 DEF CallsOK, AnswersOK
<1>9. GroupsKept'
  <2>1. shown => Kept(g, db)
    BY <1>2 DEF AnswerOK, Stored, Kept
  <2>2. \A h \in ui'.groups : Kept(h, db)
    BY <1>4, <2>1 DEF GroupsKept
  <2> QED
    BY <1>1, <2>2 DEF GroupsKept, Kept
<1>10. /\ About(stdin, "insert") \subseteq About(stdin', "insert")
       /\ About(stdin, "add") \subseteq About(stdin', "add")
  BY <1>7 DEF About
<1>11. ShownKept'
  BY <1>1, <1>4, <1>10 DEF ShownKept
<1>12. AppTypes'
  BY <1>1, <1>4, <1>7 DEF AppTypes
<1> QED
  BY <1>7, <1>8, <1>9, <1>11, <1>12

\* a call that stores a message, or a new contact
LEMMA InsertCall ==
  ASSUME NEW m \in Texts, NEW d
  PROVE  LET e == Plain("insert", m, MessagesInsert(m))
         IN  e \in CallRecords /\ e.for = "insert" /\ e.x = m /\ Makes(e) = {} /\ CallOK(e, d)
<1> DEFINE e == Plain("insert", m, MessagesInsert(m))
<1>1. Stmt("putMessage", m) \in Statements /\ Stmt("putMessage", m).op = "putMessage"
  BY DEF Stmt, Statements, Ops, Subjects
<1>2. /\ MessagesInsert(m) \in Seq(Statements) /\ MessagesInsert(m) # <<>>
      /\ \A s \in Elems(MessagesInsert(m)) : s.op = "putMessage"
  BY <1>1, OneStatement DEF MessagesInsert
<1>3. e \in CallRecords /\ e.for = "insert" /\ e.x = m /\ e.todo = MessagesInsert(m)
  BY <1>2 DEF Plain, Call, CallRecords, Kinds, Subjects
<1> HIDE DEF e
<1>4. Makes(e) = {} /\ CallOK(e, d)
  BY <1>2, <1>3 DEF Makes, CallOK
<1> QED
  BY <1>3, <1>4 DEF e

LEMMA TwoStatements ==
  ASSUME NEW s \in Statements, NEW t \in Statements
  PROVE  <<s, t>> \in Seq(Statements) /\ <<s, t>> # <<>> /\ Elems(<<s, t>>) = {s, t}
BY DEF Elems

LEMMA AddCall ==
  ASSUME NEW p \in People, NEW d
  PROVE  LET e == Plain("add", p, ContactsAdd(p))
         IN  e \in CallRecords /\ e.for = "add" /\ e.x = p /\ Makes(e) = {} /\ CallOK(e, d)
<1> DEFINE e == Plain("add", p, ContactsAdd(p))
<1>1. /\ Stmt("putContact", p) \in Statements /\ Stmt("putContact", p).op = "putContact"
      /\ Query \in Statements /\ Query.op = "query"
  BY DEF Stmt, Statements, Ops, Subjects, Conversations, Query
<1>2. /\ ContactsAdd(p) \in Seq(Statements) /\ ContactsAdd(p) # <<>>
      /\ \A s \in Elems(ContactsAdd(p)) : s.op \notin {"clearMembers", "putMember"}
  BY <1>1, TwoStatements DEF ContactsAdd
<1>3. e \in CallRecords /\ e.for = "add" /\ e.x = p /\ e.todo = ContactsAdd(p)
  BY <1>2 DEF Plain, Call, CallRecords, Kinds, Subjects, Conversations
<1> HIDE DEF e
<1>4. Makes(e) = {}
  BY <1>3 DEF Makes
<1>5. /\ e.todo = ContactsAdd(e.x) /\ e.todo # <<>> /\ e.x \in People
      /\ \A s \in Elems(e.todo) : s.op \notin {"clearMembers", "putMember"}
  BY <1>2, <1>3
<1>6. CallOK(e, d)
  <2>1. e.for \notin {"text", "request"} /\ e.for # "insert" /\ e.for # "saved"
        /\ e.for \notin {"create", "saved"}
    BY <1>3
  <2> QED
    BY <1>5, <2>1 DEF CallOK
<1> QED
  BY <1>3, <1>4, <1>6 DEF e

LEMMA OnTextKeeps ==
  ASSUME ChatAppAssumption, IInv, OnMessage, Head(ipc).for = "text", OnText(Head(ipc).x)
  PROVE  IInv'
<1> USE DEF IInv
<1> DEFINE c == Head(ipc)
           m == c.x
           p == Peer[m]
           S == {p} \cap (People \ ui.contacts)
           i == Plain("insert", m, MessagesInsert(m))
           a == Plain("add", p, ContactsAdd(p))
           t == IF S = {} THEN <<>> ELSE <<a>>
           r == <<i>> \o t
<1>1. /\ ipc # <<>> /\ ipc' = Tail(ipc) /\ stdin' = stdin \o r
      /\ db' = db /\ used' = used /\ failed' = failed
      /\ ui' = [ui EXCEPT !.messages = @ \cup {m}, !.contacts = @ \cup S]
  BY DEF OnMessage, OnText, Invoke
<1>2. c \in CallRecords /\ AnswerOK(c, db)
  BY <1>1, ElemsTail DEF AppTypes, AnswersOK
<1>3. m \in Texts
  BY <1>2 DEF AnswerOK
<1>4. i \in CallRecords /\ i.for = "insert" /\ i.x = m /\ Makes(i) = {} /\ CallOK(i, db)
  BY <1>3, InsertCall
<1>5. p \in People => a \in CallRecords /\ a.for = "add" /\ a.x = p /\ Makes(a) = {}
                       /\ CallOK(a, db)
  BY AddCall
<1> HIDE DEF i, a
<1>6. /\ t \in Seq(CallRecords) /\ Once(t) /\ GroupsIn(t) = {}
      /\ \A e \in Elems(t) : CallOK(e, db)
      /\ S \subseteq About(t, "add")
  <2>1. CASE S = {}
    BY <2>1, OnceNone
  <2>2. CASE S # {}
    <3>1. p \in People /\ t = <<a>> /\ S = {p}
      BY <2>2
    <3> QED
      BY <1>5, <3>1, OnceOne DEF About
  <2> QED
    BY <2>1, <2>2
<1> DEFINE u == <<i>>
<1>7. u \in Seq(CallRecords) /\ Elems(u) = {i} /\ GroupsIn(u) = {} /\ Once(u)
  BY <1>4, OnceOne
<1>70. r = u \o t
  OBVIOUS
<1> HIDE DEF t, S, u, r
<1>8. /\ r \in Seq(CallRecords) /\ Once(r) /\ GroupsIn(r) = {}
      /\ Elems(r) = {i} \cup Elems(t)
  <2>1. u \o t \in Seq(CallRecords) /\ Elems(u \o t) = Elems(u) \cup Elems(t)
    BY <1>6, <1>7, ElemsConcat
  <2>2. /\ GroupsIn(u \o t) = GroupsIn(u) \cup GroupsIn(t)
        /\ Once(u) /\ Once(t) /\ GroupsIn(u) \cap GroupsIn(t) = {} => Once(u \o t)
    BY <1>6, <1>7, OnceConcat
  <2> QED
    BY <1>6, <1>7, <1>70, <2>1, <2>2
<1>9. /\ ui' \in Windows /\ ui'.groups = ui.groups
      /\ ui'.messages = ui.messages \cup {m} /\ ui'.contacts = ui.contacts \cup S
  <2>1. ui \in Windows /\ S \subseteq People
    BY DEF AppTypes, S
  <2> HIDE DEF m
  <2> QED
    BY <1>1, <1>3, <2>1 DEF Windows, m
<1>10. ShownGroups' = ShownGroups \cup {}
  BY <1>9 DEF ShownGroups
<1>11. {} \cap GroupsIn(r) = {} /\ {} \cup GroupsIn(r) \subseteq Makes(Head(ipc))
  BY <1>8
<1>12. /\ stdin' \in Seq(CallRecords) /\ ipc' \in Seq(CallRecords) /\ Tokens'
       /\ Elems(ipc') \subseteq Elems(ipc) /\ Elems(stdin') = Elems(stdin) \cup Elems(r)
  BY <1>1, <1>8, <1>10, <1>11, HandledQueues
<1>13. CallsOK' /\ AnswersOK' /\ GroupsKept'
  BY <1>1, <1>4, <1>6, <1>8, <1>9, <1>12 DEF CallsOK, AnswersOK, GroupsKept
<1>14. /\ About(stdin, "insert") \cup {m} \subseteq About(stdin', "insert")
       /\ About(stdin, "add") \cup S \subseteq About(stdin', "add")
  BY <1>4, <1>6, <1>8, <1>12 DEF About
<1>15. ShownKept'
  BY <1>1, <1>9, <1>14 DEF ShownKept
<1>16. AppTypes'
  BY <1>1, <1>9, <1>12 DEF AppTypes
<1> QED
  BY <1>12, <1>13, <1>15, <1>16

LEMMA OnFriendRequestKeeps ==
  ASSUME ChatAppAssumption, IInv, OnMessage, Head(ipc).for = "request",
         OnFriendRequest(Head(ipc).x)
  PROVE  IInv'
<1> USE DEF IInv
<1> DEFINE c == Head(ipc)
           p == c.x
           a == Plain("friendRequest", p, FriendRequestsAdd(p))
           r == <<a>>
<1>1. /\ ipc # <<>> /\ ipc' = Tail(ipc) /\ stdin' = stdin \o r
      /\ db' = db /\ used' = used /\ failed' = failed /\ ui' = ui
  BY DEF OnMessage, OnFriendRequest, Invoke
<1>2. c \in CallRecords /\ AnswerOK(c, db)
  BY <1>1, ElemsTail DEF AppTypes, AnswersOK
<1>3. p \in People
  BY <1>2 DEF AnswerOK
<1>4. a \in CallRecords /\ Makes(a) = {} /\ CallOK(a, db)
  <2>1. /\ Stmt("putRequest", p) \in Statements /\ Stmt("putRequest", p).op = "putRequest"
        /\ Query \in Statements /\ Query.op = "query"
    BY <1>3 DEF Stmt, Statements, Ops, Subjects, Conversations, Query
  <2>2. /\ FriendRequestsAdd(p) \in Seq(Statements) /\ FriendRequestsAdd(p) # <<>>
        /\ \A s \in Elems(FriendRequestsAdd(p)) : s.op \notin {"clearMembers", "putMember"}
    BY <2>1, TwoStatements DEF FriendRequestsAdd
  <2>3. /\ "friendRequest" \in Kinds \ {"text", "request", "create", "saved", "insert", "add"}
        /\ p \in Subjects
    BY <1>3 DEF Kinds, Subjects, Conversations
  <2> QED
    BY <2>2, <2>3, PlainCall
<1> HIDE DEF a
<1>5. r \in Seq(CallRecords) /\ Elems(r) = {a} /\ GroupsIn(r) = {} /\ Once(r)
  BY <1>4, OnceOne
<1>6. ShownGroups' = ShownGroups \cup {}
  BY <1>1 DEF ShownGroups
<1> HIDE DEF r
<1>7. {} \cap GroupsIn(r) = {} /\ {} \cup GroupsIn(r) \subseteq Makes(Head(ipc))
  BY <1>5
<1>8. /\ stdin' \in Seq(CallRecords) /\ ipc' \in Seq(CallRecords) /\ Tokens'
      /\ Elems(ipc') \subseteq Elems(ipc) /\ Elems(stdin') = Elems(stdin) \cup Elems(r)
  BY <1>1, <1>5, <1>6, <1>7, HandledQueues
<1>9. CallsOK' /\ AnswersOK' /\ GroupsKept'
  BY <1>1, <1>4, <1>5, <1>8 DEF CallsOK, AnswersOK, GroupsKept
<1>10. ShownKept'
  BY <1>1, <1>8 DEF ShownKept, About
<1>11. AppTypes'
  BY <1>1, <1>8 DEF AppTypes
<1> QED
  BY <1>8, <1>9, <1>10, <1>11

LEMMA NotifyKeeps ==
  ASSUME ChatAppAssumption, IInv, Notify
  PROVE  IInv'
<1> USE DEF IInv
<1>1. db' = db /\ stdin' = stdin /\ ui' = ui /\ failed' = failed /\ used \in Histories
  BY DEF Notify, AppTypes
<1>2. \E c \in CallRecords :
        /\ ipc' = Append(ipc, c) /\ AnswerOK(c, db) /\ Makes(c) = {}
        /\ used' \in Histories /\ used'.groups = used.groups
  <2>1. ASSUME NEW m \in Texts, used' = [used EXCEPT !.texts = @ \cup {m}, !.arrivals = @ + 1],
               ipc' = Append(ipc, Plain("text", m, <<>>))
        PROVE  \E c \in CallRecords :
                 /\ ipc' = Append(ipc, c) /\ AnswerOK(c, db) /\ Makes(c) = {}
                 /\ used' \in Histories /\ used'.groups = used.groups
    <3> DEFINE c == Plain("text", m, <<>>)
    <3>1. c \in CallRecords /\ c.for = "text" /\ c.x = m
      BY DEF Plain, Call, CallRecords, Kinds, Subjects
    <3>2. used' \in Histories /\ used'.groups = used.groups
      <4>1. used.arrivals + 1 \in Nat
        BY <1>1 DEF Histories
      <4>2. /\ [used EXCEPT !.texts = @ \cup {m}, !.arrivals = @ + 1] \in Histories
            /\ [used EXCEPT !.texts = @ \cup {m}, !.arrivals = @ + 1].groups = used.groups
        BY <1>1, <4>1 DEF Histories
      <4> QED
        BY <2>1, <4>2
    <3>3. ipc' = Append(ipc, c)
      BY <2>1
    <3> HIDE DEF c
    <3> QED
      BY <3>1, <3>2, <3>3 DEF AnswerOK, Makes
  <2>2. ASSUME NEW p \in People, used' = [used EXCEPT !.arrivals = @ + 1],
               ipc' = Append(ipc, Plain("request", p, <<>>))
        PROVE  \E c \in CallRecords :
                 /\ ipc' = Append(ipc, c) /\ AnswerOK(c, db) /\ Makes(c) = {}
                 /\ used' \in Histories /\ used'.groups = used.groups
    <3> DEFINE c == Plain("request", p, <<>>)
    <3>1. c \in CallRecords /\ c.for = "request" /\ c.x = p
      BY DEF Plain, Call, CallRecords, Kinds, Subjects, Conversations
    <3>2. used' \in Histories /\ used'.groups = used.groups
      <4>1. used.arrivals + 1 \in Nat
        BY <1>1 DEF Histories
      <4>2. /\ [used EXCEPT !.arrivals = @ + 1] \in Histories
            /\ [used EXCEPT !.arrivals = @ + 1].groups = used.groups
        BY <1>1, <4>1 DEF Histories
      <4> QED
        BY <2>2, <4>2
    <3>3. ipc' = Append(ipc, c)
      BY <2>2
    <3> HIDE DEF c
    <3> QED
      BY <3>1, <3>2, <3>3 DEF AnswerOK, Makes
  <2> QED
    BY <2>1, <2>2 DEF Notify
<1>3. PICK c \in CallRecords :
        /\ ipc' = Append(ipc, c) /\ AnswerOK(c, db) /\ Makes(c) = {}
        /\ used' \in Histories /\ used'.groups = used.groups
  BY <1>2
<1>4. Append(ipc, c) \in Seq(CallRecords) /\ Elems(Append(ipc, c)) = Elems(ipc) \cup {c}
  BY ElemsAppend DEF AppTypes
<1>5. GroupsIn(Append(ipc, c)) = GroupsIn(ipc) \cup Makes(c) /\ Once(Append(ipc, c))
  <2>1. GroupsIn(ipc) \cap Makes(c) = {}
    BY <1>3
  <2> QED
    BY <2>1, OnceAppend DEF AppTypes, Tokens
<1>6. Once(stdin') /\ Once(ipc') /\ GroupsIn(stdin') = GroupsIn(stdin)
      /\ GroupsIn(ipc') = GroupsIn(ipc)
  BY <1>1, <1>3, <1>5 DEF Tokens
<1>7. ShownGroups' = ShownGroups
  BY <1>1 DEF ShownGroups
<1>8. Tokens'
  BY <1>3, <1>6, <1>7 DEF Tokens
<1>9. CallsOK' /\ AnswersOK' /\ GroupsKept'
  BY <1>1, <1>3, <1>4 DEF CallsOK, AnswersOK, GroupsKept
<1>10. ShownKept'
  BY <1>1 DEF ShownKept, About
<1>11. AppTypes'
  BY <1>1, <1>3, <1>4 DEF AppTypes
<1> QED
  BY <1>8, <1>9, <1>10, <1>11

\* a call of the user: the database and the answers are as they were
LEMMA UserCallKeeps ==
  ASSUME IInv, db' = db, ipc' = ipc, failed' = failed, used' \in Histories, ui' \in Windows,
         ui'.groups = ui.groups, ui'.contacts = ui.contacts,
         NEW c \in CallRecords, stdin' = stdin \o <<c>>, CallOK(c, db),
         Makes(c) \cap used.groups = {}, used'.groups = used.groups \cup Makes(c),
         ui'.messages \subseteq ui.messages \cup About(<<c>>, "insert")
  PROVE  IInv'
<1> USE DEF IInv
<1> DEFINE r == <<c>>
<1>1. r \in Seq(CallRecords) /\ Elems(r) = {c} /\ GroupsIn(r) = Makes(c) /\ Once(r)
  BY OnceOne
<1>2. ShownGroups' = ShownGroups
  BY DEF ShownGroups
<1>3. stdin' = stdin \o r /\ ui'.messages \subseteq ui.messages \cup About(r, "insert")
  OBVIOUS
<1> HIDE DEF r
<1>4. stdin' \in Seq(CallRecords) /\ Tokens' /\ Elems(stdin') = Elems(stdin) \cup Elems(r)
  BY <1>1, <1>2, <1>3, InvokedQueues
<1>5. CallsOK' /\ AnswersOK' /\ GroupsKept'
  BY <1>1, <1>4 DEF CallsOK, AnswersOK, GroupsKept
<1>6. /\ About(stdin, "insert") \cup About(r, "insert") \subseteq About(stdin', "insert")
      /\ About(stdin, "add") \subseteq About(stdin', "add")
  BY <1>4 DEF About
<1>7. ShownKept'
  BY <1>3, <1>6 DEF ShownKept
<1>8. AppTypes'
  BY <1>4 DEF AppTypes
<1> QED
  BY <1>4, <1>5, <1>7, <1>8

LEMMA OpenKeeps ==
  ASSUME ChatAppAssumption, IInv, Open
  PROVE  IInv'
<1> DEFINE c == Plain("start", Nobody, <<Stmt("start", Nobody)>>)
<1>1. c \in CallRecords /\ Makes(c) = {} /\ CallOK(c, db)
  <2>1. Stmt("start", Nobody) \in Statements /\ Stmt("start", Nobody).op = "start"
    BY PlainStatements
  <2>2. /\ <<Stmt("start", Nobody)>> \in Seq(Statements) /\ <<Stmt("start", Nobody)>> # <<>>
        /\ \A s \in Elems(<<Stmt("start", Nobody)>>) : s.op \notin {"clearMembers", "putMember"}
    BY <2>1, OneStatement
  <2>3. /\ "start" \in Kinds \ {"text", "request", "create", "saved", "insert", "add"}
        /\ Nobody \in Subjects
    BY DEF Kinds, Subjects
  <2> QED
    BY <2>2, <2>3, PlainCall
<1>2. /\ db' = db /\ ipc' = ipc /\ failed' = failed /\ used' = used /\ ui' = ui
      /\ stdin' = stdin \o <<c>> /\ used \in Histories /\ ui \in Windows
  BY DEF Open, Invoke, IInv, AppTypes
<1> HIDE DEF c
<1> QED
  BY <1>1, <1>2, UserCallKeeps

LEMMA SelectKeeps ==
  ASSUME ChatAppAssumption, IInv, Select
  PROVE  IInv'
<1>1. ui \in Windows /\ used \in Histories
  BY DEF IInv, AppTypes
<1>2. PICK x \in ui.contacts \cup {g.id : g \in ui.groups} :
        /\ ui' = [ui EXCEPT !.conversation = x]
        /\ stdin' = stdin \o <<Plain("select", x, <<Query>>)>>
  BY DEF Select, Invoke
<1> DEFINE c == Plain("select", x, <<Query>>)
<1>3. x \in Conversations
  BY <1>1 DEF Windows, Conversations
<1>4. c \in CallRecords /\ Makes(c) = {} /\ CallOK(c, db)
  <2>1. Query \in Statements /\ Query.op = "query"
    BY PlainStatements DEF Query
  <2>2. /\ <<Query>> \in Seq(Statements) /\ <<Query>> # <<>>
        /\ \A s \in Elems(<<Query>>) : s.op \notin {"clearMembers", "putMember"}
    BY <2>1, OneStatement
  <2>3. /\ "select" \in Kinds \ {"text", "request", "create", "saved", "insert", "add"}
        /\ x \in Subjects
    BY <1>3 DEF Kinds, Subjects
  <2> QED
    BY <2>2, <2>3, PlainCall
<1>5. /\ db' = db /\ ipc' = ipc /\ failed' = failed /\ used' = used /\ stdin' = stdin \o <<c>>
  BY <1>2 DEF Select
<1>6. /\ ui' \in Windows /\ ui'.groups = ui.groups /\ ui'.contacts = ui.contacts
      /\ ui'.messages = ui.messages
  BY <1>1, <1>2, <1>3 DEF Windows
<1> HIDE DEF c
<1> QED
  BY <1>1, <1>4, <1>5, <1>6, UserCallKeeps

LEMMA SendMessageKeeps ==
  ASSUME ChatAppAssumption, IInv, SendMessage
  PROVE  IInv'
<1>1. ui \in Windows /\ used \in Histories
  BY DEF IInv, AppTypes
<1>2. PICK m \in Mine \ used.texts :
        /\ used' = [used EXCEPT !.texts = @ \cup {m}]
        /\ ui' = [ui EXCEPT !.messages = @ \cup {m}]
        /\ stdin' = stdin \o <<Plain("insert", m, MessagesInsert(m))>>
  BY DEF SendMessage, Invoke
<1> DEFINE c == Plain("insert", m, MessagesInsert(m))
<1>3. m \in Texts
  BY DEF ChatAppAssumption
<1>4. c \in CallRecords /\ c.for = "insert" /\ c.x = m /\ Makes(c) = {} /\ CallOK(c, db)
  BY <1>3, InsertCall
<1>5. /\ db' = db /\ ipc' = ipc /\ failed' = failed /\ stdin' = stdin \o <<c>>
  BY <1>2 DEF SendMessage
<1>6. used' \in Histories /\ used'.groups = used.groups
  BY <1>1, <1>2, <1>3 DEF Histories
<1>7. /\ ui' \in Windows /\ ui'.groups = ui.groups /\ ui'.contacts = ui.contacts
      /\ ui'.messages = ui.messages \cup {m}
  BY <1>1, <1>2, <1>3 DEF Windows
<1> HIDE DEF c
<1>8. m \in About(<<c>>, "insert")
  BY <1>4, OnceOne DEF About
<1> QED
  BY <1>4, <1>5, <1>6, <1>7, <1>8, UserCallKeeps

LEMMA CreateGroupKeeps ==
  ASSUME ChatAppAssumption, IInv, CreateGroup
  PROVE  IInv'
<1>1. ui \in Windows /\ used \in Histories
  BY DEF IInv, AppTypes
<1>2. PICK g \in Groups \ used.groups, ms \in (SUBSET ui.contacts) \ {{}} :
        /\ used' = [used EXCEPT !.groups = @ \cup {g}]
        /\ stdin' = stdin \o <<Call("create", g, ms, <<Stmt("network", Nobody)>>)>>
  BY DEF CreateGroup, Invoke
<1> DEFINE c == Call("create", g, ms, <<Stmt("network", Nobody)>>)
<1>3. ms \in SUBSET People
  BY <1>1 DEF Windows
<1>4. /\ <<Stmt("network", Nobody)>> \in Seq(Statements) /\ <<Stmt("network", Nobody)>> # <<>>
      /\ \A s \in Elems(<<Stmt("network", Nobody)>>) : s.op \notin {"clearMembers", "putMember"}
  <2>1. Stmt("network", Nobody) \in Statements /\ Stmt("network", Nobody).op = "network"
    BY PlainStatements
  <2> QED
    BY <2>1, OneStatement
<1>5. /\ c \in CallRecords /\ c.for = "create" /\ c.x = g /\ c.todo = <<Stmt("network", Nobody)>>
  BY <1>3, <1>4 DEF Call, CallRecords, Kinds, Subjects, Conversations
<1>6. /\ db' = db /\ ipc' = ipc /\ failed' = failed /\ ui' = ui /\ stdin' = stdin \o <<c>>
  BY <1>2 DEF CreateGroup
<1>7. used' \in Histories /\ used'.groups = used.groups \cup {g}
  BY <1>1, <1>2 DEF Histories
<1> HIDE DEF c
<1>8. Makes(c) = {g} /\ CallOK(c, db)
  <2>1. Makes(c) = {g}
    BY <1>5 DEF Makes
  <2>2. c.for \notin {"text", "request"} /\ c.for # "insert" /\ c.for # "add" /\ c.for # "saved"
    BY <1>5
  <2>3. c.x \in Groups /\ c.todo # <<>>
        /\ \A s \in Elems(c.todo) : s.op \notin {"clearMembers", "putMember"}
    BY <1>4, <1>5
  <2> QED
    BY <2>1, <2>2, <2>3 DEF CallOK
<1> QED
  BY <1>1, <1>5, <1>6, <1>7, <1>8, UserCallKeeps

LEMMA CloseKeeps ==
  ASSUME ChatAppAssumption, IInv, Close
  PROVE  IInv'
<1> USE DEF IInv
<1>1. /\ db' = db /\ stdin' = <<>> /\ ipc' = <<>> /\ ui' = EmptyWindow
      /\ used' = [used EXCEPT !.restarts = @ + 1]
  BY DEF Close
<1>2. used' \in Histories /\ used'.groups = used.groups
  <2>1. used \in Histories
    BY DEF AppTypes
  <2>2. used.restarts + 1 \in Nat
    BY <2>1 DEF Histories
  <2> QED
    BY <1>1, <2>1, <2>2 DEF Histories
<1>3. ui' \in Windows /\ ui'.groups = {} /\ ui'.contacts = {} /\ ui'.messages = {}
  BY <1>1 DEF EmptyWindow, Windows
<1>4. /\ stdin' \in Seq(CallRecords) /\ Elems(stdin') = {} /\ GroupsIn(stdin') = {} /\ Once(stdin')
      /\ ipc' \in Seq(CallRecords) /\ Elems(ipc') = {} /\ GroupsIn(ipc') = {} /\ Once(ipc')
  BY <1>1, OnceNone
<1>5. AppTypes'
  BY <1>1, <1>2, <1>3, <1>4 DEF AppTypes
<1>6. CallsOK' /\ AnswersOK' /\ GroupsKept' /\ ShownKept'
  BY <1>3, <1>4 DEF CallsOK, AnswersOK, GroupsKept, ShownKept
<1>7. ShownGroups' = {}
  BY <1>3 DEF ShownGroups
<1>8. Tokens'
  BY <1>2, <1>4, <1>7 DEF Tokens
<1> QED
  BY <1>5, <1>6, <1>8

\* a step that changes nothing
LEMMA StutterKeeps ==
  ASSUME IInv, UNCHANGED vars
  PROVE  IInv'
BY DEF vars, IInv, AppTypes, CallsOK, AnswersOK, Tokens, ShownGroups, GroupsKept, ShownKept, About

-----------------------------------------------------------------------------

THEOREM Invariant == Spec => []IInv
<1> USE ChatAppAssumption
<1>1. ASSUME Init PROVE IInv
  <2>1. /\ stdin = <<>> /\ ipc = <<>> /\ ui = EmptyWindow /\ used.groups = {}
        /\ db \in Tables /\ used \in Histories
    BY <1>1 DEF Init, Tables, Histories
  <2>2. ui \in Windows /\ ui.groups = {} /\ ui.contacts = {} /\ ui.messages = {}
    BY <2>1 DEF EmptyWindow, Windows
  <2>3. /\ stdin \in Seq(CallRecords) /\ Elems(stdin) = {} /\ GroupsIn(stdin) = {} /\ Once(stdin)
        /\ ipc \in Seq(CallRecords) /\ Elems(ipc) = {} /\ GroupsIn(ipc) = {} /\ Once(ipc)
    BY <2>1, OnceNone
  <2>4. Tokens
    BY <2>1, <2>2, <2>3 DEF Tokens, ShownGroups
  <2> QED
    BY <2>1, <2>2, <2>3, <2>4 DEF IInv, AppTypes, CallsOK, AnswersOK, GroupsKept, ShownKept
<1>2. ASSUME IInv, [Next]_vars PROVE IInv'
  <2>1. CASE Execute
    BY <1>2, <2>1, ExecuteKeeps
  <2>2. CASE Fail
    BY <1>2, <2>2, FailKeeps
  <2>3. CASE Answer
    BY <1>2, <2>3, AnswerKeeps
  <2>4. CASE OnMessage
    <3>1. CASE Head(ipc).for = "text" /\ OnText(Head(ipc).x)
      BY <1>2, <2>4, <3>1, OnTextKeeps
    <3>2. CASE Head(ipc).for = "request" /\ OnFriendRequest(Head(ipc).x)
      BY <1>2, <2>4, <3>2, OnFriendRequestKeeps
    <3> QED
      BY <2>4, <3>1, <3>2 DEF OnMessage
  <2>5. CASE Notify
    BY <1>2, <2>5, NotifyKeeps
  <2>6. CASE Open
    BY <1>2, <2>6, OpenKeeps
  <2>7. CASE Close
    BY <1>2, <2>7, CloseKeeps
  <2>8. CASE SendMessage
    BY <1>2, <2>8, SendMessageKeeps
  <2>9. CASE Select
    BY <1>2, <2>9, SelectKeeps
  <2>10. CASE CreateGroup
    BY <1>2, <2>10, CreateGroupKeeps
  <2>11. CASE UNCHANGED vars
    BY <1>2, <2>11, StutterKeeps
  <2> QED
    BY <1>2, <2>1, <2>2, <2>3, <2>4, <2>5, <2>6, <2>7, <2>8, <2>9, <2>10, <2>11
       DEF Next, Daemon, Window
<1> QED
  BY <1>1, <1>2, PTL DEF Spec

\* Whatever the handlers make of the daemon's answers, and whenever a statement fails or the
\* window is closed: a message or a contact on the screen is stored, or its statement is still
\* to be run or has failed (App.tsx:141-210, 214-281; main.ts:319-348, 558-583).
THEOREM ShownStored == Spec => []ShownIsStored
<1>1. ASSUME IInv PROVE ShownIsStored
  <2>1. ASSUME NEW x, NEW for, x \in About(stdin, for) PROVE UnderWay(for, x)
    <3>1. PICK c \in Elems(stdin) : c.for = for /\ c.x = x
      BY <2>1 DEF About
    <3>2. PICK i \in 1..Len(stdin) : c = stdin[i]
      BY <3>1 DEF Elems
    <3>3. DOMAIN stdin = 1..Len(stdin)
      BY <1>1 DEF IInv, AppTypes
    <3> QED
      BY <3>1, <3>2, <3>3 DEF UnderWay
  <2>2. /\ ui.messages \subseteq db.messages \cup failed \cup About(stdin, "insert")
        /\ ui.contacts \subseteq db.contacts \cup failed \cup About(stdin, "add")
    BY <1>1 DEF IInv, ShownKept
  <2> QED
    BY <2>1, <2>2 DEF ShownIsStored
<1> QED
  BY <1>1, Invariant, PTL

\* groups:save deletes and inserts the members one statement at a time, between those of
\* other calls: a group is on the screen only with the members that the database has
\* (main.ts:600-622; App.tsx:332-352).
THEOREM GroupsStored == Spec => []GroupsComplete
<1>1. ASSUME IInv PROVE GroupsComplete
  <2> SUFFICES ASSUME NEW g \in ui.groups
               PROVE  g.id \in db.groups /\ MembersOf(g.id) = g.members
    BY DEF GroupsComplete
  <2>1. /\ g.id \in db.groups /\ \A p \in People : <<g.id, p>> \in db.members <=> p \in g.members
    BY <1>1 DEF IInv, GroupsKept, Kept
  <2>2. db.members \subseteq Groups \X People /\ g.members \subseteq People
    BY <1>1 DEF IInv, AppTypes, Tables, Windows
  <2>3. \A p : p \in MembersOf(g.id) <=> p \in People /\ <<g.id, p>> \in db.members
    BY <2>2 DEF MembersOf
  <2> QED
    BY <2>1, <2>2, <2>3
<1> QED
  BY <1>1, Invariant, PTL

=============================================================================
