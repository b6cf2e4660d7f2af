-------------------------------- MODULE ChatApp --------------------------------
(***************************************************************************)
(* The chat client: the window (chat-client/src/renderer), which keeps     *)
(* contacts, friend requests, groups and messages in memory, and the       *)
(* handlers of the main process (chat-client/src/main.ts), which keep them *)
(* in the SQL database of the daemon.  A handler sends its statements one  *)
(* by one, each after the answer to the one before; the daemon takes       *)
(* statements of all handlers in the order they were sent (stdin), and the *)
(* window gets answers and messages in the order the main process passes   *)
(* them on (ipc).  Nothing else keeps the two copies together.             *)
(*                                                                         *)
(* The daemon answers a query with an object {columns, rows}               *)
(* (linkself-daemon/main.go:741), and every handler takes the answer for   *)
(* the list of rows: none of them ever passes a row on to the window.      *)
(***************************************************************************)
EXTENDS Naturals, Sequences, FiniteSets, SequencesExt

CONSTANTS
  People,      \* the other users
  Groups,      \* groups that can be created
  Texts,       \* messages
  Peer,        \* Peer[m]: the conversation of message m, a person or a group
  Mine,        \* the messages this user writes; the others arrive
  MaxArrivals, \* bound: messages and friend requests that arrive
  MaxFailures, \* bound: statements that fail
  MaxRestarts  \* bound: windows closed and opened again

Nobody == "nobody"
Conversations == People \cup Groups

ASSUME ChatAppAssumption ==
  /\ IsFiniteSet(People)
  /\ Nobody \notin Conversations
  /\ Texts \cap Conversations = {} /\ People \cap Groups = {}
  /\ Mine \subseteq Texts
  /\ Peer \in [Texts -> Conversations]
  /\ MaxArrivals \in Nat /\ MaxFailures \in Nat /\ MaxRestarts \in Nat

VARIABLES
  phase,  \* of the effect that starts the app: closed, starting, loading, loaded
  up,     \* has the daemon handled "start"?
  db,     \* the database: migrated, contacts, requests, messages, groups, members
  stdin,  \* the calls whose next statement is with the daemon, in the order of these statements
  ipc,    \* what the main process passes on to the window
  ui,     \* the window: conversation, contacts, requests, groups, messages
  used,   \* what has happened so far: messages, groups, arrivals, failures, restarts
  failed  \* history: what a statement that failed was to store, since the window opened

vars == <<phase, up, db, stdin, ipc, ui, used, failed>>

EmptyWindow ==
  [conversation |-> Nobody, contacts |-> {}, requests |-> {}, groups |-> {}, messages |-> {}]

Init ==
  /\ phase = "closed" /\ up = FALSE
  /\ db = [migrated |-> FALSE, contacts |-> {}, requests |-> {}, messages |-> {},
           groups |-> {}, members |-> {}]
  /\ stdin = <<>> /\ ipc = <<>>
  /\ ui = EmptyWindow
  /\ used = [texts |-> {}, groups |-> {}, arrivals |-> 0, failures |-> 0, restarts |-> 0]
  /\ failed = {}

-----------------------------------------------------------------------------
(* Statements and the handlers that send them *)

Stmt(op, x) == [op |-> op, x |-> x]

Query == Stmt("query", Nobody)

\* requests that need no tables: those of the daemon, and the migration itself
Works(s) ==
  CASE s.op = "start" -> TRUE
    [] s.op \in {"migrate", "network"} -> up
    [] OTHER -> up /\ db.migrated

Written(s) ==
  CASE s.op = "migrate" -> [db EXCEPT !.migrated = TRUE]
    [] s.op = "putContact" -> [db EXCEPT !.contacts = @ \cup {s.x}]
    [] s.op = "putRequest" -> [db EXCEPT !.requests = @ \cup {s.x}]
    [] s.op = "putMessage" -> [db EXCEPT !.messages = @ \cup {s.x}]
    [] s.op = "putGroup" -> [db EXCEPT !.groups = @ \cup {s.x}]
    [] s.op = "clearMembers" -> [db EXCEPT !.members = {q \in @ : q[1] # s.x}]
    [] s.op = "putMember" -> [db EXCEPT !.members = @ \cup {s.x}]
    [] OTHER -> db

\* mutant of ContactsAdd: the list is read before the contact is stored
ContactsAdd_ReadFirst(p) == <<Query, Stmt("putContact", p)>>

ContactsAdd(p) == <<Stmt("putContact", p), Query>>
FriendRequestsAdd(p) == <<Stmt("putRequest", p), Query>>
MessagesInsert(m) == <<Stmt("putMessage", m)>>

Inserts(g, ms) == SetToSeq({Stmt("putMember", <<g, p>>) : p \in ms})

\* mutant of GroupsSave: the old members are removed last
GroupsSave_ClearLast(g, ms) ==
  <<Stmt("putGroup", g)>> \o Inserts(g, ms) \o <<Stmt("clearMembers", g)>>

GroupsSave(g, ms) == <<Stmt("putGroup", g), Stmt("clearMembers", g)>> \o Inserts(g, ms)

\* a call of the window: what it is for, its subject (and the members of a group), the
\* statements left; ok tells whether its promise was resolved
Call(for, x, members, todo) ==
  [for |-> for, x |-> x, members |-> members, todo |-> todo, ok |-> TRUE]

Plain(for, x, todo) == Call(for, x, {}, todo)

Invoke(calls) == stdin' = stdin \o calls

-----------------------------------------------------------------------------
(* The daemon takes the next statement, and the main process goes on with its answer *)

\* contacts:get and friendRequests:get catch everything and answer with an empty list; the
\* handlers of messages:get hand the object on, and all others throw at it
Resolved(call) == Head(call.todo) # Query \/ call.for \in {"contacts", "requests", "select"}

Answered(call, ok) ==
  /\ ipc' = Append(ipc, [call EXCEPT !.todo = <<>>, !.ok = ok])
  /\ stdin' = Tail(stdin)

\* the handler's next statement goes to the end of what the daemon has to read
Execute ==
  /\ stdin # <<>>
  /\ LET call == Head(stdin) IN
       /\ Works(Head(call.todo))
       /\ db' = Written(Head(call.todo))
       /\ up' = (up \/ Head(call.todo).op = "start")
       /\ IF Tail(call.todo) = <<>>
          THEN Answered(call, Resolved(call))
          ELSE /\ stdin' = Append(Tail(stdin), [call EXCEPT !.todo = Tail(@)])
               /\ UNCHANGED ipc
  /\ UNCHANGED <<phase, ui, used, failed>>

\* a statement meets a daemon or a database that is not ready, or fails by itself; the
\* handler throws
Fail ==
  /\ stdin # <<>>
  /\ LET call == Head(stdin) IN
       /\ Works(Head(call.todo)) => used.failures < MaxFailures
       /\ used' = IF Works(Head(call.todo)) THEN [used EXCEPT !.failures = @ + 1] ELSE used
       /\ failed' = IF Head(call.todo) = Query THEN failed ELSE failed \cup {call.x}
       /\ Answered(call, call.for \in {"contacts", "requests"})
  /\ UNCHANGED <<phase, up, db, ui>>

-----------------------------------------------------------------------------
(* The window gets an answer *)

\* mutant of AfterCreate: the group is not saved
AfterCreate_Nothing(g, ms) == <<>>

\* handleCreateGroup goes on with groups:save
AfterCreate(g, ms) == <<Call("saved", g, ms, GroupsSave(g, ms))>>

\* the next calls of the same handler of the window
Continued(call) ==
  CASE call.for = "start" -> <<Plain("migrate", Nobody, <<Stmt("migrate", Nobody)>>)>>
    [] call.for = "migrate" ->
         <<Plain("contacts", Nobody, <<Query>>), Plain("requests", Nobody, <<Query>>),
           Plain("groups", Nobody, <<Query>>)>>
    [] call.for = "create" -> AfterCreate(call.x, call.members)
    [] OTHER -> <<>>

\* groups:getAll rejects, so Promise.all does: none of the lists is taken over
PhaseAfter(call) ==
  CASE call.for = "migrate" /\ call.ok -> "loading"
    [] call.for = "groups" -> "loaded"
    [] OTHER -> phase

\* handleCreateGroup once the group is saved; all other handlers leave the window as it is:
\* either they ignore the answer or there is none to show
Answer ==
  /\ ipc # <<>>
  /\ Head(ipc).for \notin {"text", "request"}
  /\ LET call == Head(ipc) IN
       /\ phase' = PhaseAfter(call)
       /\ Invoke(IF call.ok THEN Continued(call) ELSE <<>>)
       /\ ui' = IF call.for = "saved" /\ call.ok
                THEN [ui EXCEPT !.groups = @ \cup {[id |-> call.x, members |-> call.members]},
                                !.conversation = call.x]
                ELSE ui
  /\ ipc' = Tail(ipc)
  /\ UNCHANGED <<up, db, used, failed>>

-----------------------------------------------------------------------------
(* Messages from other users *)

\* the node of this user gets a message and the daemon notifies the window
Notify ==
  /\ up
  /\ used.arrivals < MaxArrivals
  /\ \/ \E m \in Texts \ (Mine \cup used.texts) :
          /\ Peer[m] \in Groups =>
               \E own \in Mine \cap used.texts : Peer[own] = Peer[m]  \* the group is known
          /\ used' = [used EXCEPT !.texts = @ \cup {m}, !.arrivals = @ + 1]
          /\ ipc' = Append(ipc, Plain("text", m, <<>>))
     \/ \E p \in People :
          /\ used' = [used EXCEPT !.arrivals = @ + 1]
          /\ ipc' = Append(ipc, Plain("request", p, <<>>))
  /\ UNCHANGED <<phase, up, db, stdin, ui, failed>>

\* the list that the handler should answer with never comes
OnFriendRequest(p) ==
  /\ Invoke(<<Plain("friendRequest", p, FriendRequestsAdd(p))>>)
  /\ UNCHANGED ui

\* shown and stored; a new correspondent becomes a contact
OnText(m) ==
  LET p == Peer[m]
      stranger == {p} \cap (People \ ui.contacts)
  IN /\ Invoke(<<Plain("insert", m, MessagesInsert(m))>>
                 \o IF stranger = {} THEN <<>> ELSE <<Plain("add", p, ContactsAdd(p))>>)
     /\ ui' = [ui EXCEPT !.messages = @ \cup {m}, !.contacts = @ \cup stranger]

OnMessage ==
  /\ ipc # <<>>
  /\ \/ Head(ipc).for = "text" /\ OnText(Head(ipc).x)
     \/ Head(ipc).for = "request" /\ OnFriendRequest(Head(ipc).x)
  /\ ipc' = Tail(ipc)
  /\ UNCHANGED <<phase, up, db, used, failed>>

-----------------------------------------------------------------------------
(* The user *)

\* the window opens: the effect asks for the daemon
Open ==
  /\ phase = "closed"
  /\ phase' = "starting"
  /\ Invoke(<<Plain("start", Nobody, <<Stmt("start", Nobody)>>)>>)
  /\ UNCHANGED <<up, db, ipc, ui, used, failed>>

\* window-all-closed: the daemon is killed with what it has not done
Close ==
  /\ phase # "closed"
  /\ used.restarts < MaxRestarts
  /\ used' = [used EXCEPT !.restarts = @ + 1]
  /\ phase' = "closed" /\ up' = FALSE
  /\ stdin' = <<>> /\ ipc' = <<>>
  /\ ui' = EmptyWindow /\ failed' = {}
  /\ UNCHANGED db

\* handleSendMessage: shown and stored whether or not it can be sent
SendMessage ==
  /\ \E m \in Mine \ used.texts :
       /\ Peer[m] = ui.conversation
       /\ used' = [used EXCEPT !.texts = @ \cup {m}]
       /\ ui' = [ui EXCEPT !.messages = @ \cup {m}]
       /\ Invoke(<<Plain("insert", m, MessagesInsert(m))>>)
  /\ UNCHANGED <<phase, up, db, ipc, failed>>

\* handleConversationSelect: the answer has no length, so no stored message is taken over
Select ==
  /\ \A i \in DOMAIN (stdin \o ipc) : (stdin \o ipc)[i].for # "select"  \* bound: one at a time
  /\ \E c \in ui.contacts \cup {g.id : g \in ui.groups} :
       /\ c # ui.conversation
       /\ ui' = [ui EXCEPT !.conversation = c]
       /\ Invoke(<<Plain("select", c, <<Query>>)>>)
  /\ UNCHANGED <<phase, up, db, ipc, used, failed>>

\* handleCreateGroup: the network first, then the list of groups
CreateGroup ==
  /\ \E g \in Groups \ used.groups, ms \in (SUBSET ui.contacts) \ {{}} :
       /\ used' = [used EXCEPT !.groups = @ \cup {g}]
       /\ Invoke(<<Call("create", g, ms, <<Stmt("network", Nobody)>>)>>)
  /\ UNCHANGED <<phase, up, db, ipc, ui, failed>>

-----------------------------------------------------------------------------

Daemon == Execute \/ Fail
Window == Answer \/ OnMessage

Next ==
  \/ Daemon \/ Window \/ Notify \/ Open \/ Close
  \/ SendMessage \/ Select \/ CreateGroup

Spec == Init /\ [][Next]_vars

\* the daemon reads its input and the window handles its events
FairSpec == Spec /\ WF_vars(Daemon) /\ WF_vars(Window)

-----------------------------------------------------------------------------
(* Properties *)

\* statements of a call about x that the daemon has still to read
UnderWay(for, x) == \E i \in DOMAIN stdin : stdin[i].for = for /\ stdin[i].x = x

\* What the window shows is stored.  A message or a new contact is on the screen before its
\* statement has run (App.tsx:141-210, 227-238): from then on it is in the database, or its
\* statement is still to be run, or has failed, which the window ignores.  What is done with
\* answers that cannot be read must not keep a statement from being sent.
ShownIsStored ==
  /\ \A m \in ui.messages : m \in db.messages \cup failed \/ UnderWay("insert", m)
  /\ \A p \in ui.contacts : p \in db.contacts \cup failed \/ UnderWay("add", p)

MembersOf(g) == {q[2] : q \in {r \in db.members : r[1] = g}}

\* A group on the screen is stored with exactly its members: groups:save (main.ts:600-622)
\* removes the members and inserts them one by one, other statements run in between, any of
\* them may fail and the daemon may be killed; the group is shown only after the last one.
GroupsComplete ==
  \A g \in ui.groups : g.id \in db.groups /\ MembersOf(g.id) = g.members

\* A group whose creation has begun appears (App.tsx:332-352), unless one of its statements
\* fails or the window is closed: its calls wait behind those of everybody else, not forever.
CreationEnds ==
  \A g \in Groups :
    (UnderWay("create", g) ~> (\E h \in ui.groups : h.id = g) \/ g \in failed \/ phase = "closed")

=============================================================================
