------------------------------ MODULE GroupShare ------------------------------
(***************************************************************************)
(* Sharing of records between the members of a group                       *)
(* (ts/linkself/src/groupshare.ts, core/internal/groupshare), one channel. *)
(*                                                                         *)
(* A member's put or delete is stored and sent to the members whose        *)
(* subscription covers its topic, as far as the sender knows it; a member  *)
(* whose subscription is unknown gets everything.  Subscriptions are       *)
(* announced when they change and again after every authentication.        *)
(* A receiver applies a record that is newer than the one it has.          *)
(* Every member stamps its records with its own clock.                     *)
(*                                                                         *)
(* A fiber is one call of the layer in progress; an action is one storage  *)
(* or send call with the code up to the next await.                        *)
(***************************************************************************)
EXTENDS Naturals, FiniteSets

CONSTANTS
  Nodes,      \* the members of the group; each runs one node
  Fibers,     \* layer calls that can be in progress on one node
  Ids,        \* record ids
  Topics,     \* topics of records
  Subs,       \* the subscriptions (sets of topics) the application declares
  Unknown,    \* no subscription recorded
  Writers,    \* members with write access to the channel
  Readers,    \* members whose records the others accept (read access)
  Calls,      \* the layer methods the application calls
  Retention,  \* Channel.retentionMs; 0: permanent
  TwoLayer,   \* members whose account has another DID than the device
  Ahead,      \* members whose clock is one unit ahead
  Lossy,      \* may a send to a member be lost?
  MaxTime,    \* bound: the clock stops here
  MaxCalls    \* bound: application calls in a behaviour

ASSUME GroupShareAssumption ==
  /\ Subs \subseteq SUBSET Topics
  /\ Unknown \notin Subs
  /\ Writers \subseteq Nodes
  /\ Readers \subseteq Nodes
  /\ Calls \subseteq {"put", "delete", "subscribe", "dump", "restore", "purge", "restart"}
  /\ Retention \in Nat
  /\ Lossy \in BOOLEAN
  /\ MaxTime \in Nat
  /\ MaxCalls \in Nat

VARIABLES
  now,         \* the clock
  shared,      \* shared[n]: the records node n stores, at most one per id
  localSubs,   \* localSubs[n]: the subscription of node n, or Unknown
  remoteSubs,  \* remoteSubs[n][p]: what node n knows of p's subscription
  net,         \* records on their way to a node
  anns,        \* subscription announcements on their way to a node
  tasks,       \* tasks[n][f]: the layer call in progress in fiber f of node n
  backup,      \* the records of the last dump
  calls,       \* application calls and restarts so far
  issued,      \* history: records that were put or deleted
  declared,    \* history: declared[n]: the subscriptions node n has declared
  leftOut,     \* history: records that were not sent to a member for its subscription
  lost,        \* history: records that did not reach a member, or were cut off before it wrote them
  undone       \* history: puts that a member had and then deleted, or wrote something older over

vars == <<now, shared, localSubs, remoteSubs, net, anns, tasks, backup, calls, issued,
          declared, leftOut, lost, undone>>

-----------------------------------------------------------------------------
(* Values *)

SharedRecord == [id : Ids, topic : Topics, did : Nodes, timestamp : Nat, deleted : BOOLEAN]

Subscription == Subs \cup {Unknown}

Idle == [pc |-> "idle"]

Task ==
  {Idle}
    \cup [pc : {"announce"}, topics : Subs]
    \cup [pc : {"stamp"}, id : Ids, topic : Topics]
    \cup [pc : {"broadcast", "apply"}, rec : SharedRecord]
    \cup [pc : {"send"}, rec : SharedRecord, to : SUBSET Nodes]
    \cup [pc : {"restore"}, todo : SUBSET SharedRecord]
    \cup [pc : {"restorePut"}, rec : SharedRecord, todo : SUBSET SharedRecord]

Resume(n, f, t) == tasks' = [tasks EXCEPT ![n] = [@ EXCEPT ![f] = t]]

At(n, f, pc) == tasks[n][f].pc = pc

\* the wall clock of node n
Clock(n) == IF n \in Ahead THEN now + 1 ELSE now

\* what no step of the storage changes
Rest == <<now, localSubs, remoteSubs, net, anns, backup, calls>>

-----------------------------------------------------------------------------
(* Storage and subscription store *)

WithId(n, i) == {r \in shared[n] : r.id = i}

\* mutant of Newer: a record that exists is never replaced
Newer_Absent(n, rec) == WithId(n, rec.id) = {}

\* storage.getTimestamp, 0 if nothing is stored, decides
Newer(n, rec) == \A r \in WithId(n, rec.id) : rec.timestamp > r.timestamp

\* the puts of record i that node n has, or has newer ones of
Held(n, i) ==
  {x \in issued : ~x.deleted /\ x.id = i /\ \E r \in WithId(n, i) : x.timestamp <= r.timestamp}

\* mutant of PutShared: the record it replaces is kept
PutShared_Insert(n, rec) ==
  /\ shared' = [shared EXCEPT ![n] = @ \cup {rec}]
  /\ undone' = undone \cup ({x \in Held(n, rec.id) : rec.timestamp < x.timestamp} \X {n})

\* storage.putShared
PutShared(n, rec) ==
  /\ shared' = [shared EXCEPT ![n] = (@ \ WithId(n, rec.id)) \cup {rec}]
  /\ undone' = undone \cup ({x \in Held(n, rec.id) : rec.timestamp < x.timestamp} \X {n})

\* storage.deleteShared; nothing remembers the deletion
DeleteShared(n, i) ==
  /\ shared' = [shared EXCEPT ![n] = @ \ WithId(n, i)]
  /\ undone' = undone \cup (Held(n, i) \X {n})

\* layer.isExpired, by the clock of node n
IsExpired(n, rec) == Retention # 0 /\ Clock(n) >= rec.timestamp + Retention

\* the access policy and the role permissions let node n write
CanWrite(n) == n \in Writers

\* they let others accept what member d wrote; the policy's read right is asked
CanRead(d) == d \in Readers

\* mutant of Included: an unknown subscription excludes the member
Included_KnownOnly(sub, topic) == sub # Unknown /\ topic \in sub

\* broadcast sends to a member with this recorded subscription (topicMatches)
Included(sub, topic) == sub = Unknown \/ topic \in sub

-----------------------------------------------------------------------------

Init ==
  /\ now = 1
  /\ shared = [n \in Nodes |-> {}]
  /\ localSubs = [n \in Nodes |-> Unknown]
  /\ remoteSubs = [n \in Nodes |-> [p \in Nodes |-> Unknown]]
  /\ net = {}
  /\ anns = {}
  /\ tasks = [n \in Nodes |-> [f \in Fibers |-> Idle]]
  /\ backup = {}
  /\ calls = 0
  /\ issued = {}
  /\ declared = [n \in Nodes |-> {}]
  /\ leftOut = {} /\ lost = {} /\ undone = {}

\* the application starts a layer call
Call(n, f, method) ==
  /\ method \in Calls
  /\ At(n, f, "idle")
  /\ calls < MaxCalls
  /\ calls' = calls + 1

\* the members a send reaches, of those it is meant for
Reached(to) == {s \in SUBSET to : Lossy \/ s = to}

Others(n) == Nodes \ {n}

-----------------------------------------------------------------------------
(* Subscriptions *)

\* subscribe: localSubs.setSubscription; the announcement follows
Subscribe(n, f, topics) ==
  /\ Call(n, f, "subscribe")
  /\ localSubs' = [localSubs EXCEPT ![n] = topics]
  /\ declared' = [declared EXCEPT ![n] = @ \cup {topics}]
  /\ Resume(n, f, [pc |-> "announce", topics |-> topics])
  /\ UNCHANGED <<now, shared, remoteSubs, net, anns, backup, issued, leftOut, lost, undone>>

\* announceAllSubscriptions, started by an authentication: the stored
\* subscription is read
AnnounceAllSubscriptions(n, f) ==
  /\ At(n, f, "idle")
  /\ localSubs[n] # Unknown
  /\ Resume(n, f, [pc |-> "announce", topics |-> localSubs[n]])
  /\ UNCHANGED <<Rest, shared, issued, declared, leftOut, lost, undone>>

\* broadcastSubAnnouncement: sendSubAnnounce to the other members
BroadcastSubAnnouncement(n, f) ==
  /\ At(n, f, "announce")
  /\ \E reached \in Reached(Others(n)) :
       anns' = anns \cup
         {[to |-> p, from |-> n, topics |-> tasks[n][f].topics] : p \in reached}
  /\ Resume(n, f, Idle)
  /\ UNCHANGED <<now, shared, localSubs, remoteSubs, net, backup, calls, issued,
                 declared, leftOut, lost, undone>>

\* mutant of SubAnnounced: only the first announcement is recorded
SubAnnounced_First(n, a) ==
  remoteSubs' = [remoteSubs EXCEPT ![n] =
                   [@ EXCEPT ![a.from] = IF @ = Unknown THEN a.topics ELSE @]]

\* remoteSubs.setSubscription
SubAnnounced(n, a) ==
  remoteSubs' = [remoteSubs EXCEPT ![n] = [@ EXCEPT ![a.from] = a.topics]]

\* handleSubAnnouncement.  An announcement names the sender's account, and it is
\* refused unless that is the DID of the device it came from.
HandleSubAnnouncement(n, a) ==
  /\ a.to = n
  /\ anns' = anns \ {a}
  /\ IF a.from \in TwoLayer THEN UNCHANGED remoteSubs ELSE SubAnnounced(n, a)
  /\ UNCHANGED <<now, shared, localSubs, net, tasks, backup, calls, issued,
                 declared, leftOut, lost, undone>>

-----------------------------------------------------------------------------
(* Put, delete and broadcast *)

\* the history of a record that a call has just stamped
Stamped(rec) == issued' = issued \cup {rec}

\* put: the checks, the stamp and putShared
Put(n, f, i, topic) ==
  /\ Call(n, f, "put")
  /\ CanWrite(n)
  /\ LET rec == [id |-> i, topic |-> topic, did |-> n, timestamp |-> Clock(n),
                 deleted |-> FALSE]
     IN /\ PutShared(n, rec)
        /\ Stamped(rec)
        /\ Resume(n, f, [pc |-> "broadcast", rec |-> rec])
  /\ UNCHANGED <<now, localSubs, remoteSubs, net, anns, backup, declared, leftOut, lost>>

\* delete: deleteShared; unlike put it asks for no permission
Delete(n, f, i, topic) ==
  /\ Call(n, f, "delete")
  /\ DeleteShared(n, i)
  /\ Resume(n, f, [pc |-> "stamp", id |-> i, topic |-> topic])
  /\ UNCHANGED <<now, localSubs, remoteSubs, net, anns, backup, issued, declared, leftOut, lost>>

\* delete: the deletion is stamped only when deleteShared has returned
StampDeletion(n, f) ==
  /\ At(n, f, "stamp")
  /\ LET t == tasks[n][f]
         rec == [id |-> t.id, topic |-> t.topic, did |-> n, timestamp |-> Clock(n),
                 deleted |-> TRUE]
     IN Stamped(rec) /\ Resume(n, f, [pc |-> "broadcast", rec |-> rec])
  /\ UNCHANGED <<Rest, shared, declared, leftOut, lost, undone>>

\* broadcast: the members are filtered by what is known of their subscriptions.
\* The lookups of several members are one step: each concerns one receiver.
Broadcast(n, f) ==
  /\ At(n, f, "broadcast")
  /\ LET rec == tasks[n][f].rec
         members == {p \in Others(n) : Included(remoteSubs[n][p], rec.topic)}
     IN /\ Resume(n, f, [pc |-> "send", rec |-> rec, to |-> members])
        /\ leftOut' = leftOut \cup ({rec} \X (Others(n) \ members))
  /\ UNCHANGED <<Rest, shared, issued, declared, lost, undone>>

\* broadcast: sendGroup
SendGroup(n, f) ==
  /\ At(n, f, "send")
  /\ \E reached \in Reached(tasks[n][f].to) :
       /\ net' = net \cup {[to |-> p, rec |-> tasks[n][f].rec] : p \in reached}
       /\ lost' = lost \cup ({tasks[n][f].rec} \X (tasks[n][f].to \ reached))
  /\ Resume(n, f, Idle)
  /\ UNCHANGED <<now, shared, localSubs, remoteSubs, anns, backup, calls, issued,
                 declared, leftOut, undone>>

\* handleIncoming: the checks up to the stored timestamp
HandleIncoming(n, f, m) ==
  /\ At(n, f, "idle")
  /\ m.to = n
  /\ net' = net \ {m}
  /\ IF CanRead(m.rec.did) /\ ~IsExpired(n, m.rec) /\ Newer(n, m.rec)
     THEN Resume(n, f, [pc |-> "apply", rec |-> m.rec])
     ELSE UNCHANGED tasks
  /\ UNCHANGED <<now, shared, localSubs, remoteSubs, anns, backup, calls, issued,
                 declared, leftOut, lost, undone>>

\* handleIncoming: deleteShared or putShared
ApplyIncoming(n, f) ==
  /\ At(n, f, "apply")
  /\ LET rec == tasks[n][f].rec
     IN IF rec.deleted THEN DeleteShared(n, rec.id) ELSE PutShared(n, rec)
  /\ Resume(n, f, Idle)
  /\ UNCHANGED <<Rest, issued, declared, leftOut, lost>>

-----------------------------------------------------------------------------
(* Dump, restore and purge *)

Dump(n, f) ==
  /\ Call(n, f, "dump")
  /\ backup' = {r \in shared[n] : ~IsExpired(n, r)}
  /\ UNCHANGED <<now, shared, localSubs, remoteSubs, net, anns, tasks, issued,
                 declared, leftOut, lost, undone>>

\* restore of the last dump; the records are not checked for expiry
Restore(n, f) ==
  /\ Call(n, f, "restore")
  /\ backup # {}
  /\ Resume(n, f, [pc |-> "restore", todo |-> backup])
  /\ UNCHANGED <<now, shared, localSubs, remoteSubs, net, anns, backup, issued,
                 declared, leftOut, lost, undone>>

\* the rest of a restore, if any
RestoreTask(todo) == IF todo = {} THEN Idle ELSE [pc |-> "restore", todo |-> todo]

\* restore: getTimestamp of the next record
RestoreNext(n, f) ==
  /\ At(n, f, "restore")
  /\ \E rec \in tasks[n][f].todo :
       LET todo == tasks[n][f].todo \ {rec}
       IN Resume(n, f, IF Newer(n, rec) THEN [pc |-> "restorePut", rec |-> rec, todo |-> todo]
                       ELSE RestoreTask(todo))
  /\ UNCHANGED <<Rest, shared, issued, declared, leftOut, lost, undone>>

\* restore: putShared
RestorePut(n, f) ==
  /\ At(n, f, "restorePut")
  /\ PutShared(n, tasks[n][f].rec)
  /\ Resume(n, f, RestoreTask(tasks[n][f].todo))
  /\ UNCHANGED <<Rest, issued, declared, leftOut, lost>>

\* mutant of Purged: the timestamp is not compared
Purged_All(n) == shared[n]

\* deleteExpired(channel, now - retention): strictly older, so a record that
\* expires at this very moment stays
Purged(n) == {r \in shared[n] : r.timestamp + Retention < Clock(n)}

\* purge; a channel without retention is left alone
Purge(n, f) ==
  /\ Call(n, f, "purge")
  /\ Retention # 0
  /\ shared' = [shared EXCEPT ![n] = @ \ Purged(n)]
  /\ UNCHANGED <<now, localSubs, remoteSubs, net, anns, tasks, backup, issued,
                 declared, leftOut, lost, undone>>

-----------------------------------------------------------------------------
(* Restarts *)

\* the records, with the members they do not get to, when the call in task t is cut off
CutOff(n, t) ==
  CASE t.pc = "broadcast" -> {t.rec} \X Others(n)
    [] t.pc = "send" -> {t.rec} \X t.to
    [] t.pc = "apply" -> {<<t.rec, n>>}
    [] OTHER -> {}

\* the process dies and starts again: stored records and the own subscription are
\* there, the calls in progress are gone, and with them what was known of the others'
\* subscriptions unless their store is persistent, too
Restart(n) ==
  /\ "restart" \in Calls
  /\ calls < MaxCalls
  /\ calls' = calls + 1
  /\ tasks' = [tasks EXCEPT ![n] = [f \in Fibers |-> Idle]]
  /\ lost' = lost \cup UNION {CutOff(n, tasks[n][f]) : f \in Fibers}
  /\ \/ UNCHANGED remoteSubs
     \/ remoteSubs' = [remoteSubs EXCEPT ![n] = [p \in Nodes |-> Unknown]]
  /\ UNCHANGED <<now, shared, localSubs, net, anns, backup, issued, declared, leftOut, undone>>

-----------------------------------------------------------------------------

Tick ==
  /\ now < MaxTime
  /\ now' = now + 1
  /\ UNCHANGED <<shared, localSubs, remoteSubs, net, anns, tasks, backup, calls, issued,
                 declared, leftOut, lost, undone>>

\* the steps that finish what was started
Progress(n, f) ==
  \/ BroadcastSubAnnouncement(n, f)
  \/ StampDeletion(n, f)
  \/ Broadcast(n, f)
  \/ SendGroup(n, f)
  \/ ApplyIncoming(n, f)
  \/ RestoreNext(n, f)
  \/ RestorePut(n, f)

Next ==
  \/ Tick
  \/ \E n \in Nodes, a \in anns : HandleSubAnnouncement(n, a)
  \/ \E n \in Nodes : Restart(n)
  \/ \E n \in Nodes, f \in Fibers :
       \/ \E s \in Subs : Subscribe(n, f, s)
       \/ AnnounceAllSubscriptions(n, f)
       \/ \E i \in Ids, t \in Topics : Put(n, f, i, t) \/ Delete(n, f, i, t)
       \/ \E m \in net : HandleIncoming(n, f, m)
       \/ Dump(n, f)
       \/ Restore(n, f)
       \/ Purge(n, f)
       \/ Progress(n, f)

Spec == Init /\ [][Next]_vars

\* an announcement that reaches everybody
Announce(n, f) == BroadcastSubAnnouncement(n, f) /\ \A p \in Others(n) : \E a \in anns' :
                    a = [to |-> p, from |-> n, topics |-> tasks[n][f].topics]

\* The event loop runs every started call to its end, what arrived is handled,
\* and members keep authenticating each other, so that subscriptions are
\* announced again and again, and not always in vain: the members that have just
\* authenticated are connected.  Nothing forces the application to make a call.
Fairness ==
  /\ \A n \in Nodes, f \in Fibers :
       /\ WF_vars(Progress(n, f))
       /\ WF_vars(\E m \in net : HandleIncoming(n, f, m))
       /\ WF_vars(AnnounceAllSubscriptions(n, f))
       /\ SF_vars(Announce(n, f))
  /\ \A n, p \in Nodes :
       WF_vars(\E a \in anns : a.from = p /\ HandleSubAnnouncement(n, a))

FairSpec == Spec /\ Fairness

-----------------------------------------------------------------------------
(* Properties *)

\* Every variable has its type, and a node stores one record per id.
TypeOK ==
  /\ now \in Nat
  /\ shared \in [Nodes -> SUBSET SharedRecord]
  /\ \A n \in Nodes : \A r, x \in shared[n] : r.id = x.id => r = x
  /\ localSubs \in [Nodes -> Subscription]
  /\ remoteSubs \in [Nodes -> [Nodes -> Subscription]]
  /\ net \subseteq [to : Nodes, rec : SharedRecord]
  /\ anns \subseteq [to : Nodes, from : Nodes, topics : Subs]
  /\ tasks \in [Nodes -> [Fibers -> Task]]
  /\ backup \subseteq SharedRecord
  /\ calls \in Nat
  /\ issued \subseteq SharedRecord
  /\ declared \in [Nodes -> SUBSET Subs]
  /\ leftOut \subseteq SharedRecord \X Nodes
  /\ lost \subseteq SharedRecord \X Nodes
  /\ undone \subseteq SharedRecord \X Nodes

\* record x may still be stored by node p
Coming(x, p) ==
  \/ [to |-> p, rec |-> x] \in net
  \/ \E f \in Fibers : At(p, f, "apply") /\ tasks[p][f].rec = x
  \/ \E n \in Nodes, f \in Fibers :
       /\ \/ At(n, f, "broadcast") /\ n # p
          \/ At(n, f, "send") /\ p \in tasks[n][f].to
       /\ tasks[n][f].rec = x

\* A put is not forgotten on its way to the other members, whatever calls overlap.  Each of
\* them has it or a newer one, or it is still coming; or it has expired there or its writer
\* may not be read; or it was left out for its subscription; or the send was lost or cut off
\* by a restart; or the member had it and deleted it or wrote something older over it.
PutAccounted ==
  \A x \in issued, p \in Nodes :
    ~x.deleted =>
      \/ \E r \in WithId(p, x.id) : r.timestamp >= x.timestamp
      \/ Coming(x, p)
      \/ IsExpired(p, x) \/ ~CanRead(x.did)
      \/ <<x, p>> \in leftOut
      \/ <<x, p>> \in lost
      \/ <<x, p>> \in undone

\* "Safe default: If a subscription is unregistered, send the data": a member is left out of
\* a broadcast only for a subscription that it has declared itself and that leaves out the
\* topic, whatever announcements were lost, overtaken or forgotten in a restart.
LeftOutAsDeclared ==
  \A l \in leftOut : \E s \in declared[l[2]] : l[1].topic \notin s

\* A record disappears from a node only because somebody deleted it, because it has expired,
\* because a newer one came, or because the node itself put another one: neither purge nor
\* restore loses what get would return.
KeptUntilExpired ==
  [][\A n \in Nodes : \A r \in shared[n] :
       r \notin shared'[n] =>
         \/ IsExpired(n, r)
         \/ \E x \in shared'[n] : x.id = r.id /\ x.timestamp >= r.timestamp
         \/ \E f \in Fibers, t \in Topics : Put(n, f, r.id, t) \/ Delete(n, f, r.id, t)
         \/ \E f \in Fibers : ApplyIncoming(n, f) /\ tasks[n][f].rec.deleted]_vars

\* When members keep authenticating, everybody ends up knowing the subscription of every
\* member that announces it under the DID of its device, although announcements are lost and
\* overtake each other and restarts forget what was known ("Called after peer reconnection
\* to restore RemoteSubs state on the peer side").  A TwoLayer member's is never known.
SubsConverge ==
  <>[](\A n \in Nodes : \A p \in Others(n) \ TwoLayer : remoteSubs[n][p] = localSubs[p])

=============================================================================
