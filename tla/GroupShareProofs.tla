--------------------------- MODULE GroupShareProofs ---------------------------
(***************************************************************************)
(* Proofs about GroupShare, for any members, records, topics and           *)
(* subscriptions, any retention, any clocks and any number of calls,       *)
(* whatever calls overlap, whatever is lost and whenever members restart.  *)
(***************************************************************************)
EXTENDS GroupShare, TLAPS

-----------------------------------------------------------------------------
(* Facts about calls in progress *)

\* A call at a given point has the fields of that stage.
LEMMA TaskFields ==
  ASSUME NEW t \in Task
  PROVE  /\ t.pc = "announce" => t.topics \in Subs
         /\ t.pc = "stamp" => t.id \in Ids /\ t.topic \in Topics
         /\ t.pc \in {"broadcast", "apply", "send", "restorePut"} => t.rec \in SharedRecord
         /\ t.pc = "send" => t.to \subseteq Nodes
         /\ t.pc \in {"restore", "restorePut"} => t.todo \subseteq SharedRecord
  BY DEF Task, Idle

\* A step that resumes one fiber gives it its new call and leaves the others alone.
LEMMA Resumed ==
  ASSUME TypeOK, NEW n \in Nodes, NEW f \in Fibers, NEW t, Resume(n, f, t)
  PROVE  /\ tasks'[n][f] = t
         /\ \A x \in Nodes, g \in Fibers : x # n \/ g # f => tasks'[x][g] = tasks[x][g]
  BY DEF TypeOK, Resume

LEMMA ResumeType ==
  ASSUME TypeOK, NEW n \in Nodes, NEW f \in Fibers, NEW t \in Task, Resume(n, f, t)
  PROVE  tasks' \in [Nodes -> [Fibers -> Task]]
  BY DEF TypeOK, Resume

\* What remains of a restore is a call.
LEMMA RestoreTaskType ==
  ASSUME NEW todo \in SUBSET SharedRecord
  PROVE  RestoreTask(todo) \in Task
  BY DEF RestoreTask, Task

-----------------------------------------------------------------------------
(* Storage *)

OnePerId(recs) == \A r, x \in recs : r.id = x.id => r = x

\* putShared replaces the record with that id and no other.
LEMMA PutKeeps ==
  ASSUME TypeOK, NEW n \in Nodes, NEW rec \in SharedRecord, PutShared(n, rec)
  PROVE  /\ shared' \in [Nodes -> SUBSET SharedRecord]
         /\ undone' \subseteq SharedRecord \X Nodes
         /\ \A p \in Nodes : OnePerId(shared'[p])
         /\ shared'[n] = {r \in shared[n] : r.id # rec.id} \cup {rec}
         /\ \A p \in Nodes \ {n} : shared'[p] = shared[p]
<1>1. /\ shared'[n] = (shared[n] \ WithId(n, rec.id)) \cup {rec}
      /\ \A p \in Nodes \ {n} : shared'[p] = shared[p]
      /\ shared' \in [Nodes -> SUBSET SharedRecord]
  <2>1. (shared[n] \ WithId(n, rec.id)) \cup {rec} \subseteq SharedRecord
    BY DEF TypeOK
  <2> QED
    BY <2>1 DEF TypeOK, PutShared
<1>2. shared'[n] = {r \in shared[n] : r.id # rec.id} \cup {rec}
  BY <1>1 DEF WithId
<1>3. \A p \in Nodes : OnePerId(shared'[p])
  BY <1>1, <1>2 DEF TypeOK, OnePerId
<1>4. undone' \subseteq SharedRecord \X Nodes
  BY DEF TypeOK, PutShared, Held
<1> QED
  BY <1>1, <1>2, <1>3, <1>4

\* Removing records from one node, as deleteShared and deleteExpired do.
LEMMA RemoveKeeps ==
  ASSUME TypeOK, NEW n \in Nodes, NEW out, shared' = [shared EXCEPT ![n] = @ \ out]
  PROVE  /\ shared' \in [Nodes -> SUBSET SharedRecord]
         /\ \A p \in Nodes : OnePerId(shared'[p])
         /\ shared'[n] = shared[n] \ out
         /\ \A p \in Nodes \ {n} : shared'[p] = shared[p]
<1>1. /\ shared'[n] = shared[n] \ out
      /\ \A p \in Nodes \ {n} : shared'[p] = shared[p]
      /\ shared' \in [Nodes -> SUBSET SharedRecord]
  BY DEF TypeOK
<1>2. \A p \in Nodes : OnePerId(shared'[p])
  BY <1>1 DEF TypeOK, OnePerId
<1> QED
  BY <1>1, <1>2

LEMMA DeleteKeeps ==
  ASSUME TypeOK, NEW n \in Nodes, NEW i, DeleteShared(n, i)
  PROVE  /\ shared' \in [Nodes -> SUBSET SharedRecord]
         /\ undone' \subseteq SharedRecord \X Nodes
         /\ \A p \in Nodes : OnePerId(shared'[p])
         /\ shared'[n] = {r \in shared[n] : r.id # i}
         /\ \A p \in Nodes \ {n} : shared'[p] = shared[p]
<1>1. undone' \subseteq SharedRecord \X Nodes
  BY DEF TypeOK, DeleteShared, Held
<1>2. /\ shared' \in [Nodes -> SUBSET SharedRecord]
      /\ \A p \in Nodes : OnePerId(shared'[p])
      /\ shared'[n] = shared[n] \ WithId(n, i)
      /\ \A p \in Nodes \ {n} : shared'[p] = shared[p]
  BY RemoveKeeps DEF DeleteShared
<1> QED
  BY <1>1, <1>2 DEF WithId

-----------------------------------------------------------------------------
(* Type correctness *)

LEMMA TypeInit == Init => TypeOK
  BY DEF Init, TypeOK, Subscription, Task

LEMMA TypeStep ==
  ASSUME TypeOK, [Next]_vars
  PROVE  TypeOK'
<1> USE GroupShareAssumption
<1>1. CASE UNCHANGED vars
  BY <1>1 DEF vars, TypeOK
<1>2. CASE Tick
  BY <1>2 DEF Tick, TypeOK
<1>3. ASSUME NEW n \in Nodes, NEW a \in anns, HandleSubAnnouncement(n, a)
      PROVE  TypeOK'
  <2>1. a.from \in Nodes /\ a.topics \in Subscription
    BY DEF TypeOK, Subscription
  <2>2. remoteSubs' \in [Nodes -> [Nodes -> Subscription]]
    <3>1. CASE SubAnnounced(n, a)
      BY <2>1, <3>1 DEF SubAnnounced, TypeOK
    <3>2. CASE UNCHANGED remoteSubs
      BY <3>2 DEF TypeOK
    <3> QED
      BY <1>3, <3>1, <3>2 DEF HandleSubAnnouncement
  <2> QED
    BY <1>3, <2>2 DEF HandleSubAnnouncement, TypeOK
<1>4. ASSUME NEW n \in Nodes, NEW f \in Fibers, NEW s \in Subs, Subscribe(n, f, s)
      PROVE  TypeOK'
  <2>1. [pc |-> "announce", topics |-> s] \in Task
    BY DEF Task
  <2>2. tasks' \in [Nodes -> [Fibers -> Task]]
    BY <1>4, <2>1, ResumeType DEF Subscribe
  <2>3. localSubs' \in [Nodes -> Subscription] /\ declared' \in [Nodes -> SUBSET Subs]
    BY <1>4 DEF Subscribe, TypeOK, Subscription
  <2> QED
    BY <1>4, <2>2, <2>3 DEF Subscribe, Call, TypeOK
<1>5. ASSUME NEW n \in Nodes, NEW f \in Fibers, AnnounceAllSubscriptions(n, f)
      PROVE  TypeOK'
  <2>1. [pc |-> "announce", topics |-> localSubs[n]] \in Task
    BY <1>5 DEF AnnounceAllSubscriptions, Task, TypeOK, Subscription
  <2>2. tasks' \in [Nodes -> [Fibers -> Task]]
    BY <1>5, <2>1, ResumeType DEF AnnounceAllSubscriptions
  <2> QED
    BY <1>5, <2>2 DEF AnnounceAllSubscriptions, Rest, TypeOK
<1>6. ASSUME NEW n \in Nodes, NEW f \in Fibers, NEW i \in Ids, NEW tp \in Topics,
             Put(n, f, i, tp)
      PROVE  TypeOK'
  <2> DEFINE rec == [id |-> i, topic |-> tp, did |-> n, timestamp |-> Clock(n), deleted |-> FALSE]
  <2>1. rec \in SharedRecord
    BY DEF SharedRecord, TypeOK, Clock
  <2>2. [pc |-> "broadcast", rec |-> rec] \in Task
    BY <2>1 DEF Task
  <2> HIDE DEF rec
  <2>3. tasks' \in [Nodes -> [Fibers -> Task]]
    BY <1>6, <2>2, ResumeType DEF Put, rec
  <2>4. /\ shared' \in [Nodes -> SUBSET SharedRecord]
        /\ undone' \subseteq SharedRecord \X Nodes
        /\ \A p \in Nodes : OnePerId(shared'[p])
    BY <1>6, <2>1, PutKeeps DEF Put, rec
  <2>5. issued' = issued \cup {rec}
    BY <1>6 DEF Put, Stamped, rec
  <2> QED
    BY <1>6, <2>1, <2>3, <2>4, <2>5 DEF Put, Call, OnePerId, TypeOK
<1>7. ASSUME NEW n \in Nodes, NEW f \in Fibers, NEW i \in Ids, NEW tp \in Topics,
             Delete(n, f, i, tp)
      PROVE  TypeOK'
  <2>1. [pc |-> "stamp", id |-> i, topic |-> tp] \in Task
    BY DEF Task
  <2>2. tasks' \in [Nodes -> [Fibers -> Task]]
    BY <1>7, <2>1, ResumeType DEF Delete
  <2>3. /\ shared' \in [Nodes -> SUBSET SharedRecord]
        /\ undone' \subseteq SharedRecord \X Nodes
        /\ \A p \in Nodes : OnePerId(shared'[p])
    BY <1>7, DeleteKeeps DEF Delete
  <2> QED
    BY <1>7, <2>2, <2>3 DEF Delete, Call, OnePerId, TypeOK
<1>8. ASSUME NEW n \in Nodes, NEW f \in Fibers, NEW m \in net, HandleIncoming(n, f, m)
      PROVE  TypeOK'
  <2>1. [pc |-> "apply", rec |-> m.rec] \in Task
    BY DEF Task, TypeOK
  <2>2. tasks' \in [Nodes -> [Fibers -> Task]]
    BY <1>8, <2>1, ResumeType DEF HandleIncoming, TypeOK
  <2> QED
    BY <1>8, <2>2 DEF HandleIncoming, TypeOK
<1>9. ASSUME NEW n \in Nodes, NEW f \in Fibers, Dump(n, f)
      PROVE  TypeOK'
  BY <1>9 DEF Dump, Call, TypeOK
<1>10. ASSUME NEW n \in Nodes, NEW f \in Fibers, Restore(n, f)
       PROVE  TypeOK'
  <2>1. [pc |-> "restore", todo |-> backup] \in Task
    BY DEF Task, TypeOK
  <2>2. tasks' \in [Nodes -> [Fibers -> Task]]
    BY <1>10, <2>1, ResumeType DEF Restore
  <2> QED
    BY <1>10, <2>2 DEF Restore, Call, TypeOK
<1>11. ASSUME NEW n \in Nodes, NEW f \in Fibers, Purge(n, f)
       PROVE  TypeOK'
  <2>1. /\ shared' \in [Nodes -> SUBSET SharedRecord]
        /\ \A p \in Nodes : OnePerId(shared'[p])
    BY <1>11, RemoveKeeps DEF Purge
  <2> QED
    BY <1>11, <2>1 DEF Purge, Call, OnePerId, TypeOK
<1>12. ASSUME NEW n \in Nodes, NEW f \in Fibers, Progress(n, f)
       PROVE  TypeOK'
  <2> DEFINE t == tasks[n][f]
  <2> t \in Task
    BY DEF TypeOK
  <2> HIDE DEF t
  <2> Idle \in Task
    BY DEF Task
  <2>1. CASE BroadcastSubAnnouncement(n, f)
    <3>1. t.topics \in Subs
      BY <2>1, TaskFields DEF BroadcastSubAnnouncement, At, t
    <3>2. tasks' \in [Nodes -> [Fibers -> Task]]
      BY <2>1, ResumeType DEF BroadcastSubAnnouncement
    <3>3. anns' \subseteq [to : Nodes, from : Nodes, topics : Subs]
      BY <2>1, <3>1 DEF BroadcastSubAnnouncement, Reached, Others, TypeOK, t
    <3> QED
      BY <2>1, <3>2, <3>3 DEF BroadcastSubAnnouncement, TypeOK
  <2>2. CASE StampDeletion(n, f)
    <3> DEFINE rec == [id |-> t.id, topic |-> t.topic, did |-> n, timestamp |-> Clock(n),
                       deleted |-> TRUE]
    <3>1. rec \in SharedRecord
      BY <2>2, TaskFields DEF StampDeletion, At, SharedRecord, TypeOK, Clock, t
    <3>2. [pc |-> "broadcast", rec |-> rec] \in Task
      BY <3>1 DEF Task
    <3> HIDE DEF rec
    <3>3. tasks' \in [Nodes -> [Fibers -> Task]]
      BY <2>2, <3>2, ResumeType DEF StampDeletion, rec, t
    <3>4. issued' = issued \cup {rec}
      BY <2>2 DEF StampDeletion, Stamped, rec, t
    <3> QED
      BY <2>2, <3>1, <3>3, <3>4 DEF StampDeletion, Rest, TypeOK
  <2>3. CASE Broadcast(n, f)
    <3> DEFINE to == {p \in Others(n) : Included(remoteSubs[n][p], t.rec.topic)}
    <3>1. t.rec \in SharedRecord /\ to \subseteq Nodes
      BY <2>3, TaskFields DEF Broadcast, At, Others, t
    <3>a. /\ Resume(n, f, [pc |-> "send", rec |-> t.rec, to |-> to])
          /\ leftOut' = leftOut \cup ({t.rec} \X (Others(n) \ to))
      BY <2>3 DEF Broadcast, t
    <3>b. leftOut' \subseteq SharedRecord \X Nodes
      BY <3>1, <3>a DEF TypeOK, Others
    <3> HIDE DEF to
    <3>2. [pc |-> "send", rec |-> t.rec, to |-> to] \in Task
      BY <3>1 DEF Task
    <3>3. tasks' \in [Nodes -> [Fibers -> Task]]
      BY <3>2, <3>a, ResumeType
    <3> QED
      BY <2>3, <3>3, <3>b DEF Broadcast, Rest, TypeOK
  <2>4. CASE SendGroup(n, f)
    <3>1. t.rec \in SharedRecord /\ t.to \subseteq Nodes
      BY <2>4, TaskFields DEF SendGroup, At, t
    <3>2. tasks' \in [Nodes -> [Fibers -> Task]]
      BY <2>4, ResumeType DEF SendGroup
    <3>3. /\ net' \subseteq [to : Nodes, rec : SharedRecord]
          /\ lost' \subseteq SharedRecord \X Nodes
      BY <2>4, <3>1 DEF SendGroup, Reached, TypeOK, t
    <3> QED
      BY <2>4, <3>2, <3>3 DEF SendGroup, TypeOK
  <2>5. CASE ApplyIncoming(n, f)
    <3>1. t.rec \in SharedRecord
      BY <2>5, TaskFields DEF ApplyIncoming, At, t
    <3>2. tasks' \in [Nodes -> [Fibers -> Task]]
      BY <2>5, ResumeType DEF ApplyIncoming
    <3>3. DeleteShared(n, t.rec.id) \/ PutShared(n, t.rec)
      BY <2>5 DEF ApplyIncoming, t
    <3>4. /\ shared' \in [Nodes -> SUBSET SharedRecord]
          /\ undone' \subseteq SharedRecord \X Nodes
          /\ \A p \in Nodes : OnePerId(shared'[p])
      BY <3>1, <3>3, PutKeeps, DeleteKeeps
    <3> QED
      BY <2>5, <3>2, <3>4 DEF ApplyIncoming, Rest, OnePerId, TypeOK
  <2>6. CASE RestoreNext(n, f)
    <3>1. t.todo \subseteq SharedRecord
      BY <2>6, TaskFields DEF RestoreNext, At, t
    <3>2. PICK rec \in t.todo :
            \/ Resume(n, f, [pc |-> "restorePut", rec |-> rec, todo |-> t.todo \ {rec}])
            \/ Resume(n, f, RestoreTask(t.todo \ {rec}))
      BY <2>6 DEF RestoreNext, t
    <3>3. [pc |-> "restorePut", rec |-> rec, todo |-> t.todo \ {rec}] \in Task
      BY <3>1 DEF Task
    <3>4. RestoreTask(t.todo \ {rec}) \in Task
      BY <3>1, RestoreTaskType
    <3>5. tasks' \in [Nodes -> [Fibers -> Task]]
      BY <3>2, <3>3, <3>4, ResumeType
    <3> QED
      BY <2>6, <3>5 DEF RestoreNext, Rest, TypeOK
  <2>7. CASE RestorePut(n, f)
    <3>1. t.rec \in SharedRecord /\ t.todo \subseteq SharedRecord
      BY <2>7, TaskFields DEF RestorePut, At, t
    <3>2. RestoreTask(t.todo) \in Task
      BY <3>1, RestoreTaskType
    <3>3. tasks' \in [Nodes -> [Fibers -> Task]]
      BY <2>7, <3>2, ResumeType DEF RestorePut, t
    <3>4. /\ shared' \in [Nodes -> SUBSET SharedRecord]
          /\ undone' \subseteq SharedRecord \X Nodes
          /\ \A p \in Nodes : OnePerId(shared'[p])
      BY <2>7, <3>1, PutKeeps DEF RestorePut, t
    <3> QED
      BY <2>7, <3>3, <3>4 DEF RestorePut, Rest, OnePerId, TypeOK
  <2> QED
    BY <1>12, <2>1, <2>2, <2>3, <2>4, <2>5, <2>6, <2>7 DEF Progress
<1>13. ASSUME NEW n \in Nodes, Restart(n)
       PROVE  TypeOK'
  <2>1. \A f \in Fibers : CutOff(n, tasks[n][f]) \subseteq SharedRecord \X Nodes
    BY TaskFields DEF CutOff, TypeOK, Others
  <2>2. lost' \subseteq SharedRecord \X Nodes
    BY <1>13, <2>1 DEF Restart, TypeOK
  <2>3. Idle \in Task
    BY DEF Task
  <2>4. tasks' \in [Nodes -> [Fibers -> Task]]
    BY <1>13, <2>3 DEF Restart, TypeOK
  <2>5. remoteSubs' \in [Nodes -> [Nodes -> Subscription]]
    <3>1. CASE remoteSubs' = [remoteSubs EXCEPT ![n] = [p \in Nodes |-> Unknown]]
      BY <3>1 DEF TypeOK, Subscription
    <3>2. CASE UNCHANGED remoteSubs
      BY <3>2 DEF TypeOK
    <3> QED
      BY <1>13, <3>1, <3>2 DEF Restart
  <2> QED
    BY <1>13, <2>2, <2>4, <2>5 DEF Restart, TypeOK
<1> QED
  BY <1>1, <1>2, <1>3, <1>4, <1>5, <1>6, <1>7, <1>8, <1>9, <1>10, <1>11, <1>12, <1>13 DEF Next

\* Every variable keeps its type, and a node stores one record per id
\* (groupshare.ts 560-613), whatever calls overlap.
THEOREM TypeCorrect == Spec => []TypeOK
  BY TypeInit, TypeStep, PTL DEF Spec

-----------------------------------------------------------------------------
(* Who is left out of a broadcast *)

\* What is known or on its way of a member's subscription is one that it has declared.
KnownAsDeclared ==
  /\ \A n \in Nodes : localSubs[n] \in declared[n] \cup {Unknown}
  /\ \A a \in anns : a.topics \in declared[a.from]
  /\ \A n \in Nodes, f \in Fibers : At(n, f, "announce") => tasks[n][f].topics \in declared[n]
  /\ \A n, p \in Nodes : remoteSubs[n][p] \in declared[p] \cup {Unknown}

DeclaredInv == KnownAsDeclared /\ LeftOutAsDeclared

\* a step that resumes one fiber and leaves the rest of the invariant alone
LEMMA DeclaredResumed ==
  ASSUME TypeOK, DeclaredInv, NEW n \in Nodes, NEW f \in Fibers, NEW t, Resume(n, f, t),
         t.pc = "announce" => t.topics \in declared[n],
         UNCHANGED <<localSubs, remoteSubs, declared, leftOut>>, anns' = anns
  PROVE  DeclaredInv'
<1>1. \A x \in Nodes, g \in Fibers : At(x, g, "announce")' => tasks'[x][g].topics \in declared[x]
  <2>1. \A x \in Nodes, g \in Fibers :
          \/ x = n /\ g = f /\ tasks'[x][g] = t
          \/ tasks'[x][g] = tasks[x][g]
    BY Resumed
  <2> QED
    BY <2>1 DEF DeclaredInv, KnownAsDeclared, At
<1> QED
  BY <1>1 DEF DeclaredInv, KnownAsDeclared, LeftOutAsDeclared

LEMMA DeclaredStep ==
  ASSUME TypeOK, DeclaredInv, [Next]_vars
  PROVE  DeclaredInv'
<1> USE GroupShareAssumption
<1> Idle.pc # "announce" /\ \A todo : RestoreTask(todo).pc # "announce"
  BY DEF Idle, RestoreTask
<1>1. CASE UNCHANGED vars \/ Tick
  BY <1>1 DEF vars, Tick, DeclaredInv, KnownAsDeclared, LeftOutAsDeclared, At
<1>2. ASSUME NEW n \in Nodes, NEW a \in anns, HandleSubAnnouncement(n, a)
      PROVE  DeclaredInv'
  <2>1. \A x, p \in Nodes : remoteSubs'[x][p] \in declared[p] \cup {Unknown}
    <3>1. CASE SubAnnounced(n, a)
      <4>1. a.topics \in declared[a.from]
        BY DEF DeclaredInv, KnownAsDeclared
      <4>2. \A x, p \in Nodes :
              \/ p = a.from /\ remoteSubs'[x][p] = a.topics
              \/ remoteSubs'[x][p] = remoteSubs[x][p]
        BY <3>1 DEF SubAnnounced, TypeOK
      <4> QED
        BY <4>1, <4>2 DEF DeclaredInv, KnownAsDeclared
    <3>2. CASE UNCHANGED remoteSubs
      BY <3>2 DEF DeclaredInv, KnownAsDeclared
    <3> QED
      BY <1>2, <3>1, <3>2 DEF HandleSubAnnouncement
  <2>2. UNCHANGED <<localSubs, tasks, declared, leftOut>> /\ anns' \subseteq anns
    BY <1>2 DEF HandleSubAnnouncement
  <2> QED
    BY <2>1, <2>2 DEF DeclaredInv, KnownAsDeclared, LeftOutAsDeclared, At
<1>3. ASSUME NEW n \in Nodes, NEW f \in Fibers, NEW s \in Subs, Subscribe(n, f, s)
      PROVE  DeclaredInv'
  <2>1. /\ localSubs' = [localSubs EXCEPT ![n] = s]
        /\ declared' = [declared EXCEPT ![n] = @ \cup {s}]
        /\ Resume(n, f, [pc |-> "announce", topics |-> s])
        /\ UNCHANGED <<remoteSubs, anns, leftOut>>
    BY <1>3 DEF Subscribe
  <2>2. /\ \A x \in Nodes : declared[x] \subseteq declared'[x]
        /\ s \in declared'[n]
        /\ \A x \in Nodes : (localSubs'[x] = s /\ x = n) \/ localSubs'[x] = localSubs[x]
    BY <2>1 DEF TypeOK
  <2>3. \A x \in Nodes, g \in Fibers :
          \/ x = n /\ tasks'[x][g] = [pc |-> "announce", topics |-> s]
          \/ tasks'[x][g] = tasks[x][g]
    BY <2>1, Resumed
  <2>4. \A x \in Nodes : localSubs'[x] \in declared'[x] \cup {Unknown}
    BY <2>2 DEF DeclaredInv, KnownAsDeclared
  <2>5. \A a \in anns : a.topics \in declared'[a.from]
    BY <2>2 DEF DeclaredInv, KnownAsDeclared, TypeOK
  <2>6. \A x \in Nodes, g \in Fibers :
          At(x, g, "announce")' => tasks'[x][g].topics \in declared'[x]
    BY <2>2, <2>3 DEF DeclaredInv, KnownAsDeclared, At
  <2>7. \A x, p \in Nodes : remoteSubs[x][p] \in declared'[p] \cup {Unknown}
    BY <2>2 DEF DeclaredInv, KnownAsDeclared
  <2>8. \A l \in leftOut : \E x \in declared'[l[2]] : l[1].topic \notin x
    <3> SUFFICES ASSUME NEW l \in leftOut
                 PROVE  \E x \in declared'[l[2]] : l[1].topic \notin x
      OBVIOUS
    <3>1. l[2] \in Nodes
      BY DEF TypeOK
    <3> QED
      BY <2>2, <3>1 DEF DeclaredInv, LeftOutAsDeclared
  <2> QED
    BY <2>1, <2>4, <2>5, <2>6, <2>7, <2>8 DEF DeclaredInv, KnownAsDeclared, LeftOutAsDeclared
<1>4. ASSUME NEW n \in Nodes, NEW f \in Fibers, AnnounceAllSubscriptions(n, f)
      PROVE  DeclaredInv'
  <2>1. Resume(n, f, [pc |-> "announce", topics |-> localSubs[n]])
    BY <1>4 DEF AnnounceAllSubscriptions
  <2>2. localSubs[n] \in declared[n]
    BY <1>4 DEF AnnounceAllSubscriptions, DeclaredInv, KnownAsDeclared
  <2>3. UNCHANGED <<localSubs, remoteSubs, declared, leftOut>> /\ anns' = anns
    BY <1>4 DEF AnnounceAllSubscriptions, Rest
  <2> QED
    BY <2>1, <2>2, <2>3, DeclaredResumed
<1>5. ASSUME NEW n \in Nodes, NEW f \in Fibers, NEW i \in Ids, NEW tp \in Topics,
             Put(n, f, i, tp) \/ Delete(n, f, i, tp)
      PROVE  DeclaredInv'
  <2>1. \E t : Resume(n, f, t) /\ t.pc # "announce"
    <3>1. CASE Put(n, f, i, tp)
      BY <3>1 DEF Put
    <3>2. CASE Delete(n, f, i, tp)
      BY <3>2 DEF Delete
    <3> QED
      BY <1>5, <3>1, <3>2
  <2>2. UNCHANGED <<localSubs, remoteSubs, declared, leftOut>> /\ anns' = anns
    BY <1>5 DEF Put, Delete
  <2> QED
    BY <2>1, <2>2, DeclaredResumed
<1>6. ASSUME NEW n \in Nodes, NEW f \in Fibers, NEW m \in net, HandleIncoming(n, f, m)
      PROVE  DeclaredInv'
  <2>1. UNCHANGED <<localSubs, remoteSubs, declared, leftOut>> /\ anns' = anns
    BY <1>6 DEF HandleIncoming
  <2>2. CASE UNCHANGED tasks
    BY <2>1, <2>2 DEF DeclaredInv, KnownAsDeclared, LeftOutAsDeclared, At
  <2>3. CASE Resume(n, f, [pc |-> "apply", rec |-> m.rec])
    BY <2>1, <2>3, DeclaredResumed
  <2> QED
    BY <1>6, <2>2, <2>3 DEF HandleIncoming
<1>7. ASSUME NEW n \in Nodes, NEW f \in Fibers, Dump(n, f) \/ Purge(n, f)
      PROVE  DeclaredInv'
  BY <1>7 DEF Dump, Purge, DeclaredInv, KnownAsDeclared, LeftOutAsDeclared, At
<1>8. ASSUME NEW n \in Nodes, NEW f \in Fibers, Restore(n, f)
      PROVE  DeclaredInv'
  <2>1. UNCHANGED <<localSubs, remoteSubs, declared, leftOut>> /\ anns' = anns
    BY <1>8 DEF Restore
  <2> QED
    BY <1>8, <2>1, DeclaredResumed DEF Restore
<1>9. ASSUME NEW n \in Nodes, NEW f \in Fibers, Progress(n, f)
      PROVE  DeclaredInv'
  <2>1. CASE BroadcastSubAnnouncement(n, f)
    <3>1. /\ Resume(n, f, Idle)
          /\ UNCHANGED <<localSubs, remoteSubs, declared, leftOut>>
      BY <2>1 DEF BroadcastSubAnnouncement
    <3>2. \A a \in anns' :
            \/ a \in anns
            \/ a.from = n /\ a.topics = tasks[n][f].topics
      BY <2>1 DEF BroadcastSubAnnouncement
    <3>3. tasks[n][f].topics \in declared[n]
      BY <2>1 DEF BroadcastSubAnnouncement, DeclaredInv, KnownAsDeclared
    <3>4. \A a \in anns' : a.topics \in declared[a.from]
      BY <3>2, <3>3 DEF DeclaredInv, KnownAsDeclared
    <3>5. \A x \in Nodes, g \in Fibers :
            At(x, g, "announce")' => tasks'[x][g].topics \in declared[x]
      <4>1. \A x \in Nodes, g \in Fibers : tasks'[x][g] = Idle \/ tasks'[x][g] = tasks[x][g]
        BY <3>1, Resumed
      <4> QED
        BY <4>1 DEF DeclaredInv, KnownAsDeclared, At
    <3> QED
      BY <3>1, <3>4, <3>5 DEF DeclaredInv, KnownAsDeclared, LeftOutAsDeclared
  <2>2. CASE Broadcast(n, f)
    <3> DEFINE rec == tasks[n][f].rec
               members == {p \in Others(n) : Included(remoteSubs[n][p], rec.topic)}
               t == [pc |-> "send", rec |-> rec, to |-> members]
    <3>1. /\ Resume(n, f, t)
          /\ leftOut' = leftOut \cup ({rec} \X (Others(n) \ members))
          /\ UNCHANGED <<localSubs, remoteSubs, declared>> /\ anns' = anns
      BY <2>2 DEF Broadcast, Rest
    <3>2. ASSUME NEW p \in Others(n) \ members
          PROVE  \E s \in declared[p] : rec.topic \notin s
      <4>1. remoteSubs[n][p] # Unknown /\ rec.topic \notin remoteSubs[n][p]
        BY <3>2 DEF Included
      <4>2. remoteSubs[n][p] \in declared[p]
        BY <4>1 DEF DeclaredInv, KnownAsDeclared, Others
      <4> QED
        BY <4>1, <4>2
    <3>3. LeftOutAsDeclared'
      BY <3>1, <3>2 DEF DeclaredInv, LeftOutAsDeclared
    <3>4. t.pc # "announce"
      OBVIOUS
    <3> HIDE DEF t
    <3>5. \A x \in Nodes, g \in Fibers :
            At(x, g, "announce")' => tasks'[x][g].topics \in declared[x]
      <4>1. \A x \in Nodes, g \in Fibers : tasks'[x][g] = t \/ tasks'[x][g] = tasks[x][g]
        BY <3>1, Resumed
      <4> QED
        BY <3>4, <4>1 DEF DeclaredInv, KnownAsDeclared, At
    <3> QED
      BY <3>1, <3>3, <3>5 DEF DeclaredInv, KnownAsDeclared
  <2>3. CASE \/ StampDeletion(n, f) \/ SendGroup(n, f) \/ ApplyIncoming(n, f)
             \/ RestoreNext(n, f) \/ RestorePut(n, f)
    <3>1. \E t : Resume(n, f, t) /\ t.pc # "announce"
      <4>1. CASE StampDeletion(n, f)
        BY <4>1 DEF StampDeletion
      <4>2. CASE SendGroup(n, f) \/ ApplyIncoming(n, f)
        BY <4>2 DEF SendGroup, ApplyIncoming
      <4>3. CASE RestoreNext(n, f)
        <5>1. PICK rec \in tasks[n][f].todo :
                \/ Resume(n, f, [pc |-> "restorePut", rec |-> rec,
                                 todo |-> tasks[n][f].todo \ {rec}])
                \/ Resume(n, f, RestoreTask(tasks[n][f].todo \ {rec}))
          BY <4>3 DEF RestoreNext
        <5> QED
          BY <5>1
      <4>4. CASE RestorePut(n, f)
        BY <4>4 DEF RestorePut
      <4> QED
        BY <2>3, <4>1, <4>2, <4>3, <4>4
    <3>2. UNCHANGED <<localSubs, remoteSubs, declared, leftOut>> /\ anns' = anns
      BY <2>3 DEF StampDeletion, SendGroup, ApplyIncoming, RestoreNext, RestorePut, Rest
    <3> QED
      BY <3>1, <3>2, DeclaredResumed
  <2> QED
    BY <1>9, <2>1, <2>2, <2>3 DEF Progress
<1>10. ASSUME NEW n \in Nodes, Restart(n)
       PROVE  DeclaredInv'
  <2>1. UNCHANGED <<localSubs, declared, leftOut>> /\ anns' = anns
    BY <1>10 DEF Restart
  <2>2. \A x \in Nodes, g \in Fibers : tasks'[x][g] = Idle \/ tasks'[x][g] = tasks[x][g]
    BY <1>10 DEF Restart, TypeOK
  <2>3. \A x, p \in Nodes : remoteSubs'[x][p] \in {remoteSubs[x][p], Unknown}
    <3>1. CASE remoteSubs' = [remoteSubs EXCEPT ![n] = [p \in Nodes |-> Unknown]]
      BY <3>1 DEF TypeOK
    <3>2. CASE UNCHANGED remoteSubs
      BY <3>2
    <3> QED
      BY <1>10, <3>1, <3>2 DEF Restart
  <2> QED
    BY <2>1, <2>2, <2>3 DEF DeclaredInv, KnownAsDeclared, LeftOutAsDeclared, At
<1> QED
  BY <1>1, <1>2, <1>3, <1>4, <1>5, <1>6, <1>7, <1>8, <1>9, <1>10 DEF Next

\* A member is left out of a broadcast only for a subscription that it has declared itself and
\* that leaves out the topic (groupshare.ts:494-521), whatever announcements are lost or
\* overtaken and whatever is forgotten in restarts.
THEOREM NobodyIsLeftOutUnasked == Spec => []LeftOutAsDeclared
<1>1. Init => DeclaredInv
  BY DEF Init, DeclaredInv, KnownAsDeclared, LeftOutAsDeclared, At, Idle
<1>2. TypeOK /\ DeclaredInv /\ [Next]_vars => DeclaredInv'
  BY DeclaredStep
<1>3. DeclaredInv => LeftOutAsDeclared
  BY DEF DeclaredInv
<1> QED
  BY <1>1, <1>2, <1>3, TypeCorrect, PTL DEF Spec

-----------------------------------------------------------------------------
(* Every put is accounted for *)

\* member p has record x or a newer one
Has(x, p) == \E r \in WithId(p, x.id) : r.timestamp >= x.timestamp

\* what became of the put x at member p
Accounted(x, p) ==
  \/ Has(x, p)
  \/ Coming(x, p)
  \/ IsExpired(p, x) \/ ~CanRead(x.did)
  \/ <<x, p>> \in leftOut
  \/ <<x, p>> \in lost
  \/ <<x, p>> \in undone

\* A record that was there is there, or newer, or has been undone.
LEMMA PutHeld ==
  ASSUME TypeOK, NEW n \in Nodes, NEW rec \in SharedRecord, PutShared(n, rec),
         NEW x \in issued, ~x.deleted, NEW p \in Nodes, Has(x, p)
  PROVE  Has(x, p)' \/ <<x, p>> \in undone'
<1>1. /\ shared'[n] = {r \in shared[n] : r.id # rec.id} \cup {rec}
      /\ \A q \in Nodes \ {n} : shared'[q] = shared[q]
      /\ undone' = undone \cup ({y \in Held(n, rec.id) : rec.timestamp < y.timestamp} \X {n})
  BY PutKeeps DEF PutShared
<1>2. x.timestamp \in Nat /\ rec.timestamp \in Nat
  BY DEF TypeOK, SharedRecord
<1>3. PICK r \in shared[p] : r.id = x.id /\ r.timestamp >= x.timestamp
  BY DEF Has, WithId
<1>4. r.timestamp \in Nat
  BY DEF TypeOK, SharedRecord
<1>5. CASE p = n /\ x.id = rec.id
  <2>1. CASE rec.timestamp < x.timestamp
    <3>1. x \in Held(n, rec.id)
      BY <1>2, <1>3, <1>4, <1>5 DEF Held, WithId
    <3> QED
      BY <1>1, <1>5, <2>1, <3>1
  <2>2. CASE rec.timestamp >= x.timestamp
    BY <1>1, <1>5, <2>2 DEF Has, WithId
  <2> QED
    BY <1>2, <2>1, <2>2
<1>6. CASE ~(p = n /\ x.id = rec.id)
  <2>1. r \in shared'[p]
    BY <1>1, <1>3, <1>6
  <2> QED
    BY <1>3, <2>1 DEF Has, WithId
<1> QED
  BY <1>5, <1>6

LEMMA DeleteHeld ==
  ASSUME TypeOK, NEW n \in Nodes, NEW i, DeleteShared(n, i),
         NEW x \in issued, ~x.deleted, NEW p \in Nodes, Has(x, p)
  PROVE  Has(x, p)' \/ <<x, p>> \in undone'
<1>1. /\ shared'[n] = {r \in shared[n] : r.id # i}
      /\ \A q \in Nodes \ {n} : shared'[q] = shared[q]
      /\ undone' = undone \cup (Held(n, i) \X {n})
  BY DeleteKeeps DEF DeleteShared
<1>2. PICK r \in shared[p] : r.id = x.id /\ r.timestamp >= x.timestamp
  BY DEF Has, WithId
<1>3. x.timestamp \in Nat /\ r.timestamp \in Nat
  BY DEF TypeOK, SharedRecord
<1>4. CASE p = n /\ x.id = i
  <2>1. x \in Held(n, i)
    BY <1>2, <1>3, <1>4 DEF Held, WithId
  <2> QED
    BY <1>1, <1>4, <2>1
<1>5. CASE ~(p = n /\ x.id = i)
  <2>1. r \in shared'[p]
    BY <1>1, <1>2, <1>5
  <2> QED
    BY <1>2, <2>1 DEF Has, WithId
<1> QED
  BY <1>4, <1>5

\* A record that is coming still is after a step of a fiber that was not bringing it.
LEMMA ComingKept ==
  ASSUME TypeOK, NEW n \in Nodes, NEW f \in Fibers, NEW t, Resume(n, f, t), net \subseteq net',
         NEW x, NEW p \in Nodes, Coming(x, p),
         ~(tasks[n][f].pc \in {"broadcast", "send", "apply"} /\ tasks[n][f].rec = x)
  PROVE  Coming(x, p)'
<1>1. \A m \in Nodes, g \in Fibers : m # n \/ g # f => tasks'[m][g] = tasks[m][g]
  BY Resumed
<1>2. CASE [to |-> p, rec |-> x] \in net
  BY <1>2 DEF Coming
<1>3. ASSUME NEW g \in Fibers, At(p, g, "apply"), tasks[p][g].rec = x
      PROVE  Coming(x, p)'
  <2>1. tasks'[p][g] = tasks[p][g]
    BY <1>1, <1>3 DEF At
  <2> QED
    BY <1>3, <2>1 DEF Coming, At
<1>4. ASSUME NEW m \in Nodes, NEW g \in Fibers, tasks[m][g].rec = x,
             \/ At(m, g, "broadcast") /\ m # p
             \/ At(m, g, "send") /\ p \in tasks[m][g].to
      PROVE  Coming(x, p)'
  <2>1. tasks'[m][g] = tasks[m][g]
    BY <1>1, <1>4 DEF At
  <2> QED
    BY <1>4, <2>1 DEF Coming, At
<1> QED
  BY <1>2, <1>3, <1>4 DEF Coming

\* What a step leaves alone stays accounted for if it is there or coming.
LEMMA StillAccounted ==
  ASSUME NEW x, NEW p, Accounted(x, p), now' \in Nat, now \in Nat, now' >= now, TypeOK,
         x \in SharedRecord,
         leftOut \subseteq leftOut', lost \subseteq lost', undone \subseteq undone',
         Has(x, p) => Accounted(x, p)',
         Coming(x, p) => Accounted(x, p)'
  PROVE  Accounted(x, p)'
<1>1. IsExpired(p, x) => IsExpired(p, x)'
  BY GroupShareAssumption DEF IsExpired, Clock, SharedRecord
<1>2. ~CanRead(x.did) => Accounted(x, p)'
  BY DEF Accounted, CanRead
<1> QED
  BY <1>1, <1>2 DEF Accounted

LEMMA AccountedStep ==
  ASSUME TypeOK, PutAccounted, [Next]_vars
  PROVE  PutAccounted'
<1> USE GroupShareAssumption
<1> now \in Nat /\ \A x \in issued, p \in Nodes : ~x.deleted => Accounted(x, p)
  BY DEF PutAccounted, Accounted, Has, TypeOK
<1>a. ASSUME \A x \in issued', p \in Nodes : ~x.deleted => Accounted(x, p)'
      PROVE  PutAccounted'
  BY <1>a DEF PutAccounted, Accounted, Has
<1> \A x \in issued : x \in SharedRecord /\ x.timestamp \in Nat
  BY DEF TypeOK, SharedRecord
<1>1. CASE UNCHANGED vars \/ Tick
  <2>1. \A x \in issued, p \in Nodes : ~x.deleted => Accounted(x, p)'
    <3> SUFFICES ASSUME NEW x \in issued, NEW p \in Nodes, ~x.deleted
                 PROVE  Accounted(x, p)'
      OBVIOUS
    <3>1. /\ UNCHANGED <<shared, net, tasks, leftOut, lost, undone>>
          /\ now' \in Nat /\ now' >= now
      BY <1>1 DEF vars, Tick
    <3>2. /\ Has(x, p) => Has(x, p)'
          /\ Coming(x, p) => Coming(x, p)'
      BY <3>1 DEF Has, WithId, Coming, At
    <3>3. Accounted(x, p)
      OBVIOUS
    <3>4. (Has(x, p) => Accounted(x, p)') /\ (Coming(x, p) => Accounted(x, p)')
      BY <3>2 DEF Accounted
    <3> QED
      BY <3>1, <3>3, <3>4, StillAccounted
  <2> QED
    BY <1>1, <1>a, <2>1 DEF vars, Tick
\* a step that resumes a call which brings no record to anybody
<1>b. ASSUME NEW n \in Nodes, NEW f \in Fibers, NEW t, Resume(n, f, t) \/ UNCHANGED tasks,
             tasks[n][f].pc \notin {"broadcast", "send", "apply"},
             now' = now, net \subseteq net', leftOut' = leftOut, lost' = lost,
             undone \subseteq undone',
             NEW x \in issued, NEW p \in Nodes, ~x.deleted,
             Has(x, p) => Has(x, p)' \/ <<x, p>> \in undone' \/ IsExpired(p, x)
      PROVE  Accounted(x, p)'
  <2>1. Coming(x, p) => Coming(x, p)'
    <3>1. CASE Resume(n, f, t)
      BY <1>b, <3>1, ComingKept
    <3>2. CASE UNCHANGED tasks
      BY <1>b, <3>2 DEF Coming, At
    <3> QED
      BY <1>b, <3>1, <3>2
  <2>2. Accounted(x, p)
    BY <1>b
  <2>3. IsExpired(p, x) => IsExpired(p, x)'
    BY <1>b DEF IsExpired, Clock
  <2>4. (Has(x, p) => Accounted(x, p)') /\ (Coming(x, p) => Accounted(x, p)')
    BY <1>b, <2>1, <2>3 DEF Accounted
  <2>5. now' \in Nat /\ now' >= now
    BY <1>b
  <2> QED
    BY <1>b, <2>2, <2>4, <2>5, StillAccounted
<1>2. ASSUME NEW n \in Nodes, NEW a \in anns, HandleSubAnnouncement(n, a)
      PROVE  PutAccounted'
  <2>1. UNCHANGED <<now, shared, net, tasks, issued, leftOut, lost, undone>>
    BY <1>2 DEF HandleSubAnnouncement
  <2> QED
    BY <2>1 DEF PutAccounted, WithId, Coming, At, IsExpired, Clock, CanRead
<1>3. ASSUME NEW n \in Nodes, NEW f \in Fibers,
             \/ \E s \in Subs : Subscribe(n, f, s)
             \/ AnnounceAllSubscriptions(n, f)
             \/ Dump(n, f)
             \/ Restore(n, f)
             \/ BroadcastSubAnnouncement(n, f)
             \/ RestoreNext(n, f)
      PROVE  PutAccounted'
  <2>1. /\ UNCHANGED <<now, shared, net, issued, leftOut, lost, undone>>
        /\ tasks[n][f].pc \notin {"broadcast", "send", "apply"}
    BY <1>3 DEF Subscribe, AnnounceAllSubscriptions, Dump, Restore, BroadcastSubAnnouncement,
                RestoreNext, Call, At, Rest
  <2>2. UNCHANGED tasks \/ \E t : Resume(n, f, t)
    <3>1. CASE \E s \in Subs : Subscribe(n, f, s)
      BY <3>1 DEF Subscribe
    <3>2. CASE AnnounceAllSubscriptions(n, f) \/ BroadcastSubAnnouncement(n, f)
      BY <3>2 DEF AnnounceAllSubscriptions, BroadcastSubAnnouncement
    <3>3. CASE Dump(n, f) \/ Restore(n, f)
      BY <3>3 DEF Dump, Restore
    <3>4. CASE RestoreNext(n, f)
      BY <3>4 DEF RestoreNext
    <3> QED
      BY <1>3, <3>1, <3>2, <3>3, <3>4
  <2>3. \A x \in issued, p \in Nodes : Has(x, p) => Has(x, p)'
    BY <2>1 DEF Has, WithId
  <2> QED
    BY <1>a, <1>b, <2>1, <2>2, <2>3
<1>4. ASSUME NEW n \in Nodes, NEW f \in Fibers, NEW i \in Ids, NEW tp \in Topics,
             Put(n, f, i, tp)
      PROVE  PutAccounted'
  <2> DEFINE put == [id |-> i, topic |-> tp, did |-> n, timestamp |-> Clock(n),
                     deleted |-> FALSE]
  <2>1. put \in SharedRecord
    BY DEF SharedRecord, Clock
  <2>2. PICK rec \in SharedRecord :
          /\ PutShared(n, rec) /\ issued' = issued \cup {rec}
          /\ Resume(n, f, [pc |-> "broadcast", rec |-> rec])
    BY <1>4, <2>1 DEF Put, Stamped
  <2> DEFINE t == [pc |-> "broadcast", rec |-> rec]
  <2>3. /\ UNCHANGED <<now, net, leftOut, lost>> /\ undone \subseteq undone'
        /\ tasks[n][f].pc = "idle" /\ Resume(n, f, t) /\ t.pc = "broadcast" /\ t.rec = rec
    BY <1>4, <2>2 DEF Put, Call, At, PutShared
  <2> HIDE DEF t
  <2>4. ASSUME NEW x \in issued, NEW p \in Nodes, ~x.deleted
        PROVE  Accounted(x, p)'
    <3>1. Has(x, p) => Has(x, p)' \/ <<x, p>> \in undone'
      BY <2>2, <2>4, PutHeld
    <3>2. tasks[n][f].pc \notin {"broadcast", "send", "apply"}
      BY <2>3
    <3> QED
      BY <1>b, <2>3, <2>4, <3>1, <3>2
  <2>5. ASSUME NEW p \in Nodes
        PROVE  Accounted(rec, p)'
    <3>1. CASE p = n
      <4>1. rec \in shared'[p]
        BY <2>2, <3>1, PutKeeps
      <4>2. Has(rec, p)'
        BY <4>1 DEF Has, WithId, SharedRecord
      <4> QED
        BY <4>2 DEF Accounted
    <3>2. CASE p # n
      <4>1. tasks'[n][f] = t
        BY <2>3, Resumed
      <4>2. Coming(rec, p)'
        BY <2>3, <3>2, <4>1 DEF Coming, At
      <4> QED
        BY <4>2 DEF Accounted
    <3> QED
      BY <3>1, <3>2
  <2> QED
    BY <1>a, <2>2, <2>4, <2>5
<1>5. ASSUME NEW n \in Nodes, NEW f \in Fibers, NEW i \in Ids, NEW tp \in Topics,
             Delete(n, f, i, tp)
      PROVE  PutAccounted'
  <2>1. /\ DeleteShared(n, i) /\ issued' = issued
        /\ Resume(n, f, [pc |-> "stamp", id |-> i, topic |-> tp])
        /\ UNCHANGED <<now, net, leftOut, lost>> /\ undone \subseteq undone'
        /\ tasks[n][f].pc \notin {"broadcast", "send", "apply"}
    BY <1>5 DEF Delete, Call, At, DeleteShared
  <2>2. ASSUME NEW x \in issued, NEW p \in Nodes, ~x.deleted
        PROVE  Accounted(x, p)'
    <3>1. Has(x, p) => Has(x, p)' \/ <<x, p>> \in undone'
      BY <2>1, <2>2, DeleteHeld
    <3> QED
      BY <1>b, <2>1, <2>2, <3>1
  <2> QED
    BY <1>a, <2>1, <2>2
<1>6. ASSUME NEW n \in Nodes, NEW f \in Fibers, NEW m \in net, HandleIncoming(n, f, m)
      PROVE  PutAccounted'
  <2>1. /\ UNCHANGED <<now, shared, issued, leftOut, lost, undone>>
        /\ net' = net \ {m} /\ m.to = n /\ tasks[n][f].pc = "idle"
    BY <1>6 DEF HandleIncoming, At
  <2>2. \A q \in Nodes, g \in Fibers : ~At(q, g, "idle") => tasks'[q][g] = tasks[q][g]
    <3>1. CASE UNCHANGED tasks
      BY <3>1
    <3>2. CASE Resume(n, f, [pc |-> "apply", rec |-> m.rec])
      BY <2>1, <3>2, Resumed DEF At
    <3> QED
      BY <1>6, <3>1, <3>2 DEF HandleIncoming
  <2>3. ASSUME NEW x \in issued, NEW p \in Nodes, ~x.deleted
        PROVE  Accounted(x, p)'
    <3>1. Has(x, p) => Accounted(x, p)'
      BY <2>1 DEF Accounted, Has, WithId
    <3>2. ASSUME Coming(x, p)
          PROVE  Accounted(x, p)'
      <4>1. CASE m = [to |-> p, rec |-> x]
        <5>1. CASE ~CanRead(x.did) \/ IsExpired(p, x)
          BY <2>1, <5>1 DEF Accounted, CanRead, IsExpired, Clock
        <5>2. CASE ~Newer(n, x)
          <6>1. PICK r \in WithId(p, x.id) : ~(x.timestamp > r.timestamp)
            BY <2>1, <4>1, <5>2 DEF Newer
          <6>2. r.timestamp \in Nat
            BY DEF WithId, TypeOK, SharedRecord
          <6>3. Has(x, p)
            BY <6>1, <6>2 DEF Has
          <6> QED
            BY <3>1, <6>3
        <5>3. CASE CanRead(x.did) /\ ~IsExpired(p, x) /\ Newer(n, x)
          <6>1. Resume(n, f, [pc |-> "apply", rec |-> x])
            BY <1>6, <2>1, <4>1, <5>3 DEF HandleIncoming
          <6>2. tasks'[p][f] = [pc |-> "apply", rec |-> x]
            BY <2>1, <4>1, <6>1, Resumed
          <6>3. Coming(x, p)'
            BY <6>2 DEF Coming, At
          <6> QED
            BY <6>3 DEF Accounted
        <5> QED
          BY <5>1, <5>2, <5>3
      <4>2. CASE m # [to |-> p, rec |-> x]
        <5>1. Coming(x, p)'
          BY <2>1, <2>2, <3>2, <4>2 DEF Coming, At
        <5> QED
          BY <5>1 DEF Accounted
      <4> QED
        BY <4>1, <4>2
    <3>3. Accounted(x, p)
      BY <2>3
    <3>4. now' \in Nat /\ now' >= now
      BY <2>1
    <3> QED
      BY <2>1, <3>1, <3>2, <3>3, <3>4, StillAccounted
  <2> QED
    BY <1>a, <2>1, <2>3
<1>7. ASSUME NEW n \in Nodes, NEW f \in Fibers, Purge(n, f)
      PROVE  PutAccounted'
  <2>1. /\ UNCHANGED <<now, issued, net, tasks, leftOut, lost, undone>>
        /\ tasks[n][f].pc \notin {"broadcast", "send", "apply"}
        /\ Retention # 0
        /\ shared' = [shared EXCEPT ![n] = @ \ Purged(n)]
    BY <1>7 DEF Purge, Call, At
  <2>2. ASSUME NEW x \in issued, NEW p \in Nodes, ~x.deleted
        PROVE  Accounted(x, p)'
    <3>1. ASSUME Has(x, p)
          PROVE  Has(x, p)' \/ IsExpired(p, x)
      <4>1. PICK r \in shared[p] : r.id = x.id /\ r.timestamp >= x.timestamp
        BY <3>1 DEF Has, WithId
      <4>2. r.timestamp \in Nat
        BY DEF TypeOK, SharedRecord
      <4>3. CASE r \in shared'[p]
        BY <4>1, <4>3 DEF Has, WithId
      <4>4. CASE r \notin shared'[p]
        <5>1. p = n /\ r \in Purged(n)
          BY <2>1, <4>4 DEF TypeOK
        <5>2. r.timestamp + Retention < Clock(p)
          BY <5>1 DEF Purged
        <5>3. Clock(p) \in Nat
          BY DEF Clock
        <5>4. Clock(p) >= x.timestamp + Retention
          BY <4>1, <4>2, <5>2, <5>3
        <5> QED
          BY <2>1, <5>4 DEF IsExpired
      <4> QED
        BY <4>3, <4>4
    <3>2. Has(x, p) => Has(x, p)' \/ <<x, p>> \in undone' \/ IsExpired(p, x)
      BY <3>1
    <3> QED
      BY <1>b, <2>1, <2>2, <3>2
  <2> QED
    BY <1>a, <2>1, <2>2
<1>8. ASSUME NEW n \in Nodes, NEW f \in Fibers, StampDeletion(n, f)
      PROVE  PutAccounted'
  <2> DEFINE rec == [id |-> tasks[n][f].id, topic |-> tasks[n][f].topic, did |-> n,
                     timestamp |-> Clock(n), deleted |-> TRUE]
  <2>1. rec.deleted
    OBVIOUS
  <2>2. /\ issued' = issued \cup {rec}
        /\ Resume(n, f, [pc |-> "broadcast", rec |-> rec])
        /\ UNCHANGED <<now, shared, net, leftOut, lost, undone>>
        /\ tasks[n][f].pc \notin {"broadcast", "send", "apply"}
    BY <1>8 DEF StampDeletion, Stamped, Rest, At
  <2> HIDE DEF rec
  <2>3. ASSUME NEW x \in issued, NEW p \in Nodes, ~x.deleted
        PROVE  Accounted(x, p)'
    <3>1. Has(x, p) => Has(x, p)'
      BY <2>2 DEF Has, WithId
    <3> QED
      BY <1>b, <2>2, <2>3, <3>1
  <2> QED
    BY <1>a, <2>1, <2>2, <2>3
<1>9. ASSUME NEW n \in Nodes, NEW f \in Fibers, Broadcast(n, f)
      PROVE  PutAccounted'
  <2> DEFINE rec == tasks[n][f].rec
             members == {p \in Others(n) : Included(remoteSubs[n][p], rec.topic)}
             t == [pc |-> "send", rec |-> rec, to |-> members]
  <2>1. /\ Resume(n, f, t) /\ tasks[n][f].pc = "broadcast"
        /\ leftOut' = leftOut \cup ({rec} \X (Others(n) \ members))
        /\ UNCHANGED <<now, shared, net, issued, lost, undone>>
    BY <1>9 DEF Broadcast, Rest, At
  <2>2. t.pc = "send" /\ t.rec = rec /\ t.to = members
    OBVIOUS
  <2>3. tasks'[n][f] = t
    BY <2>1, Resumed
  <2> HIDE DEF members, t
  <2>4. ASSUME NEW x \in issued, NEW p \in Nodes, ~x.deleted
        PROVE  Accounted(x, p)'
    <3>1. Has(x, p) => Accounted(x, p)'
      BY <2>1 DEF Accounted, Has, WithId
    <3>2. ASSUME Coming(x, p)
          PROVE  Accounted(x, p)'
      <4>1. CASE rec = x /\ p \in Others(n)
        <5>1. CASE p \in members
          <6>1. Coming(x, p)'
            BY <2>2, <2>3, <4>1, <5>1 DEF Coming, At
          <6> QED
            BY <6>1 DEF Accounted
        <5>2. CASE p \notin members
          BY <2>1, <4>1, <5>2 DEF Accounted
        <5> QED
          BY <5>1, <5>2
      <4>2. CASE rec # x
        BY <2>1, <2>4, <3>2, <4>2, ComingKept DEF Accounted
      <4>3. CASE rec = x /\ p = n
        <5>1. \A q \in Nodes, g \in Fibers : q # n \/ g # f => tasks'[q][g] = tasks[q][g]
          BY <2>1, Resumed
        <5>2. Coming(x, p)'
          BY <2>1, <3>2, <4>3, <5>1 DEF Coming, At
        <5> QED
          BY <5>2 DEF Accounted
      <4> QED
        BY <4>1, <4>2, <4>3 DEF Others
    <3>3. Accounted(x, p)
      BY <2>4
    <3>4. now' \in Nat /\ now' >= now
      BY <2>1
    <3> QED
      BY <2>1, <3>1, <3>2, <3>3, <3>4, StillAccounted
  <2> QED
    BY <1>a, <2>1, <2>4
<1>10. ASSUME NEW n \in Nodes, NEW f \in Fibers, SendGroup(n, f)
       PROVE  PutAccounted'
  <2> DEFINE rec == tasks[n][f].rec
             to == tasks[n][f].to
  <2>1. PICK reached \in SUBSET to :
          /\ net' = net \cup {[to |-> p, rec |-> rec] : p \in reached}
          /\ lost' = lost \cup ({rec} \X (to \ reached))
    BY <1>10 DEF SendGroup, Reached
  <2>2. /\ Resume(n, f, Idle) /\ tasks[n][f].pc = "send"
        /\ UNCHANGED <<now, shared, issued, leftOut, undone>>
    BY <1>10 DEF SendGroup, At
  <2>3. \A q \in Nodes, g \in Fibers : q # n \/ g # f => tasks'[q][g] = tasks[q][g]
    BY <2>2, Resumed
  <2>4. ASSUME NEW x \in issued, NEW p \in Nodes, ~x.deleted
        PROVE  Accounted(x, p)'
    <3>1. Has(x, p) => Accounted(x, p)'
      BY <2>2 DEF Accounted, Has, WithId
    <3>2. ASSUME Coming(x, p)
          PROVE  Accounted(x, p)'
      <4>1. CASE rec = x /\ p \in to
        <5>1. CASE p \in reached
          <6>1. Coming(x, p)'
            BY <2>1, <4>1, <5>1 DEF Coming
          <6> QED
            BY <6>1 DEF Accounted
        <5>2. CASE p \notin reached
          BY <2>1, <4>1, <5>2 DEF Accounted
        <5> QED
          BY <5>1, <5>2
      <4>2. CASE rec # x
        <5>1. net \subseteq net'
          BY <2>1
        <5>2. Coming(x, p)'
          BY <2>2, <2>4, <3>2, <4>2, <5>1, ComingKept
        <5> QED
          BY <5>2 DEF Accounted
      <4>3. CASE rec = x /\ p \notin to
        <5>1. CASE [to |-> p, rec |-> x] \in net
          BY <2>1, <5>1 DEF Accounted, Coming
        <5>2. ASSUME NEW g \in Fibers, At(p, g, "apply"), tasks[p][g].rec = x
              PROVE  Accounted(x, p)'
          <6>1. tasks'[p][g] = tasks[p][g]
            BY <2>2, <2>3, <5>2 DEF At
          <6> QED
            BY <5>2, <6>1 DEF Accounted, Coming, At
        <5>3. ASSUME NEW q \in Nodes, NEW g \in Fibers, tasks[q][g].rec = x,
                     \/ At(q, g, "broadcast") /\ q # p
                     \/ At(q, g, "send") /\ p \in tasks[q][g].to
              PROVE  Accounted(x, p)'
          <6>1. tasks'[q][g] = tasks[q][g]
            BY <2>2, <2>3, <4>3, <5>3 DEF At
          <6> QED
            BY <5>3, <6>1 DEF Accounted, Coming, At
        <5> QED
          BY <3>2, <5>1, <5>2, <5>3 DEF Coming
      <4> QED
        BY <4>1, <4>2, <4>3
    <3>3. Accounted(x, p)
      BY <2>4
    <3>4. now' \in Nat /\ now' >= now /\ lost \subseteq lost'
      BY <2>1, <2>2
    <3> QED
      BY <2>2, <3>1, <3>2, <3>3, <3>4, StillAccounted
  <2> QED
    BY <1>a, <2>2, <2>4
<1>11. ASSUME NEW n \in Nodes, NEW f \in Fibers, ApplyIncoming(n, f)
       PROVE  PutAccounted'
  <2> DEFINE rec == tasks[n][f].rec
  <2>1. /\ Resume(n, f, Idle) /\ tasks[n][f].pc = "apply"
        /\ UNCHANGED <<now, net, issued, leftOut, lost>>
        /\ rec.deleted => DeleteShared(n, rec.id)
        /\ ~rec.deleted => PutShared(n, rec)
    BY <1>11 DEF ApplyIncoming, Rest, At
  <2>2. rec \in SharedRecord /\ rec.timestamp \in Nat
    BY <2>1, TaskFields DEF TypeOK, SharedRecord
  <2>3. undone \subseteq undone'
    BY <2>1 DEF DeleteShared, PutShared
  <2>4. ASSUME NEW x \in issued, NEW p \in Nodes, ~x.deleted
        PROVE  Accounted(x, p)'
    <3>1. ASSUME Has(x, p)
          PROVE  Accounted(x, p)'
      <4>1. Has(x, p)' \/ <<x, p>> \in undone'
        BY <2>1, <2>2, <2>4, <3>1, PutHeld, DeleteHeld
      <4> QED
        BY <4>1 DEF Accounted
    <3>2. ASSUME Coming(x, p)
          PROVE  Accounted(x, p)'
      <4>1. CASE rec = x /\ p = n
        <5>1. x \in shared'[p]
          BY <2>1, <2>2, <2>4, <4>1, PutKeeps
        <5> QED
          BY <2>2, <4>1, <5>1 DEF Accounted, Has, WithId
      <4>2. CASE rec # x
        BY <2>1, <2>4, <3>2, <4>2, ComingKept DEF Accounted
      <4>3. CASE rec = x /\ p # n
        <5>1. \A q \in Nodes, g \in Fibers : q # n \/ g # f => tasks'[q][g] = tasks[q][g]
          BY <2>1, Resumed
        <5>2. Coming(x, p)'
          BY <2>1, <3>2, <4>3, <5>1 DEF Coming, At
        <5> QED
          BY <5>2 DEF Accounted
      <4> QED
        BY <4>1, <4>2, <4>3
    <3>3. Accounted(x, p)
      BY <2>4
    <3>4. now' \in Nat /\ now' >= now
      BY <2>1
    <3> QED
      BY <2>1, <2>3, <3>1, <3>2, <3>3, <3>4, StillAccounted
  <2> QED
    BY <1>a, <2>1, <2>4
<1>12. ASSUME NEW n \in Nodes, NEW f \in Fibers, RestorePut(n, f)
       PROVE  PutAccounted'
  <2>1. /\ PutShared(n, tasks[n][f].rec) /\ issued' = issued
        /\ Resume(n, f, RestoreTask(tasks[n][f].todo))
        /\ UNCHANGED <<now, net, leftOut, lost>> /\ undone \subseteq undone'
        /\ tasks[n][f].pc = "restorePut"
    BY <1>12 DEF RestorePut, PutShared, Rest, At
  <2>2. tasks[n][f].rec \in SharedRecord
    BY <2>1, TaskFields DEF TypeOK
  <2>3. ASSUME NEW x \in issued, NEW p \in Nodes, ~x.deleted
        PROVE  Accounted(x, p)'
    <3>1. Has(x, p) => Has(x, p)' \/ <<x, p>> \in undone'
      BY <2>1, <2>2, <2>3, PutHeld
    <3>2. tasks[n][f].pc \notin {"broadcast", "send", "apply"}
      BY <2>1
    <3> QED
      BY <1>b, <2>1, <2>3, <3>1, <3>2
  <2> QED
    BY <1>a, <2>1, <2>3
<1>13. ASSUME NEW n \in Nodes, Restart(n)
       PROVE  PutAccounted'
  <2>1. /\ UNCHANGED <<now, shared, net, issued, leftOut, undone>>
        /\ lost' = lost \cup UNION {CutOff(n, tasks[n][f]) : f \in Fibers}
        /\ \A q \in Nodes \ {n}, g \in Fibers : tasks'[q][g] = tasks[q][g]
    BY <1>13 DEF Restart, TypeOK
  <2>2. ASSUME NEW x \in issued, NEW p \in Nodes, ~x.deleted
        PROVE  Accounted(x, p)'
    <3>1. Has(x, p) => Accounted(x, p)'
      BY <2>1 DEF Accounted, Has, WithId
    <3>2. ASSUME Coming(x, p)
          PROVE  Accounted(x, p)'
      <4>1. CASE [to |-> p, rec |-> x] \in net
        BY <2>1, <4>1 DEF Accounted, Coming
      <4>2. ASSUME NEW g \in Fibers, At(p, g, "apply"), tasks[p][g].rec = x
            PROVE  Accounted(x, p)'
        <5>1. CASE p = n
          <6>1. <<x, p>> \in CutOff(n, tasks[n][g])
            BY <4>2, <5>1 DEF CutOff, At
          <6> QED
            BY <2>1, <6>1 DEF Accounted
        <5>2. CASE p # n
          BY <2>1, <4>2, <5>2 DEF Accounted, Coming, At
        <5> QED
          BY <5>1, <5>2
      <4>3. ASSUME NEW q \in Nodes, NEW g \in Fibers, tasks[q][g].rec = x,
                   \/ At(q, g, "broadcast") /\ q # p
                   \/ At(q, g, "send") /\ p \in tasks[q][g].to
            PROVE  Accounted(x, p)'
        <5>1. CASE q = n
          <6>1. <<x, p>> \in CutOff(n, tasks[n][g])
            BY <4>3, <5>1 DEF CutOff, At, Others
          <6> QED
            BY <2>1, <6>1 DEF Accounted
        <5>2. CASE q # n
          BY <2>1, <4>3, <5>2 DEF Accounted, Coming, At
        <5> QED
          BY <5>1, <5>2
      <4> QED
        BY <3>2, <4>1, <4>2, <4>3 DEF Coming
    <3>3. Accounted(x, p)
      BY <2>2
    <3>4. now' \in Nat /\ now' >= now /\ lost \subseteq lost'
      BY <2>1
    <3> QED
      BY <2>1, <2>2, <3>1, <3>2, <3>3, <3>4, StillAccounted
  <2> QED
    BY <1>a, <2>1, <2>2
<1> QED
  BY <1>1, <1>2, <1>3, <1>4, <1>5, <1>6, <1>7, <1>8, <1>9, <1>10, <1>11, <1>12, <1>13
     DEF Next, Progress

\* A put is accounted for at every member, whatever calls overlap, whatever the clocks show,
\* whatever is lost and whenever members restart (groupshare.ts:316-344, 433-465, 494-521):
\* it is there, or a newer one; it is coming; it has expired or may not be read; its topic is
\* left out of the member's subscription as the writer knew it; the send was lost or cut off;
\* or the member had it and deleted it or wrote over it.
THEOREM PutsAreAccountedFor == Spec => []PutAccounted
<1>1. Init => PutAccounted
  BY DEF Init, PutAccounted
<1>2. TypeOK /\ PutAccounted /\ [Next]_vars => PutAccounted'
  BY AccountedStep
<1> QED
  BY <1>1, <1>2, TypeCorrect, PTL DEF Spec

=============================================================================
