--------------------------- MODULE MembershipProofs ---------------------------
(***************************************************************************)
(* Theorems about Membership, for any users, roles and invitations.        *)
(*                                                                         *)
(* Both safety theorems hold whatever calls overlap.  Roles are only ever  *)
(* copied from place to place or decided on by an administrator.  An       *)
(* invitation is used again only by a request that overlapped the first:   *)
(* OverlapInv says what a node knows of the requests it is accepting.      *)
(***************************************************************************)
EXTENDS Membership, TLAPS

\* the stages of accept that look at the join request
Requested == {"check", "nonce", "addRead", "consume", "snapshot"}

\* a task that accepts has a request, and it is one to its node
WithRequest(n, t) ==
  /\ t.pc \in Requested => t.req \in Request
  /\ t.req \in Request => t.req.to = n

Typed == TypeOK /\ \A n \in DIDs, f \in Fibers : WithRequest(n, tasks[n][f])

\* the fields of a task that was just resumed
LEMMA ResumeFacts ==
  ASSUME Typed, NEW n \in DIDs, NEW f \in Fibers, NEW t \in Task,
         WithRequest(n, t), Resume(n, f, t)
  PROVE  /\ tasks' \in [DIDs -> [Fibers -> Task]]
         /\ tasks'[n][f] = t
         /\ \A m \in DIDs, g \in Fibers : <<m, g>> # <<n, f>> => tasks'[m][g] = tasks[m][g]
         /\ \A m \in DIDs, g \in Fibers : WithRequest(m, tasks'[m][g])
<1>1. tasks \in [DIDs -> [Fibers -> Task]]
  BY DEF Typed, TypeOK
<1>2. /\ tasks' \in [DIDs -> [Fibers -> Task]]
      /\ tasks'[n][f] = t
      /\ \A m \in DIDs, g \in Fibers : <<m, g>> # <<n, f>> => tasks'[m][g] = tasks[m][g]
  BY <1>1 DEF Resume
<1>3. ASSUME NEW m \in DIDs, NEW g \in Fibers
      PROVE  WithRequest(m, tasks'[m][g])
  <2>1. CASE <<m, g>> = <<n, f>>
    BY <2>1, <1>2
  <2>2. CASE <<m, g>> # <<n, f>>
    BY <2>2, <1>2 DEF Typed
  <2> QED
    BY <2>1, <2>2
<1> QED
  BY <1>2, <1>3

\* changing one user's role in a view gives a view
LEMMA ViewFacts ==
  ASSUME NEW v \in View, NEW d \in DIDs, NEW r \in Roles \cup {Out}
  PROVE  /\ [v EXCEPT ![d] = r] \in View
         /\ \A x \in DIDs : [v EXCEPT ![d] = r][x] = IF x = d THEN r ELSE v[x]
  BY DEF View

\* the absence of a request is not a request
LEMMA NoRequestFacts == NoRequest \notin Request /\ NoInvite \notin Invites
  BY MembershipAssumption DEF NoRequest, Request

\* an idle task is a task, without a request and with empty views
LEMMA IdleFacts ==
  /\ Idle \in Task
  /\ Idle.req = NoRequest
  /\ NoNetwork \in View /\ Members(NoNetwork) = {}
  /\ \A n \in DIDs : WithRequest(n, Idle)
  BY NoRequestFacts DEF Idle, Task, Stage, NoNetwork, View, Members, WithRequest, Requested

\* the tasks of administration and publication have no request
LEMMA FreshTask ==
  ASSUME NEW s \in Stage \ Requested, NEW v \in View, NEW e \in Nat, NEW n \in DIDs
  PROVE  LET t == [Idle EXCEPT !.pc = s, !.copy = v, !.at = e]
             u == [Idle EXCEPT !.pc = s, !.copy = v]
             w == [Idle EXCEPT !.pc = s, !.at = e]
             x == [Idle EXCEPT !.pc = s]
         IN /\ {t, u, w, x} \subseteq Task
            /\ WithRequest(n, t) /\ WithRequest(n, u) /\ WithRequest(n, w) /\ WithRequest(n, x)
  BY IdleFacts, NoRequestFacts DEF Task, Idle, WithRequest

\* a task that goes on keeps its request
LEMMA NextTask ==
  ASSUME NEW n \in DIDs, NEW t \in Task, WithRequest(n, t), NEW s \in Stage, NEW v \in View,
         s \in Requested => t.pc \in Requested \/ t.req \in Request
  PROVE  LET u == [t EXCEPT !.pc = s]
             w == [t EXCEPT !.pc = s, !.base = v]
             x == [t EXCEPT !.pc = s, !.copy = v]
         IN /\ {u, w, x} \subseteq Task
            /\ WithRequest(n, u) /\ WithRequest(n, w) /\ WithRequest(n, x)
  BY DEF Task, WithRequest

\* the types of the fields of every task
LEMMA TaskFacts ==
  ASSUME Typed
  PROVE  \A n \in DIDs, f \in Fibers :
           /\ tasks[n][f] \in Task
           /\ WithRequest(n, tasks[n][f])
           /\ tasks[n][f].req \in Request \cup {NoRequest}
           /\ tasks[n][f].base \in View
           /\ tasks[n][f].copy \in View
           /\ tasks[n][f].at \in Nat
           /\ view[n] \in View
  BY DEF Task, Typed, TypeOK

\* every node's clock shows a natural number
LEMMA ClockType == ASSUME TypeOK, NEW n \in DIDs PROVE Clock(n) \in Nat
  BY MembershipAssumption DEF TypeOK, Clock

\* an answer to a join request is a reply
LEMMA AnswerType ==
  ASSUME NEW t \in Task
  PROVE  Answer(t) \subseteq Reply
  BY DEF Answer, Task, Reply, Request

-----------------------------------------------------------------------------
(* Types *)

\* an edited copy waits to be written
LEMMA EditTyped ==
  ASSUME Typed, NEW n \in DIDs, NEW f \in Fibers, NEW v \in View, Edit(n, f, v),
         calls' \in Nat, granted' \subseteq DIDs \X Roles
  PROVE  Typed'
<1>1. "write" \in Stage \ Requested
  BY DEF Stage, Requested
<1>2. /\ [Idle EXCEPT !.pc = "write", !.copy = v] \in Task
      /\ WithRequest(n, [Idle EXCEPT !.pc = "write", !.copy = v])
  BY <1>1, FreshTask
<1> QED
  BY <1>2, ResumeFacts DEF Edit, Typed, TypeOK

\* every action keeps the types and the requests of accepting calls
LEMMA TypeStep ==
  ASSUME Typed, [Next]_vars
  PROVE  Typed'
<1>t. \A n \in DIDs, f \in Fibers :
        /\ tasks[n][f] \in Task
        /\ WithRequest(n, tasks[n][f])
        /\ tasks[n][f].req \in Request \cup {NoRequest}
        /\ tasks[n][f].base \in View
        /\ tasks[n][f].copy \in View
        /\ tasks[n][f].at \in Nat
        /\ view[n] \in View
  BY TaskFacts
<1>s. /\ {"idle", "write", "publish", "send", "metaPut", "metaEpoch"} \subseteq Stage \ Requested
      /\ {"check", "nonce", "addRead", "consume", "snapshot"} = Requested
      /\ Requested \subseteq Stage
  BY DEF Stage, Requested
<1>1. CASE UNCHANGED vars
  BY <1>1 DEF vars, Typed, TypeOK
<1>2. CASE Tick
  BY <1>2, MembershipAssumption DEF Tick, Typed, TypeOK
<1>3. ASSUME NEW n \in DIDs, NEW f \in Fibers, Leave(n, f)
      PROVE  Typed'
  <2>1. [view[n] EXCEPT ![n] = Out] \in View
    BY <1>t, ViewFacts
  <2>2. calls' \in Nat /\ granted' \subseteq DIDs \X Roles
    BY <1>3 DEF Leave, Call, Typed, TypeOK
  <2> QED
    BY <1>3, <2>1, <2>2, EditTyped DEF Leave
<1>4. ASSUME NEW n \in DIDs, NEW f \in Fibers, NEW d \in DIDs, Kick(n, f, d)
      PROVE  Typed'
  <2>1. [view[n] EXCEPT ![d] = Out] \in View
    BY <1>t, ViewFacts
  <2>2. calls' \in Nat /\ granted' \subseteq DIDs \X Roles
    BY <1>4 DEF Kick, Call, Typed, TypeOK
  <2> QED
    BY <1>4, <2>1, <2>2, EditTyped DEF Kick
<1>5. ASSUME NEW n \in DIDs, NEW f \in Fibers, NEW d \in DIDs, NEW r \in Roles,
             SetMemberRole(n, f, d, r) \/ AddMember(n, f, d, r)
      PROVE  Typed'
  <2>1. [view[n] EXCEPT ![d] = r] \in View
    BY <1>t, ViewFacts
  <2>2. calls' \in Nat /\ granted' \subseteq DIDs \X Roles
    BY <1>5 DEF SetMemberRole, AddMember, Call, Typed, TypeOK
  <2> QED
    BY <1>5, <2>1, <2>2, EditTyped DEF SetMemberRole, AddMember
<1>7. ASSUME NEW n \in DIDs, NEW f \in Fibers, Publish(n, f)
      PROVE  Typed'
  <2>1. LET t == [Idle EXCEPT !.pc = "publish"] IN t \in Task /\ WithRequest(n, t)
    BY <1>s, <1>t, FreshTask
  <2> QED
    BY <1>7, <2>1, ResumeFacts DEF Publish, Call, Typed, TypeOK
<1>8. ASSUME NEW n \in DIDs, NEW f \in Fibers, NEW a \in DIDs, NEW i \in Invites,
             RequestJoin(n, f, a, i)
      PROVE  Typed'
  BY <1>8 DEF RequestJoin, Call, Request, Typed, TypeOK
<1>9. ASSUME NEW n \in DIDs, NEW f \in Fibers, NEW q \in requests, HandleJoin(n, f, q)
      PROVE  Typed'
  <2>1. q \in Request /\ q.to = n
    BY <1>9 DEF Typed, TypeOK, HandleJoin
  <2>2. LET t == [Idle EXCEPT !.pc = "check", !.req = q] IN t \in Task /\ WithRequest(n, t)
    BY <1>s, <2>1, IdleFacts DEF Task, Idle, WithRequest
  <2>3. InProgress(n) \subseteq Request
    BY <1>t DEF InProgress
  <2>4. overlapped' \subseteq SUBSET Request
    BY <1>9, <2>1, <2>3 DEF HandleJoin, Typed, TypeOK
  <2>5. CASE UNCHANGED tasks
    BY <1>9, <2>4, <2>5 DEF HandleJoin, Typed, TypeOK
  <2>6. CASE Resume(n, f, [Idle EXCEPT !.pc = "check", !.req = q])
    <3>1. /\ tasks' \in [DIDs -> [Fibers -> Task]]
          /\ \A m \in DIDs, g \in Fibers : WithRequest(m, tasks'[m][g])
      BY <2>2, <2>6, ResumeFacts
    <3> QED
      BY <1>9, <2>4, <3>1 DEF HandleJoin, Typed, TypeOK
  <2> QED
    BY <1>9, <2>5, <2>6 DEF HandleJoin
<1>10. ASSUME NEW n \in DIDs, NEW f \in Fibers, NEW r \in replies, ReceiveReply(n, f, r)
       PROVE  Typed'
  <2>1. r.snapshot \in View
    BY DEF Reply, Typed, TypeOK
  <2>2. Clock(n) \in Nat
    BY ClockType DEF Typed
  <2>3. LET t == [Idle EXCEPT !.pc = "metaEpoch", !.at = Clock(n)]
        IN t \in Task /\ WithRequest(n, t)
    BY <1>s, <1>t, <2>2, FreshTask
  <2>4. view' \in [DIDs -> View]
    BY <1>10, <2>1 DEF ReceiveReply, Typed, TypeOK
  <2>5. /\ tasks' \in [DIDs -> [Fibers -> Task]]
        /\ \A m \in DIDs, g \in Fibers : WithRequest(m, tasks'[m][g])
    BY <1>10, <2>3, ResumeFacts DEF ReceiveReply, Typed, TypeOK
  <2> QED
    BY <1>10, <2>4, <2>5 DEF ReceiveReply, Rest, Typed, TypeOK
<1>11. ASSUME NEW n \in DIDs, NEW f \in Fibers, NEW m \in metas, HandleMeta(n, f, m)
       PROVE  Typed'
  <2>1. m.members \in View /\ m.at \in Nat
    BY DEF Meta, Typed, TypeOK
  <2>2. LET t == [Idle EXCEPT !.pc = "metaPut", !.copy = m.members, !.at = m.at]
        IN t \in Task /\ WithRequest(n, t)
    BY <1>s, <2>1, FreshTask
  <2> QED
    BY <1>11, <2>2, ResumeFacts DEF HandleMeta, Rest, Typed, TypeOK
<1>12. ASSUME NEW n \in DIDs, NEW f \in Fibers, Write(n, f)
       PROVE  Typed'
  <2>1. view' \in [DIDs -> View]
    BY <1>12, <1>t DEF Write, Typed, TypeOK
  <2>2. CASE Resume(n, f, Idle) /\ UNCHANGED admitted
    <3>1. /\ tasks' \in [DIDs -> [Fibers -> Task]]
          /\ \A m \in DIDs, g \in Fibers : WithRequest(m, tasks'[m][g])
      BY <2>2, ResumeFacts, IdleFacts
    <3> QED
      BY <1>12, <2>1, <2>2, <3>1 DEF Write, Rest, Typed, TypeOK
  <2>3. CASE /\ tasks[n][f].req # NoRequest
             /\ Resume(n, f, [tasks[n][f] EXCEPT !.pc = "consume"])
             /\ admitted' = admitted \cup {tasks[n][f].req}
    <3>1. tasks[n][f].req \in Request
      BY <1>t, <2>3
    <3>2. LET t == [tasks[n][f] EXCEPT !.pc = "consume"] IN t \in Task /\ WithRequest(n, t)
      BY <1>s, <1>t, <3>1, NextTask
    <3>3. /\ tasks' \in [DIDs -> [Fibers -> Task]]
          /\ \A m \in DIDs, g \in Fibers : WithRequest(m, tasks'[m][g])
      BY <2>3, <3>2, ResumeFacts
    <3> QED
      BY <1>12, <2>1, <2>3, <3>1, <3>3 DEF Write, Rest, Typed, TypeOK
  <2> QED
    BY <1>12, <2>2, <2>3 DEF Write
<1>13. ASSUME NEW n \in DIDs, NEW f \in Fibers, AcceptCheck(n, f)
       PROVE  Typed'
  <2>1. LET t == [tasks[n][f] EXCEPT !.pc = "nonce", !.base = view[n]]
        IN t \in Task /\ WithRequest(n, t)
    BY <1>13, <1>s, <1>t, NextTask DEF AcceptCheck, At
  <2> QED
    BY <1>13, <2>1, ResumeFacts, IdleFacts DEF AcceptCheck, Rest, Typed, TypeOK
<1>14. ASSUME NEW n \in DIDs, NEW f \in Fibers, AcceptNonce(n, f)
       PROVE  Typed'
  <2>1. LET t == [tasks[n][f] EXCEPT !.pc = "addRead"] IN t \in Task /\ WithRequest(n, t)
    BY <1>14, <1>s, <1>t, NextTask DEF AcceptNonce, At
  <2> QED
    BY <1>14, <2>1, ResumeFacts, IdleFacts DEF AcceptNonce, Rest, Typed, TypeOK
<1>15. ASSUME NEW n \in DIDs, NEW f \in Fibers, AcceptAddRead(n, f)
       PROVE  Typed'
  <2> DEFINE q == tasks[n][f].req
  <2>1. q \in Request
    BY <1>15, <1>s, <1>t DEF AcceptAddRead, At, WithRequest
  <2>2. q.from \in DIDs /\ q.invite.role \in Roles
    BY <2>1, MembershipAssumption DEF Request, Invite
  <2>3. Admit(view[n], q) \in View
    BY <1>t, <2>2, ViewFacts DEF Admit
  <2>4. LET t == [tasks[n][f] EXCEPT !.pc = "write", !.copy = Admit(view[n], q)]
        IN t \in Task /\ WithRequest(n, t)
    BY <1>s, <1>t, <2>3, NextTask
  <2> QED
    BY <1>15, <2>2, <2>4, ResumeFacts, IdleFacts DEF AcceptAddRead, Typed, TypeOK
<1>16. ASSUME NEW n \in DIDs, NEW f \in Fibers, AcceptConsume(n, f)
       PROVE  Typed'
  <2>1. tasks[n][f].req \in Request
    BY <1>16, <1>s, <1>t DEF AcceptConsume, At, WithRequest
  <2>2. LET t == [tasks[n][f] EXCEPT !.pc = "snapshot"] IN t \in Task /\ WithRequest(n, t)
    BY <1>s, <1>t, <2>1, NextTask
  <2> QED
    BY <1>16, <2>1, <2>2, ResumeFacts DEF AcceptConsume, Rest, Typed, TypeOK, Request
<1>17. ASSUME NEW n \in DIDs, NEW f \in Fibers, AcceptSnapshot(n, f)
       PROVE  Typed'
  <2>1. SnapshotOf(n, tasks[n][f]) \in View
    BY <1>t DEF SnapshotOf
  <2>2. LET t == [tasks[n][f] EXCEPT !.pc = "publish", !.base = SnapshotOf(n, tasks[n][f])]
        IN t \in Task /\ WithRequest(n, t)
    BY <1>s, <1>t, <2>1, NextTask
  <2> QED
    BY <1>17, <2>2, ResumeFacts DEF AcceptSnapshot, Rest, Typed, TypeOK
<1>18. ASSUME NEW n \in DIDs, NEW f \in Fibers, PublishRead(n, f)
       PROVE  Typed'
  <2>1. LET t == [tasks[n][f] EXCEPT !.pc = "send", !.copy = view[n]]
        IN t \in Task /\ WithRequest(n, t)
    BY <1>s, <1>t, NextTask
  <2>2. Answer(tasks[n][f]) \subseteq Reply
    BY <1>t, AnswerType
  <2> QED
    BY <1>18, <2>1, <2>2, ResumeFacts, IdleFacts DEF PublishRead, Rest, Typed, TypeOK
<1>19. ASSUME NEW n \in DIDs, NEW f \in Fibers, PublishSend(n, f)
       PROVE  Typed'
  <2>1. Clock(n) \in Nat
    BY ClockType DEF Typed
  <2>2. epoch' \in [DIDs -> Nat]
    BY <1>19, <2>1 DEF PublishSend, Typed, TypeOK
  <2>3. metas' \subseteq Meta
    BY <1>19, <1>t, <2>1 DEF PublishSend, Members, Meta, Typed, TypeOK
  <2>4. replies' \subseteq Reply
    BY <1>19, <1>t, AnswerType DEF PublishSend, Typed, TypeOK
  <2> QED
    BY <1>19, <2>2, <2>3, <2>4, ResumeFacts, IdleFacts DEF PublishSend, Rest, Typed, TypeOK
<1>20. ASSUME NEW n \in DIDs, NEW f \in Fibers, MetaPut(n, f)
       PROVE  Typed'
  <2>1. LET t == [Idle EXCEPT !.pc = "metaEpoch", !.at = tasks[n][f].at]
        IN t \in Task /\ WithRequest(n, t)
    BY <1>s, <1>t, FreshTask
  <2>2. view' \in [DIDs -> View]
    BY <1>20, <1>t DEF MetaPut, Typed, TypeOK
  <2>3. /\ tasks' \in [DIDs -> [Fibers -> Task]]
        /\ \A m \in DIDs, g \in Fibers : WithRequest(m, tasks'[m][g])
    BY <1>20, <2>1, ResumeFacts, IdleFacts DEF MetaPut
  <2> QED
    BY <1>20, <2>2, <2>3 DEF MetaPut, Rest, Typed, TypeOK
<1>21. ASSUME NEW n \in DIDs, NEW f \in Fibers, MetaEpoch(n, f)
       PROVE  Typed'
  BY <1>21, <1>t, ResumeFacts, IdleFacts DEF MetaEpoch, Rest, Typed, TypeOK
<1> QED
  BY <1>1, <1>2, <1>3, <1>4, <1>5, <1>7, <1>8, <1>9, <1>10, <1>11, <1>12, <1>13, <1>14,
     <1>15, <1>16, <1>17, <1>18, <1>19, <1>20, <1>21 DEF Next

\* the types hold at the start
LEMMA TypedInit == Init => Typed
  BY MembershipAssumption, IdleFacts DEF Init, Typed, TypeOK, View, NoNetwork

\* the types hold always
LEMMA TypedInvariant == Spec => []Typed
  BY TypedInit, TypeStep, PTL DEF Spec

\* Every variable keeps its type, whatever calls overlap.
THEOREM TypeCorrect == Spec => []TypeOK
  BY TypedInvariant, PTL DEF Typed

-----------------------------------------------------------------------------
(* Roles come from administrators *)

\* everybody in v has a role that G records
Within(v, G) == \A d \in Members(v) : <<d, v[d]>> \in G

\* removing a user, or giving a role that is granted, stays within what is granted
LEMMA WithinFacts ==
  ASSUME NEW G, NEW H, G \subseteq H, NEW v \in View, Within(v, G), NEW d \in DIDs, NEW r \in Roles
  PROVE  /\ Within(v, H)
         /\ Within([v EXCEPT ![d] = Out], H)
         /\ <<d, r>> \in H => Within([v EXCEPT ![d] = r], H)
<1>1. Within(v, H)
  BY DEF Within
<1>2. Within([v EXCEPT ![d] = Out], H)
  BY <1>1, ViewFacts DEF Within, Members
<1>3. ASSUME <<d, r>> \in H
      PROVE  Within([v EXCEPT ![d] = r], H)
  BY <1>1, <1>3, ViewFacts DEF Within, Members
<1> QED
  BY <1>1, <1>2, <1>3

\* both copies of task t are within G
Carries(t, G) == Within(t.base, G) /\ Within(t.copy, G)

\* an idle task carries no roles
LEMMA IdleCarries == \A G : Within(NoNetwork, G) /\ Carries(Idle, G)
  BY IdleFacts DEF Within, Carries, Idle

\* a task that goes on carries what it carried and the view it was given
LEMMA CarriesFacts ==
  ASSUME NEW G, NEW t \in Task, Carries(t, G), NEW v, Within(v, G), NEW s, NEW e
  PROVE  /\ Carries([t EXCEPT !.pc = s], G)
         /\ Carries([t EXCEPT !.pc = s, !.base = v], G)
         /\ Carries([t EXCEPT !.pc = s, !.copy = v], G)
         /\ Carries([t EXCEPT !.pc = s, !.req = e], G)
         /\ Carries([t EXCEPT !.pc = s, !.at = e], G)
         /\ Carries([t EXCEPT !.pc = s, !.copy = v, !.at = e], G)
  BY DEF Carries, Task

\* what Resume changes, whatever the task
LEMMA ResumeOnly ==
  ASSUME Typed, NEW n \in DIDs, NEW f \in Fibers, NEW t, Resume(n, f, t)
  PROVE  /\ tasks'[n][f] = t
         /\ \A m \in DIDs, g \in Fibers : <<m, g>> # <<n, f>> => tasks'[m][g] = tasks[m][g]
  BY DEF Resume, Typed, TypeOK

\* a step keeps GrantedOnly when every view it makes is within what is granted
LEMMA GrantedKept ==
  ASSUME Typed, GrantedOnly, granted \subseteq granted',
         \A n \in DIDs : view'[n] = view[n] \/ Within(view'[n], granted'),
         \A n \in DIDs, f \in Fibers :
          tasks'[n][f] = tasks[n][f] \/ Carries(tasks'[n][f], granted'),
         \A r \in replies' : r \in replies \/ Within(r.snapshot, granted'),
         \A m \in metas' : m \in metas \/ Within(m.members, granted')
  PROVE  GrantedOnly'
<1>1. \A n \in DIDs : Granted(view[n])'
  BY DEF GrantedOnly, Granted, Within, Members
<1>2. \A n \in DIDs, f \in Fibers : (Granted(tasks[n][f].base) /\ Granted(tasks[n][f].copy))'
  BY DEF GrantedOnly, Granted, Within, Carries, Members
<1>3. \A r \in replies' : Granted(r.snapshot)'
  BY DEF GrantedOnly, Granted, Within, Members
<1>4. \A m \in metas' : Granted(m.members)'
  BY DEF GrantedOnly, Granted, Within, Members
<1> QED
  BY <1>1, <1>2, <1>3, <1>4 DEF GrantedOnly

\* resuming one task changes what that task carries only
LEMMA ResumeCarries ==
  ASSUME Typed, NEW G, NEW n \in DIDs, NEW f \in Fibers, NEW t, Resume(n, f, t), Carries(t, G)
  PROVE  \A m \in DIDs, g \in Fibers : tasks'[m][g] = tasks[m][g] \/ Carries(tasks'[m][g], G)
  BY ResumeOnly

\* writing one node's view changes that view only
LEMMA WriteViews ==
  ASSUME Typed, NEW G, NEW n \in DIDs, NEW v, view' = [view EXCEPT ![n] = v], Within(v, G)
  PROVE  \A m \in DIDs : view'[m] = view[m] \/ Within(view'[m], G)
  BY DEF Typed, TypeOK

\* a step that only resumes a task whose copies are within what is granted
LEMMA ResumeGranted ==
  ASSUME Typed, GrantedOnly, granted \subseteq granted', UNCHANGED <<view, replies, metas>>,
         NEW n \in DIDs, NEW f \in Fibers, NEW t, Resume(n, f, t),
         Carries(t, granted')
  PROVE  GrantedOnly'
  BY ResumeCarries, GrantedKept

\* an edited copy is within what is granted
LEMMA EditGranted ==
  ASSUME Typed, GrantedOnly, granted \subseteq granted',
         NEW n \in DIDs, NEW f \in Fibers, NEW v \in View, Edit(n, f, v), Within(v, granted')
  PROVE  GrantedOnly'
<1>1. Carries([Idle EXCEPT !.pc = "write", !.copy = v], granted')
  BY IdleFacts, IdleCarries, CarriesFacts
<1> QED
  BY <1>1, ResumeGranted DEF Edit

\* every action copies roles from where GrantedOnly speaks of, or grants them
LEMMA GrantedStep ==
  ASSUME Typed, GrantedOnly, [Next]_vars
  PROVE  GrantedOnly'
<1>g. /\ \A n \in DIDs : Within(view[n], granted)
      /\ \A n \in DIDs, f \in Fibers : Carries(tasks[n][f], granted)
      /\ \A r \in replies : Within(r.snapshot, granted)
      /\ \A m \in metas : Within(m.members, granted)
  BY DEF GrantedOnly, Granted, Within, Carries
<1>t. \A n \in DIDs, f \in Fibers : view[n] \in View /\ tasks[n][f] \in Task
  BY TaskFacts
<1>i. Idle \in Task /\ \A G : Within(NoNetwork, G) /\ Carries(Idle, G)
  BY IdleFacts, IdleCarries
<1>0. ASSUME UNCHANGED <<view, tasks, replies, metas, granted>>
      PROVE  GrantedOnly'
  BY <1>0, GrantedKept
<1>1. CASE UNCHANGED vars
  BY <1>1, <1>0 DEF vars
<1>2. CASE Tick
  BY <1>2, <1>0 DEF Tick
<1>3. ASSUME NEW n \in DIDs, NEW f \in Fibers, NEW d \in DIDs,
             (d = n /\ Leave(n, f)) \/ Kick(n, f, d)
      PROVE  GrantedOnly'
  <2>1. [view[n] EXCEPT ![d] = Out] \in View
    BY <1>t, ViewFacts
  <2>2. AdminRole \in Roles /\ granted \subseteq granted'
    BY <1>3, MembershipAssumption DEF Leave, Kick
  <2>3. Within([view[n] EXCEPT ![d] = Out], granted')
    BY <1>g, <1>t, <2>2, WithinFacts
  <2> QED
    BY <1>3, <2>1, <2>2, <2>3, EditGranted DEF Leave, Kick
<1>5. ASSUME NEW n \in DIDs, NEW f \in Fibers, NEW d \in DIDs, NEW r \in Roles,
             SetMemberRole(n, f, d, r) \/ AddMember(n, f, d, r)
      PROVE  GrantedOnly'
  <2>1. [view[n] EXCEPT ![d] = r] \in View
    BY <1>t, ViewFacts
  <2>2. granted \subseteq granted' /\ <<d, r>> \in granted'
    BY <1>5 DEF SetMemberRole, AddMember
  <2>3. Within([view[n] EXCEPT ![d] = r], granted')
    BY <1>g, <1>t, <2>2, WithinFacts
  <2> QED
    BY <1>5, <2>1, <2>2, <2>3, EditGranted DEF SetMemberRole, AddMember
<1>7. ASSUME NEW n \in DIDs, NEW f \in Fibers, Publish(n, f)
      PROVE  GrantedOnly'
  BY <1>7, <1>i, CarriesFacts, ResumeGranted DEF Publish
<1>8. ASSUME NEW n \in DIDs, NEW f \in Fibers, NEW a \in DIDs, NEW i \in Invites,
             RequestJoin(n, f, a, i)
      PROVE  GrantedOnly'
  BY <1>8, <1>0 DEF RequestJoin
<1>9. ASSUME NEW n \in DIDs, NEW f \in Fibers, NEW q \in requests, HandleJoin(n, f, q)
      PROVE  GrantedOnly'
  BY <1>9, <1>0, <1>i, CarriesFacts, ResumeGranted DEF HandleJoin
<1>10. ASSUME NEW n \in DIDs, NEW f \in Fibers, NEW r \in replies, ReceiveReply(n, f, r)
       PROVE  GrantedOnly'
  <2>1. UNCHANGED <<granted, metas>> /\ replies' \subseteq replies
    BY <1>10 DEF ReceiveReply, Rest
  <2>2. CASE UNCHANGED <<view, tasks>>
    BY <2>1, <2>2, GrantedKept
  <2>3. CASE /\ view' = [view EXCEPT ![n] = r.snapshot]
             /\ Resume(n, f, [Idle EXCEPT !.pc = "metaEpoch", !.at = Clock(n)])
    <3>1. Carries([Idle EXCEPT !.pc = "metaEpoch", !.at = Clock(n)], granted)
      BY <1>i, CarriesFacts
    <3> QED
      BY <1>g, <2>1, <2>3, <3>1, WriteViews, ResumeCarries, GrantedKept
  <2> QED
    BY <1>10, <2>2, <2>3 DEF ReceiveReply
<1>11. ASSUME NEW n \in DIDs, NEW f \in Fibers, NEW m \in metas, HandleMeta(n, f, m)
       PROVE  GrantedOnly'
  <2>1. UNCHANGED <<granted, view, replies>> /\ metas' \subseteq metas
    BY <1>11 DEF HandleMeta, Rest
  <2>2. CASE UNCHANGED tasks
    BY <2>1, <2>2, GrantedKept
  <2>3. CASE Resume(n, f, [Idle EXCEPT !.pc = "metaPut", !.copy = m.members, !.at = m.at])
    <3>1. Carries([Idle EXCEPT !.pc = "metaPut", !.copy = m.members, !.at = m.at], granted)
      BY <1>g, <1>i, CarriesFacts
    <3> QED
      BY <2>1, <2>3, <3>1, ResumeCarries, GrantedKept
  <2> QED
    BY <1>11, <2>2, <2>3 DEF HandleMeta
<1>12. ASSUME NEW n \in DIDs, NEW f \in Fibers, Write(n, f)
       PROVE  GrantedOnly'
  <2>1. UNCHANGED <<granted, replies, metas>>
    BY <1>12 DEF Write, Rest
  <2>2. \A m \in DIDs : view'[m] = view[m] \/ Within(view'[m], granted)
    <3>1. Within(tasks[n][f].copy, granted)
      BY <1>g DEF Carries
    <3> QED
      BY <1>12, <3>1, WriteViews DEF Write
  <2>3. PICK t : Resume(n, f, t) /\ Carries(t, granted)
    <3>1. Carries([tasks[n][f] EXCEPT !.pc = "consume"], granted)
      BY <1>g, <1>i, <1>t, CarriesFacts
    <3> QED
      BY <1>12, <1>i, <3>1 DEF Write
  <2> QED
    BY <2>1, <2>2, <2>3, ResumeCarries, GrantedKept
<1>13. ASSUME NEW n \in DIDs, NEW f \in Fibers,
              AcceptCheck(n, f) \/ AcceptNonce(n, f) \/ AcceptConsume(n, f) \/ AcceptSnapshot(n, f)
       PROVE  GrantedOnly'
  <2>1. UNCHANGED <<granted, view, replies, metas>>
    BY <1>13 DEF AcceptCheck, AcceptNonce, AcceptConsume, AcceptSnapshot, Rest
  <2>2. PICK t : Resume(n, f, t) /\ Carries(t, granted)
    <3>1. CASE AcceptCheck(n, f)
      BY <3>1, <1>g, <1>i, <1>t, CarriesFacts DEF AcceptCheck
    <3>2. CASE AcceptNonce(n, f)
      BY <3>2, <1>g, <1>i, <1>t, CarriesFacts DEF AcceptNonce
    <3>3. CASE AcceptConsume(n, f)
      BY <3>3, <1>g, <1>t, CarriesFacts DEF AcceptConsume
    <3>4. CASE AcceptSnapshot(n, f)
      <4>1. Within(SnapshotOf(n, tasks[n][f]), granted)
        BY <1>g DEF SnapshotOf, Carries
      <4> QED
        BY <3>4, <4>1, <1>g, <1>t, CarriesFacts DEF AcceptSnapshot
    <3> QED
      BY <1>13, <3>1, <3>2, <3>3, <3>4
  <2> QED
    BY <2>1, <2>2, ResumeGranted
<1>15. ASSUME NEW n \in DIDs, NEW f \in Fibers, AcceptAddRead(n, f)
       PROVE  GrantedOnly'
  <2> DEFINE q == tasks[n][f].req
  <2>1. q.from \in DIDs /\ q.invite.role \in Roles
    <3>1. q \in Request
      BY <1>15, TaskFacts DEF AcceptAddRead, At, WithRequest, Requested
    <3> QED
      BY <3>1, MembershipAssumption DEF Request, Invite
  <2>2. UNCHANGED <<view, replies, metas>> /\ granted \subseteq granted'
    BY <1>15 DEF AcceptAddRead
  <2>3. CASE /\ Resume(n, f, [tasks[n][f] EXCEPT !.pc = "write", !.copy = Admit(view[n], q)])
             /\ granted' = granted \cup {<<q.from, q.invite.role>>}
    <3>1. Within(Admit(view[n], q), granted')
      BY <1>g, <1>t, <2>1, <2>3, WithinFacts DEF Admit
    <3>2. Carries(tasks[n][f], granted')
      BY <1>g, <2>2 DEF Within, Carries
    <3> QED
      BY <1>t, <2>2, <2>3, <3>1, <3>2, CarriesFacts, ResumeGranted
  <2>4. CASE Resume(n, f, Idle)
    BY <1>i, <2>2, <2>4, ResumeGranted
  <2> QED
    BY <1>15, <2>3, <2>4 DEF AcceptAddRead
<1>18. ASSUME NEW n \in DIDs, NEW f \in Fibers, PublishRead(n, f) \/ PublishSend(n, f)
       PROVE  GrantedOnly'
  <2>1. UNCHANGED <<granted, view>>
    BY <1>18 DEF PublishRead, PublishSend, Rest
  <2>2. Within(tasks[n][f].base, granted) /\ Within(tasks[n][f].copy, granted)
    BY <1>g DEF Carries
  <2>3. \A r \in replies' : r \in replies \/ Within(r.snapshot, granted)
    <3>1. \A r \in Answer(tasks[n][f]) : Within(r.snapshot, granted)
      BY <2>2 DEF Answer
    <3>2. replies' \subseteq replies \cup Answer(tasks[n][f])
      BY <1>18 DEF PublishRead, PublishSend
    <3> QED
      BY <3>1, <3>2
  <2>4. \A m \in metas' : m \in metas \/ Within(m.members, granted)
    BY <1>18, <2>2 DEF PublishRead, PublishSend
  <2>5. PICK t : Resume(n, f, t) /\ Carries(t, granted)
    <3>1. Carries([tasks[n][f] EXCEPT !.pc = "send", !.copy = view[n]], granted)
      BY <1>g, <1>t, CarriesFacts
    <3> QED
      BY <1>18, <1>i, <3>1 DEF PublishRead, PublishSend
  <2> QED
    BY <2>1, <2>3, <2>4, <2>5, ResumeCarries, GrantedKept
<1>20. ASSUME NEW n \in DIDs, NEW f \in Fibers, MetaPut(n, f)
       PROVE  GrantedOnly'
  <2>1. UNCHANGED <<granted, replies, metas>>
    BY <1>20 DEF MetaPut, Rest
  <2>2. \A m \in DIDs : view'[m] = view[m] \/ Within(view'[m], granted)
    <3>1. Within(tasks[n][f].copy, granted)
      BY <1>g DEF Carries
    <3> QED
      BY <1>20, <3>1, WriteViews DEF MetaPut
  <2>3. PICK t : Resume(n, f, t) /\ Carries(t, granted)
    <3>1. Carries([Idle EXCEPT !.pc = "metaEpoch", !.at = tasks[n][f].at], granted)
      BY <1>i, CarriesFacts
    <3> QED
      BY <1>20, <1>i, <3>1 DEF MetaPut
  <2> QED
    BY <2>1, <2>2, <2>3, ResumeCarries, GrantedKept
<1>21. ASSUME NEW n \in DIDs, NEW f \in Fibers, MetaEpoch(n, f)
       PROVE  GrantedOnly'
  BY <1>21, <1>i, ResumeGranted DEF MetaEpoch, Rest
<1> QED
  BY <1>1, <1>2, <1>3, <1>5, <1>7, <1>8, <1>9, <1>10, <1>11, <1>12, <1>13, <1>15, <1>18,
     <1>20, <1>21 DEF Next

\* at the start only the founder is a member
LEMMA GrantedInit == Init => GrantedOnly
<1> SUFFICES ASSUME Init PROVE GrantedOnly
  OBVIOUS
<1>1. \A n \in DIDs : Granted(view[n])
  BY MembershipAssumption DEF Init, Granted, Members, NoNetwork
<1>2. \A n \in DIDs, f \in Fibers : Granted(tasks[n][f].base) /\ Granted(tasks[n][f].copy)
  BY IdleFacts DEF Init, Granted, Idle
<1> QED
  BY <1>1, <1>2 DEF Init, GrantedOnly

\* Nobody is a member, or has a role, that no administrator ever decided on,
\* whatever calls overlap on the nodes.
THEOREM OnlyGrantedRoles == Spec => []GrantedOnly
  BY TypedInvariant, GrantedInit, GrantedStep, PTL DEF Spec

-----------------------------------------------------------------------------
(* The use of invitations *)

\* a task that accepts a request, and one that has passed the nonce check
Live(t) == t.pc \in Accepting /\ t.req \in Request
Passed(t) == t.pc \in {"addRead", "write"} /\ t.req \in Request

\* requests in progress on one node overlap
AllOverlap ==
  \A n \in DIDs, f, g \in Fibers :
    /\ Live(tasks[n][f])
    /\ Live(tasks[n][g])
    /\ tasks[n][f].req # tasks[n][g].req
    => {tasks[n][f].req, tasks[n][g].req} \in overlapped

\* a join was recorded as the use of its invitation, or is about to be
Recorded ==
  \A q \in admitted :
    \/ q.invite \in consumed[q.to]
    \/ \E f \in Fibers : At(q.to, f, "consume") /\ tasks[q.to][f].req = q

\* who passed the nonce check overlapped every earlier use of the invitation
PassedTogether ==
  \A n \in DIDs, f \in Fibers, q \in admitted :
    /\ Passed(tasks[n][f])
    /\ q.to = n
    /\ q.invite = tasks[n][f].req.invite
    /\ q # tasks[n][f].req
    => {q, tasks[n][f].req} \in overlapped

OverlapInv == AllOverlap /\ Recorded /\ PassedTogether /\ UsedTwiceOnlyTogether

\* a step that touches nothing OverlapInv speaks of
LEMMA SameOverlap ==
  ASSUME OverlapInv, UNCHANGED <<tasks, consumed, admitted, overlapped>>
  PROVE  OverlapInv'
  BY DEF OverlapInv, AllOverlap, Recorded, PassedTogether, UsedTwiceOnlyTogether, At

\* the joins of a task that is about to record one are recorded by no other step
LEMMA RecordedKept ==
  ASSUME Typed, Recorded, NEW n \in DIDs, NEW f \in Fibers, NEW t, Resume(n, f, t),
         UNCHANGED <<consumed, admitted>>,
         tasks[n][f].pc # "consume"
  PROVE  Recorded'
<1>1. \A m \in DIDs, g \in Fibers : <<m, g>> # <<n, f>> => tasks'[m][g] = tasks[m][g]
  BY ResumeOnly
<1> SUFFICES ASSUME NEW q \in admitted
             PROVE  \/ q.invite \in consumed[q.to]
                    \/ \E g \in Fibers : tasks'[q.to][g].pc = "consume" /\ tasks'[q.to][g].req = q
  BY DEF Recorded, At
<1>2. q.to \in DIDs
  BY DEF Typed, TypeOK, Request
<1>3. ASSUME NEW g \in Fibers, At(q.to, g, "consume"), tasks[q.to][g].req = q
      PROVE  tasks'[q.to][g].pc = "consume" /\ tasks'[q.to][g].req = q
  <2>1. <<q.to, g>> # <<n, f>>
    BY <1>3 DEF At
  <2> QED
    BY <1>1, <1>2, <1>3, <2>1 DEF At
<1> QED
  BY <1>3 DEF Recorded

\* a task that goes on in its accept, or leaves it, keeps OverlapInv unless it
\* passes the nonce check, admits, or records
LEMMA OverlapKept ==
  ASSUME Typed, OverlapInv, NEW n \in DIDs, NEW f \in Fibers, NEW t, Resume(n, f, t),
         UNCHANGED <<consumed, admitted, overlapped>>,
         tasks[n][f].pc # "consume",
         Live(t) => Live(tasks[n][f]) /\ t.req = tasks[n][f].req,
         Passed(t) => Passed(tasks[n][f])
  PROVE  OverlapInv'
<1>1. /\ tasks'[n][f] = t
      /\ \A m \in DIDs, g \in Fibers : <<m, g>> # <<n, f>> => tasks'[m][g] = tasks[m][g]
  BY ResumeOnly
<1>2. Passed(t) => Live(t)
  BY DEF Live, Passed, Accepting
<1>3. \A m \in DIDs, g \in Fibers :
        /\ Live(tasks'[m][g]) => Live(tasks[m][g]) /\ tasks'[m][g].req = tasks[m][g].req
        /\ Passed(tasks'[m][g]) => Passed(tasks[m][g]) /\ tasks'[m][g].req = tasks[m][g].req
  BY <1>1, <1>2
<1>4. AllOverlap'
  BY <1>3 DEF OverlapInv, AllOverlap
<1>5. Recorded'
  BY RecordedKept DEF OverlapInv
<1>6. PassedTogether'
  BY <1>3 DEF OverlapInv, PassedTogether
<1>7. UsedTwiceOnlyTogether'
  BY DEF OverlapInv, UsedTwiceOnlyTogether
<1> QED
  BY <1>4, <1>5, <1>6, <1>7 DEF OverlapInv

\* a task that is not in an accept keeps OverlapInv
LEMMA OutsideAccept ==
  ASSUME Typed, OverlapInv, NEW n \in DIDs, NEW f \in Fibers, NEW t, Resume(n, f, t),
         UNCHANGED <<consumed, admitted, overlapped>>,
         tasks[n][f].pc # "consume",
         t.pc \notin Accepting \/ t.req = NoRequest
  PROVE  OverlapInv'
<1>1. ~ Live(t) /\ ~ Passed(t)
  BY NoRequestFacts DEF Live, Passed, Accepting
<1> QED
  BY <1>1, OverlapKept

\* accept begins: the new request overlaps those in progress
LEMMA BeginOverlap ==
  ASSUME Typed, OverlapInv, NEW n \in DIDs, NEW f \in Fibers, NEW q \in requests,
         HandleJoin(n, f, q)
  PROVE  OverlapInv'
<1> DEFINE t == [Idle EXCEPT !.pc = "check", !.req = q]
<1>1. CASE UNCHANGED <<tasks, overlapped>>
  BY <1>1, SameOverlap DEF HandleJoin
<1>2. CASE Resume(n, f, t) /\ overlapped' = overlapped \cup {{q, r} : r \in InProgress(n)}
  <2>1. UNCHANGED <<consumed, admitted>> /\ tasks[n][f].pc = "idle"
    BY DEF HandleJoin, At
  <2>2. t.pc = "check" /\ t.req = q
    BY DEF Idle
  <2>3. Resume(n, f, t)
    BY <1>2
  <2>4. /\ tasks'[n][f] = t
        /\ \A m \in DIDs, g \in Fibers : <<m, g>> # <<n, f>> => tasks'[m][g] = tasks[m][g]
    BY <2>3, ResumeOnly
  <2>5. \A g \in Fibers : Live(tasks[n][g]) => {q, tasks[n][g].req} \in overlapped'
    BY <1>2, NoRequestFacts DEF Live, InProgress
  <2>6. overlapped \subseteq overlapped'
    BY <1>2
  <2> HIDE DEF t
  <2>7. AllOverlap'
    <3> SUFFICES ASSUME NEW m \in DIDs, NEW g \in Fibers, NEW h \in Fibers,
                        Live(tasks'[m][g]), Live(tasks'[m][h]),
                        tasks'[m][g].req # tasks'[m][h].req
                 PROVE  {tasks'[m][g].req, tasks'[m][h].req} \in overlapped'
      BY DEF AllOverlap
    <3>1. CASE <<m, g>> # <<n, f>> /\ <<m, h>> # <<n, f>>
      BY <2>4, <2>6, <3>1 DEF OverlapInv, AllOverlap
    <3>2. CASE <<m, g>> = <<n, f>>
      <4>1. <<m, h>> # <<n, f>>
        BY <3>2
      <4>2. tasks'[m][g].req = q /\ tasks'[m][h] = tasks[n][h]
        BY <2>2, <2>4, <3>2, <4>1
      <4> QED
        BY <2>5, <4>2
    <3>3. CASE <<m, h>> = <<n, f>>
      <4>1. <<m, g>> # <<n, f>>
        BY <3>3
      <4>2. tasks'[m][h].req = q /\ tasks'[m][g] = tasks[n][g]
        BY <2>2, <2>4, <3>3, <4>1
      <4>3. {tasks'[m][g].req, tasks'[m][h].req} = {q, tasks[n][g].req}
        BY <4>2
      <4> QED
        BY <2>5, <4>2, <4>3
    <3> QED
      BY <3>1, <3>2, <3>3
  <2>8. Recorded'
    BY <2>1, <2>3, RecordedKept DEF OverlapInv
  <2>9. PassedTogether'
    <3>1. \A m \in DIDs, g \in Fibers : Passed(tasks'[m][g]) => tasks'[m][g] = tasks[m][g]
      BY <2>2, <2>4 DEF Passed
    <3> QED
      BY <2>1, <2>6, <3>1 DEF OverlapInv, PassedTogether
  <2>10. UsedTwiceOnlyTogether'
    BY <2>1, <2>6 DEF OverlapInv, UsedTwiceOnlyTogether
  <2> QED
    BY <2>7, <2>8, <2>9, <2>10 DEF OverlapInv
<1> QED
  BY <1>1, <1>2 DEF HandleJoin

\* nonces.has says no: every earlier use is by an accept that is about to record it
LEMMA PassOverlap ==
  ASSUME Typed, OverlapInv, NEW n \in DIDs, NEW f \in Fibers, AcceptNonce(n, f)
  PROVE  OverlapInv'
<1> DEFINE r == tasks[n][f].req
           t == [tasks[n][f] EXCEPT !.pc = "addRead"]
<1>1. /\ tasks[n][f] \in Task
      /\ tasks[n][f].pc = "nonce"
      /\ r \in Request
      /\ UNCHANGED <<consumed, admitted, overlapped>>
  BY TaskFacts DEF AcceptNonce, At, Rest, WithRequest, Requested
<1>2. CASE Resume(n, f, Idle)
  BY <1>1, <1>2, IdleFacts, OutsideAccept
<1>3. CASE ~ Used(n, r.invite) /\ Resume(n, f, t)
  <2>1. t.pc = "addRead" /\ t.req = r
    BY <1>1 DEF Task
  <2>2. Live(tasks[n][f])
    BY <1>1 DEF Live, Accepting
  <2>3. Resume(n, f, t)
    BY <1>3
  <2>4. /\ tasks'[n][f] = t
        /\ \A m \in DIDs, g \in Fibers : <<m, g>> # <<n, f>> => tasks'[m][g] = tasks[m][g]
    BY <2>3, ResumeOnly
  <2> HIDE DEF t
  <2>5. \A m \in DIDs, g \in Fibers :
          Live(tasks'[m][g]) => Live(tasks[m][g]) /\ tasks'[m][g].req = tasks[m][g].req
    BY <2>1, <2>2, <2>4
  <2>6. AllOverlap'
    BY <1>1, <2>5 DEF OverlapInv, AllOverlap
  <2>7. \A q \in admitted : q.to = n /\ q.invite = r.invite /\ q # r => {q, r} \in overlapped
    <3> SUFFICES ASSUME NEW q \in admitted, q.to = n, q.invite = r.invite, q # r
                 PROVE  {q, r} \in overlapped
      OBVIOUS
    <3>1. PICK g \in Fibers : At(n, g, "consume") /\ tasks[n][g].req = q
      BY <1>3 DEF OverlapInv, Recorded, Used
    <3>2. q \in Request
      BY DEF Typed, TypeOK
    <3>3. Live(tasks[n][g])
      BY <3>1, <3>2 DEF Live, Accepting, At
    <3> QED
      BY <2>2, <3>1, <3>3 DEF OverlapInv, AllOverlap
  <2>8. PassedTogether'
    <3> SUFFICES ASSUME NEW m \in DIDs, NEW g \in Fibers, NEW q \in admitted,
                        Passed(tasks'[m][g]), q.to = m, q.invite = tasks'[m][g].req.invite,
                        q # tasks'[m][g].req
                 PROVE  {q, tasks'[m][g].req} \in overlapped
      BY <1>1 DEF PassedTogether
    <3>1. CASE <<m, g>> = <<n, f>>
      BY <2>1, <2>4, <2>7, <3>1
    <3>2. CASE <<m, g>> # <<n, f>>
      BY <2>4, <3>2 DEF OverlapInv, PassedTogether
    <3> QED
      BY <3>1, <3>2
  <2>9. Recorded'
    BY <1>1, <2>3, RecordedKept DEF OverlapInv
  <2>10. UsedTwiceOnlyTogether'
    BY <1>1 DEF OverlapInv, UsedTwiceOnlyTogether
  <2> QED
    BY <2>6, <2>8, <2>9, <2>10 DEF OverlapInv
<1> QED
  BY <1>2, <1>3 DEF AcceptNonce

\* addMember is written: this is a use of the invitation
LEMMA AdmitOverlap ==
  ASSUME Typed, OverlapInv, NEW n \in DIDs, NEW f \in Fibers,
         tasks[n][f].pc = "write",
         tasks[n][f].req # NoRequest,
         Resume(n, f, [tasks[n][f] EXCEPT !.pc = "consume"]),
         admitted' = admitted \cup {tasks[n][f].req},
         UNCHANGED <<consumed, overlapped>>
  PROVE  OverlapInv'
<1> DEFINE r == tasks[n][f].req
           t == [tasks[n][f] EXCEPT !.pc = "consume"]
<1>1. tasks[n][f] \in Task /\ r \in Request /\ r.to = n
  BY TaskFacts DEF WithRequest
<1>2. t.pc = "consume" /\ t.req = r
  BY <1>1 DEF Task
<1>3. /\ tasks'[n][f] = t
      /\ \A m \in DIDs, g \in Fibers : <<m, g>> # <<n, f>> => tasks'[m][g] = tasks[m][g]
  BY ResumeOnly
<1>4. Live(tasks[n][f]) /\ Passed(tasks[n][f])
  BY <1>1 DEF Live, Passed, Accepting
<1> HIDE DEF t
<1>5. \A m \in DIDs, g \in Fibers :
        /\ Live(tasks'[m][g]) => Live(tasks[m][g]) /\ tasks'[m][g].req = tasks[m][g].req
        /\ Passed(tasks'[m][g]) => tasks'[m][g] = tasks[m][g]
  BY <1>2, <1>3, <1>4 DEF Passed
<1>6. AllOverlap'
  BY <1>5 DEF OverlapInv, AllOverlap
<1>7. Recorded'
  <2> SUFFICES ASSUME NEW q \in admitted'
               PROVE  \/ q.invite \in consumed[q.to]
                      \/ \E g \in Fibers : tasks'[q.to][g].pc = "consume" /\ tasks'[q.to][g].req = q
    BY DEF Recorded, At
  <2>1. CASE q = r
    BY <1>1, <1>2, <1>3, <2>1
  <2>2. CASE q \in admitted
    <3>1. q.to \in DIDs
      BY <2>2 DEF Typed, TypeOK, Request
    <3>2. ASSUME NEW g \in Fibers, At(q.to, g, "consume"), tasks[q.to][g].req = q
          PROVE  tasks'[q.to][g].pc = "consume" /\ tasks'[q.to][g].req = q
      <4>1. <<q.to, g>> # <<n, f>>
        BY <3>2 DEF At
      <4> QED
        BY <1>3, <3>1, <3>2, <4>1 DEF At
    <3> QED
      BY <2>2, <3>2 DEF OverlapInv, Recorded
  <2> QED
    BY <2>1, <2>2
<1>8. PassedTogether'
  <2> SUFFICES ASSUME NEW m \in DIDs, NEW g \in Fibers, NEW q \in admitted',
                      Passed(tasks'[m][g]), q.to = m, q.invite = tasks'[m][g].req.invite,
                      q # tasks'[m][g].req
               PROVE  {q, tasks'[m][g].req} \in overlapped
    BY DEF PassedTogether
  <2>1. tasks'[m][g] = tasks[m][g] /\ Passed(tasks[m][g]) /\ Live(tasks[m][g])
    BY <1>5 DEF Live, Passed, Accepting
  <2>2. CASE q \in admitted
    BY <2>1, <2>2 DEF OverlapInv, PassedTogether
  <2>3. CASE q = r
    BY <1>1, <1>4, <2>1, <2>3 DEF OverlapInv, AllOverlap
  <2> QED
    BY <2>2, <2>3
<1>9. UsedTwiceOnlyTogether'
  <2>1. \A q \in admitted : q.to = r.to /\ q.invite = r.invite /\ q # r => {q, r} \in overlapped
    BY <1>1, <1>4 DEF OverlapInv, PassedTogether
  <2>2. \A q : {q, r} = {r, q}
    OBVIOUS
  <2> QED
    BY <2>1, <2>2 DEF OverlapInv, UsedTwiceOnlyTogether
<1> QED
  BY <1>6, <1>7, <1>8, <1>9 DEF OverlapInv

\* nonces.add: the join that was about to record its invitation has done so
LEMMA ConsumeOverlap ==
  ASSUME Typed, OverlapInv, NEW n \in DIDs, NEW f \in Fibers, AcceptConsume(n, f)
  PROVE  OverlapInv'
<1> DEFINE t == [tasks[n][f] EXCEPT !.pc = "snapshot"]
<1>1. /\ tasks[n][f] \in Task
      /\ Resume(n, f, t)
      /\ UNCHANGED <<admitted, overlapped>>
  BY TaskFacts DEF AcceptConsume, Rest
<1>2. /\ consumed'[n] = consumed[n] \cup {tasks[n][f].req.invite}
      /\ \A m \in DIDs \ {n} : consumed'[m] = consumed[m]
  BY DEF AcceptConsume, Typed, TypeOK
<1>3. /\ tasks'[n][f] = t
      /\ \A m \in DIDs, g \in Fibers : <<m, g>> # <<n, f>> => tasks'[m][g] = tasks[m][g]
  BY <1>1, ResumeOnly
<1>4. t.pc = "snapshot"
  BY <1>1 DEF Task
<1> HIDE DEF t
<1>5. \A m \in DIDs, g \in Fibers :
        Live(tasks'[m][g]) \/ Passed(tasks'[m][g]) => tasks'[m][g] = tasks[m][g]
  BY <1>3, <1>4 DEF Live, Passed, Accepting
<1>6. AllOverlap' /\ PassedTogether' /\ UsedTwiceOnlyTogether'
  BY <1>1, <1>5 DEF OverlapInv, AllOverlap, PassedTogether, UsedTwiceOnlyTogether
<1>7. Recorded'
  <2> SUFFICES ASSUME NEW q \in admitted
               PROVE  \/ q.invite \in consumed'[q.to]
                      \/ \E g \in Fibers : tasks'[q.to][g].pc = "consume" /\ tasks'[q.to][g].req = q
    BY <1>1 DEF Recorded, At
  <2>1. q.to \in DIDs
    BY DEF Typed, TypeOK, Request
  <2>2. CASE q.invite \in consumed[q.to]
    BY <1>2, <2>1, <2>2
  <2>3. ASSUME NEW g \in Fibers, At(q.to, g, "consume"), tasks[q.to][g].req = q
        PROVE  \/ q.invite \in consumed'[q.to]
               \/ tasks'[q.to][g].pc = "consume" /\ tasks'[q.to][g].req = q
    BY <1>2, <1>3, <2>1, <2>3 DEF At
  <2> QED
    BY <2>2, <2>3 DEF OverlapInv, Recorded
<1> QED
  BY <1>6, <1>7 DEF OverlapInv

\* every action keeps OverlapInv
LEMMA OverlapStep ==
  ASSUME Typed, OverlapInv, [Next]_vars
  PROVE  OverlapInv'
<1>t. \A n \in DIDs, f \in Fibers : tasks[n][f] \in Task
  BY TaskFacts
<1>i. Idle.req = NoRequest /\ Idle.pc \notin Accepting
  BY DEF Idle, Accepting
<1>s. {"idle", "publish", "send", "metaPut", "metaEpoch"} \cap Accepting = {}
  BY DEF Accepting
<1>1. CASE UNCHANGED vars
  BY <1>1, SameOverlap DEF vars
<1>2. CASE Tick
  BY <1>2, SameOverlap DEF Tick
<1>3. ASSUME NEW n \in DIDs, NEW f \in Fibers, NEW d \in DIDs, NEW r \in Roles,
             Leave(n, f) \/ Kick(n, f, d) \/ SetMemberRole(n, f, d, r) \/ AddMember(n, f, d, r)
      PROVE  OverlapInv'
  <2>1. PICK v : Edit(n, f, v)
    BY <1>3 DEF Leave, Kick, SetMemberRole, AddMember
  <2>2. tasks[n][f].pc # "consume"
    BY <1>3 DEF Leave, Kick, SetMemberRole, AddMember, Call, At
  <2>3. [Idle EXCEPT !.pc = "write", !.copy = v].req = NoRequest
    BY DEF Idle
  <2> QED
    BY <2>1, <2>2, <2>3, OutsideAccept DEF Edit
<1>7. ASSUME NEW n \in DIDs, NEW f \in Fibers, Publish(n, f)
      PROVE  OverlapInv'
  <2>1. [Idle EXCEPT !.pc = "publish"].req = NoRequest /\ tasks[n][f].pc # "consume"
    BY <1>7 DEF Idle, Publish, Call, At
  <2> QED
    BY <1>7, <2>1, OutsideAccept DEF Publish
<1>8. ASSUME NEW n \in DIDs, NEW f \in Fibers, NEW a \in DIDs, NEW i \in Invites,
             RequestJoin(n, f, a, i)
      PROVE  OverlapInv'
  BY <1>8, SameOverlap DEF RequestJoin
<1>9. ASSUME NEW n \in DIDs, NEW f \in Fibers, NEW q \in requests, HandleJoin(n, f, q)
      PROVE  OverlapInv'
  BY <1>9, BeginOverlap
<1>10. ASSUME NEW n \in DIDs, NEW f \in Fibers, NEW r \in replies, ReceiveReply(n, f, r)
       PROVE  OverlapInv'
  <2>1. UNCHANGED <<consumed, admitted, overlapped>> /\ tasks[n][f].pc # "consume"
    BY <1>10 DEF ReceiveReply, Rest, At
  <2>2. [Idle EXCEPT !.pc = "metaEpoch", !.at = Clock(n)].req = NoRequest
    BY DEF Idle
  <2>3. CASE UNCHANGED tasks
    BY <2>1, <2>3, SameOverlap
  <2>4. CASE Resume(n, f, [Idle EXCEPT !.pc = "metaEpoch", !.at = Clock(n)])
    BY <2>1, <2>2, <2>4, OutsideAccept
  <2> QED
    BY <1>10, <2>3, <2>4 DEF ReceiveReply
<1>11. ASSUME NEW n \in DIDs, NEW f \in Fibers, NEW m \in metas, HandleMeta(n, f, m)
       PROVE  OverlapInv'
  <2>1. UNCHANGED <<consumed, admitted, overlapped>> /\ tasks[n][f].pc # "consume"
    BY <1>11 DEF HandleMeta, Rest, At
  <2>2. [Idle EXCEPT !.pc = "metaPut", !.copy = m.members, !.at = m.at].req = NoRequest
    BY DEF Idle
  <2>3. CASE UNCHANGED tasks
    BY <2>1, <2>3, SameOverlap
  <2>4. CASE Resume(n, f, [Idle EXCEPT !.pc = "metaPut", !.copy = m.members, !.at = m.at])
    BY <2>1, <2>2, <2>4, OutsideAccept
  <2> QED
    BY <1>11, <2>3, <2>4 DEF HandleMeta
<1>12. ASSUME NEW n \in DIDs, NEW f \in Fibers, Write(n, f)
       PROVE  OverlapInv'
  <2>1. UNCHANGED <<consumed, overlapped>> /\ tasks[n][f].pc = "write"
    BY <1>12 DEF Write, Rest, At
  <2>2. CASE Resume(n, f, Idle) /\ UNCHANGED admitted
    <3>1. Resume(n, f, Idle)
      BY <2>2
    <3>2. UNCHANGED <<consumed, admitted, overlapped>> /\ tasks[n][f].pc # "consume"
      BY <2>1, <2>2
    <3> QED
      BY <1>i, <3>1, <3>2, OutsideAccept
  <2>3. CASE /\ tasks[n][f].req # NoRequest
             /\ Resume(n, f, [tasks[n][f] EXCEPT !.pc = "consume"])
             /\ admitted' = admitted \cup {tasks[n][f].req}
    BY <2>1, <2>3, AdmitOverlap
  <2> QED
    BY <1>12, <2>2, <2>3 DEF Write
<1>13. ASSUME NEW n \in DIDs, NEW f \in Fibers, AcceptCheck(n, f)
       PROVE  OverlapInv'
  <2> DEFINE t == [tasks[n][f] EXCEPT !.pc = "nonce", !.base = view[n]]
  <2>1. UNCHANGED <<consumed, admitted, overlapped>> /\ tasks[n][f].pc = "check"
    BY <1>13 DEF AcceptCheck, Rest, At
  <2>2. CASE Resume(n, f, Idle)
    BY <1>i, <2>1, <2>2, OutsideAccept
  <2>3. CASE Resume(n, f, t)
    <3>1. t.pc = "nonce" /\ t.req = tasks[n][f].req
      BY <1>t DEF Task
    <3>2. Live(t) => Live(tasks[n][f]) /\ t.req = tasks[n][f].req
      BY <2>1, <3>1 DEF Live, Accepting
    <3>3. ~ Passed(t)
      BY <3>1 DEF Passed
    <3> HIDE DEF t
    <3> QED
      BY <2>1, <2>3, <3>2, <3>3, OverlapKept
  <2> QED
    BY <1>13, <2>2, <2>3 DEF AcceptCheck
<1>14. ASSUME NEW n \in DIDs, NEW f \in Fibers, AcceptNonce(n, f)
       PROVE  OverlapInv'
  BY <1>14, PassOverlap
<1>15. ASSUME NEW n \in DIDs, NEW f \in Fibers, AcceptAddRead(n, f)
       PROVE  OverlapInv'
  <2> DEFINE t == [tasks[n][f] EXCEPT !.pc = "write", !.copy = Admit(view[n], tasks[n][f].req)]
  <2>1. UNCHANGED <<consumed, admitted, overlapped>> /\ tasks[n][f].pc = "addRead"
    BY <1>15 DEF AcceptAddRead, At
  <2>2. CASE Resume(n, f, Idle)
    BY <1>i, <2>1, <2>2, OutsideAccept
  <2>3. CASE Resume(n, f, t)
    <3>1. t.pc = "write" /\ t.req = tasks[n][f].req
      BY <1>t DEF Task
    <3>2. Live(t) => Live(tasks[n][f]) /\ t.req = tasks[n][f].req
      BY <2>1, <3>1 DEF Live, Accepting
    <3>3. Passed(t) => Passed(tasks[n][f])
      BY <2>1, <3>1 DEF Passed
    <3> HIDE DEF t
    <3> QED
      BY <2>1, <2>3, <3>2, <3>3, OverlapKept
  <2> QED
    BY <1>15, <2>2, <2>3 DEF AcceptAddRead
<1>16. ASSUME NEW n \in DIDs, NEW f \in Fibers, AcceptConsume(n, f)
       PROVE  OverlapInv'
  BY <1>16, ConsumeOverlap
<1>17. ASSUME NEW n \in DIDs, NEW f \in Fibers,
              AcceptSnapshot(n, f) \/ PublishRead(n, f) \/ PublishSend(n, f)
       PROVE  OverlapInv'
  <2>1. UNCHANGED <<consumed, admitted, overlapped>> /\ tasks[n][f].pc # "consume"
    BY <1>17 DEF AcceptSnapshot, PublishRead, PublishSend, Rest, At
  <2>2. PICK t : Resume(n, f, t) /\ t.pc \notin Accepting
    <3>1. \A v : [tasks[n][f] EXCEPT !.pc = "publish", !.base = v].pc = "publish"
      BY <1>t DEF Task
    <3>2. \A v : [tasks[n][f] EXCEPT !.pc = "send", !.copy = v].pc = "send"
      BY <1>t DEF Task
    <3> QED
      BY <1>17, <1>i, <1>s, <3>1, <3>2 DEF AcceptSnapshot, PublishRead, PublishSend
  <2> QED
    BY <2>1, <2>2, OutsideAccept
<1>20. ASSUME NEW n \in DIDs, NEW f \in Fibers, MetaPut(n, f) \/ MetaEpoch(n, f)
       PROVE  OverlapInv'
  <2>1. UNCHANGED <<consumed, admitted, overlapped>> /\ tasks[n][f].pc # "consume"
    BY <1>20 DEF MetaPut, MetaEpoch, Rest, At
  <2>2. PICK t : Resume(n, f, t) /\ t.req = NoRequest
    <3>1. \A e : [Idle EXCEPT !.pc = "metaEpoch", !.at = e].req = NoRequest
      BY DEF Idle
    <3> QED
      BY <1>20, <1>i, <3>1 DEF MetaPut, MetaEpoch
  <2> QED
    BY <2>1, <2>2, OutsideAccept
<1> QED
  BY <1>1, <1>2, <1>3, <1>7, <1>8, <1>9, <1>10, <1>11, <1>12, <1>13, <1>14, <1>15, <1>16,
     <1>17, <1>20, MembershipAssumption DEF Next

\* OverlapInv holds at the start
LEMMA OverlapInit == Init => OverlapInv
  BY DEF Init, OverlapInv, AllOverlap, Recorded, PassedTogether, UsedTwiceOnlyTogether,
         Live, Passed, Accepting, Idle

\* An invitation is used twice on a node only by requests that the node was
\* accepting at the same time, for any invitations and number of calls.
THEOREM InviteUsedTwiceOnlyTogether == Spec => []UsedTwiceOnlyTogether
<1>1. Typed /\ OverlapInv /\ [Next]_vars => OverlapInv'
  BY OverlapStep
<1>2. OverlapInv => UsedTwiceOnlyTogether
  BY DEF OverlapInv
<1> QED
  BY <1>1, <1>2, TypedInvariant, OverlapInit, PTL DEF Spec

=============================================================================
