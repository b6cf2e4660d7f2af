------------------------------ MODULE Membership ------------------------------
(***************************************************************************)
(* Membership of one network (ts/linkself/src/network.ts, join.ts,         *)
(* network-meta.ts and their wiring in client.ts).  Every node keeps its   *)
(* own view of who is a member with which role.  An admin's node changes   *)
(* its view, or accepts a join request, and publishes a snapshot that the  *)
(* other nodes apply when its epoch is newer than the last one they saw.   *)
(*                                                                         *)
(* A fiber is one asynchronous call in progress on a node: every action    *)
(* performs one call of a store with the code up to the next await, so the *)
(* calls of two fibers interleave.                                         *)
(***************************************************************************)
EXTENDS Integers, FiniteSets

CONSTANTS
  DIDs,        \* the users; each runs one node
  Founder,     \* the user who created the network
  Roles,       \* the roles of the role DAG
  AdminRole,   \* the role the service asks of an administrator
  AdminRoles,  \* the roles that have (inherit) AdminRole
  Out,         \* not a member
  Invites,     \* the invitations that were issued
  NoInvite,
  Fibers,      \* calls that can be in progress on one node
  Calls,       \* what the application does
  Skew,        \* how far each node's wall clock is ahead
  MaxTime,     \* bound: the clock stops here
  MaxCalls     \* bound: application calls in a behaviour

\* an invitation carries its nonce, so two different ones have different nonces
Invite == [nonce : Nat, inviter : DIDs, role : Roles, expiresAt : Nat]

ASSUME MembershipAssumption ==
  /\ Founder \in DIDs
  /\ AdminRole \in AdminRoles
  /\ AdminRoles \subseteq Roles
  /\ Out \notin Roles
  /\ Invites \subseteq Invite
  /\ NoInvite \notin Invites
  /\ Skew \in [DIDs -> Nat]
  /\ MaxTime \in Nat
  /\ MaxCalls \in Nat

VARIABLES
  now,       \* real time
  view,      \* view[n][d]: the role of d according to node n, or Out
  epoch,     \* epoch[n]: the tracker's last epoch
  consumed,  \* consumed[n]: the invitations recorded as used by node n
  requests,  \* join requests on their way to a node
  replies,   \* accepted join responses on their way back
  metas,     \* published snapshots on their way to a node
  tasks,     \* tasks[n][f]: the call in progress in fiber f of node n
  calls,     \* application calls so far
  granted,   \* history: the <<user, role>> pairs an administrator decided on
  admitted,  \* history: the joins each node wrote to its store
  overlapped \* history: the pairs of requests whose accepts overlapped on a node

vars == <<now, view, epoch, consumed, requests, replies, metas, tasks, calls,
          granted, admitted, overlapped>>

-----------------------------------------------------------------------------
(* Values *)

View == [DIDs -> Roles \cup {Out}]

\* a network without members is deleted, so this stands for "no such network"
NoNetwork == [d \in DIDs |-> Out]

Members(v) == {d \in DIDs : v[d] # Out}

\* dag.hasRole(memberRoles[d], adminRole)
IsAdmin(v, d) == v[d] \in AdminRoles

Request == [from : DIDs, to : DIDs, invite : Invites]

\* the stages of accept up to the record of the nonce
Accepting == {"check", "nonce", "addRead", "write", "consume"}

NoRequest == [from |-> Founder, to |-> Founder, invite |-> NoInvite]

Stage == {"idle", "check", "nonce", "addRead", "write", "consume", "snapshot",
          "publish", "send", "metaPut", "metaEpoch"}

\* base: the view accept read first; copy: the view in hand; at: an epoch
Task == [pc : Stage, req : Request \cup {NoRequest}, base : View, copy : View, at : Nat]

Idle == [pc |-> "idle", req |-> NoRequest, base |-> NoNetwork, copy |-> NoNetwork, at |-> 0]

Reply == [to : DIDs, snapshot : View]

Meta == [to : DIDs, from : DIDs, at : Nat, members : View]

Clock(n) == now + Skew[n]

Resume(n, f, t) == tasks' = [tasks EXCEPT ![n] = [@ EXCEPT ![f] = t]]

At(n, f, pc) == tasks[n][f].pc = pc

\* what no step of a task but the ones that say so changes
Rest == <<now, calls, granted, requests, overlapped>>

-----------------------------------------------------------------------------

\* the founder's node has created the network
Init ==
  /\ now = 1
  /\ view = [n \in DIDs |-> IF n = Founder THEN [NoNetwork EXCEPT ![n] = AdminRole]
                            ELSE NoNetwork]
  /\ epoch = [n \in DIDs |-> 0]
  /\ consumed = [n \in DIDs |-> {}]
  /\ requests = {}
  /\ replies = {}
  /\ metas = {}
  /\ tasks = [n \in DIDs |-> [f \in Fibers |-> Idle]]
  /\ calls = 0
  /\ granted = {<<Founder, AdminRole>>}
  /\ admitted = {}
  /\ overlapped = {}

\* the application makes a call
Call(n, f, call) ==
  /\ call \in Calls
  /\ At(n, f, "idle")
  /\ calls < MaxCalls
  /\ calls' = calls + 1

-----------------------------------------------------------------------------
(* Administration: read a copy, check, change the copy, write it back *)

\* an edited copy of the view waits to be written
Edit(n, f, v) ==
  /\ Resume(n, f, [Idle EXCEPT !.pc = "write", !.copy = v])
  /\ UNCHANGED <<now, view, epoch, consumed, requests, replies, metas, admitted,
                 overlapped>>

Leave(n, f) ==
  /\ Call(n, f, "leave")
  /\ n \in Members(view[n])
  /\ Edit(n, f, [view[n] EXCEPT ![n] = Out])
  /\ UNCHANGED granted

Kick(n, f, d) ==
  /\ Call(n, f, "kick")
  /\ IsAdmin(view[n], n)
  /\ d \in Members(view[n])
  /\ Edit(n, f, [view[n] EXCEPT ![d] = Out])
  /\ UNCHANGED granted

SetMemberRole(n, f, d, r) ==
  /\ Call(n, f, "setMemberRole")
  /\ IsAdmin(view[n], n)
  /\ d \in Members(view[n])
  /\ Edit(n, f, [view[n] EXCEPT ![d] = r])
  /\ granted' = granted \cup {<<d, r>>}

AddMember(n, f, d, r) ==
  /\ Call(n, f, "addMember")
  /\ IsAdmin(view[n], n)
  /\ d \notin Members(view[n])
  /\ Edit(n, f, [view[n] EXCEPT ![d] = r])
  /\ granted' = granted \cup {<<d, r>>}

\* updateNetwork or deleteNetwork; an update of a deleted network throws, which
\* also ends an accept without an answer
Write(n, f) ==
  /\ At(n, f, "write")
  /\ LET t == tasks[n][f]
     IN IF Members(t.copy) # {} /\ Members(view[n]) = {}
        THEN Resume(n, f, Idle) /\ UNCHANGED <<view, admitted>>
        ELSE /\ view' = [view EXCEPT ![n] = t.copy]
             /\ IF t.req = NoRequest
                THEN Resume(n, f, Idle) /\ UNCHANGED admitted
                ELSE /\ Resume(n, f, [t EXCEPT !.pc = "consume"])
                     /\ admitted' = admitted \cup {t.req}
  /\ UNCHANGED <<Rest, epoch, consumed, replies, metas>>

-----------------------------------------------------------------------------
(* Join handshake *)

\* requestJoin: the invitee presents an invitation to a node
RequestJoin(n, f, a, i) ==
  /\ Call(n, f, "join")
  /\ requests' = requests \cup {[from |-> n, to |-> a, invite |-> i]}
  /\ UNCHANGED <<now, view, epoch, consumed, replies, metas, tasks, granted, admitted,
                 overlapped>>

\* verifyInvite: too old for the accepting node's clock
Expired(n, i) == Clock(n) > i.expiresAt

\* the requests that node n is accepting, until the nonce is recorded
InProgress(n) ==
  {tasks[n][g].req : g \in {h \in Fibers : tasks[n][h].pc \in Accepting}} \ {NoRequest}

\* accept: verifyInvite, a refusal ends the call
HandleJoin(n, f, q) ==
  /\ At(n, f, "idle")
  /\ q.to = n
  /\ requests' = requests \ {q}
  /\ IF Expired(n, q.invite) THEN UNCHANGED <<tasks, overlapped>>
     ELSE /\ Resume(n, f, [Idle EXCEPT !.pc = "check", !.req = q])
          /\ overlapped' = overlapped \cup {{q, r} : r \in InProgress(n)}
  /\ UNCHANGED <<now, calls, granted, view, epoch, consumed, replies, metas, admitted>>

\* accept: getNetwork, and the authority of the inviter and of this node
AcceptCheck(n, f) ==
  /\ At(n, f, "check")
  /\ LET t == tasks[n][f]
     IN IF IsAdmin(view[n], t.req.invite.inviter) /\ IsAdmin(view[n], n)
        THEN Resume(n, f, [t EXCEPT !.pc = "nonce", !.base = view[n]])
        ELSE Resume(n, f, Idle)
  /\ UNCHANGED <<Rest, view, epoch, consumed, replies, metas, admitted>>

\* mutant of Used: the nonce store is asked about the wrong thing
Used_Never(n, i) == FALSE

\* nonces.has
Used(n, i) == i \in consumed[n]

\* accept: nonces.has
AcceptNonce(n, f) ==
  /\ At(n, f, "nonce")
  /\ IF Used(n, tasks[n][f].req.invite)
     THEN Resume(n, f, Idle)
     ELSE Resume(n, f, [tasks[n][f] EXCEPT !.pc = "addRead"])
  /\ UNCHANGED <<Rest, view, epoch, consumed, replies, metas, admitted>>

\* mutant of Admit: the new member gets the accepting administrator's role
Admit_OwnRole(v, q) == [v EXCEPT ![q.from] = v[q.to]]

\* mutant of Admit: the wrong field of the invitation
Admit_Inviter(v, q) == [v EXCEPT ![q.from] = q.invite.inviter]

\* the copy with the invitee added
Admit(v, q) == [v EXCEPT ![q.from] = q.invite.role]

\* accept calls addMember: getNetwork and its checks; the admin's decision is made
AcceptAddRead(n, f) ==
  /\ At(n, f, "addRead")
  /\ LET t == tasks[n][f]
     IN IF IsAdmin(view[n], n) /\ t.req.from \notin Members(view[n])
        THEN /\ Resume(n, f, [t EXCEPT !.pc = "write", !.copy = Admit(view[n], t.req)])
             /\ granted' = granted \cup {<<t.req.from, t.req.invite.role>>}
        ELSE Resume(n, f, Idle) /\ UNCHANGED granted
  /\ UNCHANGED <<now, calls, requests, view, epoch, consumed, replies, metas, admitted,
                 overlapped>>

\* accept: nonces.add
AcceptConsume(n, f) ==
  /\ At(n, f, "consume")
  /\ consumed' = [consumed EXCEPT ![n] = @ \cup {tasks[n][f].req.invite}]
  /\ Resume(n, f, [tasks[n][f] EXCEPT !.pc = "snapshot"])
  /\ UNCHANGED <<Rest, view, epoch, replies, metas, admitted>>

\* the updated network, or the one read first if it is gone
SnapshotOf(n, t) == IF Members(view[n]) # {} THEN view[n] ELSE t.base

\* accept: the snapshot for the answer
AcceptSnapshot(n, f) ==
  /\ At(n, f, "snapshot")
  /\ LET t == tasks[n][f]
     IN Resume(n, f, [t EXCEPT !.pc = "publish", !.base = SnapshotOf(n, t)])
  /\ UNCHANGED <<Rest, view, epoch, consumed, replies, metas, admitted>>

\* tracker.apply: newer than what this node has
Newer(n, at) == at > epoch[n]

\* requestJoin: the invitee applies the answer under its own clock
ReceiveReply(n, f, r) ==
  /\ At(n, f, "idle")
  /\ r.to = n
  /\ replies' = replies \ {r}
  /\ IF Newer(n, Clock(n))
     THEN /\ view' = [view EXCEPT ![n] = r.snapshot]
          /\ Resume(n, f, [Idle EXCEPT !.pc = "metaEpoch", !.at = Clock(n)])
     ELSE UNCHANGED <<view, tasks>>
  /\ UNCHANGED <<Rest, epoch, consumed, metas, admitted>>

-----------------------------------------------------------------------------
(* Propagation *)

\* the application calls publishMembership
Publish(n, f) ==
  /\ Call(n, f, "publish")
  /\ Resume(n, f, [Idle EXCEPT !.pc = "publish"])
  /\ UNCHANGED <<now, view, epoch, consumed, requests, replies, metas, granted, admitted,
                 overlapped>>

\* the answer to the join request this task is about, if any
Answer(t) ==
  IF t.req = NoRequest THEN {} ELSE {[to |-> t.req.from, snapshot |-> t.base]}

\* publishMembership: getNetwork; without a network there is nothing to publish
PublishRead(n, f) ==
  /\ At(n, f, "publish")
  /\ LET t == tasks[n][f]
     IN IF Members(view[n]) # {}
        THEN Resume(n, f, [t EXCEPT !.pc = "send", !.copy = view[n]]) /\ UNCHANGED replies
        ELSE Resume(n, f, Idle) /\ replies' = replies \cup Answer(t)
  /\ UNCHANGED <<Rest, view, epoch, consumed, metas, admitted>>

\* publishMembership: the epoch is noted and the snapshot sent to the members;
\* then a pending join request is answered
PublishSend(n, f) ==
  /\ At(n, f, "send")
  /\ LET t == tasks[n][f]
     IN /\ epoch' = [epoch EXCEPT ![n] = IF Clock(n) > @ THEN Clock(n) ELSE @]
        /\ metas' = metas \cup {[to |-> d, from |-> n, at |-> Clock(n), members |-> t.copy] :
                                  d \in Members(t.copy) \ {n}}
        /\ replies' = replies \cup Answer(t)
  /\ Resume(n, f, Idle)
  /\ UNCHANGED <<Rest, view, consumed, admitted>>

\* handleNetworkMeta: getNetwork; only an admin in this node's view is followed
HandleMeta(n, f, m) ==
  /\ At(n, f, "idle")
  /\ m.to = n
  /\ metas' = metas \ {m}
  /\ IF IsAdmin(view[n], m.from)
     THEN Resume(n, f, [Idle EXCEPT !.pc = "metaPut", !.copy = m.members, !.at = m.at])
     ELSE UNCHANGED tasks
  /\ UNCHANGED <<Rest, view, epoch, consumed, replies, admitted>>

\* tracker.apply: the version check and putNetwork
MetaPut(n, f) ==
  /\ At(n, f, "metaPut")
  /\ LET t == tasks[n][f]
     IN IF Newer(n, t.at)
        THEN /\ view' = [view EXCEPT ![n] = t.copy]
             /\ Resume(n, f, [Idle EXCEPT !.pc = "metaEpoch", !.at = t.at])
        ELSE Resume(n, f, Idle) /\ UNCHANGED view
  /\ UNCHANGED <<Rest, epoch, consumed, replies, metas, admitted>>

\* tracker.apply: once putNetwork returned the epoch is set
MetaEpoch(n, f) ==
  /\ At(n, f, "metaEpoch")
  /\ epoch' = [epoch EXCEPT ![n] = tasks[n][f].at]
  /\ Resume(n, f, Idle)
  /\ UNCHANGED <<Rest, view, consumed, replies, metas, admitted>>

-----------------------------------------------------------------------------

Tick ==
  /\ now < MaxTime
  /\ now' = now + 1
  /\ UNCHANGED <<view, epoch, consumed, requests, replies, metas, tasks, calls,
                 granted, admitted, overlapped>>

Next ==
  \/ Tick
  \/ \E n \in DIDs, f \in Fibers :
       \/ Leave(n, f)
       \/ \E d \in DIDs : Kick(n, f, d)
       \/ \E d \in DIDs, r \in Roles : SetMemberRole(n, f, d, r)
       \/ \E d \in DIDs, r \in Roles : AddMember(n, f, d, r)
       \/ Publish(n, f)
       \/ \E a \in DIDs \ {n}, i \in Invites : RequestJoin(n, f, a, i)
       \/ \E q \in requests : HandleJoin(n, f, q)
       \/ \E r \in replies : ReceiveReply(n, f, r)
       \/ \E m \in metas : HandleMeta(n, f, m)
       \/ Write(n, f)
       \/ AcceptCheck(n, f)
       \/ AcceptNonce(n, f)
       \/ AcceptAddRead(n, f)
       \/ AcceptConsume(n, f)
       \/ AcceptSnapshot(n, f)
       \/ PublishRead(n, f)
       \/ PublishSend(n, f)
       \/ MetaPut(n, f)
       \/ MetaEpoch(n, f)

Spec == Init /\ [][Next]_vars

-----------------------------------------------------------------------------
(* Properties *)

\* Every variable has its type.
TypeOK ==
  /\ now \in Nat
  /\ view \in [DIDs -> View]
  /\ epoch \in [DIDs -> Nat]
  /\ consumed \in [DIDs -> SUBSET Invites]
  /\ requests \subseteq Request
  /\ replies \subseteq Reply
  /\ metas \subseteq Meta
  /\ tasks \in [DIDs -> [Fibers -> Task]]
  /\ calls \in Nat
  /\ granted \subseteq DIDs \X Roles
  /\ admitted \subseteq Request
  /\ overlapped \subseteq SUBSET Request

\* everybody in v has a role an administrator decided on
Granted(v) == \A d \in Members(v) : <<d, v[d]>> \in granted

\* Nobody is a member, or has a role, that no administrator ever decided on:
\* not in a node's view, not in a copy a call is about to write back and not in
\* a snapshot on its way, whatever overlapping calls overwrite.
GrantedOnly ==
  /\ \A n \in DIDs : Granted(view[n])
  /\ \A n \in DIDs, f \in Fibers :
       Granted(tasks[n][f].base) /\ Granted(tasks[n][f].copy)
  /\ \A r \in replies : Granted(r.snapshot)
  /\ \A m \in metas : Granted(m.members)

\* An invitation admits at most one user per accepting node ("an invite is
\* single-use per accepting node").
SingleUse ==
  \A q, r \in admitted : q.to = r.to /\ q.invite = r.invite => q = r

\* An invitation is used twice on a node only by requests that the node was
\* accepting at the same time: once an accept that admitted somebody is over, a
\* later request with its invitation is refused, whatever else runs meanwhile.
UsedTwiceOnlyTogether ==
  \A q, r \in admitted :
    q.to = r.to /\ q.invite = r.invite /\ q # r => {q, r} \in overlapped

=============================================================================
