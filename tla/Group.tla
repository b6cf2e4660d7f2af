--------------------------------- MODULE Group ---------------------------------
(***************************************************************************)
(* The group service (ts/linkself/src/group.ts, core/internal/group): one  *)
(* group, changed by calls that read it, check the rules on their copy and *)
(* write a new version back.  The two store calls are awaited one after    *)
(* the other, so calls overlap: a fiber is one call in progress.           *)
(***************************************************************************)
EXTENDS Naturals, FiniteSets

CONSTANTS
  DIDs,          \* users
  Fibers,        \* calls that can be in progress
  OwnersInside,  \* does createGroup's caller choose the owners among the members?
  MaxCalls       \* bound: calls in a behaviour

ASSUME GroupAssumption ==
  /\ IsFiniteSet(DIDs)
  /\ OwnersInside \in BOOLEAN
  /\ MaxCalls \in Nat

VARIABLES
  group,     \* the stored group, NoGroup when there is none
  tasks,     \* tasks[f]: the call in progress
  calls,     \* calls so far
  overtaken  \* history: the calls whose copy an overlapping call's write made old

vars == <<group, tasks, calls, overtaken>>

Value == [members : SUBSET DIDs, owners : SUBSET DIDs]

NoGroup == [members |-> {}, owners |-> {}]

Idle == [pc |-> "idle"]

Task ==
  {Idle}
    \cup [pc : {"demote"}, actor : DIDs]
    \cup [pc : {"write"}, to : Value]

Init ==
  /\ group = NoGroup
  /\ tasks = [f \in Fibers |-> Idle]
  /\ calls = 0
  /\ overtaken = {}

Resume(f, t) == tasks' = [tasks EXCEPT ![f] = t]

\* a call starts
Call(f) ==
  /\ tasks[f] = Idle
  /\ calls < MaxCalls
  /\ calls' = calls + 1

\* a call that found the group and passed its checks goes on to write
Decide(f, to) ==
  /\ Resume(f, [pc |-> "write", to |-> to])
  /\ UNCHANGED <<group, overtaken>>

\* createGroup; the group lives under an id of its own, so it is made once
CreateGroup(f, ms, os) ==
  /\ Call(f)
  /\ group = NoGroup /\ calls = 0
  /\ Cardinality(ms) >= 2
  /\ OwnersInside => os \subseteq ms
  /\ group' = [members |-> ms, owners |-> os]
  /\ UNCHANGED <<tasks, overtaken>>

\* mutant of AutoPromote: nobody is promoted
AutoPromote_None(owners, candidates) == {owners}

\* mutant of AutoPromote: the list of candidates itself becomes an owner
AutoPromote_Nested(owners, candidates) ==
  IF owners = {} /\ candidates # {} THEN {{candidates}} ELSE {owners}

\* autoPromoteOneExcluding: the first candidate becomes the owner when none is
\* left; which one is first is left open
AutoPromote(owners, candidates) ==
  IF owners = {} /\ candidates # {} THEN {{d} : d \in candidates} ELSE {owners}

\* mutant of Without: the removed member stays an owner
Without_Owner(g, d) ==
  {[members |-> g.members \ {d}, owners |-> g.owners]}

\* the versions of g without member d; below two members the group is deleted
Without(g, d) ==
  LET rest == g.members \ {d}
  IN IF Cardinality(rest) < 2 THEN {NoGroup}
     ELSE {[members |-> rest, owners |-> os] : os \in AutoPromote(g.owners \ {d}, rest)}

Leave(f, d) ==
  /\ Call(f)
  /\ d \in group.members
  /\ \E to \in Without(group, d) : Decide(f, to)

Kick(f, actor, d) ==
  /\ Call(f)
  /\ actor \in group.owners
  /\ d \in group.members
  /\ \E to \in Without(group, d) : Decide(f, to)

AppointOwner(f, actor, d) ==
  /\ Call(f)
  /\ actor \in group.owners
  /\ d \in group.members \ group.owners
  /\ Decide(f, [group EXCEPT !.owners = @ \cup {d}])

\* the owner stepping down is replaced if it was the only one
StepDown(f, actor) ==
  /\ actor \in group.owners
  /\ \E os \in AutoPromote(group.owners \ {actor}, group.members \ {actor}) :
       Decide(f, [group EXCEPT !.owners = os])

SelfDemote(f, actor) == Call(f) /\ StepDown(f, actor)

\* demoteOwner of oneself; it changes nothing for anybody else
DemoteOwner(f, actor) ==
  /\ Call(f)
  /\ actor \in group.owners
  /\ Resume(f, [pc |-> "demote", actor |-> actor])
  /\ UNCHANGED <<group, overtaken>>

\* demoteOwner calls selfDemote, which reads the group again
DemoteSelf(f) ==
  /\ tasks[f].pc = "demote"
  /\ \/ StepDown(f, tasks[f].actor)
     \/ /\ tasks[f].actor \notin group.owners
        /\ Resume(f, Idle)
        /\ UNCHANGED <<group, overtaken>>
  /\ UNCHANGED calls

\* mutant of AddMember: an owner is not asked for
AddMember_Ownerless(f, d) ==
  /\ Call(f)
  /\ group # NoGroup
  /\ d \notin group.members
  /\ Decide(f, [group EXCEPT !.members = @ \cup {d}])

AddMember(f, d) ==
  /\ Call(f)
  /\ group.owners # {}
  /\ d \notin group.members
  /\ Decide(f, [group EXCEPT !.members = @ \cup {d}])

\* updateGroup or deleteGroup; an update of a deleted group throws
Write(f) ==
  /\ tasks[f].pc = "write"
  /\ group' = IF group = NoGroup THEN NoGroup ELSE tasks[f].to
  /\ Resume(f, Idle)
  /\ overtaken' = (overtaken \cup {g \in Fibers : tasks[g].pc = "write"}) \ {f}
  /\ UNCHANGED calls

Next ==
  \E f \in Fibers :
    \/ \E ms, os \in SUBSET DIDs : CreateGroup(f, ms, os)
    \/ \E d \in DIDs : Leave(f, d)
    \/ \E actor, d \in DIDs : Kick(f, actor, d)
    \/ \E actor, d \in DIDs : AppointOwner(f, actor, d)
    \/ \E actor \in DIDs : SelfDemote(f, actor)
    \/ \E actor \in DIDs : DemoteOwner(f, actor)
    \/ DemoteSelf(f)
    \/ \E d \in DIDs : AddMember(f, d)
    \/ Write(f)

Spec == Init /\ [][Next]_vars

-----------------------------------------------------------------------------
(* Properties *)

\* Every variable has its type.
TypeOK ==
  /\ group \in Value
  /\ tasks \in [Fibers -> Task]
  /\ calls \in Nat
  /\ overtaken \subseteq Fibers

\* no group, or one that keeps the rules
Valid(g) ==
  g = NoGroup \/ (Cardinality(g.members) >= 2 /\ g.owners \subseteq g.members)

\* The stored group has two or more members and its owners are among them, and
\* so has every version a call is about to write: overlapping calls may
\* overwrite each other, but never produce a group that breaks the rules.
WellFormed ==
  /\ Valid(group)
  /\ \A f \in Fibers : tasks[f].pc = "write" => Valid(tasks[f].to)

\* A group that has an owner never loses its last one while it exists
\* (autoPromoteOneExcluding: "so a group is never left with 0 owners").
OwnersKept ==
  [][group.owners # {} /\ group' # NoGroup => group'.owners # {}]_vars

Abstract == INSTANCE GroupSpec WITH DIDs <- DIDs, group <- group

\* With any overlap, what a call writes is the atomic operation on the group as
\* it is then, unless another call wrote between its read and its write: only
\* such a write can undo a change, revive a decision or use a right that is gone.
AtomicUnlessOvertaken ==
  [][\/ [Abstract!Next]_group
     \/ \E f \in overtaken : tasks[f].pc = "write" /\ tasks'[f] = Idle]_vars

=============================================================================
