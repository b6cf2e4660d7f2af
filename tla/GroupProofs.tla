------------------------------ MODULE GroupProofs ------------------------------
(***************************************************************************)
(* Proofs about Group, for every finite set of users and any number of     *)
(* overlapping calls.                                                      *)
(***************************************************************************)
EXTENDS Group, FiniteSetTheorems, TLAPS

USE GroupAssumption DEF NoGroup

-----------------------------------------------------------------------------
(* Facts about the values *)

\* A group value has a finite set of members, and two members or more leave
\* somebody when one is taken away.
LEMMA Finite ==
  ASSUME NEW S \in SUBSET DIDs
  PROVE  /\ IsFiniteSet(S) /\ Cardinality(S) \in Nat
         /\ Cardinality(S) >= 2 => S # {} /\ \A d : S \ {d} # {}
         /\ \A d \in DIDs \ S : Cardinality(S \cup {d}) = Cardinality(S) + 1
<1>1. IsFiniteSet(S) /\ Cardinality(S) \in Nat
  BY FS_Subset, FS_CardinalityType
<1>2. ASSUME Cardinality(S) >= 2, NEW d
      PROVE  S # {} /\ S \ {d} # {}
  <2>1. S # {}
    BY <1>2, FS_EmptySet
  <2>2. CASE d \in S
    <3>1. IsFiniteSet(S \ {d}) /\ Cardinality(S \ {d}) = Cardinality(S) - 1
      BY <1>1, <2>2, FS_RemoveElement
    <3> QED
      BY <1>1, <1>2, <2>1, <3>1, FS_EmptySet
  <2>3. CASE d \notin S
    BY <2>1, <2>3
  <2> QED
    BY <2>1, <2>2, <2>3
<1>3. \A d \in DIDs \ S : Cardinality(S \cup {d}) = Cardinality(S) + 1
  BY <1>1, FS_AddElement
<1> QED
  BY <1>1, <1>2, <1>3

\* autoPromoteOneExcluding returns a set of owners out of those it was given,
\* and an empty one only when there is nobody to choose from.
LEMMA Promotion ==
  ASSUME NEW owners, NEW candidates, NEW os \in AutoPromote(owners, candidates)
  PROVE  /\ os \subseteq owners \cup candidates
         /\ candidates # {} => os # {}
         /\ owners # {} => os = owners
         /\ owners = {} /\ candidates # {} => \E d \in candidates : os = {d}
  BY DEF AutoPromote

\* A task at a given program counter has the fields of that stage.
LEMMA TaskFields ==
  ASSUME NEW t \in Task
  PROVE  /\ t.pc = "write" => t.to \in Value
         /\ t.pc = "demote" => t.actor \in DIDs
  BY DEF Task, Idle

\* Removing a member from a group value gives a valid group with an owner, or none.
LEMMA WithoutFacts ==
  ASSUME NEW g \in Value, NEW d \in DIDs, NEW to \in Without(g, d)
  PROVE  /\ to \in Value
         /\ to # NoGroup => Cardinality(to.members) >= 2 /\ to.owners # {}
         /\ g.owners \subseteq g.members => to.owners \subseteq to.members
<1>1. CASE Cardinality(g.members \ {d}) < 2
  BY <1>1 DEF Without, Value
<1>2. CASE ~(Cardinality(g.members \ {d}) < 2)
  <2>1. Cardinality(g.members \ {d}) >= 2 /\ g.members \ {d} # {}
    BY <1>2, Finite DEF Value
  <2>2. PICK os \in AutoPromote(g.owners \ {d}, g.members \ {d}) :
               to = [members |-> g.members \ {d}, owners |-> os]
    BY <1>2 DEF Without
  <2>3. os # {} /\ os \subseteq (g.owners \ {d}) \cup (g.members \ {d})
    BY <2>1, Promotion
  <2> QED
    BY <2>1, <2>2, <2>3 DEF Value
<1> QED
  BY <1>1, <1>2

-----------------------------------------------------------------------------
(* The rules.  A stored group obeys them because every version a call is      *)
(* about to write does, and that version was computed from a stored one.      *)

\* what can be written: nothing, or a group with two members and an owner
Writable(g) ==
  /\ g \in Value
  /\ g = NoGroup \/ (Cardinality(g.members) >= 2 /\ g.owners # {})
  /\ OwnersInside => g.owners \subseteq g.members

\* the inductive invariant
GroupInv ==
  /\ TypeOK
  /\ group = NoGroup \/ Cardinality(group.members) >= 2
  /\ OwnersInside => group.owners \subseteq group.members
  /\ \A f \in Fibers : tasks[f].pc = "write" => Writable(tasks[f].to)

\* A step that only resumes one fiber with a justified task keeps the invariant.
LEMMA ResumeKeeps ==
  ASSUME GroupInv, NEW f \in Fibers, NEW t \in Task, Resume(f, t),
         UNCHANGED <<group, overtaken>>, calls' \in Nat, t.pc = "write" => Writable(t.to)
  PROVE  GroupInv'
  BY DEF GroupInv, TypeOK, Resume, Writable

\* Deciding on a writable version keeps the invariant.
LEMMA DecideKeeps ==
  ASSUME GroupInv, NEW f \in Fibers, NEW to,
         Writable(to), Decide(f, to), calls' \in Nat
  PROVE  GroupInv'
<1>1. [pc |-> "write", to |-> to] \in Task
  BY DEF Task, Writable
<1> QED
  BY <1>1, ResumeKeeps DEF Decide

\* An owner who steps down leaves a writable version.
LEMMA StepDownKeeps ==
  ASSUME GroupInv, NEW f \in Fibers, NEW actor \in DIDs, StepDown(f, actor), calls' \in Nat
  PROVE  GroupInv'
<1>1. group \in Value /\ group # NoGroup /\ Cardinality(group.members) >= 2
  BY DEF StepDown, GroupInv, TypeOK
<1>2. PICK os \in AutoPromote(group.owners \ {actor}, group.members \ {actor}) :
             Decide(f, [group EXCEPT !.owners = os])
  BY DEF StepDown
<1>3. group.members \ {actor} # {}
  BY <1>1, Finite DEF Value
<1>4. os # {} /\ os \subseteq (group.owners \ {actor}) \cup (group.members \ {actor})
  BY <1>3, Promotion
<1>5. Writable([group EXCEPT !.owners = os])
  BY <1>1, <1>4 DEF Writable, Value, GroupInv
<1> QED
  BY <1>2, <1>5, DecideKeeps

\* Every step keeps the invariant.
LEMMA GroupStep ==
  ASSUME GroupInv, [Next]_vars
  PROVE  GroupInv'
<1>g. group \in Value /\ \A f \in Fibers : Call(f) => calls' \in Nat
  BY DEF GroupInv, TypeOK, Call
<1>1. CASE UNCHANGED vars
  BY <1>1 DEF vars, GroupInv, TypeOK, Writable
<1>2. ASSUME NEW f \in Fibers, NEW ms \in SUBSET DIDs, NEW os \in SUBSET DIDs,
             CreateGroup(f, ms, os)
      PROVE  GroupInv'
  BY <1>g, <1>2 DEF CreateGroup, GroupInv, TypeOK, Value, Writable
<1>3. ASSUME NEW f \in Fibers, NEW d \in DIDs, Leave(f, d) \/ \E a \in DIDs : Kick(f, a, d)
      PROVE  GroupInv'
  <2>1. PICK to \in Without(group, d) : Decide(f, to)
    BY <1>3 DEF Leave, Kick
  <2>2. Writable(to)
    BY <1>g, WithoutFacts DEF Writable, GroupInv
  <2> QED
    BY <1>g, <1>3, <2>1, <2>2, DecideKeeps DEF Leave, Kick
<1>4. ASSUME NEW f \in Fibers, NEW a \in DIDs, NEW d \in DIDs, AppointOwner(f, a, d)
      PROVE  GroupInv'
  <2>1. Writable([group EXCEPT !.owners = @ \cup {d}])
    BY <1>g, <1>4 DEF AppointOwner, Writable, GroupInv, Value
  <2> QED
    BY <1>g, <1>4, <2>1, DecideKeeps DEF AppointOwner
<1>5. ASSUME NEW f \in Fibers, NEW a \in DIDs, SelfDemote(f, a)
      PROVE  GroupInv'
  BY <1>g, <1>5, StepDownKeeps DEF SelfDemote
<1>6. ASSUME NEW f \in Fibers, NEW a \in DIDs, DemoteOwner(f, a)
      PROVE  GroupInv'
  <2>1. [pc |-> "demote", actor |-> a] \in Task
    BY DEF Task
  <2> QED
    BY <1>g, <1>6, <2>1, ResumeKeeps DEF DemoteOwner
<1>7. ASSUME NEW f \in Fibers, DemoteSelf(f)
      PROVE  GroupInv'
  <2>1. tasks[f].actor \in DIDs /\ calls' \in Nat
    BY <1>7, TaskFields DEF DemoteSelf, GroupInv, TypeOK
  <2>2. CASE StepDown(f, tasks[f].actor)
    BY <2>1, <2>2, StepDownKeeps
  <2>3. CASE Resume(f, Idle) /\ UNCHANGED <<group, overtaken>>
    BY <2>1, <2>3, ResumeKeeps DEF Task, Idle
  <2> QED
    BY <1>7, <2>2, <2>3 DEF DemoteSelf
<1>8. ASSUME NEW f \in Fibers, NEW d \in DIDs, AddMember(f, d)
      PROVE  GroupInv'
  <2>1. group # NoGroup /\ Cardinality(group.members) >= 2
    BY <1>8 DEF AddMember, GroupInv
  <2>2. Cardinality(group.members \cup {d}) >= 2
    BY <1>g, <1>8, <2>1, Finite DEF AddMember, Value
  <2>3. Writable([group EXCEPT !.members = @ \cup {d}])
    BY <1>g, <1>8, <2>2 DEF AddMember, Writable, GroupInv, Value
  <2> QED
    BY <1>g, <1>8, <2>3, DecideKeeps DEF AddMember
<1>9. ASSUME NEW f \in Fibers, Write(f)
      PROVE  GroupInv'
  <2>1. Writable(tasks[f].to)
    BY <1>9 DEF Write, GroupInv
  <2> QED
    BY <1>9, <2>1 DEF Write, Resume, GroupInv, TypeOK, Task, Idle, Writable
<1> QED
  BY <1>1, <1>2, <1>3, <1>4, <1>5, <1>6, <1>7, <1>8, <1>9 DEF Next

\* The invariant holds in every reachable state.
LEMMA GroupInvariant == Spec => []GroupInv
<1>1. Init => GroupInv
  BY DEF Init, GroupInv, TypeOK, Value, Task, Idle
<1> QED
  BY <1>1, GroupStep, PTL DEF Spec

\* Only createGroup and the write of a call change the stored group.
LEMMA OnlyWritesChange ==
  ASSUME [Next]_vars, group' # group
  PROVE  \/ \E f \in Fibers : \E ms, os \in SUBSET DIDs : CreateGroup(f, ms, os)
         \/ \E f \in Fibers : Write(f)
<1>1. \A f \in Fibers : \A to : ~Decide(f, to)
  BY DEF Decide
<1>2. \A f \in Fibers, a \in DIDs : ~StepDown(f, a)
  BY <1>1 DEF StepDown
<1>3. \A f \in Fibers : ~DemoteSelf(f)
  BY <1>1 DEF DemoteSelf, StepDown
<1>4. \A f \in Fibers, a, d \in DIDs :
        ~Leave(f, d) /\ ~Kick(f, a, d) /\ ~AppointOwner(f, a, d) /\ ~AddMember(f, d)
  BY <1>1 DEF Leave, Kick, AppointOwner, AddMember
<1>5. \A f \in Fibers, a \in DIDs : ~SelfDemote(f, a) /\ ~DemoteOwner(f, a)
  BY <1>2 DEF SelfDemote, DemoteOwner
<1> QED
  BY <1>3, <1>4, <1>5 DEF Next, vars

\* Every variable keeps its type, whatever calls overlap.
THEOREM TypeCorrect == Spec => []TypeOK
  BY GroupInvariant, PTL DEF GroupInv

\* When createGroup's callers choose the owners among the members, no overlap of
\* calls produces a group with fewer than two members or with an outside owner.
THEOREM GroupsAreWellFormed ==
  ASSUME OwnersInside
  PROVE  Spec => []WellFormed
<1>1. GroupInv => WellFormed
  BY DEF GroupInv, WellFormed, Valid, Writable
<1> QED
  BY <1>1, GroupInvariant, PTL

\* A group that has an owner keeps one as long as it exists: every version a call
\* writes has an owner, even when it overwrites somebody else's change.
THEOREM OwnersAreKept == Spec => OwnersKept
<1>1. ASSUME GroupInv, [Next]_vars
      PROVE  [group.owners # {} /\ group' # NoGroup => group'.owners # {}]_vars
  <2> SUFFICES ASSUME group.owners # {}, group' # NoGroup, group' # group
               PROVE  group'.owners # {}
    BY DEF vars
  <2>1. PICK f \in Fibers : Write(f)
    BY <1>1, OnlyWritesChange DEF CreateGroup
  <2>2. Writable(tasks[f].to) /\ group' = tasks[f].to
    BY <1>1, <2>1 DEF Write, GroupInv
  <2> QED
    BY <2>2 DEF Writable
<1> QED
  BY <1>1, GroupInvariant, PTL DEF Spec, OwnersKept

-----------------------------------------------------------------------------
(* Atomicity.  Unless another call's write comes between a call's read and    *)
(* its write, the pending write is an atomic operation on the group as it is  *)
(* now.                                                                       *)

\* h is what an atomic operation of GroupSpec makes of g
Allowed(g, h) ==
  \E d \in DIDs :
    \/ /\ d \in g.members
       /\ IF Cardinality(g.members \ {d}) < 2 THEN h = NoGroup
          ELSE \E os \in Abstract!Promoted(g.owners \ {d}, g.members \ {d}) :
                 h = [members |-> g.members \ {d}, owners |-> os]
    \/ /\ d \in g.members /\ g.owners # {}
       /\ h = [g EXCEPT !.owners = @ \cup {d}]
    \/ /\ d \in g.owners
       /\ \E os \in Abstract!Promoted(g.owners \ {d}, g.members \ {d}) :
            h = [g EXCEPT !.owners = os]
    \/ /\ g.owners # {} /\ d \notin g.members
       /\ h = [g EXCEPT !.members = @ \cup {d}]

\* before the first call nothing is in progress
NothingBefore == calls = 0 => \A f \in Fibers : tasks[f] = Idle

\* A call counts itself, and only calls in progress go on without.
LEMMA NothingBeforeStep ==
  ASSUME TypeOK, NothingBefore, [Next]_vars
  PROVE  NothingBefore'
<1>1. CASE UNCHANGED <<tasks, calls>>
  BY <1>1 DEF NothingBefore
<1>2. ASSUME NEW f \in Fibers, Call(f)
      PROVE  NothingBefore'
  BY <1>2 DEF Call, TypeOK, NothingBefore
<1>3. ASSUME NEW f \in Fibers, DemoteSelf(f) \/ Write(f)
      PROVE  NothingBefore'
  <2>1. tasks[f] # Idle /\ calls' = calls
    BY <1>3 DEF DemoteSelf, Write, Idle
  <2> QED
    BY <2>1 DEF NothingBefore
<1> QED
  BY <1>1, <1>2, <1>3 DEF Next, vars, CreateGroup, Leave, Kick, AppointOwner, SelfDemote,
     DemoteOwner, AddMember

\* every pending write that was not overtaken is an operation on the current group
PendingAllowed ==
  \A f \in Fibers \ overtaken : tasks[f].pc = "write" => Allowed(group, tasks[f].to)

\* Both modules choose the promoted owner alike when there is a candidate.
LEMMA SamePromotion ==
  ASSUME NEW owners, NEW candidates, candidates # {}, NEW os \in AutoPromote(owners, candidates)
  PROVE  os \in Abstract!Promoted(owners, candidates)
  BY DEF AutoPromote, Abstract!Promoted

\* A version without a member is what the atomic removal gives.
LEMMA WithoutAllowed ==
  ASSUME NEW g \in Value, NEW d \in g.members, NEW to \in Without(g, d)
  PROVE  Allowed(g, to)
<1>1. d \in DIDs /\ (~(Cardinality(g.members \ {d}) < 2) => g.members \ {d} # {})
  BY Finite DEF Value
<1>2. CASE Cardinality(g.members \ {d}) < 2
  BY <1>1, <1>2 DEF Without, Allowed
<1>3. CASE ~(Cardinality(g.members \ {d}) < 2)
  <2>1. PICK os \in AutoPromote(g.owners \ {d}, g.members \ {d}) :
               to = [members |-> g.members \ {d}, owners |-> os]
    BY <1>3 DEF Without
  <2>2. os \in Abstract!Promoted(g.owners \ {d}, g.members \ {d})
    BY <1>1, <1>3, <2>1, SamePromotion
  <2> QED
    BY <1>1, <1>3, <2>1, <2>2 DEF Allowed
<1> QED
  BY <1>2, <1>3

\* An owner who steps down decides on what the atomic operation gives.
LEMMA StepDownAllowed ==
  ASSUME GroupInv, NEW f \in Fibers, NEW actor \in DIDs, StepDown(f, actor)
  PROVE  \E to : Decide(f, to) /\ Allowed(group, to)
<1>1. group \in Value /\ Cardinality(group.members) >= 2 /\ actor \in group.owners
  BY DEF StepDown, GroupInv, TypeOK
<1>2. PICK os \in AutoPromote(group.owners \ {actor}, group.members \ {actor}) :
             Decide(f, [group EXCEPT !.owners = os])
  BY DEF StepDown
<1>3. os \in Abstract!Promoted(group.owners \ {actor}, group.members \ {actor})
  BY <1>1, Finite, SamePromotion DEF Value
<1> QED
  BY <1>1, <1>2, <1>3 DEF Allowed

\* A step that decides on an atomic operation keeps PendingAllowed.
LEMMA DecideAllowed ==
  ASSUME GroupInv, PendingAllowed, NEW f \in Fibers,
         \E to : Decide(f, to) /\ Allowed(group, to)
  PROVE  PendingAllowed'
<1>1. PICK to : Decide(f, to) /\ Allowed(group, to)
  OBVIOUS
<1>2. /\ group' = group /\ overtaken' = overtaken
      /\ \A x \in Fibers :
           tasks'[x] = IF x = f THEN [pc |-> "write", to |-> to] ELSE tasks[x]
  BY <1>1 DEF Decide, Resume, GroupInv, TypeOK
<1>3. \A x \in Fibers \ overtaken : tasks'[x].pc = "write" => Allowed(group, tasks'[x].to)
  BY <1>1, <1>2 DEF PendingAllowed
<1> QED
  BY <1>2, <1>3 DEF PendingAllowed

\* A write makes every other pending write an overtaken one; the other steps leave
\* the group alone.
LEMMA PendingStep ==
  ASSUME GroupInv, NothingBefore, PendingAllowed, [Next]_vars
  PROVE  PendingAllowed'
<1>g. group \in Value
  BY DEF GroupInv, TypeOK
<1>1. CASE UNCHANGED vars
  BY <1>1 DEF vars, PendingAllowed
<1>2. ASSUME NEW f \in Fibers, NEW ms \in SUBSET DIDs, NEW os \in SUBSET DIDs,
             CreateGroup(f, ms, os)
      PROVE  PendingAllowed'
  BY <1>2 DEF CreateGroup, Idle, NothingBefore, PendingAllowed
<1>3. ASSUME NEW f \in Fibers, NEW d \in DIDs, Leave(f, d) \/ \E a \in DIDs : Kick(f, a, d)
      PROVE  PendingAllowed'
  <2>1. PICK to \in Without(group, d) : Decide(f, to) /\ d \in group.members
    BY <1>3 DEF Leave, Kick
  <2> QED
    BY <1>g, <2>1, WithoutAllowed, DecideAllowed
<1>4. ASSUME NEW f \in Fibers, NEW a \in DIDs, NEW d \in DIDs, AppointOwner(f, a, d)
      PROVE  PendingAllowed'
  <2>1. Allowed(group, [group EXCEPT !.owners = @ \cup {d}])
    BY <1>4 DEF AppointOwner, Allowed
  <2> QED
    BY <1>4, <2>1, DecideAllowed DEF AppointOwner
<1>5. ASSUME NEW f \in Fibers, NEW a \in DIDs, StepDown(f, a)
      PROVE  PendingAllowed'
  BY <1>5, StepDownAllowed, DecideAllowed
<1>6. ASSUME NEW f \in Fibers, UNCHANGED <<group, overtaken>>, NEW t, Resume(f, t), t.pc # "write"
      PROVE  PendingAllowed'
  <2>1. \A x \in Fibers : tasks'[x] = IF x = f THEN t ELSE tasks[x]
    BY <1>6 DEF Resume, GroupInv, TypeOK
  <2> QED
    BY <1>6, <2>1 DEF PendingAllowed
<1>7. ASSUME NEW f \in Fibers, DemoteSelf(f)
      PROVE  PendingAllowed'
  <2>1. tasks[f].actor \in DIDs
    BY <1>7, TaskFields DEF DemoteSelf, GroupInv, TypeOK
  <2> QED
    BY <1>5, <1>6, <1>7, <2>1 DEF DemoteSelf, Idle
<1>8. ASSUME NEW f \in Fibers, NEW d \in DIDs, AddMember(f, d)
      PROVE  PendingAllowed'
  <2>1. Allowed(group, [group EXCEPT !.members = @ \cup {d}])
    BY <1>8 DEF AddMember, Allowed
  <2> QED
    BY <1>8, <2>1, DecideAllowed DEF AddMember
<1>9. ASSUME NEW f \in Fibers, Write(f)
      PROVE  PendingAllowed'
  <2>1. \A x \in Fibers : tasks'[x] = IF x = f THEN Idle ELSE tasks[x]
    BY <1>9 DEF Write, Resume, GroupInv, TypeOK
  <2>2. \A x \in Fibers \ overtaken' : tasks'[x].pc # "write"
    BY <1>9, <2>1 DEF Write, Idle
  <2> QED
    BY <2>2 DEF PendingAllowed
<1>10. ASSUME NEW f \in Fibers, NEW a \in DIDs, SelfDemote(f, a) \/ DemoteOwner(f, a)
       PROVE  PendingAllowed'
  BY <1>5, <1>6, <1>10 DEF SelfDemote, DemoteOwner
<1> QED
  BY <1>1, <1>2, <1>3, <1>4, <1>7, <1>8, <1>9, <1>10 DEF Next

\* Both modules count members alike.
LEMMA SameCardinality == \A S : Abstract!Cardinality(S) = Cardinality(S)
  BY DEF Cardinality, Abstract!Cardinality

\* A write that was not overtaken is an atomic operation on the group.
LEMMA WriteRefines ==
  ASSUME GroupInv, PendingAllowed, NEW f \in Fibers \ overtaken, Write(f), group' # group
  PROVE  Abstract!Next
<1>1. group # NoGroup /\ group' = tasks[f].to /\ Allowed(group, group')
  BY DEF Write, PendingAllowed
<1>2. PICK d \in DIDs :
        \/ /\ d \in group.members
           /\ IF Cardinality(group.members \ {d}) < 2 THEN group' = NoGroup
              ELSE \E os \in Abstract!Promoted(group.owners \ {d}, group.members \ {d}) :
                     group' = [members |-> group.members \ {d}, owners |-> os]
        \/ /\ d \in group.members /\ group.owners # {}
           /\ group' = [group EXCEPT !.owners = @ \cup {d}]
        \/ /\ d \in group.owners
           /\ \E os \in Abstract!Promoted(group.owners \ {d}, group.members \ {d}) :
                group' = [group EXCEPT !.owners = os]
        \/ /\ group.owners # {} /\ d \notin group.members
           /\ group' = [group EXCEPT !.members = @ \cup {d}]
  BY <1>1 DEF Allowed
<1>3. Abstract!Remove(d) \/ Abstract!Appoint(d) \/ Abstract!StepDown(d) \/ Abstract!Add(d)
  BY <1>2, SameCardinality DEF Abstract!Remove, Abstract!Appoint, Abstract!StepDown, Abstract!Add,
              Abstract!NoGroup
<1> QED
  BY <1>3 DEF Abstract!Next

\* Every step is an atomic operation on the group, leaves it alone, or is the
\* write of an overtaken call.
LEMMA StepRefines ==
  ASSUME OwnersInside, GroupInv, PendingAllowed, [Next]_vars
  PROVE  \/ [Abstract!Next]_group
         \/ \E f \in overtaken : tasks[f].pc = "write" /\ tasks'[f] = Idle
<1> SUFFICES ASSUME group' # group
             PROVE  \/ Abstract!Next
                    \/ \E f \in overtaken : tasks[f].pc = "write" /\ tasks'[f] = Idle
  OBVIOUS
<1>1. ASSUME NEW f \in Fibers, NEW ms \in SUBSET DIDs, NEW os \in SUBSET DIDs,
             CreateGroup(f, ms, os)
      PROVE  Abstract!Next
  BY <1>1, SameCardinality DEF CreateGroup, Abstract!Next, Abstract!Create, Abstract!NoGroup
<1>2. ASSUME NEW f \in Fibers, Write(f), f \notin overtaken
      PROVE  Abstract!Next
  BY <1>2, WriteRefines
<1>3. ASSUME NEW f \in Fibers, Write(f), f \in overtaken
      PROVE  tasks[f].pc = "write" /\ tasks'[f] = Idle
  BY <1>3 DEF Write, Resume, GroupInv, TypeOK
<1> QED
  BY <1>1, <1>2, <1>3, OnlyWritesChange

\* When owners are chosen among the members, a call is an atomic operation of
\* GroupSpec however calls overlap, unless another call writes between its read
\* and its write.
THEOREM CallsAreAtomic ==
  ASSUME OwnersInside
  PROVE  Spec => AtomicUnlessOvertaken
<1>1. Init => NothingBefore /\ PendingAllowed
  BY DEF Init, NothingBefore, PendingAllowed, Idle
<1>2. GroupInv /\ NothingBefore /\ PendingAllowed /\ [Next]_vars => NothingBefore' /\ PendingAllowed'
  BY NothingBeforeStep, PendingStep DEF GroupInv
<1>3. ASSUME GroupInv, PendingAllowed, [Next]_vars
      PROVE  [\/ [Abstract!Next]_group
              \/ \E f \in overtaken : tasks[f].pc = "write" /\ tasks'[f] = Idle]_vars
  BY <1>3, StepRefines
<1> QED
  BY <1>1, <1>2, <1>3, GroupInvariant, PTL DEF Spec, AtomicUnlessOvertaken

=============================================================================
