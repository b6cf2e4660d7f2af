------------------------------- MODULE GroupSpec -------------------------------
(***************************************************************************)
(* What a group promises (the rules listed in                              *)
(* ts/linkself/src/group.ts), each operation being one atomic step: the    *)
(* members number two or more, the owners are members, and a group that    *)
(* has an owner keeps one until it is dissolved.                           *)
(***************************************************************************)
EXTENDS Naturals, FiniteSets

CONSTANTS DIDs

NoGroup == [members |-> {}, owners |-> {}]

VARIABLE group

Create ==
  /\ group = NoGroup
  /\ \E ms \in SUBSET DIDs : \E os \in SUBSET ms :
       Cardinality(ms) >= 2 /\ group' = [members |-> ms, owners |-> os]

\* an owner set that is left empty is filled with some member
Promoted(owners, candidates) ==
  IF owners # {} THEN {owners} ELSE {{d} : d \in candidates}

\* a member leaves or is removed; below two members the group is dissolved
Remove(d) ==
  /\ d \in group.members
  /\ LET rest == group.members \ {d}
     IN IF Cardinality(rest) < 2
        THEN group' = NoGroup
        ELSE \E os \in Promoted(group.owners \ {d}, rest) :
               group' = [members |-> rest, owners |-> os]

Appoint(d) ==
  /\ d \in group.members
  /\ group.owners # {}
  /\ group' = [group EXCEPT !.owners = @ \cup {d}]

StepDown(d) ==
  /\ d \in group.owners
  /\ \E os \in Promoted(group.owners \ {d}, group.members \ {d}) :
       group' = [group EXCEPT !.owners = os]

Add(d) ==
  /\ group.owners # {}
  /\ d \notin group.members
  /\ group' = [group EXCEPT !.members = @ \cup {d}]

Next ==
  \/ Create
  \/ \E d \in DIDs : Remove(d) \/ Appoint(d) \/ StepDown(d) \/ Add(d)

Spec == group = NoGroup /\ [][Next]_group

=============================================================================
