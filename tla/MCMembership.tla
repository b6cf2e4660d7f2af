----------------------------- MODULE MCMembership -----------------------------
(* Small instances of Membership. *)
EXTENDS Membership, TLC

\* one invitation for an ordinary member; it expires when the clock moves
OneInvite == {[nonce |-> 1, inviter |-> Founder, role |-> "member", expiresAt |-> 1]}

\* the calls of a node are interchangeable, and so are the users that join
Symmetry == Permutations(Fibers) \cup Permutations(DIDs \ {Founder})

NoSkew == [n \in DIDs |-> 0]

=============================================================================
