-------------------------------- MODULE RpcSpec --------------------------------
(***************************************************************************)
(* What the windows of the chat client may count on when they ask the      *)
(* daemon (chat-client/src/main.ts): a call is made once and settles at    *)
(* most once, with the answer to itself or by being refused.  That it      *)
(* settles at all is not promised.                                         *)
(***************************************************************************)
CONSTANT Calls

VARIABLE outcome

Open == [is |-> "open"]
Refused == [is |-> "refused"]
AnswerTo(c) == [is |-> "answered", call |-> c]

Make(c) ==
  /\ outcome[c] = [is |-> "none"]
  /\ \E o \in {Open, Refused} : outcome' = [outcome EXCEPT ![c] = o]

Settle(c) ==
  /\ outcome[c] = Open
  /\ outcome' = [outcome EXCEPT ![c] = AnswerTo(c)]

Next == \E c \in Calls : Make(c) \/ Settle(c)

Spec == outcome = [c \in Calls |-> [is |-> "none"]] /\ [][Next]_outcome

=============================================================================
