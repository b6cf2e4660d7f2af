----------------------------- MODULE StoreForward -----------------------------
(***************************************************************************)
(* The store-and-forward queue of one destination DID                      *)
(* (ts/linkself/src/storeforward.ts, core/internal/storeforward): messages *)
(* for an unreachable peer are queued and flushed after the next           *)
(* authentication.  The queues of different DIDs never touch each other.   *)
(* Node composes these operations with the sends they await.               *)
(*                                                                         *)
(* A flush takes the whole queue at once and then sends message by         *)
(* message, awaiting each send, so a queue call or a second flush (each of *)
(* the two sides of a connection authenticates the other) may run in       *)
(* between.                                                                *)
(***************************************************************************)
EXTENDS Sequences

CONSTANTS
  Messages,  \* payloads
  Flushers   \* flushForDID calls that can be in progress

VARIABLES
  pending,   \* the queue
  flushing   \* flushing[f]: the messages flush f has still to send

Init ==
  /\ pending = <<>>
  /\ flushing = [f \in Flushers |-> <<>>]

\* queue(did, payload)
Queue(m) ==
  /\ pending' = Append(pending, m)
  /\ UNCHANGED flushing

\* mutant of FlushBegin: the queue is not cleared
FlushBegin_Keep(f) ==
  /\ flushing[f] = <<>>
  /\ pending # <<>>
  /\ flushing' = [flushing EXCEPT ![f] = pending]
  /\ UNCHANGED pending

\* flushForDID takes the whole queue; an empty one ends the call at once
FlushBegin(f) ==
  /\ flushing[f] = <<>>
  /\ pending # <<>>
  /\ flushing' = [flushing EXCEPT ![f] = pending]
  /\ pending' = <<>>

\* flushForDID: the awaited send of the next message succeeded
FlushSend(f) ==
  /\ flushing[f] # <<>>
  /\ flushing' = [flushing EXCEPT ![f] = Tail(@)]
  /\ UNCHANGED pending

\* mutant of Requeued: the message whose send failed is skipped
Requeued_SkipFailed(rest, q) == Tail(rest) \o q

\* the queue after a failing send: the unsent messages, then the ones queued since
Requeued(rest, q) == rest \o q

\* flushForDID: a send failed; everything unsent is queued again, the call ends
FlushAbort(f) ==
  /\ flushing[f] # <<>>
  /\ pending' = Requeued(flushing[f], pending)
  /\ flushing' = [flushing EXCEPT ![f] = <<>>]

\* Every variable has its type (part of the type invariant of Node).
TypeOK ==
  /\ pending \in Seq(Messages)
  /\ flushing \in [Flushers -> Seq(Messages)]

=============================================================================
