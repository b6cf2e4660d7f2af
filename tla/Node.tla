--------------------------------- MODULE Node ---------------------------------
(***************************************************************************)
(* Message delivery of a node to one remote DID (ts/linkself/src/node.ts,  *)
(* client.ts sendToGroup), composed with the store-and-forward queue.  The *)
(* DID may have several devices, each with its own transport peer id.      *)
(*                                                                         *)
(* Connections come and go under the node's feet.  The node remembers      *)
(* which peer ids authenticated as the DID and never forgets one; only an  *)
(* authentication starts a flush of the queue.  A send returns when the    *)
(* payload is written and the stream closed: nothing is acknowledged, and  *)
(* what the receiver has not read may be lost with the connection.         *)
(***************************************************************************)
EXTENDS Naturals, Sequences, FiniteSets

CONSTANTS
  Peers,       \* transport peer ids of the remote DID
  Derived,     \* the peer id whose transport key is the DID key
  Messages,    \* payloads, each sent once
  Senders,     \* sendMessage calls that can be in progress
  Flushers,    \* flushes that can be in progress
  MaxFailures, \* bound: failing sends in a behaviour
  MaxDrops     \* bound: lost connections in a behaviour

ASSUME NodeAssumption == Derived \in Peers /\ MaxFailures \in Nat /\ MaxDrops \in Nat

VARIABLES
  connected,  \* peers with an open connection
  authed,     \* authedPeers: peers that authenticated as the DID
  sends,      \* sends[s]: the sendMessage call in progress, or NoSend
  flushPeer,  \* flushPeer[f]: the peer flush f (last) sent to
  wrote,      \* wrote[p]: the payloads written to a stream to peer p, in order
  unread,     \* unread[p]: those of them under way to p
  got,        \* got[p]: those of them that p has read
  accepted,   \* history: payloads given to sendMessage
  thrown,     \* history: payloads whose sendMessage call threw
  drops,      \* lost connections so far
  failures,   \* failing sends so far
  unsure,     \* history: payloads whose send failed after they went out
  lost,       \* history: payloads whose connection broke before they were read
  pending, flushing  \* the queue (StoreForward)

SF == INSTANCE StoreForward

queueVars == <<pending, flushing>>

streams == <<wrote, unread>>
counts == <<failures, unsure>>

vars == <<connected, authed, sends, flushPeer, streams, got, accepted, thrown, drops, counts,
          lost, queueVars>>

NoSend == [msg |-> "none", todo |-> {}]

Init ==
  /\ connected = {}
  /\ authed = {}
  /\ sends = [s \in Senders |-> NoSend]
  /\ flushPeer = [f \in Flushers |-> Derived]
  /\ wrote = [p \in Peers |-> <<>>]
  /\ unread = [p \in Peers |-> {}]
  /\ got = [p \in Peers |-> {}]
  /\ accepted = {}
  /\ thrown = {}
  /\ drops = 0
  /\ failures = 0
  /\ unsure = {}
  /\ lost = {}
  /\ SF!Init

-----------------------------------------------------------------------------
(* Connections (libp2p) *)

Connect(p) ==
  /\ p \notin connected
  /\ connected' = connected \cup {p}
  /\ UNCHANGED <<authed, sends, flushPeer, streams, got, accepted, thrown, drops, counts, lost,
                 queueVars>>

\* the streams end with the connection; what the receiver has in its buffers it can still read
Disconnect(p) ==
  /\ p \in connected
  /\ drops < MaxDrops
  /\ drops' = drops + 1
  /\ connected' = connected \ {p}
  /\ \E cut \in SUBSET unread[p] :
       /\ unread' = [unread EXCEPT ![p] = @ \ cut]
       /\ lost' = lost \cup cut
  /\ UNCHANGED <<authed, sends, flushPeer, wrote, got, accepted, thrown, counts, queueVars>>

\* stream.send of sendToPeerId
Written(p, m) ==
  /\ wrote' = [wrote EXCEPT ![p] = Append(@, m)]
  /\ unread' = [unread EXCEPT ![p] = @ \cup {m}]

\* handleMessageStream of device p reads a frame; the streams are independent
Receive(p, m) ==
  /\ m \in unread[p]
  /\ unread' = [unread EXCEPT ![p] = @ \ {m}]
  /\ got' = [got EXCEPT ![p] = @ \cup {m}]
  /\ UNCHANGED <<connected, authed, sends, flushPeer, wrote, accepted, thrown, drops, counts,
                 lost, queueVars>>

-----------------------------------------------------------------------------
(* Authentication *)

\* recordAuth and afterAuth up to the first await: a flush of the queue to this
\* one peer begins; an empty queue ends it at once
Authenticate(p, f) ==
  /\ p \in connected
  /\ authed' = authed \cup {p}
  /\ \/ pending = <<>> /\ UNCHANGED <<flushPeer, queueVars>>
     \/ SF!FlushBegin(f) /\ flushPeer' = [flushPeer EXCEPT ![f] = p]
  /\ UNCHANGED <<connected, sends, streams, got, accepted, thrown, drops, counts, lost>>

\* afterAuth: sendToPeerId of the next queued payload
FlushSend(f) ==
  /\ flushPeer[f] \in connected
  /\ SF!FlushSend(f)
  /\ Written(flushPeer[f], Head(flushing[f]))
  /\ UNCHANGED <<connected, authed, sends, flushPeer, got, accepted, thrown, drops, counts, lost>>

\* sendToPeerId to peer p of payload m throws: the connection is gone or refused
\* a stream; or, late, the payload went out and closing the stream failed
SendFails(p, m, late) ==
  /\ failures' = IF p \in connected THEN failures + 1 ELSE failures
  /\ failures' <= MaxFailures
  /\ late => p \in connected
  /\ unsure' = IF late THEN unsure \cup {m} ELSE unsure
  /\ IF late THEN Written(p, m) ELSE UNCHANGED streams

\* afterAuth: sendToPeerId threw
FlushFail(f, late) ==
  /\ SF!FlushAbort(f)
  /\ SendFails(flushPeer[f], Head(flushing[f]), late)
  /\ UNCHANGED <<connected, authed, sends, flushPeer, got, accepted, thrown, drops, lost>>

-----------------------------------------------------------------------------
(* sendMessage *)

\* peerIdsForDID: the connected peers that once authenticated as the DID
Reachable == authed \cap connected

\* the peers sendMessage sends to
Targets ==
  IF Reachable # {} THEN Reachable ELSE {Derived} \cap connected

\* sendMessage with nobody reachable: the payload is queued
SendOffline(m) ==
  /\ m \notin accepted
  /\ Targets = {}
  /\ accepted' = accepted \cup {m}
  /\ SF!Queue(m)
  /\ UNCHANGED <<connected, authed, sends, flushPeer, streams, got, thrown, drops, counts, lost>>

\* sendMessage with somebody reachable: the loop over the peers begins
SendOnline(s, m) ==
  /\ m \notin accepted
  /\ sends[s] = NoSend
  /\ Targets # {}
  /\ accepted' = accepted \cup {m}
  /\ sends' = [sends EXCEPT ![s] = [msg |-> m, todo |-> Targets]]
  /\ UNCHANGED <<connected, authed, flushPeer, streams, got, thrown, drops, counts, lost,
                 queueVars>>

\* mutant of Rest: the call never ends
Rest_Endless(c, p) == [c EXCEPT !.todo = @ \ {p}]

\* what is left of a call once the payload is written to peer p
Rest(c, p) == IF c.todo = {p} THEN NoSend ELSE [c EXCEPT !.todo = @ \ {p}]

\* sendMessage: one awaited sendToPeerId succeeded
SendNext(s, p) ==
  /\ p \in sends[s].todo \cap connected
  /\ Written(p, sends[s].msg)
  /\ sends' = [sends EXCEPT ![s] = Rest(@, p)]
  /\ UNCHANGED <<connected, authed, flushPeer, got, accepted, thrown, drops, counts, lost,
                 queueVars>>

\* sendMessage: sendToPeerId threw; the call ends with the exception, which
\* sendToGroup ignores
SendThrow(s, p, late) ==
  /\ p \in sends[s].todo
  /\ SendFails(p, sends[s].msg, late)
  /\ thrown' = thrown \cup {sends[s].msg}
  /\ sends' = [sends EXCEPT ![s] = NoSend]
  /\ UNCHANGED <<connected, authed, flushPeer, got, accepted, drops, lost, queueVars>>

FlushStep(f) == FlushSend(f) \/ \E late \in BOOLEAN : FlushFail(f, late)

SendStep(s) ==
  \E p \in Peers : SendNext(s, p) \/ \E late \in BOOLEAN : SendThrow(s, p, late)

Next ==
  \/ \E p \in Peers : Connect(p) \/ Disconnect(p)
  \/ \E p \in Peers, m \in Messages : Receive(p, m)
  \/ \E p \in Peers, f \in Flushers : Authenticate(p, f)
  \/ \E f \in Flushers : FlushStep(f)
  \/ \E m \in Messages : SendOffline(m)
  \/ \E s \in Senders, m \in Messages : SendOnline(s, m)
  \/ \E s \in Senders : SendStep(s)

Spec == Init /\ [][Next]_vars

\* Started calls run on, the devices read what reached them, and they connect and authenticate
\* again (the condition under which the queue promises anything).
FairSpec ==
  /\ Spec
  /\ \A f \in Flushers : WF_vars(FlushStep(f))
  /\ \A s \in Senders : WF_vars(SendStep(s))
  /\ \A p \in Peers : WF_vars(Connect(p))
  /\ \A p \in Peers : WF_vars(\E m \in Messages : Receive(p, m))
  /\ \A p \in Peers : SF_vars(\E f \in Flushers : Authenticate(p, f))

-----------------------------------------------------------------------------
(* Properties *)

Contents(q) == {q[i] : i \in 1..Len(q)}

\* Every variable has its type.
TypeOK ==
  /\ connected \subseteq Peers
  /\ authed \subseteq Peers
  /\ sends \in [Senders -> {NoSend} \cup [msg : Messages, todo : (SUBSET Peers) \ {{}}]]
  /\ flushPeer \in [Flushers -> Peers]
  /\ wrote \in [Peers -> Seq(Messages)]
  /\ unread \in [Peers -> SUBSET Messages]
  /\ got \in [Peers -> SUBSET Messages]
  /\ accepted \subseteq Messages
  /\ thrown \subseteq accepted
  /\ drops \in 0..MaxDrops
  /\ failures \in 0..MaxFailures
  /\ unsure \subseteq Messages
  /\ lost \subseteq Messages
  /\ SF!TypeOK

\* A payload given to sendMessage is queued, being flushed, being sent, under way to or with
\* some device of the DID; or its call threw, or the connection it was written to broke before
\* it was read (node.ts:225-235 waits for no acknowledgement).  It disappears in no other way.
Accounted ==
  \A m \in accepted :
    \/ m \in Contents(pending)
    \/ \E f \in Flushers : m \in Contents(flushing[f])
    \/ \E s \in Senders : sends[s].msg = m
    \/ \E p \in Peers : m \in unread[p] \cup got[p]
    \/ m \in thrown \cup lost

\* No payload is written to a device twice, unless a send of it failed after it went out: a
\* payload goes through the queue or is sent directly, never both, two flushes never hold the
\* same one, and a failing flush sends nothing again.
NoDuplicates ==
  \A p \in Peers : \A i, j \in 1..Len(wrote[p]) :
    wrote[p][i] = wrote[p][j] => i = j \/ wrote[p][i] \in unsure

\* A payload that was queued is eventually read by some device of the DID, unless the connection
\* it was flushed to breaks before: then it is gone, as the flush has taken it off the queue.
QueuedArrives ==
  \A m \in Messages :
    (m \in Contents(pending)) ~> (m \in lost \/ \E p \in Peers : m \in got[p])

=============================================================================
