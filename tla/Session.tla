-------------------------------- MODULE Session --------------------------------
(***************************************************************************)
(* Who is at the other end (ts/linkself/src/auth.ts, node.ts and the fast  *)
(* start of client.ts).  A device has the key of its host, which is its    *)
(* peer id and is known from the connection, and the key of its identity,  *)
(* which it proves in a handshake: the same key, or one that several       *)
(* devices of a user share.  Both sides of a connection record the DID     *)
(* they learn, send what they kept for it, and from then on attribute      *)
(* messages to it.  Handshakes of both kinds and messages run on streams   *)
(* of their own, so they overtake each other.                              *)
(***************************************************************************)
EXTENDS Naturals, FiniteSets

CONSTANTS
  Devices,
  DIDs,
  Account,     \* Account[d]: the DID of the identity of d
  Host,        \* Host[d]: the DID of the host key of d, which stands for its peer id
  Payloads,    \* messages, each sent once
  To,          \* To[m]: the DID that m is for
  Contacts,    \* the calls of connectToAddr, each [from, did, to, mutual]
  MaxDials,    \* bound: handshakes in a behaviour
  MaxBreaks    \* bound: lost connections and restarts of devices

Nobody == "nobody"

ASSUME SessionAssumption ==
  /\ Nobody \notin DIDs
  /\ Account \in [Devices -> DIDs] /\ Host \in [Devices -> DIDs]
  /\ \A d, e \in Devices : Host[d] = Host[e] => d = e
  /\ To \in [Payloads -> DIDs]
  /\ Contacts \subseteq [from : Devices, did : DIDs, to : Devices, mutual : BOOLEAN]
  /\ MaxDials \in Nat /\ MaxBreaks \in Nat

Dials == 1..MaxDials
Sides == {"i", "r"}  \* initiator, responder
VARIABLES
  conn,        \* pairs of devices that are connected
  authedPeers, \* authedPeers[d][p]: the DID recorded for p, or Nobody
  shake,       \* shake[s]: the handshake of dial s
  queue,       \* queue[d]: the payloads d keeps for a DID it could not reach
  out,         \* messages on their way, as [from, to, m]
  received,    \* messages received, as [at, as, m]: as is the DID they are attributed to
  sent,        \* payloads given to sendMessage
  fast,        \* fast[d]: the known peers a restarted device dials, with the dial under way
  breaks,      \* lost connections and restarts so far
  dialled      \* history: dialled[d], the devices d has authenticated by a dial of its own

sessionVars == <<conn, authedPeers, shake, queue, out, received, sent, fast, breaks, dialled>>

NoShake == [pc |-> [x \in Sides |-> "idle"]]

SessionInit ==
  /\ conn = {}
  /\ authedPeers = [d \in Devices |-> [p \in Devices |-> Nobody]]
  /\ shake = [s \in Dials |-> NoShake]
  /\ queue = [d \in Devices |-> {}]
  /\ out = {} /\ received = {} /\ sent = {}
  /\ fast = [d \in Devices |-> {}]
  /\ breaks = 0
  /\ dialled = [d \in Devices |-> {}]

-----------------------------------------------------------------------------

Used(s) == shake[s].pc["i"] # "idle"
Me(h, x) == IF x = "i" THEN h.from ELSE h.to
Other(h, x) == IF x = "i" THEN h.to ELSE h.from
Linked(d, p) == {d, p} \in conn

\* connectToAddr: dial, and the first frame of the initiator
Dialling(s, d, did, p, mutual) ==
  /\ s \in Dials /\ ~Used(s) /\ \A t \in 1..(s - 1) : Used(t)
  /\ d # p
  /\ conn' = conn \cup {{d, p}}
  /\ shake' = [shake EXCEPT ![s] =
       [from |-> d, to |-> p, mutual |-> mutual, expected |-> did,
        pc |-> [i |-> IF mutual THEN "intro" ELSE "sig", r |-> "intro"],
        toI |-> {}, toR |-> {"intro"},
        todo |-> [x \in Sides |-> {}]]]

Dial(s, c) ==
  /\ Dialling(s, c.from, c.did, c.to, c.mutual)
  /\ UNCHANGED <<authedPeers, queue, out, received, sent, fast, breaks, dialled>>

\* the initiator has read an introduction: is it the DID it expects?
Expected(h) == h.expected = Account[h.to]

\* verifyChallenge: the signature is by the expected DID, and so is the host key
Verified(h) ==
  \/ h.mutual
  \/ h.expected = Account[h.to] /\ h.expected = Host[h.to]

ReadInitiator(s) ==
  LET h == shake[s] IN
  /\ \/ /\ h.pc["i"] = "intro" /\ "intro" \in h.toI
        /\ shake' = [shake EXCEPT ![s] =
             IF Expected(h)
             THEN [h EXCEPT !.pc["i"] = "sig", !.toR = @ \cup {"sig"}]
             ELSE [h EXCEPT !.pc["i"] = "failed"]]
     \/ /\ h.pc["i"] = "sig" /\ "sig" \in h.toI
        /\ shake' = [shake EXCEPT ![s].pc["i"] = IF Verified(h) THEN "record" ELSE "failed"]
  /\ UNCHANGED <<conn, authedPeers, queue, out, received, sent, fast, breaks, dialled>>

\* mutant of Reply: the responder introduces itself with its signature
Reply_Late(h) ==
  IF h.mutual /\ h.pc["r"] = "intro" THEN {} ELSE {"intro", "sig"}

\* what the responder sends once it has read a frame
Reply(h) ==
  IF h.mutual /\ h.pc["r"] = "intro" THEN {"intro"} ELSE {"sig"}

ReadResponder(s) ==
  LET h == shake[s] IN
  /\ h.pc["r"] \in {"intro", "sig"} /\ h.pc["r"] \in h.toR
  /\ shake' = [shake EXCEPT ![s] =
       [h EXCEPT !.pc["r"] = IF h.mutual /\ @ = "intro" THEN "sig" ELSE "record",
                 !.toI = @ \cup Reply(h)]]
  /\ UNCHANGED <<conn, authedPeers, queue, out, received, sent, fast, breaks, dialled>>

-----------------------------------------------------------------------------

\* remoteDID: what a handshake has recorded, else the DID of the host key
RemoteDID(d, p) == IF authedPeers[d][p] # Nobody THEN authedPeers[d][p] ELSE Host[p]

\* mutant of Learned: the responder of a one-way handshake takes the host key
Learned_FromHost(h, x) ==
  IF h.mutual THEN Account[Other(h, x)]
  ELSE IF x = "i" THEN h.expected
  ELSE Host[h.from]

\* the DID that a side records; the responder of a one-way handshake takes what it knows
Learned(h, x) ==
  IF h.mutual THEN Account[Other(h, x)]
  ELSE IF x = "i" THEN h.expected
  ELSE RemoteDID(h.to, h.from)

\* mutant of Kept: the whole queue
Kept_All(d, did) == queue[d]

\* what d keeps for a DID
Kept(d, did) == {m \in queue[d] : To[m] = did}

\* recordAuth, and afterAuth up to its first send
Record(s, x) ==
  LET h == shake[s]
      d == Me(h, x)
      did == Learned(h, x)
      kept == Kept(d, did)
  IN /\ h.pc[x] = "record"
     /\ authedPeers' = [authedPeers EXCEPT ![d][Other(h, x)] = did]
     /\ queue' = [queue EXCEPT ![d] = @ \ kept]
     /\ shake' = [shake EXCEPT ![s].pc[x] = IF kept = {} THEN "done" ELSE "flush",
                               ![s].todo[x] = kept]
     /\ dialled' = IF x = "i" THEN [dialled EXCEPT ![d] = @ \cup {h.to}] ELSE dialled
     /\ UNCHANGED <<conn, out, received, sent, fast, breaks>>

\* closing the stream of the handshake failed, as the connection is gone; the initiator of
\* a one-way handshake has closed it before
Abandon(s, x) ==
  /\ shake[s].pc[x] = "record"
  /\ shake[s].mutual \/ x = "r"
  /\ ~Linked(shake[s].from, shake[s].to)
  /\ shake' = [shake EXCEPT ![s].pc[x] = "failed"]
  /\ UNCHANGED <<conn, authedPeers, queue, out, received, sent, fast, breaks, dialled>>

\* afterAuth: one more kept payload, or the rest is kept again
Flush(s, x) ==
  LET h == shake[s] IN
  /\ h.pc[x] = "flush"
  /\ IF Linked(h.from, h.to)
     THEN \E m \in h.todo[x] :
            /\ out' = out \cup {[from |-> Me(h, x), to |-> Other(h, x), m |-> m]}
            /\ shake' = [shake EXCEPT ![s].todo[x] = @ \ {m},
                                      ![s].pc[x] = IF h.todo[x] = {m} THEN "done" ELSE @]
            /\ UNCHANGED queue
     ELSE /\ queue' = [queue EXCEPT ![Me(h, x)] = @ \cup h.todo[x]]
          /\ shake' = [shake EXCEPT ![s].todo[x] = {}, ![s].pc[x] = "done"]
          /\ UNCHANGED out
  /\ UNCHANGED <<conn, authedPeers, received, sent, fast, breaks, dialled>>

-----------------------------------------------------------------------------
(* Messages *)

\* peerIdsForDID, else the peer whose host key is the DID
PeerIdsForDID(d, did) ==
  LET known == {p \in Devices : authedPeers[d][p] = did /\ Linked(d, p)}
  IN IF known # {} THEN known ELSE {p \in Devices : Host[p] = did /\ Linked(d, p)}

\* sendMessage; Node has the sends one by one, and what happens when one fails
Send(d, m) ==
  /\ m \notin sent
  /\ sent' = sent \cup {m}
  /\ IF PeerIdsForDID(d, To[m]) = {}
     THEN queue' = [queue EXCEPT ![d] = @ \cup {m}] /\ UNCHANGED out
     ELSE /\ out' = out \cup {[from |-> d, to |-> p, m |-> m] : p \in PeerIdsForDID(d, To[m])}
          /\ UNCHANGED queue
  /\ UNCHANGED <<conn, authedPeers, shake, received, fast, breaks, dialled>>

\* handleMessageStream, up to the dispatch
Deliver(x) ==
  /\ x \in out
  /\ out' = out \ {x}
  /\ received' = received \cup {[at |-> x.to, as |-> RemoteDID(x.to, x.from), m |-> x.m]}
  /\ UNCHANGED <<conn, authedPeers, shake, queue, sent, fast, breaks, dialled>>

-----------------------------------------------------------------------------
(* Connections break and devices restart *)

\* the handshakes once the pairs are cut: who waits for a frame fails
Cut(pairs, h) ==
  IF h # NoShake /\ {h.from, h.to} \in pairs
  THEN [h EXCEPT !.pc = [x \in Sides |-> IF @[x] \in {"intro", "sig"} THEN "failed" ELSE @[x]]]
  ELSE h

InFlight(pairs) == {x \in out : {x.from, x.to} \in pairs}

ConnectionLost(d, p) ==
  /\ Linked(d, p)
  /\ breaks < MaxBreaks
  /\ breaks' = breaks + 1
  /\ conn' = conn \ {{d, p}}
  /\ shake' = [s \in Dials |-> Cut({{d, p}}, shake[s])]
  /\ out' = out \ InFlight({{d, p}})
  /\ UNCHANGED <<authedPeers, queue, received, sent, fast, dialled>>

\* snapshotKnownPeers: the connected devices, by the DID they are known by
KnownPeers(d) ==
  LET near == {p \in Devices : p # d /\ Linked(d, p)}
  IN {[did |-> e, addrs |-> {p \in near : RemoteDID(d, p) = e}, dial |-> 0] :
        e \in {RemoteDID(d, p) : p \in near}}

\* the handshakes of a device that restarts end
Ended(d, h) ==
  IF h # NoShake
  THEN [h EXCEPT !.pc = [x \in Sides |-> IF Me(h, x) = d THEN "failed" ELSE @[x]],
                 !.todo = [x \in Sides |-> IF Me(h, x) = d THEN {} ELSE @[x]]]
  ELSE h

\* what is in memory is lost; the application may have kept the known peers
Restart(d) ==
  LET pairs == {{d, p} : p \in Devices} IN
  /\ breaks < MaxBreaks
  /\ breaks' = breaks + 1
  /\ conn' = conn \ pairs
  /\ authedPeers' = [authedPeers EXCEPT ![d] = [p \in Devices |-> Nobody]]
  /\ shake' = [s \in Dials |-> Ended(d, Cut(pairs, shake[s]))]
  /\ queue' = [queue EXCEPT ![d] = {}]
  /\ out' = out \ InFlight(pairs)
  /\ dialled' = [dialled EXCEPT ![d] = {}]
  /\ \E known \in {{}, KnownPeers(d)} : fast' = [fast EXCEPT ![d] = known]
  /\ UNCHANGED <<received, sent>>

\* fastStart: the next address of a known peer; siblings get the mutual handshake
FastDial(s, d, k) ==
  /\ k \in fast[d] /\ k.dial = 0
  /\ \E p \in k.addrs :
       /\ Dialling(s, d, k.did, p, k.did = Account[d])
       /\ fast' = [fast EXCEPT ![d] =
            (@ \ {k}) \cup {[k EXCEPT !.dial = s, !.addrs = @ \ {p}]}]
  /\ UNCHANGED <<authedPeers, queue, out, received, sent, breaks, dialled>>

\* the first address that authenticates is enough
FastNext(d, k) ==
  /\ k \in fast[d] /\ k.dial # 0
  /\ shake[k.dial].pc["i"] \in {"done", "failed"}
  /\ fast' = [fast EXCEPT ![d] =
       (@ \ {k}) \cup IF shake[k.dial].pc["i"] = "done" THEN {} ELSE {[k EXCEPT !.dial = 0]}]
  /\ UNCHANGED <<conn, authedPeers, shake, queue, out, received, sent, breaks, dialled>>

-----------------------------------------------------------------------------

Step(s) ==
  \/ ReadInitiator(s) \/ ReadResponder(s)
  \/ \E x \in Sides : Record(s, x) \/ Abandon(s, x) \/ Flush(s, x)

SessionNext ==
  \/ \E s \in Dials, c \in Contacts : Dial(s, c)
  \/ \E s \in Dials : Step(s)
  \/ \E d \in Devices, m \in Payloads : Send(d, m)
  \/ \E x \in out : Deliver(x)
  \/ \E d, p \in Devices : ConnectionLost(d, p)
  \/ \E d \in Devices : Restart(d)
  \/ \E d \in Devices : \E k \in fast[d] :
       FastNext(d, k) \/ \E s \in Dials : FastDial(s, d, k)

SessionSpec == SessionInit /\ [][SessionNext]_sessionVars

\* frames that were sent are read, and the handlers of a handshake run on
SessionFairSpec == SessionSpec /\ \A s \in Dials : WF_sessionVars(Step(s))

-----------------------------------------------------------------------------

\* A device that has authenticated another by a dial of its own knows it by the DID of its
\* identity from then on (node.ts 149-176, 249-278), whatever handshakes of either kind and
\* direction overlap or follow: no later one makes it known by its host key again, which
\* would attribute its messages to another user and send what is meant for it nowhere.
KnownByAccount ==
  \A d \in Devices : \A p \in dialled[d] : authedPeers[d][p] = Account[p]

\* A payload only reaches devices of the DID it was sent to (node.ts 207-246), although
\* addresses are stale, devices restart, and a queue holds payloads for several DIDs.
ReachesAddressee ==
  \A x \in received : To[x.m] \in {Account[x.at], Host[x.at]}

\* Handshakes do not lock up: "strict alternation ... keeps the exchange deadlock-free"
\* (auth.ts 158).  The one case where a side is left waiting is an initiator that meets the
\* wrong DID, throws, and does not close the stream (auth.ts 184).
Ends(s) ==
  LET h == shake[s]
      ended == {x \in Sides : h.pc[x] \in {"done", "failed"}}
  IN \/ ended = Sides
     \/ Used(s) /\ h.mutual /\ ~Expected(h) /\ "i" \in ended
HandshakesEnd == \A s \in Dials : Used(s) ~> Ends(s)

=============================================================================
