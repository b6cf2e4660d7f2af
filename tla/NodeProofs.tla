------------------------------ MODULE NodeProofs ------------------------------
(***************************************************************************)
(* Proofs about Node: what is given to sendMessage is kept track of and no *)
(* device gets it twice, for any number of payloads, devices, lost         *)
(* connections, failing sends and overlapping calls and flushes.           *)
(*                                                                         *)
(* A payload is in one place at a time: in the queue, in one flush, with   *)
(* one sendMessage call, or written to a stream or given up.  Only a send  *)
(* that fails after the payload went out leaves it in two (unsure).        *)
(*                                                                         *)
(* And about Session: a device is known by the right DID and payloads      *)
(* reach the right DID, for any devices, keys, calls and restarts.         *)
(***************************************************************************)
EXTENDS Node, Session, TLAPS

-----------------------------------------------------------------------------
(* The invariant *)

\* no payload occurs twice in q, but for those in excused
DistinctBut(q, excused) == \A i, j \in 1..Len(q) : q[i] = q[j] => i = j \/ q[i] \in excused

Distinct(q) == DistinctBut(q, {})

\* a sendMessage call is in progress
Sending(s) == sends[s] # NoSend

\* only what was given to sendMessage is anywhere
AcceptedOnly ==
  /\ Contents(pending) \subseteq accepted
  /\ \A f \in Flushers : Contents(flushing[f]) \subseteq accepted
  /\ \A s \in Senders : Sending(s) => sends[s].msg \in accepted
  /\ \A p \in Peers : Contents(wrote[p]) \subseteq accepted

\* Accounted, for a call that is really in progress
Located ==
  \A m \in accepted :
    \/ m \in Contents(pending)
    \/ \E f \in Flushers : m \in Contents(flushing[f])
    \/ \E s \in Senders : Sending(s) /\ sends[s].msg = m
    \/ \E p \in Peers : m \in Contents(wrote[p])
    \/ m \in thrown

\* the queue and the flushes hold each payload once
QueuesApart ==
  /\ Distinct(pending)
  /\ \A f \in Flushers : Distinct(flushing[f])
  /\ \A f \in Flushers : Contents(pending) \cap Contents(flushing[f]) = {}
  /\ \A f, g \in Flushers : f # g => Contents(flushing[f]) \cap Contents(flushing[g]) = {}

\* a payload that is being sent directly is in no queue, with no other call, and
\* not yet with the devices the call still has to send it to
SendsApart ==
  \A s \in Senders : Sending(s) =>
    /\ sends[s].msg \notin Contents(pending)
    /\ \A f \in Flushers : sends[s].msg \notin Contents(flushing[f])
    /\ \A r \in Senders : Sending(r) /\ sends[r].msg = sends[s].msg => r = s
    /\ \A p \in sends[s].todo : sends[s].msg \notin Contents(wrote[p])

\* what is still queued has not been written to a stream, but for a send that failed late
NotYetSent ==
  \A p \in Peers : \A m \in Contents(wrote[p]) :
    \/ m \in unsure
    \/ /\ m \notin Contents(pending)
       /\ \A f \in Flushers : m \notin Contents(flushing[f])

\* what was written to a stream is on its way, read, or lost with the connection
Tracked == \A p \in Peers : Contents(wrote[p]) \subseteq unread[p] \cup got[p] \cup lost

IInv ==
  /\ TypeOK /\ AcceptedOnly /\ Located /\ Tracked
  /\ QueuesApart /\ SendsApart /\ NotYetSent /\ NoDuplicates

-----------------------------------------------------------------------------
(* Sequences of payloads *)

LEMMA EmptyQueue ==
  ASSUME NEW S
  PROVE  <<>> \in Seq(S) /\ Contents(<<>>) = {} /\ Distinct(<<>>)
  BY DEF Contents, Distinct, DistinctBut

LEMMA Appended ==
  ASSUME NEW S, NEW q \in Seq(S), NEW e \in S
  PROVE  /\ Append(q, e) \in Seq(S)
         /\ Contents(Append(q, e)) = Contents(q) \cup {e}
         /\ \A x : DistinctBut(q, x) /\ (e \in Contents(q) => e \in x)
                     => DistinctBut(Append(q, e), x)
<1>1. /\ Append(q, e) \in Seq(S) /\ Len(Append(q, e)) = Len(q) + 1 /\ Len(q) \in Nat
      /\ Append(q, e)[Len(q) + 1] = e
      /\ \A i \in 1..Len(q) : Append(q, e)[i] = q[i]
  OBVIOUS
<1>2. 1..(Len(q) + 1) = (1..Len(q)) \cup {Len(q) + 1}
  BY <1>1
<1> DEFINE a == Append(q, e)
<1> HIDE DEF a
<1>3. Contents(a) = {a[i] : i \in (1..Len(q)) \cup {Len(q) + 1}}
  BY <1>1, <1>2 DEF Contents, a
<1>4. Contents(a) = Contents(q) \cup {e}
  BY <1>1, <1>3 DEF Contents, a
<1>5. ASSUME NEW x, DistinctBut(q, x), e \in Contents(q) => e \in x
      PROVE  DistinctBut(a, x)
  <2> SUFFICES ASSUME NEW i \in 1..Len(a), NEW j \in 1..Len(a), a[i] = a[j], i # j
               PROVE  a[i] \in x
    BY DEF DistinctBut
  <2>0. i \in (1..Len(q)) \cup {Len(q) + 1} /\ j \in (1..Len(q)) \cup {Len(q) + 1}
    BY <1>1, <1>2 DEF a
  <2>1. CASE i \in 1..Len(q) /\ j \in 1..Len(q)
    BY <1>1, <1>5, <2>1 DEF DistinctBut, a
  <2>2. CASE i = Len(q) + 1 /\ j \in 1..Len(q)
    <3>1. a[i] = e /\ e = q[j]
      BY <1>1, <2>2 DEF a
    <3> QED
      BY <1>5, <2>2, <3>1 DEF Contents
  <2>3. CASE j = Len(q) + 1 /\ i \in 1..Len(q)
    <3>1. a[i] = e /\ e = q[i]
      BY <1>1, <2>3 DEF a
    <3> QED
      BY <1>5, <2>3, <3>1 DEF Contents
  <2> QED
    BY <2>0, <2>1, <2>2, <2>3
<1> QED
  BY <1>1, <1>4, <1>5 DEF a

LEMMA HeadAndTail ==
  ASSUME NEW S, NEW q \in Seq(S), q # <<>>
  PROVE  /\ Head(q) \in S /\ Tail(q) \in Seq(S)
         /\ Contents(q) = {Head(q)} \cup Contents(Tail(q))
         /\ Distinct(q) => Distinct(Tail(q)) /\ Head(q) \notin Contents(Tail(q))
<1>1. /\ Head(q) \in S /\ Tail(q) \in Seq(S)
      /\ Len(q) \in Nat /\ Len(q) # 0 /\ Len(Tail(q)) = Len(q) - 1
      /\ Head(q) = q[1]
      /\ \A i \in 1..(Len(q) - 1) : Tail(q)[i] = q[i + 1]
  OBVIOUS
<1> DEFINE t == Tail(q)
<1> HIDE DEF t
<1>2. ASSUME NEW y \in Contents(q) PROVE y \in {Head(q)} \cup Contents(t)
  <2>1. PICK i \in 1..Len(q) : y = q[i]
    BY DEF Contents
  <2>2. CASE i = 1
    BY <1>1, <2>1, <2>2
  <2>3. CASE i # 1
    <3>1. i - 1 \in 1..Len(t) /\ t[i - 1] = y
      BY <1>1, <2>1, <2>3 DEF t
    <3> QED
      BY <3>1 DEF Contents
  <2> QED
    BY <2>2, <2>3
<1>3. ASSUME NEW y \in Contents(t) PROVE \E i \in 2..Len(q) : y = q[i]
  <2>1. PICK i \in 1..Len(t) : y = t[i]
    BY DEF Contents
  <2>2. i + 1 \in 2..Len(q) /\ q[i + 1] = y
    BY <1>1, <2>1 DEF t
  <2> QED
    BY <2>2
<1>4. Head(q) \in Contents(q) /\ Contents(t) \subseteq Contents(q)
  <2>1. 1 \in 1..Len(q) /\ 2..Len(q) \subseteq 1..Len(q)
    BY <1>1
  <2> QED
    BY <1>1, <1>3, <2>1 DEF Contents
<1>5. ASSUME Distinct(q) PROVE Distinct(t) /\ Head(q) \notin Contents(t)
  <2>1. ASSUME NEW i \in 1..Len(t), NEW j \in 1..Len(t), t[i] = t[j]
        PROVE  i = j
    <3>1. i + 1 \in 1..Len(q) /\ j + 1 \in 1..Len(q) /\ q[i + 1] = q[j + 1]
      BY <1>1, <2>1 DEF t
    <3>2. i + 1 = j + 1
      BY <1>5, <3>1 DEF Distinct, DistinctBut
    <3> QED
      BY <1>1, <3>2 DEF t
  <2>2. ASSUME Head(q) \in Contents(t) PROVE FALSE
    <3>1. PICK i \in 2..Len(q) : Head(q) = q[i]
      BY <1>3, <2>2
    <3>2. 1 \in 1..Len(q) /\ i \in 1..Len(q) /\ q[1] = q[i] /\ i # 1
      BY <1>1, <3>1
    <3> QED
      BY <1>5, <3>2 DEF Distinct, DistinctBut
  <2> QED
    BY <2>1, <2>2 DEF Distinct, DistinctBut
<1> QED
  BY <1>1, <1>2, <1>4, <1>5 DEF t

LEMMA Joined ==
  ASSUME NEW S, NEW q \in Seq(S), NEW r \in Seq(S)
  PROVE  /\ q \o r \in Seq(S)
         /\ Contents(q \o r) = Contents(q) \cup Contents(r)
         /\ Distinct(q) /\ Distinct(r) /\ Contents(q) \cap Contents(r) = {} => Distinct(q \o r)
<1>1. /\ q \o r \in Seq(S) /\ Len(q) \in Nat /\ Len(r) \in Nat
      /\ Len(q \o r) = Len(q) + Len(r)
      /\ \A i \in 1..(Len(q) + Len(r)) : (q \o r)[i] = IF i <= Len(q) THEN q[i] ELSE r[i - Len(q)]
  OBVIOUS
<1> DEFINE j == q \o r
<1> HIDE DEF j
<1>2. ASSUME NEW i \in 1..Len(j)
      PROVE  \/ i \in 1..Len(q) /\ j[i] = q[i]
             \/ i - Len(q) \in 1..Len(r) /\ j[i] = r[i - Len(q)]
  BY <1>1 DEF j
<1>3. Contents(j) \subseteq Contents(q) \cup Contents(r)
  BY <1>2 DEF Contents
<1>4. ASSUME NEW i \in 1..Len(q) PROVE q[i] \in Contents(j)
  <2>1. i \in 1..Len(j) /\ j[i] = q[i]
    BY <1>1 DEF j
  <2> QED
    BY <2>1 DEF Contents
<1>5. ASSUME NEW i \in 1..Len(r) PROVE r[i] \in Contents(j)
  <2>1. i + Len(q) \in 1..Len(j) /\ j[i + Len(q)] = r[i]
    BY <1>1 DEF j
  <2> QED
    BY <2>1 DEF Contents
<1>6. ASSUME Distinct(q), Distinct(r), Contents(q) \cap Contents(r) = {}
      PROVE  Distinct(j)
  <2> SUFFICES ASSUME NEW i \in 1..Len(j), NEW k \in 1..Len(j), j[i] = j[k]
               PROVE  i = k
    BY DEF Distinct, DistinctBut
  <2>1. CASE i \in 1..Len(q) /\ j[i] = q[i] /\ k \in 1..Len(q) /\ j[k] = q[k]
    BY <1>6, <2>1 DEF Distinct, DistinctBut
  <2>2. CASE /\ i - Len(q) \in 1..Len(r) /\ j[i] = r[i - Len(q)]
             /\ k - Len(q) \in 1..Len(r) /\ j[k] = r[k - Len(q)]
    <3>1. i - Len(q) = k - Len(q)
      BY <1>6, <2>2 DEF Distinct, DistinctBut
    <3> QED
      BY <1>1, <3>1 DEF j
  <2>3. CASE /\ i \in 1..Len(q) /\ j[i] = q[i]
             /\ k - Len(q) \in 1..Len(r) /\ j[k] = r[k - Len(q)]
    BY <1>6, <2>3 DEF Contents
  <2>4. CASE /\ k \in 1..Len(q) /\ j[k] = q[k]
             /\ i - Len(q) \in 1..Len(r) /\ j[i] = r[i - Len(q)]
    BY <1>6, <2>4 DEF Contents
  <2> QED
    BY <1>2, <2>1, <2>2, <2>3, <2>4
<1>7. Contents(q) \cup Contents(r) \subseteq Contents(j)
  BY <1>4, <1>5 DEF Contents
<1> QED
  BY <1>1, <1>3, <1>6, <1>7 DEF j

-----------------------------------------------------------------------------
(* The queue operations: what moves where *)

\* what no queue holds
Unqueued(m) == m \notin Contents(pending) /\ \A f \in Flushers : m \notin Contents(flushing[f])

LEMMA Queued ==
  ASSUME SF!TypeOK, NEW m \in Messages, SF!Queue(m)
  PROVE  /\ SF!TypeOK'
         /\ Contents(pending') = Contents(pending) \cup {m}
         /\ flushing' = flushing
         /\ QueuesApart /\ Unqueued(m) => QueuesApart'
<1>1. /\ pending' \in Seq(Messages)
      /\ Contents(pending') = Contents(pending) \cup {m}
      /\ Distinct(pending) /\ m \notin Contents(pending) => Distinct(pending')
  BY Appended DEF SF!TypeOK, SF!Queue, Distinct
<1>2. flushing' = flushing
  BY DEF SF!Queue
<1>3. QueuesApart /\ Unqueued(m) => QueuesApart'
  BY <1>1, <1>2 DEF QueuesApart, Unqueued
<1> QED
  BY <1>1, <1>2, <1>3 DEF SF!TypeOK

LEMMA Begun ==
  ASSUME SF!TypeOK, NEW f \in Flushers, SF!FlushBegin(f)
  PROVE  /\ SF!TypeOK'
         /\ Contents(pending') = {}
         /\ Contents(flushing[f]) = {} /\ Contents(flushing'[f]) = Contents(pending)
         /\ \A g \in Flushers \ {f} : flushing'[g] = flushing[g]
         /\ QueuesApart => QueuesApart'
<1>1. /\ pending' \in Seq(Messages) /\ Contents(pending') = {} /\ Distinct(pending')
      /\ Contents(flushing[f]) = {}
  BY EmptyQueue DEF SF!FlushBegin
<1>2. /\ flushing' \in [Flushers -> Seq(Messages)]
      /\ flushing'[f] = pending
      /\ \A g \in Flushers \ {f} : flushing'[g] = flushing[g]
  BY DEF SF!TypeOK, SF!FlushBegin
<1>3. QueuesApart => QueuesApart'
  BY <1>1, <1>2 DEF QueuesApart
<1> QED
  BY <1>1, <1>2, <1>3 DEF SF!TypeOK

LEMMA SentOne ==
  ASSUME SF!TypeOK, NEW f \in Flushers, SF!FlushSend(f), NEW h, h = Head(flushing[f])
  PROVE  /\ SF!TypeOK'
         /\ h \in Messages
         /\ pending' = pending
         /\ Contents(flushing[f]) = {h} \cup Contents(flushing'[f])
         /\ \A g \in Flushers \ {f} : flushing'[g] = flushing[g]
         /\ QueuesApart => QueuesApart' /\ Unqueued(h)'
<1>1. pending' = pending /\ flushing[f] \in Seq(Messages) /\ flushing[f] # <<>>
  BY DEF SF!TypeOK, SF!FlushSend
<1>2. /\ h \in Messages /\ Tail(flushing[f]) \in Seq(Messages)
      /\ Contents(flushing[f]) = {h} \cup Contents(Tail(flushing[f]))
      /\ Distinct(flushing[f]) =>
           Distinct(Tail(flushing[f])) /\ h \notin Contents(Tail(flushing[f]))
  BY <1>1, HeadAndTail
<1>3. /\ flushing' \in [Flushers -> Seq(Messages)]
      /\ flushing'[f] = Tail(flushing[f])
      /\ \A g \in Flushers \ {f} : flushing'[g] = flushing[g]
  BY <1>2 DEF SF!TypeOK, SF!FlushSend
<1>4. ASSUME QueuesApart
      PROVE  QueuesApart' /\ Unqueued(h)'
  <2>1. Distinct(flushing'[f]) /\ h \notin Contents(flushing'[f])
    BY <1>2, <1>3, <1>4 DEF QueuesApart
  <2>2. Contents(flushing'[f]) = Contents(flushing[f]) \ {h} /\ h \in Contents(flushing[f])
    BY <1>2, <1>3, <2>1
  <2>3. QueuesApart'
    BY <1>1, <1>3, <1>4, <2>1, <2>2 DEF QueuesApart
  <2>4. Unqueued(h)'
    BY <1>1, <1>3, <1>4, <2>1, <2>2 DEF QueuesApart, Unqueued
  <2> QED
    BY <2>3, <2>4
<1> QED
  BY <1>1, <1>2, <1>3, <1>4 DEF SF!TypeOK

LEMMA Aborted ==
  ASSUME SF!TypeOK, NEW f \in Flushers, SF!FlushAbort(f)
  PROVE  /\ SF!TypeOK'
         /\ Head(flushing[f]) \in Messages /\ Head(flushing[f]) \in Contents(flushing[f])
         /\ Contents(pending') = Contents(flushing[f]) \cup Contents(pending)
         /\ Contents(flushing'[f]) = {}
         /\ \A g \in Flushers \ {f} : flushing'[g] = flushing[g]
         /\ QueuesApart => QueuesApart'
<1>1. flushing[f] \in Seq(Messages) /\ flushing[f] # <<>> /\ pending \in Seq(Messages)
  BY DEF SF!TypeOK, SF!FlushAbort
<1>2. pending' = flushing[f] \o pending
  BY DEF SF!FlushAbort, SF!Requeued
<1>3. /\ pending' \in Seq(Messages)
      /\ Contents(pending') = Contents(flushing[f]) \cup Contents(pending)
      /\ QueuesApart => Distinct(pending')
  BY <1>1, <1>2, Joined DEF QueuesApart
<1>4. Head(flushing[f]) \in Messages /\ Head(flushing[f]) \in Contents(flushing[f])
  BY <1>1, HeadAndTail
<1>5. /\ flushing'[f] = <<>>
      /\ flushing' \in [Flushers -> Seq(Messages)]
      /\ \A g \in Flushers \ {f} : flushing'[g] = flushing[g]
  BY DEF SF!TypeOK, SF!FlushAbort
<1>6. Contents(flushing'[f]) = {} /\ Distinct(flushing'[f])
  BY <1>5, EmptyQueue
<1>7. QueuesApart => QueuesApart'
  BY <1>3, <1>5, <1>6 DEF QueuesApart
<1> QED
  BY <1>3, <1>4, <1>5, <1>6, <1>7 DEF SF!TypeOK

-----------------------------------------------------------------------------
(* A payload is written to a stream *)

LEMMA WrittenOnce ==
  ASSUME TypeOK, NEW p \in Peers, NEW m \in Messages, Written(p, m)
  PROVE  /\ wrote' \in [Peers -> Seq(Messages)] /\ unread' \in [Peers -> SUBSET Messages]
         /\ Contents(wrote'[p]) = Contents(wrote[p]) \cup {m}
         /\ \A q \in Peers \ {p} : wrote'[q] = wrote[q]
         /\ Tracked /\ got' = got /\ lost' = lost => Tracked'
<1>1. wrote[p] \in Seq(Messages)
  BY DEF TypeOK
<1>2. Append(wrote[p], m) \in Seq(Messages) /\ Contents(Append(wrote[p], m)) = Contents(wrote[p]) \cup {m}
  BY <1>1, Appended
<1>3. /\ wrote' \in [Peers -> Seq(Messages)] /\ wrote'[p] = Append(wrote[p], m)
      /\ \A q \in Peers \ {p} : wrote'[q] = wrote[q]
  BY <1>2 DEF TypeOK, Written
<1>4. /\ unread' \in [Peers -> SUBSET Messages] /\ unread'[p] = unread[p] \cup {m}
      /\ \A q \in Peers \ {p} : unread'[q] = unread[q]
  BY DEF TypeOK, Written
<1>5. Tracked /\ got' = got /\ lost' = lost => Tracked'
  BY <1>2, <1>3, <1>4 DEF Tracked
<1> QED
  BY <1>2, <1>3, <1>4, <1>5

\* It is not the second time, or an earlier send of it failed late.
LEMMA NotTwice ==
  ASSUME TypeOK, NoDuplicates, NEW p \in Peers, NEW m \in Messages, Written(p, m),
         unsure \subseteq unsure', m \in Contents(wrote[p]) => m \in unsure'
  PROVE  NoDuplicates'
<1>1. wrote[p] \in Seq(Messages)
  BY DEF TypeOK
<1>2. \A q \in Peers : DistinctBut(wrote[q], unsure')
  BY DEF NoDuplicates, DistinctBut
<1>3. DistinctBut(Append(wrote[p], m), unsure')
  BY <1>1, <1>2, Appended
<1>4. \A q \in Peers : DistinctBut(wrote'[q], unsure')
  BY <1>2, <1>3 DEF TypeOK, Written
<1> QED
  BY <1>4 DEF NoDuplicates, DistinctBut

-----------------------------------------------------------------------------
(* The steps *)

\* A step that touches no payload keeps the invariant.
LEMMA NothingMoved ==
  ASSUME IInv, TypeOK', Tracked',
         UNCHANGED <<sends, wrote, accepted, thrown, unsure, pending, flushing>>
  PROVE  IInv'
<1>1. AcceptedOnly'
  BY DEF IInv, AcceptedOnly, Sending
<1>2. Located'
  BY DEF IInv, Located, Sending
<1>3. QueuesApart'
  BY DEF IInv, QueuesApart
<1>4. SendsApart'
  BY DEF IInv, SendsApart, Sending
<1>5. NotYetSent'
  BY DEF IInv, NotYetSent
<1>6. NoDuplicates'
  BY DEF IInv, NoDuplicates
<1> QED
  BY <1>1, <1>2, <1>3, <1>4, <1>5, <1>6 DEF IInv

\* Connections, reads and authentications take no payload from the node; a flush takes the queue.
LEMMA ConnectionStep ==
  ASSUME IInv, NEW p \in Peers, Connect(p) \/ Disconnect(p)
  PROVE  IInv'
<1> USE NodeAssumption DEF IInv
<1>1. /\ UNCHANGED <<authed, sends, flushPeer, wrote, got, accepted, thrown, failures, unsure,
                     pending, flushing>>
      /\ connected' \subseteq Peers /\ drops' \in 0..MaxDrops
  BY DEF Connect, Disconnect, streams, counts, queueVars, TypeOK
<1>2. /\ unread' \in [Peers -> SUBSET Messages] /\ lost' \in SUBSET Messages /\ lost \subseteq lost'
      /\ \A q \in Peers : unread[q] \subseteq unread'[q] \cup lost'
  <2>1. CASE Connect(p)
    BY <2>1 DEF Connect, streams, TypeOK
  <2>2. CASE Disconnect(p)
    <3>1. PICK cut \in SUBSET unread[p] :
            unread' = [unread EXCEPT ![p] = @ \ cut] /\ lost' = lost \cup cut
      BY <2>2 DEF Disconnect
    <3> QED
      BY <3>1 DEF TypeOK
  <2> QED
    BY <2>1, <2>2
<1>3. TypeOK'
  BY <1>1, <1>2 DEF TypeOK, SF!TypeOK
<1>4. Tracked'
  BY <1>1, <1>2 DEF Tracked
<1> QED
  BY <1>1, <1>3, <1>4, NothingMoved

LEMMA ReceiveStep ==
  ASSUME IInv, NEW p \in Peers, NEW m \in Messages, Receive(p, m)
  PROVE  IInv'
<1> USE NodeAssumption DEF IInv
<1>1. UNCHANGED <<connected, authed, sends, flushPeer, wrote, accepted, thrown, drops, failures,
                  unsure, lost, pending, flushing>>
  BY DEF Receive, counts, queueVars
<1>2. /\ unread' \in [Peers -> SUBSET Messages] /\ got' \in [Peers -> SUBSET Messages]
      /\ \A q \in Peers : unread[q] \cup got[q] \subseteq unread'[q] \cup got'[q]
  BY DEF Receive, TypeOK
<1>3. TypeOK'
  BY <1>1, <1>2 DEF TypeOK, SF!TypeOK
<1>4. Tracked'
  BY <1>1, <1>2 DEF Tracked
<1> QED
  BY <1>1, <1>3, <1>4, NothingMoved

LEMMA AuthenticateStep ==
  ASSUME IInv, NEW p \in Peers, NEW f \in Flushers, Authenticate(p, f)
  PROVE  IInv'
<1> USE NodeAssumption DEF IInv
<1>0. /\ UNCHANGED <<connected, sends, wrote, unread, got, accepted, thrown, drops, failures,
                     unsure, lost>>
      /\ authed' \subseteq Peers
  BY DEF Authenticate, streams, counts, TypeOK
<1>t. Tracked'
  BY <1>0 DEF Tracked
<1>1. CASE UNCHANGED <<flushPeer, pending, flushing>>
  <2>1. TypeOK'
    BY <1>0, <1>1 DEF TypeOK, SF!TypeOK
  <2> QED
    BY <1>0, <1>t, <1>1, <2>1, NothingMoved
<1>2. CASE SF!FlushBegin(f) /\ flushPeer' = [flushPeer EXCEPT ![f] = p]
  <2>1. /\ SF!TypeOK' /\ QueuesApart'
        /\ Contents(pending') = {}
        /\ Contents(flushing[f]) = {} /\ Contents(flushing'[f]) = Contents(pending)
        /\ \A g \in Flushers \ {f} : Contents(flushing'[g]) = Contents(flushing[g])
    BY <1>2, Begun DEF TypeOK
  <2>2. TypeOK'
    BY <1>0, <1>2, <2>1 DEF TypeOK
  <2>3. AcceptedOnly'
    BY <1>0, <2>1 DEF AcceptedOnly, Sending
  <2>4. Located'
    BY <1>0, <2>1 DEF Located, Sending
  <2>5. SendsApart'
    BY <1>0, <2>1 DEF SendsApart, Sending
  <2>6. NotYetSent'
    BY <1>0, <2>1 DEF NotYetSent
  <2>7. NoDuplicates'
    BY <1>0 DEF NoDuplicates
  <2> QED
    BY <1>t, <2>1, <2>2, <2>3, <2>4, <2>5, <2>6, <2>7
<1> QED
  BY <1>1, <1>2 DEF Authenticate, queueVars

\* A flushed payload goes from the flush to the device, and nobody else has it.
LEMMA FlushSendStep ==
  ASSUME IInv, NEW f \in Flushers, FlushSend(f)
  PROVE  IInv'
<1> USE NodeAssumption DEF IInv
<1> DEFINE h == Head(flushing[f])
           p == flushPeer[f]
<1> p \in Peers
  BY DEF TypeOK
<1>0. /\ UNCHANGED <<connected, authed, sends, flushPeer, got, accepted, thrown, drops, failures,
                     unsure, lost>>
      /\ SF!FlushSend(f) /\ Written(p, h)
  BY DEF FlushSend, counts
<1> HIDE DEF p
<1>b. PICK m : m = h
  OBVIOUS
<1> HIDE DEF h
<1>1. /\ SF!TypeOK' /\ QueuesApart' /\ m \in Messages
      /\ pending' = pending
      /\ Contents(flushing[f]) = {m} \cup Contents(flushing'[f])
      /\ \A g \in Flushers \ {f} : flushing'[g] = flushing[g]
      /\ Unqueued(m)'
  BY <1>0, <1>b, SentOne DEF TypeOK, h
<1>2. /\ wrote' \in [Peers -> Seq(Messages)] /\ unread' \in [Peers -> SUBSET Messages]
      /\ Contents(wrote'[p]) = Contents(wrote[p]) \cup {m}
      /\ \A q \in Peers \ {p} : wrote'[q] = wrote[q]
      /\ Tracked'
  BY <1>0, <1>1, <1>b, WrittenOnce
<1>3. TypeOK'
  BY <1>0, <1>1, <1>2 DEF TypeOK
<1>4. AcceptedOnly'
  BY <1>0, <1>1, <1>2 DEF AcceptedOnly, Sending
<1>5. Located'
  <2> SUFFICES ASSUME NEW x \in accepted
               PROVE  \/ x \in Contents(pending')
                      \/ \E g \in Flushers : x \in Contents(flushing'[g])
                      \/ \E s \in Senders : Sending(s)' /\ sends'[s].msg = x
                      \/ \E q \in Peers : x \in Contents(wrote'[q])
                      \/ x \in thrown'
    BY <1>0 DEF Located
  <2>1. \A g \in Flushers : x \in Contents(flushing[g]) => x = m \/ x \in Contents(flushing'[g])
    BY <1>1
  <2>2. \A q \in Peers : x \in Contents(wrote[q]) => x \in Contents(wrote'[q])
    BY <1>2
  <2> QED
    BY <1>0, <1>1, <1>2, <2>1, <2>2 DEF Located, Sending
<1>6. SendsApart'
  <2>1. \A s \in Senders : Sending(s) => sends[s].msg # m
    BY <1>1 DEF SendsApart
  <2>2. \A s \in Senders : Sending(s)' = Sending(s) /\ sends'[s] = sends[s]
    BY <1>0 DEF Sending
  <2>3. \A g \in Flushers : Contents(flushing'[g]) \subseteq Contents(flushing[g])
    BY <1>1
  <2>4. \A q \in Peers : Contents(wrote'[q]) \subseteq Contents(wrote[q]) \cup {m}
    BY <1>2
  <2>5. \A s \in Senders : Sending(s) => sends[s].todo \subseteq Peers
    BY DEF TypeOK, Sending
  <2> QED
    BY <1>1, <2>1, <2>2, <2>3, <2>4, <2>5 DEF SendsApart
<1>7. NotYetSent'
  <2>1. \A g \in Flushers : Contents(flushing'[g]) \subseteq Contents(flushing[g])
    BY <1>1
  <2>2. unsure' = unsure /\ pending' = pending /\ m \notin Contents(pending)
        /\ \A g \in Flushers : m \notin Contents(flushing'[g])
    BY <1>0, <1>1 DEF Unqueued
  <2>3. \A q \in Peers : \A x \in Contents(wrote'[q]) : x \in Contents(wrote[q]) \/ x = m
    BY <1>2
  <2> QED
    BY <2>1, <2>2, <2>3 DEF NotYetSent
<1>8. NoDuplicates'
  <2>1. m \in Contents(wrote[p]) => m \in unsure
    BY <1>1 DEF NotYetSent
  <2> QED
    BY <1>0, <1>1, <1>b, <2>1, NotTwice
<1> QED
  BY <1>1, <1>2, <1>3, <1>4, <1>5, <1>6, <1>7, <1>8

\* A failing send leaves the payload where it was; if it went out nevertheless,
\* the device has it too and the payload counts as unsure.
LEMMA FailedSend ==
  ASSUME IInv, NEW p \in Peers, NEW m \in Messages, NEW late \in BOOLEAN, SendFails(p, m, late),
         got' = got, lost' = lost
  PROVE  /\ failures' \in 0..MaxFailures
         /\ unsure \subseteq unsure' /\ unsure' \subseteq unsure \cup {m}
         /\ wrote' \in [Peers -> Seq(Messages)]
         /\ \A q \in Peers : Contents(wrote[q]) \subseteq Contents(wrote'[q])
         /\ \A q \in Peers :
           Contents(wrote'[q]) \subseteq Contents(wrote[q]) \cup ({m} \cap unsure')
         /\ NoDuplicates'
         /\ unread' \in [Peers -> SUBSET Messages] /\ Tracked'
<1> USE NodeAssumption DEF IInv
<1>1. failures' \in 0..MaxFailures
  BY DEF SendFails, TypeOK
<1>2. CASE late
  <2>1. unsure' = unsure \cup {m} /\ Written(p, m)
    BY <1>2 DEF SendFails
  <2>2. /\ wrote' \in [Peers -> Seq(Messages)] /\ unread' \in [Peers -> SUBSET Messages]
        /\ Contents(wrote'[p]) = Contents(wrote[p]) \cup {m}
        /\ \A q \in Peers \ {p} : wrote'[q] = wrote[q]
        /\ Tracked'
    BY <2>1, WrittenOnce
  <2>3. NoDuplicates'
    BY <2>1, NotTwice
  <2> QED
    BY <1>1, <2>1, <2>2, <2>3
<1>3. CASE ~late
  <2>1. unsure' = unsure /\ wrote' = wrote /\ unread' = unread
    BY <1>3 DEF SendFails, streams
  <2>2. NoDuplicates'
    BY <2>1 DEF NoDuplicates
  <2> QED
    BY <1>1, <2>1, <2>2 DEF TypeOK, Tracked
<1> QED
  BY <1>2, <1>3

LEMMA FlushFailStep ==
  ASSUME IInv, NEW f \in Flushers, NEW late \in BOOLEAN, FlushFail(f, late)
  PROVE  IInv'
<1> USE NodeAssumption DEF IInv
<1> DEFINE h == Head(flushing[f])
           p == flushPeer[f]
<1> p \in Peers
  BY DEF TypeOK
<1>0. /\ UNCHANGED <<connected, authed, sends, flushPeer, got, accepted, thrown, drops, lost>>
      /\ SF!FlushAbort(f) /\ SendFails(p, h, late)
  BY DEF FlushFail
<1>1. /\ SF!TypeOK' /\ QueuesApart'
      /\ h \in Messages /\ h \in Contents(flushing[f])
      /\ Contents(pending') = Contents(flushing[f]) \cup Contents(pending)
      /\ Contents(flushing'[f]) = {}
      /\ \A g \in Flushers \ {f} : flushing'[g] = flushing[g]
  BY <1>0, Aborted DEF TypeOK
<1> HIDE DEF p
<1>b. PICK m : m = h
  OBVIOUS
<1> HIDE DEF h
<1>2. /\ failures' \in 0..MaxFailures
      /\ unsure \subseteq unsure' /\ unsure' \subseteq unsure \cup {m}
      /\ wrote' \in [Peers -> Seq(Messages)]
      /\ \A q \in Peers : Contents(wrote[q]) \subseteq Contents(wrote'[q])
      /\ \A q \in Peers :
           Contents(wrote'[q]) \subseteq Contents(wrote[q]) \cup ({m} \cap unsure')
      /\ NoDuplicates' /\ unread' \in [Peers -> SUBSET Messages] /\ Tracked'
  <2>1. SendFails(p, m, late) /\ m \in Messages /\ got' = got /\ lost' = lost
    BY <1>0, <1>1, <1>b
  <2>2. p \in Peers /\ IInv
    OBVIOUS
  <2>3. failures' \in 0..MaxFailures /\ unsure \subseteq unsure' /\ unsure' \subseteq unsure \cup {m}
    BY <2>1, <2>2, FailedSend
  <2>4. /\ wrote' \in [Peers -> Seq(Messages)] /\ unread' \in [Peers -> SUBSET Messages]
        /\ NoDuplicates' /\ Tracked'
    BY <2>1, <2>2, FailedSend
  <2>5. /\ \A q \in Peers : Contents(wrote[q]) \subseteq Contents(wrote'[q])
        /\ \A q \in Peers :
           Contents(wrote'[q]) \subseteq Contents(wrote[q]) \cup ({m} \cap unsure')
    BY <2>1, <2>2, FailedSend
  <2> QED
    BY <2>3, <2>4, <2>5
<1>3. TypeOK'
  BY <1>0, <1>1, <1>2, <1>b DEF TypeOK
<1>4. AcceptedOnly'
  BY <1>0, <1>1, <1>2, <1>b DEF AcceptedOnly, Sending
<1>5. Located'
  <2>1. \A x, g : g \in Flushers /\ x \in Contents(flushing[g]) =>
          x \in Contents(pending') \/ x \in Contents(flushing'[g])
    BY <1>1
  <2> QED
    BY <1>0, <1>1, <1>2, <2>1 DEF Located, Sending
<1>6. SendsApart'
  <2>1. \A s \in Senders : Sending(s) => sends[s].msg # m
    BY <1>1, <1>b DEF SendsApart
  <2>2. \A s \in Senders : Sending(s)' = Sending(s) /\ sends'[s] = sends[s]
    BY <1>0 DEF Sending
  <2>3. \A g \in Flushers : Contents(flushing'[g]) \subseteq Contents(flushing[g])
    BY <1>1
  <2>4. \A s \in Senders : Sending(s) => sends[s].todo \subseteq Peers
    BY DEF TypeOK, Sending
  <2> SUFFICES ASSUME NEW s \in Senders, Sending(s)
               PROVE  /\ sends[s].msg \notin Contents(pending')
                      /\ \A g \in Flushers : sends[s].msg \notin Contents(flushing'[g])
                      /\ \A q \in sends[s].todo : sends[s].msg \notin Contents(wrote'[q])
    BY <2>2 DEF SendsApart
  <2>5. /\ sends[s].msg \notin Contents(pending)
        /\ \A g \in Flushers : sends[s].msg \notin Contents(flushing[g])
        /\ \A q \in sends[s].todo : sends[s].msg \notin Contents(wrote[q])
    BY DEF SendsApart
  <2>6. sends[s].msg \notin Contents(pending')
    BY <1>1, <2>5
  <2>7. \A q \in sends[s].todo : sends[s].msg \notin Contents(wrote'[q])
    BY <1>2, <2>1, <2>4, <2>5
  <2> QED
    BY <2>3, <2>5, <2>6, <2>7
<1>7. NotYetSent'
  <2>1. \A g \in Flushers : Contents(flushing'[g]) \subseteq Contents(flushing[g])
    BY <1>1
  <2> QED
    BY <1>1, <1>2, <2>1 DEF NotYetSent
<1> QED
  BY <1>1, <1>2, <1>3, <1>4, <1>5, <1>6, <1>7

LEMMA SendOfflineStep ==
  ASSUME IInv, NEW m \in Messages, SendOffline(m)
  PROVE  IInv'
<1> USE DEF IInv
<1>0. /\ UNCHANGED <<connected, authed, sends, flushPeer, wrote, unread, got, thrown, drops,
                     failures, unsure, lost>>
      /\ m \notin accepted /\ accepted' = accepted \cup {m} /\ SF!Queue(m)
  BY DEF SendOffline, streams, counts
<1>1. Unqueued(m) /\ \A p \in Peers : m \notin Contents(wrote[p])
  BY <1>0 DEF AcceptedOnly, Unqueued
<1>2. /\ SF!TypeOK' /\ QueuesApart'
      /\ Contents(pending') = Contents(pending) \cup {m}
      /\ flushing' = flushing
  BY <1>0, <1>1, Queued DEF TypeOK
<1>3. TypeOK'
  BY <1>0, <1>2 DEF TypeOK
<1>4. AcceptedOnly' /\ Located'
  BY <1>0, <1>2 DEF AcceptedOnly, Located, Sending
<1>5. SendsApart'
  <2>1. \A s \in Senders : Sending(s) => sends[s].msg # m
    BY <1>0 DEF AcceptedOnly
  <2> QED
    BY <1>0, <1>2, <2>1 DEF SendsApart, Sending
<1>6. NotYetSent' /\ NoDuplicates' /\ Tracked'
  BY <1>0, <1>1, <1>2 DEF NotYetSent, NoDuplicates, Tracked
<1> QED
  BY <1>2, <1>3, <1>4, <1>5, <1>6

LEMMA SendOnlineStep ==
  ASSUME IInv, NEW s \in Senders, NEW m \in Messages, SendOnline(s, m)
  PROVE  IInv'
<1> USE NodeAssumption DEF IInv
<1>0. /\ UNCHANGED <<connected, authed, flushPeer, wrote, unread, got, thrown, drops, failures,
                     unsure, lost, pending, flushing>>
      /\ m \notin accepted /\ accepted' = accepted \cup {m} /\ ~Sending(s)
  BY DEF SendOnline, streams, counts, queueVars, Sending
<1> DEFINE c == [msg |-> m, todo |-> Targets]
<1>1. c \in [msg : Messages, todo : (SUBSET Peers) \ {{}}] /\ c # NoSend /\ c.msg = m
  BY DEF SendOnline, Targets, Reachable, TypeOK, NoSend
<1> HIDE DEF c
<1>2. /\ sends'[s] = c
      /\ \A r \in Senders \ {s} : sends'[r] = sends[r]
      /\ sends' \in [Senders -> {NoSend} \cup [msg : Messages, todo : (SUBSET Peers) \ {{}}]]
  BY <1>1 DEF SendOnline, TypeOK, c
<1>3. Unqueued(m) /\ \A p \in Peers : m \notin Contents(wrote[p])
  BY <1>0 DEF AcceptedOnly, Unqueued
<1>4. TypeOK'
  BY <1>0, <1>2 DEF TypeOK, SF!TypeOK
<1>5. AcceptedOnly'
  BY <1>0, <1>1, <1>2 DEF AcceptedOnly, Sending
<1>6. Located'
  <2>1. Sending(s)' /\ sends'[s].msg = m
    BY <1>1, <1>2 DEF Sending
  <2>2. \A r \in Senders : Sending(r) => Sending(r)' /\ sends'[r] = sends[r]
    BY <1>0, <1>2 DEF Sending
  <2> QED
    BY <1>0, <2>1, <2>2 DEF Located
<1>7. SendsApart'
  <2>1. ASSUME NEW r \in Senders \ {s}, Sending(r)'
        PROVE  Sending(r) /\ sends'[r] = sends[r] /\ sends'[r].msg # m
    BY <1>0, <1>2, <2>1 DEF Sending, AcceptedOnly
  <2>2. c.todo \subseteq Peers
    BY <1>1
  <2>3. /\ sends'[s].msg \notin Contents(pending')
        /\ \A f \in Flushers : sends'[s].msg \notin Contents(flushing'[f])
        /\ \A p \in sends'[s].todo : sends'[s].msg \notin Contents(wrote'[p])
    BY <1>0, <1>1, <1>2, <1>3, <2>2 DEF Unqueued
  <2> QED
    BY <1>0, <1>1, <1>2, <2>1, <2>3 DEF SendsApart
<1>8. QueuesApart' /\ NotYetSent' /\ NoDuplicates' /\ Tracked'
  BY <1>0 DEF QueuesApart, NotYetSent, NoDuplicates, Tracked
<1> QED
  BY <1>4, <1>5, <1>6, <1>7, <1>8

\* The payload of a call reaches a device that did not have it.
LEMMA SendNextStep ==
  ASSUME IInv, NEW s \in Senders, NEW p \in Peers, SendNext(s, p)
  PROVE  IInv'
<1> USE NodeAssumption DEF IInv
<1>0. /\ UNCHANGED <<connected, authed, flushPeer, got, accepted, thrown, drops, failures, unsure,
                     lost, pending, flushing>>
      /\ p \in sends[s].todo
      /\ Written(p, sends[s].msg)
      /\ sends' = [sends EXCEPT ![s] = Rest(@, p)]
  BY DEF SendNext, counts, queueVars
<1>1. Sending(s) /\ sends[s] \in [msg : Messages, todo : (SUBSET Peers) \ {{}}]
  BY <1>0 DEF Sending, TypeOK, NoSend
<1>2. PICK m : m = sends[s].msg
  OBVIOUS
<1>3. /\ m \in Messages /\ m \in accepted /\ m \notin Contents(wrote[p])
      /\ Unqueued(m)
  BY <1>0, <1>1, <1>2 DEF AcceptedOnly, SendsApart, Unqueued
<1>4. /\ wrote' \in [Peers -> Seq(Messages)] /\ unread' \in [Peers -> SUBSET Messages]
      /\ Contents(wrote'[p]) = Contents(wrote[p]) \cup {m}
      /\ \A q \in Peers \ {p} : wrote'[q] = wrote[q]
      /\ Tracked'
  BY <1>0, <1>2, <1>3, WrittenOnce
<1>5. /\ sends' \in [Senders -> {NoSend} \cup [msg : Messages, todo : (SUBSET Peers) \ {{}}]]
      /\ \A r \in Senders \ {s} : sends'[r] = sends[r]
      /\ Sending(s)' => /\ sends'[s].msg = m
                        /\ sends'[s].todo = sends[s].todo \ {p}
  <2>1. Rest(sends[s], p) \in {NoSend} \cup [msg : Messages, todo : (SUBSET Peers) \ {{}}]
    BY <1>0, <1>1 DEF Rest
  <2>2. Rest(sends[s], p) # NoSend => /\ Rest(sends[s], p).msg = m
                                      /\ Rest(sends[s], p).todo = sends[s].todo \ {p}
    BY <1>0, <1>1, <1>2 DEF Rest
  <2> QED
    BY <1>0, <2>1, <2>2 DEF Sending, TypeOK
<1>6. TypeOK'
  BY <1>0, <1>4, <1>5 DEF TypeOK, SF!TypeOK
<1>7. AcceptedOnly'
  BY <1>0, <1>3, <1>4, <1>5 DEF AcceptedOnly, Sending
<1>8. Located'
  <2>1. \A r \in Senders : Sending(r) => (Sending(r)' /\ sends'[r] = sends[r]) \/ sends[r].msg = m
    BY <1>2, <1>5 DEF Sending
  <2>2. \A q \in Peers : Contents(wrote[q]) \subseteq Contents(wrote'[q])
    BY <1>4
  <2> QED
    BY <1>0, <1>4, <2>1, <2>2 DEF Located
<1>9. SendsApart'
  <2>1. \A r \in Senders \ {s} : Sending(r)' = Sending(r) /\ sends'[r] = sends[r]
    BY <1>5 DEF Sending
  <2>2. ASSUME NEW r \in Senders, Sending(r)'
        PROVE  /\ Sending(r) /\ sends'[r].msg = sends[r].msg
               /\ sends'[r].todo \subseteq sends[r].todo /\ sends[r].todo \subseteq Peers
    BY <1>1, <1>2, <1>5, <2>1, <2>2 DEF TypeOK, Sending
  <2> SUFFICES ASSUME NEW r \in Senders, Sending(r)'
               PROVE  /\ sends[r].msg \notin Contents(pending)
                      /\ \A f \in Flushers : sends[r].msg \notin Contents(flushing[f])
                      /\ \A x \in Senders : Sending(x) /\ sends[x].msg = sends[r].msg => x = r
                      /\ \A q \in sends'[r].todo : sends[r].msg \notin Contents(wrote'[q])
    BY <1>0, <2>2 DEF SendsApart
  <2>3. \A q \in sends'[r].todo : sends[r].msg \notin Contents(wrote'[q])
    <3> SUFFICES ASSUME NEW q \in sends'[r].todo
                 PROVE  sends[r].msg \notin Contents(wrote'[q])
      OBVIOUS
    <3>1. q \in Peers /\ sends[r].msg \notin Contents(wrote[q])
      BY <2>2 DEF SendsApart
    <3>2. CASE q # p
      BY <1>4, <3>1, <3>2
    <3>3. CASE q = p
      <4>1. r # s
        BY <1>5, <3>3
      <4>2. sends[r].msg # m
        BY <1>1, <1>2, <2>2, <4>1 DEF SendsApart
      <4> QED
        BY <1>4, <3>1, <3>3, <4>2
    <3> QED
      BY <3>2, <3>3
  <2> QED
    BY <2>2, <2>3 DEF SendsApart
<1>10. NotYetSent'
  <2>1. \A q \in Peers : \A x \in Contents(wrote'[q]) : x \in Contents(wrote[q]) \/ x = m
    BY <1>4
  <2> QED
    BY <1>0, <1>3, <2>1 DEF NotYetSent, Unqueued
<1>11. NoDuplicates'
  BY <1>0, <1>2, <1>3, NotTwice
<1>12. QueuesApart'
  BY <1>0 DEF QueuesApart
<1> QED
  BY <1>4, <1>6, <1>7, <1>8, <1>9, <1>10, <1>11, <1>12

LEMMA SendThrowStep ==
  ASSUME IInv, NEW s \in Senders, NEW p \in Peers, NEW late \in BOOLEAN, SendThrow(s, p, late)
  PROVE  IInv'
<1> USE NodeAssumption DEF IInv
<1>0. /\ UNCHANGED <<connected, authed, flushPeer, got, accepted, drops, lost, pending, flushing>>
      /\ p \in sends[s].todo
      /\ thrown' = thrown \cup {sends[s].msg}
      /\ sends' = [sends EXCEPT ![s] = NoSend]
  BY DEF SendThrow, queueVars
<1>1. Sending(s) /\ sends[s] \in [msg : Messages, todo : (SUBSET Peers) \ {{}}]
  BY <1>0 DEF Sending, TypeOK, NoSend
<1>2. PICK m : m = sends[s].msg
  OBVIOUS
<1>3. m \in Messages /\ m \in accepted /\ Unqueued(m)
  BY <1>1, <1>2 DEF AcceptedOnly, SendsApart, Unqueued
<1>4. /\ failures' \in 0..MaxFailures
      /\ unsure \subseteq unsure' /\ unsure' \subseteq unsure \cup {m}
      /\ wrote' \in [Peers -> Seq(Messages)]
      /\ \A q \in Peers : Contents(wrote[q]) \subseteq Contents(wrote'[q])
      /\ \A q \in Peers :
           Contents(wrote'[q]) \subseteq Contents(wrote[q]) \cup ({m} \cap unsure')
      /\ NoDuplicates' /\ unread' \in [Peers -> SUBSET Messages] /\ Tracked'
  <2>1. SendFails(p, m, late) /\ m \in Messages /\ got' = got /\ lost' = lost
    BY <1>0, <1>2, <1>3 DEF SendThrow
  <2>2. p \in Peers /\ IInv
    OBVIOUS
  <2>3. failures' \in 0..MaxFailures /\ unsure \subseteq unsure' /\ unsure' \subseteq unsure \cup {m}
    BY <2>1, <2>2, FailedSend
  <2>4. /\ wrote' \in [Peers -> Seq(Messages)] /\ unread' \in [Peers -> SUBSET Messages]
        /\ NoDuplicates' /\ Tracked'
    BY <2>1, <2>2, FailedSend
  <2>5. /\ \A q \in Peers : Contents(wrote[q]) \subseteq Contents(wrote'[q])
        /\ \A q \in Peers :
           Contents(wrote'[q]) \subseteq Contents(wrote[q]) \cup ({m} \cap unsure')
    BY <2>1, <2>2, FailedSend
  <2> QED
    BY <2>3, <2>4, <2>5
<1>5. /\ ~Sending(s)'
      /\ \A r \in Senders \ {s} : Sending(r)' = Sending(r) /\ sends'[r] = sends[r]
      /\ sends' \in [Senders -> {NoSend} \cup [msg : Messages, todo : (SUBSET Peers) \ {{}}]]
  BY <1>0 DEF TypeOK, Sending
<1>6. TypeOK'
  BY <1>0, <1>2, <1>3, <1>4, <1>5 DEF TypeOK, SF!TypeOK
<1>7. AcceptedOnly'
  BY <1>0, <1>3, <1>4, <1>5 DEF AcceptedOnly
<1>8. Located'
  <2>1. \A r \in Senders : Sending(r) => (Sending(r)' /\ sends'[r] = sends[r]) \/ sends[r].msg = m
    BY <1>2, <1>5
  <2>2. m \in thrown' /\ thrown \subseteq thrown'
    BY <1>0, <1>2
  <2> QED
    BY <1>0, <1>4, <2>1, <2>2 DEF Located
<1>9. SendsApart'
  <2>1. ASSUME NEW r \in Senders, Sending(r)'
        PROVE  /\ Sending(r) /\ sends'[r] = sends[r]
               /\ sends[r].msg # m /\ sends[r].todo \subseteq Peers
    BY <1>1, <1>2, <1>5, <2>1 DEF SendsApart, TypeOK, Sending
  <2> SUFFICES ASSUME NEW r \in Senders, Sending(r)'
               PROVE  /\ sends[r].msg \notin Contents(pending)
                      /\ \A f \in Flushers : sends[r].msg \notin Contents(flushing[f])
                      /\ \A x \in Senders : Sending(x) /\ sends[x].msg = sends[r].msg => x = r
                      /\ \A q \in sends[r].todo : sends[r].msg \notin Contents(wrote'[q])
    BY <1>0, <2>1 DEF SendsApart
  <2>2. \A q \in sends[r].todo : sends[r].msg \notin Contents(wrote'[q])
    BY <1>4, <2>1 DEF SendsApart
  <2> QED
    BY <2>1, <2>2 DEF SendsApart
<1>10. NotYetSent'
  BY <1>0, <1>4 DEF NotYetSent
<1>11. QueuesApart'
  BY <1>0 DEF QueuesApart
<1> QED
  BY <1>4, <1>6, <1>7, <1>8, <1>9, <1>10, <1>11

-----------------------------------------------------------------------------
(* The theorems *)

LEMMA InvInit == Init => IInv
<1> SUFFICES ASSUME Init PROVE IInv
  OBVIOUS
<1> USE NodeAssumption
<1>1. /\ pending = <<>> /\ flushing = [f \in Flushers |-> <<>>]
      /\ accepted = {} /\ wrote = [p \in Peers |-> <<>>] /\ sends = [s \in Senders |-> NoSend]
      /\ unread = [p \in Peers |-> {}] /\ got = [p \in Peers |-> {}] /\ lost = {}
  BY DEF Init, SF!Init
<1>2. /\ <<>> \in Seq(Messages) /\ Contents(<<>>) = {} /\ Distinct(<<>>)
  BY EmptyQueue
<1>3. TypeOK
  BY <1>1, <1>2 DEF Init, TypeOK, SF!TypeOK
<1>4. AcceptedOnly /\ Located /\ QueuesApart
  BY <1>1, <1>2 DEF AcceptedOnly, Located, QueuesApart, Sending
<1>5. SendsApart /\ NotYetSent
  BY <1>1, <1>2 DEF SendsApart, NotYetSent, Sending
<1>6. NoDuplicates /\ Tracked
  BY <1>1, <1>2 DEF NoDuplicates, Tracked
<1> QED
  BY <1>3, <1>4, <1>5, <1>6 DEF IInv

LEMMA InvStep ==
  ASSUME IInv, [Next]_vars
  PROVE  IInv'
<1>1. CASE UNCHANGED vars
  <2>1. UNCHANGED <<connected, authed, sends, flushPeer, wrote, unread, got, accepted, thrown,
                    drops, failures, unsure, lost, pending, flushing>>
    BY <1>1 DEF vars, streams, counts, queueVars
  <2>2. TypeOK' /\ Tracked'
    BY <2>1 DEF IInv, TypeOK, SF!TypeOK, Tracked
  <2> QED
    BY <2>1, <2>2, NothingMoved
<1>2. ASSUME NEW p \in Peers, Connect(p) \/ Disconnect(p)
      PROVE  IInv'
  BY <1>2, ConnectionStep
<1>8. ASSUME NEW p \in Peers, NEW m \in Messages, Receive(p, m)
      PROVE  IInv'
  BY <1>8, ReceiveStep
<1>3. ASSUME NEW p \in Peers, NEW f \in Flushers, Authenticate(p, f)
      PROVE  IInv'
  BY <1>3, AuthenticateStep
<1>4. ASSUME NEW f \in Flushers, FlushStep(f)
      PROVE  IInv'
  BY <1>4, FlushSendStep, FlushFailStep DEF FlushStep
<1>5. ASSUME NEW m \in Messages, SendOffline(m)
      PROVE  IInv'
  BY <1>5, SendOfflineStep
<1>6. ASSUME NEW s \in Senders, NEW m \in Messages, SendOnline(s, m)
      PROVE  IInv'
  BY <1>6, SendOnlineStep
<1>7. ASSUME NEW s \in Senders, SendStep(s)
      PROVE  IInv'
  BY <1>7, SendNextStep, SendThrowStep DEF SendStep
<1> QED
  BY <1>1, <1>2, <1>3, <1>4, <1>5, <1>6, <1>7, <1>8 DEF Next

LEMMA Invariance == Spec => []IInv
  BY InvInit, InvStep, PTL DEF Spec

\* Every variable keeps its type (node.ts, storeforward.ts).
THEOREM TypeCorrect == Spec => []TypeOK
<1>1. IInv => TypeOK
  BY DEF IInv
<1> QED
  BY <1>1, Invariance, PTL

\* A payload that is neither queued, under way nor with a device was given up by a call that
\* threw, or lost in a stream with its connection, whatever connections break and however
\* flushes, failing sends and calls interleave (node.ts:207-246, storeforward.ts).
THEOREM NothingLost == Spec => []Accounted
<1>1. IInv => Accounted
  BY DEF IInv, Located, Accounted, Sending, Tracked
<1> QED
  BY <1>1, Invariance, PTL

\* No payload is written to a device twice but after a send of it that failed late.
THEOREM DeliveredOnce == Spec => []NoDuplicates
<1>1. IInv => NoDuplicates
  BY DEF IInv
<1> QED
  BY <1>1, Invariance, PTL

-----------------------------------------------------------------------------
(* Who is at the other end: the theorems of Session *)

\* the DIDs of a device
Names(p) == {Account[p], Host[p]}

Stages == {"idle", "intro", "sig", "record", "flush", "done", "failed"}

Shakes ==
  [from : Devices, to : Devices, mutual : BOOLEAN, expected : DIDs,
   pc : [Sides -> Stages], toI : SUBSET {"intro", "sig"}, toR : SUBSET {"intro", "sig"},
   todo : [Sides -> SUBSET Payloads]]

\* an initiator that is about to record has checked the DID it expects, and a payload is
\* only sent to a device it may go to
Sound(h) ==
  /\ h \in Shakes
  /\ h.pc["i"] = "record" /\ ~h.mutual => h.expected = Account[h.to]
  /\ \A x \in Sides : \A m \in h.todo[x] : To[m] \in Names(Other(h, x))

ShakesOK ==
  /\ shake = [s \in Dials |-> shake[s]]
  /\ \A s \in Dials : shake[s] = NoShake \/ Sound(shake[s])

AuthedOK ==
  /\ authedPeers \in [Devices -> [Devices -> DIDs \cup {Nobody}]]
  /\ dialled \in [Devices -> SUBSET Devices]
  /\ \A d, p \in Devices : authedPeers[d][p] \in {Nobody} \cup Names(p)
  /\ KnownByAccount

Message == [from : Devices, to : Devices, m : Payloads]

OutOK ==
  /\ queue \in [Devices -> SUBSET Payloads]
  /\ out \subseteq Message
  /\ \A x \in out : To[x.m] \in Names(x.to)

GotOK == \A x \in received : To[x.m] \in Names(x.at)

KnownPeer == [did : DIDs, addrs : SUBSET Devices, dial : Nat]

FastOK == fast \in [Devices -> SUBSET KnownPeer]

\* the inductive invariant
SessionInv == ShakesOK /\ AuthedOK /\ OutOK /\ GotOK /\ FastOK

-----------------------------------------------------------------------------
(* Handshakes *)

LEMMA KeysOK == \A p \in Devices : Account[p] \in DIDs /\ Host[p] \in DIDs
BY SessionAssumption

LEMMA MeIn == ASSUME NEW h \in Shakes, NEW x \in Sides
              PROVE  Me(h, x) \in Devices /\ Other(h, x) \in Devices
BY DEF Shakes, Me, Other

\* a new handshake
LEMMA NewSound ==
  ASSUME NEW d \in Devices, NEW p \in Devices, NEW did \in DIDs, NEW mutual \in BOOLEAN
  PROVE  Sound([from |-> d, to |-> p, mutual |-> mutual, expected |-> did,
                pc |-> [i |-> IF mutual THEN "intro" ELSE "sig", r |-> "intro"],
                toI |-> {}, toR |-> {"intro"},
                todo |-> [x \in Sides |-> {}]])
<1> DEFINE pc == [i |-> IF mutual THEN "intro" ELSE "sig", r |-> "intro"]
<1>1. pc \in [Sides -> Stages] /\ pc["i"] # "record"
  BY DEF Sides, Stages
<1>2. [x \in Sides |-> {}] \in [Sides -> SUBSET Payloads]
  OBVIOUS
<1> HIDE DEF pc
<1>3. [from |-> d, to |-> p, mutual |-> mutual, expected |-> did, pc |-> pc,
       toI |-> {}, toR |-> {"intro"}, todo |-> [x \in Sides |-> {}]] \in Shakes
  BY <1>1, <1>2 DEF Shakes
<1> QED
  BY <1>1, <1>3 DEF Sound, pc

\* a handshake goes on
LEMMA PcSound ==
  ASSUME NEW h, Sound(h), NEW x \in Sides, NEW v \in Stages,
         x = "i" /\ v = "record" /\ ~h.mutual => h.expected = Account[h.to]
  PROVE  Sound([h EXCEPT !.pc[x] = v])
<1> DEFINE g == [h EXCEPT !.pc[x] = v]
<1>1. /\ g \in Shakes
      /\ g.from = h.from /\ g.to = h.to /\ g.mutual = h.mutual /\ g.expected = h.expected
      /\ g.todo = h.todo /\ g.pc = [h.pc EXCEPT ![x] = v]
  BY DEF Sound, Shakes
<1>2. g.pc["i"] = IF x = "i" THEN v ELSE h.pc["i"]
  BY <1>1 DEF Sound, Shakes, Sides
<1> HIDE DEF g
<1>3. \A y \in Sides : Other(g, y) = Other(h, y)
  BY <1>1 DEF Other
<1> QED
  BY <1>1, <1>2, <1>3 DEF Sound, g

LEMMA FramesSound ==
  ASSUME NEW h, Sound(h), NEW I \in SUBSET {"intro", "sig"}, NEW R \in SUBSET {"intro", "sig"}
  PROVE  Sound([[h EXCEPT !.toI = I] EXCEPT !.toR = R])
<1> DEFINE g == [[h EXCEPT !.toI = I] EXCEPT !.toR = R]
<1>1. /\ g \in Shakes
      /\ g.from = h.from /\ g.to = h.to /\ g.mutual = h.mutual /\ g.expected = h.expected
      /\ g.todo = h.todo /\ g.pc = h.pc
  BY DEF Sound, Shakes
<1> HIDE DEF g
<1>3. \A y \in Sides : Other(g, y) = Other(h, y)
  BY <1>1 DEF Other
<1> QED
  BY <1>1, <1>3 DEF Sound, g

\* what is left to send changes
LEMMA TodoSound ==
  ASSUME NEW h, Sound(h), NEW x \in Sides, NEW T \in SUBSET Payloads,
         \A m \in T : To[m] \in Names(Other(h, x))
  PROVE  Sound([h EXCEPT !.todo[x] = T])
<1> DEFINE g == [h EXCEPT !.todo[x] = T]
<1>1. /\ g \in Shakes
      /\ g.from = h.from /\ g.to = h.to /\ g.mutual = h.mutual /\ g.expected = h.expected
      /\ g.todo = [h.todo EXCEPT ![x] = T] /\ g.pc = h.pc
  BY DEF Sound, Shakes
<1>2. \A y \in Sides : g.todo[y] = IF y = x THEN T ELSE h.todo[y]
  BY <1>1 DEF Sound, Shakes
<1> HIDE DEF g
<1>3. \A y \in Sides : Other(g, y) = Other(h, y)
  BY <1>1 DEF Other
<1> QED
  BY <1>1, <1>2, <1>3 DEF Sound, g

\* one handshake of many changes
LEMMA OneShake ==
  ASSUME ShakesOK, NEW s \in Dials, NEW g, Sound(g), shake' = [shake EXCEPT ![s] = g]
  PROVE  ShakesOK'
BY DEF ShakesOK

\* the slot of a handshake whose side is under way is in use
LEMMA UsedSound ==
  ASSUME ShakesOK, NEW s \in Dials, NEW x \in Sides, shake[s].pc[x] # "idle"
  PROVE  Sound(shake[s]) /\ shake[s] \in Shakes
BY DEF ShakesOK, NoShake, Sound

LEMMA SessionInitially == SessionInit => SessionInv
<1> SUFFICES ASSUME SessionInit PROVE SessionInv
  OBVIOUS
<1>1. ShakesOK
  BY DEF SessionInit, ShakesOK
<1>2. AuthedOK
  BY DEF SessionInit, AuthedOK, KnownByAccount
<1> QED
  BY <1>1, <1>2 DEF SessionInit, SessionInv, OutOK, GotOK, FastOK

LEMMA DiallingKeeps ==
  ASSUME SessionInv, NEW s, NEW d \in Devices, NEW p \in Devices, NEW did \in DIDs,
         NEW mutual \in BOOLEAN, Dialling(s, d, did, p, mutual)
  PROVE  ShakesOK'
<1> DEFINE g == [from |-> d, to |-> p, mutual |-> mutual, expected |-> did,
                 pc |-> [i |-> IF mutual THEN "intro" ELSE "sig", r |-> "intro"],
                 toI |-> {}, toR |-> {"intro"}, todo |-> [x \in Sides |-> {}]]
<1>1. Sound(g)
  BY NewSound
<1>2. s \in Dials /\ shake' = [shake EXCEPT ![s] = g]
  BY DEF Dialling
<1> HIDE DEF g
<1> QED
  BY <1>1, <1>2, OneShake DEF SessionInv

LEMMA DialKeeps == ASSUME SessionInv, NEW s \in Dials, NEW c \in Contacts, Dial(s, c) PROVE SessionInv'
<1>1. c.from \in Devices /\ c.to \in Devices /\ c.did \in DIDs /\ c.mutual \in BOOLEAN
  BY SessionAssumption
<1>2. ShakesOK'
  BY <1>1, DiallingKeeps DEF Dial
<1> QED
  BY <1>2 DEF Dial, SessionInv, AuthedOK, KnownByAccount, OutOK, GotOK, FastOK

\* a change of handshakes only
LEMMA ShakeOnly ==
  ASSUME SessionInv, ShakesOK', UNCHANGED <<authedPeers, queue, out, received, fast, dialled>>
  PROVE  SessionInv'
BY DEF SessionInv, AuthedOK, KnownByAccount, OutOK, GotOK, FastOK

LEMMA ReadInitiatorKeeps == ASSUME SessionInv, NEW s \in Dials, ReadInitiator(s) PROVE SessionInv'
<1> DEFINE h == shake[s]
<1>0. h.pc["i"] # "idle" /\ "i" \in Sides
  BY DEF ReadInitiator, Sides
<1>1. Sound(h) /\ h \in Shakes
  BY <1>0, UsedSound DEF SessionInv
<1>2. Sound([h EXCEPT !.pc["i"] = "failed"])
  BY <1>0, <1>1, PcSound DEF Stages
<1>3. Sound([h EXCEPT !.pc["i"] = "sig", !.toR = @ \cup {"sig"}])
  <2> DEFINE g == [h EXCEPT !.pc["i"] = "sig"]
  <2>1. Sound(g)
    BY <1>0, <1>1, PcSound DEF Stages
  <2>2. g \in Shakes /\ g.toI = h.toI /\ g.toR = h.toR
    BY <1>1, <2>1 DEF Sound, Shakes
  <2>3. Sound([[g EXCEPT !.toI = h.toI] EXCEPT !.toR = h.toR \cup {"sig"}])
    <3>1. h.toI \in SUBSET {"intro", "sig"} /\ h.toR \cup {"sig"} \in SUBSET {"intro", "sig"}
      BY <1>1 DEF Shakes
    <3> HIDE DEF g, h
    <3> QED
      BY <2>1, <3>1, FramesSound
  <2>4. [[g EXCEPT !.toI = h.toI] EXCEPT !.toR = h.toR \cup {"sig"}]
          = [h EXCEPT !.pc["i"] = "sig", !.toR = @ \cup {"sig"}]
    BY <1>1 DEF Shakes
  <2> QED
    BY <2>3, <2>4
<1>4. Verified(h) => Sound([h EXCEPT !.pc["i"] = "record"])
  BY <1>0, <1>1, PcSound DEF Stages, Verified
<1>5. PICK g : Sound(g) /\ shake' = [shake EXCEPT ![s] = g]
  <2>1. CASE /\ h.pc["i"] = "intro"
             /\ shake' = [shake EXCEPT ![s] =
                  IF Expected(h)
                  THEN [h EXCEPT !.pc["i"] = "sig", !.toR = @ \cup {"sig"}]
                  ELSE [h EXCEPT !.pc["i"] = "failed"]]
    BY <1>2, <1>3, <2>1
  <2>2. CASE shake' = [shake EXCEPT ![s].pc["i"] = IF Verified(h) THEN "record" ELSE "failed"]
    BY <1>2, <1>4, <2>2
  <2> QED
    BY <2>1, <2>2 DEF ReadInitiator
<1> QED
  BY <1>5, OneShake, ShakeOnly DEF SessionInv, ReadInitiator

LEMMA ReadResponderKeeps == ASSUME SessionInv, NEW s \in Dials, ReadResponder(s) PROVE SessionInv'
<1> DEFINE h == shake[s]
           v == IF h.mutual /\ h.pc["r"] = "intro" THEN "sig" ELSE "record"
           I == h.toI \cup Reply(h)
           g == [h EXCEPT !.pc["r"] = v]
<1>0. h.pc["r"] # "idle" /\ "r" \in Sides /\ v \in Stages
  BY DEF ReadResponder, Sides, Stages
<1>1. Sound(h) /\ h \in Shakes
  BY <1>0, UsedSound DEF SessionInv
<1>2. Sound(g)
  <2> HIDE DEF h, v
  <2> QED
    BY <1>0, <1>1, PcSound
<1>3. I \in SUBSET {"intro", "sig"} /\ h.toR \in SUBSET {"intro", "sig"}
  BY <1>1 DEF Shakes, Reply
<1>4. Sound([[g EXCEPT !.toI = I] EXCEPT !.toR = h.toR])
  <2> HIDE DEF g, h, I
  <2> QED
    BY <1>2, <1>3, FramesSound
<1>5. [[g EXCEPT !.toI = I] EXCEPT !.toR = h.toR]
        = [h EXCEPT !.pc["r"] = IF h.mutual /\ @ = "intro" THEN "sig" ELSE "record",
                    !.toI = @ \cup Reply(h)]
  BY <1>1 DEF Shakes
<1> QED
  BY <1>4, <1>5, OneShake, ShakeOnly DEF SessionInv, ReadResponder

-----------------------------------------------------------------------------
(* What a handshake records *)

\* both kinds of handshake, on both sides, learn a DID of the other device, and the one of
\* its identity if they knew it
LEMMA LearnedOK ==
  ASSUME SessionInv, NEW s \in Dials, NEW x \in Sides, shake[s].pc[x] = "record"
  PROVE  LET h == shake[s]
             did == Learned(h, x)
         IN /\ did \in Names(Other(h, x))
            /\ x = "i" \/ Other(h, x) \in dialled[Me(h, x)] => did = Account[Other(h, x)]
<1> DEFINE h == shake[s]
<1>1. Sound(h) /\ h \in Shakes
  BY UsedSound DEF SessionInv
<1>2. h.from \in Devices /\ h.to \in Devices
  BY <1>1 DEF Shakes
<1>3. h.pc["i"] = "record" /\ ~h.mutual => h.expected = Account[h.to]
  BY <1>1 DEF Sound
<1>4. /\ RemoteDID(h.to, h.from) \in Names(h.from)
      /\ h.from \in dialled[h.to] => RemoteDID(h.to, h.from) = Account[h.from]
  <2>1. authedPeers[h.to][h.from] \in {Nobody} \cup Names(h.from)
    BY <1>2 DEF SessionInv, AuthedOK
  <2>2. h.from \in dialled[h.to] => authedPeers[h.to][h.from] = Account[h.from]
    BY <1>2 DEF SessionInv, AuthedOK, KnownByAccount
  <2>3. Account[h.from] # Nobody
    BY <1>2, KeysOK, SessionAssumption
  <2> QED
    BY <2>1, <2>2, <2>3 DEF RemoteDID, Names
<1>5. CASE h.mutual
  BY <1>5 DEF Learned, Names
<1>6. CASE ~h.mutual /\ x = "i"
  <2>1. Learned(h, x) = Account[h.to] /\ Other(h, x) = h.to
    BY <1>3, <1>6 DEF Learned, Other
  <2> QED
    BY <2>1 DEF Names
<1>7. CASE ~h.mutual /\ x = "r"
  <2>1. Learned(h, x) = RemoteDID(h.to, h.from) /\ Other(h, x) = h.from /\ Me(h, x) = h.to
    BY <1>7 DEF Learned, Other, Me
  <2> QED
    BY <1>4, <1>7, <2>1
<1> QED
  BY <1>5, <1>6, <1>7 DEF Sides

LEMMA RecordKeeps ==
  ASSUME SessionInv, NEW s \in Dials, NEW x \in Sides, Record(s, x) PROVE SessionInv'
<1> DEFINE h == shake[s]
           d == Me(h, x)
           q == Other(h, x)
           did == Learned(h, x)
           kept == Kept(d, did)
           v == IF kept = {} THEN "done" ELSE "flush"
           g == [h EXCEPT !.pc[x] = v]
<1>0. h.pc[x] = "record"
  BY DEF Record
<1>1. Sound(h) /\ h \in Shakes
  BY <1>0, UsedSound DEF SessionInv
<1>2. d \in Devices /\ q \in Devices
  BY <1>1, MeIn
<1>3. did \in Names(q) /\ (x = "i" \/ q \in dialled[d] => did = Account[q])
  BY <1>0, LearnedOK
<1>4. ShakesOK'
  <2>1. Sound(g)
    <3>1. v \in Stages /\ v # "record"
      BY DEF Stages
    <3> HIDE DEF h, v
    <3> QED
      BY <1>1, <3>1, PcSound
  <2>2. \A y \in Sides : Other(g, y) = q \/ y # x
    BY <1>1 DEF Shakes, Other
  <2>3. kept \in SUBSET Payloads /\ \A m \in kept : To[m] \in Names(Other(g, x))
    BY <1>2, <1>3, <2>2 DEF Kept, SessionInv, OutOK
  <2>4. Sound([g EXCEPT !.todo[x] = kept])
    <3> HIDE DEF g, kept
    <3> QED
      BY <2>1, <2>3, TodoSound
  <2>5. shake' = [shake EXCEPT ![s] = [g EXCEPT !.todo[x] = kept]]
    BY <1>1 DEF Record, SessionInv, ShakesOK, Shakes
  <2> HIDE DEF g, kept
  <2> QED
    BY <2>4, <2>5, OneShake DEF SessionInv
<1>5. AuthedOK'
  <2>1. authedPeers' = [authedPeers EXCEPT ![d][q] = did]
    BY DEF Record
  <2>2. dialled' = IF x = "i" THEN [dialled EXCEPT ![d] = @ \cup {q}] ELSE dialled
    BY DEF Record, Other
  <2>3. did \in DIDs
    BY <1>2, <1>3, KeysOK DEF Names
  <2>4. authedPeers \in [Devices -> [Devices -> DIDs \cup {Nobody}]] /\ dialled \in [Devices -> SUBSET Devices]
    BY DEF SessionInv, AuthedOK
  <2> HIDE DEF d, q, did
  <2>5. authedPeers' \in [Devices -> [Devices -> DIDs \cup {Nobody}]] /\ dialled' \in [Devices -> SUBSET Devices]
    BY <1>2, <2>1, <2>2, <2>3, <2>4
  <2>6. \A e, p \in Devices : authedPeers'[e][p] = IF e = d /\ p = q THEN did ELSE authedPeers[e][p]
    BY <1>2, <2>1, <2>4
  <2>7. \A e, p \in Devices : authedPeers'[e][p] \in {Nobody} \cup Names(p)
    BY <1>3, <2>6 DEF SessionInv, AuthedOK
  <2>8. KnownByAccount'
    <3> SUFFICES ASSUME NEW e \in Devices, NEW p \in dialled'[e]
                 PROVE  authedPeers'[e][p] = Account[p]
      BY DEF KnownByAccount
    <3>1. p \in Devices
      BY <2>5
    <3>2. CASE e = d /\ p = q
      BY <1>2, <1>3, <2>2, <2>4, <2>6, <3>1, <3>2
    <3>3. CASE ~(e = d /\ p = q)
      <4>1. p \in dialled[e]
        BY <1>2, <2>2, <2>4, <3>3
      <4> QED
        BY <2>6, <3>1, <3>3, <4>1 DEF SessionInv, AuthedOK, KnownByAccount
    <3> QED
      BY <3>2, <3>3
  <2> QED
    BY <2>5, <2>7, <2>8 DEF AuthedOK
<1>6. OutOK' /\ GotOK' /\ FastOK'
  <2> HIDE DEF kept, d
  <2>1. queue' = [queue EXCEPT ![d] = @ \ kept]
    BY DEF Record, d, kept
  <2> QED
    BY <1>2, <2>1 DEF Record, SessionInv, OutOK, GotOK, FastOK
<1> QED
  BY <1>4, <1>5, <1>6 DEF SessionInv

LEMMA AbandonKeeps ==
  ASSUME SessionInv, NEW s \in Dials, NEW x \in Sides, Abandon(s, x) PROVE SessionInv'
<1> DEFINE h == shake[s]
<1>1. Sound(h)
  BY UsedSound DEF SessionInv, Abandon
<1>2. Sound([h EXCEPT !.pc[x] = "failed"])
  BY <1>1, PcSound DEF Stages
<1>3. ShakesOK'
  BY <1>2, OneShake DEF SessionInv, Abandon
<1> QED
  BY <1>3, ShakeOnly DEF Abandon

LEMMA FlushKeeps ==
  ASSUME SessionInv, NEW s \in Dials, NEW x \in Sides, Flush(s, x) PROVE SessionInv'
<1> DEFINE h == shake[s]
           d == Me(h, x)
           q == Other(h, x)
<1>0. Sound(h) /\ h \in Shakes
  BY UsedSound DEF SessionInv, Flush
<1>1. d \in Devices /\ q \in Devices
  BY <1>0, MeIn
<1>2. h.todo[x] \subseteq Payloads /\ \A m \in h.todo[x] : To[m] \in Names(q)
  BY <1>0 DEF Sound, Shakes
<1>3. ASSUME NEW T \in SUBSET h.todo[x], NEW v \in Stages, v # "record"
      PROVE  Sound([[h EXCEPT !.todo[x] = T] EXCEPT !.pc[x] = v])
  <2>1. Sound([h EXCEPT !.todo[x] = T])
    BY <1>0, <1>2, TodoSound
  <2> QED
    BY <1>3, <2>1, PcSound
<1>4. AuthedOK' /\ GotOK' /\ FastOK'
  BY DEF Flush, SessionInv, AuthedOK, KnownByAccount, GotOK, FastOK
<1>5. CASE Linked(h.from, h.to)
  <2>1. PICK m \in h.todo[x] :
          /\ out' = out \cup {[from |-> d, to |-> q, m |-> m]}
          /\ shake' = [shake EXCEPT ![s].todo[x] = @ \ {m},
                                    ![s].pc[x] = IF h.todo[x] = {m} THEN "done" ELSE @]
          /\ UNCHANGED queue
    BY <1>5 DEF Flush
  <2>2. OutOK'
    <3> HIDE DEF d, q
    <3> QED
      BY <1>1, <1>2, <2>1 DEF SessionInv, OutOK, Message
  <2> DEFINE T == h.todo[x] \ {m}
             v == IF h.todo[x] = {m} THEN "done" ELSE "flush"
  <2>3. Sound([[h EXCEPT !.todo[x] = T] EXCEPT !.pc[x] = v])
    <3>1. T \in SUBSET h.todo[x] /\ v \in Stages /\ v # "record"
      BY DEF Stages
    <3> HIDE DEF T, v
    <3> QED
      BY <1>3, <3>1
  <2>4. h.pc[x] = "flush"
    BY DEF Flush
  <2>5. shake' = [shake EXCEPT ![s] = [[h EXCEPT !.todo[x] = T] EXCEPT !.pc[x] = v]]
    BY <1>0, <2>1, <2>4 DEF SessionInv, ShakesOK, Shakes
  <2> HIDE DEF T, v
  <2>6. ShakesOK'
    BY <2>3, <2>5, OneShake DEF SessionInv
  <2> QED
    BY <1>4, <2>2, <2>6 DEF SessionInv
<1>6. CASE ~Linked(h.from, h.to)
  <2>1. /\ queue' = [queue EXCEPT ![d] = @ \cup h.todo[x]]
        /\ shake' = [shake EXCEPT ![s].todo[x] = {}, ![s].pc[x] = "done"]
        /\ UNCHANGED out
    BY <1>6 DEF Flush
  <2>2. OutOK'
    <3> HIDE DEF d
    <3> QED
      BY <1>1, <1>2, <2>1 DEF SessionInv, OutOK, Message
  <2>3. Sound([[h EXCEPT !.todo[x] = {}] EXCEPT !.pc[x] = "done"])
    BY <1>3 DEF Stages
  <2>4. shake' = [shake EXCEPT ![s] = [[h EXCEPT !.todo[x] = {}] EXCEPT !.pc[x] = "done"]]
    BY <1>0, <2>1 DEF SessionInv, ShakesOK, Shakes
  <2>5. ShakesOK'
    BY <2>3, <2>4, OneShake DEF SessionInv
  <2> QED
    BY <1>4, <2>2, <2>5 DEF SessionInv
<1> QED
  BY <1>5, <1>6

-----------------------------------------------------------------------------
(* Messages *)

LEMMA SendKeeps ==
  ASSUME SessionInv, NEW d \in Devices, NEW m \in Payloads, Send(d, m) PROVE SessionInv'
<1>1. \A p \in PeerIdsForDID(d, To[m]) : p \in Devices /\ To[m] \in Names(p)
  <2>1. To[m] # Nobody
    BY SessionAssumption
  <2>2. \A p \in Devices : authedPeers[d][p] = To[m] => To[m] \in Names(p)
    BY <2>1 DEF SessionInv, AuthedOK
  <2> QED
    BY <2>2 DEF PeerIdsForDID, Names
<1>2. OutOK'
  <2>1. CASE PeerIdsForDID(d, To[m]) = {}
    BY <2>1 DEF Send, SessionInv, OutOK, Message
  <2>2. CASE PeerIdsForDID(d, To[m]) # {}
    <3>1. /\ out' = out \cup {[from |-> d, to |-> p, m |-> m] : p \in PeerIdsForDID(d, To[m])}
          /\ UNCHANGED queue
      BY <2>2 DEF Send
    <3>2. \A y \in {[from |-> d, to |-> p, m |-> m] : p \in PeerIdsForDID(d, To[m])} :
            y \in Message /\ To[y.m] \in Names(y.to)
      BY <1>1 DEF Message
    <3> QED
      BY <3>1, <3>2 DEF SessionInv, OutOK
  <2> QED
    BY <2>1, <2>2
<1> QED
  BY <1>2 DEF Send, SessionInv, ShakesOK, AuthedOK, KnownByAccount, GotOK, FastOK

LEMMA DeliverKeeps == ASSUME SessionInv, NEW x \in out, Deliver(x) PROVE SessionInv'
<1>1. x.m \in Payloads /\ To[x.m] \in Names(x.to)
  BY DEF SessionInv, OutOK, Message
<1>2. GotOK'
  BY <1>1 DEF Deliver, SessionInv, GotOK
<1>3. OutOK'
  BY DEF Deliver, SessionInv, OutOK
<1> QED
  BY <1>2, <1>3 DEF Deliver, SessionInv, ShakesOK, AuthedOK, KnownByAccount, FastOK

-----------------------------------------------------------------------------
(* Lost connections and restarts *)

\* the stages may end and what is to be sent be forgotten
LEMMA EndedSound ==
  ASSUME NEW h, Sound(h), NEW pc \in [Sides -> Stages],
         pc["i"] = "record" => h.pc["i"] = "record",
         NEW todo \in [Sides -> SUBSET Payloads],
         \A x \in Sides : todo[x] \subseteq h.todo[x]
  PROVE  Sound([h EXCEPT !.pc = pc, !.todo = todo])
<1> DEFINE g == [h EXCEPT !.pc = pc, !.todo = todo]
<1>1. /\ g \in Shakes
      /\ g.from = h.from /\ g.to = h.to /\ g.mutual = h.mutual /\ g.expected = h.expected
      /\ g.todo = todo /\ g.pc = pc
  BY DEF Sound, Shakes
<1> HIDE DEF g
<1>2. \A y \in Sides : Other(g, y) = Other(h, y)
  BY <1>1 DEF Other
<1> QED
  BY <1>1, <1>2 DEF Sound, g

LEMMA CutOK ==
  ASSUME NEW h, h = NoShake \/ Sound(h), NEW pairs
  PROVE  Cut(pairs, h) = NoShake \/ Sound(Cut(pairs, h))
<1>1. CASE h # NoShake /\ {h.from, h.to} \in pairs
  <2> DEFINE pc == [x \in Sides |-> IF h.pc[x] \in {"intro", "sig"} THEN "failed" ELSE h.pc[x]]
  <2>1. Sound(h) /\ h \in Shakes
    BY <1>1 DEF Sound
  <2>2. pc \in [Sides -> Stages]
    BY <2>1 DEF Shakes, Stages
  <2>3. pc["i"] = "record" => h.pc["i"] = "record"
    BY DEF Sides
  <2>4. Cut(pairs, h) = [h EXCEPT !.pc = pc]
    BY <1>1 DEF Cut
  <2>5. [h EXCEPT !.pc = pc] = [h EXCEPT !.pc = pc, !.todo = h.todo]
    BY <2>1, <2>2 DEF Shakes
  <2> HIDE DEF pc
  <2>6. Sound([h EXCEPT !.pc = pc, !.todo = h.todo])
    <3>1. h.todo \in [Sides -> SUBSET Payloads] /\ \A x \in Sides : h.todo[x] \subseteq h.todo[x]
      BY <2>1 DEF Shakes
    <3> QED
      BY <2>1, <2>2, <2>3, <3>1, EndedSound
  <2> QED
    BY <2>4, <2>5, <2>6
<1>2. CASE ~(h # NoShake /\ {h.from, h.to} \in pairs)
  BY <1>2 DEF Cut
<1> QED
  BY <1>1, <1>2

LEMMA EndedOK ==
  ASSUME NEW d, NEW h, h = NoShake \/ Sound(h)
  PROVE  Ended(d, h) = NoShake \/ Sound(Ended(d, h))
<1>1. CASE h # NoShake
  <2> DEFINE pc == [x \in Sides |-> IF Me(h, x) = d THEN "failed" ELSE h.pc[x]]
             todo == [x \in Sides |-> IF Me(h, x) = d THEN {} ELSE h.todo[x]]
  <2>1. Sound(h) /\ h \in Shakes
    BY <1>1 DEF Sound
  <2>2. /\ pc \in [Sides -> Stages]
        /\ todo \in [Sides -> SUBSET Payloads]
        /\ \A x \in Sides : todo[x] \subseteq h.todo[x]
    BY <2>1 DEF Shakes, Stages
  <2>3. pc["i"] = "record" => h.pc["i"] = "record"
    BY DEF Sides
  <2>4. Ended(d, h) = [h EXCEPT !.pc = pc, !.todo = todo]
    BY <1>1 DEF Ended
  <2> HIDE DEF pc, todo
  <2>5. Sound([h EXCEPT !.pc = pc, !.todo = todo])
    BY <2>1, <2>2, <2>3, EndedSound
  <2> QED
    BY <2>4, <2>5
<1>2. CASE h = NoShake
  BY <1>2 DEF Ended
<1> QED
  BY <1>1, <1>2

LEMMA DisconnectKeeps ==
  ASSUME SessionInv, NEW d \in Devices, NEW p \in Devices, ConnectionLost(d, p) PROVE SessionInv'
<1>1. ShakesOK'
  <2>1. shake' = [s \in Dials |-> Cut({{d, p}}, shake[s])]
    BY DEF ConnectionLost
  <2>2. \A s \in Dials : shake[s] = NoShake \/ Sound(shake[s])
    BY DEF SessionInv, ShakesOK
  <2>3. \A s \in Dials : shake'[s] = NoShake \/ Sound(shake'[s])
    BY <2>1, <2>2, CutOK
  <2> QED
    BY <2>1, <2>3 DEF ShakesOK
<1>2. OutOK'
  BY DEF ConnectionLost, SessionInv, OutOK
<1> QED
  BY <1>1, <1>2 DEF ConnectionLost, SessionInv, AuthedOK, KnownByAccount, GotOK, FastOK

LEMMA RemoteIn == ASSUME SessionInv, NEW d \in Devices, NEW p \in Devices PROVE RemoteDID(d, p) \in DIDs
BY KeysOK DEF SessionInv, AuthedOK, RemoteDID, Names

LEMMA RestartKeeps == ASSUME SessionInv, NEW d \in Devices, Restart(d) PROVE SessionInv'
<1> DEFINE pairs == {{d, p} : p \in Devices}
<1>1. ShakesOK'
  <2>1. shake' = [s \in Dials |-> Ended(d, Cut(pairs, shake[s]))]
    BY DEF Restart
  <2>2. \A s \in Dials : shake[s] = NoShake \/ Sound(shake[s])
    BY DEF SessionInv, ShakesOK
  <2> HIDE DEF pairs
  <2>3. \A s \in Dials : shake'[s] = NoShake \/ Sound(shake'[s])
    BY <2>1, <2>2, CutOK, EndedOK
  <2> QED
    BY <2>1, <2>3 DEF ShakesOK
<1>2. AuthedOK'
  <2>1. /\ authedPeers' = [authedPeers EXCEPT ![d] = [p \in Devices |-> Nobody]]
        /\ dialled' = [dialled EXCEPT ![d] = {}]
    BY DEF Restart
  <2> QED
    BY <2>1 DEF SessionInv, AuthedOK, KnownByAccount
<1>3. OutOK' /\ GotOK'
  <2>1. queue' = [queue EXCEPT ![d] = {}] /\ out' \subseteq out /\ received' = received
    BY DEF Restart
  <2> QED
    BY <2>1 DEF SessionInv, OutOK, GotOK
<1>4. FastOK'
  <2>1. KnownPeers(d) \in SUBSET KnownPeer
    BY RemoteIn DEF KnownPeers, KnownPeer
  <2>2. PICK known \in {{}, KnownPeers(d)} : fast' = [fast EXCEPT ![d] = known]
    BY DEF Restart
  <2> QED
    BY <2>1, <2>2 DEF SessionInv, FastOK
<1> QED
  BY <1>1, <1>2, <1>3, <1>4 DEF SessionInv

LEMMA FastDialKeeps ==
  ASSUME SessionInv, NEW s \in Dials, NEW d \in Devices, NEW k \in fast[d], FastDial(s, d, k)
  PROVE  SessionInv'
<1>1. k \in KnownPeer
  BY DEF SessionInv, FastOK
<1>2. PICK p \in k.addrs :
        /\ Dialling(s, d, k.did, p, k.did = Account[d])
        /\ fast' = [fast EXCEPT ![d] =
             (@ \ {k}) \cup {[k EXCEPT !.dial = s, !.addrs = @ \ {p}]}]
  BY DEF FastDial
<1>3. ShakesOK'
  <2>1. p \in Devices /\ k.did \in DIDs /\ (k.did = Account[d]) \in BOOLEAN
    BY <1>1 DEF KnownPeer
  <2> QED
    BY <1>2, <2>1, DiallingKeeps
<1>4. FastOK'
  <2>1. [k EXCEPT !.dial = s, !.addrs = @ \ {p}] \in KnownPeer
    <3>1. s \in Nat
      BY SessionAssumption DEF Dials
    <3> QED
      BY <1>1, <3>1 DEF KnownPeer
  <2> QED
    BY <1>2, <2>1 DEF SessionInv, FastOK
<1> QED
  BY <1>3, <1>4 DEF FastDial, SessionInv, AuthedOK, KnownByAccount, OutOK, GotOK

LEMMA FastNextKeeps ==
  ASSUME SessionInv, NEW d \in Devices, NEW k \in fast[d], FastNext(d, k) PROVE SessionInv'
<1>1. [k EXCEPT !.dial = 0] \in KnownPeer
  BY DEF SessionInv, FastOK, KnownPeer
<1>2. FastOK'
  BY <1>1 DEF FastNext, SessionInv, FastOK
<1> QED
  BY <1>2 DEF FastNext, SessionInv, ShakesOK, AuthedOK, KnownByAccount, OutOK, GotOK

-----------------------------------------------------------------------------
(* The theorems *)

LEMMA SessionKeeps == ASSUME SessionInv, [SessionNext]_sessionVars PROVE SessionInv'
<1>1. ASSUME NEW s \in Dials, Step(s) PROVE SessionInv'
  BY <1>1, ReadInitiatorKeeps, ReadResponderKeeps, RecordKeeps, AbandonKeeps, FlushKeeps DEF Step
<1>2. ASSUME NEW d \in Devices, NEW k \in fast[d],
             FastNext(d, k) \/ \E s \in Dials : FastDial(s, d, k)
      PROVE  SessionInv'
  BY <1>2, FastNextKeeps, FastDialKeeps
<1>3. CASE UNCHANGED sessionVars
  BY <1>3 DEF sessionVars, SessionInv, ShakesOK, AuthedOK, KnownByAccount, OutOK, GotOK, FastOK
<1> QED
  BY <1>1, <1>2, <1>3, DialKeeps, SendKeeps, DeliverKeeps, DisconnectKeeps, RestartKeeps DEF SessionNext

THEOREM SessionInvariance == SessionSpec => []SessionInv
BY SessionInitially, SessionKeeps, PTL DEF SessionSpec

\* A device that has dialled and authenticated another knows it by the DID of its identity
\* until it restarts, whatever handshakes overlap or follow (node.ts 248-278).  A responder
\* of a one-way handshake records what it knew, so the DID it learned is never replaced by
\* the one of the host key.
THEOREM KnownSafe == SessionSpec => []KnownByAccount
<1>1. SessionInv => KnownByAccount
  BY DEF SessionInv, AuthedOK
<1> QED
  BY SessionInvariance, <1>1, PTL

\* A payload is only received by a device of the DID it was sent to (node.ts 207-246): a DID
\* is recorded for a device only if it is one of its own, and messages and queues follow it.
THEOREM ReachesSafe == SessionSpec => []ReachesAddressee
<1>1. SessionInv => ReachesAddressee
  BY DEF SessionInv, GotOK, ReachesAddressee, Names
<1> QED
  BY SessionInvariance, <1>1, PTL

=============================================================================
