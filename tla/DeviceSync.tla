------------------------------ MODULE DeviceSync ------------------------------
(***************************************************************************)
(* Replication of a user's records between the devices of that user        *)
(* (ts/linkself/src/devicesync.ts, core/internal/devicesync).              *)
(*                                                                         *)
(* Every device keeps its records, a change log and a sequence counter.  A *)
(* local put or delete is stored, logged and broadcast; an incoming change *)
(* is applied when its timestamp is newer than the stored one.  Every      *)
(* engine method is asynchronous: between two storage calls of one method  *)
(* the storage calls of another may run.  A fiber is one such call in      *)
(* progress, and an action is one storage call with the code up to the     *)
(* next await.                                                             *)
(***************************************************************************)
EXTENDS Integers, FiniteSets

CONSTANTS
  Devices,   \* the devices of one user
  Fibers,    \* engine calls that can be in progress on one device
  Keys,      \* (table, record id) pairs
  Bodies,    \* record bodies
  NoBody,    \* the body of a deletion
  Calls,     \* the engine methods the application calls
  Skew,      \* how far each device's wall clock is ahead
  Policy,    \* each device's retention policy: "none", "time" or "count"
  MaxAge,    \* RetentionPolicy.maxAgeMs
  MaxCount,  \* RetentionPolicy.maxCount
  Width,     \* sequence numbers are unsigned, modulo Width (Go); 0: signed (TypeScript)
  Lossy,     \* may a peer be offline, or a send fail?
  Crashes,   \* may a process with persistent storage (SQLite) die and restart?
  MaxTime,   \* bound: the clock stops here
  MaxCalls   \* bound: application calls in a behaviour

ASSUME ConstantsAssumption ==
  /\ NoBody \notin Bodies
  /\ Calls \subseteq {"put", "delete", "sync"}
  /\ Skew \in [Devices -> Nat]
  /\ Policy \in [Devices -> {"none", "time", "count"}]
  /\ MaxAge \in Nat \ {0}
  /\ MaxCount \in Nat \ {0}
  /\ Width \in Nat
  /\ Lossy \in BOOLEAN
  /\ Crashes \in BOOLEAN
  /\ MaxTime \in Nat
  /\ MaxCalls \in Nat

VARIABLES
  now,      \* real time
  records,  \* records[d][k]: the record stored by device d, or Absent
  log,      \* log[d]: the change log of device d, a set of entries
  seq,      \* seq[d]: the last sequence number device d assigned
  net,      \* changes on their way to a device
  tasks,    \* tasks[d][f]: the engine call in progress in fiber f of device d
  calls,    \* application calls made so far
  issued,   \* history: every change a device originated
  lost,     \* history: changes that were not sent to a device, or cut off before it wrote them
  undone    \* history: puts that a device had and then wrote over with something older

vars == <<now, records, log, seq, net, tasks, calls, issued, lost, undone>>

-----------------------------------------------------------------------------
(* Values *)

Op == {"put", "delete"}

Change == [key : Keys, op : Op, body : Bodies \cup {NoBody}, ts : Nat]

Entry == [seq : Nat, change : Change]

Record == [ts : Nat, body : Bodies \cup {NoBody}]

\* getTimestamp answers 0 for a record that does not exist
Absent == [ts |-> 0, body |-> NoBody]

\* mutant of Clock: the skew is subtracted
Clock_SignError(d) == now - Skew[d]

\* the wall clock of device d
Clock(d) == now + Skew[d]

Idle == [pc |-> "idle"]

Task ==
  {Idle}
    \cup [pc : {"retain"}, entry : Entry]
    \cup [pc : {"retainMin"}, entry : Entry, latest : Nat]
    \cup [pc : {"truncate"}, entry : Entry, cut : Int]
    \cup [pc : {"broadcast"}, entry : Entry]
    \cup [pc : {"apply"}, entry : Entry]
    \cup [pc : {"syncLatest", "syncMin", "syncDump"}, peer : Devices, peerSeq : Nat]
    \cup [pc : {"syncEntries"}, peer : Devices, peerSeq : Nat, min : Nat]

Message == [to : Devices, entry : Entry]

-----------------------------------------------------------------------------
(* Storage calls: each one is atomic (a mutex or transaction in Go, one     *)
(* synchronous body in TypeScript).                                         *)

\* the record a change leaves behind
RecordOf(c) == IF c.op = "put" THEN [ts |-> c.ts, body |-> c.body] ELSE Absent

\* the puts that device d has, or has newer ones of, until its record of k gets timestamp ts
Undone(d, k, ts) ==
  {<<x, d>> : x \in {y \in issued : y.key = k /\ y.op = "put" /\ y.ts <= records[d][k].ts
                                                         /\ ts < y.ts}}

\* mutant of Store: a record that exists is not updated
Store_InsertOnly(d, c) ==
  /\ seq' = [seq EXCEPT ![d] = @ + 1]
  /\ records' = IF records[d][c.key] # Absent THEN records
                ELSE [records EXCEPT ![d] = [@ EXCEPT ![c.key] = RecordOf(c)]]
  /\ undone' = undone \cup Undone(d, c.key, RecordOf(c).ts)
  /\ log' = [log EXCEPT ![d] = @ \cup {[seq |-> seq[d] + 1, change |-> c]}]

\* storage.put and storage.delete: next sequence number, record, log entry
Store(d, c) ==
  /\ seq' = [seq EXCEPT ![d] = @ + 1]
  /\ records' = [records EXCEPT ![d] = [@ EXCEPT ![c.key] = RecordOf(c)]]
  /\ undone' = undone \cup Undone(d, c.key, RecordOf(c).ts)
  /\ log' = [log EXCEPT ![d] = @ \cup {[seq |-> seq[d] + 1, change |-> c]}]

\* mutant of GetTimestamp: the stored timestamp is ignored
GetTimestamp_Zero(d, k) == 0

\* storage.getTimestamp
GetTimestamp(d, k) == records[d][k].ts

\* storage.changesSince
ChangesSince(d, since) == {e \in log[d] : e.seq > since}

\* storage.minSeq answered m: the lowest sequence number in the log, 0 if empty
IsMinSeq(d, m) ==
  \/ log[d] = {} /\ m = 0
  \/ /\ \E e \in log[d] : e.seq = m
     /\ \A e \in log[d] : m <= e.seq

\* mutant of Truncated: off by one, the entry at the cut goes too
Truncated_Past(d, cut) == {e \in log[d] : e.seq > cut}

\* storage.truncateChangeLog
Truncated(d, cut) == {e \in log[d] : e.seq >= cut}

-----------------------------------------------------------------------------
(* Engine *)

Resume(d, f, t) == tasks' = [tasks EXCEPT ![d] = [@ EXCEPT ![f] = t]]

At(d, f, pc) == tasks[d][f].pc = pc

Init ==
  /\ now = 1
  /\ records = [d \in Devices |-> [k \in Keys |-> Absent]]
  /\ log = [d \in Devices |-> {}]
  /\ seq = [d \in Devices |-> 0]
  /\ net = {}
  /\ tasks = [d \in Devices |-> [f \in Fibers |-> Idle]]
  /\ calls = 0
  /\ issued = {} /\ lost = {} /\ undone = {}

\* the application starts an engine call
Call(d, f, method) ==
  /\ method \in Calls
  /\ At(d, f, "idle")
  /\ calls < MaxCalls
  /\ calls' = calls + 1

\* a local write: stored under the device's own clock
LocalWrite(d, f, c, pc) ==
  /\ Store(d, c)
  /\ issued' = issued \cup {c}
  /\ Resume(d, f, [pc |-> pc, entry |-> [seq |-> seq[d] + 1, change |-> c]])
  /\ UNCHANGED <<now, net, lost>>

\* engine.put up to the first await
Put(d, f, k, b) ==
  /\ Call(d, f, "put")
  /\ LocalWrite(d, f, [key |-> k, op |-> "put", body |-> b, ts |-> Clock(d)], "retain")

\* engine.delete up to the first await; it does not enforce the retention policy
Delete(d, f, k) ==
  /\ Call(d, f, "delete")
  /\ LocalWrite(d, f, [key |-> k, op |-> "delete", body |-> NoBody, ts |-> Clock(d)],
                "broadcast")

\* mutant of Cutoff: off by one
Cutoff_Late(e) == e.change.ts - MaxAge + 1

\* time-based pruning keeps the log from the first entry not older than this
Cutoff(e) == e.change.ts - MaxAge

\* enforceRetention, first storage call: changesSince(0) or latestSeq
EnforceRetention(d, f) ==
  /\ At(d, f, "retain")
  /\ LET e == tasks[d][f].entry
         kept == {x \in ChangesSince(d, 0) : x.change.ts >= Cutoff(e)}
     IN \/ /\ Policy[d] = "none" \/ (Policy[d] = "time" /\ kept = {})
           /\ Resume(d, f, [pc |-> "broadcast", entry |-> e])
        \/ /\ Policy[d] = "time"
           /\ \E first \in kept :
                /\ \A x \in kept : first.seq <= x.seq
                /\ Resume(d, f, [pc |-> "truncate", entry |-> e, cut |-> first.seq])
        \/ /\ Policy[d] = "count"
           /\ Resume(d, f, [pc |-> "retainMin", entry |-> e, latest |-> seq[d]])
  /\ UNCHANGED <<now, records, log, seq, net, calls, issued, lost, undone>>

\* arithmetic on sequence numbers
Wrap(n) == IF Width = 0 THEN n ELSE n % Width

\* the number of log entries from m to latest
Total(latest, m) == Wrap(latest - m + 1)

\* count-based pruning keeps the log from this sequence number
CountCut(latest) == Wrap(latest - MaxCount + 1)

\* enforceRetention by count: minSeq, against the latest sequence number read before
CountRetention(d, f) ==
  /\ At(d, f, "retainMin")
  /\ LET t == tasks[d][f]
     IN \E m \in 0..seq[d] :
          /\ IsMinSeq(d, m)
          /\ IF t.latest # 0 /\ m # 0 /\ Total(t.latest, m) > MaxCount
             THEN Resume(d, f, [pc |-> "truncate", entry |-> t.entry,
                                cut |-> CountCut(t.latest)])
             ELSE Resume(d, f, [pc |-> "broadcast", entry |-> t.entry])
  /\ UNCHANGED <<now, records, log, seq, net, calls, issued, lost, undone>>

\* storage.truncateChangeLog called by enforceRetention
TruncateChangeLog(d, f) ==
  /\ At(d, f, "truncate")
  /\ log' = [log EXCEPT ![d] = Truncated(d, tasks[d][f].cut)]
  /\ Resume(d, f, [pc |-> "broadcast", entry |-> tasks[d][f].entry])
  /\ UNCHANGED <<now, records, seq, net, calls, issued, lost, undone>>

\* broadcast: the connected peers are asked for once; a failed send is dropped.
\* The sends to several peers are one step: nobody but the receivers reads net.
Broadcast(d, f) ==
  /\ At(d, f, "broadcast")
  /\ \E reached \in SUBSET (Devices \ {d}) :
       /\ Lossy \/ reached = Devices \ {d}
       /\ net' = net \cup {[to |-> p, entry |-> tasks[d][f].entry] : p \in reached}
       /\ lost' = lost \cup ({tasks[d][f].entry.change} \X ((Devices \ {d}) \ reached))
  /\ Resume(d, f, Idle)
  /\ UNCHANGED <<now, records, log, seq, calls, issued, undone>>

\* mutant of Stale: a record that exists is never replaced
Stale_Known(c, existing) == existing # 0

\* the change is not newer than the stored record
Stale(c, existing) == c.ts <= existing

\* handleIncoming, first storage call: the stored timestamp decides
HandleIncoming(d, f, m) ==
  /\ At(d, f, "idle")
  /\ m.to = d
  /\ net' = net \ {m}
  /\ IF Stale(m.entry.change, GetTimestamp(d, m.entry.change.key))
     THEN UNCHANGED tasks
     ELSE Resume(d, f, [pc |-> "apply", entry |-> m.entry])
  /\ UNCHANGED <<now, records, log, seq, calls, issued, lost, undone>>

\* handleIncoming, second storage call: put or delete with the sender's timestamp
ApplyIncoming(d, f) ==
  /\ At(d, f, "apply")
  /\ Store(d, tasks[d][f].entry.change)
  /\ Resume(d, f, Idle)
  /\ UNCHANGED <<now, net, calls, issued, lost>>

\* syncWith: the peer says up to where it has followed our log (external)
SyncWith(d, f, p, peerSeq) ==
  /\ Call(d, f, "sync")
  /\ Resume(d, f, [pc |-> "syncLatest", peer |-> p, peerSeq |-> peerSeq])
  /\ UNCHANGED <<now, records, log, seq, net, issued, lost, undone>>

\* syncWith: latestSeq; nothing to send when the peer is up to date
SyncLatest(d, f) ==
  /\ At(d, f, "syncLatest")
  /\ IF tasks[d][f].peerSeq >= seq[d]
     THEN Resume(d, f, Idle)
     ELSE Resume(d, f, [tasks[d][f] EXCEPT !.pc = "syncMin"])
  /\ UNCHANGED <<now, records, log, seq, net, calls, issued, lost, undone>>

\* mutant of Gap: the comparison is the wrong way round
Gap_Swapped(peerSeq, m) == m > 0 /\ m < peerSeq

\* the changes after peerSeq are no longer all in a log that starts at m
Gap(peerSeq, m) == m > 0 /\ peerSeq < m

\* syncWith: minSeq decides between the incremental changes and the full dump
SyncMin(d, f) ==
  /\ At(d, f, "syncMin")
  /\ \E m \in 0..seq[d] :
       /\ IsMinSeq(d, m)
       /\ LET t == tasks[d][f]
          IN Resume(d, f, IF Gap(t.peerSeq, m)
                          THEN [t EXCEPT !.pc = "syncDump"]
                          ELSE [pc |-> "syncEntries", peer |-> t.peer, peerSeq |-> t.peerSeq,
                                min |-> m])
  /\ UNCHANGED <<now, records, log, seq, net, calls, issued, lost, undone>>

\* syncWith: changesSince, handed to the peer
SyncEntries(d, f) ==
  /\ At(d, f, "syncEntries")
  /\ LET t == tasks[d][f]
     IN net' = net \cup {[to |-> t.peer, entry |-> e] : e \in ChangesSince(d, t.peerSeq)}
  /\ Resume(d, f, Idle)
  /\ UNCHANGED <<now, records, log, seq, calls, issued, lost, undone>>

\* syncWith: every stored record, as a put without a sequence number
SyncDump(d, f) ==
  /\ At(d, f, "syncDump")
  /\ net' = net \cup
       {[to |-> tasks[d][f].peer,
         entry |-> [seq |-> 0,
                    change |-> [key |-> k, op |-> "put", body |-> records[d][k].body,
                                ts |-> records[d][k].ts]]] :
          k \in {x \in Keys : records[d][x] # Absent}}
  /\ Resume(d, f, Idle)
  /\ UNCHANGED <<now, records, log, seq, calls, issued, lost, undone>>

\* a local write that is still to be broadcast
Sending == {"retain", "retainMin", "truncate", "broadcast"}

\* the changes, with the devices they do not get to, when the call in task t is cut off
CutOff(d, t) ==
  IF t.pc \in Sending THEN {t.entry.change} \X (Devices \ {d})
  ELSE IF t.pc = "apply" THEN {<<t.entry.change, d>>}
  ELSE {}

\* the process dies and starts again: the database has every committed storage
\* call, the engine calls in progress are gone
Restart(d) ==
  /\ Crashes
  /\ \E f \in Fibers : ~At(d, f, "idle")
  /\ tasks' = [tasks EXCEPT ![d] = [f \in Fibers |-> Idle]]
  /\ lost' = lost \cup UNION {CutOff(d, tasks[d][f]) : f \in Fibers}
  /\ UNCHANGED <<now, records, log, seq, net, calls, issued, undone>>

Tick ==
  /\ now < MaxTime
  /\ now' = now + 1
  /\ UNCHANGED <<records, log, seq, net, tasks, calls, issued, lost, undone>>

\* the steps that finish what was started
Progress(d, f) ==
  \/ EnforceRetention(d, f)
  \/ CountRetention(d, f)
  \/ TruncateChangeLog(d, f)
  \/ Broadcast(d, f)
  \/ ApplyIncoming(d, f)
  \/ SyncLatest(d, f)
  \/ SyncMin(d, f)
  \/ SyncEntries(d, f)
  \/ SyncDump(d, f)

Next ==
  \/ Tick
  \/ \E d \in Devices : Restart(d)
  \/ \E d \in Devices, f \in Fibers :
       \/ \E k \in Keys, b \in Bodies : Put(d, f, k, b)
       \/ \E k \in Keys : Delete(d, f, k)
       \/ \E p \in Devices \ {d}, s \in 0..seq[d] : SyncWith(d, f, p, s)
       \/ \E m \in net : HandleIncoming(d, f, m)
       \/ Progress(d, f)

Spec == Init /\ [][Next]_vars

\* the event loop runs every started call to its end and every message that
\* arrived is handled; nothing forces the application to make a call
Fairness ==
  \A d \in Devices, f \in Fibers :
    /\ WF_vars(Progress(d, f))
    /\ WF_vars(\E m \in net : HandleIncoming(d, f, m))

FairSpec == Spec /\ Fairness

-----------------------------------------------------------------------------
(* Properties *)

\* Every variable has its type.
TypeOK ==
  /\ now \in Nat
  /\ records \in [Devices -> [Keys -> Record]]
  /\ log \in [Devices -> SUBSET Entry]
  /\ seq \in [Devices -> Nat]
  /\ net \subseteq Message
  /\ tasks \in [Devices -> [Fibers -> Task]]
  /\ calls \in Nat
  /\ issued \subseteq Change
  /\ lost \subseteq Change \X Devices /\ undone \subseteq Change \X Devices

\* The change log is a gap-free run of sequence numbers that ends at the last
\* one assigned, and is never emptied by a truncation, whatever the order in
\* which concurrent puts compute and apply their truncation points, and however
\* they are cut short by a crash: syncWith
\* compares minSeq and latestSeq on that ground.
LogContiguous ==
  \A d \in Devices :
    /\ \A e \in log[d] : e.seq \in 1..seq[d]
    /\ \A e, x \in log[d] : e.seq = x.seq => e = x
    /\ seq[d] > 0 => \E e \in log[d] : e.seq = seq[d]
    /\ \A e \in log[d] : \A s \in e.seq..seq[d] : \E x \in log[d] : x.seq = s

\* x is the last log entry of device d about its key
LastFor(d, e) == \A x \in log[d] : x.change.key = e.change.key => x.seq <= e.seq

\* Replaying the log gives the stored records: the last log entry about a key
\* is the write that left the record the device holds (or its absence), so the
\* incremental entries of syncWith carry the current state.
RecordMatchesLog ==
  \A d \in Devices : \A e \in log[d] :
    LastFor(d, e) => records[d][e.change.key] = RecordOf(e.change)

\* the retention policy lets device d drop entry e
Droppable(d, e) ==
  \/ Policy[d] = "time" /\ e.change.ts < Clock(d) - MaxAge
  \/ Policy[d] = "count" /\ e.seq <= seq[d] - MaxCount

\* what enforceRetention on device d has read so far is still good enough
SafeTask(d, t) ==
  /\ t.pc = "retain" => t.entry.change.ts <= Clock(d)
  /\ t.pc = "retainMin" => Policy[d] = "count" /\ t.latest <= seq[d]
  /\ t.pc = "truncate" =>
       /\ t.cut <= seq[d]
       /\ \A e \in log[d] : e.seq < t.cut => Droppable(d, e)

\* A truncation point stays safe from the moment enforceRetention computes it
\* until truncateChangeLog uses it, whatever is written in between: it is
\* within the log, and below it there is only what the policy lets go.
TruncationSafe == \A d \in Devices, f \in Fibers : SafeTask(d, tasks[d][f])

\* Retention only ever drops a log entry that is older than maxAge (time-based)
\* or not among the maxCount latest ones (count-based), even when the
\* truncation point was computed before other writes.
RetentionSafe ==
  [][\A d \in Devices : \A e \in log[d] \ log'[d] : Droppable(d, e)]_vars

\* What the comment of handleIncoming says (devicesync.ts:207-210): "only entries with a
\* newer timestamp are applied".  A change is never written over a newer record.
NewerKept ==
  [][\A d \in Devices, f \in Fibers :
       ApplyIncoming(d, f) =>
         LET c == tasks[d][f].entry.change IN records[d][c.key].ts <= c.ts]_vars

\* An incremental sync leaves out an entry after the peer's only if a truncation came between
\* its reading of minSeq and of the entries: the comparison of the two sequence numbers finds
\* every other gap (devicesync.ts:249-266), whatever calls overlap it.
GapOnlyByTruncation ==
  [][\A d \in Devices, f \in Fibers :
       SyncEntries(d, f) /\ IsMinSeq(d, tasks[d][f].min) =>
         \A s \in (tasks[d][f].peerSeq + 1)..seq[d] :
           \E e \in log[d] : e.seq = s /\ [to |-> tasks[d][f].peer, entry |-> e] \in net']_vars

\* change c may still be written by device d
Coming(c, d) ==
  \/ \E m \in net : m.to = d /\ m.entry.change = c
  \/ \E f \in Fibers : At(d, f, "apply") /\ tasks[d][f].entry.change = c
  \/ \E e \in Devices \ {d}, f \in Fibers :
       tasks[e][f].pc \in Sending /\ tasks[e][f].entry.change = c

\* A put is not forgotten on its way to the other devices.  Each of them has it or a newer
\* one, or it is still coming; or it was not sent or was cut off by a restart; or the device
\* had it and wrote something older over it, or a deletion.
PutAccounted ==
  \A c \in issued, d \in Devices :
    c.op = "put" =>
      \/ records[d][c.key].ts >= c.ts
      \/ Coming(c, d)
      \/ <<c, d>> \in lost
      \/ <<c, d>> \in undone

\* no two different changes of k carry the same timestamp
NoTie(k) ==
  \A c, x \in issued : c.key = k /\ x.key = k /\ c.ts = x.ts => c = x

\* the devices agree on every record that has no timestamp tie
AgreedUpToTies ==
  \A k \in Keys : NoTie(k) => \A d, e \in Devices : records[d][k] = records[e][k]

\* With puts only, synchronised clocks and no lost send, the devices end up
\* with the same record for every key without a timestamp tie.
Converges == <>[]AgreedUpToTies

=============================================================================
