--------------------------- MODULE DeviceSyncProofs ---------------------------
(***************************************************************************)
(* Proofs about DeviceSync, for every number of devices, fibers, keys and  *)
(* calls, every clock skew and every retention policy, whatever calls      *)
(* overlap, whatever sends are lost and wherever a process restarts.       *)
(***************************************************************************)
EXTENDS DeviceSync, TLAPS

-----------------------------------------------------------------------------
(* Facts about tasks *)

\* A task at a given program counter has the fields of that stage of the call.
LEMMA TaskFields ==
  ASSUME NEW t \in Task
  PROVE  /\ t.pc \in {"retain", "retainMin", "truncate", "broadcast", "apply"}
              => t.entry \in Entry
         /\ t.pc = "retainMin" => t.latest \in Nat
         /\ t.pc = "truncate" => t.cut \in Int
         /\ t.pc \in {"syncLatest", "syncMin", "syncEntries", "syncDump"}
              => t.peer \in Devices /\ t.peerSeq \in Nat
         /\ t.pc = "syncEntries" => t.min \in Nat
         /\ t.pc \in {"syncLatest", "syncMin", "syncDump"}
              => t = [pc |-> t.pc, peer |-> t.peer, peerSeq |-> t.peerSeq]
  BY DEF Task, Idle

\* Resuming one fiber leaves every fiber with a task.
LEMMA ResumeType ==
  ASSUME TypeOK, NEW d \in Devices, NEW f \in Fibers, NEW t \in Task, Resume(d, f, t)
  PROVE  tasks' \in [Devices -> [Fibers -> Task]]
  BY DEF TypeOK, Resume

\* A storage write of a change keeps the types of the stored state.
LEMMA StoreType ==
  ASSUME TypeOK, NEW d \in Devices, NEW c \in Change, Store(d, c)
  PROVE  /\ records' \in [Devices -> [Keys -> Record]]
         /\ log' \in [Devices -> SUBSET Entry]
         /\ seq' \in [Devices -> Nat]
         /\ [seq |-> seq[d] + 1, change |-> c] \in Entry
         /\ undone' \subseteq Change \X Devices
<1>1. RecordOf(c) \in Record /\ c.key \in Keys
  BY DEF Change, Record, RecordOf, Absent, Op
<1>2. [seq |-> seq[d] + 1, change |-> c] \in Entry
  BY DEF TypeOK, Entry
<1>3. Undone(d, c.key, RecordOf(c).ts) \subseteq Change \X Devices
  BY DEF TypeOK, Undone
<1> QED
  BY <1>1, <1>2, <1>3 DEF TypeOK, Store

-----------------------------------------------------------------------------
(* Type correctness *)

\* The application's writes keep the types.
LEMMA LocalWriteType ==
  ASSUME TypeOK, NEW d \in Devices, NEW f \in Fibers, NEW c \in Change,
         NEW pc \in {"retain", "broadcast"}, LocalWrite(d, f, c, pc), calls' \in Nat
  PROVE  TypeOK'
<1>1. [seq |-> seq[d] + 1, change |-> c] \in Entry
  BY StoreType DEF LocalWrite
<1>2. [pc |-> pc, entry |-> [seq |-> seq[d] + 1, change |-> c]] \in Task
  BY <1>1 DEF Task
<1>3. tasks' \in [Devices -> [Fibers -> Task]]
  BY <1>2, ResumeType DEF LocalWrite
<1> QED
  BY <1>3, StoreType DEF LocalWrite, TypeOK

\* Every step of the system keeps every variable in its type.
LEMMA TypeStep ==
  ASSUME TypeOK, [Next]_vars
  PROVE  TypeOK'
<1> USE ConstantsAssumption
<1>1. CASE UNCHANGED vars
  BY <1>1 DEF vars, TypeOK
<1>2. CASE Tick
  BY <1>2 DEF Tick, TypeOK
<1>3. ASSUME NEW d \in Devices, NEW f \in Fibers, NEW k \in Keys, NEW b \in Bodies,
             Put(d, f, k, b)
      PROVE  TypeOK'
  <2>1. [key |-> k, op |-> "put", body |-> b, ts |-> Clock(d)] \in Change
    BY DEF Change, Op, Clock, TypeOK
  <2> QED
    BY <1>3, <2>1, LocalWriteType DEF Put, Call, TypeOK
<1>4. ASSUME NEW d \in Devices, NEW f \in Fibers, NEW k \in Keys, Delete(d, f, k)
      PROVE  TypeOK'
  <2>1. [key |-> k, op |-> "delete", body |-> NoBody, ts |-> Clock(d)] \in Change
    BY DEF Change, Op, Clock, TypeOK
  <2> QED
    BY <1>4, <2>1, LocalWriteType DEF Delete, Call, TypeOK
<1>5. ASSUME NEW d \in Devices, NEW f \in Fibers, NEW p \in Devices \ {d},
             NEW s \in 0..seq[d], SyncWith(d, f, p, s)
      PROVE  TypeOK'
  <2>1. s \in Nat
    BY DEF TypeOK
  <2>2. [pc |-> "syncLatest", peer |-> p, peerSeq |-> s] \in Task
    BY <2>1 DEF Task
  <2>3. tasks' \in [Devices -> [Fibers -> Task]]
    BY <1>5, <2>2, ResumeType DEF SyncWith
  <2> QED
    BY <1>5, <2>3 DEF SyncWith, Call, TypeOK
<1>6. ASSUME NEW d \in Devices, NEW f \in Fibers, NEW m \in net, HandleIncoming(d, f, m)
      PROVE  TypeOK'
  <2>1. m.entry \in Entry
    BY DEF TypeOK, Message
  <2>2. [pc |-> "apply", entry |-> m.entry] \in Task
    BY <2>1 DEF Task
  <2>3. tasks' \in [Devices -> [Fibers -> Task]]
    BY <1>6, <2>2, ResumeType DEF HandleIncoming, TypeOK
  <2> QED
    BY <1>6, <2>3 DEF HandleIncoming, TypeOK
<1>7. ASSUME NEW d \in Devices, NEW f \in Fibers, Progress(d, f)
      PROVE  TypeOK'
  <2> DEFINE t == tasks[d][f]
  <2> t \in Task
    BY DEF TypeOK
  <2>1. CASE EnforceRetention(d, f)
    <3>1. t.entry \in Entry
      BY <2>1, TaskFields DEF EnforceRetention, At
    <3>2. /\ [pc |-> "broadcast", entry |-> t.entry] \in Task
          /\ [pc |-> "retainMin", entry |-> t.entry, latest |-> seq[d]] \in Task
          /\ \A e \in log[d] : [pc |-> "truncate", entry |-> t.entry, cut |-> e.seq] \in Task
      BY <3>1 DEF Task, TypeOK, Entry
    <3>3. tasks' \in [Devices -> [Fibers -> Task]]
      BY <2>1, <3>2, ResumeType DEF EnforceRetention, ChangesSince
    <3> QED
      BY <2>1, <3>3 DEF EnforceRetention, TypeOK
  <2>2. CASE CountRetention(d, f)
    <3>1. t.entry \in Entry /\ t.latest \in Nat
      BY <2>2, TaskFields DEF CountRetention, At
    <3>2. /\ [pc |-> "broadcast", entry |-> t.entry] \in Task
          /\ [pc |-> "truncate", entry |-> t.entry, cut |-> CountCut(t.latest)] \in Task
      BY <3>1, ConstantsAssumption DEF Task, CountCut, Wrap
    <3>3. tasks' \in [Devices -> [Fibers -> Task]]
      BY <2>2, <3>2, ResumeType DEF CountRetention
    <3> QED
      BY <2>2, <3>3 DEF CountRetention, TypeOK
  <2>3. CASE TruncateChangeLog(d, f)
    <3>1. t.entry \in Entry
      BY <2>3, TaskFields DEF TruncateChangeLog, At
    <3>2. tasks' \in [Devices -> [Fibers -> Task]]
      BY <2>3, <3>1, ResumeType DEF TruncateChangeLog, Task
    <3> QED
      BY <2>3, <3>2 DEF TruncateChangeLog, Truncated, TypeOK
  <2>4. CASE Broadcast(d, f)
    <3>1. t.entry \in Entry
      BY <2>4, TaskFields DEF Broadcast, At
    <3>2. tasks' \in [Devices -> [Fibers -> Task]]
      BY <2>4, ResumeType DEF Broadcast, Task
    <3>3. lost' \subseteq Change \X Devices
      BY <2>4, <3>1 DEF Broadcast, Entry, TypeOK
    <3> QED
      BY <2>4, <3>1, <3>2, <3>3 DEF Broadcast, Message, TypeOK
  <2>5. CASE ApplyIncoming(d, f)
    <3>1. t.entry.change \in Change
      BY <2>5, TaskFields DEF ApplyIncoming, At, Entry
    <3>2. tasks' \in [Devices -> [Fibers -> Task]]
      BY <2>5, ResumeType DEF ApplyIncoming, Task
    <3> QED
      BY <2>5, <3>1, <3>2, StoreType DEF ApplyIncoming, TypeOK
  <2>6. CASE SyncLatest(d, f) \/ SyncMin(d, f)
    <3>1. /\ t.peer \in Devices /\ t.peerSeq \in Nat
          /\ t = [pc |-> t.pc, peer |-> t.peer, peerSeq |-> t.peerSeq]
      BY <2>6, TaskFields DEF SyncLatest, SyncMin, At
    <3>2. \A pc \in {"syncMin", "syncDump"} : [t EXCEPT !.pc = pc] \in Task
      <4> SUFFICES ASSUME NEW pc \in {"syncMin", "syncDump"}
                   PROVE  [t EXCEPT !.pc = pc] \in Task
        OBVIOUS
      <4>1. [t EXCEPT !.pc = pc] = [pc |-> pc, peer |-> t.peer, peerSeq |-> t.peerSeq]
        BY <3>1
      <4> QED
        BY <3>1, <4>1 DEF Task
    <3>3. tasks' \in [Devices -> [Fibers -> Task]]
      <4>1. CASE SyncLatest(d, f)
        BY <4>1, <3>2, ResumeType DEF SyncLatest, Task
      <4>2. CASE SyncMin(d, f)
        <5>1. \A m \in 0..seq[d] :
                [pc |-> "syncEntries", peer |-> t.peer, peerSeq |-> t.peerSeq, min |-> m] \in Task
          BY <3>1 DEF Task, TypeOK
        <5> QED
          BY <4>2, <3>2, <5>1, ResumeType DEF SyncMin
      <4> QED
        BY <2>6, <4>1, <4>2
    <3> QED
      BY <2>6, <3>3 DEF SyncLatest, SyncMin, TypeOK
  <2>7. CASE SyncEntries(d, f)
    <3>1. t.peer \in Devices
      BY <2>7, TaskFields DEF SyncEntries, At
    <3>2. tasks' \in [Devices -> [Fibers -> Task]]
      BY <2>7, ResumeType DEF SyncEntries, Task
    <3> QED
      BY <2>7, <3>1, <3>2 DEF SyncEntries, ChangesSince, Message, TypeOK
  <2>8. CASE SyncDump(d, f)
    <3>1. t.peer \in Devices
      BY <2>8, TaskFields DEF SyncDump, At
    <3>2. tasks' \in [Devices -> [Fibers -> Task]]
      BY <2>8, ResumeType DEF SyncDump, Task
    <3>3. \A k \in Keys : records[d][k].body \in Bodies \cup {NoBody} /\ records[d][k].ts \in Nat
      BY DEF TypeOK, Record
    <3>4. \A k \in Keys :
            [to |-> t.peer,
             entry |-> [seq |-> 0,
                        change |-> [key |-> k, op |-> "put", body |-> records[d][k].body,
                                    ts |-> records[d][k].ts]]] \in Message
      BY <3>1, <3>3 DEF Message, Entry, Change, Op
    <3> QED
      BY <2>8, <3>2, <3>4 DEF SyncDump, TypeOK
  <2> QED
    BY <1>7, <2>1, <2>2, <2>3, <2>4, <2>5, <2>6, <2>7, <2>8 DEF Progress
<1>8. ASSUME NEW d \in Devices, Restart(d)
      PROVE  TypeOK'
  <2>1. Idle \in Task
    BY DEF Task
  <2>2. tasks' \in [Devices -> [Fibers -> Task]]
    BY <1>8, <2>1 DEF Restart, TypeOK
  <2>3. \A f \in Fibers : CutOff(d, tasks[d][f]) \subseteq Change \X Devices
    <3> SUFFICES ASSUME NEW f \in Fibers
                 PROVE  CutOff(d, tasks[d][f]) \subseteq Change \X Devices
      OBVIOUS
    <3>1. tasks[d][f] \in Task
      BY DEF TypeOK
    <3>2. tasks[d][f].pc \in Sending \cup {"apply"} => tasks[d][f].entry.change \in Change
      BY <3>1, TaskFields DEF Sending, Entry
    <3> QED
      BY <3>2 DEF CutOff
  <2>4. lost' \subseteq Change \X Devices
    BY <1>8, <2>3 DEF Restart, TypeOK
  <2> QED
    BY <1>8, <2>2, <2>4 DEF Restart, TypeOK
<1> QED
  BY <1>1, <1>2, <1>3, <1>4, <1>5, <1>6, <1>7, <1>8 DEF Next

\* Every variable keeps its type in every behaviour of the replication engine.
THEOREM TypeCorrect == Spec => []TypeOK
<1>1. Init => TypeOK
  BY DEF Init, TypeOK, Record, Absent, Task, Idle
<1> QED
  BY <1>1, TypeStep, PTL DEF Spec

-----------------------------------------------------------------------------
(* The change log.  The invariants are inductive together: a truncation keeps *)
(* the log contiguous because its cut is within the log (TruncationSafe), and *)
(* a cut stays within the log because sequence numbers only grow.             *)

\* count-based retention does its arithmetic without wrapping around
NoWrap == Width = 0 \/ \A d \in Devices : Policy[d] # "count"

LogInv == TypeOK /\ LogContiguous /\ RecordMatchesLog /\ TruncationSafe

\* A storage write appends to the log and leaves the record it logged.
LEMMA StoreKeepsLog ==
  ASSUME LogInv, NEW d \in Devices, NEW c \in Change, Store(d, c)
  PROVE  LogContiguous' /\ RecordMatchesLog'
<1> DEFINE new == [seq |-> seq[d] + 1, change |-> c]
<1>1. TypeOK /\ LogContiguous /\ RecordMatchesLog
  BY DEF LogInv
<1>2. /\ \A x \in Devices : seq[x] \in Nat /\ log[x] \subseteq Entry
      /\ \A x \in Devices : x # d => log'[x] = log[x] /\ seq'[x] = seq[x] /\ records'[x] = records[x]
      /\ log'[d] = log[d] \cup {new} /\ seq'[d] = seq[d] + 1
      /\ records'[d] = [records[d] EXCEPT ![c.key] = RecordOf(c)]
  BY <1>1 DEF Store, TypeOK
<1>3. \A x \in Devices : \A e \in log[x] :
        e.seq \in Nat /\ e.change \in Change /\ e.change.key \in Keys
  BY <1>2 DEF Entry, Change
<1>new. new \in log'[d] /\ new.seq = seq[d] + 1 /\ new.change = c
  BY <1>2
<1> HIDE DEF new
<1>4. LogContiguous'
  <2> SUFFICES ASSUME NEW x \in Devices
               PROVE  /\ \A e \in log'[x] : e.seq \in 1..seq'[x]
                      /\ \A e, y \in log'[x] : e.seq = y.seq => e = y
                      /\ seq'[x] > 0 => \E e \in log'[x] : e.seq = seq'[x]
                      /\ \A e \in log'[x] : \A s \in e.seq..seq'[x] :
                           \E y \in log'[x] : y.seq = s
    BY DEF LogContiguous
  <2>1. CASE x # d
    BY <1>1, <1>2, <2>1 DEF LogContiguous
  <2>2. CASE x = d
    <3>1. \A e \in log[d] : e.seq \in 1..seq[d]
      BY <1>1 DEF LogContiguous
    <3>2. \A e \in log'[d] : \A s \in e.seq..seq'[d] : \E y \in log'[d] : y.seq = s
      <4> SUFFICES ASSUME NEW e \in log'[d], NEW s \in e.seq..seq'[d]
                   PROVE  \E y \in log'[d] : y.seq = s
        OBVIOUS
      <4>1. CASE s = seq[d] + 1
        BY <4>1, <1>new
      <4>2. CASE s # seq[d] + 1
        <5>1. e \in log[d] /\ s \in e.seq..seq[d]
          BY <4>2, <1>2, <1>3, <1>new
        <5> QED
          BY <5>1, <1>1, <1>2 DEF LogContiguous
      <4> QED
        BY <4>1, <4>2
    <3>3. \A e, y \in log'[d] : e.seq = y.seq => e = y
      BY <1>1, <1>2, <1>new, <3>1 DEF LogContiguous
    <3> QED
      BY <1>2, <1>3, <1>new, <2>2, <3>1, <3>2, <3>3
  <2> QED
    BY <2>1, <2>2
<1>5. RecordMatchesLog'
  <2> SUFFICES ASSUME NEW x \in Devices, NEW e \in log'[x],
                      \A y \in log'[x] : y.change.key = e.change.key => y.seq <= e.seq
               PROVE  records'[x][e.change.key] = RecordOf(e.change)
    BY DEF RecordMatchesLog, LastFor
  <2>1. CASE x # d
    BY <1>1, <1>2, <2>1 DEF RecordMatchesLog, LastFor
  <2>2. CASE x = d /\ e = new
    BY <1>1, <1>2, <1>new, <2>2 DEF TypeOK, Change
  <2>3. CASE x = d /\ e # new
    <3>1. e \in log[d] /\ e.seq <= seq[d]
      BY <1>1, <1>2, <2>3 DEF LogContiguous
    <3>2. e.change.key # c.key
      BY <1>2, <1>3, <1>new, <2>3, <3>1
    <3>3. records[d][e.change.key] = RecordOf(e.change)
      BY <1>1, <1>2, <1>new, <2>3, <3>1 DEF RecordMatchesLog, LastFor
    <3> QED
      BY <1>1, <1>2, <1>3, <2>3, <3>1, <3>2, <3>3 DEF TypeOK
  <2> QED
    BY <2>1, <2>2, <2>3
<1> QED
  BY <1>4, <1>5

\* A truncation at a point within the log leaves a contiguous end of the log.
LEMMA TruncateKeepsLog ==
  ASSUME LogInv, NEW d \in Devices, NEW f \in Fibers, TruncateChangeLog(d, f)
  PROVE  LogContiguous' /\ RecordMatchesLog'
<1> DEFINE cut == tasks[d][f].cut
<1>1. TypeOK /\ LogContiguous /\ RecordMatchesLog /\ TruncationSafe
  BY DEF LogInv
<1>2. cut \in Int /\ cut <= seq[d]
  BY <1>1, TaskFields DEF TruncateChangeLog, At, TruncationSafe, SafeTask, TypeOK
<1>3. /\ \A x \in Devices : seq[x] \in Nat /\ log[x] \subseteq Entry
      /\ \A x \in Devices : x # d => log'[x] = log[x]
      /\ log'[d] = {e \in log[d] : e.seq >= cut}
      /\ seq' = seq /\ records' = records
  BY <1>1 DEF TruncateChangeLog, Truncated, TypeOK
<1>4. \A x \in Devices : \A e \in log[x] : e.seq \in Nat
  BY <1>3 DEF Entry
<1>5. LogContiguous'
  <2> SUFFICES ASSUME NEW x \in Devices
               PROVE  /\ \A e \in log'[x] : e.seq \in 1..seq[x]
                      /\ \A e, y \in log'[x] : e.seq = y.seq => e = y
                      /\ seq[x] > 0 => \E e \in log'[x] : e.seq = seq[x]
                      /\ \A e \in log'[x] : \A s \in e.seq..seq[x] :
                           \E y \in log'[x] : y.seq = s
    BY <1>3 DEF LogContiguous
  <2>1. CASE x # d
    BY <1>1, <1>3, <2>1 DEF LogContiguous
  <2>2. CASE x = d
    <3>1. \A e \in log'[d] : \A s \in e.seq..seq[d] : \E y \in log'[d] : y.seq = s
      BY <1>1, <1>2, <1>3, <1>4 DEF LogContiguous
    <3> QED
      BY <1>1, <1>2, <1>3, <1>4, <2>2, <3>1 DEF LogContiguous
  <2> QED
    BY <2>1, <2>2
<1>6. RecordMatchesLog'
  <2> SUFFICES ASSUME NEW x \in Devices, NEW e \in log'[x],
                      \A y \in log'[x] : y.change.key = e.change.key => y.seq <= e.seq
               PROVE  records[x][e.change.key] = RecordOf(e.change)
    BY <1>3 DEF RecordMatchesLog, LastFor
  <2>1. e \in log[x] /\ LastFor(x, e)
    BY <1>2, <1>3, <1>4 DEF LastFor
  <2> QED
    BY <1>1, <2>1 DEF RecordMatchesLog
<1> QED
  BY <1>5, <1>6

\* Whatever happens on device d, what enforceRetention read before stays good
\* enough: time and sequence numbers grow, and new entries go on top of the log.
LEMMA SafeTaskStable ==
  ASSUME TypeOK, TypeOK', NEW d \in Devices, now <= now', seq[d] <= seq'[d],
         \A e \in log'[d] : e \in log[d] \/ e.seq > seq[d]
  PROVE  \A t \in Task : SafeTask(d, t) => SafeTask(d, t)'
<1> SUFFICES ASSUME NEW t \in Task, SafeTask(d, t)
             PROVE  SafeTask(d, t)'
  OBVIOUS
<1>1. /\ now \in Nat /\ now' \in Nat /\ seq[d] \in Nat /\ seq'[d] \in Nat /\ Skew[d] \in Nat
      /\ MaxAge \in Nat /\ MaxCount \in Nat
  BY ConstantsAssumption DEF TypeOK
<1>2. \A e \in log'[d] : e.seq \in Nat /\ e.change.ts \in Nat
  BY DEF TypeOK, Entry, Change
<1>3. t.pc = "retain" => t.entry.change.ts <= Clock(d)'
  <2>1. t.pc = "retain" => t.entry.change.ts \in Nat /\ t.entry.change.ts <= now + Skew[d]
    BY TaskFields DEF Entry, Change, SafeTask, Clock
  <2> QED
    BY <1>1, <2>1 DEF Clock
<1>4. t.pc = "retainMin" => Policy[d] = "count" /\ t.latest <= seq'[d]
  BY <1>1, TaskFields DEF SafeTask
<1>5. ASSUME t.pc = "truncate"
      PROVE  /\ t.cut <= seq'[d]
             /\ \A e \in log'[d] : e.seq < t.cut => Droppable(d, e)'
  <2>1. t.cut \in Int /\ t.cut <= seq[d]
    BY <1>5, TaskFields DEF SafeTask
  <2> SUFFICES ASSUME NEW e \in log'[d], e.seq < t.cut
               PROVE  Droppable(d, e)'
    BY <1>1, <2>1
  <2>2. e \in log[d]
    BY <1>1, <1>2, <2>1
  <2>3. Droppable(d, e)
    BY <1>5, <2>2 DEF SafeTask
  <2> QED
    BY <1>1, <1>2, <2>3 DEF Droppable, Clock
<1> QED
  BY <1>3, <1>4, <1>5 DEF SafeTask

\* Only the fiber that took a step has a new task to justify.
LEMMA TruncationSafeStep ==
  ASSUME TypeOK, TypeOK', TruncationSafe, NEW d \in Devices, NEW f \in Fibers,
         \E t : Resume(d, f, t), SafeTask(d, tasks[d][f])',
         now <= now', \A x \in Devices : seq[x] <= seq'[x],
         \A x \in Devices : \A e \in log'[x] : e \in log[x] \/ e.seq > seq[x]
  PROVE  TruncationSafe'
<1> SUFFICES ASSUME NEW x \in Devices, NEW g \in Fibers
             PROVE  SafeTask(x, tasks[x][g])'
  BY DEF TruncationSafe
<1>1. CASE x = d /\ g = f
  BY <1>1
<1>2. CASE ~(x = d /\ g = f)
  <2>1. tasks'[x][g] = tasks[x][g] /\ tasks[x][g] \in Task
    BY <1>2 DEF Resume, TypeOK
  <2>2. SafeTask(x, tasks[x][g])
    BY DEF TruncationSafe
  <2>3. \A u \in Task : SafeTask(x, u) => SafeTask(x, u)'
    BY SafeTaskStable
  <2> QED
    BY <2>1, <2>2, <2>3 DEF SafeTask, Droppable, Clock
<1> QED
  BY <1>1, <1>2

\* A write leaves everything else in place: sequence numbers grow and the log
\* gets entries on top.
LEMMA StoreGrows ==
  ASSUME TypeOK, NEW d \in Devices, NEW c \in Change, Store(d, c)
  PROVE  /\ \A x \in Devices : seq[x] <= seq'[x]
         /\ \A x \in Devices : \A e \in log'[x] : e \in log[x] \/ e.seq > seq[x]
  BY DEF TypeOK, Store

\* An application write keeps the log invariants.
LEMMA LocalWriteLog ==
  ASSUME LogInv, TypeOK', NEW d \in Devices, NEW f \in Fibers, NEW c \in Change,
         c.ts = Clock(d), NEW pc \in {"retain", "broadcast"}, LocalWrite(d, f, c, pc)
  PROVE  LogInv'
<1>1. LogContiguous' /\ RecordMatchesLog'
  BY StoreKeepsLog DEF LocalWrite
<1>2. now' = now /\ now \in Nat /\ Skew[d] \in Nat
  BY ConstantsAssumption DEF LocalWrite, LogInv, TypeOK
<1>3. tasks'[d][f] = [pc |-> pc, entry |-> [seq |-> seq[d] + 1, change |-> c]]
  BY DEF LocalWrite, Resume, LogInv, TypeOK
<1>4. SafeTask(d, tasks[d][f])'
  BY <1>2, <1>3 DEF SafeTask, Clock
<1>5. /\ \A x \in Devices : seq[x] <= seq'[x]
      /\ \A x \in Devices : \A e \in log'[x] : e \in log[x] \/ e.seq > seq[x]
  BY StoreGrows DEF LocalWrite, LogInv
<1>6. \E t : Resume(d, f, t)
  BY DEF LocalWrite
<1>7. TruncationSafe'
  BY <1>2, <1>4, <1>5, <1>6, TruncationSafeStep DEF LogInv
<1> QED
  BY <1>1, <1>7 DEF LogInv

\* A step that leaves the storage alone keeps the log invariants if the task it
\* resumes with is justified.
LEMMA ReadOnlyLog ==
  ASSUME LogInv, TypeOK', NEW d \in Devices, NEW f \in Fibers, \E t : Resume(d, f, t),
         UNCHANGED <<now, records, log, seq>>, SafeTask(d, tasks[d][f])'
  PROVE  LogInv'
<1>1. LogContiguous' /\ RecordMatchesLog'
  BY DEF LogInv, LogContiguous, RecordMatchesLog, LastFor
<1>2. /\ now <= now' /\ \A x \in Devices : seq[x] <= seq'[x]
      /\ \A x \in Devices : \A e \in log'[x] : e \in log[x] \/ e.seq > seq[x]
  BY DEF LogInv, TypeOK
<1>3. TruncationSafe'
  BY <1>2, TruncationSafeStep DEF LogInv
<1> QED
  BY <1>1, <1>3 DEF LogInv

\* A fiber outside enforceRetention has nothing to justify.
LEMMA OtherTaskSafe ==
  ASSUME NEW d \in Devices, NEW f \in Fibers,
         tasks'[d][f].pc \notin {"retain", "retainMin", "truncate"}
  PROVE  SafeTask(d, tasks[d][f])'
  BY DEF SafeTask

\* Every step keeps the log invariants.
LEMMA LogStep ==
  ASSUME NoWrap, LogInv, [Next]_vars
  PROVE  LogInv'
<1> USE ConstantsAssumption
<1>t. TypeOK'
  BY TypeStep DEF LogInv
<1>1. CASE UNCHANGED vars
  <2>1. LogContiguous' /\ RecordMatchesLog'
    BY <1>1 DEF vars, LogInv, LogContiguous, RecordMatchesLog, LastFor
  <2>2. TruncationSafe'
    BY <1>1 DEF vars, LogInv, TruncationSafe, SafeTask, Droppable, Clock
  <2> QED
    BY <1>t, <2>1, <2>2 DEF LogInv
<1>2. CASE Tick
  <2>1. LogContiguous' /\ RecordMatchesLog'
    BY <1>2 DEF Tick, LogInv, LogContiguous, RecordMatchesLog, LastFor
  <2>2. \A d \in Devices : /\ now <= now' /\ seq[d] <= seq'[d]
                           /\ \A e \in log'[d] : e \in log[d] \/ e.seq > seq[d]
    BY <1>2 DEF Tick, LogInv, TypeOK
  <2>3. \A d \in Devices : \A t \in Task : SafeTask(d, t) => SafeTask(d, t)'
    BY <1>t, <2>2, SafeTaskStable DEF LogInv
  <2>4. TruncationSafe'
    <3> SUFFICES ASSUME NEW d \in Devices, NEW f \in Fibers
                 PROVE  SafeTask(d, tasks[d][f])'
      BY DEF TruncationSafe
    <3>1. tasks'[d][f] = tasks[d][f] /\ tasks[d][f] \in Task /\ SafeTask(d, tasks[d][f])
      BY <1>2 DEF Tick, LogInv, TypeOK, TruncationSafe
    <3> QED
      BY <2>3, <3>1 DEF SafeTask, Droppable, Clock
  <2> QED
    BY <1>t, <2>1, <2>4 DEF LogInv
<1>3. ASSUME NEW d \in Devices, NEW f \in Fibers, NEW k \in Keys, NEW b \in Bodies,
             Put(d, f, k, b)
      PROVE  LogInv'
  <2> DEFINE c == [key |-> k, op |-> "put", body |-> b, ts |-> Clock(d)]
  <2>1. c \in Change /\ c.ts = Clock(d)
    BY DEF Change, Op, Clock, LogInv, TypeOK
  <2> QED
    BY <1>t, <1>3, <2>1, LocalWriteLog DEF Put
<1>4. ASSUME NEW d \in Devices, NEW f \in Fibers, NEW k \in Keys, Delete(d, f, k)
      PROVE  LogInv'
  <2> DEFINE c == [key |-> k, op |-> "delete", body |-> NoBody, ts |-> Clock(d)]
  <2>1. c \in Change /\ c.ts = Clock(d)
    BY DEF Change, Op, Clock, LogInv, TypeOK
  <2> QED
    BY <1>t, <1>4, <2>1, LocalWriteLog DEF Delete
<1>5. ASSUME NEW d \in Devices, NEW f \in Fibers, NEW p \in Devices \ {d},
             NEW s \in 0..seq[d], SyncWith(d, f, p, s)
      PROVE  LogInv'
  <2>1. tasks'[d][f].pc = "syncLatest"
    BY <1>5 DEF SyncWith, Resume, LogInv, TypeOK
  <2> QED
    BY <1>t, <1>5, <2>1, OtherTaskSafe, ReadOnlyLog DEF SyncWith
<1>6. ASSUME NEW d \in Devices, NEW f \in Fibers, NEW m \in net, HandleIncoming(d, f, m)
      PROVE  LogInv'
  <2>1. tasks'[d][f].pc \in {"idle", "apply"}
    BY <1>6 DEF HandleIncoming, At, Resume, LogInv, TypeOK
  <2>2. \E t : Resume(d, f, t)
    <3>1. UNCHANGED tasks => Resume(d, f, tasks[d][f])
      BY DEF Resume, LogInv, TypeOK
    <3> QED
      BY <1>6, <3>1 DEF HandleIncoming
  <2>3. UNCHANGED <<now, records, log, seq>>
    BY <1>6 DEF HandleIncoming
  <2> QED
    BY <1>t, <2>1, <2>2, <2>3, OtherTaskSafe, ReadOnlyLog
<1>7. ASSUME NEW d \in Devices, NEW f \in Fibers, Progress(d, f)
      PROVE  LogInv'
  <2> DEFINE t == tasks[d][f]
  <2>t. t \in Task /\ SafeTask(d, t)
    BY DEF LogInv, TypeOK, TruncationSafe
  <2>1. CASE EnforceRetention(d, f)
    <3>1. SafeTask(d, tasks[d][f])'
      <4> DEFINE e == t.entry
                 kept == {x \in ChangesSince(d, 0) : x.change.ts >= Cutoff(e)}
      <4>1. t.pc = "retain" /\ e \in Entry /\ e.change.ts \in Nat /\ e.change.ts <= Clock(d)
        BY <2>1, <2>t, TaskFields DEF EnforceRetention, At, SafeTask, Entry, Change
      <4>2. UNCHANGED <<now, log, seq>> /\ seq[d] \in Nat /\ Clock(d) \in Nat
        BY <2>1 DEF EnforceRetention, LogInv, TypeOK, Clock
      <4>3. CASE Resume(d, f, [pc |-> "broadcast", entry |-> e])
        BY <4>3, OtherTaskSafe DEF Resume, LogInv, TypeOK
      <4>4. CASE Policy[d] = "count" /\ Resume(d, f, [pc |-> "retainMin", entry |-> e, latest |-> seq[d]])
        <5>1. tasks'[d][f] = [pc |-> "retainMin", entry |-> e, latest |-> seq[d]]
          BY <4>4 DEF Resume, LogInv, TypeOK
        <5> QED
          BY <4>2, <4>4, <5>1 DEF SafeTask
      <4>5. ASSUME Policy[d] = "time", NEW first \in kept, \A x \in kept : first.seq <= x.seq,
                   Resume(d, f, [pc |-> "truncate", entry |-> e, cut |-> first.seq])
            PROVE  SafeTask(d, tasks[d][f])'
        <5>1. tasks'[d][f] = [pc |-> "truncate", entry |-> e, cut |-> first.seq]
          BY <4>5 DEF Resume, LogInv, TypeOK
        <5>2. \A x \in log[d] : x.seq \in 1..seq[d] /\ x.seq \in Nat /\ x.change.ts \in Nat
          BY DEF LogInv, LogContiguous, TypeOK, Entry, Change
        <5>3. first.seq <= seq[d]
          BY <4>2, <5>2 DEF ChangesSince
        <5>4. ASSUME NEW x \in log[d], x.seq < first.seq
              PROVE  Droppable(d, x)
          <6>1. x \notin kept
            BY <4>5, <5>2, <5>4 DEF ChangesSince
          <6>2. x.change.ts < Cutoff(e)
            BY <4>1, <5>2, <6>1 DEF ChangesSince, Cutoff
          <6> QED
            BY <4>1, <4>2, <4>5, <5>2, <6>2 DEF Droppable, Cutoff
        <5> QED
          BY <4>2, <5>1, <5>3, <5>4 DEF SafeTask, Droppable, Clock
      <4> QED
        BY <2>1, <4>3, <4>4, <4>5 DEF EnforceRetention
    <3>2. \E u : Resume(d, f, u)
      BY <2>1 DEF EnforceRetention
    <3> QED
      BY <1>t, <2>1, <3>1, <3>2, ReadOnlyLog DEF EnforceRetention
  <2>2. CASE CountRetention(d, f)
    <3>1. SafeTask(d, tasks[d][f])'
      <4>1. t.latest \in Nat /\ t.latest <= seq[d] /\ Policy[d] = "count" /\ seq[d] \in Nat
        BY <2>2, <2>t, TaskFields DEF CountRetention, At, SafeTask, LogInv, TypeOK
      <4>2. UNCHANGED <<now, log, seq>>
        BY <2>2 DEF CountRetention
      <4>3. CASE Resume(d, f, [pc |-> "truncate", entry |-> t.entry, cut |-> CountCut(t.latest)])
        <5>1. tasks'[d][f] = [pc |-> "truncate", entry |-> t.entry, cut |-> CountCut(t.latest)]
          BY <4>3 DEF Resume, LogInv, TypeOK
        <5>2. \A x \in log[d] : x.seq \in Nat
          BY DEF LogInv, TypeOK, Entry
        <5>3. /\ CountCut(t.latest) <= seq[d]
              /\ \A x \in log[d] : x.seq < CountCut(t.latest) => Droppable(d, x)
          BY <4>1, <5>2 DEF CountCut, Wrap, NoWrap, Droppable
        <5> QED
          BY <4>2, <5>1, <5>3 DEF SafeTask, Droppable, Clock
      <4>4. CASE Resume(d, f, [pc |-> "broadcast", entry |-> t.entry])
        BY <4>4, OtherTaskSafe DEF Resume, LogInv, TypeOK
      <4> QED
        BY <2>2, <4>3, <4>4 DEF CountRetention
    <3>2. \E u : Resume(d, f, u)
      BY <2>2 DEF CountRetention
    <3> QED
      BY <1>t, <2>2, <3>1, <3>2, ReadOnlyLog DEF CountRetention
  <2>3. CASE TruncateChangeLog(d, f)
    <3>1. LogContiguous' /\ RecordMatchesLog'
      BY <2>3, TruncateKeepsLog
    <3>2. tasks'[d][f].pc = "broadcast"
      BY <2>3 DEF TruncateChangeLog, Resume, LogInv, TypeOK
    <3>3. /\ now <= now' /\ \A x \in Devices : seq[x] <= seq'[x]
          /\ \A x \in Devices : \A e \in log'[x] : e \in log[x] \/ e.seq > seq[x]
      BY <2>3 DEF TruncateChangeLog, Truncated, LogInv, TypeOK
    <3>4. \E u : Resume(d, f, u)
      BY <2>3 DEF TruncateChangeLog
    <3>5. TruncationSafe'
      BY <1>t, <3>2, <3>3, <3>4, OtherTaskSafe, TruncationSafeStep DEF LogInv
    <3> QED
      BY <1>t, <3>1, <3>5 DEF LogInv
  <2>4. CASE ApplyIncoming(d, f)
    <3>1. t.entry.change \in Change
      BY <2>4, <2>t, TaskFields DEF ApplyIncoming, At, Entry
    <3>2. LogContiguous' /\ RecordMatchesLog'
      BY <2>4, <3>1, StoreKeepsLog DEF ApplyIncoming
    <3>3. tasks'[d][f].pc = "idle"
      BY <2>4 DEF ApplyIncoming, Resume, Idle, LogInv, TypeOK
    <3>4. /\ \A x \in Devices : seq[x] <= seq'[x]
          /\ \A x \in Devices : \A e \in log'[x] : e \in log[x] \/ e.seq > seq[x]
      BY <2>4, <3>1, StoreGrows DEF ApplyIncoming, LogInv
    <3>5. now <= now' /\ \E u : Resume(d, f, u)
      BY <2>4 DEF ApplyIncoming, LogInv, TypeOK
    <3>6. TruncationSafe'
      BY <1>t, <3>3, <3>4, <3>5, OtherTaskSafe, TruncationSafeStep DEF LogInv
    <3> QED
      BY <1>t, <3>2, <3>6 DEF LogInv
  <2>5. CASE \/ Broadcast(d, f) \/ SyncLatest(d, f) \/ SyncMin(d, f)
             \/ SyncEntries(d, f) \/ SyncDump(d, f)
    <3>1. UNCHANGED <<now, records, log, seq>> /\ \E u : Resume(d, f, u)
      BY <2>5 DEF Broadcast, SyncLatest, SyncMin, SyncEntries, SyncDump
    <3>2. tasks'[d][f].pc \notin {"retain", "retainMin", "truncate"}
      <4>1. CASE Resume(d, f, Idle)
        BY <4>1 DEF Resume, Idle, LogInv, TypeOK
      <4>2. ASSUME NEW pc \in {"syncMin", "syncDump"},
                   t.pc \in {"syncLatest", "syncMin"}, Resume(d, f, [t EXCEPT !.pc = pc])
            PROVE  tasks'[d][f].pc = pc
        <5>1. t = [pc |-> t.pc, peer |-> t.peer, peerSeq |-> t.peerSeq]
          BY <2>t, <4>2, TaskFields
        <5>2. [t EXCEPT !.pc = pc].pc = pc
          BY <5>1
        <5> QED
          BY <4>2, <5>2 DEF Resume, LogInv, TypeOK
      <4>3. ASSUME NEW m \in 0..seq[d],
                   Resume(d, f, [pc |-> "syncEntries", peer |-> t.peer, peerSeq |-> t.peerSeq,
                                 min |-> m])
            PROVE  tasks'[d][f].pc = "syncEntries"
        BY <4>3 DEF Resume, LogInv, TypeOK
      <4> QED
        BY <2>5, <4>1, <4>2, <4>3 DEF Broadcast, SyncLatest, SyncMin, SyncEntries, SyncDump, At
    <3> QED
      BY <1>t, <3>1, <3>2, OtherTaskSafe, ReadOnlyLog
  <2> QED
    BY <1>7, <2>1, <2>2, <2>3, <2>4, <2>5 DEF Progress
<1>8. ASSUME NEW d \in Devices, Restart(d)
      PROVE  LogInv'
  <2>1. LogContiguous' /\ RecordMatchesLog'
    BY <1>8 DEF Restart, LogInv, LogContiguous, RecordMatchesLog, LastFor
  <2>2. UNCHANGED <<now, seq, log>>
    BY <1>8 DEF Restart
  <2>3. ASSUME NEW x \in Devices, NEW g \in Fibers
        PROVE  SafeTask(x, tasks[x][g])'
    <3>1. tasks'[x][g] = Idle \/ tasks'[x][g] = tasks[x][g]
      BY <1>8 DEF Restart, LogInv, TypeOK
    <3>2. CASE tasks'[x][g] = Idle
      BY <3>2 DEF SafeTask, Idle
    <3>3. CASE tasks'[x][g] = tasks[x][g]
      BY <2>2, <3>3 DEF LogInv, TruncationSafe, SafeTask, Droppable, Clock
    <3> QED
      BY <3>1, <3>2, <3>3
  <2>4. TruncationSafe'
    BY <2>3 DEF TruncationSafe
  <2> QED
    BY <1>t, <2>1, <2>4 DEF LogInv
<1> QED
  BY <1>1, <1>2, <1>3, <1>4, <1>5, <1>6, <1>7, <1>8 DEF Next

\* The log invariants hold together in every reachable state.
LEMMA LogInvariant ==
  ASSUME NoWrap
  PROVE  Spec => []LogInv
<1>1. Init => LogInv
  BY DEF Init, LogInv, TypeOK, Record, Absent, Task, Idle, LogContiguous,
         RecordMatchesLog, TruncationSafe, SafeTask
<1>2. LogInv /\ [Next]_vars => LogInv'
  BY LogStep
<1> QED
  BY <1>1, <1>2, PTL DEF Spec

\* The change log of every device is a gap-free run of sequence numbers ending
\* at the last one assigned, however concurrent puts interleave their retention.
THEOREM LogIsContiguous ==
  ASSUME NoWrap
  PROVE  Spec => []LogContiguous
  BY LogInvariant, PTL DEF LogInv

\* The last log entry about a key always describes the record stored for it.
THEOREM LogDescribesRecords ==
  ASSUME NoWrap
  PROVE  Spec => []RecordMatchesLog
  BY LogInvariant, PTL DEF LogInv

\* A truncation point computed by enforceRetention stays safe until it is used.
THEOREM TruncationIsSafe ==
  ASSUME NoWrap
  PROVE  Spec => []TruncationSafe
  BY LogInvariant, PTL DEF LogInv

\* Retention never drops an entry the policy does not let go.
THEOREM RetentionIsSafe ==
  ASSUME NoWrap
  PROVE  Spec => RetentionSafe
<1>1. ASSUME LogInv, [Next]_vars
      PROVE  [\A d \in Devices : \A e \in log[d] \ log'[d] : Droppable(d, e)]_vars
  <2> SUFFICES ASSUME NEW d \in Devices, NEW e \in log[d], e \notin log'[d]
               PROVE  Droppable(d, e)
    OBVIOUS
  <2>0. log' # log
    OBVIOUS
  <2>s. ASSUME NEW x \in Devices, NEW c, Store(x, c) PROVE FALSE
    <3>1. log' = [log EXCEPT ![x] = @ \cup {[seq |-> seq[x] + 1, change |-> c]}]
      BY <2>s DEF Store
    <3> QED
      BY <1>1, <3>1 DEF LogInv, TypeOK
  <2>1. PICK x \in Devices, f \in Fibers : TruncateChangeLog(x, f)
    <3>1. PICK x \in Devices, f \in Fibers : Progress(x, f)
      BY <1>1, <2>0, <2>s DEF Next, vars, Tick, Restart, Put, Delete, LocalWrite, SyncWith,
                              HandleIncoming
    <3> QED
      BY <2>0, <2>s, <3>1 DEF Progress, EnforceRetention, CountRetention, Broadcast,
                              ApplyIncoming, SyncLatest, SyncMin, SyncEntries, SyncDump
  <2>2. tasks[x][f] \in Task /\ tasks[x][f].pc = "truncate" /\ SafeTask(x, tasks[x][f])
    BY <1>1, <2>1 DEF TruncateChangeLog, At, LogInv, TypeOK, TruncationSafe
  <2>3. x = d /\ e.seq < tasks[x][f].cut
    <3>1. tasks[x][f].cut \in Int /\ e.seq \in Nat
      BY <1>1, <2>2, TaskFields DEF LogInv, TypeOK, Entry
    <3> QED
      BY <1>1, <2>1, <3>1 DEF TruncateChangeLog, Truncated, LogInv, TypeOK
  <2> QED
    BY <2>2, <2>3 DEF SafeTask
<1> QED
  BY <1>1, LogInvariant, PTL DEF Spec, RetentionSafe

-----------------------------------------------------------------------------
(* Incremental sync.  What syncWith compared holds until the entries are read *)
(* as far as the log is not truncated.                                        *)

\* what syncWith in task t has found out about device d
SyncSeen(d, t) ==
  /\ t.pc = "syncMin" => t.peerSeq < seq[d]
  /\ t.pc = "syncEntries" => t.min \in 1..t.peerSeq

SyncsSeen == \A d \in Devices, f \in Fibers : SyncSeen(d, tasks[d][f])

\* a step of one fiber keeps what the others have found out, as sequence numbers grow
LEMMA SyncSeenStep ==
  ASSUME TypeOK, SyncsSeen, NEW x \in Devices, NEW g \in Fibers, \E t : Resume(x, g, t),
         \A d \in Devices : seq[d] <= seq'[d] /\ seq'[d] \in Nat, SyncSeen(x, tasks[x][g])'
  PROVE  SyncsSeen'
<1> SUFFICES ASSUME NEW d \in Devices, NEW f \in Fibers
             PROVE  SyncSeen(d, tasks[d][f])'
  BY DEF SyncsSeen
<1>1. CASE d = x /\ f = g
  BY <1>1
<1>2. CASE d # x \/ f # g
  <2>1. tasks'[d][f] = tasks[d][f] /\ tasks[d][f] \in Task
    BY <1>2 DEF Resume, TypeOK
  <2>2. tasks[d][f].pc = "syncMin" => tasks[d][f].peerSeq \in Nat
    BY <2>1, TaskFields
  <2>3. SyncSeen(d, tasks[d][f]) /\ seq[d] \in Nat
    BY DEF SyncsSeen, TypeOK
  <2> QED
    BY <2>1, <2>2, <2>3 DEF SyncSeen
<1> QED
  BY <1>1, <1>2

LEMMA SyncStep ==
  ASSUME LogInv, SyncsSeen, [Next]_vars
  PROVE  SyncsSeen'
<1>t. TypeOK
  BY DEF LogInv
<1>1. CASE UNCHANGED vars \/ Tick
  BY <1>1 DEF vars, Tick, SyncsSeen, SyncSeen
<1>2. ASSUME NEW x \in Devices, Restart(x)
      PROVE  SyncsSeen'
  <2>1. \A d \in Devices, f \in Fibers : tasks'[d][f] = Idle \/ tasks'[d][f] = tasks[d][f]
    BY <1>t, <1>2 DEF Restart, TypeOK
  <2>2. seq' = seq
    BY <1>2 DEF Restart
  <2> QED
    BY <2>1, <2>2 DEF SyncsSeen, SyncSeen, Idle
<1>3. ASSUME NEW x \in Devices, NEW g \in Fibers,
             \/ \E k \in Keys, b \in Bodies : Put(x, g, k, b)
             \/ \E k \in Keys : Delete(x, g, k)
             \/ \E p \in Devices \ {x}, s \in 0..seq[x] : SyncWith(x, g, p, s)
             \/ \E m \in net : HandleIncoming(x, g, m)
             \/ Progress(x, g)
      PROVE  SyncsSeen'
  <2> DEFINE t == tasks[x][g]
  <2>t. t \in Task /\ SyncSeen(x, t)
    BY <1>t DEF TypeOK, SyncsSeen
  <2>1. \A d \in Devices : seq[d] <= seq'[d] /\ seq'[d] \in Nat
    <3>1. seq' = seq \/ seq' = [seq EXCEPT ![x] = @ + 1]
      <4>1. CASE Progress(x, g)
        BY <4>1 DEF Progress, EnforceRetention, CountRetention, TruncateChangeLog, Broadcast,
                    ApplyIncoming, SyncLatest, SyncMin, SyncEntries, SyncDump, Store
      <4>2. CASE ~Progress(x, g)
        BY <1>3, <4>2 DEF Put, Delete, LocalWrite, SyncWith, HandleIncoming, Store
      <4> QED
        BY <4>1, <4>2
    <3> QED
      BY <1>t, <3>1 DEF TypeOK
  <2>2. CASE SyncLatest(x, g)
    <3>1. CASE Resume(x, g, Idle)
      <4>1. tasks'[x][g].pc = "idle"
        BY <1>t, <3>1 DEF Resume, Idle, TypeOK
      <4>2. SyncSeen(x, tasks[x][g])'
        BY <4>1 DEF SyncSeen
      <4> QED
        BY <1>t, <2>1, <3>1, <4>2, SyncSeenStep
    <3>2. CASE ~(t.peerSeq >= seq[x]) /\ Resume(x, g, [t EXCEPT !.pc = "syncMin"])
      <4>1. t = [pc |-> t.pc, peer |-> t.peer, peerSeq |-> t.peerSeq] /\ t.peerSeq \in Nat
        BY <2>t, <2>2, TaskFields DEF SyncLatest, At
      <4>2. tasks'[x][g] = [pc |-> "syncMin", peer |-> t.peer, peerSeq |-> t.peerSeq]
        BY <1>t, <3>2, <4>1 DEF Resume, TypeOK
      <4>3. t.peerSeq < seq[x] /\ seq' = seq
        BY <1>t, <2>2, <3>2, <4>1 DEF SyncLatest, TypeOK
      <4>4. SyncSeen(x, tasks[x][g])'
        BY <4>2, <4>3 DEF SyncSeen
      <4> QED
        BY <1>t, <2>1, <3>2, <4>4, SyncSeenStep
    <3> QED
      BY <2>2, <3>1, <3>2 DEF SyncLatest
  <2>3. CASE SyncMin(x, g)
    <3>1. /\ t = [pc |-> t.pc, peer |-> t.peer, peerSeq |-> t.peerSeq] /\ t.peerSeq \in Nat
          /\ t.peerSeq < seq[x] /\ seq[x] \in Nat
      BY <1>t, <2>t, <2>3, TaskFields DEF SyncMin, At, SyncSeen, TypeOK
    <3>2. PICK m \in 0..seq[x] :
            /\ IsMinSeq(x, m)
            /\ Resume(x, g, IF Gap(t.peerSeq, m)
                            THEN [t EXCEPT !.pc = "syncDump"]
                            ELSE [pc |-> "syncEntries", peer |-> t.peer, peerSeq |-> t.peerSeq,
                                  min |-> m])
      BY <2>3 DEF SyncMin
    <3>3. m > 0 /\ m \in Nat
      <4>1. /\ seq[x] > 0 => \E e \in log[x] : e.seq = seq[x]
            /\ \A e \in log[x] : e.seq \in 1..seq[x]
        BY DEF LogInv, LogContiguous
      <4> QED
        BY <3>1, <3>2, <4>1 DEF IsMinSeq
    <3>4. CASE Gap(t.peerSeq, m)
      <4>1. tasks'[x][g] = [t EXCEPT !.pc = "syncDump"]
        BY <1>t, <3>2, <3>4 DEF Resume, TypeOK
      <4>2. tasks'[x][g].pc = "syncDump"
        BY <3>1, <4>1
      <4>3. SyncSeen(x, tasks[x][g])'
        BY <4>2 DEF SyncSeen
      <4> QED
        BY <1>t, <2>1, <3>2, <4>3, SyncSeenStep
    <3>5. CASE ~Gap(t.peerSeq, m)
      <4>1. tasks'[x][g] = [pc |-> "syncEntries", peer |-> t.peer, peerSeq |-> t.peerSeq,
                            min |-> m]
        BY <1>t, <3>2, <3>5 DEF Resume, TypeOK
      <4>2. m \in 1..t.peerSeq
        BY <3>1, <3>3, <3>5 DEF Gap
      <4>3. SyncSeen(x, tasks[x][g])'
        BY <4>1, <4>2 DEF SyncSeen
      <4> QED
        BY <1>t, <2>1, <3>2, <4>3, SyncSeenStep
    <3> QED
      BY <3>4, <3>5
  <2>4. CASE ~SyncLatest(x, g) /\ ~SyncMin(x, g)
    <3>1. \/ UNCHANGED tasks
          \/ \E u : Resume(x, g, u) /\ u.pc \notin {"syncMin", "syncEntries"}
      <4>1. CASE Progress(x, g)
        <5>1. CASE EnforceRetention(x, g)
          <6>1. \E u : Resume(x, g, u) /\ u.pc \in {"broadcast", "truncate", "retainMin"}
            <7> DEFINE e == t.entry
                       kept == {y \in ChangesSince(x, 0) : y.change.ts >= Cutoff(e)}
            <7>1. CASE Resume(x, g, [pc |-> "broadcast", entry |-> e])
              BY <7>1
            <7>2. ASSUME NEW first \in kept,
                         Resume(x, g, [pc |-> "truncate", entry |-> e, cut |-> first.seq])
                  PROVE  \E u : Resume(x, g, u) /\ u.pc \in {"broadcast", "truncate", "retainMin"}
              BY <7>2
            <7>3. CASE Resume(x, g, [pc |-> "retainMin", entry |-> e, latest |-> seq[x]])
              BY <7>3
            <7> QED
              BY <5>1, <7>1, <7>2, <7>3 DEF EnforceRetention
          <6> QED
            BY <6>1
        <5>2. CASE CountRetention(x, g)
          BY <5>2 DEF CountRetention
        <5>3. CASE TruncateChangeLog(x, g)
          BY <5>3 DEF TruncateChangeLog
        <5>4. CASE Broadcast(x, g) \/ ApplyIncoming(x, g) \/ SyncEntries(x, g) \/ SyncDump(x, g)
          <6>1. Resume(x, g, Idle) /\ Idle.pc = "idle"
            BY <5>4 DEF Broadcast, ApplyIncoming, SyncEntries, SyncDump, Idle
          <6> QED
            BY <6>1
        <5> QED
          BY <2>4, <4>1, <5>1, <5>2, <5>3, <5>4 DEF Progress
      <4>2. CASE \E k \in Keys, b \in Bodies : Put(x, g, k, b)
        BY <4>2 DEF Put, LocalWrite
      <4>3. CASE \E k \in Keys : Delete(x, g, k)
        BY <4>3 DEF Delete, LocalWrite
      <4>4. CASE \E p \in Devices \ {x}, s \in 0..seq[x] : SyncWith(x, g, p, s)
        BY <4>4 DEF SyncWith
      <4>5. CASE \E m \in net : HandleIncoming(x, g, m)
        BY <4>5 DEF HandleIncoming
      <4> QED
        BY <1>3, <4>1, <4>2, <4>3, <4>4, <4>5
    <3>2. CASE UNCHANGED tasks
      <4>1. Resume(x, g, tasks[x][g])
        BY <1>t, <3>2 DEF Resume, TypeOK
      <4>2. SyncSeen(x, tasks[x][g])'
        <5>1. t.pc = "syncMin" => t.peerSeq \in Nat
          BY <2>t, TaskFields
        <5> QED
          BY <1>t, <2>t, <2>1, <3>2, <5>1 DEF SyncSeen, TypeOK
      <4> QED
        BY <1>t, <2>1, <4>1, <4>2, SyncSeenStep
    <3>3. ASSUME NEW u, Resume(x, g, u), u.pc \notin {"syncMin", "syncEntries"}
          PROVE  SyncsSeen'
      <4>1. tasks'[x][g] = u
        BY <1>t, <3>3 DEF Resume, TypeOK
      <4>2. SyncSeen(x, tasks[x][g])'
        BY <3>3, <4>1 DEF SyncSeen
      <4> QED
        BY <1>t, <2>1, <3>3, <4>2, SyncSeenStep
    <3> QED
      BY <3>1, <3>2, <3>3
  <2> QED
    BY <2>2, <2>3, <2>4
<1> QED
  BY <1>1, <1>2, <1>3 DEF Next

\* An incremental sync leaves out an entry only if the log was truncated after minSeq was read
\* (devicesync.ts:249-266), whatever other calls of the device overlap the sync.
THEOREM GapsAreFound ==
  ASSUME NoWrap
  PROVE  Spec => GapOnlyByTruncation
<1>1. Init => SyncsSeen
  BY DEF Init, SyncsSeen, SyncSeen, Idle
<1>2. LogInv /\ SyncsSeen /\ [Next]_vars => SyncsSeen'
  BY SyncStep
<1>3. ASSUME LogInv, SyncsSeen, NEW d \in Devices, NEW f \in Fibers,
             SyncEntries(d, f), IsMinSeq(d, tasks[d][f].min)
      PROVE  \A s \in (tasks[d][f].peerSeq + 1)..seq[d] :
               \E e \in log[d] : e.seq = s /\ [to |-> tasks[d][f].peer, entry |-> e] \in net'
  <2> DEFINE t == tasks[d][f]
  <2> SUFFICES ASSUME NEW s \in (t.peerSeq + 1)..seq[d]
               PROVE  \E e \in log[d] : e.seq = s /\ [to |-> t.peer, entry |-> e] \in net'
    OBVIOUS
  <2>1. t \in Task /\ t.pc = "syncEntries" /\ t.peerSeq \in Nat /\ seq[d] \in Nat
    BY <1>3, TaskFields DEF SyncEntries, At, LogInv, TypeOK
  <2>2. t.min \in 1..t.peerSeq
    BY <1>3, <2>1 DEF SyncsSeen, SyncSeen
  <2>3. PICK x \in log[d] : x.seq = t.min
    BY <1>3, <2>2 DEF IsMinSeq
  <2>4. \A n \in x.seq..seq[d] : \E e \in log[d] : e.seq = n
    BY <1>3 DEF LogInv, LogContiguous
  <2>5. PICK e \in log[d] : e.seq = s
    BY <2>1, <2>2, <2>3, <2>4
  <2>6. e \in ChangesSince(d, t.peerSeq)
    BY <2>1, <2>5 DEF ChangesSince
  <2>7. [to |-> t.peer, entry |-> e] \in net'
    BY <1>3, <2>6 DEF SyncEntries
  <2> QED
    BY <2>5, <2>7
<1>4. LogInv /\ SyncsSeen /\ [Next]_vars =>
        [\A d \in Devices, f \in Fibers :
           SyncEntries(d, f) /\ IsMinSeq(d, tasks[d][f].min) =>
             \A s \in (tasks[d][f].peerSeq + 1)..seq[d] :
               \E e \in log[d] : e.seq = s /\ [to |-> tasks[d][f].peer, entry |-> e] \in net']_vars
  BY <1>3
<1> QED
  BY <1>1, <1>2, <1>4, LogInvariant, PTL DEF Spec, GapOnlyByTruncation

-----------------------------------------------------------------------------
(* Where puts go *)

Accounted(c, d) ==
  \/ records[d][c.key].ts >= c.ts
  \/ Coming(c, d)
  \/ <<c, d>> \in lost
  \/ <<c, d>> \in undone

\* a record that was there is there, or newer, or has been undone
LEMMA StoreHeld ==
  ASSUME TypeOK, NEW x \in Devices, NEW n \in Change, Store(x, n),
         NEW c \in issued, c.op = "put", NEW d \in Devices,
         records[d][c.key].ts >= c.ts
  PROVE  records'[d][c.key].ts >= c.ts \/ <<c, d>> \in undone'
<1>1. c \in Change /\ c.key \in Keys /\ c.ts \in Nat /\ n.key \in Keys /\ n.ts \in Nat
  BY DEF TypeOK, Change
<1>2. RecordOf(n).ts \in Nat
  BY <1>1 DEF RecordOf, Absent
<1>3. CASE d = x /\ c.key = n.key
  <2>1. records'[d][c.key] = RecordOf(n)
    BY <1>1, <1>3 DEF Store, TypeOK
  <2>2. records[d][c.key].ts \in Nat
    BY <1>1 DEF TypeOK, Record
  <2>3. CASE RecordOf(n).ts < c.ts
    <3>1. <<c, d>> \in Undone(d, n.key, RecordOf(n).ts)
      BY <1>1, <1>3, <2>2, <2>3 DEF Undone
    <3> QED
      BY <1>3, <3>1 DEF Store
  <2>4. CASE RecordOf(n).ts >= c.ts
    BY <2>1, <2>4
  <2> QED
    BY <1>1, <1>2, <2>3, <2>4
<1>4. CASE ~(d = x /\ c.key = n.key)
  <2>1. records'[d][c.key] = records[d][c.key]
    BY <1>1, <1>4 DEF Store, TypeOK
  <2> QED
    BY <2>1
<1> QED
  BY <1>3, <1>4

\* a change that is coming still is after a step of a fiber that had no change of its own, or
\* goes on with it
LEMMA ComingKept ==
  ASSUME TypeOK, NEW x \in Devices, NEW g \in Fibers, NEW u, Resume(x, g, u), net \subseteq net',
         \/ tasks[x][g].pc \notin Sending \cup {"apply"}
         \/ /\ tasks[x][g].pc \in Sending /\ u.pc \in Sending
            /\ u.entry = tasks[x][g].entry,
         NEW c, NEW d \in Devices, Coming(c, d)
  PROVE  Coming(c, d)'
<1>1. /\ tasks'[x][g] = u
      /\ \A e \in Devices, f \in Fibers : (e # x \/ f # g) => tasks'[e][f] = tasks[e][f]
  BY DEF Resume, TypeOK
<1>2. CASE \E m \in net : m.to = d /\ m.entry.change = c
  BY <1>2 DEF Coming
<1>3. ASSUME NEW f \in Fibers, At(d, f, "apply"), tasks[d][f].entry.change = c
      PROVE  Coming(c, d)'
  <2>1. ~(d = x /\ f = g)
    BY <1>3 DEF At, Sending
  <2>2. tasks'[d][f] = tasks[d][f]
    BY <1>1, <2>1
  <2> QED
    BY <1>3, <2>2 DEF Coming, At
<1>4. ASSUME NEW e \in Devices \ {d}, NEW f \in Fibers, tasks[e][f].pc \in Sending,
             tasks[e][f].entry.change = c
      PROVE  Coming(c, d)'
  <2>1. CASE e = x /\ f = g
    <3>1. tasks'[e][f] = u /\ u.pc \in Sending /\ u.entry.change = c
      BY <1>1, <1>4, <2>1
    <3> QED
      BY <3>1 DEF Coming
  <2>2. CASE e # x \/ f # g
    <3>1. tasks'[e][f] = tasks[e][f]
      BY <1>1, <2>2
    <3> QED
      BY <1>4, <3>1 DEF Coming
  <2> QED
    BY <2>1, <2>2
<1> QED
  BY <1>2, <1>3, <1>4 DEF Coming

\* a local write: the change is stored here and is to be broadcast
LEMMA WriteAccounted ==
  ASSUME TypeOK, PutAccounted, NEW x \in Devices, NEW g \in Fibers, NEW n \in Change,
         At(x, g, "idle"), NEW pc \in Sending, LocalWrite(x, g, n, pc)
  PROVE  PutAccounted'
<1> SUFFICES ASSUME NEW c \in issued', NEW d \in Devices, c.op = "put"
             PROVE  Accounted(c, d)'
  BY DEF PutAccounted, Accounted
<1> DEFINE u == [pc |-> pc, entry |-> [seq |-> seq[x] + 1, change |-> n]]
<1>1. /\ Store(x, n) /\ Resume(x, g, u) /\ net' = net /\ lost' = lost
      /\ undone \subseteq undone'
  BY DEF LocalWrite, Store
<1>2. CASE c \in issued
  <2>1. Accounted(c, d)
    BY <1>2 DEF PutAccounted, Accounted
  <2>2. CASE records[d][c.key].ts >= c.ts
    BY <1>1, <1>2, <2>2, StoreHeld DEF Accounted
  <2>3. CASE Coming(c, d)
    <3>1. tasks[x][g].pc \notin Sending \cup {"apply"}
      BY DEF At, Sending
    <3> QED
      BY <1>1, <2>3, <3>1, ComingKept DEF Accounted
  <2>4. CASE <<c, d>> \in lost \/ <<c, d>> \in undone
    BY <1>1, <2>4 DEF Accounted
  <2> QED
    BY <2>1, <2>2, <2>3, <2>4 DEF Accounted
<1>3. CASE c = n
  <2>1. CASE d = x
    <3>1. n.key \in Keys /\ n.ts \in Nat
      BY DEF Change
    <3>2. records'[d][c.key] = RecordOf(n)
      BY <1>1, <1>3, <2>1, <3>1 DEF Store, TypeOK
    <3>3. records'[d][c.key].ts = c.ts
      BY <1>3, <3>2 DEF RecordOf
    <3> QED
      BY <1>3, <3>1, <3>3 DEF Accounted
  <2>2. CASE d # x
    <3>1. tasks'[x][g] = u
      BY <1>1 DEF Resume, TypeOK
    <3>2. Coming(c, d)'
      BY <1>3, <2>2, <3>1 DEF Coming
    <3> QED
      BY <3>2 DEF Accounted
  <2> QED
    BY <2>1, <2>2
<1> QED
  BY <1>2, <1>3 DEF LocalWrite

LEMMA AccountedStep ==
  ASSUME TypeOK, PutAccounted, [Next]_vars
  PROVE  PutAccounted'
<1> USE ConstantsAssumption
<1>1. CASE UNCHANGED vars \/ Tick
  BY <1>1 DEF vars, Tick, PutAccounted, Coming, At
<1>2. ASSUME NEW x \in Devices, NEW g \in Fibers, NEW k \in Keys, NEW b \in Bodies,
             Put(x, g, k, b)
      PROVE  PutAccounted'
  <2>1. [key |-> k, op |-> "put", body |-> b, ts |-> Clock(x)] \in Change
    BY DEF Change, Op, Clock, TypeOK
  <2>2. At(x, g, "idle") /\ "retain" \in Sending
    BY <1>2 DEF Put, Call, Sending
  <2> QED
    BY <1>2, <2>1, <2>2, WriteAccounted DEF Put
<1>3. ASSUME NEW x \in Devices, NEW g \in Fibers, NEW k \in Keys, Delete(x, g, k)
      PROVE  PutAccounted'
  <2>1. [key |-> k, op |-> "delete", body |-> NoBody, ts |-> Clock(x)] \in Change
    BY DEF Change, Op, Clock, TypeOK
  <2>2. At(x, g, "idle") /\ "broadcast" \in Sending
    BY <1>3 DEF Delete, Call, Sending
  <2> QED
    BY <1>3, <2>1, <2>2, WriteAccounted DEF Delete
<1>4. ASSUME NEW x \in Devices, Restart(x)
      PROVE  PutAccounted'
  <2> SUFFICES ASSUME NEW c \in issued, NEW d \in Devices, c.op = "put"
               PROVE  Accounted(c, d)'
    BY <1>4 DEF Restart, PutAccounted, Accounted
  <2>1. /\ records' = records /\ net' = net /\ undone' = undone
        /\ lost' = lost \cup UNION {CutOff(x, tasks[x][f]) : f \in Fibers}
        /\ \A e \in Devices \ {x}, f \in Fibers : tasks'[e][f] = tasks[e][f]
    BY <1>4 DEF Restart, TypeOK
  <2>2. Accounted(c, d)
    BY DEF PutAccounted, Accounted
  <2>3. ASSUME NEW f \in Fibers, At(d, f, "apply"), tasks[d][f].entry.change = c
        PROVE  Accounted(c, d)'
    <3>1. CASE d = x
      <4>1. <<c, d>> \in CutOff(x, tasks[x][f])
        BY <2>3, <3>1 DEF CutOff, At, Sending
      <4> QED
        BY <2>1, <4>1 DEF Accounted
    <3>2. CASE d # x
      <4>1. tasks'[d][f] = tasks[d][f]
        BY <2>1, <3>2
      <4> QED
        BY <2>3, <4>1 DEF Accounted, Coming, At
    <3> QED
      BY <3>1, <3>2
  <2>4. ASSUME NEW e \in Devices \ {d}, NEW f \in Fibers, tasks[e][f].pc \in Sending,
               tasks[e][f].entry.change = c
        PROVE  Accounted(c, d)'
    <3>1. CASE e = x
      <4>1. <<c, d>> \in CutOff(x, tasks[x][f])
        BY <2>4, <3>1 DEF CutOff
      <4> QED
        BY <2>1, <4>1 DEF Accounted
    <3>2. CASE e # x
      <4>1. tasks'[e][f] = tasks[e][f]
        BY <2>1, <3>2
      <4> QED
        BY <2>4, <4>1 DEF Accounted, Coming
    <3> QED
      BY <3>1, <3>2
  <2>5. CASE \/ records[d][c.key].ts >= c.ts \/ <<c, d>> \in lost \/ <<c, d>> \in undone
             \/ \E m \in net : m.to = d /\ m.entry.change = c
    BY <2>1, <2>5 DEF Accounted, Coming
  <2> QED
    BY <2>2, <2>3, <2>4, <2>5 DEF Accounted, Coming
<1>5. ASSUME NEW x \in Devices, NEW g \in Fibers, NEW m \in net, HandleIncoming(x, g, m)
      PROVE  PutAccounted'
  <2> SUFFICES ASSUME NEW c \in issued, NEW d \in Devices, c.op = "put"
               PROVE  Accounted(c, d)'
    BY <1>5 DEF HandleIncoming, PutAccounted, Accounted
  <2>1. /\ records' = records /\ lost' = lost /\ undone' = undone /\ net' = net \ {m}
        /\ At(x, g, "idle") /\ m.to = x
    BY <1>5 DEF HandleIncoming
  <2>2. \A e \in Devices, f \in Fibers : ~At(e, f, "idle") => tasks'[e][f] = tasks[e][f]
    <3>1. CASE UNCHANGED tasks
      BY <3>1
    <3>2. ASSUME NEW u, Resume(x, g, u)
          PROVE  \A e \in Devices, f \in Fibers : ~At(e, f, "idle") => tasks'[e][f] = tasks[e][f]
      BY <2>1, <3>2 DEF Resume, At, TypeOK
    <3> QED
      BY <1>5, <3>1, <3>2 DEF HandleIncoming
  <2>3. CASE m.to = d /\ m.entry.change = c
    <3>1. CASE Stale(m.entry.change, GetTimestamp(x, m.entry.change.key))
      <4>1. c.ts <= records[d][c.key].ts
        BY <2>1, <2>3, <3>1 DEF Stale, GetTimestamp
      <4>2. c.ts \in Nat /\ records[d][c.key].ts \in Nat
        BY DEF TypeOK, Change, Record
      <4> QED
        BY <2>1, <4>1, <4>2 DEF Accounted
    <3>2. CASE ~Stale(m.entry.change, GetTimestamp(x, m.entry.change.key))
      <4>1. tasks'[x][g] = [pc |-> "apply", entry |-> m.entry]
        BY <1>5, <3>2 DEF HandleIncoming, Resume, TypeOK
      <4>2. Coming(c, d)'
        BY <2>1, <2>3, <4>1 DEF Coming, At
      <4> QED
        BY <4>2 DEF Accounted
    <3> QED
      BY <3>1, <3>2
  <2>4. CASE ~(m.to = d /\ m.entry.change = c)
    <3>1. Accounted(c, d)
      BY DEF PutAccounted, Accounted
    <3>2. Coming(c, d) => Coming(c, d)'
      BY <2>1, <2>2, <2>4 DEF Coming, At, Sending
    <3> QED
      BY <2>1, <3>1, <3>2 DEF Accounted
  <2> QED
    BY <2>3, <2>4
<1>6. ASSUME NEW x \in Devices, NEW g \in Fibers, Broadcast(x, g)
      PROVE  PutAccounted'
  <2> SUFFICES ASSUME NEW c \in issued, NEW d \in Devices, c.op = "put"
               PROVE  Accounted(c, d)'
    BY <1>6 DEF Broadcast, PutAccounted, Accounted
  <2> DEFINE n == tasks[x][g].entry
  <2>1. PICK reached \in SUBSET (Devices \ {x}) :
          /\ net' = net \cup {[to |-> p, entry |-> n] : p \in reached}
          /\ lost' = lost \cup ({n.change} \X ((Devices \ {x}) \ reached))
    BY <1>6 DEF Broadcast
  <2>2. /\ records' = records /\ undone' = undone /\ At(x, g, "broadcast")
        /\ \A e \in Devices, f \in Fibers : (e # x \/ f # g) => tasks'[e][f] = tasks[e][f]
    BY <1>6 DEF Broadcast, Resume, TypeOK
  <2>3. CASE c = n.change /\ d # x
    <3>1. CASE d \in reached
      <4>1. [to |-> d, entry |-> n] \in net'
        BY <2>1, <3>1
      <4>2. [to |-> d, entry |-> n].to = d /\ [to |-> d, entry |-> n].entry.change = c
        BY <2>3
      <4>3. Coming(c, d)'
        BY <4>1, <4>2 DEF Coming
      <4> QED
        BY <4>3 DEF Accounted
    <3>2. CASE d \notin reached
      BY <2>1, <2>3, <3>2 DEF Accounted
    <3> QED
      BY <3>1, <3>2
  <2>4. CASE ~(c = n.change /\ d # x)
    <3>1. Accounted(c, d)
      BY DEF PutAccounted, Accounted
    <3>2. ASSUME Coming(c, d) PROVE Coming(c, d)'
      <4>1. CASE \E y \in net : y.to = d /\ y.entry.change = c
        BY <2>1, <4>1 DEF Coming
      <4>2. ASSUME NEW f \in Fibers, At(d, f, "apply"), tasks[d][f].entry.change = c
            PROVE  Coming(c, d)'
        <5>1. tasks'[d][f] = tasks[d][f]
          BY <2>2, <4>2 DEF At
        <5> QED
          BY <4>2, <5>1 DEF Coming, At
      <4>3. ASSUME NEW e \in Devices \ {d}, NEW f \in Fibers, tasks[e][f].pc \in Sending,
                   tasks[e][f].entry.change = c
            PROVE  Coming(c, d)'
        <5>1. tasks'[e][f] = tasks[e][f]
          BY <2>2, <2>4, <4>3
        <5> QED
          BY <4>3, <5>1 DEF Coming
      <4> QED
        BY <3>2, <4>1, <4>2, <4>3 DEF Coming
    <3> QED
      BY <2>1, <2>2, <3>1, <3>2 DEF Accounted
  <2> QED
    BY <2>3, <2>4
<1>7. ASSUME NEW x \in Devices, NEW g \in Fibers, ApplyIncoming(x, g)
      PROVE  PutAccounted'
  <2> SUFFICES ASSUME NEW c \in issued, NEW d \in Devices, c.op = "put"
               PROVE  Accounted(c, d)'
    BY <1>7 DEF ApplyIncoming, PutAccounted, Accounted
  <2> DEFINE n == tasks[x][g].entry.change
  <2>1. n \in Change
    BY <1>7, TaskFields DEF ApplyIncoming, At, TypeOK, Entry
  <2>2. /\ Store(x, n) /\ net' = net /\ lost' = lost /\ undone \subseteq undone'
        /\ At(x, g, "apply")
        /\ \A e \in Devices, f \in Fibers : (e # x \/ f # g) => tasks'[e][f] = tasks[e][f]
    BY <1>7 DEF ApplyIncoming, Store, Resume, TypeOK
  <2>3. CASE c = n /\ d = x
    <3>1. n.key \in Keys /\ n.ts \in Nat
      BY <2>1 DEF Change
    <3>2. records'[d][c.key] = RecordOf(n)
      BY <2>2, <2>3, <3>1 DEF Store, TypeOK
    <3>3. records'[d][c.key].ts = c.ts
      BY <2>3, <3>2 DEF RecordOf
    <3> QED
      BY <2>3, <3>1, <3>3 DEF Accounted
  <2>4. CASE ~(c = n /\ d = x)
    <3>1. Accounted(c, d)
      BY DEF PutAccounted, Accounted
    <3>2. CASE records[d][c.key].ts >= c.ts
      BY <2>1, <2>2, <3>2, StoreHeld DEF Accounted
    <3>3. ASSUME Coming(c, d) PROVE Coming(c, d)'
      <4>1. CASE \E y \in net : y.to = d /\ y.entry.change = c
        BY <2>2, <4>1 DEF Coming
      <4>2. ASSUME NEW f \in Fibers, At(d, f, "apply"), tasks[d][f].entry.change = c
            PROVE  Coming(c, d)'
        <5>1. tasks'[d][f] = tasks[d][f]
          BY <2>2, <2>4, <4>2
        <5> QED
          BY <4>2, <5>1 DEF Coming, At
      <4>3. ASSUME NEW e \in Devices \ {d}, NEW f \in Fibers, tasks[e][f].pc \in Sending,
                   tasks[e][f].entry.change = c
            PROVE  Coming(c, d)'
        <5>1. tasks'[e][f] = tasks[e][f]
          BY <2>2, <4>3 DEF At, Sending
        <5> QED
          BY <4>3, <5>1 DEF Coming
      <4> QED
        BY <3>3, <4>1, <4>2, <4>3 DEF Coming
    <3> QED
      BY <2>2, <3>1, <3>2, <3>3 DEF Accounted
  <2> QED
    BY <2>3, <2>4
<1>8. ASSUME NEW x \in Devices, NEW g \in Fibers,
             \/ \E p \in Devices \ {x}, s \in 0..seq[x] : SyncWith(x, g, p, s)
             \/ EnforceRetention(x, g) \/ CountRetention(x, g) \/ TruncateChangeLog(x, g)
             \/ SyncLatest(x, g) \/ SyncMin(x, g) \/ SyncEntries(x, g) \/ SyncDump(x, g)
      PROVE  PutAccounted'
  <2>1. /\ records' = records /\ lost' = lost /\ undone' = undone /\ issued' = issued
        /\ net \subseteq net'
    BY <1>8 DEF SyncWith, EnforceRetention, CountRetention, TruncateChangeLog, SyncLatest, SyncMin,
                SyncEntries, SyncDump
  <2>2. \E u : /\ Resume(x, g, u)
               /\ \/ tasks[x][g].pc \notin Sending \cup {"apply"}
                  \/ /\ tasks[x][g].pc \in Sending /\ u.pc \in Sending
                     /\ u.entry = tasks[x][g].entry
    <3>1. CASE EnforceRetention(x, g)
      <4>1. tasks[x][g].pc \in Sending
        BY <3>1 DEF EnforceRetention, At, Sending
      <4> DEFINE e == tasks[x][g].entry
                 kept == {y \in ChangesSince(x, 0) : y.change.ts >= Cutoff(e)}
      <4>2. \E u : Resume(x, g, u) /\ u.pc \in Sending /\ u.entry = e
        <5>1. CASE Resume(x, g, [pc |-> "broadcast", entry |-> e])
          BY <5>1 DEF Sending
        <5>2. ASSUME NEW first \in kept,
                     Resume(x, g, [pc |-> "truncate", entry |-> e, cut |-> first.seq])
              PROVE  \E u : Resume(x, g, u) /\ u.pc \in Sending /\ u.entry = e
          BY <5>2 DEF Sending
        <5>3. CASE Resume(x, g, [pc |-> "retainMin", entry |-> e, latest |-> seq[x]])
          BY <5>3 DEF Sending
        <5> QED
          BY <3>1, <5>1, <5>2, <5>3 DEF EnforceRetention
      <4> QED
        BY <4>1, <4>2
    <3>a. CASE CountRetention(x, g)
      <4>1. tasks[x][g].pc \in Sending
        BY <3>a DEF CountRetention, At, Sending
      <4> QED
        BY <3>a, <4>1 DEF CountRetention, Sending
    <3>b. CASE TruncateChangeLog(x, g)
      <4>1. tasks[x][g].pc \in Sending
        BY <3>b DEF TruncateChangeLog, At, Sending
      <4> QED
        BY <3>b, <4>1 DEF TruncateChangeLog, Sending
    <3>2. CASE \E p \in Devices \ {x}, s \in 0..seq[x] : SyncWith(x, g, p, s)
      BY <3>2 DEF SyncWith, Call, At, Sending
    <3>3. CASE SyncLatest(x, g) \/ SyncMin(x, g) \/ SyncEntries(x, g) \/ SyncDump(x, g)
      BY <3>3 DEF SyncLatest, SyncMin, SyncEntries, SyncDump, At, Sending
    <3> QED
      BY <1>8, <3>1, <3>a, <3>b, <3>2, <3>3
  <2> SUFFICES ASSUME NEW c \in issued, NEW d \in Devices, c.op = "put"
               PROVE  Accounted(c, d)'
    BY <2>1 DEF PutAccounted, Accounted
  <2>3. Accounted(c, d)
    BY DEF PutAccounted, Accounted
  <2>4. Coming(c, d) => Coming(c, d)'
    BY <2>1, <2>2, ComingKept
  <2> QED
    BY <2>1, <2>3, <2>4 DEF Accounted
<1> QED
  BY <1>1, <1>2, <1>3, <1>4, <1>5, <1>6, <1>7, <1>8 DEF Next, Progress

\* A put is accounted for at every device, whatever calls overlap, whatever the clocks show,
\* whatever sends are lost and whenever devices restart (devicesync.ts:171-233, 305-325): it is
\* there, or a newer one; it is coming; it was not sent or was cut off by a restart; or the
\* device had it and wrote over it.
THEOREM PutsAreAccountedFor == Spec => []PutAccounted
<1>1. Init => PutAccounted
  BY DEF Init, PutAccounted
<1>2. TypeOK /\ PutAccounted /\ [Next]_vars => PutAccounted'
  BY AccountedStep
<1> QED
  BY <1>1, <1>2, TypeCorrect, PTL DEF Spec

=============================================================================
