------------------------------ MODULE DaemonProofs ------------------------------
(***************************************************************************)
(* The client implements RpcSpec and leaves no daemon behind, for any      *)
(* number of processes, calls and split lines.                             *)
(***************************************************************************)
EXTENDS Daemon, TLAPS

Statuses == {"unborn", "running", "killed", "exited", "gone"}

Entry == [id : Nat, call : Calls]
Outcomes == {None, Pending, Rejected} \cup {Resolved(c) : c \in Calls}

Elems(q) == {q[i] : i \in 1..Len(q)}

\* the requests and answers that are on their way, and the requests that wait
Known ==
  {r \in Entry : \/ r \in pendingRequests
                 \/ \E p \in Procs : r \in Elems(stdin[p]) \cup Elems(stdout[p])}

Types ==
  /\ daemonProcess \in 0..MaxProcs
  /\ status \in [Procs -> Statuses]
  /\ stdin \in [Procs -> Seq(Entry)] /\ stdout \in [Procs -> Seq(Entry)]
  /\ requestIdCounter \in Nat
  /\ pendingRequests \subseteq Entry
  /\ outcome \in [Calls -> Outcomes]

\* a number stands for one call, that was made
Numbered(lines) ==
  /\ \A r \in lines : r.id <= requestIdCounter /\ outcome[r.call] # None
  /\ \A r, s \in lines : r.id = s.id => r.call = s.call

\* a call that waits is open, under one number
Waiting ==
  /\ \A r \in pendingRequests : outcome[r.call] = Pending
  /\ \A r, s \in pendingRequests : r.call = s.call => r = s

\* the inductive invariant for RpcSpec
IInv == Types /\ Numbered(Known) /\ Waiting

-----------------------------------------------------------------------------
(* Queues of lines *)

LEMMA ElemsAppend ==
  ASSUME NEW S, NEW q \in Seq(S), NEW x \in S
  PROVE  Append(q, x) \in Seq(S) /\ Elems(Append(q, x)) = Elems(q) \cup {x}
<1>1. Append(q, x) \in Seq(S) /\ Len(Append(q, x)) = Len(q) + 1 /\ Len(q) \in Nat
  OBVIOUS
<1>2. \A i \in 1..Len(q) + 1 : Append(q, x)[i] = IF i = Len(q) + 1 THEN x ELSE q[i]
  OBVIOUS
<1>3. \A y : y \in Elems(Append(q, x)) <=> y \in Elems(q) \cup {x}
  <2> SUFFICES ASSUME NEW y
               PROVE  y \in Elems(Append(q, x)) <=> y \in Elems(q) \cup {x}
    OBVIOUS
  <2>1. ASSUME y \in Elems(Append(q, x)) PROVE y \in Elems(q) \cup {x}
    BY <1>1, <1>2, <2>1 DEF Elems
  <2>2. ASSUME y \in Elems(q) PROVE y \in Elems(Append(q, x))
    <3>1. PICK i \in 1..Len(q) : y = q[i]
      BY <2>2 DEF Elems
    <3>2. i \in 1..Len(q) + 1 /\ Append(q, x)[i] = y
      BY <1>1, <1>2, <3>1
    <3> QED
      BY <1>1, <3>2 DEF Elems
  <2>3. x \in Elems(Append(q, x))
    <3>1. Len(q) + 1 \in 1..Len(q) + 1 /\ Append(q, x)[Len(q) + 1] = x
      BY <1>1, <1>2
    <3> QED
      BY <1>1, <3>1 DEF Elems
  <2> QED
    BY <2>1, <2>2, <2>3
<1> QED
  BY <1>1, <1>3

LEMMA ElemsTail ==
  ASSUME NEW S, NEW q \in Seq(S), q # <<>>
  PROVE  /\ Tail(q) \in Seq(S) /\ Elems(Tail(q)) \subseteq Elems(q)
         /\ Head(q) \in S /\ Head(q) \in Elems(q)
<1>1. Tail(q) \in Seq(S) /\ Len(Tail(q)) = Len(q) - 1 /\ Len(q) \in Nat \ {0}
  OBVIOUS
<1>2. \A i \in 1..Len(q) - 1 : Tail(q)[i] = q[i + 1] /\ i + 1 \in 1..Len(q)
  BY <1>1
<1>3. Head(q) = q[1] /\ 1 \in 1..Len(q) /\ Head(q) \in S
  BY <1>1
<1> QED
  BY <1>1, <1>2, <1>3 DEF Elems

LEMMA ElemsEmpty == Elems(<<>>) = {}
BY DEF Elems

\* what a step leaves alone
LEMMA OthersKeep ==
  ASSUME IInv, daemonProcess' \in 0..MaxProcs, status' \in [Procs -> Statuses],
         stdin' \in [Procs -> Seq(Entry)], stdout' \in [Procs -> Seq(Entry)],
         \A p \in Procs : /\ Elems(stdin'[p]) \subseteq Known
                          /\ Elems(stdout'[p]) \subseteq Known,
         UNCHANGED <<requestIdCounter, pendingRequests, outcome>>
  PROVE  IInv'
<1>1. Known' \in SUBSET Known
  <2> SUFFICES ASSUME NEW r \in Entry,
                      \/ r \in pendingRequests'
                      \/ \E p \in Procs : r \in Elems(stdin'[p]) \cup Elems(stdout'[p])
               PROVE  r \in Known
    BY DEF Known, Elems
  <2> QED
    BY DEF Known
<1>2. Numbered(Known)'
  BY <1>1 DEF IInv, Numbered
<1> QED
  BY <1>2 DEF IInv, Types, Waiting

LEMMA QueueIn ==
  ASSUME IInv, NEW p \in Procs
  PROVE  Elems(stdin[p]) \subseteq Known /\ Elems(stdout[p]) \subseteq Known
<1>1. \A q \in Seq(Entry) : Elems(q) \subseteq Entry
  BY DEF Elems
<1>2. Elems(stdin[p]) \subseteq Entry /\ Elems(stdout[p]) \subseteq Entry
  BY <1>1 DEF IInv, Types
<1> QED
  BY <1>2 DEF Known

LEMMA ToolsIn == None \in Outcomes /\ Pending \in Outcomes /\ Rejected \in Outcomes
                   /\ None # Pending /\ None # Rejected /\ Pending # Rejected
<1>1. None.is = "none" /\ Pending.is = "open" /\ Rejected.is = "refused"
  BY DEF None, Pending, Rejected
<1> QED
  BY <1>1 DEF Outcomes

LEMMA ResolvedIn ==
  ASSUME NEW c \in Calls
  PROVE  Resolved(c) \in Outcomes /\ Resolved(c) # None /\ Resolved(c) # Pending
<1>1. Resolved(c).is = "answered" /\ None.is = "none" /\ Pending.is = "open"
  BY DEF Resolved, None, Pending
<1> QED
  BY <1>1 DEF Outcomes

LEMMA Initially == Init => IInv
<1> SUFFICES ASSUME Init PROVE IInv
  OBVIOUS
<1>1. Known = {}
  BY ElemsEmpty DEF Init, Known
<1>2. Types
  BY ToolsIn, DaemonAssumption DEF Init, Types, Statuses
<1> QED
  BY <1>1, <1>2 DEF Init, IInv, Numbered, Waiting

-----------------------------------------------------------------------------
(* The steps *)

LEMMA StartKeeps == ASSUME IInv, StartDaemon PROVE IInv'
<1>1. PICK p \in Procs : status' = [status EXCEPT ![p] = "running"] /\ daemonProcess' = p
  BY DEF StartDaemon
<1>2. status' \in [Procs -> Statuses] /\ daemonProcess' \in 0..MaxProcs
  BY <1>1 DEF IInv, Types, Statuses, Procs
<1>3. UNCHANGED <<stdin, stdout, requestIdCounter, pendingRequests, outcome>>
  BY DEF StartDaemon, FirstId
<1> QED
  BY <1>2, <1>3, QueueIn, OthersKeep DEF IInv, Types

LEMMA StopKeeps == ASSUME IInv, StopDaemon PROVE IInv'
<1>1. status' \in [Procs -> Statuses] /\ daemonProcess' \in 0..MaxProcs
  <2>1. status \in [Procs -> Statuses] /\ "killed" \in Statuses
    BY DEF IInv, Types, Statuses
  <2>2. \A p : Killed(status, p) \in [Procs -> Statuses]
    BY <2>1 DEF Killed
  <2>3. status' = Killed(status, daemonProcess) /\ daemonProcess' = 0
    BY DEF StopDaemon
  <2> QED
    BY <2>2, <2>3, DaemonAssumption
<1>2. UNCHANGED <<stdin, stdout, requestIdCounter, pendingRequests, outcome>>
  BY DEF StopDaemon
<1> QED
  BY <1>1, <1>2, QueueIn, OthersKeep DEF IInv, Types

LEMMA SendKeeps == ASSUME IInv, NEW c \in Calls, SendRequest(c) PROVE IInv'
<1> DEFINE line == [id |-> requestIdCounter + 1, call |-> c]
<1>0. outcome[c] = None
  BY DEF SendRequest
<1>1. CASE daemonProcess = 0
  <2>1. /\ outcome' = [outcome EXCEPT ![c] = Rejected]
        /\ UNCHANGED <<daemonProcess, status, stdin, stdout, requestIdCounter, pendingRequests>>
    BY <1>1 DEF SendRequest
  <2>2. Known' = Known
    BY <2>1 DEF Known, Elems
  <2>3. Types'
    BY <2>1, ToolsIn DEF IInv, Types
  <2>4. Numbered(Known)'
    BY <2>1, <2>2, ToolsIn DEF IInv, Types, Numbered, Known, Entry
  <2>5. Waiting'
    BY <1>0, <2>1, ToolsIn DEF IInv, Types, Waiting, Entry
  <2> QED
    BY <2>3, <2>4, <2>5 DEF IInv
<1>2. CASE daemonProcess # 0
  <2>1. /\ outcome' = [outcome EXCEPT ![c] = Pending]
        /\ requestIdCounter' = requestIdCounter + 1
        /\ pendingRequests' = {r \in pendingRequests : r.id # line.id} \cup {line}
        /\ \/ stdin' = [stdin EXCEPT ![daemonProcess] = Append(@, line)]
           \/ stdin' = stdin
        /\ UNCHANGED <<daemonProcess, status, stdout>>
    BY <1>2 DEF SendRequest
  <2>2. line \in Entry /\ line.id = requestIdCounter + 1 /\ line.call = c
    BY DEF IInv, Types, Entry
  <2> HIDE DEF line
  <2>3. daemonProcess \in Procs
    BY <1>2, DaemonAssumption DEF IInv, Types, Procs
  <2>4. stdin' \in [Procs -> Seq(Entry)] /\ \A p \in Procs : Elems(stdin'[p]) \subseteq Elems(stdin[p]) \cup {line}
    <3>1. CASE stdin' = stdin
      BY <3>1 DEF IInv, Types
    <3>2. CASE stdin' = [stdin EXCEPT ![daemonProcess] = Append(@, line)]
      <4>1. /\ Append(stdin[daemonProcess], line) \in Seq(Entry)
            /\ Elems(Append(stdin[daemonProcess], line)) = Elems(stdin[daemonProcess]) \cup {line}
        BY <2>2, <2>3, ElemsAppend DEF IInv, Types
      <4> QED
        BY <2>3, <3>2, <4>1 DEF IInv, Types
    <3> QED
      BY <2>1, <3>1, <3>2
  <2>5. Types'
    BY <2>1, <2>2, <2>4, ToolsIn DEF IInv, Types
  <2>6. Known' \subseteq Known \cup {line}
    <3> SUFFICES ASSUME NEW r \in Entry, r # line,
                        \/ r \in pendingRequests'
                        \/ \E p \in Procs : r \in Elems(stdin'[p]) \cup Elems(stdout'[p])
                 PROVE  r \in Known
      BY DEF Known, Elems
    <3> QED
      BY <2>1, <2>4 DEF Known
  <2>7. \A r \in Known : r \in Entry /\ r.id \in Nat /\ r.call \in Calls /\ r.id <= requestIdCounter /\ r.call # c
    BY <1>0 DEF Known, Entry, IInv, Numbered
  <2>8. \A d \in Calls : outcome'[d] = IF d = c THEN Pending ELSE outcome[d]
    BY <2>1 DEF IInv, Types
  <2>9. Numbered(Known)'
    <3>1. requestIdCounter \in Nat /\ requestIdCounter' = requestIdCounter + 1
      BY <2>1 DEF IInv, Types
    <3>2. \A r \in Known : r.id <= requestIdCounter' /\ outcome'[r.call] # None
      BY <2>7, <2>8, <3>1 DEF IInv, Numbered
    <3>3. line.id <= requestIdCounter' /\ outcome'[line.call] # None
      BY <2>2, <2>8, <3>1, ToolsIn
    <3>4. \A r \in Known : r.id # line.id
      BY <2>2, <2>7, <3>1
    <3> QED
      BY <2>6, <3>2, <3>3, <3>4 DEF IInv, Numbered
  <2>10. Waiting'
    <3>1. pendingRequests \subseteq Known
      BY DEF IInv, Types, Known
    <3>2. \A r \in pendingRequests : r.call # c /\ r.call \in Calls
      BY <2>7, <3>1
    <3>3. \A r \in pendingRequests' : r = line \/ r \in pendingRequests
      BY <2>1
    <3> QED
      BY <2>2, <2>8, <3>2, <3>3 DEF IInv, Waiting
  <2> QED
    BY <2>5, <2>9, <2>10 DEF IInv
<1> QED
  BY <1>1, <1>2

\* a line answers the request of its own call, if that still waits
LEMMA AnswerOK ==
  ASSUME IInv, NEW p \in Procs, Data(p)
  PROVE  \E line \in Known :
           /\ pendingRequests' = pendingRequests \ Answered(line)
           /\ \/ Answered(line) = {} /\ outcome' = outcome
              \/ /\ \E r \in pendingRequests : r \in Answered(line) /\ r.call = line.call
                 /\ outcome' = [outcome EXCEPT ![line.call] = Resolved(line.call)]
<1> DEFINE line == Head(stdout[p])
           found == Answered(line)
<1>1. line \in Known
  BY QueueIn, ElemsTail DEF Data, IInv, Types
<1>2. /\ pendingRequests' = pendingRequests \ found
      /\ outcome' = [c \in Calls |->
           IF \E r \in found : r.call = c THEN Resolved(line.call) ELSE outcome[c]]
  BY DEF Data
<1>3. \A r \in found : r \in pendingRequests /\ r.call = line.call
  BY <1>1 DEF Answered, IInv, Numbered, Known, Types
<1>4. outcome = [c \in Calls |-> outcome[c]] /\ line.call \in Calls
  BY <1>1 DEF IInv, Types, Known, Entry
<1> HIDE DEF line
<1>5. CASE found = {}
  BY <1>1, <1>2, <1>4, <1>5
<1>6. CASE found # {}
  <2>1. \A c \in Calls : (\E r \in found : r.call = c) <=> c = line.call
    BY <1>3, <1>6
  <2>2. outcome' = [outcome EXCEPT ![line.call] = Resolved(line.call)]
    BY <1>2, <1>4, <2>1
  <2> QED
    BY <1>1, <1>2, <1>3, <1>6, <2>2
<1> QED
  BY <1>5, <1>6

LEMMA DataKeeps == ASSUME IInv, NEW p \in Procs, Data(p) PROVE IInv'
<1>1. PICK line \in Known :
           /\ pendingRequests' = pendingRequests \ Answered(line)
           /\ \/ Answered(line) = {} /\ outcome' = outcome
              \/ /\ \E r \in pendingRequests : r \in Answered(line) /\ r.call = line.call
                 /\ outcome' = [outcome EXCEPT ![line.call] = Resolved(line.call)]
  BY AnswerOK
<1>2. line.call \in Calls
  BY DEF Known, Entry
<1>3. /\ stdout' = [stdout EXCEPT ![p] = Tail(@)] /\ stdout[p] # <<>>
      /\ UNCHANGED <<daemonProcess, status, stdin, requestIdCounter>>
  BY DEF Data
<1>4. stdout' \in [Procs -> Seq(Entry)] /\ \A q \in Procs : Elems(stdout'[q]) \subseteq Elems(stdout[q])
  BY <1>3, ElemsTail DEF IInv, Types
<1>5. outcome' \in [Calls -> Outcomes]
  BY <1>1, <1>2, ResolvedIn DEF IInv, Types
<1>6. Types'
  BY <1>1, <1>3, <1>4, <1>5 DEF IInv, Types
<1>7. Known' \subseteq Known
  <2> SUFFICES ASSUME NEW r \in Entry,
                      \/ r \in pendingRequests'
                      \/ \E q \in Procs : r \in Elems(stdin'[q]) \cup Elems(stdout'[q])
               PROVE  r \in Known
    BY DEF Known, Elems
  <2> QED
    BY <1>1, <1>3, <1>4 DEF Known
<1>8. \A c \in Calls : outcome[c] # None => outcome'[c] # None
  BY <1>1, <1>2, ResolvedIn DEF IInv, Types
<1>9. Numbered(Known)'
  <2>1. \A r \in Known : r.call \in Calls
    BY DEF Known, Entry
  <2> QED
    BY <1>3, <1>7, <1>8, <2>1 DEF IInv, Numbered
<1>10. Waiting'
  <2>1. \A r \in pendingRequests' : r \in pendingRequests /\ r \notin Answered(line)
    BY <1>1
  <2>2. \A r \in pendingRequests' : outcome'[r.call] = outcome[r.call]
    BY <1>1, <2>1 DEF IInv, Waiting, Types, Entry
  <2> QED
    BY <2>1, <2>2 DEF IInv, Waiting
<1> QED
  BY <1>6, <1>9, <1>10 DEF IInv

LEMMA SplitKeeps == ASSUME IInv, NEW p \in Procs, SplitData(p) PROVE IInv'
<1>1. /\ stdout' = [stdout EXCEPT ![p] = Tail(@)] /\ stdout[p] # <<>>
      /\ UNCHANGED <<daemonProcess, status, stdin, requestIdCounter, pendingRequests, outcome>>
  BY DEF SplitData, Unread
<1>2. stdout' \in [Procs -> Seq(Entry)] /\ \A q \in Procs : Elems(stdout'[q]) \subseteq Elems(stdout[q])
  BY <1>1, ElemsTail DEF IInv, Types
<1>3. \A q \in Procs : Elems(stdin'[q]) \subseteq Known /\ Elems(stdout'[q]) \subseteq Known
  BY <1>1, <1>2, QueueIn
<1> QED
  BY <1>1, <1>2, <1>3, OthersKeep DEF IInv, Types

LEMMA HandleKeeps == ASSUME IInv, NEW p \in Procs, HandleRequest(p) PROVE IInv'
<1>1. /\ stdin[p] # <<>> /\ stdin' = [stdin EXCEPT ![p] = Tail(@)]
      /\ stdout' = [stdout EXCEPT ![p] = Append(@, Head(stdin[p]))]
      /\ UNCHANGED <<daemonProcess, status, requestIdCounter, pendingRequests, outcome>>
  BY DEF HandleRequest
<1>2. stdin' \in [Procs -> Seq(Entry)] /\ \A q \in Procs : Elems(stdin'[q]) \subseteq Elems(stdin[q])
  BY <1>1, ElemsTail DEF IInv, Types
<1>3. Head(stdin[p]) \in Entry /\ Head(stdin[p]) \in Elems(stdin[p])
  BY <1>1, ElemsTail DEF IInv, Types
<1>4. /\ Append(stdout[p], Head(stdin[p])) \in Seq(Entry)
      /\ Elems(Append(stdout[p], Head(stdin[p]))) = Elems(stdout[p]) \cup {Head(stdin[p])}
  BY <1>3, ElemsAppend DEF IInv, Types
<1>5. /\ stdout' \in [Procs -> Seq(Entry)]
      /\ \A q \in Procs : Elems(stdout'[q]) \subseteq Elems(stdout[q]) \cup Elems(stdin[p])
  BY <1>1, <1>3, <1>4 DEF IInv, Types
<1>6. \A q \in Procs : Elems(stdin'[q]) \subseteq Known /\ Elems(stdout'[q]) \subseteq Known
  BY <1>2, <1>5, QueueIn
<1> QED
  BY <1>1, <1>2, <1>5, <1>6, OthersKeep DEF IInv, Types

LEMMA DieKeeps == ASSUME IInv, NEW p \in Procs, Die(p) PROVE IInv'
<1>1. /\ stdin' = [stdin EXCEPT ![p] = <<>>]
      /\ status' = [status EXCEPT ![p] = "exited"]
      /\ UNCHANGED <<daemonProcess, stdout, requestIdCounter, pendingRequests, outcome>>
  BY DEF Die
<1>2. stdin' \in [Procs -> Seq(Entry)] /\ \A q \in Procs : Elems(stdin'[q]) \subseteq Elems(stdin[q])
  BY <1>1, ElemsEmpty DEF IInv, Types
<1>3. status' \in [Procs -> Statuses]
  BY <1>1 DEF IInv, Types, Statuses
<1>4. \A q \in Procs : Elems(stdin'[q]) \subseteq Known /\ Elems(stdout'[q]) \subseteq Known
  BY <1>1, <1>2, QueueIn
<1> QED
  BY <1>1, <1>2, <1>3, <1>4, OthersKeep DEF IInv, Types

LEMMA ExitKeeps == ASSUME IInv, NEW p \in Procs, Exit(p) PROVE IInv'
<1>1. /\ status' = [status EXCEPT ![p] = "gone"] /\ daemonProcess' = 0
      /\ UNCHANGED <<stdin, stdout, requestIdCounter, pendingRequests, outcome>>
  BY DEF Exit
<1>2. status' \in [Procs -> Statuses] /\ daemonProcess' \in 0..MaxProcs
  BY <1>1, DaemonAssumption DEF IInv, Types, Statuses
<1> QED
  BY <1>1, <1>2, QueueIn, OthersKeep DEF IInv, Types

LEMMA NextKeeps == ASSUME IInv, [Next]_vars PROVE IInv'
<1>1. CASE UNCHANGED vars
  BY <1>1, QueueIn, OthersKeep DEF vars, IInv, Types
<1>2. CASE Ask \/ Wake
  BY <1>2, SendKeeps DEF Ask, Wake
<1> QED
  BY <1>1, <1>2, StartKeeps, StopKeeps, DataKeeps, SplitKeeps, HandleKeeps, DieKeeps, ExitKeeps
  DEF Next, Pipes

-----------------------------------------------------------------------------
(* The client implements RpcSpec *)

LEMMA StepImplements == ASSUME IInv, [Next]_vars PROVE [Rpc!Next]_outcome
<1> USE DEF Rpc!Next, Rpc!Make, Rpc!Settle, Rpc!Open, Rpc!Refused, Rpc!AnswerTo
<1>1. ASSUME NEW c \in Calls, SendRequest(c) PROVE Rpc!Make(c)
  BY <1>1 DEF SendRequest, None, Pending, Rejected
<1>2. ASSUME NEW p \in Procs, Data(p) PROVE [Rpc!Next]_outcome
  <2>1. PICK line \in Known :
           \/ outcome' = outcome
           \/ /\ \E r \in pendingRequests : r.call = line.call
              /\ outcome' = [outcome EXCEPT ![line.call] = Resolved(line.call)]
    BY <1>2, AnswerOK
  <2>2. line.call \in Calls
    BY DEF Known, Entry
  <2>3. CASE outcome' = outcome
    BY <2>3
  <2>4. CASE /\ \E r \in pendingRequests : r.call = line.call
             /\ outcome' = [outcome EXCEPT ![line.call] = Resolved(line.call)]
    <3>1. outcome[line.call] = Pending
      BY <2>4 DEF IInv, Waiting
    <3>2. Rpc!Settle(line.call)
      BY <2>4, <3>1 DEF Pending, Resolved
    <3> QED
      BY <2>2, <3>2
  <2> QED
    BY <2>1, <2>3, <2>4
<1>3. CASE Ask \/ Wake
  BY <1>1, <1>3 DEF Ask, Wake
<1>4. ASSUME NEW p \in Procs, SplitData(p) \/ Exit(p) \/ Die(p) \/ HandleRequest(p)
      PROVE  UNCHANGED outcome
  BY <1>4 DEF SplitData, Exit, Die, HandleRequest
<1>5. CASE StartDaemon \/ StopDaemon \/ UNCHANGED vars
  BY <1>5 DEF StartDaemon, StopDaemon, vars
<1> QED
  BY <1>2, <1>3, <1>4, <1>5 DEF Next, Pipes

\* Calls are made once and settle at most once, with the answer to themselves (main.ts
\* 183-273), whatever processes come and go and whatever lines are lost: a number is never
\* used for two calls, so an answer that is read late finds its own request or none.
THEOREM Implements == Spec => ImplementsRpc
<1>1. Init => outcome = [c \in Calls |-> [is |-> "none"]]
  BY DEF Init, None
<1>2. Spec => []IInv
  BY Initially, NextKeeps, PTL DEF Spec
<1> QED
  BY <1>1, <1>2, StepImplements, PTL DEF Spec, ImplementsRpc, Rpc!Spec

-----------------------------------------------------------------------------
(* No daemon is left behind *)

DInv ==
  /\ status \in [Procs -> Statuses]
  /\ daemonProcess \in 0..MaxProcs
  /\ OneDaemon
  /\ ~overlapped => \A p, q \in Procs :
       status[p] \notin {"unborn", "gone"} /\ status[q] \notin {"unborn", "gone"} => p = q

LEMMA DKeeps == ASSUME DInv, [Next]_vars PROVE DInv'
<1> USE DEF DInv, OneDaemon
<1>1. CASE StartDaemon
  <2>1. PICK p \in Procs :
          /\ status[p] = "unborn" /\ status' = [status EXCEPT ![p] = "running"]
          /\ daemonProcess' = p
    BY <1>1 DEF StartDaemon
  <2>2. ~overlapped' => ~overlapped /\ \A q \in Procs : status[q] \in {"unborn", "gone"}
    BY <1>1 DEF StartDaemon
  <2>3. status' \in [Procs -> Statuses] /\ \A q \in Procs : status'[q] = IF q = p THEN "running" ELSE status[q]
    BY <2>1 DEF Statuses
  <2>4. daemonProcess' \in 0..MaxProcs
    BY <2>1 DEF Procs
  <2> QED
    BY <2>1, <2>2, <2>3, <2>4
<1>2. CASE StopDaemon
  <2>1. /\ daemonProcess \in Procs /\ daemonProcess' = 0 /\ UNCHANGED overlapped
        /\ status' = [status EXCEPT ![daemonProcess] =
             IF status[daemonProcess] = "running" THEN "killed" ELSE status[daemonProcess]]
    BY <1>2, DaemonAssumption DEF StopDaemon, Killed, Procs
  <2>2. \A p \in Procs :
          /\ status'[p] \in {"unborn", "gone"} <=> status[p] \in {"unborn", "gone"}
          /\ ~overlapped => status'[p] # "running"
    BY <2>1 DEF Statuses
  <2>3. status' \in [Procs -> Statuses]
    BY <2>1 DEF Statuses
  <2>4. daemonProcess' \in 0..MaxProcs
    BY <2>1, DaemonAssumption
  <2> QED
    BY <2>1, <2>2, <2>3, <2>4
<1>3. ASSUME NEW p \in Procs, Exit(p) PROVE DInv'
  BY <1>3, DaemonAssumption DEF Exit, Statuses
<1>4. ASSUME NEW p \in Procs, Die(p) PROVE DInv'
  BY <1>4 DEF Die, Alive, Statuses
<1>5. ASSUME UNCHANGED <<daemonProcess, status, overlapped>> PROVE DInv'
  BY <1>5
<1>6. CASE Ask \/ Wake \/ UNCHANGED vars
  BY <1>5, <1>6 DEF Ask, Wake, SendRequest, vars
<1>7. ASSUME NEW p \in Procs, SplitData(p) \/ HandleRequest(p) \/ Data(p) PROVE DInv'
  BY <1>5, <1>7 DEF SplitData, HandleRequest, Data
<1> QED
  BY <1>1, <1>2, <1>3, <1>4, <1>6, <1>7 DEF Next, Pipes

\* Only a start that overlaps the end of the process before leaves a daemon that no request
\* goes to (main.ts 153-181, 234-252): stops, deaths and late exit events do not.
THEOREM OneDaemonSafe == Spec => []OneDaemon
<1>1. Init => DInv
  BY DaemonAssumption DEF Init, DInv, OneDaemon, Statuses
<1>2. DInv => OneDaemon
  BY DEF DInv
<1> QED
  BY <1>1, <1>2, DKeeps, PTL DEF Spec

=============================================================================
