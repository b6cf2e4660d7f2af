-------------------------------- MODULE Daemon --------------------------------
(***************************************************************************)
(* The Electron main process and its daemon (chat-client/src/main.ts):     *)
(* starting and stopping the child process, the requests written to its    *)
(* stdin one per line, the answers read from its stdout and matched to the *)
(* pending requests by their id.  The daemon (Go) reads its requests one   *)
(* after the other.  A process takes a while to die, its exit is an event  *)
(* that comes later still, and what it wrote before may be read after.     *)
(***************************************************************************)
EXTENDS Naturals, Sequences, SequencesExt

CONSTANTS
  MaxProcs,   \* bound: processes spawned in a behaviour
  MaxCalls,   \* bound: calls of sendRequest
  MaxSplits   \* bound: answers whose line is split between two data events

ASSUME DaemonAssumption == MaxProcs \in Nat /\ MaxCalls \in Nat /\ MaxSplits \in Nat

Procs == 1..MaxProcs
Calls == 1..MaxCalls

VARIABLES
  daemonProcess,     \* the child process requests go to, 0 when there is none
  status,            \* status[p]: unborn, running, killed (still alive), exited, gone (exit seen)
  stdin, stdout,     \* stdin[p], stdout[p]: the lines on their way
  waking,            \* startDaemon calls whose second has not passed
  requestIdCounter,
  pendingRequests,   \* the requests waiting for an answer, as [id, call]
  outcome,           \* outcome[c]: what became of call c
  splits,            \* lines split so far
  cut,               \* history: calls whose request or answer was lost
  overlapped         \* history: a daemon was started before the last one was gone

vars == <<daemonProcess, status, stdin, stdout, waking, requestIdCounter,
          pendingRequests, outcome, splits, cut, overlapped>>

None == [is |-> "none"]
Pending == [is |-> "open"]
Rejected == [is |-> "refused"]
Resolved(c) == [is |-> "answered", call |-> c]

Alive(p) == status[p] \in {"running", "killed"}

Init ==
  /\ daemonProcess = 0
  /\ status = [p \in Procs |-> "unborn"]
  /\ stdin = [p \in Procs |-> <<>>]
  /\ stdout = [p \in Procs |-> <<>>]
  /\ waking = 0
  /\ requestIdCounter = 0
  /\ pendingRequests = {}
  /\ outcome = [c \in Calls |-> None]
  /\ splits = 0
  /\ cut = {}
  /\ overlapped = FALSE

-----------------------------------------------------------------------------
(* The main process *)

\* mutant of FirstId: a new process counts from the start
FirstId_FromOne(counter) == 0

\* the number requests count on from
FirstId(counter) == counter

\* startDaemon: a new process takes the place of whatever was there
StartDaemon ==
  \E p \in Procs :
    /\ status[p] = "unborn" /\ \A q \in 1..(p - 1) : status[q] # "unborn"
    /\ status' = [status EXCEPT ![p] = "running"]
    /\ daemonProcess' = p
    /\ waking' = waking + 1
    /\ overlapped' = (overlapped \/ \E q \in Procs : status[q] \notin {"unborn", "gone"})
    /\ requestIdCounter' = FirstId(requestIdCounter)
    /\ UNCHANGED <<stdin, stdout, pendingRequests, outcome, splits, cut>>

\* mutant of Killed: the process is let go without a signal
Killed_Forgotten(s, p) == s

\* kill signals a process that runs
Killed(s, p) == [s EXCEPT ![p] = IF s[p] = "running" THEN "killed" ELSE s[p]]

\* stopDaemon: the pending requests are left as they are
StopDaemon ==
  /\ daemonProcess # 0
  /\ status' = Killed(status, daemonProcess)
  /\ daemonProcess' = 0
  /\ UNCHANGED <<stdin, stdout, waking, requestIdCounter, pendingRequests, outcome,
                 splits, cut, overlapped>>

\* sendRequest, of call c
SendRequest(c) ==
  /\ outcome[c] = None /\ \A d \in 1..(c - 1) : outcome[d] # None
  /\ IF daemonProcess = 0
     THEN /\ outcome' = [outcome EXCEPT ![c] = Rejected]
          /\ UNCHANGED <<stdin, requestIdCounter, pendingRequests, cut>>
     ELSE LET line == [id |-> requestIdCounter + 1, call |-> c] IN
          /\ requestIdCounter' = requestIdCounter + 1
          /\ outcome' = [outcome EXCEPT ![c] = Pending]
          /\ pendingRequests' =
               {r \in pendingRequests : r.id # line.id} \cup {line}
          /\ IF Alive(daemonProcess)
             THEN /\ stdin' = [stdin EXCEPT ![daemonProcess] = Append(@, line)]
                  /\ UNCHANGED cut
             ELSE cut' = cut \cup {c} /\ UNCHANGED stdin
  /\ UNCHANGED <<daemonProcess, status, stdout, splits, overlapped>>

\* some handler of the main process asks the daemon
Ask == UNCHANGED waking /\ \E c \in Calls : SendRequest(c)

\* linkself:start goes on with the request "start" when its second has passed
Wake ==
  /\ waking > 0
  /\ waking' = waking - 1
  /\ \E c \in Calls : SendRequest(c)

\* the pending request that a line answers
Answered(line) == {r \in pendingRequests : r.id = line.id}

\* a data event with a whole line
Data(p) ==
  /\ stdout[p] # <<>>
  /\ LET line == Head(stdout[p])
         found == Answered(line)
     IN /\ pendingRequests' = pendingRequests \ found
        /\ outcome' = [c \in Calls |->
             IF \E r \in found : r.call = c THEN Resolved(line.call) ELSE outcome[c]]
  /\ stdout' = [stdout EXCEPT ![p] = Tail(@)]
  /\ UNCHANGED <<daemonProcess, status, stdin, waking, requestIdCounter, splits, cut, overlapped>>

\* mutant of Unread: the rest of the output is thrown away
Unread_Nothing(lines) == <<>>

\* what is left to read
Unread(lines) == Tail(lines)

\* two data events with one half of a line each; neither half parses
SplitData(p) ==
  /\ stdout[p] # <<>>
  /\ splits < MaxSplits
  /\ splits' = splits + 1
  /\ cut' = cut \cup {Head(stdout[p]).call}
  /\ stdout' = [stdout EXCEPT ![p] = Unread(@)]
  /\ UNCHANGED <<daemonProcess, status, stdin, waking, requestIdCounter, pendingRequests,
                 outcome, overlapped>>

\* the exit event, of whichever process
Exit(p) ==
  /\ status[p] = "exited"
  /\ status' = [status EXCEPT ![p] = "gone"]
  /\ daemonProcess' = 0
  /\ UNCHANGED <<stdin, stdout, waking, requestIdCounter, pendingRequests, outcome,
                 splits, cut, overlapped>>

-----------------------------------------------------------------------------
(* The daemon *)

\* handleRequest and sendResponse, or sendError
HandleRequest(p) ==
  /\ Alive(p)
  /\ stdin[p] # <<>>
  /\ stdin' = [stdin EXCEPT ![p] = Tail(@)]
  /\ stdout' = [stdout EXCEPT ![p] = Append(@, Head(stdin[p]))]
  /\ UNCHANGED <<daemonProcess, status, waking, requestIdCounter, pendingRequests, outcome,
                 splits, cut, overlapped>>

\* the process ends, killed or by itself; what it had not read is lost
Die(p) ==
  /\ Alive(p)
  /\ status' = [status EXCEPT ![p] = "exited"]
  /\ cut' = cut \cup {line.call : line \in Range(stdin[p])}
  /\ stdin' = [stdin EXCEPT ![p] = <<>>]
  /\ UNCHANGED <<daemonProcess, stdout, waking, requestIdCounter, pendingRequests, outcome,
                 splits, overlapped>>

-----------------------------------------------------------------------------

Pipes == \E p \in Procs : HandleRequest(p) \/ Data(p)

Next ==
  \/ StartDaemon \/ StopDaemon \/ Ask \/ Wake
  \/ \E p \in Procs : SplitData(p) \/ Exit(p) \/ Die(p)
  \/ Pipes

Spec == Init /\ [][Next]_vars

\* the daemon works off its requests and the main process reads what it writes
FairSpec == Spec /\ \A p \in Procs : WF_vars(HandleRequest(p)) /\ WF_vars(Data(p))

-----------------------------------------------------------------------------

\* A daemon that runs is the one requests go to, unless a start overlapped the end of the
\* one before: stopping, dying and exit events in any order leave no other orphan.
OneDaemon ==
  ~overlapped => \A p \in Procs : status[p] = "running" => daemonProcess = p

\* Calls settle at most once and with their own answer, although ids are all that links an
\* answer to its request, answers are lost, processes are replaced and a dead one is still
\* read: the client implements RpcSpec.
Rpc == INSTANCE RpcSpec WITH Calls <- Calls, outcome <- outcome
ImplementsRpc == Rpc!Spec

\* A request gets its answer unless its process dies first or its line is split.
Settles ==
  \A c \in Calls : outcome[c] = Pending ~> outcome[c] # Pending \/ c \in cut

=============================================================================
