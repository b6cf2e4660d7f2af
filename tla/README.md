# LinkSelf in TLA+

Specifications of [LinkSelf](../src/README.md), a peer-to-peer layer on which an application keeps
the data of one user on all of that user's devices and shares selected data with the members of
groups and networks. Two implementations are wire-compatible ports of each other: TypeScript
(`src/ts/linkself/src`, for browsers and Electron) and Go (`src/core/internal`, for the daemon).
The models follow the code of both; where they differ (number widths, persistence) a constant
chooses. All source paths below are relative to `src/`.

How to run: `tlc -config <run>.cfg <module>.tla` and `tlapm <module>.tla`; `PROJECT.json` lists the
runs, which source lines each definition stands for, the theorems, the hazards the properties are
aimed at and, for every checked property, a small change of the model that breaks it (the
definitions commented "mutant of ...", which nothing else uses).

## The system

| Component | State it keeps | Operations | Talks to |
|---|---|---|---|
| Device sync (`ts/linkself/src/devicesync.ts`, `core/internal/devicesync`) | records, change log, sequence counter | put, delete, handleIncoming, syncWith, retention | other devices of the user, through the node |
| Store and forward (`storeforward.ts`, `core/internal/storeforward`) | one queue per destination DID | queue, flushForDID | node |
| Node (`node.ts`, `core/internal/node`) | connections, authenticated peers | connectToAddr, sendMessage, sendToPeerId, join stream, dispatch of envelopes | all of the above and below |
| Network membership (`network.ts`, `join.ts`, `network-meta.ts`, `client.ts`) | view of members and roles, consumed nonces, epoch | administration, join handshake, publication of snapshots | node, roles, invitations |
| Group (`group.ts`, `core/internal/group`) | members and owners | create, leave, kick, appoint, demote, add | group share asks it for the members |
| Group share (`groupshare.ts`, `core/internal/groupshare`) | shared records, own and known subscriptions | put, delete, handleIncoming, subscribe, announce, dump, restore, purge | node; subscriptions are kept in device sync |
| Invitation, roles, permissions (`invitation.ts`, `role.ts`, `permission.ts`) | none, or a role hierarchy that only grows | sign, verify, hasRole, check | membership, group share |
| Authentication (`auth.ts`) | the handshakes under way | challenge and mutual handshakes | node records the DID they prove |
| Pairing, roster, presence (`pairing.ts`, `roster.ts`, `core/internal/presence`) | pairing token, signed roster, presence directory | pairing exchange, register and look up | node |
| MyDB and SQL mirror (`mydb.ts`, `sqlproxy.ts`, `sqlite*.ts`) | an SQL database in a worker, pending calls | exec, query, migrate, close | device sync mirrors its rows |
| SQLite stores (`core/internal/storage/sqlite`) | the persistent form of the stores above | one transaction per call | their owners |
| Daemon process (`core/cmd/linkself-daemon`, `chat-client/src/main.ts`) | the child process, pending requests of a line protocol | start, stop, request, response, exit | client facade |
| Chat client (`chat-client/src/main.ts`, `renderer/App.tsx`) | the lists in the window and the tables of the database | start, send, receive, create a group, open a conversation | daemon, by SQL statements and messages |

What makes it hard, in all components: **every method is asynchronous**. In TypeScript each `await`
of a store or of a send lets another call run; in Go the engines hold no lock between two storage
calls. So a method is a sequence of atomic storage calls that interleave with those of other
methods, and what was read before an await may be stale when it is used. Messages are sent over
independent streams and arrive in any order; a peer may be gone; a process may restart with only
what its store had committed.

What makes each component correct:

- device sync: the log is gap-free and explains the records, retention drops only what it may, an
  incremental sync leaves out only what a truncation dropped meanwhile, no put is forgotten on its way,
  the devices converge;
- node and queue: an accepted payload disappears only with an exception or with the connection it was
  written to, none is written to a device twice, a queued one arrives once the peer comes back;
- membership: nobody is a member or has a role that no administrator decided on, an invitation that
  has admitted somebody is refused to all who come later;
- group: two members or more, owners among them, never without an owner; a call changes the group as
  one atomic operation unless another call's write overtakes it;
- group share: no put is forgotten on its way, nobody is left out of a broadcast without having asked
  for it, nothing disappears before it expires or is deleted, subscriptions become known;
- session: an authenticated peer stays known by the DID of its identity, a payload only reaches a
  device of its DID, handshakes end;
- SQL mirror: device sync has the rows of the table, migrations are recorded in order and only once
  executed, every call settles;
- daemon process: an answer finds its own call, no process is left running, requests settle;
- chat client: what the window shows is stored, a group it shows completely, and a group whose creation
  has begun appears.

## Modules

| Module | Models |
|---|---|
| `DeviceSync` | the replication engine of all devices of one user; `MCDeviceSync` its instances; `DeviceSyncProofs` its theorems |
| `StoreForward` | the operations of the queue of one DID |
| `Node` | delivery to one DID with several devices; composes `StoreForward` with connections, authentication and sends; `NodeProofs` its theorems |
| `Membership` | one network on all nodes; `MCMembership` its instances; `MembershipProofs` its theorems |
| `Session` | connections, handshakes, addresses and deliveries between all devices; `MCSession` its instance; its theorems are in `NodeProofs` |
| `Mirror` | MyDB over the SQL proxy, the database worker and device sync; `MirrorProofs` its theorems |
| `Daemon` | the daemon process and the line protocol; `RpcSpec` what a request promises; `DaemonProofs` its theorems |
| `ChatApp` | the window, the handlers of the main process and the database; `MCChatApp` its instance; `ChatAppProofs` its theorems |
| `Group` | the group service with overlapping calls; `GroupSpec` the same operations made atomic; `GroupProofs` its theorems |
| `GroupShare` | one channel shared by the members of a group; `GroupShareProofs` its theorems |

Conventions. A **fiber** is one call in progress; `tasks[n][f].pc` says which storage or send call is
next, and an action is that call with all the code up to the following await. One fiber per node
therefore means that a node finishes a call before it starts the next; two let any two calls overlap.
Messages in flight form a set, from which they are taken in any order (a set also merges two equal
messages, which the receivers treat alike). `Lossy` lets any subset of the receivers of a send miss it.
Sequences of a log or a member list that are only ever looked up are sets. Variables marked
"history" record what happened for the properties and influence nothing.

### DeviceSync

`records`, `log`, `seq` are the three parts of a storage (`MemDeviceStorage`, `deviceStorage` in
SQLite); `Store` is `put`/`delete`, which updates all three at once. `Put` and `Delete` start
`enforceRetention`, whose reads and truncation are separate steps: `EnforceRetention` (by age: read
the log, find the first recent entry), `EnforceRetention`, then `CountRetention` (by count: read the
latest, then the smallest number), `TruncateChangeLog`, then `Broadcast`. `HandleIncoming` compares
the timestamp and `ApplyIncoming` stores, without comparing again. `SyncWith`, `SyncLatest`, `SyncMin`,
`SyncEntries`, `SyncDump` are the five storage calls of `syncWith`. `Restart` ends all calls of a
device and keeps what the database has. `Skew` sets the clocks apart; `Width` gives sequence numbers
the unsigned 64-bit subtraction of Go (0 stands for the signed numbers of TypeScript).
`appendChange`, which no code calls, is left out. The histories `lost` and `undone` note which changes
were not sent to a device or cut off before it wrote them, and which puts a device wrote over.

### StoreForward and Node

`pending` is the queue, `flushing[f]` what flush `f` has taken and not sent. `Node` adds `connected`,
`authed` (the map `authedPeers`, from which the code never deletes) and the calls in `sends`.
`Authenticate` is `recordAuth` and `afterAuth` up to the first await, on either side of the
handshake. A send (`FlushSend`, `SendNext`) writes the payload to a stream and closes it, and that is all
the sender waits for: the payload is in `wrote[p]` and `unread[p]` until the device reads it
(`Receive`), and a broken connection (`Disconnect`) takes any part of what is unread with it (`lost`).
A send throws (`SendFails`) because the connection is gone, because the stream is refused, or, `late`,
when closing the stream fails after the payload went out (`unsure`); `thrown` notes the payloads whose
call ended so, which `sendToGroup` ignores. A payload stands for one `sendMessage` call. The Go node,
which authenticates before every message, and the parsing of envelopes are not modelled.

### Membership

`view[n]` is node `n`'s stored network (nobody a member: no such network), `consumed` its used
nonces, `epoch` the tracker's. `Kick`, `SetMemberRole`, `AddMember`, `Leave` read and decide; `Write`
writes the changed copy back. A join is `RequestJoin`, then on the other node `HandleJoin`,
`AcceptCheck`, `AcceptNonce`, `AcceptAddRead`, `Write`, `AcceptConsume`, `AcceptSnapshot` and the
answer, then `ReceiveReply`. `Publish`, `PublishRead`, `PublishSend` send a snapshot; `HandleMeta`,
`MetaPut`, `MetaEpoch` apply one. An invitation is what its claims say (nonce, inviter, role, expiry).
The set of roles that count as administrators is a parameter. The history `overlapped` notes the pairs
of requests that a node was accepting at the same time.

### Group

`group` is the stored group. An operation decides on a copy (`Decide`) that a later `Write` stores,
so two operations overlap exactly as in the code; `overtaken` has the calls during which another one has
written. `demoteOwner` of oneself reads the group twice
(`DemoteOwner`, `DemoteSelf`). `autoPromoteOneExcluding` picks the first of a list in the code and
any candidate in the model, since members form a set. `createGroup` in the code accepts owners who
are not members, contrary to `ts/linkself/src/group.ts:13` ("Owner DIDs, subset of members"): the constant
`OwnersInside` assumes callers who respect it.

### GroupShare

`shared[n]` has at most one record per id; `localSubs[n]` and `remoteSubs[n][p]` are the two
subscription stores. `Put`, `Delete`/`StampDeletion`, `Broadcast` (choose the receivers), `SendGroup`;
`HandleIncoming`, `ApplyIncoming`; `Subscribe`, `AnnounceAllSubscriptions`,
`BroadcastSubAnnouncement`, `HandleSubAnnouncement`; `Dump`, `Restore`, `RestoreNext`, `RestorePut`;
`Purge`; `Restart` ends all calls of a member and may forget what it knew of the others' subscriptions
(the default `MemSubscriptionStore` does, a store given as `remoteSubs` need not). The announcement of a member in `TwoLayer`
names its account, and `HandleSubAnnouncement` refuses it because it comes from a device of another
DID; the clock of a member in `Ahead` is one unit ahead. The histories `declared`, `leftOut`, `lost` and
`undone` note what a member has declared, whom a broadcast left out, what did not reach a member, and
what a member deleted or wrote over. Bodies, schemas and the wire format are left out; access policy and
role permissions are the sets `Writers` and `Readers`. As in the code, `Delete` asks for no permission
and the *read* right of the writer decides whether others accept its records.

### Session

`conn` is the set of connections, `authedPeers[d][p]` the DID that `d` has recorded for `p`, `shake[s]` one handshake with
the position of each side (`"i"` dialled, `"r"` answers) and the frames between them. `Dial` is
`connectToAddr` up to the first frame; `ReadInitiator` and `ReadResponder` read a frame, check it and
answer; `Record` is `recordAuth` with what `handleAuthStream` and `handleMutualAuthStream` take as the
DID (`Learned`), `Abandon` the failing close before it, `Flush` the rest of `afterAuth`. `Send` is
`sendMessage`, `Deliver` the handler of a message stream. `ConnectionLost` takes the frames and messages
under way with it. `Restart` starts a device with the known peers of its last snapshot
(`snapshotKnownPeers`), which `FastDial` and `FastNext` dial one address after the other
(`fastStart`). A device has two keys, `Host` (its peer id) and `Account` (its identity, which several
devices may share). Signatures are not modelled: devices follow the protocol, and the interest is in
who is recorded as whom when handshakes overlap and addresses are old. `Node` is about
one queue under failing sends, `Session` about several DIDs and who is taken for whom.

### Mirror

`table` and `records` are a row's value in SQL and in device sync, named by the call that wrote it;
`posted` and `answers` are the two directions of the worker's message port. `Make` starts `exec`,
`migrate` or `close`; `Take` is `onmessage` of the worker with `handle`; `TakeAnswer` what the page
does with an answer (`SqlProxy.exec` goes on to read back, `migrate` to the next migration); `Put` one
awaited put of `wireSqlSync`. `Reload` loses what is in memory. `exec` stands for an insert or update of
one row, with the table name found by the code.

### Daemon and RpcSpec

`daemonProcess` is the reference of the main process, `status[p]` what really became of process `p`,
`stdin` and `stdout` its pipes. `SendRequest` is `sendRequest`, `Data` a data event with one whole
line, `SplitData` two data events with half a line each: the code parses each half, fails and drops
both. `Exit` is the exit event, which may come after the next `StartDaemon`, `Wake` the request "start"
that `linkself:start` sends a second later. Only the daemon's answers are on `stdout`; its
notifications are in `ChatApp`. `RpcSpec` has one variable, the outcome of each call: it may be
refused, or made and later settled, once, with its own answer.

### ChatApp

A call of a handler is a record of the statements it still has to send (`Invoke`). `stdin` is the
daemon's input, `ipc` what the main process passes to the window, both in order. `Execute` takes one
statement, answers the window after the last one and otherwise sends the handler's next; `Fail` is a
statement that meets a daemon or database that is not ready or fails by itself, which ends the handler.
`Answer` is what the calling function of the window does next, from the effect that starts the app
(`start`, `migrate`, the three lists) to the two calls of `handleCreateGroup`. `Notify` and `OnMessage`
are an incoming message or friend request, `SendMessage`, `Select` and `CreateGroup` the user's actions;
`Close` and `Open` close the window with the daemon and start again. A conversation is a person or a group.

The daemon answers a query with an object `{columns, rows}` (`core/cmd/linkself-daemon/main.go:741`)
and every handler takes that object for the list of rows. So `contacts:get` and `friendRequests:get`
return empty lists, `contacts:add` and `friendRequests:add` throw after their first statement has
stored the row, `groups:getAll` throws, which makes the starting effect take over none of its lists, and
`messages:get...` hands the window something without a length. The model follows the code
(`Resolved`, `PhaseAfter`, `Select`): no stored row ever reaches the window, and its properties are
about the other direction, from the window to the database. Since no friend request is ever listed,
accepting and rejecting one cannot be reached.

## Runs

| Run | Instance | What it shows |
|---|---|---|
| `DeviceSyncLog` | 2 devices, 2 fibers each, clocks 2 apart, one device keeps its log by age and the other by count, lossy, restarts | The log is gap-free and ends at the last number (`LogContiguous`), explains the records (`RecordMatchesLog`); a truncation point stays safe until used (`TruncationSafe`); retention drops only what it may (`RetentionSafe`); no put is forgotten on its way (`PutAccounted`); a sync leaves an entry out only if a truncation came after it had read the smallest number (`GapOnlyByTruncation`) |
| `DeviceSyncSerial` | 2 devices, 1 fiber, 4 calls of put and sync, unsigned numbers, logs cut to one entry, no skew, no loss | With fairness `Converges`: where nothing is lost and nothing overlaps, the order of arrival, full dumps and truncation do not matter |
| `NodeDelivery` | 2 devices, 2 payloads, 2 flushes, 2 lost connections, 1 failing send | `Accounted`, `NoDuplicates`, and with fairness `QueuedArrives` |
| `MembershipJoins` | 3 users, 2 fibers each, an administrator's invitation that expires, 3 calls of any kind | `GrantedOnly`, and `UsedTwiceOnlyTogether`: only overlapping accepts use an invitation twice |
| `GroupOverlap` | 4 users, 2 fibers, 7 calls | `WellFormed`, `OwnersKept`, and `AtomicUnlessOvertaken`: a write is one operation of `GroupSpec` unless another call's write came between its read and its write |
| `GroupShareMembers` | 2 members, one with a clock ahead and one whose account has another DID than its device, 2 topics, 2 subscriptions, retention 1, 3 calls of any kind, lossy, restarts | `PutAccounted`, `LeftOutAsDeclared`, `KeptUntilExpired`, and with fairness `SubsConverge` |
| `SessionPeers` | 2 devices of one account, a third user, 5 kinds of dials (right and wrong DIDs, mutual and one-way), 2 handshakes, one lost connection or restart | `KnownByAccount`, `ReachesAddressee`, and with fairness `HandshakesEnd` |
| `MirrorWorker` | 2 rows, 2 migrations, 3 overlapping calls, 1 failing statement, 1 reload | `MirrorsTable`, `MigrationsInOrder`, and with fairness `CallsSettle` |
| `DaemonRequests` | 2 processes, 3 requests, 1 split line | `OneDaemon`, `ImplementsRpc`: every step is one of `RpcSpec` or a stutter; with fairness `Settles` |
| `ChatAppStore` | 2 other users, 1 group, a message each way, 2 arrivals, 1 failing statement, 1 window closed and opened again | `ShownIsStored`, `GroupsComplete`, and with fairness `CreationEnds` |

`DeviceSyncLog`, `NodeDelivery`, `MembershipJoins`, `GroupOverlap` and `GroupShareMembers` also check
their module's `TypeOK`. The types of the other modules are part of the invariants of their proofs.

Two runs end in a counterexample: each states what a comment of the repository says and the code
does not do.

| Run | Says | What happens |
|---|---|---|
| `DeviceSyncRaceViolation` (`NewerKept`) | `ts/linkself/src/devicesync.ts:208-209`: only entries with a newer timestamp are applied | An incoming change of time 1 is compared with an empty record; a put of time 2 runs before it is written and is overwritten by it |
| `MembershipSingleUseViolation` (`SingleUse`) | `ts/linkself/src/join.ts:58`: an invite is single-use per accepting node | Two requests with one invitation both pass the nonce check before either records the nonce |

What remains true in spite of each race is checked in a passing run: the change that was written over is
accounted for in no other way than by such a write (`PutAccounted`, whose `undone` it enters), and a
second use of an invitation needs overlapping accepts (`UsedTwiceOnlyTogether`).

**Bounds and why they are enough.** `MaxCalls` and `MaxTime` bound the calls of the application and
the clock; a run stops when they are used up and everything in progress has ended, hence
`CHECK_DEADLOCK FALSE`. The interactions that matter are pairwise: two devices or members (a third
receives what the second does), two overlapping calls, one record (records of different keys never
touch, and a log with one key has every position of the last entry), two topics. With two to seven
calls the runs have a truncation of one put overtaken by another, a second delivery to a
changed record, a flush interrupted by a second one, a payload lost with its connection, a kick crossing
a join, the dissolution of a group, a purge between dump and restore. `MembershipJoins` treats the
fibers, and the two users who may join, as interchangeable (`SYMMETRY`, sound as the run has no liveness
property); its one invitation comes from the administrator and expires at time 1, within the run.
`GroupShareMembers` has one fiber per member: two make it too large with a fair specification; that
calls overlap changes nothing in `PutAccounted` and `LeftOutAsDeclared` by their theorems.
`DeviceSyncSerial` has one because its property is false otherwise: the race of `DeviceSyncRaceViolation`
makes two devices differ for good, as do a lost send, skewed clocks or a deletion, which the run leaves
out for the same reason. `SessionPeers` has every pair of handshakes: the same two
devices in both directions, of both kinds, and two devices of one account, one of them restarting with
addresses learned before. `MirrorWorker` has a read-back overtaken by a write, and two migrate calls that
overlap at the statement that records a version. `DaemonRequests` has two processes because an exit
event that comes late meets the next one; a third only repeats that. In `ChatAppStore` a window closes
half way through saving a group, and each statement of each handler can be the one that fails; with one
message that arrives a group has one member, and larger ones are left to the theorem. What the bounds
leave out is covered by the theorems where there are some.

**Fairness.** `Progress` (`FlushStep`, `SendStep`) is weakly fair because the event loop, or the Go
scheduler, runs every started call to its end. The handling of arrived messages is weakly fair for
the same reason. In `Node` the devices read what reached them and connect (weakly) and authenticate
(strongly, since connections may break again and again) - that is the condition under which the queue
promises anything - and lost connections and failing sends are finitely many. In `GroupShare` members
keep authenticating, which is when `client.ts` announces subscriptions, and an announcement does not always
miss somebody (`Announce`, strongly: those who have just authenticated are connected); restarts are
finitely many. In `Session` the two sides of a handshake
read the frames that were sent to them (`Step`, weakly): both are handlers of a stream that the
connection delivers in order, and a lost connection ends them. In `Mirror` the worker takes
statements, the page takes answers and started puts go on; in `Daemon` the process works off its
input and the main process reads its output; in `ChatApp` the daemon works and the window handles its
events. All of these are event loops. No fairness makes the application call anything, a window open or
the clock advance.

## Proofs

The theorems of the eight modules `DeviceSyncProofs`, `NodeProofs`, `MembershipProofs`, `GroupProofs`,
`GroupShareProofs`, `MirrorProofs`, `DaemonProofs` and `ChatAppProofs` are proved for all values of
the constants.

- **DeviceSync, log.** `TypeCorrect`; then `LogIsContiguous`, `LogDescribesRecords`,
  `TruncationIsSafe`, `RetentionIsSafe`, for any number of devices, keys, bodies and overlapping calls,
  any skew, loss and restarts. `LogContiguous` alone is not inductive: a truncation must not cut above
  the last number, and it uses a cut computed several steps earlier. The inductive invariant is
  `LogInv`: the type invariant, `LogContiguous`, `RecordMatchesLog` and `TruncationSafe`, which
  carries the promise of a cut from the step that computes it to the step that uses it
  (`SafeTaskStable`: other writes only make more entries droppable). The only assumption is `NoWrap`:
  signed numbers, or no device with the count policy. It is needed: see the unsigned numbers of Go below.
- **DeviceSync, sync.** `GapsAreFound`: what a sync has read of `latestSeq` and `minSeq` stays a bound of
  what it will find (`SyncsSeen`), whatever calls overlap it; under `NoWrap`, too, since it uses
  `LogContiguous`.
- **DeviceSync, puts.** `PutsAreAccountedFor`, without any assumption: overlapping calls, skewed clocks, lost
  sends, restarts, deletions, any retention and width. The property is inductive with the types: each
  step that takes a change from where it was (a message, a call about to send or to apply it, a record)
  puts it in the next place or in a history, which is proved place by place.
- **Node.** `TypeCorrect`, `NothingLost` (`Accounted`) and `DeliveredOnce` (`NoDuplicates`), for any
  payloads, devices, failures, lost connections and overlapping calls and flushes. The facts an induction
  needs are where a payload is: in one place at a time (`QueuesApart`, `SendsApart`: not twice in a
  queue, not in two flushes, not with two calls, and not yet written to a device that the call still has
  to serve), nothing is anywhere that was not accepted (`AcceptedOnly`), and everything accepted and
  not yet written is somewhere (`Located`). `Tracked` says that what was written is unread, read or lost, and
  `NotYetSent` that what is still queued has been written only if a send failed late (`unsure`).
- **Membership.** `TypeCorrect` (its invariant `Typed` adds that a call in an accepting stage has a join
  request, to its own node) and `OnlyGrantedRoles`, for any number of users, invitations and overlapping
  calls: `GrantedOnly` speaks of every copy a role can be read from, which
  makes it inductive: a step copies a role from one of them or an administrator decides on it.
  `InviteUsedTwiceOnlyTogether` needs to know what an accept relies on between two store calls:
  two accepts under way on a node are recorded as overlapping (`AllOverlap`), an admitted request has its
  invitation recorded unless its accept is still under way (`Recorded`), and a request that has passed
  the check of the nonce overlaps every admitted one with its invitation (`PassedTogether`).
- **Group.** `TypeCorrect`, `GroupsAreWellFormed`, `OwnersAreKept` and `CallsAreAtomic`, for any number
  of users and overlapping calls. A whole group is written back, so every version is well-formed even when
  updates are lost (`GroupInv`). `CallsAreAtomic`: the copy that a call is about to write is a next group of
  the present one by one operation of `GroupSpec`, as long as no write has overtaken the call
  (`PendingAllowed`; its base is `NothingBefore`: nobody is at work before the group is made).
  `GroupsAreWellFormed` and `CallsAreAtomic` assume `OwnersInside`.
- **GroupShare.** `TypeCorrect`, with one stored record per id, `NobodyIsLeftOutUnasked` and
  `PutsAreAccountedFor`, for any overlapping calls, clocks, losses and restarts. What a member knows of
  another's subscription, what is announced and what is about to be was declared by that one
  (`KnownAsDeclared`), so whoever is left out has declared it. For `PutAccounted` each
  step that takes a put from one of its places is shown to bring it to another or into a history.
- **Session.** `KnownSafe` and `ReachesSafe`, for any devices, accounts, dials, restarts and lost
  connections. Neither property is inductive: they do not say what a side is about to record or to
  flush. `IInv` adds that a one-way initiator that is about to record has expected the account of the
  peer and that payloads being flushed are for a DID of the other side (`ShakesOK`); that a recorded DID
  is one of the two DIDs of the peer (`AuthedOK`); that messages under way and received are for a DID
  of their receiver (`OutOK`, `GotOK`); and the type of the stored addresses (`FastOK`).
  It assumes that host keys are different (`SessionAssumption`). These theorems stand in `NodeProofs`,
  which extends both models of the node; the specification of `Session` is `SessionSpec` for that reason.
- **Mirror.** `MigrationsSafe`, for any rows, versions, overlapping calls, failures and reloads. The
  invariant looks into both queues: a posted statement of migration `v` implies that the ones before
  `v` are recorded, one that records it that it was executed, and an answer tells the truth about the
  database even if it is read late (`DatabaseOK`, `PostedOK`, `AnswersOK`). `TableIsMirrored`, under the
  same conditions: between calls a row may differ from its record, but then the write's answer has not
  been taken, a read-back is posted or answered with the row as it is now, or a call still has that
  value to put (`Coming`). For that no other answer may take the rows from a call: each call waits for one
  answer at a time (`Flight`).
- **Chat client.** `ShownStored` and `GroupsStored`, for any people, groups, messages, arrivals, failures
  and restarts. Neither property is inductive, because they do not say what the statements under way
  will do. `IInv` says it for each call: which statements a call for its purpose may have left, and what of
  its group is stored already (`CallsOK`), what a resolved answer promises about the database
  (`AnswersOK`: a saved group is there with exactly its members), that at most one call or window
  entry stands for a group (`Tokens`: nothing else touches its members), and for the window that every
  message and contact shown is stored, failed or with a call that will store it (`ShownKept`), and that
  every group shown is stored as it is shown (`GroupsKept`). They assume what the model assumes of its names: no person
  or group is called `Nobody`.
- **Daemon.** `Implements`: the main process implements `RpcSpec`, for any number of processes, calls
  and split lines. What makes a step map to a step is that a number stands for one call wherever it
  still occurs, in the pending requests and in the pipes of every process, the dead ones included
  (`Numbered`), and that a call with a pending request has no outcome yet (`Waiting`). `OneDaemonSafe`:
  its invariant `DInv` adds that without an overlapping start at most one process is neither unborn
  nor gone.

Only model-checked: the liveness properties (`Converges`, `QueuedArrives`, `SubsConverge`,
`HandshakesEnd`, `CallsSettle`, `Settles`, `CreationEnds`), since liveness under fairness and `ENABLED` are
out of the prover's reach, as are induction over data structures and modules with `RECURSIVE` operators
(there are none); and `KeptUntilExpired`, which for overlapping calls is false (a restore or an incoming
record that was compared before a newer put overwrites it). Every other
property of the passing runs is a theorem.

## Observations without a run

Seen while reading and modelling, and left without a run because the repository states no rule, or
because a property above already stands for it:

- Device sync: a device whose clock is behind overwrites a newer remote record and the others skip its
  write; two writes in one millisecond leave two winners; a put that a deletion overtook brings the
  record back (nothing remembers the deletion), although `docs/spec/data-sync-decisions.md:26` keeps
  tombstones forever; a change broadcast while a device is offline is dropped, although
  `devicesync.ts:306-307` counts on store-and-forward; a truncation between `minSeq` and
  `changesSince` makes a gap that `syncWith` does not see; a full dump carries no deletions.
- Device sync in Go: with overlapping puts the count policy reads the smallest sequence number after it
  passed the latest one read before; the unsigned difference wraps and the whole log is truncated
  (`core/internal/devicesync/replication.go:102`). One device with two fibers, six puts,
  three entries to keep and `Width` 64 violate `RetentionSafe`.
- Node: a device that goes offline between the check and the send makes `sendMessage` throw, and nothing
  is queued: `sendToGroup` drops the exception (`client.ts:483-487`) although `client.ts:475-476` says
  that offline members are queued for. `sendMessage` stops at the first device that throws, so later devices are
  not tried; a payload whose connection breaks before it is read is not queued again; a flush
  reaches the one device that authenticated; two flushes may exchange the order of messages.
- Membership: overlapping accepts lose a member, and a positive answer then lacks the invitee, which
  `join.ts:143` and `test/join.test.ts:64` take for granted; an epoch can go back when a publication
  overlaps the application of a snapshot (`network-meta.ts:85-88` and `:110`); a snapshot that overtakes the
  join response is dropped; a lost join response cannot be retried; the last administrator may leave;
  epochs do not survive a restart.
- Group: a call that had read the group before a kick writes the kicked member back (`group.ts:71-86`
  and its siblings); this is a write of an overtaken call.
- Group share: a record put between the widening of a subscription and the arrival of its announcement is
  never sent to the subscriber (`docs/spec/topic-subscription-filtering.en.md:125` counts on the
  announcement); a restore or an incoming record that was compared before a newer put overwrites it
  (`groupshare.ts:430`, `:456-464`), as in device sync; `delete` asks for no permission; the announcement
  of a client with separate user and device identities names the user (`client.ts:223`, `:331-333`) while
  the receiver compares it with the device (`groupshare.ts:272-274`, `:285-286`), so its subscriptions
  never become known; a record at the exact moment of expiry is hidden by `get` but kept by `purge`.
- Session: an initiator that meets the wrong DID leaves the responder waiting until the connection ends
  (`auth.ts:184`); a message that overtakes the end of the handshake is attributed to the host key; fast
  start dials one device of a DID only.
- SQL mirror: rows are put again, with a new timestamp, by every exec on their table, so they win over
  newer records of other devices; an overlapping exec may leave an older row in device sync (the
  variable `behind`); a deleted row keeps its record; statements posted before `close` never settle.
- Daemon process: the exit event of a stopped process that comes after the next start clears the
  reference to the new one, which runs on unasked (the variable `overlapped`); a line in two data events
  loses its answer, and so do the requests of a process that dies: their promises stay pending.
- Chat client: since the answer of a query is an object, stored contacts, requests, groups and messages are
  not shown after a start (`App.tsx:81-104`) nor when a conversation is opened (`App.tsx:287-288`,
  `:308-309`), and no friend request is ever listed (`chat-client/docs/guides/entry-point.md:59` describes accepting one);
  a group whose saving was cut off lacks members for good; the window never learns that a statement
  failed.

## Not modelled

- Node: the Go variant, which authenticates before every message, and the routing of envelope types.
- MyDB: the backend without a worker, `setSyncScope`, dump, restore and the key-value calls; each
  passes one call on.
- Chat client: contacts added by tests, sending friend requests, accepting and rejecting one (none is ever
  listed), export and import, deleting a group,
  the handlers that list or leave networks, the pairing dialog, and the user interface as such.
- Membership: lost join responses, restarts, networks that several users create.
- Roles and permissions: their hierarchy is built before anything runs, so the models take its answers
  as parameters.
- Pairing and rosters are one request and one answer about signed values; the presence directory is a
  map under one mutex; the data root maps names to paths. None keeps state that calls could
  disagree about.
- The DHT and libp2p (libraries; connections are external actions), cryptographic primitives and
  encodings of DIDs, frames, envelopes and invitations (values of the models), the legacy `syncdb`
  packages (superseded by group share and device sync), schema migrations of the Go stores, and
  the proof-of-concept programs.

What would be worth adding next, in this order: the composition of `Mirror` with `DeviceSync`, so that a row put
again by one device meets the newer record of another; persistence and restarts in `Membership`.
