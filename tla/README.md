# Buoyant, in TLA+

Buoyant is a JavaScript implementation of the Raft consensus algorithm. The host
program supplies a transport, the persistence functions and the state machine;
Buoyant supplies everything between them. This directory models the code in
`src/lib` (paths below are relative to the repository), checks the models with
TLC on small clusters, and proves the main results for clusters of every size
with TLAPS.

1. [The system](#1-the-system)
2. [Modules and code](#2-modules-and-code)
3. [The runs](#3-the-runs)
4. [What the code does not keep](#4-what-the-code-does-not-keep)
5. [The proofs](#5-the-proofs)
6. [Fairness](#6-fairness)
7. [What is not modelled](#7-what-is-not-modelled)
8. [Plan](#8-plan)

## 1. The system

Everything runs on one JavaScript thread per server. Concurrency comes from
promises (persistence, the transport, the state machine), timers, and the other
servers.

| component | state | operations |
| --- | --- | --- |
| `roles/Follower.js` | `commitIndex`, `ignoreNextElectionTimeout` | `handleRequestVote`, `handleAppendEntries`, `maybeStartElection` |
| `roles/Candidate.js` | `votesRequired`, `votesAlreadyReceived` | `requestVote`, `handleGrantVote`, `handleRequestVote`, `handleAppendEntries` |
| `roles/Leader.js` | `nextIndex`, `matchIndex`, `pendingApplication`, `commitIndex`, `skipNextHeartbeat` | `sendHeartbeat`, `append`, `markReplication`, `updateFollower`, `handleAcceptEntries`, `handleRejectEntries`, `handleRequestVote` |
| `Raft.js` | the current role | `becomeLeader`, `convertToCandidate`, `convertToFollower`, `append`, `joinInitialCluster`, `close`, `destroy` |
| `State.js` | `currentTerm`, `votedFor`, in memory and persisted | `nextTerm`, `setTerm`, `setTermAndVote`, `replace` |
| `Log.js` | `entries`, `lastIndex`, `lastTerm`, in memory and persisted | `appendValue`, `mergeEntries`, `deleteConflictingEntries`, `commit`, `replace` |
| `LogEntryApplier.js` | `queue`, `busy`, `lastApplied`, `lastQueued` | `enqueue`, `applyNext`, `finish`, `reset`, `destroy` |
| `Scheduler.js` | `queue`, `busy`, `aborted` | `asap`, `run`, `abort`, `crash` |
| `InputConsumer.js`, `MessageBuffer.js`, `Peer.js`, `NonPeerReceiver.js` | the messages that wait, the peer to look at next | `start`, `consumeNext`, `stop`, `take`, `await` |
| `Server.js`, `main.js` | `_allowJoin`, `_allowRestore`, `_closeInProgress`, `_transport` | `restoreState`, `restoreLog`, `join`, `close`, `destroy`, `append` |
| `expose-events.js` | the listeners of each event | `on`, `once`, `removeListener`, `emit` |

How they meet:

* A role owns a Scheduler and an InputConsumer. Every operation of the role
  (a message, a timer, a call of `append()`) goes through the scheduler, which
  runs one at a time and waits for the promise an operation returns.
* An operation changes `State` and `Log` in memory at once, starts the write and
  goes on, in a continuation, when the write is durable. Between the two the
  server can die, and other servers act.
* A role change destroys the old role: its scheduler drops what is queued, its
  consumer stops, its timers end. The message that caused a conversion to
  follower is replayed by the new role; the messages that wait stay in the
  buffers of the peers, which outlive the role.
* `Log.commit()` hands entries to the applier, which outlives the role too: its
  position and the role's `commitIndex` are two accounts of the same thing.
* An error in any of these calls the crash handler of the host, which is
  expected to end the process. The server then restarts from what was persisted.

What is hard, and what makes each part correct:

| part | hard because | correct when |
| --- | --- | --- |
| elections | votes of several candidacies are delayed and duplicated; a voter crashes between deciding and persisting; `votedFor` is not tied to a term | one leader in a term; no vote is told before it is durable; no vote is taken back |
| replication | a follower truncates at once and extends after a write; truncations are not persisted; old messages arrive late | logs match; what is acknowledged survives a crash |
| commitment | replies are duplicated and may belong to an earlier leadership; half of the peers of an even cluster is not an integer | each acceptance counts once; committed entries are on a majority; no two commits differ |
| application | each role starts at `commitIndex` 0; a truncated log has fewer entries than the commit index says; `close()` meets an entry being applied | no entry passed over, none applied before it is committed, `close()` waits |
| dispatch | messages, timers and appends meet an operation in flight, and the role changes under them | nothing interleaves, nothing is lost or handled twice, no peer starves, no `append()` is left without somebody to answer it |
| convergence | the leader's account of a follower (`nextIndex`, `matchIndex`) meets replies to older messages | every entry reaches every follower (it does not, see section 4) |
| lifecycle | `close()` or `destroy()` meets a `join()` that is listening, connecting or cleaning up, a role that is starting, or each other | no restoring under a join or a role; a transport is destroyed once; `join()` and `close()` settle |
| events | a listener calls `on`, `once`, `removeListener`, `close` or `destroy` in the middle of the `emit()` that called it | no event of a role that is over; a removed listener is silent; `once` is once |

The list of hazards, each at its line and with the properties that watch it, is
`hazards` in `PROJECT.json`; `map` there gives the lines that each definition
stands for.

## 2. Modules and code

| module | is |
| --- | --- |
| `Log` | the pure operations of `Log.js` on a sequence of entries |
| `Raft` | the cluster: the three roles, their changes, `State`, `Log`, the network, crashes |
| `RaftProperties` | its type invariant and what it promises |
| `MCRaft` | small clusters for TLC |
| `RaftProofs`, `RaftElectionProofs`, `RaftLogProofs`, `RaftCommitProofs` | theorems about `Raft`: types and durability, elections, logs, commitment; each extends the one before |
| `StateMachine` | abstract: what a state machine may be given |
| `Applier` | `LogEntryApplier.js`, `Log.commit()` and their callers; implements `StateMachine` |
| `ApplierProofs` | theorems about `Applier` |
| `Serial` | abstract: messages handled in order and once, one operation at a time |
| `Dispatch` | `Scheduler.js`, `InputConsumer.js`, `MessageBuffer.js`, the timers and role changes; implements `Serial` |
| `DispatchProofs` | theorems about `Dispatch` |
| `Replication` | a leader and its followers on connections that keep their order, for the convergence of the logs |
| `Events` | the listeners of one event (`expose-events.js`) |
| `Membership` | abstract: the life of a server, from the first `join()` to `close()` |
| `Server` | `Server.js`, what `Raft.js` does for it, and its listeners (extends `Events`); implements `Membership` |
| `EventsProofs`, `ServerProofs` | theorems about `Events` and `Server` |

`Raft` takes from `Dispatch` that operations do not interleave (`Serial`), and
from nobody that messages arrive: its network is the fuzzer's. `Server` takes
from `Raft` which role may follow which, and from `Applier` that the promise of
`finish()` is settled at once, later, or never.

**`Raft`.** Every variable is a function from servers to a field of the code, with
the field's name (`currentTerm`, `votedFor`, `nextIndex`, ...). `log` is
`Log.entries` in memory; `stored` and `storedLog` are what a restart would give
to `State.replace()` and `Log.replace()`. A handler is one action per role and
message type, a branch of the handler one disjunct of it. An operation that
persists is two actions: the first does what the code does before the promise
and leaves a record in `operation[s]`, the second (`Persisted...`) is the
continuation. While `operation[s]` is not `Idle` the server takes no message,
timer or append, which is the scheduler; it may crash (`Restart`), and then the
write in flight took effect or did not, independently for the two writes of
`handleAppendEntries()`.

`messages` holds everything ever sent. Delivering leaves a message where it is,
so that loss, delay, reordering and duplication need no actions of their own:
this is what `src/fuzz/Network.js` and `Simulation.js` do to the servers. A
message holds what its receiver reads. The operations of `Leader.js` that throw
because `nextIndex` passed the end of the log lead to `Crashed`, which only
`Restart` leaves.

Two simplifications, argued in the comments of the modules: the entries of a
message always continue the truncated log, so `mergeEntries()` finds none to
filter or overwrite; and indexes are positions, since entries are only added at
`lastIndex + 1`. The exceptions for unsafe integers are left out.

**`Applier`.** One server. An entry is its index. `FollowerHandleAppendEntries`
commits against a log of any length the truncation leaves, `LeaderCommits` the
entries of the leader's own term, `ChangeRole` starts over at 0, `Restart`
resets the applier to what the state machine saw last. Taking the `undefined`
entry that `commit(0)` enqueues throws: into the crash handler when the applier
went on by itself, into a promise nobody looks at when `enqueue()` did, which
leaves the applier busy for good.

**`Dispatch`.** One server, seen from inside a stretch of synchronous code. A
message is a number, a handler one of the outcomes a handler has: it returns
nothing, returns a promise, or changes the role. `consumer` is the position in
the two loops of `consumeNext()`; `running` is a queue that is being run,
`inFlight` the operations whose promises are pending, `busy` what the scheduler
believes of them. The environment acts only when the program has come
to rest (`AtRest`), as on one thread. An operation may fail in three ways: its
promise is rejected (`Fail`), a leader's handler throws (`Throws`), or the role
it belongs to is over when it completes. A call of `append()` that waits in the
queue is answered when its role ends; one that is `persisting` only when the
write is done, with a rejection if the role is over by then
(`src/lib/roles/Leader.js:208-213`). One whose entry the leader commits is not
answered by that: its promise becomes that of `Log.commit()`
(`src/lib/roles/Leader.js:200`), which the state machine settles when it has applied
the entry (`Answer`), in whatever role the server is by then, and which stays
pending for good when `applyEntry()` fails or `Raft.destroy()` drops the applier's
queue. `AppendsAnswered` says no more than the code does: after a leader is
deposed an append was answered, is being persisted, or was committed.

A message from outside the cluster may be handled after its sender was connected
to, so that it too may make a candidate follow or lead (`Complete`). The two
levels meet in `NothingInterleaves == Work!Spec`.

There is one exception, which `Serial` states: the scheduler is not busy while it
*calls* a function, only once the function returned a promise. A leader's handler
that commits hands the entry to the state machine in the same stretch of code,
and an `applyEntry()` that calls `append()` there starts an operation at once,
which the scheduler forgets when the handler returns
(`src/lib/Scheduler.js:52-78`, action `CommitsAndAppends`). Operations may
overlap from then on (`reentered`), against the comment at the head of that
file (see section 4); messages are still handled in order and once.

**`Replication`.** What is left of `Raft` when nothing goes wrong: one leader, no
crash, connections that lose and reorder nothing. A log is its length, since every
log is a prefix of the leader's; a message is the pair of indexes that
`updateFollower()` computes. `HasRoom` bounds what is in transit: the leader sends
of its own accord only while there is room, answers are always sent.

**`Server` and `Events`.** A promise of the transport or of the applier is an
action of its own, so that every call of the host comes between any two of them;
so is a listener's call and its return. The `Map` of listeners is a sequence, and
`emission.at` is the position of the loop over it, which `delete()` moves as the
language says it does. A `Map` that became empty has left the registry while the
loop still holds it (`orphaned`): what is registered then goes to another `Map`
and is lost when the loop ends. `standing` and `credit` are history: what the
host may expect of a listener, and how often it may still be called. The role's
own work is left out: a role starts, may be closed by a crash handler while it
starts, and its event is emitted. `Phase` maps all this to `Membership`.

Definitions whose name ends in `Faulty` or starts with the name of a definition
below them and ends in `Without...` or `TooEarly` are variants of that
definition with a mistake in it. No specification uses them: put in its place,
each one must make the property it belongs to fail (`mutants` in `PROJECT.json`),
which shows that the property can tell.

## 3. The runs

All finish in less than five minutes with two workers. No run looks for
deadlocks: the bounds let every behaviour come to an end, and so does a crash,
`close()` or a partition in the code.

| run | instance | states | shows |
| --- | --- | --- | --- |
| `elections` | 3 servers, candidacies s1:1, s2:1, s1:2, no entries, 1 crash | 585,898 | `ElectionSafety`, `PersistedBeforeSent`, `StoredVoteKept` |
| `recovery` | 2 servers, candidacies s1:1, s2:2, 2 values, logs of up to 2, 2 crashes | 395,180 | `DurableLog`, `LogMatching`, `CommitsMatch`, `AckedIsStored`, `OnlyLeadersCommit` |
| `partition` | 3 servers, leaders s1 and s2 reach only s3, 2 values, logs of 1, 1 crash | 268,702 | `TypeOK`, `LogMatching` |
| `even` | 4 servers, one of them never reached, 1 entry, 2 crashes | 16,825 | `AcceptsCounted`, `NewCommitsAreAccepted` |
| `applier` | 3 indexes, 4 commits | 213,619 | `TypeOK`, `CaughtUp`, `ClosedWhenApplied`, `NothingPassedOver`, `EntriesAreTaken` |
| `dispatch` | 2 peers and an outsider, 4 messages, 2 appends, 3 role changes, a failure | 326,182 | `TypeOK`, `NoPeerStarves`, `AppendsAnswered`, `NothingInterleaves`, `EverythingIsHandled` |
| `server` | 2 attempts to join, 2 role changes, 2 listeners with 3 calls, 1 restoration | 400,688 | `TypeOK`, `LivesAsPromised`, `TransportsDestroyedOnce`, `HeardInRole`, `FiresOnce`, `ListenersStay`, `RemovedIsSilent`, `JoinsSettle`, `CloseSettles` |
| `lost_commit` | 3 servers, partition as above, no crash | stops | `StateMachineSafety` violated |
| `stale_commit` | 3 servers, s1 leads, is deposed and leads again, 1 entry; only s2 can vote | stops | `CommitsAreAccepted` violated |
| `applied_twice` | 3 indexes, 3 commits | stops | `AppliedInOrder` violated |
| `applier_stuck` | 3 indexes, 3 commits | stops | `AllEntriesAreTaken` violated |
| `replication_stalls` | 1 follower, logs of up to 1 restored and 2 in all, 2 messages in transit | stops | `EntriesReachFollowers` violated |

The bounds, and why they are enough:

* `Candidacies` lists which server may become candidate in which term. It is the
  only bound on terms: a server that saw a newer term still moves to it. The
  sets are named in `MCRaft` for the history they allow: a split vote and a
  retry, two leaders in adjacent terms, a handover. Two candidacies in
  one term are needed for `ElectionSafety`, two terms for everything a
  truncation can do, three for a reply that comes back to the same leader.
* `Links` lists the pairs between which messages are ever delivered. The
  partition of two leaders with one follower between them is where conflicting
  entries meet; leaving out the other links only removes behaviours in which the
  leaders depose each other sooner.
* `stale_commit` has the one constraint on states, `TruncatedBeforeNext`: the
  candidacies of s3 and the second one of s1 come only after the truncations
  that the violation needs. A constraint leaves states out, so it is used
  where a violation is looked for and in no run that passes.
* `MaxLogLength` stops a leader from appending to a log of that length: 0 for
  votes (the comparison of logs is then exercised by the other runs), 2 for
  what a write displaces, 1 where two values already conflict.
* `MaxRestarts` 1: every crash point of one server against every step of the
  others; 2 where it is affordable, so that both servers crash, or one crashes
  twice. The theorems cover any number.
* `MaxIndex`, `MaxCommits`: with 3 entries a commit can be behind, at, one past
  and two past what was queued; the fourth commit comes after a role change, a
  commit of 0 and the one that meets it.
* `NPeers`, `MaxMessages`, `MaxAppends`, `MaxRoles`: two peers are the least for
  which the order of consumption matters; with four messages, three of one peer
  and one of the other, an unfair order shows in `passed`; two appends, so that
  the commit of one can lead to the other; three role changes go through all
  roles.
* `MaxAttempts`, `MaxChanges`, `MaxCalls`, `MaxRestores` of `server`: a join that
  failed and one after it; two role changes reach the role whose event is heard
  (`Event`) a second time, so that a listener that stayed is called again; three
  calls are a registration, its repetition and a removal, before or during an
  `emit()`; whether restoring is allowed shows in one restoration.
* `MaxInTransit` 2 of `replication_stalls`: the heartbeat that overtakes the
  acceptance. With 1 and empty logs to start with, `EntriesReachFollowers`
  holds; with 1 and a restored entry it fails for the other reason given in
  section 4.
* Values are symmetric where two of them are used (`AnyValue`), and so are the two
  reachable followers of `even` (`EitherFollower`); the other servers are not,
  because the candidacies and links name them.

## 4. What the code does not keep

Five properties state what the README, a comment or the fuzzer says, and TLC
finds a behaviour of the code against each. They are listed under `findings`.

* **A committed entry can be lost** (`lost_commit`). `Log.mergeEntries()` drops
  every entry past `prevLogIndex` (`src/lib/Log.js:93`), also for a message that
  carries none. The heartbeat with which a leader claims its office, delivered
  after the follower accepted an entry, takes that entry away again. The leader
  has committed it on the strength of the acknowledgement, and another server
  can be elected with the follower's vote and commit a different entry. Raft
  only removes an entry that conflicts with one in the message.
* **A leader commits what no follower has** (`stale_commit`). The leader compares
  the term of a reply only to see whether it is newer
  (`src/lib/roles/Leader.js:157`). A server that led, was deposed and leads again
  takes an old `AcceptEntries` for a new one, although the comment at lines
  148-149 wants stale replies to have no effect, and counts it towards what it
  appended since. In the run s1 leads in term 1 and s2 accepts its first entry; a
  heartbeat that was sent before takes it from s2's log, s2 votes for s3, and s3's
  heartbeat takes it from s1's. Elected in term 3, s1 appends another entry at
  the same index and commits it on the acceptance of term 1, against the comment
  at lines 217-219. Two more consequences of such a reply: `nextIndex` can pass
  the end of the leader's log, where `updateFollower()` throws; and an entry
  appended after it may be below `nextIndex` already, so that
  `handleAcceptEntries()` never counts the acceptance of it.

  `AcceptsCounted` and `NewCommitsAreAccepted` are therefore about leaders that no
  acceptance of an earlier term was sent to (`RepliesAreNew`): the first says
  that the counters agree with `matchIndex`, the second that for what is
  committed there are the followers' own acceptances of the leader's term.
* **Entries are applied more than once** (`applied_twice`). `Log.commit(index)`
  enqueues the entry at `index` whether or not it was enqueued before
  (`src/lib/Log.js:136`). A follower that is behind the leader's commit index
  commits the last entry it has again with every heartbeat, and a new role or a
  restart begins anew from 0. What does hold is the weaker `NothingPassedOver`.
* **A commit that meets an empty log stops application for good**
  (`applier_stuck`). `commit(0)` enqueues `undefined`
  (`src/lib/roles/Follower.js:171`), and the commit after it fails inside the
  applier, which stays busy. `EntriesAreTaken` shows that this is the only way,
  but for a state machine that fails.
* **An entry may never reach a follower** (`replication_stalls`), though nothing is
  lost, reordered or delayed for ever. A rejection is ignored unless its index is
  past `matchIndex` (`src/lib/roles/Leader.js:151`), and `matchIndex` is wrong in
  two ways. First, a heartbeat with the old `prevLogIndex` that was sent before
  the acceptance of an entry arrived makes the follower drop that entry again;
  the leader counts it as there, and every rejection that says otherwise has no
  effect. Second, a leader begins with `matchIndex` 0 and a follower that has the
  leader's log already gives it no reason to change that
  (`src/lib/roles/Leader.js:165`), so `updateFollower()` takes the follower for one
  that has to converge first and sends it heartbeats only (line 238). In that
  state each acceptance is answered by another heartbeat, at once and for good.

Three more disagreements with comments are part of the models, which would not be
faithful without them, and the properties that hold say how far the comments are
true:

* Operations overlap when `applyEntry()` calls `append()`. `Scheduler.run()` is busy
  only once the function it called has returned a promise
  (`src/lib/Scheduler.js:55`, 74). An `append()` from within `applyEntry()`, which a
  handler that commits calls, starts at once, and is forgotten when the handler
  returns; the next message starts a second operation, against the comment at
  lines 1-6. `NothingInterleaves` shows that there is no other way.
* `on()` after `on()` for one listener makes it fire once. Its flag is a comparison
  (`src/lib/expose-events.js:62`), and `false` is `false`; the comment above it says
  that a listener can only come to fire once if it was to fire once before.
  `ListenersStay` therefore speaks of a listener registered by one `on()` and any
  number of `once()`.
* `createTransport()` that throws leaves the server unable to join or restore
  (`stuck` in `Membership`), although the comment at `src/lib/Server.js:114-117` wants
  the caller to be able to retry "especially if the error came from the provided
  transport": the call is outside of the `try`. `LivesAsPromised` shows that no
  other failure of `join()` does.

Some of what the models show is not against any statement of the repository:

* A listener registered during the `emit()` that removed the last one is lost, and
  a `once()` listener that registers itself again while it is called is deleted
  by the `finally` of that call. `ListenersStay` is about registrations outside
  of an `emit()`, `FiresOnce` about "at most".
* A join in progress survives `close()`, and the role it starts is not ended by
  another `close()`, which returns the first promise; `destroy()` ends it.
* `destroy()` after a `close()` that waits for the applier leaves the promise of
  `close()` pending for good, and with it that of every `append()` whose entry waits in
  the applier's queue. So does a state machine that fails.

The properties that hold are stated next to these, so that it is clear where the
line runs: logs match and acknowledgements survive crashes even though a later
heartbeat may undo them, and commits of one term are never at odds
(`CommitsMatch`).

## 5. The proofs

TLAPS checks the following for every value of the constants. For `Raft` these are
every finite set of servers, every set of values and every bound: `Candidacies`
may be all of `Server \X Nat`, and `MaxLogLength` and `MaxRestarts` are any
numbers. The assumptions are `ServerAssumption` (finitely many servers, and
`null` is none of them) and `BoundAssumption` (the bounds have the right kind).
For `Dispatch` they are any number of peers from 1 on (with none the code
crashes, see section 7) and any number of messages, appends and role changes
(`DispatchAssumption`).
For `Server` they are any set of listeners and any number of attempts to join,
role changes, restorations and calls; its `ServerAssumption` says that `Event`
is a role and that the bounds are numbers.

| theorem | in | says |
| --- | --- | --- |
| `TypeCorrect` | `RaftProofs` | `Spec => []TypeOK` |
| `DurableLogHolds` | `RaftProofs` | no crash makes a server forget an entry of its log |
| `AckedIsStoredHolds` | `RaftProofs` | what a follower acknowledges is in its log and persisted at that moment |
| `PersistedBeforeSentHolds` | `RaftElectionProofs` | no server tells of a term or vote that a crash could take back |
| `StoredVoteKeptHolds` | `RaftElectionProofs` | a persisted term never goes back, a persisted vote is never changed in its term |
| `ElectionSafetyHolds` | `RaftElectionProofs` | no term has two leaders |
| `LogMatchingHolds` | `RaftLogProofs` | two logs with an entry of one term at one index are the same up to there |
| `AcceptsCountedHolds` | `RaftCommitProofs` | while its replies are new, a leader counts each follower that accepted an entry once |
| `NewCommitsAreAcceptedHolds` | `RaftCommitProofs` | while its replies are new, a leader commits only what followers that, with it, are a majority sent it an acceptance of in its term |
| `OnlyLeadersCommitHolds` | `RaftCommitProofs` | only a leader that moves its commit index adds to what is committed |
| `CommitsMatchHolds` | `RaftCommitProofs` | commits at one index in one term are the same, and a log that holds a committed entry holds only committed ones before it |
| `ApplierTypeCorrect` | `ApplierProofs` | `Spec => []TypeOK`, for `Applier` |
| `CaughtUpHolds` | `ApplierProofs` | an idle applier has applied all that its role committed |
| `ClosedWhenAppliedHolds` | `ApplierProofs` | `close()` resolves only when nothing waits or is being applied and the state machine got every entry up to the last one queued |
| `NothingPassedOverHolds` | `ApplierProofs` | `Applier` implements `StateMachine` |
| `TypeOKHolds` | `DispatchProofs` | `Spec => []TypeOK`, for `Dispatch` |
| `NoPeerStarvesHolds` | `DispatchProofs` | a role passes a waiting peer by with at most one message of each other peer and one from outside |
| `AppendsAnsweredHolds` | `DispatchProofs` | when the server is not the leader, every `append()` was answered, is being persisted, or was committed and is left to the state machine |
| `NothingInterleavesHolds` | `DispatchProofs` | `Dispatch` implements `Serial` |
| `ServerTypeCorrect` | `ServerProofs` | `Spec => []TypeOK`, for `Server` |
| `TransportsDestroyedOnceHolds` | `ServerProofs` | every transport is destroyed once, and the open one is held |
| `HeardInRoleHolds` | `ServerProofs` | a role is heard of only by listeners of a server that is in it, or was closed by one of them |
| `FiresOnceHolds` | `ServerProofs` | what `once()` registered is called no more often than `once()` was |
| `ListenersStayHolds` | `ServerProofs` | what `on()` registered stays until it is removed |
| `RemovedIsSilentHolds` | `ServerProofs` | what was removed is not called |
| `LivesAsPromisedHolds` | `ServerProofs` | `Server` implements `Membership` |

**Types and durability** (`RaftProofs`). `TypeOK` is not inductive: a leader
commits the entry at the index of a `pendingApplication`, and only if its log has
that entry is the result typed. `TypeInv` adds `PendingInLog`: pending indexes
are in the log, only a leader has any, and only a leader is in the middle of an
append. For a write, the entries displace what was persisted from
`LastIndex(log) + 1` on, so the result is a sequence only when at least the log
was persisted: `Inv` adds `LogIsStored`, entry by entry, and `DurableLog` is the
same fact with `IsPrefix`. One lemma per action; truncation and the write are
where `LogIsStored` is at stake.

**Elections** (`RaftElectionProofs`). A `RequestVote` says that its sender voted
for itself and a `GrantVote` that it voted for its addressee; call both ballots.
`VoteInv` says three things. `Remembers`: memory and storage differ only while
the difference is being written, and the write moves to a newer term or adds a
vote to a term without one. `Remembered`: the sender of every message has
persisted its term, and its vote if it is a ballot of that term. `VotesOnce`:
two ballots of one server and term are for the same candidate. The first two are
needed for the third: a new ballot repeats the persisted vote, and every older
ballot of that term does too. That `handleRequestVote()` consults `votedFor`
without its term is harmless because a vote left from an older term can only
make it refuse. `VoteStep` says what any step does to all this, each action is
shown to be one, and only `VoteStepInv` looks at all servers.

`ElectionInv` says that a candidate's counters are backed by ballots
(`Candidates`) and every leader by those of a majority (`ElectedByMajority`).
The arithmetic is in `HalfAndOneIsMajority` and `OneMoreVote`: half of the
peers, rounded up, with the server itself is a majority, odd or even. Two
majorities share a server, which voted once: `OneLeaderPerTerm`.

**Logs** (`RaftLogProofs`). That two logs match cannot be proved from the logs
alone: what a follower merges comes from a message, perhaps an old one, and what
a crash restores from storage. The argument is about links. A link is an entry
with its index and the term of the entry before it, and `AllLinks` are those of
all logs, of all that is stored and of all messages that were sent. `Agree` says
that two links of one index and term are the same link, and log matching follows
from it by going back link by link (`SameUpToMatch`, which looks at the last
difference before the entries that match instead of using induction). No step but a
leader's append creates a link; truncations, writes, restarts and merges copy
them (`ShorterLinks`, `SuffixLinks`, `ExtendedLinks`). That
the created link is new needs the rest of `LogInv`: whatever is known of a term is
of a term that somebody was elected in (`KnownOfElected`), and no further than the
log of its leader while it leads (`LeaderHasKnown`); the entries of a merge in
flight are those of an update that was sent (`Heard`). `LeadInv` says how leaders
relate to the history `elected`: a server that was elected never forgets it, so
that it is elected in one term only once, and by `ElectionSafety` nobody else is.

**Counting** (`RaftCommitProofs`). `ReachInv`: no message of a leader's term, and
no answer to one, reaches past the end of its log. `CountInv` says how the
numbers of a leader hang together: `matchIndex` is below `nextIndex`, what waits
is past `commitIndex` and in order, no follower is between having an entry and
not having it (`WaitingCounted`), so that `markReplication()` counts a range of
indexes for a follower exactly when `matchIndex` passes that range. While the
replies are new the counter is exactly half of the peers minus those whose
`matchIndex` is as far (`ExactlyCounted`). With an old reply it can be too high,
but never too low, which holds for all leaders. None of this says what a
follower has: `matchIndex` is the leader's account. `MatchesReplies` says that
behind it is an acceptance that the follower sent to this server, in one of its
terms; when the replies are new it is of the present one, and that turns half of
the peers in the leader's account into the acceptances that
`NewCommitsAreAccepted` counts.

**Commitment** (`RaftCommitProofs`). A follower commits from its own log, which it has
just truncated, so `OnlyLeadersCommit` rests on log matching: what the leader
said is committed was committed by a leader whose log agrees with the
follower's. But the entries the message was made from may be in no log any more,
since followers drop entries that match and leaders crash. `CommitInv` therefore
speaks of links that were ever created: there is a set of links with all
that exist now, in which links still agree (`EverCreated`), and every update was
made from a log of such links whose beginning, up to what the update says, was
committed (`Told`). The set exists at first and can be extended with every
append; it need not be a variable of the model. Every committed entry, too, was at
the end of a committed part of a log of such links (`FromLogs`), and
`CommitsMatch` follows as log matching does, with that log in the place of one
of the two. It is what remains of `StateMachineSafety`: two different commits at one
index, which `lost_commit` shows, are always of different terms.

**The applier** (`ApplierProofs`, for every `MaxIndex` and `MaxCommits`, by
`ApplierAssumption`). What makes an application legal is
decided when its entry is queued, so `ApplierInv` is about the queue.
`Taken` is what was applied or is being applied, and `TakenInOrder` says that
everything before a taken entry was applied. `QueuedInOrder` carries that over
to what waits: before each entry in the queue come all the smaller indexes, or
they were taken (`Ordered`); and as long as the applier is not closed every index
up to `lastQueued` was taken or is queued (`Covers`), which is what a commit of a
later index relies on. `lastQueued` may go back, when an entry is
committed again, without harm to either. `EndsInOrder` says
where the applier stops: at `lastQueued` when nobody closed it, and otherwise at
the fake entry, which is the last of the queue. That entry has the index
`lastQueued` whatever was applied, so it is not enough for `ClosedWhenApplied` to
look at `lastApplied`: once the fake entry is taken `Covers` says that the indexes
up to `lastQueued` were all taken, and as nothing is being applied then, all
applied. `CaughtUp` follows from the other half. `TakenHead`,
`AppendedOther` and `AppendedEntries` are the operations of the queue, and the
only proofs that look at positions.

**Dispatch** (`DispatchProofs`). The parts of `Inv`, and what each is for:

* `Buffered`: what waits for a peer is what arrived and was not handled, in
  order. This is half of the refinement.
* `QueueIsFresh`, `IdleMeansEmpty`, `OneAtATime`: the queue is that of the role
  in office, it is empty when the scheduler is idle, and nothing is in progress
  while the scheduler runs an item or could, until `applyEntry()` calls
  `append()`. This is the other half: it is why an item that is taken from the
  queue finds `Free` true. It is not obvious of the code, because a role change
  starts a scheduler that is not busy; it does so only from within the operation
  that is over by then.
* `OfRole`, `AppendsKnown`: an append that is queued or waits for followers
  belongs to a leader in office.
* `OneMessage`: the consumer reads on only when the message it offered was
  handled, so that there is one message in the queue or being handled at most;
  and it has moved on to the next peer by then.
* `LookedAt`, `TurnComes`: a loop of `consumeNext()` that has found nothing yet
  found nothing for the peers it looked at; and for each peer that waits, the
  messages that passed it, the one that is queued, and the peers that the
  consumer looks at before it are `NPeers` together at most. `NoPeerStarves` is
  the consequence; by itself it is not inductive, since nothing says where the
  consumer is.

Each action is shown to keep each part, and to be a step of `Serial` or none
that it sees.

**Listeners** (`EventsProofs`). `EventsInv` is what the operations of `Events`
keep, whoever calls them. `IsMap`: no listener has two entries. `LoopInMap`: the
loop has passed no more entries than there are, unless its `Map` is orphaned.
`Expected`: how a listener's standing shows in the `Map`. It has to know of the
one listener that is being called and will be deleted when it returns
(`Leaving`): a listener that fires once may have used up its credit and still
have its entry, but only then. `RemovedFromMap`, `AddedToMap` and `ChangedInMap`
are about sequences alone, one for each operation of a `Map`; they say what is
held afterwards, so that no other proof looks at positions.

**The server** (`ServerProofs`). `OneAttempt`: at most one attempt to join is in
progress, while it is there is no role, and a server that was not closed holds
its transport. `Allowed` says what the two permissions imply, and `OneTransport`
that the transport held is the open one; without it `close()` after a failed
join could destroy that join's transport again. `EmitsItsRole` extends
`HeardInRole` to the time between two listeners, when nothing of the host runs.
The refinement is by cases over the actions: each is a step of `Membership` or
leaves `Phase`, the straggling join and the restorations alone, and the same
invariant tells which.

**Only model-checked.** Every invariant and every action property of the passing
runs is a theorem, and so are the three refinements (of `StateMachine`, `Serial`
and `Membership`, without the fairness that the detailed specifications add).
What is left to TLC is out of the prover's reach: liveness under fairness
(`EntriesAreTaken`, `EverythingIsHandled`, `JoinsSettle`, `CloseSettles`,
`EntriesReachFollowers`) and `ENABLED`. Induction over data and recursive operators
are out of its reach too; no module here needs them. The properties of section
4 are refuted by TLC, not proved.

## 6. Fairness

* `Raft` has none: all its properties are about safety, and neither the network
  nor the timers promise anything.
* `Applier!FairSpec`: weak fairness of "the state machine answers". The host's
  `applyEntry()` returns a promise that settles, in success or in failure;
  nothing else is assumed, and the calls of `commit()` are not fair.
* `Dispatch!Spec`: weak fairness of `Program`, since code that can run does, and
  strong fairness of `Complete \/ Fail`, since the promises of the host
  (persistence, connections) settle. It is strong because they settle on the same
  thread: the timers of the program may run in between, again and again, but the
  event loop gets to the promise. Messages, timers, appends and `close()` are not
  fair.
* `Server!Spec`: weak fairness of `Program` (the code, and listeners that return or
  throw), of `ApplierSettles` (the state machine answers) and of each attempt's
  `Transport` (the promises of `listen()`, `connect()` and `destroy()` settle). The
  host's calls and the role changes are not fair.
* `Replication!Spec`: weak fairness of the heartbeat interval and of the delivery
  and handling of what was sent. It promises all that a network can, so what
  fails under it fails for the code's reasons.

## 7. What is not modelled

* In `Server`: several addresses are one connection that settles once (that is
  what `Promise.all()` makes of them), and several events are one, since each has
  its own listeners. Which error a promise is rejected with is left out. So is a
  role that is deposed by a message it consumes in its own `start()`; that a crash
  handler closes the server there is modelled.
* In `Dispatch`: streams whose `read()` throws, and a second failure after the
  crash handler was called.
* `Address.js`, the option checks of `main.js`, `Entry.js` as a class,
  `Timers.js`, `symbols.js`, `process.js`: pure or thin. Timers are actions that
  may happen at any time they are set.
* What the host supplies (`persistEntries`, `persistState`, `applyEntry`, the
  transport) is modelled by how `src/lib` uses it.
* The fuzzer (`src/fuzz`): what it does to servers is the network and the
  crashes of `Raft`; what it verifies is stated in `RaftProperties`. Its queues,
  clocks and reports are a test harness. `example/` is a host.
* Messages from servers outside the cluster are part of `Dispatch` but not of
  `Raft`, and so is a cluster with one server, which has no peers to consume
  from.
* A peer whose connection cannot be made, and errors of the handlers other than
  those named above: they end in the crash handler, as `Restart` from any state
  does.

## 8. Plan

Done, in this order: `Log`, `Raft` with `RaftProperties`, the runs over them,
`RaftProofs`, `RaftElectionProofs`, `Applier` with `StateMachine`, `Dispatch` with
`Serial`, `Replication`, `Events`, `Server` with `Membership`, `EventsProofs`,
`ServerProofs`, `ApplierProofs`, `RaftLogProofs`, `RaftCommitProofs`,
`DispatchProofs`.

Next, in the order of their worth:

* an invariant of `Replication` that says how far the leader's account of a follower
  may be from the follower's log, which is the safety half of
  `EntriesReachFollowers`;
* the hazards that no property covers yet (`note` in `PROJECT.json`).
