------------------------------ MODULE Applier ------------------------------
(***************************************************************************)
(* How one server's committed entries reach its state machine: Log.commit  *)
(* (src/lib/Log.js), the queue of src/lib/LogEntryApplier.js, and what its *)
(* callers do: a follower or leader commits, a new role starts over with a *)
(* commitIndex of 0, and a server that restarts resets the applier to the  *)
(* entry its state machine last applied.                                   *)
(*                                                                         *)
(* An entry is known by its index.  The log itself is the number of its    *)
(* entries: a follower's log may shrink and grow again.                    *)
(***************************************************************************)
EXTENDS Integers, Sequences, SequencesExt

CONSTANTS
  MaxIndex,        \* bound: length of the log
  MaxCommits       \* bound: number of calls of commit()

ASSUME ApplierAssumption == MaxIndex \in Nat /\ MaxCommits \in Nat

VARIABLES
  role,          \* "Follower" or "Leader"
  commitIndex,   \* of the role
  electedAt,     \* the length of the log when a leader took office
  lastIndex,     \* Log.lastIndex, in memory
  storedIndex,   \* the length of the log a restart would restore
  queue,         \* LogEntryApplier.queue
  current,       \* the item taken from the queue last, while busy
  lastApplied,   \* LogEntryApplier.lastApplied
  lastQueued,    \* LogEntryApplier.lastQueued
  finished,      \* the promise of finish(): not asked for, waiting, resolved,
                 \* or never to be resolved
  crashed,       \* the crash handler was called
  applied,       \* history: the indexes the state machine applied
  allowed,       \* history: the highest index passed to commit()
  commits        \* number of calls of commit()

roleVars    == <<role, commitIndex, electedAt>>
logVars     == <<lastIndex, storedIndex>>
applierVars == <<queue, current, lastApplied, lastQueued, finished, crashed,
                 applied>>
historyVars == <<allowed, commits>>
vars == <<roleVars, logVars, applierVars, historyVars>>

-----------------------------------------------------------------------------
(* The queue *)

Nothing == [kind |-> "nothing", index |-> 0]

Item(index) == [kind |-> "entry", index |-> index]

(* What commit(0) enqueues: there is no entry 0.                           *)
NoEntry == [kind |-> "undefined", index |-> 0]

FinishItem(index) == [kind |-> "finish", index |-> index]

Busy == current # Nothing

(* A faulty variant: the applier forgets to go on with the queue.          *)
TakeNextFaulty(rest) ==
  /\ current' = Nothing
  /\ queue' = rest
  /\ UNCHANGED <<finished, crashed>>

(* applyNext(), called by an item that is done.  The finish item is done   *)
(* at once and goes on with what is behind it, if anything is; a missing   *)
(* entry throws, which ends up with the crash handler.                     *)
TakeNext(rest) ==
  LET finishes == rest # << >> /\ Head(rest).kind = "finish"
      next     == IF finishes THEN Tail(rest) ELSE rest
  IN  /\ finished' = IF finishes THEN "yes" ELSE finished
      /\ \/ /\ next = << >>
            /\ current' = Nothing
            /\ queue' = << >>
            /\ UNCHANGED crashed
         \/ /\ next # << >>
            /\ Head(next).kind # "finish"
            /\ current' = Head(next)
            /\ queue' = Tail(next)
            /\ crashed' = (crashed \/ Head(next).kind = "undefined")

(* Three faulty variants: without the entries before the one that is       *)
(* committed, without that one, and from one too early.                    *)
IndexesUntilWithoutOthers(index) == << index >>

IndexesUntilWithoutItself(index) ==
  [i \in 1 .. (IF index <= lastQueued + 1 THEN 1 ELSE index - lastQueued - 1) |->
     IF index <= lastQueued THEN index ELSE lastQueued + i]

IndexesUntilTooEarly(index) ==
  [i \in 1 .. (IF index <= lastQueued THEN 1 ELSE index - lastQueued + 1) |->
     IF index <= lastQueued THEN index ELSE lastQueued + i - 1]

(* The indexes that commit(index) enqueues: those that no earlier commit   *)
(* did, and `index` itself whether or not an earlier one did.              *)
IndexesUntil(index) ==
  IF index <= lastQueued THEN << index >>
  ELSE [i \in 1 .. index - lastQueued |-> lastQueued + i]

(* Log.commit().  While the applier is idle the first item is taken at     *)
(* once.  If what is taken then is a missing entry that an earlier commit  *)
(* left there, enqueue() throws after it took it: the items after the      *)
(* first are not enqueued, and the applier stays busy for good.            *)
Commit(index) ==
  /\ commits < MaxCommits
  /\ commits' = commits + 1
  /\ allowed' = IF index > allowed THEN index ELSE allowed
  /\ UNCHANGED <<lastApplied, finished, crashed, applied>>
  /\ IF index = 0
     THEN /\ queue' = Append(queue, NoEntry)
          /\ UNCHANGED <<current, lastQueued>>
     ELSE LET items == [i \in 1 .. Len(IndexesUntil(index)) |->
                          Item(IndexesUntil(index)[i])]
              stuck == ~Busy /\ queue # << >>
              all   == queue \o IF stuck THEN << Head(items) >> ELSE items
          IN  /\ lastQueued' = Last(all).index
              /\ current' = IF Busy THEN current ELSE Head(all)
              /\ queue' = IF Busy THEN all ELSE Tail(all)

-----------------------------------------------------------------------------
(* The callers *)

Running == ~crashed /\ finished = "no"

Min2(a, b) == IF a < b THEN a ELSE b

(* A follower truncates its log and commits against what is left of it.    *)
FollowerHandleAppendEntries(prevLogIndex, leaderCommit) ==
  /\ Running
  /\ role = "Follower"
  /\ prevLogIndex <= lastIndex
  /\ lastIndex' = prevLogIndex
  /\ \/ /\ leaderCommit > commitIndex
        /\ commitIndex' = Min2(leaderCommit, prevLogIndex)
        /\ Commit(commitIndex')
     \/ /\ leaderCommit <= commitIndex
        /\ UNCHANGED <<commitIndex, applierVars, historyVars>>
  /\ UNCHANGED <<role, electedAt, storedIndex>>

(* A leader commits the entries of its own term, at their turn.            *)
LeaderCommits ==
  /\ Running
  /\ role = "Leader"
  /\ LET index == IF commitIndex > electedAt THEN commitIndex + 1
                                             ELSE electedAt + 1
     IN  /\ index <= lastIndex
         /\ commitIndex' = index
         /\ Commit(index)
  /\ UNCHANGED <<role, electedAt, logVars>>

(* An entry that a follower merged or a leader appended is persisted.      *)
LogGrows ==
  /\ Running
  /\ lastIndex < MaxIndex
  /\ lastIndex' = lastIndex + 1
  /\ storedIndex' = lastIndex + 1
  /\ UNCHANGED <<roleVars, applierVars, historyVars>>

ChangeRole ==
  /\ Running
  /\ commitIndex' = 0
  /\ role' = IF role = "Leader" THEN "Follower" ELSE "Leader"
  /\ electedAt' = IF role = "Leader" THEN 0 ELSE lastIndex
  /\ UNCHANGED <<logVars, applierVars, historyVars>>

(* A faulty variant: the fake entry overtakes the entries that wait.        *)
FinishFaulty ==
  /\ finished' = IF Busy THEN "waiting" ELSE "yes"
  /\ queue' = IF Busy THEN << FinishItem(lastQueued) >> \o queue ELSE queue

(* LogEntryApplier.finish(): a fake entry resolves once it is its turn.     *)
Finish ==
  \/ /\ ~Busy
     /\ finished' = "yes"
     /\ UNCHANGED queue
  \/ /\ Busy
     /\ finished' = "waiting"
     /\ queue' = Append(queue, FinishItem(lastQueued))

(* Raft.close() leaves the role and then waits for the queue.              *)
Close ==
  /\ Running
  /\ Finish
  /\ UNCHANGED <<roleVars, logVars, current, lastApplied, lastQueued, crashed,
                 applied, historyVars>>

(* Raft.destroy() leaves the role and drops the queue, also that of an      *)
(* earlier close(), whose promise is then never resolved.                   *)
Destroy ==
  /\ ~crashed
  /\ finished \in {"no", "waiting"}
  /\ finished' = "never"
  /\ queue' = << >>
  /\ UNCHANGED <<roleVars, logVars, current, lastApplied, lastQueued, crashed,
                 applied, historyVars>>

-----------------------------------------------------------------------------
(* The state machine *)

ApplyEntrySucceeds ==
  /\ ~crashed
  /\ current.kind = "entry"
  /\ applied' = Append(applied, current.index)
  /\ TakeNext(queue)
  /\ lastApplied' = IF finished' = finished THEN current.index
                                            ELSE Head(queue).index
  /\ UNCHANGED <<roleVars, logVars, lastQueued, historyVars>>

ApplyEntryFails ==
  /\ ~crashed
  /\ current.kind = "entry"
  /\ crashed' = TRUE
  /\ UNCHANGED <<roleVars, logVars, queue, current, lastApplied, lastQueued,
                 finished, applied, historyVars>>

(* A new process: Server.restoreLog() resets the applier to what the state *)
(* machine last applied.                                                   *)
Restart ==
  /\ finished = "no"
  /\ role' = "Follower"
  /\ commitIndex' = 0
  /\ electedAt' = 0
  /\ lastIndex' = storedIndex
  /\ queue' = << >>
  /\ current' = Nothing
  /\ lastApplied' = IF applied = << >> THEN 0 ELSE Last(applied)
  /\ lastQueued' = lastApplied'
  /\ crashed' = FALSE
  /\ UNCHANGED <<storedIndex, finished, applied, historyVars>>

-----------------------------------------------------------------------------
Init ==
  /\ role = "Follower"
  /\ commitIndex = 0
  /\ electedAt = 0
  /\ lastIndex = 0
  /\ storedIndex = 0
  /\ queue = << >>
  /\ current = Nothing
  /\ lastApplied = 0
  /\ lastQueued = 0
  /\ finished = "no"
  /\ crashed = FALSE
  /\ applied = << >>
  /\ allowed = 0
  /\ commits = 0

Next ==
  \/ \E prevLogIndex, leaderCommit \in 0 .. MaxIndex :
       FollowerHandleAppendEntries(prevLogIndex, leaderCommit)
  \/ LeaderCommits
  \/ LogGrows
  \/ ChangeRole
  \/ Close
  \/ Destroy
  \/ ApplyEntrySucceeds
  \/ ApplyEntryFails
  \/ Restart

Spec == Init /\ [][Next]_vars

(* The state machine answers every entry it is given, one way or another.  *)
FairSpec == Spec /\ WF_vars(ApplyEntrySucceeds \/ ApplyEntryFails)

-----------------------------------------------------------------------------
(* Properties *)

(* Every variable holds a value of the kind the code gives it; the state    *)
(* machine is never handed an entry 0.                                     *)
TypeOK ==
  /\ role \in {"Follower", "Leader"}
  /\ {commitIndex, electedAt, lastIndex, storedIndex, lastApplied, lastQueued,
      allowed, commits} \subseteq Nat
  /\ queue \in Seq([kind : {"entry", "undefined", "finish"}, index : Nat])
  /\ current \in [kind : {"nothing", "entry", "undefined"}, index : Nat]
  /\ finished \in {"no", "waiting", "yes", "never"}
  /\ crashed \in BOOLEAN
  /\ applied \in Seq(Nat \ {0})

(* The state machine applies only what was committed and passes over no    *)
(* entry, through role changes, truncations and restarts: Log.commit()     *)
(* enqueues every entry before the one it is called with.                  *)
AtLeastOnce == INSTANCE StateMachine WITH
  allowed <- allowed,
  applied <- applied

NothingPassedOver == AtLeastOnce!Spec

(* When the applier is idle everything the role committed was applied,     *)
(* unless destroy() dropped it.                                            *)
CaughtUp ==
  ~crashed /\ ~Busy /\ queue = << >> /\ finished # "never" =>
    lastApplied >= commitIndex

(* close() resolves only once the state machine applied every entry that   *)
(* was ever queued: none waits or is being applied, and none up to the     *)
(* last is missing, however finish() meets a commit that is half done, a   *)
(* role that starts over, or an entry that is queued once more.            *)
ClosedWhenApplied ==
  finished = "yes" =>
    /\ current.kind # "entry"
    /\ \A p \in DOMAIN queue : queue[p].kind # "entry"
    /\ \A i \in 1 .. lastQueued : i \in Range(applied)

(* Whether the applier took the missing entry of a commit(0).              *)
Wedged == current.kind = "undefined"

Waiting(index) == \E i \in DOMAIN queue : queue[i] = Item(index)

(* An entry that is queued is eventually taken from the queue, unless the  *)
(* applier fails or once met a commit(0).                                  *)
EntriesAreTaken ==
  \A i \in 1 .. MaxIndex :
    Waiting(i) ~> ~Waiting(i) \/ crashed \/ Wedged

(* The same without the exception: what README.md means by "each server,   *)
(* eventually, has the same state as the leader".  It does not hold.       *)
AllEntriesAreTaken ==
  \A i \in 1 .. MaxIndex : Waiting(i) ~> ~Waiting(i) \/ crashed

(* Commands are applied in order (README.md), each once.  It does not      *)
(* hold: the first commit of a new role enqueues an entry that was applied *)
(* before.                                                                 *)
AppliedInOrder == \A i \in 1 .. Len(applied) - 1 : applied[i] < applied[i + 1]

=============================================================================
