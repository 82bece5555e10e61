-------------------------------- MODULE Raft --------------------------------
(***************************************************************************)
(* A cluster of Buoyant servers: the three roles (src/lib/roles), the role *)
(* changes (src/lib/Raft.js), the persisted state (src/lib/State.js) and   *)
(* the log (src/lib/Log.js), over a network that may lose, duplicate,      *)
(* reorder and delay messages, with servers that crash at any point and    *)
(* restart from what they persisted.                                       *)
(*                                                                         *)
(* A role runs its operations one at a time, through its Scheduler.  An    *)
(* operation that persists something returns a promise and the scheduler   *)
(* is busy until it settles.  Such an operation is two actions here: the   *)
(* first changes the state in memory, calls the persistence function and   *)
(* leaves a record in operation[s]; the second (Persisted...) is the       *)
(* continuation that runs once the write is durable.  Other servers step,  *)
(* and this one may crash, between the two.                                *)
(***************************************************************************)
EXTENDS Integers, FiniteSets, Sequences, Log

CONSTANTS
  Server,        \* the servers of the cluster
  NoServer,      \* votedFor of a server that has not voted: null
  Value,         \* the values a client appends
  Candidacies,   \* bound: the elections a behaviour may have, <<server, term>>
  Links,         \* bound: the pairs <<from, to>> between which the network
                 \* ever delivers, every pair or a partition that never heals
  MaxLogLength,  \* bound: no leader appends to a log of this length
  MaxRestarts    \* bound: number of crashes in a behaviour

ASSUME ServerAssumption == IsFiniteSet(Server) /\ NoServer \notin Server
ASSUME BoundAssumption ==
  /\ Candidacies \subseteq Server \X Nat
  /\ Links \subseteq Server \X Server
  /\ MaxLogLength \in Nat
  /\ MaxRestarts \in Nat

VARIABLES
  role,           \* the role object of each server
  currentTerm,    \* State.currentTerm, in memory
  votedFor,       \* State.votedFor, in memory
  stored,         \* the term and vote that persistState() last made durable
  log,            \* Log.entries, in memory
  storedLog,      \* the entries replace() would restore after a crash
  operation,      \* the operation that keeps the role's scheduler busy
  skipTick,       \* the follower's ignoreNextElectionTimeout, or the leader's
                  \* skipNextHeartbeat
  commitIndex,    \* the follower's or leader's commitIndex
  votesRequired,         \* of a candidate
  votesAlreadyReceived,  \* of a candidate
  nextIndex,             \* of a leader, for each peer
  matchIndex,            \* of a leader, for each peer
  pendingApplication,    \* of a leader
  messages,       \* every message ever sent: the network may deliver any of
                  \* them any number of times, in any order, or never
  elected,        \* history: the "leader" events emitted, [server, term]
  committed,      \* history: the entries passed to Log.commit(), with those
                  \* before them, [index, entry]
  restarts        \* number of crashes so far

persistentVars == <<stored, storedLog>>
candidateVars  == <<votesRequired, votesAlreadyReceived>>
leaderVars     == <<nextIndex, matchIndex, pendingApplication>>
historyVars    == <<elected, committed, restarts>>
vars == <<role, currentTerm, votedFor, log, operation, skipTick, commitIndex,
          messages, persistentVars, candidateVars, leaderVars, historyVars>>

Peers(s) == Server \ {s}

(* A faulty variant: rounded down.                                         *)
HalfOfPeersFaulty == (Cardinality(Server) - 1) \div 2

(* Math.ceil(peers.length / 2): with the server itself, a majority.        *)
HalfOfPeers == Cardinality(Server) \div 2

-----------------------------------------------------------------------------
(* Messages *)

Entry == [term : Nat, value : Value]

NoIndex == 0   \* no conflictingIndex: it compares false with any index

RequestVote(s, p, term) ==
  [type |-> "RequestVote", from |-> s, to |-> p, term |-> term,
   lastLogIndex |-> LastIndex(log[s]), lastLogTerm |-> LastTerm(log[s])]

DenyVote(s, p) ==
  [type |-> "DenyVote", from |-> s, to |-> p, term |-> currentTerm[s]]

GrantVote(s, p) ==
  [type |-> "GrantVote", from |-> s, to |-> p, term |-> currentTerm[s]]

RejectEntries(s, p, conflictingIndex) ==
  [type |-> "RejectEntries", from |-> s, to |-> p, term |-> currentTerm[s],
   conflictingIndex |-> conflictingIndex]

AcceptEntries(s, p, lastLogIndex) ==
  [type |-> "AcceptEntries", from |-> s, to |-> p, term |-> currentTerm[s],
   lastLogIndex |-> lastLogIndex]

(* A faulty variant: a leader takes all that it has for committed.         *)
AppendEntriesFaulty(s, p, next, match, heartbeatOnly, l, commit) ==
  [type |-> "AppendEntries", from |-> s, to |-> p, term |-> currentTerm[s],
   prevLogIndex |-> next - 1, prevLogTerm |-> TermAt(l, next - 1),
   leaderCommit |-> LastIndex(l),
   entries |-> IF heartbeatOnly \/ next - 1 # match
               THEN << >> ELSE EntriesSince(l, next)]

(* What updateFollower() sends to a peer whose nextIndex and matchIndex are *)
(* `next` and `match`.  Entries only follow once the two are adjacent.      *)
AppendEntries(s, p, next, match, heartbeatOnly, l, commit) ==
  [type |-> "AppendEntries", from |-> s, to |-> p, term |-> currentTerm[s],
   prevLogIndex |-> next - 1, prevLogTerm |-> TermAt(l, next - 1),
   leaderCommit |-> commit,
   entries |-> IF heartbeatOnly \/ next - 1 # match
               THEN << >> ELSE EntriesSince(l, next)]

Send(ms) == messages' = messages \union ms

-----------------------------------------------------------------------------
(* Operations *)

Idle    == [kind |-> "none"]
Crashed == [kind |-> "crashed"]

SetOperation(s, op) == operation' = [operation EXCEPT ![s] = op]

(* The scheduler runs an operation only when it is not busy.               *)
Free(s) == operation[s] = Idle

(* The operations in flight that write the term and vote.                  *)
WritesState(op) ==
  \/ op.kind \in {"requestVote", "grantVote", "setTerm", "convert"}
  \/ op.kind = "mergeEntries" /\ op.newerTerm

(* A faulty variant: a follower acknowledges entries it did not persist.   *)
WritesEntriesFaulty(op) == op.kind = "append"

(* The operations in flight that write entries.                            *)
WritesEntries(op) ==
  \/ op.kind = "append"
  \/ op.kind = "mergeEntries" /\ op.entries # << >>

(* Two faulty variants: the vote is left out, or never remembered.         *)
StateOfWithoutVote(s) == [currentTerm |-> currentTerm[s]]

StateOfFaulty(s) == [currentTerm |-> currentTerm[s], votedFor |-> NoServer]

(* What State.persist() writes.                                            *)
StateOf(s) == [currentTerm |-> currentTerm[s], votedFor |-> votedFor[s]]

(* A faulty variant: a new entry has the term of the one before it.        *)
NewEntriesFaulty(s) ==
  IF operation[s].kind = "append"
  THEN << [term |-> LastTerm(log[s]), value |-> operation[s].value] >>
  ELSE operation[s].entries

(* The entries that the operation in flight adds to the log.               *)
NewEntries(s) ==
  IF operation[s].kind = "append"
  THEN << [term |-> currentTerm[s], value |-> operation[s].value] >>
  ELSE operation[s].entries

(* A faulty variant: the continuation does not wait for the write.         *)
StoreStateFaulty(s) == UNCHANGED stored

StoreState(s) == stored' = [stored EXCEPT ![s] = StateOf(s)]

StoreEntries(s) ==
  storedLog' = [storedLog EXCEPT
    ![s] = Journalled(@, LastIndex(log[s]) + 1, NewEntries(s))]

(* State.setTerm() and State.setTermAndVote(), up to the write.            *)
SetTermAndVote(s, term, vote) ==
  /\ currentTerm' = [currentTerm EXCEPT ![s] = term]
  /\ votedFor' = [votedFor EXCEPT ![s] = vote]

(* The entries up to `index` become committed.                             *)
Commit(l, index) ==
  committed' = committed \union
    {[index |-> i, entry |-> l[i]] : i \in 1 .. index}

-----------------------------------------------------------------------------
(* Follower.  A handler takes the commitIndex and the timeout flag of the   *)
(* role object it runs on: those of the current one for a received message, *)
(* the initial ones for the message a new follower replays.                 *)

Min2(a, b) == IF a < b THEN a ELSE b

FollowerKeeps(s, commit, tick) ==
  /\ commitIndex' = [commitIndex EXCEPT ![s] = commit]
  /\ skipTick' = [skipTick EXCEPT ![s] = tick]

(* A faulty variant: a server votes again in the same term.                *)
MayVoteForFaulty(s, m) ==
  ~Outdated(log[s], m.lastLogTerm, m.lastLogIndex)

(* The vote is that of the last term this server voted in, be it an older  *)
(* one: the request of a newer term that meets it only resets it.          *)
MayVoteFor(s, m) ==
  /\ votedFor[s] \in {NoServer, m.from}
  /\ ~Outdated(log[s], m.lastLogTerm, m.lastLogIndex)

FollowerHandleRequestVote(s, m, commit, tick) ==
  /\ m.type = "RequestVote"
  /\ FollowerKeeps(s, commit, tick)
  /\ UNCHANGED <<log, committed>>
  /\ \/ /\ m.term < currentTerm[s]
        /\ Send({DenyVote(s, m.from)})
        /\ SetOperation(s, Idle)
        /\ UNCHANGED <<currentTerm, votedFor>>
     \/ /\ m.term >= currentTerm[s]
        /\ MayVoteFor(s, m)
        /\ SetTermAndVote(s, m.term, m.from)
        /\ SetOperation(s, [kind |-> "grantVote", peer |-> m.from])
        /\ UNCHANGED messages
     \/ /\ m.term > currentTerm[s]
        /\ ~MayVoteFor(s, m)
        /\ SetTermAndVote(s, m.term, NoServer)
        /\ SetOperation(s, [kind |-> "setTerm"])
        /\ UNCHANGED messages
     \/ /\ m.term = currentTerm[s]
        /\ ~MayVoteFor(s, m)
        /\ SetOperation(s, Idle)
        /\ UNCHANGED <<currentTerm, votedFor, messages>>

(* The follower commits before the entries it merges are persisted, and     *)
(* against the log as it was truncated.                                     *)
FollowerCommits(s, m, commit) ==
  LET kept  == TruncatedTo(log[s], m.prevLogIndex)
      index == IF m.leaderCommit > commit
               THEN Min2(m.leaderCommit, LastIndex(kept)) ELSE commit
  IN  /\ log' = [log EXCEPT ![s] = kept]
      /\ FollowerKeeps(s, index, TRUE)
      /\ IF m.leaderCommit > commit THEN Commit(kept, index)
                                    ELSE UNCHANGED committed

FollowerDeniesOlderLeader(s, m, commit, tick) ==
  /\ m.term < currentTerm[s]
  /\ Send({RejectEntries(s, m.from, NoIndex)})
  /\ SetOperation(s, Idle)
  /\ FollowerKeeps(s, commit, tick)
  /\ UNCHANGED <<currentTerm, votedFor, log, committed>>

FollowerRejectsConflict(s, m, commit) ==
  /\ m.term >= currentTerm[s]
  /\ ~Follows(log[s], m.prevLogIndex, m.prevLogTerm)
  /\ Send({RejectEntries(s, m.from, ConflictingIndex(log[s], m.prevLogIndex))})
  /\ SetOperation(s, Idle)
  /\ FollowerKeeps(s, commit, TRUE)
  /\ UNCHANGED <<currentTerm, votedFor, log, committed>>

(* Nothing to persist: the promise is fulfilled already and its            *)
(* continuation runs before anything else does.                            *)
FollowerAcceptsHeartbeat(s, m, commit) ==
  /\ m.term = currentTerm[s]
  /\ m.entries = << >>
  /\ Follows(log[s], m.prevLogIndex, m.prevLogTerm)
  /\ FollowerCommits(s, m, commit)
  /\ Send({AcceptEntries(s, m.from, m.prevLogIndex)})
  /\ SetOperation(s, Idle)
  /\ UNCHANGED <<currentTerm, votedFor>>

FollowerMergesEntries(s, m, commit) ==
  /\ m.term >= currentTerm[s]
  /\ m.term > currentTerm[s] \/ m.entries # << >>
  /\ Follows(log[s], m.prevLogIndex, m.prevLogTerm)
  /\ FollowerCommits(s, m, commit)
  /\ SetTermAndVote(s, m.term, IF m.term > currentTerm[s] THEN NoServer
                                                          ELSE votedFor[s])
  /\ SetOperation(s, [kind |-> "mergeEntries", peer |-> m.from,
                      entries |-> m.entries,
                      newerTerm |-> (m.term > currentTerm[s])])
  /\ UNCHANGED messages

FollowerHandleAppendEntries(s, m, commit, tick) ==
  /\ m.type = "AppendEntries"
  /\ \/ FollowerDeniesOlderLeader(s, m, commit, tick)
     \/ FollowerRejectsConflict(s, m, commit)
     \/ FollowerAcceptsHeartbeat(s, m, commit)
     \/ FollowerMergesEntries(s, m, commit)

FollowerIgnores(s, m, commit, tick) ==
  /\ m.type \notin {"RequestVote", "AppendEntries"}
  /\ FollowerKeeps(s, commit, tick)
  /\ SetOperation(s, Idle)
  /\ UNCHANGED <<currentTerm, votedFor, log, committed, messages>>

FollowerHandleMessage(s, m, commit, tick) ==
  \/ FollowerHandleRequestVote(s, m, commit, tick)
  \/ FollowerHandleAppendEntries(s, m, commit, tick)
  \/ FollowerIgnores(s, m, commit, tick)

FollowerReceives(s, m) ==
  /\ role[s] = "Follower"
  /\ m.type \in {"RequestVote", "AppendEntries"}
  /\ FollowerHandleMessage(s, m, commitIndex[s], skipTick[s])
  /\ UNCHANGED <<role, persistentVars, candidateVars, leaderVars, elected,
                 restarts>>

(* Raft.convertToFollower(): the old role's state goes, and the message     *)
(* that caused the conversion is handled by the new role at once.           *)
ConvertToFollower(s, m) ==
  /\ role' = [role EXCEPT ![s] = "Follower"]
  /\ votesRequired' = [votesRequired EXCEPT ![s] = 0]
  /\ votesAlreadyReceived' = [votesAlreadyReceived EXCEPT ![s] = {}]
  /\ nextIndex' = [nextIndex EXCEPT ![s] = [p \in Server |-> 1]]
  /\ matchIndex' = [matchIndex EXCEPT ![s] = [p \in Server |-> 0]]
  /\ pendingApplication' = [pendingApplication EXCEPT ![s] = << >>]
  /\ FollowerHandleMessage(s, m, 0, FALSE)
  /\ UNCHANGED <<elected, restarts>>

(* Candidate.handleMessage() and Leader.handleMessage() of a message with a *)
(* newer term, up to the write.                                             *)
DeferToNewerTerm(s, m) ==
  /\ m.term > currentTerm[s]
  /\ SetTermAndVote(s, m.term, NoServer)
  /\ SetOperation(s, [kind |-> "convert", message |-> m])
  /\ UNCHANGED <<role, log, skipTick, commitIndex, messages, persistentVars,
                 candidateVars, leaderVars, historyVars>>

-----------------------------------------------------------------------------
(* Candidate *)

(* Candidate.requestVote(), up to the write of the new term.                *)
StartElection(s) ==
  /\ <<s, currentTerm[s] + 1>> \in Candidacies
  /\ SetTermAndVote(s, currentTerm[s] + 1, s)
  /\ votesRequired' = [votesRequired EXCEPT ![s] = HalfOfPeers]
  /\ votesAlreadyReceived' = [votesAlreadyReceived EXCEPT ![s] = {}]
  /\ SetOperation(s, [kind |-> "requestVote"])
  /\ UNCHANGED <<log, messages, persistentVars, leaderVars, historyVars>>

(* Follower.maybeStartElection(), when the scheduler runs it.               *)
FollowerTimesOut(s) ==
  /\ role[s] = "Follower"
  /\ Free(s)
  /\ skipTick' = [skipTick EXCEPT ![s] = FALSE]
  /\ \/ /\ skipTick[s]
        /\ UNCHANGED <<role, currentTerm, votedFor, log, operation, commitIndex,
                       messages, persistentVars, candidateVars, leaderVars,
                       historyVars>>
     \/ /\ ~skipTick[s]
        /\ role' = [role EXCEPT ![s] = "Candidate"]
        /\ commitIndex' = [commitIndex EXCEPT ![s] = 0]
        /\ StartElection(s)

CandidateTimesOut(s) ==
  /\ role[s] = "Candidate"
  /\ Free(s)
  /\ StartElection(s)
  /\ UNCHANGED <<role, skipTick, commitIndex>>

(* Raft.becomeLeader(): claim leadership with a heartbeat to every peer.    *)
BecomeLeader(s) ==
  LET next == LastIndex(log[s]) + 1
  IN  /\ role' = [role EXCEPT ![s] = "Leader"]
      /\ nextIndex' = [nextIndex EXCEPT ![s] = [p \in Server |-> next]]
      /\ Send({AppendEntries(s, p, next, 0, TRUE, log[s], 0) : p \in Peers(s)})
      /\ elected' = elected \union {[server |-> s, term |-> currentTerm[s]]}
      /\ votesRequired' = [votesRequired EXCEPT ![s] = 0]
      /\ votesAlreadyReceived' = [votesAlreadyReceived EXCEPT ![s] = {}]

CandidateHandleGrantVote(s, m) ==
  /\ m.type = "GrantVote"
  /\ m.term = currentTerm[s]
  /\ m.from \notin votesAlreadyReceived[s]
  /\ \/ /\ votesRequired[s] = 1
        /\ BecomeLeader(s)
     \/ /\ votesRequired[s] # 1
        /\ votesAlreadyReceived' =
             [votesAlreadyReceived EXCEPT ![s] = @ \union {m.from}]
        /\ votesRequired' = [votesRequired EXCEPT ![s] = @ - 1]
        /\ UNCHANGED <<role, nextIndex, messages, elected>>
  /\ UNCHANGED <<currentTerm, votedFor, log, operation, skipTick, commitIndex,
                 persistentVars, matchIndex, pendingApplication, committed,
                 restarts>>

CandidateHandleRequestVote(s, m) ==
  /\ m.type = "RequestVote"
  /\ m.term < currentTerm[s]
  /\ Send({DenyVote(s, m.from)})
  /\ UNCHANGED <<role, currentTerm, votedFor, log, operation, skipTick,
                 commitIndex, persistentVars, candidateVars, leaderVars,
                 historyVars>>

CandidateHandleAppendEntries(s, m) ==
  /\ m.type = "AppendEntries"
  /\ \/ /\ m.term = currentTerm[s]
        /\ ConvertToFollower(s, m)
        /\ UNCHANGED persistentVars
     \/ /\ m.term < currentTerm[s]
        /\ Send({RejectEntries(s, m.from, NoIndex)})
        /\ UNCHANGED <<role, currentTerm, votedFor, log, operation, skipTick,
                       commitIndex, persistentVars, candidateVars, leaderVars,
                       historyVars>>

CandidateReceives(s, m) ==
  /\ role[s] = "Candidate"
  /\ \/ DeferToNewerTerm(s, m)
     \/ CandidateHandleGrantVote(s, m)
     \/ CandidateHandleRequestVote(s, m)
     \/ CandidateHandleAppendEntries(s, m)

-----------------------------------------------------------------------------
(* Leader *)

(* updateFollower() for some peers.  It reads the entry before nextIndex;   *)
(* when the leader's log has no such entry getTerm() throws, after the      *)
(* peers before that one in the iteration were updated, and the server      *)
(* goes to its crash handler.                                               *)
UpdateFollowers(s, peers, next, match, heartbeatOnly, l) ==
  LET known == {p \in peers : next[p] - 1 <= LastIndex(l)}
      update(p) == AppendEntries(s, p, next[p], match[p], heartbeatOnly, l,
                                 commitIndex'[s])
  IN  IF known = peers
      THEN /\ Send({update(p) : p \in peers})
           /\ SetOperation(s, Idle)
      ELSE /\ \E updated \in SUBSET known : Send({update(p) : p \in updated})
           /\ SetOperation(s, Crashed)

LeaderSendsHeartbeat(s) ==
  /\ role[s] = "Leader"
  /\ Free(s)
  /\ UNCHANGED commitIndex
  /\ \/ /\ skipTick[s]
        /\ skipTick' = [skipTick EXCEPT ![s] = FALSE]
        /\ UNCHANGED <<messages, operation>>
     \/ /\ ~skipTick[s]
        /\ UpdateFollowers(s, Peers(s), nextIndex[s], matchIndex[s], TRUE, log[s])
        /\ UNCHANGED skipTick
  /\ UNCHANGED <<role, currentTerm, votedFor, log, persistentVars,
                 candidateVars, leaderVars, historyVars>>

LeaderHandleRequestVote(s, m) ==
  /\ m.type = "RequestVote"
  /\ UNCHANGED commitIndex
  /\ \/ /\ m.term < currentTerm[s]
        /\ Send({DenyVote(s, m.from)})
        /\ UNCHANGED operation
     \/ /\ m.term = currentTerm[s]
        /\ UpdateFollowers(s, {m.from}, nextIndex[s], matchIndex[s], TRUE, log[s])
  /\ UNCHANGED <<role, currentTerm, votedFor, log, skipTick, persistentVars,
                 candidateVars, leaderVars, historyVars>>

(* The term of the reply is not compared: a reply to an earlier leadership  *)
(* of this server is handled like one to the current one.                   *)
LeaderHandleRejectEntries(s, m) ==
  /\ m.type = "RejectEntries"
  /\ m.term <= currentTerm[s]
  /\ m.conflictingIndex > matchIndex[s][m.from]
  /\ m.conflictingIndex < nextIndex[s][m.from]
  /\ nextIndex' = [nextIndex EXCEPT ![s][m.from] = m.conflictingIndex]
  /\ UNCHANGED commitIndex
  /\ UpdateFollowers(s, {m.from}, nextIndex'[s], matchIndex[s], TRUE, log[s])
  /\ UNCHANGED <<role, currentTerm, votedFor, log, skipTick, persistentVars,
                 candidateVars, matchIndex, pendingApplication, historyVars>>

(* A faulty variant: the first of the accepted entries is not counted.      *)
MarkedFaulty(pending, start, end) ==
  [i \in DOMAIN pending |->
     IF pending[i].index \in start + 1 .. end
     THEN [pending[i] EXCEPT !.acceptsRequired = @ - 1] ELSE pending[i]]

(* markReplication(): count one more follower for the entries from start to *)
(* end, then commit those at the head that need no more.                    *)
Marked(pending, start, end) ==
  [i \in DOMAIN pending |->
     IF pending[i].index \in start .. end
     THEN [pending[i] EXCEPT !.acceptsRequired = @ - 1] ELSE pending[i]]

ReplicatedCount(pending) ==
  Cardinality({i \in DOMAIN pending :
                 \A j \in 1 .. i : pending[j].acceptsRequired = 0})

MarkReplication(s, start, end) ==
  LET pending == Marked(pendingApplication[s], start, end)
      n       == ReplicatedCount(pending)
      index   == IF n = 0 THEN commitIndex[s] ELSE pending[n].index
  IN  /\ pendingApplication' = [pendingApplication EXCEPT
           ![s] = SubSeq(pending, n + 1, Len(pending))]
      /\ commitIndex' = [commitIndex EXCEPT ![s] = index]
      /\ IF n = 0 THEN UNCHANGED committed ELSE Commit(log[s], index)

(* As above, the term of the reply is not compared.                         *)
LeaderHandleAcceptEntries(s, m) ==
  /\ m.type = "AcceptEntries"
  /\ m.term <= currentTerm[s]
  /\ \/ /\ m.lastLogIndex >= nextIndex[s][m.from]
        /\ MarkReplication(s, nextIndex[s][m.from], m.lastLogIndex)
        /\ nextIndex' = [nextIndex EXCEPT ![s][m.from] = m.lastLogIndex + 1]
        /\ matchIndex' = [matchIndex EXCEPT ![s][m.from] = m.lastLogIndex]
     \/ /\ m.lastLogIndex < nextIndex[s][m.from]
        /\ UNCHANGED <<leaderVars, commitIndex, committed>>
  /\ IF nextIndex'[s][m.from] <= LastIndex(log[s])
     THEN UpdateFollowers(s, {m.from}, nextIndex'[s], matchIndex'[s], FALSE, log[s])
     ELSE UNCHANGED <<messages, operation>>
  /\ UNCHANGED <<role, currentTerm, votedFor, log, skipTick, persistentVars,
                 candidateVars, elected, restarts>>

LeaderReceives(s, m) ==
  /\ role[s] = "Leader"
  /\ \/ DeferToNewerTerm(s, m)
     \/ LeaderHandleRequestVote(s, m)
     \/ LeaderHandleRejectEntries(s, m)
     \/ LeaderHandleAcceptEntries(s, m)

(* Leader.append(), up to the write of the entry.                           *)
LeaderAppends(s, value) ==
  /\ role[s] = "Leader"
  /\ Free(s)
  /\ LastIndex(log[s]) < MaxLogLength
  /\ SetOperation(s, [kind |-> "append", value |-> value])
  /\ UNCHANGED <<role, currentTerm, votedFor, log, skipTick, commitIndex,
                 messages, persistentVars, candidateVars, leaderVars,
                 historyVars>>

-----------------------------------------------------------------------------
(* Continuations: what an operation does once its writes are durable *)

PersistedRequestVote(s) ==
  /\ operation[s].kind = "requestVote"
  /\ StoreState(s)
  /\ Send({RequestVote(s, p, currentTerm[s]) : p \in Peers(s)})
  /\ SetOperation(s, Idle)
  /\ UNCHANGED <<role, currentTerm, votedFor, log, storedLog, skipTick,
                 commitIndex, candidateVars, leaderVars, historyVars>>

PersistedGrantVote(s) ==
  /\ operation[s].kind = "grantVote"
  /\ StoreState(s)
  /\ skipTick' = [skipTick EXCEPT ![s] = TRUE]
  /\ Send({GrantVote(s, operation[s].peer)})
  /\ SetOperation(s, Idle)
  /\ UNCHANGED <<role, currentTerm, votedFor, log, storedLog, commitIndex,
                 candidateVars, leaderVars, historyVars>>

PersistedSetTerm(s) ==
  /\ operation[s].kind = "setTerm"
  /\ StoreState(s)
  /\ SetOperation(s, Idle)
  /\ UNCHANGED <<role, currentTerm, votedFor, log, storedLog, skipTick,
                 commitIndex, messages, candidateVars, leaderVars, historyVars>>

PersistedConvert(s) ==
  /\ operation[s].kind = "convert"
  /\ StoreState(s)
  /\ ConvertToFollower(s, operation[s].message)
  /\ UNCHANGED storedLog

PersistedMergeEntries(s) ==
  /\ operation[s].kind = "mergeEntries"
  /\ IF WritesState(operation[s]) THEN StoreState(s) ELSE UNCHANGED stored
  /\ IF WritesEntries(operation[s]) THEN StoreEntries(s) ELSE UNCHANGED storedLog
  /\ log' = [log EXCEPT ![s] = Extended(@, operation[s].entries)]
  /\ Send({AcceptEntries(s, operation[s].peer, LastIndex(log'[s]))})
  /\ SetOperation(s, Idle)
  /\ UNCHANGED <<role, currentTerm, votedFor, skipTick, commitIndex,
                 candidateVars, leaderVars, historyVars>>

PersistedAppend(s) ==
  /\ operation[s].kind = "append"
  /\ StoreEntries(s)
  /\ log' = [log EXCEPT ![s] = Extended(@, NewEntries(s))]
  /\ pendingApplication' = [pendingApplication EXCEPT
       ![s] = Append(@, [index |-> LastIndex(log'[s]),
                         acceptsRequired |-> HalfOfPeers])]
  /\ skipTick' = [skipTick EXCEPT ![s] = TRUE]
  /\ UNCHANGED commitIndex
  /\ UpdateFollowers(s, Peers(s), nextIndex[s], matchIndex[s], FALSE, log'[s])
  /\ UNCHANGED <<role, currentTerm, votedFor, stored, candidateVars, nextIndex,
                 matchIndex, historyVars>>

-----------------------------------------------------------------------------
(* A server dies, or is killed by its crash handler when a write fails, and *)
(* a new process restores what was persisted and joins as a follower.  A    *)
(* write that was in flight may or may not have become durable.             *)
Restart(s) ==
  /\ restarts < MaxRestarts
  /\ restarts' = restarts + 1
  /\ \/ UNCHANGED stored
     \/ WritesState(operation[s]) /\ StoreState(s)
  /\ \/ UNCHANGED storedLog
     \/ WritesEntries(operation[s]) /\ StoreEntries(s)
  /\ currentTerm' = [currentTerm EXCEPT ![s] = stored'[s].currentTerm]
  /\ votedFor' = [votedFor EXCEPT ![s] = stored'[s].votedFor]
  /\ log' = [log EXCEPT ![s] = storedLog'[s]]
  /\ role' = [role EXCEPT ![s] = "Follower"]
  /\ SetOperation(s, Idle)
  /\ FollowerKeeps(s, 0, FALSE)
  /\ votesRequired' = [votesRequired EXCEPT ![s] = 0]
  /\ votesAlreadyReceived' = [votesAlreadyReceived EXCEPT ![s] = {}]
  /\ nextIndex' = [nextIndex EXCEPT ![s] = [p \in Server |-> 1]]
  /\ matchIndex' = [matchIndex EXCEPT ![s] = [p \in Server |-> 0]]
  /\ pendingApplication' = [pendingApplication EXCEPT ![s] = << >>]
  /\ UNCHANGED <<messages, elected, committed>>

-----------------------------------------------------------------------------
Init ==
  /\ role = [s \in Server |-> "Follower"]
  /\ currentTerm = [s \in Server |-> 0]
  /\ votedFor = [s \in Server |-> NoServer]
  /\ stored = [s \in Server |-> [currentTerm |-> 0, votedFor |-> NoServer]]
  /\ log = [s \in Server |-> << >>]
  /\ storedLog = [s \in Server |-> << >>]
  /\ operation = [s \in Server |-> Idle]
  /\ skipTick = [s \in Server |-> FALSE]
  /\ commitIndex = [s \in Server |-> 0]
  /\ votesRequired = [s \in Server |-> 0]
  /\ votesAlreadyReceived = [s \in Server |-> {}]
  /\ nextIndex = [s \in Server |-> [p \in Server |-> 1]]
  /\ matchIndex = [s \in Server |-> [p \in Server |-> 0]]
  /\ pendingApplication = [s \in Server |-> << >>]
  /\ messages = {}
  /\ elected = {}
  /\ committed = {}
  /\ restarts = 0

Receive(s, m) ==
  /\ m.to = s
  /\ <<m.from, s>> \in Links
  /\ Free(s)
  /\ \/ FollowerReceives(s, m)
     \/ CandidateReceives(s, m)
     \/ LeaderReceives(s, m)

Persisted(s) ==
  \/ PersistedRequestVote(s)
  \/ PersistedGrantVote(s)
  \/ PersistedSetTerm(s)
  \/ PersistedConvert(s)
  \/ PersistedMergeEntries(s)
  \/ PersistedAppend(s)

Step(s) ==
  \/ FollowerTimesOut(s)
  \/ CandidateTimesOut(s)
  \/ LeaderSendsHeartbeat(s)
  \/ \E m \in messages : Receive(s, m)
  \/ \E value \in Value : LeaderAppends(s, value)
  \/ Persisted(s)
  \/ Restart(s)

Next == \E s \in Server : Step(s)

Spec == Init /\ [][Next]_vars

=============================================================================
