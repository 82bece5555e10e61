----------------------------- MODULE RaftProofs -----------------------------
(***************************************************************************)
(* Theorems about module Raft, for every cluster and every bound.          *)
(***************************************************************************)
EXTENDS RaftProperties, FiniteSetTheorems, SequenceTheorems,
        TLAPS

-----------------------------------------------------------------------------
(* Messages and operations *)

(* What the type of a message says about its fields.                       *)
LEMMA MessageFields ==
  ASSUME NEW m \in Message
  PROVE  /\ m.from \in Server /\ m.to \in Server /\ m.term \in Nat
         /\ m.type = "RequestVote" =>
              m.lastLogIndex \in Nat /\ m.lastLogTerm \in Nat
         /\ m.type = "RejectEntries" => m.conflictingIndex \in Nat
         /\ m.type = "AcceptEntries" => m.lastLogIndex \in Nat
         /\ m.type = "AppendEntries" =>
              /\ m.prevLogIndex \in Nat /\ m.prevLogTerm \in Nat
              /\ m.leaderCommit \in Nat /\ m.entries \in Seq(Entry)
BY DEF Message

(* What the kind of an operation says about its fields.                    *)
LEMMA OperationFields ==
  ASSUME NEW op \in Operation
  PROVE  /\ op.kind = "grantVote" => op.peer \in Server
         /\ op.kind = "convert" => op.message \in Message
         /\ op.kind = "mergeEntries" =>
              /\ op.peer \in Server
              /\ op.entries \in Seq(Entry)
              /\ op.newerTerm \in BOOLEAN
         /\ op.kind = "append" => op.value \in Value
BY DEF Operation

(* The operations the handlers start are operations.                       *)
LEMMA OperationTypes ==
  /\ Idle \in Operation /\ Crashed \in Operation
  /\ [kind |-> "requestVote"] \in Operation
  /\ [kind |-> "setTerm"] \in Operation
  /\ \A p \in Server : [kind |-> "grantVote", peer |-> p] \in Operation
  /\ \A m \in Message : [kind |-> "convert", message |-> m] \in Operation
  /\ \A p \in Server, es \in Seq(Entry), b \in BOOLEAN :
       [kind |-> "mergeEntries", peer |-> p, entries |-> es, newerTerm |-> b]
         \in Operation
  /\ \A v \in Value : [kind |-> "append", value |-> v] \in Operation
BY DEF Operation, Idle, Crashed

(* An index past which a log does not end has an entry.                    *)
LEMMA LogTypes ==
  ASSUME NEW l \in Seq(Entry)
  PROVE  /\ LastIndex(l) \in Nat
         /\ \A i \in 1 .. LastIndex(l) : l[i] \in Entry
         /\ \A i \in 0 .. LastIndex(l) : TermAt(l, i) \in Nat
         /\ LastTerm(l) \in Nat
         /\ \A i \in 1 .. LastIndex(l) + 1 : EntriesSince(l, i) \in Seq(Entry)
         /\ \A i \in 0 .. LastIndex(l) :
              /\ TruncatedTo(l, i) \in Seq(Entry)
              /\ LastIndex(TruncatedTo(l, i)) = i
<1>1. LastIndex(l) \in Nat /\ \A i \in 1 .. LastIndex(l) : l[i] \in Entry
  BY DEF LastIndex
<1>2. \A i \in 0 .. LastIndex(l) : TermAt(l, i) \in Nat
  BY <1>1 DEF TermAt, Entry
<1>3. LastTerm(l) \in Nat
  BY <1>1, <1>2 DEF LastTerm
<1>4. ASSUME NEW i \in 1 .. LastIndex(l) + 1
      PROVE  EntriesSince(l, i) \in Seq(Entry)
  BY <1>1, <1>4, SubSeqProperties DEF LastIndex, EntriesSince
<1>5. ASSUME NEW i \in 0 .. LastIndex(l)
      PROVE  /\ TruncatedTo(l, i) \in Seq(Entry)
             /\ LastIndex(TruncatedTo(l, i)) = i
  BY <1>1, <1>5, SubSeqProperties DEF LastIndex, TruncatedTo
<1> QED
  BY <1>1, <1>2, <1>3, <1>4, <1>5

-----------------------------------------------------------------------------
(* Type correctness *)

(* The messages the handlers build are messages.                           *)
LEMMA MessageTypes ==
  ASSUME TypeOK, NEW s \in Server, NEW p \in Server
  PROVE  /\ RequestVote(s, p, currentTerm[s]) \in Message
         /\ DenyVote(s, p) \in Message
         /\ GrantVote(s, p) \in Message
         /\ \A i \in Nat : RejectEntries(s, p, i) \in Message
         /\ \A i \in Nat : AcceptEntries(s, p, i) \in Message
<1>1. currentTerm[s] \in Nat /\ log[s] \in Seq(Entry)
  BY DEF TypeOK
<1>2. LastIndex(log[s]) \in Nat /\ LastTerm(log[s]) \in Nat
  BY <1>1, LogTypes
<1> QED
  BY <1>1, <1>2
  DEF Message, RequestVote, DenyVote, GrantVote, RejectEntries, AcceptEntries

(* So is what updateFollower() sends, when getTerm() does not throw.       *)
LEMMA AppendEntriesType ==
  ASSUME TypeOK, NEW s \in Server, NEW p \in Server,
         NEW next \in Nat \ {0}, NEW match, NEW heartbeatOnly,
         NEW l \in Seq(Entry), next - 1 <= LastIndex(l), NEW commit \in Nat
  PROVE  AppendEntries(s, p, next, match, heartbeatOnly, l, commit) \in Message
<1>1. currentTerm[s] \in Nat
  BY DEF TypeOK
<1>2. /\ LastIndex(l) \in Nat
      /\ next - 1 \in 0 .. LastIndex(l)
      /\ next \in 1 .. LastIndex(l) + 1
  BY LogTypes
<1>3. TermAt(l, next - 1) \in Nat /\ EntriesSince(l, next) \in Seq(Entry)
  BY <1>2, LogTypes
<1>4. << >> \in Seq(Entry)
  OBVIOUS
<1> QED
  BY <1>1, <1>2, <1>3, <1>4 DEF Message, AppendEntries

(* What a follower's handler leaves behind is well typed.                  *)
LEMMA FollowerTypes ==
  ASSUME TypeOK, NEW s \in Server, NEW m \in Message,
         NEW commit \in Nat, NEW tick \in BOOLEAN,
         FollowerHandleMessage(s, m, commit, tick)
  PROVE  /\ currentTerm' \in [Server -> Nat]
         /\ votedFor' \in [Server -> Server \union {NoServer}]
         /\ log' \in [Server -> Seq(Entry)]
         /\ operation' \in [Server -> Operation]
         /\ skipTick' \in [Server -> BOOLEAN]
         /\ commitIndex' \in [Server -> Nat]
         /\ messages' \in SUBSET Message
         /\ committed' \in SUBSET [index : Nat, entry : Entry]
<1> USE DEF SetTermAndVote, SetOperation, FollowerKeeps
<1>1. /\ currentTerm \in [Server -> Nat]
      /\ votedFor \in [Server -> Server \union {NoServer}]
      /\ log \in [Server -> Seq(Entry)]
      /\ operation \in [Server -> Operation]
      /\ skipTick \in [Server -> BOOLEAN]
      /\ commitIndex \in [Server -> Nat]
      /\ messages \in SUBSET Message
      /\ committed \in SUBSET [index : Nat, entry : Entry]
  BY DEF TypeOK
<1>2. m.from \in Server /\ m.term \in Nat
  BY MessageFields
<1>3. CASE FollowerHandleRequestVote(s, m, commit, tick)
  <2>1. /\ log' \in [Server -> Seq(Entry)]
        /\ committed' \in SUBSET [index : Nat, entry : Entry]
        /\ skipTick' \in [Server -> BOOLEAN]
        /\ commitIndex' \in [Server -> Nat]
    BY <1>1, <1>3 DEF FollowerHandleRequestVote
  <2>2. messages' \in SUBSET Message
    <3>1. DenyVote(s, m.from) \in Message
      BY <1>2, MessageTypes
    <3> QED
      BY <1>1, <1>3, <3>1 DEF FollowerHandleRequestVote, Send
  <2>3. operation' \in [Server -> Operation]
    <3>1. \E op \in Operation : SetOperation(s, op)
      BY <1>2, <1>3, OperationTypes DEF FollowerHandleRequestVote
    <3> QED
      BY <1>1, <3>1
  <2>4. /\ currentTerm' \in [Server -> Nat]
        /\ votedFor' \in [Server -> Server \union {NoServer}]
    BY <1>1, <1>2, <1>3 DEF FollowerHandleRequestVote
  <2> QED
    BY <2>1, <2>2, <2>3, <2>4
<1>4. CASE FollowerHandleAppendEntries(s, m, commit, tick)
  <2>1. /\ m.prevLogIndex \in Nat /\ m.leaderCommit \in Nat
        /\ m.entries \in Seq(Entry)
    BY <1>4, MessageFields DEF FollowerHandleAppendEntries
  <2>2. LastIndex(log[s]) \in Nat
    BY <1>1, LogTypes
  <2>3. ConflictingIndex(log[s], m.prevLogIndex) \in Nat
    BY <2>1, <2>2 DEF ConflictingIndex
  <2>4. ASSUME Follows(log[s], m.prevLogIndex, m.prevLogTerm),
               FollowerCommits(s, m, commit)
        PROVE  /\ log' \in [Server -> Seq(Entry)]
               /\ skipTick' \in [Server -> BOOLEAN]
               /\ commitIndex' \in [Server -> Nat]
               /\ committed' \in SUBSET [index : Nat, entry : Entry]
    <3> DEFINE kept == TruncatedTo(log[s], m.prevLogIndex)
               index == IF m.leaderCommit > commit
                        THEN Min2(m.leaderCommit, LastIndex(kept)) ELSE commit
    <3>1. m.prevLogIndex \in 0 .. LastIndex(log[s])
      BY <2>1, <2>2, <2>4 DEF Follows, HasEntry
    <3>2. kept \in Seq(Entry) /\ LastIndex(kept) = m.prevLogIndex
      BY <1>1, <3>1, LogTypes
    <3>3. /\ log' = [log EXCEPT ![s] = kept]
          /\ commitIndex' = [commitIndex EXCEPT ![s] = index]
          /\ skipTick' = [skipTick EXCEPT ![s] = TRUE]
          /\ IF m.leaderCommit > commit THEN Commit(kept, index)
                                        ELSE UNCHANGED committed
      BY <2>4 DEF FollowerCommits
    <3> HIDE DEF kept
    <3>4. index \in Nat
      BY <2>1, <3>2 DEF Min2
    <3>5. m.leaderCommit > commit => index <= LastIndex(kept)
      BY <2>1, <3>2 DEF Min2
    <3> HIDE DEF index
    <3>6. m.leaderCommit > commit =>
            \A i \in 1 .. index : i \in Nat /\ kept[i] \in Entry
      BY <3>2, <3>4, <3>5, LogTypes
    <3>7. committed' \in SUBSET [index : Nat, entry : Entry]
      <4>1. CASE m.leaderCommit > commit
        <5>1. committed' = committed \union
                {[index |-> i, entry |-> kept[i]] : i \in 1 .. index}
          BY <3>3, <4>1 DEF Commit
        <5> QED
          BY <1>1, <3>6, <4>1, <5>1
      <4>2. CASE ~(m.leaderCommit > commit)
        BY <1>1, <3>3, <4>2
      <4> QED
        BY <4>1, <4>2
    <3> QED
      BY <1>1, <3>2, <3>3, <3>4, <3>7
  <2>5. NoIndex \in Nat
    BY DEF NoIndex
  <2>6. CASE FollowerDeniesOlderLeader(s, m, commit, tick)
    BY <1>1, <1>2, <2>5, <2>6, OperationTypes, MessageTypes
    DEF FollowerDeniesOlderLeader, Send
  <2>7. CASE FollowerRejectsConflict(s, m, commit)
    BY <1>1, <1>2, <2>3, <2>7, OperationTypes, MessageTypes
    DEF FollowerRejectsConflict, Send
  <2>8. CASE FollowerAcceptsHeartbeat(s, m, commit)
    <3>1. /\ currentTerm' \in [Server -> Nat]
          /\ votedFor' \in [Server -> Server \union {NoServer}]
          /\ operation' \in [Server -> Operation]
          /\ messages' \in SUBSET Message
      BY <1>1, <1>2, <2>1, <2>8, OperationTypes, MessageTypes
      DEF FollowerAcceptsHeartbeat, Send
    <3> QED
      BY <2>4, <2>8, <3>1 DEF FollowerAcceptsHeartbeat
  <2>9. CASE FollowerMergesEntries(s, m, commit)
    <3>1. (m.term > currentTerm[s]) \in BOOLEAN
      OBVIOUS
    <3>2. /\ currentTerm' \in [Server -> Nat]
          /\ votedFor' \in [Server -> Server \union {NoServer}]
          /\ messages' \in SUBSET Message
      BY <1>1, <1>2, <2>9 DEF FollowerMergesEntries
    <3>3. operation' \in [Server -> Operation]
      BY <1>1, <1>2, <2>1, <2>9, <3>1, OperationTypes
      DEF FollowerMergesEntries
    <3> QED
      BY <2>4, <2>9, <3>2, <3>3 DEF FollowerMergesEntries
  <2> QED
    BY <1>4, <2>6, <2>7, <2>8, <2>9 DEF FollowerHandleAppendEntries
<1>5. CASE FollowerIgnores(s, m, commit, tick)
  BY <1>1, <1>5, OperationTypes DEF FollowerIgnores
<1> QED
  BY <1>3, <1>4, <1>5 DEF FollowerHandleMessage

-----------------------------------------------------------------------------
(* The invariant that types need *)

(* A leader only waits for entries its log has, and only a leader waits.   *)
(* Needed for the types: committing reads the log at a pending index.      *)
PendingInLogAt(s) ==
  /\ \A i \in DOMAIN pendingApplication[s] :
       pendingApplication[s][i].index \in 1 .. LastIndex(log[s])
  /\ role[s] # "Leader" => pendingApplication[s] = << >>
  /\ operation[s].kind = "append" => role[s] = "Leader"

PendingInLog == \A s \in Server : PendingInLogAt(s)

(* The part of the invariant that types need: the type invariant itself, and*)
(* that a leader only waits for entries it has, so that reading the one it  *)
(* commits is defined.                                                      *)
TypeInv == TypeOK /\ PendingInLog

(* Reading the two conjuncts of TypeInv at one server.                     *)
LEMMA ServerTypes ==
  ASSUME TypeOK, NEW s \in Server
  PROVE  /\ currentTerm[s] \in Nat
         /\ votedFor[s] \in Server \union {NoServer}
         /\ stored[s] \in State
         /\ StateOf(s) \in State
         /\ log[s] \in Seq(Entry)
         /\ storedLog[s] \in Seq(Entry)
         /\ operation[s] \in Operation
         /\ commitIndex[s] \in Nat
         /\ nextIndex[s] \in [Server -> Nat \ {0}]
         /\ matchIndex[s] \in [Server -> Nat]
         /\ pendingApplication[s] \in Seq(PendingEntry)
         /\ LastIndex(log[s]) \in Nat
BY LogTypes DEF TypeOK, StateOf, State

(* The number of followers that must accept an entry is a number.           *)
LEMMA HalfOfPeersType == HalfOfPeers \in Nat
BY FS_CardinalityType, ServerAssumption DEF HalfOfPeers

(* The types of the initial state.                                          *)
LEMMA TypeInit == Init => TypeInv
<1> SUFFICES ASSUME Init PROVE TypeInv
  OBVIOUS
<1>1. << >> \in Seq(Entry)
  OBVIOUS
<1>2. << >> \in Seq(PendingEntry)
  OBVIOUS
<1>3. TypeOK
  BY <1>1, <1>2, OperationTypes DEF Init, TypeOK, State
<1>4. PendingInLog
  BY DEF Init, PendingInLog, PendingInLogAt, Idle
<1> QED
  BY <1>3, <1>4 DEF TypeInv

(* A server that a step leaves alone waits for the same entries after it.   *)
LEMMA PendingElsewhere ==
  ASSUME NEW s \in Server, PendingInLogAt(s),
         role'[s] = role[s], log'[s] = log[s], operation'[s] = operation[s],
         pendingApplication'[s] = pendingApplication[s]
  PROVE  PendingInLogAt(s)'
BY DEF PendingInLogAt

(* A server that is not a leader waits for nothing.                         *)
LEMMA PendingOfNoLeader ==
  ASSUME NEW s \in Server, pendingApplication'[s] = << >>,
         operation'[s].kind # "append"
  PROVE  PendingInLogAt(s)'
BY DEF PendingInLogAt

(* A follower's handler changes the log and the operation of its server only *)
(* and starts no append.                                                    *)
LEMMA FollowerChanges ==
  ASSUME TypeOK, NEW s \in Server, NEW m, NEW commit, NEW tick,
         FollowerHandleMessage(s, m, commit, tick)
  PROVE  /\ \A p \in Server \ {s} :
              log'[p] = log[p] /\ operation'[p] = operation[p]
         /\ operation'[s].kind # "append"
<1> USE DEF SetOperation, Idle
<1>a. DOMAIN log = Server /\ DOMAIN operation = Server
  BY DEF TypeOK
<1>1. CASE FollowerHandleRequestVote(s, m, commit, tick)
  BY <1>a, <1>1 DEF FollowerHandleRequestVote
<1>2. CASE FollowerDeniesOlderLeader(s, m, commit, tick)
  BY <1>a, <1>2 DEF FollowerDeniesOlderLeader
<1>3. CASE FollowerRejectsConflict(s, m, commit)
  BY <1>a, <1>3 DEF FollowerRejectsConflict
<1>4. CASE FollowerAcceptsHeartbeat(s, m, commit)
  BY <1>a, <1>4 DEF FollowerAcceptsHeartbeat, FollowerCommits
<1>5. CASE FollowerMergesEntries(s, m, commit)
  <2>1. SetOperation(s, [kind |-> "mergeEntries", peer |-> m.from,
                         entries |-> m.entries,
                         newerTerm |-> (m.term > currentTerm[s])])
    BY <1>5 DEF FollowerMergesEntries
  <2>2. log' = [log EXCEPT ![s] = TruncatedTo(@, m.prevLogIndex)]
    BY <1>5 DEF FollowerMergesEntries, FollowerCommits
  <2> QED
    BY <1>a, <2>1, <2>2
<1>6. CASE FollowerIgnores(s, m, commit, tick)
  BY <1>a, <1>6 DEF FollowerIgnores
<1> QED
  BY <1>1, <1>2, <1>3, <1>4, <1>5, <1>6
  DEF FollowerHandleMessage, FollowerHandleAppendEntries

(* A follower that handles a message.                                       *)
LEMMA TypeFollowerReceives ==
  ASSUME TypeInv, NEW s \in Server, NEW m \in messages,
         FollowerReceives(s, m)
  PROVE  TypeInv'
<1>1. TypeOK /\ PendingInLog /\ m \in Message
  BY DEF TypeInv, TypeOK
<1>2. commitIndex[s] \in Nat /\ skipTick[s] \in BOOLEAN
  BY <1>1 DEF TypeOK
<1>3. FollowerHandleMessage(s, m, commitIndex[s], skipTick[s])
  BY DEF FollowerReceives
<1>4. /\ role[s] = "Follower"
      /\ UNCHANGED <<role, stored, storedLog, votesRequired,
                     votesAlreadyReceived, nextIndex, matchIndex,
                     pendingApplication, elected, restarts>>
  BY DEF FollowerReceives, persistentVars, candidateVars, leaderVars
<1>5. /\ currentTerm' \in [Server -> Nat]
      /\ votedFor' \in [Server -> Server \union {NoServer}]
      /\ log' \in [Server -> Seq(Entry)]
      /\ operation' \in [Server -> Operation]
      /\ skipTick' \in [Server -> BOOLEAN]
      /\ commitIndex' \in [Server -> Nat]
      /\ messages' \in SUBSET Message
      /\ committed' \in SUBSET [index : Nat, entry : Entry]
  BY <1>1, <1>2, <1>3, FollowerTypes
<1>6. TypeOK'
  BY <1>1, <1>4, <1>5 DEF TypeOK
<1>7. /\ \A p \in Server \ {s} :
           log'[p] = log[p] /\ operation'[p] = operation[p]
      /\ operation'[s].kind # "append"
  BY <1>1, <1>3, FollowerChanges
<1>8. ASSUME NEW p \in Server PROVE PendingInLogAt(p)'
  <2>1. PendingInLogAt(p)
    BY <1>1 DEF PendingInLog
  <2>2. CASE p = s
    BY <1>4, <1>7, <2>1, <2>2, PendingOfNoLeader DEF PendingInLogAt
  <2>3. CASE p # s
    BY <1>4, <1>7, <2>1, <2>3, PendingElsewhere
  <2> QED
    BY <2>2, <2>3
<1> QED
  BY <1>6, <1>8 DEF TypeInv, PendingInLog

(* Only the server that steps can break PendingInLog.                       *)
LEMMA PendingStep ==
  ASSUME PendingInLog, NEW s \in Server, PendingInLogAt(s)',
         \A p \in Server \ {s} :
           /\ role'[p] = role[p] /\ log'[p] = log[p]
           /\ operation'[p] = operation[p]
           /\ pendingApplication'[p] = pendingApplication[p]
  PROVE  PendingInLog'
<1>1. ASSUME NEW p \in Server PROVE PendingInLogAt(p)'
  <2>1. CASE p = s
    BY <2>1
  <2>2. CASE p # s
    BY <2>2, PendingElsewhere DEF PendingInLog
  <2> QED
    BY <2>1, <2>2
<1> QED
  BY <1>1 DEF PendingInLog

(* An election that starts.                                                 *)
LEMMA StartElectionTypes ==
  ASSUME TypeOK, NEW s \in Server, StartElection(s)
  PROVE  /\ currentTerm' \in [Server -> Nat]
         /\ votedFor' \in [Server -> Server \union {NoServer}]
         /\ votesRequired' \in [Server -> Int]
         /\ votesAlreadyReceived' \in [Server -> SUBSET Server]
         /\ operation' \in [Server -> Operation]
         /\ \A p \in Server \ {s} : operation'[p] = operation[p]
         /\ operation'[s].kind # "append"
         /\ UNCHANGED <<log, messages, stored, storedLog, nextIndex, matchIndex,
                        pendingApplication, elected, committed, restarts>>
<1>1. /\ currentTerm' = [currentTerm EXCEPT ![s] = currentTerm[s] + 1]
      /\ votedFor' = [votedFor EXCEPT ![s] = s]
      /\ votesRequired' = [votesRequired EXCEPT ![s] = HalfOfPeers]
      /\ votesAlreadyReceived' = [votesAlreadyReceived EXCEPT ![s] = {}]
      /\ operation' = [operation EXCEPT ![s] = [kind |-> "requestVote"]]
      /\ UNCHANGED <<log, messages, stored, storedLog, nextIndex, matchIndex,
                     pendingApplication, elected, committed, restarts>>
  BY DEF StartElection, SetTermAndVote, SetOperation, persistentVars,
         leaderVars, historyVars
<1>2. HalfOfPeers \in Int /\ currentTerm[s] + 1 \in Nat
  BY HalfOfPeersType DEF TypeOK
<1> QED
  BY <1>1, <1>2, OperationTypes DEF TypeOK

(* The timer of a follower or a candidate.                                  *)
LEMMA TypeTimesOut ==
  ASSUME TypeInv, NEW s \in Server,
         FollowerTimesOut(s) \/ CandidateTimesOut(s)
  PROVE  TypeInv'
<1>1. TypeOK /\ PendingInLog /\ PendingInLogAt(s)
  BY DEF TypeInv, PendingInLog
<1>2. CASE FollowerTimesOut(s) /\ skipTick[s]
  <2>1. /\ skipTick' = [skipTick EXCEPT ![s] = FALSE]
        /\ UNCHANGED <<role, currentTerm, votedFor, stored, log, storedLog,
                       operation, commitIndex, votesRequired,
                       votesAlreadyReceived, nextIndex, matchIndex,
                       pendingApplication, messages, elected, committed,
                       restarts>>
    BY <1>2 DEF FollowerTimesOut, persistentVars, candidateVars, leaderVars,
                historyVars
  <2>2. TypeOK'
    BY <1>1, <2>1 DEF TypeOK
  <2>3. PendingInLog'
    BY <1>1, <2>1 DEF PendingInLog, PendingInLogAt
  <2> QED
    BY <2>2, <2>3 DEF TypeInv
<1>3. CASE (FollowerTimesOut(s) /\ ~skipTick[s]) \/ CandidateTimesOut(s)
  <2>1. /\ StartElection(s)
        /\ role[s] # "Leader"
        /\ role' \in [Server -> {"Follower", "Candidate", "Leader"}]
        /\ \A p \in Server \ {s} : role'[p] = role[p]
        /\ skipTick' \in [Server -> BOOLEAN]
        /\ commitIndex' \in [Server -> Nat]
    <3>1. CASE FollowerTimesOut(s) /\ ~skipTick[s]
      <4>1. /\ StartElection(s)
            /\ role[s] = "Follower"
            /\ role' = [role EXCEPT ![s] = "Candidate"]
            /\ skipTick' = [skipTick EXCEPT ![s] = FALSE]
            /\ commitIndex' = [commitIndex EXCEPT ![s] = 0]
        BY <3>1 DEF FollowerTimesOut
      <4> QED
        BY <1>1, <4>1 DEF TypeOK
    <3>2. CASE CandidateTimesOut(s)
      <4>1. /\ StartElection(s)
            /\ role[s] = "Candidate"
            /\ UNCHANGED <<role, skipTick, commitIndex>>
        BY <3>2 DEF CandidateTimesOut
      <4> QED
        BY <1>1, <4>1 DEF TypeOK
    <3> QED
      BY <1>3, <3>1, <3>2
  <2>2. TypeOK'
    BY <1>1, <2>1, StartElectionTypes DEF TypeOK
  <2>3. PendingInLogAt(s)'
    BY <1>1, <2>1, StartElectionTypes, PendingOfNoLeader DEF PendingInLogAt
  <2>4. PendingInLog'
    BY <1>1, <2>1, <2>3, StartElectionTypes, PendingStep DEF TypeOK
  <2> QED
    BY <2>2, <2>4 DEF TypeInv
<1> QED
  BY <1>2, <1>3

(* What updateFollower() leaves behind, for any peers and also when it      *)
(* throws.                                                                  *)
LEMMA UpdateFollowersTypes ==
  ASSUME TypeOK, NEW s \in Server, NEW peers \in SUBSET Server,
         NEW next \in [Server -> Nat \ {0}], NEW match, NEW heartbeatOnly,
         NEW l \in Seq(Entry), commitIndex'[s] \in Nat,
         UpdateFollowers(s, peers, next, match, heartbeatOnly, l)
  PROVE  /\ messages' \in SUBSET Message
         /\ operation' \in [Server -> Operation]
         /\ \A p \in Server \ {s} : operation'[p] = operation[p]
         /\ operation'[s].kind # "append"
<1> DEFINE known == {p \in peers : next[p] - 1 <= LastIndex(l)}
           update(p) == AppendEntries(s, p, next[p], match[p], heartbeatOnly, l,
                                      commitIndex'[s])
<1>1. \A p \in known : update(p) \in Message
  <2> TAKE p \in known
  <2>1. p \in Server /\ next[p] \in Nat \ {0} /\ next[p] - 1 <= LastIndex(l)
    OBVIOUS
  <2> QED
    BY <2>1, AppendEntriesType
<1>2. /\ \E ps \in SUBSET known : Send({update(p) : p \in ps})
      /\ SetOperation(s, Idle) \/ SetOperation(s, Crashed)
  BY DEF UpdateFollowers
<1> HIDE DEF known, update
<1>3. messages' \in SUBSET Message
  <2>1. PICK ps \in SUBSET known : messages' = messages \union {update(p) : p \in ps}
    BY <1>2 DEF Send
  <2> QED
    BY <1>1, <2>1 DEF TypeOK
<1>4. ASSUME NEW op \in {Idle, Crashed}, SetOperation(s, op)
      PROVE  /\ operation' \in [Server -> Operation]
             /\ \A p \in Server \ {s} : operation'[p] = operation[p]
             /\ operation'[s].kind # "append"
  <2>1. op \in Operation /\ op.kind # "append"
    BY OperationTypes DEF Idle, Crashed
  <2> QED
    BY <1>4, <2>1 DEF SetOperation, TypeOK
<1> QED
  BY <1>2, <1>3, <1>4

(* The heartbeat of a leader.                                               *)
LEMMA TypeLeaderSendsHeartbeat ==
  ASSUME TypeInv, NEW s \in Server, LeaderSendsHeartbeat(s)
  PROVE  TypeInv'
<1>1. TypeOK /\ PendingInLog /\ PendingInLogAt(s)
  BY DEF TypeInv, PendingInLog
<1>2. /\ role[s] = "Leader"
      /\ UNCHANGED <<role, currentTerm, votedFor, log, stored, storedLog,
                     commitIndex, votesRequired, votesAlreadyReceived,
                     nextIndex, matchIndex, pendingApplication, elected,
                     committed, restarts>>
  BY DEF LeaderSendsHeartbeat, persistentVars, candidateVars, leaderVars,
         historyVars
<1>3. /\ messages' \in SUBSET Message
      /\ operation' \in [Server -> Operation]
      /\ skipTick' \in [Server -> BOOLEAN]
      /\ \A p \in Server \ {s} : operation'[p] = operation[p]
      /\ operation'[s].kind = "append" => operation[s].kind = "append"
  <2>1. CASE skipTick[s]
    BY <1>1, <2>1 DEF LeaderSendsHeartbeat, TypeOK
  <2>2. CASE ~skipTick[s]
    <3>1. UpdateFollowers(s, Peers(s), nextIndex[s], matchIndex[s], TRUE, log[s])
          /\ skipTick' = skipTick
      BY <2>2 DEF LeaderSendsHeartbeat
    <3>2. /\ Peers(s) \in SUBSET Server
          /\ nextIndex[s] \in [Server -> Nat \ {0}]
          /\ log[s] \in Seq(Entry)
          /\ commitIndex'[s] \in Nat
      BY <1>1, <1>2 DEF TypeOK, Peers
    <3>3. skipTick' \in [Server -> BOOLEAN]
      BY <1>1, <3>1 DEF TypeOK
    <3> QED
      BY <1>1, <3>1, <3>2, <3>3, UpdateFollowersTypes
  <2> QED
    BY <2>1, <2>2
<1>4. TypeOK'
  BY <1>1, <1>2, <1>3 DEF TypeOK
<1>5. PendingInLogAt(s)'
  BY <1>1, <1>2, <1>3 DEF PendingInLogAt
<1>6. PendingInLog'
  BY <1>1, <1>2, <1>3, <1>5, PendingStep
<1> QED
  BY <1>4, <1>6 DEF TypeInv

(* A candidate or leader that becomes a follower, whatever becomes of the   *)
(* state that was persisted.                                                *)
LEMMA TypeConvertToFollower ==
  ASSUME TypeInv, NEW s \in Server, NEW m \in Message,
         ConvertToFollower(s, m),
         stored' \in [Server -> State], UNCHANGED storedLog
  PROVE  TypeInv'
<1>1. TypeOK /\ PendingInLog
  BY DEF TypeInv
<1>2. /\ role' = [role EXCEPT ![s] = "Follower"]
      /\ votesRequired' = [votesRequired EXCEPT ![s] = 0]
      /\ votesAlreadyReceived' = [votesAlreadyReceived EXCEPT ![s] = {}]
      /\ nextIndex' = [nextIndex EXCEPT ![s] = [p \in Server |-> 1]]
      /\ matchIndex' = [matchIndex EXCEPT ![s] = [p \in Server |-> 0]]
      /\ pendingApplication' = [pendingApplication EXCEPT ![s] = << >>]
      /\ FollowerHandleMessage(s, m, 0, FALSE)
      /\ UNCHANGED <<elected, restarts>>
  BY DEF ConvertToFollower
<1>3. /\ currentTerm' \in [Server -> Nat]
      /\ votedFor' \in [Server -> Server \union {NoServer}]
      /\ log' \in [Server -> Seq(Entry)]
      /\ operation' \in [Server -> Operation]
      /\ skipTick' \in [Server -> BOOLEAN]
      /\ commitIndex' \in [Server -> Nat]
      /\ messages' \in SUBSET Message
      /\ committed' \in SUBSET [index : Nat, entry : Entry]
  BY <1>1, <1>2, FollowerTypes
<1>4. << >> \in Seq(PendingEntry)
  OBVIOUS
<1>5. TypeOK'
  <2>1. /\ role' \in [Server -> {"Follower", "Candidate", "Leader"}]
        /\ votesRequired' \in [Server -> Int]
        /\ votesAlreadyReceived' \in [Server -> SUBSET Server]
    BY <1>1, <1>2 DEF TypeOK
  <2>2. /\ nextIndex' \in [Server -> [Server -> Nat \ {0}]]
        /\ matchIndex' \in [Server -> [Server -> Nat]]
    BY <1>1, <1>2 DEF TypeOK
  <2>3. pendingApplication' \in [Server -> Seq(PendingEntry)]
    BY <1>1, <1>2, <1>4 DEF TypeOK
  <2> QED
    BY <1>1, <1>2, <1>3, <2>1, <2>2, <2>3 DEF TypeOK
<1>6. /\ \A p \in Server \ {s} :
           log'[p] = log[p] /\ operation'[p] = operation[p]
      /\ operation'[s].kind # "append"
  BY <1>1, <1>2, FollowerChanges
<1>7. PendingInLogAt(s)'
  BY <1>1, <1>2, <1>6, PendingOfNoLeader DEF TypeOK
<1>8. PendingInLog'
  BY <1>1, <1>2, <1>6, <1>7, PendingStep DEF TypeOK
<1> QED
  BY <1>5, <1>8 DEF TypeInv

(* A candidate or leader that meets a newer term.                           *)
LEMMA TypeDeferToNewerTerm ==
  ASSUME TypeInv, NEW s \in Server, NEW m \in Message, DeferToNewerTerm(s, m)
  PROVE  TypeInv'
<1>1. TypeOK /\ PendingInLog /\ PendingInLogAt(s)
  BY DEF TypeInv, PendingInLog
<1>2. /\ currentTerm' = [currentTerm EXCEPT ![s] = m.term]
      /\ votedFor' = [votedFor EXCEPT ![s] = NoServer]
      /\ operation' = [operation EXCEPT ![s] = [kind |-> "convert", message |-> m]]
      /\ UNCHANGED <<role, stored, log, storedLog, skipTick, commitIndex,
                     votesRequired, votesAlreadyReceived, nextIndex,
                     matchIndex, pendingApplication, messages, elected,
                     committed, restarts>>
  BY DEF DeferToNewerTerm, SetTermAndVote, SetOperation, persistentVars,
         candidateVars, leaderVars, historyVars
<1>3. m.term \in Nat
  BY MessageFields
<1>4. TypeOK'
  BY <1>1, <1>2, <1>3, OperationTypes DEF TypeOK
<1>5. operation'[s].kind = "convert"
  BY <1>1, <1>2 DEF TypeOK
<1>6. PendingInLogAt(s)'
  BY <1>1, <1>2, <1>5 DEF PendingInLogAt
<1>7. PendingInLog'
  BY <1>1, <1>2, <1>6, PendingStep DEF TypeOK
<1> QED
  BY <1>4, <1>7 DEF TypeInv

(* A candidate that wins an election.                                       *)
LEMMA BecomeLeaderTypes ==
  ASSUME TypeOK, NEW s \in Server, BecomeLeader(s)
  PROVE  /\ role' \in [Server -> {"Follower", "Candidate", "Leader"}]
         /\ \A p \in Server \ {s} : role'[p] = role[p]
         /\ nextIndex' \in [Server -> [Server -> Nat \ {0}]]
         /\ messages' \in SUBSET Message
         /\ elected' \in SUBSET [server : Server, term : Nat]
         /\ votesRequired' \in [Server -> Int]
         /\ votesAlreadyReceived' \in [Server -> SUBSET Server]
<1> DEFINE next == LastIndex(log[s]) + 1
<1>1. /\ role' = [role EXCEPT ![s] = "Leader"]
      /\ nextIndex' = [nextIndex EXCEPT ![s] = [p \in Server |-> next]]
      /\ messages' = messages \union
           {AppendEntries(s, p, next, 0, TRUE, log[s], 0) : p \in Peers(s)}
      /\ elected' = elected \union {[server |-> s, term |-> currentTerm[s]]}
      /\ votesRequired' = [votesRequired EXCEPT ![s] = 0]
      /\ votesAlreadyReceived' = [votesAlreadyReceived EXCEPT ![s] = {}]
  BY DEF BecomeLeader, Send
<1>2. /\ LastIndex(log[s]) \in Nat /\ log[s] \in Seq(Entry)
      /\ currentTerm[s] \in Nat
  BY ServerTypes
<1>3. next \in Nat \ {0} /\ next - 1 <= LastIndex(log[s]) /\ 0 \in Nat
  BY <1>2
<1> HIDE DEF next
<1>4. \A p \in Peers(s) :
        AppendEntries(s, p, next, 0, TRUE, log[s], 0) \in Message
  BY <1>2, <1>3, AppendEntriesType DEF Peers
<1>5. messages' \in SUBSET Message
  BY <1>1, <1>4 DEF TypeOK
<1>6. nextIndex' \in [Server -> [Server -> Nat \ {0}]]
  <2>1. [p \in Server |-> next] \in [Server -> Nat \ {0}]
    BY <1>3
  <2> QED
    BY <1>1, <2>1 DEF TypeOK
<1>7. elected' \in SUBSET [server : Server, term : Nat]
  BY <1>1, <1>2 DEF TypeOK
<1>8. /\ role' \in [Server -> {"Follower", "Candidate", "Leader"}]
      /\ \A p \in Server \ {s} : role'[p] = role[p]
      /\ votesRequired' \in [Server -> Int]
      /\ votesAlreadyReceived' \in [Server -> SUBSET Server]
  BY <1>1 DEF TypeOK
<1> QED
  BY <1>5, <1>6, <1>7, <1>8

(* A vote for a candidate.                                                  *)
LEMMA TypeCandidateHandleGrantVote ==
  ASSUME TypeInv, NEW s \in Server, NEW m \in Message, role[s] = "Candidate",
         CandidateHandleGrantVote(s, m)
  PROVE  TypeInv'
<1>1. TypeOK /\ PendingInLog /\ PendingInLogAt(s)
  BY DEF TypeInv, PendingInLog
<1>2. UNCHANGED <<currentTerm, votedFor, log, operation, skipTick, commitIndex,
                  stored, storedLog, matchIndex, pendingApplication, committed,
                  restarts>>
  BY DEF CandidateHandleGrantVote, persistentVars
<1>3. /\ role' \in [Server -> {"Follower", "Candidate", "Leader"}]
      /\ \A p \in Server \ {s} : role'[p] = role[p]
      /\ nextIndex' \in [Server -> [Server -> Nat \ {0}]]
      /\ messages' \in SUBSET Message
      /\ elected' \in SUBSET [server : Server, term : Nat]
      /\ votesRequired' \in [Server -> Int]
      /\ votesAlreadyReceived' \in [Server -> SUBSET Server]
  <2>1. CASE votesRequired[s] = 1
    BY <1>1, <2>1, BecomeLeaderTypes DEF CandidateHandleGrantVote
  <2>2. CASE votesRequired[s] # 1
    <3>1. /\ votesAlreadyReceived' =
               [votesAlreadyReceived EXCEPT ![s] = @ \union {m.from}]
          /\ votesRequired' = [votesRequired EXCEPT ![s] = @ - 1]
          /\ UNCHANGED <<role, nextIndex, messages, elected>>
      BY <2>2 DEF CandidateHandleGrantVote
    <3>2. m.from \in Server
      BY MessageFields
    <3>3. /\ votesRequired' \in [Server -> Int]
          /\ votesAlreadyReceived' \in [Server -> SUBSET Server]
      <4>1. /\ votesRequired \in [Server -> Int]
            /\ votesAlreadyReceived \in [Server -> SUBSET Server]
        BY <1>1 DEF TypeOK
      <4>2. votesRequired' \in [Server -> Int]
        BY <3>1, <4>1
      <4>3. votesAlreadyReceived' \in [Server -> SUBSET Server]
        BY <3>1, <3>2, <4>1
      <4> QED
        BY <4>2, <4>3
    <3> QED
      BY <1>1, <3>1, <3>3 DEF TypeOK
  <2> QED
    BY <2>1, <2>2
<1>4. TypeOK'
  BY <1>1, <1>2, <1>3 DEF TypeOK
<1>5. PendingInLogAt(s)'
  BY <1>1, <1>2, PendingOfNoLeader DEF PendingInLogAt
<1>6. PendingInLog'
  BY <1>1, <1>2, <1>3, <1>5, PendingStep
<1> QED
  BY <1>4, <1>6 DEF TypeInv

(* A reply that changes nothing but what was sent.                          *)
LEMMA TypeReply ==
  ASSUME TypeInv, messages' \in SUBSET Message,
         UNCHANGED <<role, currentTerm, votedFor, log, operation, skipTick,
                     commitIndex, stored, storedLog, votesRequired,
                     votesAlreadyReceived, nextIndex, matchIndex,
                     pendingApplication, elected, committed, restarts>>
  PROVE  TypeInv'
<1>1. TypeOK'
  BY DEF TypeInv, TypeOK
<1>2. PendingInLog'
  BY DEF TypeInv, PendingInLog, PendingInLogAt
<1> QED
  BY <1>1, <1>2 DEF TypeInv

(* A candidate that handles a message.                                      *)
LEMMA TypeCandidateReceives ==
  ASSUME TypeInv, NEW s \in Server, NEW m \in messages, CandidateReceives(s, m)
  PROVE  TypeInv'
<1> USE DEF persistentVars, candidateVars, leaderVars, historyVars
<1>1. TypeOK /\ m \in Message /\ role[s] = "Candidate"
  BY DEF TypeInv, TypeOK, CandidateReceives
<1>2. /\ m.from \in Server
      /\ DenyVote(s, m.from) \in Message
      /\ RejectEntries(s, m.from, NoIndex) \in Message
  BY <1>1, MessageFields, MessageTypes DEF NoIndex
<1>3. CASE DeferToNewerTerm(s, m)
  BY <1>1, <1>3, TypeDeferToNewerTerm
<1>4. CASE CandidateHandleGrantVote(s, m)
  BY <1>1, <1>4, TypeCandidateHandleGrantVote
<1>5. CASE CandidateHandleRequestVote(s, m)
  <2>1. messages' \in SUBSET Message
    BY <1>1, <1>2, <1>5 DEF CandidateHandleRequestVote, Send, TypeOK
  <2> QED
    BY <1>5, <2>1, TypeReply DEF CandidateHandleRequestVote
<1>6. CASE CandidateHandleAppendEntries(s, m)
  <2>1. CASE m.term = currentTerm[s] /\ ConvertToFollower(s, m) /\ UNCHANGED persistentVars
    <3>1. stored' \in [Server -> State] /\ UNCHANGED storedLog
      BY <1>1, <2>1 DEF TypeOK
    <3> QED
      BY <1>1, <2>1, <3>1, TypeConvertToFollower
  <2>2. CASE ~(m.term = currentTerm[s] /\ ConvertToFollower(s, m) /\ UNCHANGED persistentVars)
    <3>1. messages' \in SUBSET Message
      BY <1>1, <1>2, <1>6, <2>2 DEF CandidateHandleAppendEntries, Send, TypeOK
    <3> QED
      BY <1>6, <2>2, <3>1, TypeReply DEF CandidateHandleAppendEntries
  <2> QED
    BY <2>1, <2>2
<1> QED
  BY <1>3, <1>4, <1>5, <1>6 DEF CandidateReceives

(* What is left of a sequence without its first k elements.                 *)
LEMMA TailOfSeq ==
  ASSUME NEW S, NEW q \in Seq(S), NEW k \in 0 .. Len(q)
  PROVE  /\ SubSeq(q, k + 1, Len(q)) \in Seq(S)
         /\ Len(SubSeq(q, k + 1, Len(q))) = Len(q) - k
         /\ \A i \in 1 .. Len(q) - k : SubSeq(q, k + 1, Len(q))[i] = q[k + i]
<1> DEFINE rest == SubSeq(q, k + 1, Len(q))
<1>1. Len(q) \in Nat /\ k \in Nat /\ k <= Len(q)
  OBVIOUS
<1>2. \A i \in k + 1 .. Len(q) : q[i] \in S
  BY <1>1, ElementOfSeq
<1>3. /\ rest \in Seq(S)
      /\ Len(rest) = IF k + 1 <= Len(q) THEN Len(q) - (k + 1) + 1 ELSE 0
      /\ \A i \in 1 .. Len(q) - (k + 1) + 1 : rest[i] = q[(k + 1) + i - 1]
  BY <1>1, <1>2, SubSeqProperties
<1> HIDE DEF rest
<1>4. Len(rest) = Len(q) - k
  BY <1>1, <1>3
<1>5. ASSUME NEW i \in 1 .. Len(q) - k PROVE rest[i] = q[k + i]
  <2>1. i \in 1 .. Len(q) - (k + 1) + 1 /\ (k + 1) + i - 1 = k + i
    BY <1>1
  <2> QED
    BY <1>3, <2>1
<1> QED
  BY <1>3, <1>4, <1>5 DEF rest

(* What counting a reply leaves of the entries a leader waits for, and that *)
(* the entry it commits is one of its log.                                  *)
LEMMA MarkedTypes ==
  ASSUME NEW pending \in Seq(PendingEntry),
         NEW start \in Nat, NEW end \in Nat, NEW n \in 0 .. Len(pending)
  PROVE  LET marked == Marked(pending, start, end)
             rest   == SubSeq(marked, n + 1, Len(marked))
         IN  /\ marked \in Seq(PendingEntry)
             /\ Len(marked) = Len(pending)
             /\ \A i \in 1 .. Len(pending) : marked[i].index = pending[i].index
             /\ rest \in Seq(PendingEntry)
             /\ Len(rest) = Len(pending) - n
             /\ \A i \in 1 .. Len(rest) : rest[i] = marked[n + i]
             /\ \A i \in DOMAIN rest : \E j \in DOMAIN pending :
                  rest[i].index = pending[j].index
<1> DEFINE marked == Marked(pending, start, end)
           rest   == SubSeq(marked, n + 1, Len(marked))
<1>1. /\ DOMAIN pending = 1 .. Len(pending)
      /\ Len(pending) \in Nat
      /\ \A i \in 1 .. Len(pending) :
           pending[i] \in PendingEntry
  BY ElementOfSeq
<1>2. /\ marked = [i \in 1 .. Len(pending) |-> marked[i]]
      /\ \A i \in 1 .. Len(pending) :
           /\ marked[i] \in PendingEntry
           /\ marked[i].index = pending[i].index
  BY <1>1 DEF Marked, PendingEntry
<1> HIDE DEF marked
<1>3. /\ marked \in Seq(PendingEntry)
      /\ Len(marked) = Len(pending)
  BY <1>1, <1>2
<1>4. /\ rest \in Seq(PendingEntry)
      /\ Len(rest) = Len(pending) - n
      /\ \A i \in 1 .. Len(rest) : rest[i] = marked[n + i]
  <2>1. n \in 0 .. Len(marked)
    BY <1>3
  <2>2. /\ rest \in Seq(PendingEntry)
        /\ Len(rest) = Len(marked) - n
        /\ \A i \in 1 .. Len(marked) - n : rest[i] = marked[n + i]
    BY <1>3, <2>1, TailOfSeq
  <2> QED
    BY <1>3, <2>2
<1> HIDE DEF rest
<1>5. ASSUME NEW i \in DOMAIN rest
      PROVE  \E j \in DOMAIN pending : rest[i].index = pending[j].index
  <2>1. i \in 1 .. Len(rest)
    BY <1>4
  <2>2. n + i \in 1 .. Len(pending)
    BY <1>1, <1>4, <2>1
  <2> QED
    BY <1>1, <1>2, <1>4, <2>1, <2>2
<1> QED
  BY <1>2, <1>3, <1>4, <1>5 DEF rest, marked

(* The number of entries at the head that need no more followers.           *)
LEMMA ReplicatedCountType ==
  ASSUME NEW pending \in Seq(PendingEntry)
  PROVE  ReplicatedCount(pending) \in 0 .. Len(pending)
<1> DEFINE S == {i \in DOMAIN pending :
                   \A j \in 1 .. i : pending[j].acceptsRequired = 0}
<1>1. DOMAIN pending = 1 .. Len(pending) /\ Len(pending) \in Nat
  OBVIOUS
<1>2. IsFiniteSet(1 .. Len(pending)) /\ Cardinality(1 .. Len(pending)) = Len(pending)
  BY <1>1, FS_Interval
<1>3. S \subseteq 1 .. Len(pending)
  BY <1>1
<1> HIDE DEF S
<1>4. IsFiniteSet(S) /\ Cardinality(S) <= Len(pending)
  BY <1>2, <1>3, FS_Subset
<1>5. Cardinality(S) \in Nat
  BY <1>4, FS_CardinalityType
<1> QED
  BY <1>1, <1>4, <1>5 DEF ReplicatedCount, S

(* A leader that counts a follower's reply.                                 *)
LEMMA MarkReplicationTypes ==
  ASSUME TypeInv, NEW s \in Server, NEW start \in Nat, NEW end \in Nat,
         MarkReplication(s, start, end)
  PROVE  /\ pendingApplication' \in [Server -> Seq(PendingEntry)]
         /\ \A p \in Server \ {s} : pendingApplication'[p] = pendingApplication[p]
         /\ \A i \in DOMAIN pendingApplication'[s] :
              pendingApplication'[s][i].index \in 1 .. LastIndex(log[s])
         /\ role[s] # "Leader" => pendingApplication'[s] = << >>
         /\ commitIndex' \in [Server -> Nat]
         /\ committed' \in SUBSET [index : Nat, entry : Entry]
<1> DEFINE old     == pendingApplication[s]
           pending == Marked(old, start, end)
           n       == ReplicatedCount(pending)
           index   == IF n = 0 THEN commitIndex[s] ELSE pending[n].index
           rest    == SubSeq(pending, n + 1, Len(pending))
<1>1. /\ pendingApplication' = [pendingApplication EXCEPT ![s] = rest]
      /\ commitIndex' = [commitIndex EXCEPT ![s] = index]
      /\ IF n = 0 THEN UNCHANGED committed ELSE Commit(log[s], index)
  BY DEF MarkReplication
<1>2. /\ old \in Seq(PendingEntry)
      /\ log[s] \in Seq(Entry)
      /\ LastIndex(log[s]) \in Nat
      /\ commitIndex[s] \in Nat
      /\ DOMAIN old = 1 .. Len(old)
      /\ Len(old) \in Nat
  BY ServerTypes DEF TypeInv
<1>3. /\ \A i \in DOMAIN old : old[i].index \in 1 .. LastIndex(log[s])
      /\ role[s] # "Leader" => old = << >>
  BY DEF TypeInv, PendingInLog, PendingInLogAt
<1> HIDE DEF old
<1>4. /\ pending \in Seq(PendingEntry)
      /\ Len(pending) = Len(old)
      /\ \A i \in 1 .. Len(old) : pending[i].index = old[i].index
  <2>1. 0 \in 0 .. Len(old)
    BY <1>2
  <2> QED
    BY <1>2, <2>1, MarkedTypes, ZenonT(60)
<1>5. n \in 0 .. Len(old)
  BY <1>4, ReplicatedCountType
<1> HIDE DEF n
<1>6. /\ rest \in Seq(PendingEntry)
      /\ \A i \in DOMAIN rest : rest[i].index \in 1 .. LastIndex(log[s])
      /\ role[s] # "Leader" => rest = << >>
  <2>1. /\ rest \in Seq(PendingEntry)
        /\ \A i \in DOMAIN rest : \E j \in DOMAIN old :
             rest[i].index = old[j].index
    BY <1>2, <1>5, MarkedTypes, ZenonT(60)
  <2>2. role[s] # "Leader" => Len(pending) = 0 /\ n = 0
    BY <1>3, <1>4, <1>5
  <2>3. role[s] # "Leader" => rest = << >>
    BY <1>4, <2>2
  <2> QED
    BY <1>3, <2>1, <2>3
<1>7. index \in Nat /\ (n # 0 => index \in 1 .. LastIndex(log[s]))
  <2>1. n # 0 => n \in DOMAIN old /\ pending[n].index = old[n].index
    BY <1>2, <1>4, <1>5
  <2>2. n # 0 => pending[n].index \in 1 .. LastIndex(log[s])
    BY <1>3, <2>1
  <2> HIDE DEF pending
  <2> QED
    BY <1>2, <2>2
<1> HIDE DEF pending, rest, index
<1>8. committed' \in SUBSET [index : Nat, entry : Entry]
  <2>1. committed \in SUBSET [index : Nat, entry : Entry]
    BY DEF TypeInv, TypeOK
  <2>2. CASE n = 0
    BY <1>1, <2>1, <2>2
  <2>3. CASE n # 0
    <3>1. \A i \in 1 .. index : i \in Nat /\ log[s][i] \in Entry
      <4> TAKE i \in 1 .. index
      <4>1. i \in Nat /\ i \in 1 .. Len(log[s])
        BY <1>2, <1>7, <2>3 DEF LastIndex
      <4>2. log[s][i] \in Entry
        BY <1>2, <4>1, ElementOfSeq
      <4> QED
        BY <4>1, <4>2
    <3>2. committed' = committed \union
            {[index |-> i, entry |-> log[s][i]] : i \in 1 .. index}
      BY <1>1, <2>3 DEF Commit
    <3> QED
      BY <2>1, <3>1, <3>2
  <2> QED
    BY <2>2, <2>3
<1> QED
  BY <1>1, <1>6, <1>7, <1>8 DEF TypeInv, TypeOK

(* The leader's handlers that only update followers: the request for a      *)
(* vote and the rejection of entries.                                       *)
LEMMA TypeLeaderUpdates ==
  ASSUME TypeInv, NEW s \in Server, NEW m \in Message, role[s] = "Leader",
         LeaderHandleRequestVote(s, m) \/ LeaderHandleRejectEntries(s, m)
  PROVE  TypeInv'
<1>1. /\ TypeOK /\ PendingInLog /\ PendingInLogAt(s)
      /\ m.from \in Server /\ {m.from} \in SUBSET Server
  BY MessageFields DEF TypeInv, PendingInLog
<1>2. UNCHANGED <<role, currentTerm, votedFor, log, stored, storedLog, skipTick,
                  commitIndex, votesRequired, votesAlreadyReceived, matchIndex,
                  pendingApplication, elected, committed, restarts>>
  BY DEF LeaderHandleRequestVote, LeaderHandleRejectEntries, persistentVars,
         candidateVars, leaderVars, historyVars
<1>3. log[s] \in Seq(Entry) /\ commitIndex'[s] \in Nat
  BY <1>1, <1>2, ServerTypes
<1>4. /\ messages' \in SUBSET Message
      /\ operation' \in [Server -> Operation]
      /\ nextIndex' \in [Server -> [Server -> Nat \ {0}]]
      /\ \A p \in Server \ {s} : operation'[p] = operation[p]
  <2>1. CASE LeaderHandleRequestVote(s, m)
    <3>1. UNCHANGED nextIndex
      BY <2>1 DEF LeaderHandleRequestVote, leaderVars
    <3>2. CASE m.term < currentTerm[s]
      <4>1. messages' = messages \union {DenyVote(s, m.from)} /\ UNCHANGED operation
        <5>1. ~(m.term = currentTerm[s])
          BY <1>1, <3>2, MessageFields, ServerTypes
        <5> QED
          BY <2>1, <3>2, <5>1 DEF LeaderHandleRequestVote, Send
      <4>2. DenyVote(s, m.from) \in Message
        BY <1>1, MessageTypes
      <4> QED
        BY <1>1, <3>1, <4>1, <4>2 DEF TypeOK
    <3>3. CASE ~(m.term < currentTerm[s])
      <4>1. UpdateFollowers(s, {m.from}, nextIndex[s], matchIndex[s], TRUE, log[s])
        BY <2>1, <3>3 DEF LeaderHandleRequestVote
      <4>2. nextIndex[s] \in [Server -> Nat \ {0}]
        BY <1>1, ServerTypes
      <4>3. /\ messages' \in SUBSET Message
            /\ operation' \in [Server -> Operation]
            /\ \A p \in Server \ {s} : operation'[p] = operation[p]
        BY <1>1, <1>3, <4>1, <4>2, UpdateFollowersTypes
      <4> QED
        BY <1>1, <3>1, <4>3 DEF TypeOK
    <3> QED
      BY <3>2, <3>3
  <2>2. CASE LeaderHandleRejectEntries(s, m)
    <3>1. /\ m.type = "RejectEntries"
          /\ m.conflictingIndex > matchIndex[s][m.from]
          /\ nextIndex' = [nextIndex EXCEPT ![s][m.from] = m.conflictingIndex]
          /\ UpdateFollowers(s, {m.from}, nextIndex'[s], matchIndex[s], TRUE, log[s])
      BY <2>2 DEF LeaderHandleRejectEntries
    <3>2. m.conflictingIndex \in Nat /\ matchIndex[s][m.from] \in Nat
      BY <1>1, <3>1, MessageFields, ServerTypes
    <3>3. m.conflictingIndex \in Nat \ {0}
      BY <3>1, <3>2
    <3>4. nextIndex' \in [Server -> [Server -> Nat \ {0}]]
      BY <1>1, <3>1, <3>3 DEF TypeOK
    <3>5. nextIndex'[s] \in [Server -> Nat \ {0}]
      BY <3>4
    <3> QED
      BY <1>1, <1>3, <3>1, <3>4, <3>5, UpdateFollowersTypes
  <2> QED
    BY <2>1, <2>2
<1>5. TypeOK'
  BY <1>1, <1>2, <1>4 DEF TypeOK
<1>6. PendingInLogAt(s)'
  BY <1>1, <1>2 DEF PendingInLogAt
<1>7. PendingInLog'
  BY <1>1, <1>2, <1>4, <1>6, PendingStep
<1> QED
  BY <1>5, <1>7 DEF TypeInv

(* The acceptance of entries.                                               *)
LEMMA TypeLeaderHandleAcceptEntries ==
  ASSUME TypeInv, NEW s \in Server, NEW m \in Message, role[s] = "Leader",
         LeaderHandleAcceptEntries(s, m)
  PROVE  TypeInv'
<1>1. /\ TypeOK /\ PendingInLog /\ PendingInLogAt(s)
      /\ m.from \in Server /\ {m.from} \in SUBSET Server
  BY MessageFields DEF TypeInv, PendingInLog
<1>2. /\ m.type = "AcceptEntries"
      /\ UNCHANGED <<role, currentTerm, votedFor, log, stored, storedLog,
                     skipTick, votesRequired, votesAlreadyReceived, elected,
                     restarts>>
  BY DEF LeaderHandleAcceptEntries, persistentVars, candidateVars
<1>3. /\ log[s] \in Seq(Entry)
      /\ m.lastLogIndex \in Nat
      /\ nextIndex[s][m.from] \in Nat
  BY <1>1, <1>2, MessageFields, ServerTypes
<1>4. /\ nextIndex' \in [Server -> [Server -> Nat \ {0}]]
      /\ matchIndex' \in [Server -> [Server -> Nat]]
      /\ pendingApplication' \in [Server -> Seq(PendingEntry)]
      /\ \A p \in Server \ {s} : pendingApplication'[p] = pendingApplication[p]
      /\ \A i \in DOMAIN pendingApplication'[s] :
           pendingApplication'[s][i].index \in 1 .. LastIndex(log[s])
      /\ commitIndex' \in [Server -> Nat]
      /\ committed' \in SUBSET [index : Nat, entry : Entry]
  <2>1. CASE m.lastLogIndex >= nextIndex[s][m.from]
    <3>1. /\ MarkReplication(s, nextIndex[s][m.from], m.lastLogIndex)
          /\ nextIndex' = [nextIndex EXCEPT ![s][m.from] = m.lastLogIndex + 1]
          /\ matchIndex' = [matchIndex EXCEPT ![s][m.from] = m.lastLogIndex]
      BY <1>3, <2>1 DEF LeaderHandleAcceptEntries
    <3>2. m.lastLogIndex + 1 \in Nat \ {0}
      BY <1>3
    <3>3. /\ nextIndex' \in [Server -> [Server -> Nat \ {0}]]
          /\ matchIndex' \in [Server -> [Server -> Nat]]
      BY <1>1, <1>3, <3>1, <3>2 DEF TypeOK
    <3> QED
      BY <1>3, <3>1, <3>3, MarkReplicationTypes
  <2>2. CASE ~(m.lastLogIndex >= nextIndex[s][m.from])
    <3>1. UNCHANGED <<nextIndex, matchIndex, pendingApplication, commitIndex,
                      committed>>
      BY <2>2 DEF LeaderHandleAcceptEntries, leaderVars
    <3> QED
      BY <1>1, <3>1 DEF TypeOK, PendingInLogAt
  <2> QED
    BY <2>1, <2>2
<1>5. commitIndex'[s] \in Nat /\ nextIndex'[s] \in [Server -> Nat \ {0}]
  BY <1>4
<1>6. /\ messages' \in SUBSET Message
      /\ operation' \in [Server -> Operation]
      /\ \A p \in Server \ {s} : operation'[p] = operation[p]
  <2>1. CASE nextIndex'[s][m.from] <= LastIndex(log[s])
    <3>1. UpdateFollowers(s, {m.from}, nextIndex'[s], matchIndex'[s], FALSE, log[s])
      BY <2>1 DEF LeaderHandleAcceptEntries
    <3> QED
      BY <1>1, <1>3, <1>5, <3>1, UpdateFollowersTypes
  <2>2. CASE ~(nextIndex'[s][m.from] <= LastIndex(log[s]))
    <3>1. UNCHANGED <<messages, operation>>
      BY <2>2 DEF LeaderHandleAcceptEntries
    <3> QED
      BY <1>1, <3>1 DEF TypeOK
  <2> QED
    BY <2>1, <2>2
<1>7. TypeOK'
  BY <1>1, <1>2, <1>4, <1>6 DEF TypeOK
<1>8. PendingInLogAt(s)'
  BY <1>2, <1>4 DEF PendingInLogAt
<1>9. PendingInLog'
  BY <1>1, <1>2, <1>4, <1>6, <1>8, PendingStep
<1> QED
  BY <1>7, <1>9 DEF TypeInv

(* A leader that handles a message.                                         *)
LEMMA TypeLeaderReceives ==
  ASSUME TypeInv, NEW s \in Server, NEW m \in messages, LeaderReceives(s, m)
  PROVE  TypeInv'
<1>1. m \in Message /\ role[s] = "Leader"
  BY DEF TypeInv, TypeOK, LeaderReceives
<1> QED
  BY <1>1, TypeDeferToNewerTerm, TypeLeaderUpdates,
     TypeLeaderHandleAcceptEntries
  DEF LeaderReceives

(* A leader that is asked to append a value.                                *)
LEMMA TypeLeaderAppends ==
  ASSUME TypeInv, NEW s \in Server, NEW value \in Value,
         LeaderAppends(s, value)
  PROVE  TypeInv'
<1>1. TypeOK /\ PendingInLog /\ PendingInLogAt(s)
  BY DEF TypeInv, PendingInLog
<1>2. /\ role[s] = "Leader"
      /\ operation' = [operation EXCEPT ![s] = [kind |-> "append", value |-> value]]
      /\ UNCHANGED <<role, currentTerm, votedFor, log, skipTick, commitIndex,
                     messages, stored, storedLog, votesRequired,
                     votesAlreadyReceived, nextIndex, matchIndex,
                     pendingApplication, elected, committed, restarts>>
  BY DEF LeaderAppends, SetOperation, persistentVars, candidateVars,
         leaderVars, historyVars
<1>3. [kind |-> "append", value |-> value] \in Operation
  BY OperationTypes
<1>4. operation' \in [Server -> Operation]
  BY <1>1, <1>2, <1>3 DEF TypeOK
<1>5. TypeOK'
  BY <1>1, <1>2, <1>4 DEF TypeOK
<1>6. PendingInLogAt(s)'
  BY <1>1, <1>2 DEF PendingInLogAt
<1>7. PendingInLog'
  BY <1>1, <1>2, <1>6, PendingStep DEF TypeOK
<1> QED
  BY <1>5, <1>7 DEF TypeInv

-----------------------------------------------------------------------------
(* What is durable *)

(* Every log in memory is a prefix of the one a crash would restore.  A     *)
(* write of entries builds on what was persisted up to the end of the log,  *)
(* so it would be ill typed without it.                                     *)
LogIsStoredAt(s) ==
  /\ Len(log[s]) <= Len(storedLog[s])
  /\ \A i \in 1 .. Len(log[s]) : storedLog[s][i] = log[s][i]

LogIsStored == \A s \in Server : LogIsStoredAt(s)

(* The entries that a write adds.                                           *)
LEMMA NewEntriesType ==
  ASSUME TypeOK, NEW s \in Server, WritesEntries(operation[s])
  PROVE  NewEntries(s) \in Seq(Entry)
<1>1. operation[s] \in Operation /\ currentTerm[s] \in Nat
  BY ServerTypes
<1>2. CASE operation[s].kind = "append"
  <2>1. operation[s].value \in Value
    BY <1>1, <1>2, OperationFields
  <2>2. [term |-> currentTerm[s], value |-> operation[s].value] \in Entry
    BY <1>1, <2>1 DEF Entry
  <2> QED
    BY <1>2, <2>2 DEF NewEntries
<1>3. CASE operation[s].kind = "mergeEntries"
  BY <1>1, <1>3, OperationFields DEF NewEntries
<1> QED
  BY <1>2, <1>3 DEF WritesEntries

(* A write of entries after the end of the log leaves the same log plus     *)
(* those entries to restore, and touches no other server.                   *)
LEMMA StoreEntriesEffect ==
  ASSUME TypeOK, NEW s \in Server, LogIsStoredAt(s),
         WritesEntries(operation[s]), StoreEntries(s)
  PROVE  /\ storedLog' \in [Server -> Seq(Entry)]
         /\ \A p \in Server \ {s} : storedLog'[p] = storedLog[p]
         /\ storedLog'[s] = Extended(log[s], NewEntries(s))
<1>1. /\ log[s] \in Seq(Entry)
      /\ storedLog[s] \in Seq(Entry)
      /\ NewEntries(s) \in Seq(Entry)
  BY ServerTypes, NewEntriesType
<1>2. Len(log[s]) \in Nat /\ Len(storedLog[s]) \in Nat
  BY <1>1
<1>3. SubSeq(storedLog[s], 1, Len(log[s])) = log[s]
  <2> DEFINE kept == SubSeq(storedLog[s], 1, Len(log[s]))
  <2>1. \A i \in 1 .. Len(log[s]) : storedLog[s][i] \in Entry
    BY <1>1, <1>2, ElementOfSeq DEF LogIsStoredAt
  <2>2. /\ kept \in Seq(Entry)
        /\ Len(kept) = IF 1 <= Len(log[s]) THEN Len(log[s]) - 1 + 1 ELSE 0
        /\ \A i \in 1 .. Len(log[s]) - 1 + 1 : kept[i] = storedLog[s][1 + i - 1]
    BY <1>2, <2>1, SubSeqProperties
  <2> HIDE DEF kept
  <2>3. Len(kept) = Len(log[s])
    BY <1>2, <2>2
  <2>4. \A i \in 1 .. Len(log[s]) : kept[i] = log[s][i]
    <3> TAKE i \in 1 .. Len(log[s])
    <3>1. i \in 1 .. Len(log[s]) - 1 + 1 /\ 1 + i - 1 = i
      BY <1>2
    <3> QED
      BY <2>2, <3>1 DEF LogIsStoredAt
  <2>5. kept = log[s]
    BY <1>1, <2>2, <2>3, <2>4, SeqEqual
  <2> QED
    BY <2>5 DEF kept
<1>4. storedLog' = [storedLog EXCEPT ![s] = log[s] \o NewEntries(s)]
  <2> DEFINE index == LastIndex(log[s]) + 1
  <2>1. index - 1 = Len(log[s])
    BY <1>2 DEF LastIndex
  <2> HIDE DEF index
  <2>2. Journalled(storedLog[s], index, NewEntries(s)) = log[s] \o NewEntries(s)
    BY <1>3, <2>1 DEF Journalled
  <2>3. storedLog' = [storedLog EXCEPT
          ![s] = Journalled(storedLog[s], index, NewEntries(s))]
    BY DEF StoreEntries, index
  <2> QED
    BY <2>2, <2>3
<1>5. log[s] \o NewEntries(s) \in Seq(Entry)
  BY <1>1, ConcatProperties
<1> QED
  BY <1>4, <1>5 DEF TypeOK, Extended

(* The state that is persisted.                                             *)
LEMMA StoreStateType ==
  ASSUME TypeOK, NEW s \in Server, StoreState(s)
  PROVE  stored' \in [Server -> State]
<1>1. StateOf(s) \in State
  BY ServerTypes
<1> QED
  BY <1>1 DEF StoreState, TypeOK

(* The continuations of the writes of a term or vote.                       *)
LEMMA TypePersistedState ==
  ASSUME TypeInv, NEW s \in Server,
         PersistedRequestVote(s) \/ PersistedGrantVote(s) \/ PersistedSetTerm(s)
  PROVE  TypeInv'
<1>1. TypeOK /\ PendingInLog /\ PendingInLogAt(s)
  BY DEF TypeInv, PendingInLog
<1>2. /\ StoreState(s)
      /\ operation' = [operation EXCEPT ![s] = Idle]
      /\ UNCHANGED <<role, currentTerm, votedFor, log, storedLog, commitIndex,
                     votesRequired, votesAlreadyReceived, nextIndex, matchIndex,
                     pendingApplication, elected, committed, restarts>>
  BY DEF PersistedRequestVote, PersistedGrantVote, PersistedSetTerm,
         SetOperation, candidateVars, leaderVars, historyVars
<1>3. /\ messages' \in SUBSET Message
      /\ skipTick' \in [Server -> BOOLEAN]
  <2>1. CASE PersistedRequestVote(s)
    <3>1. \A p \in Peers(s) : RequestVote(s, p, currentTerm[s]) \in Message
      BY <1>1, MessageTypes DEF Peers
    <3>2. /\ messages' = messages \union
               {RequestVote(s, p, currentTerm[s]) : p \in Peers(s)}
          /\ UNCHANGED skipTick
      BY <2>1 DEF PersistedRequestVote, Send
    <3> QED
      BY <1>1, <3>1, <3>2 DEF TypeOK
  <2>2. CASE PersistedGrantVote(s)
    <3>1. operation[s] \in Operation /\ operation[s].kind = "grantVote"
      BY <1>1, <2>2, ServerTypes DEF PersistedGrantVote
    <3>2. operation[s].peer \in Server
      BY <3>1, OperationFields
    <3>3. GrantVote(s, operation[s].peer) \in Message
      BY <1>1, <3>2, MessageTypes
    <3>4. /\ messages' = messages \union {GrantVote(s, operation[s].peer)}
          /\ skipTick' = [skipTick EXCEPT ![s] = TRUE]
      BY <2>2 DEF PersistedGrantVote, Send
    <3> QED
      BY <1>1, <3>3, <3>4 DEF TypeOK
  <2>3. CASE PersistedSetTerm(s)
    BY <1>1, <2>3 DEF PersistedSetTerm, TypeOK
  <2> QED
    BY <2>1, <2>2, <2>3
<1>4. operation' \in [Server -> Operation]
  BY <1>1, <1>2, OperationTypes DEF TypeOK
<1>5. TypeOK'
  BY <1>1, <1>2, <1>3, <1>4, StoreStateType DEF TypeOK
<1>6. operation'[s].kind # "append"
  BY <1>1, <1>2 DEF TypeOK, Idle
<1>7. PendingInLogAt(s)'
  BY <1>1, <1>2, <1>6 DEF PendingInLogAt
<1>8. PendingInLog'
  BY <1>1, <1>2, <1>7, PendingStep DEF TypeOK
<1> QED
  BY <1>5, <1>8 DEF TypeInv

(* The continuation of a newer term met by a candidate or leader.           *)
LEMMA TypePersistedConvert ==
  ASSUME TypeInv, NEW s \in Server, PersistedConvert(s)
  PROVE  TypeInv'
<1>1. TypeOK /\ operation[s] \in Operation /\ operation[s].kind = "convert"
  BY ServerTypes DEF TypeInv, PersistedConvert
<1>2. operation[s].message \in Message
  BY <1>1, OperationFields
<1>3. /\ StoreState(s)
      /\ ConvertToFollower(s, operation[s].message)
      /\ UNCHANGED storedLog
  BY DEF PersistedConvert
<1> QED
  BY <1>1, <1>2, <1>3, StoreStateType, TypeConvertToFollower

(* The continuation of entries a follower merged.                           *)
LEMMA TypePersistedMergeEntries ==
  ASSUME TypeInv, NEW s \in Server, LogIsStoredAt(s), PersistedMergeEntries(s)
  PROVE  /\ TypeInv'
         /\ LogIsStoredAt(s)'
         /\ \A p \in Server \ {s} :
              log'[p] = log[p] /\ storedLog'[p] = storedLog[p]
<1>1. /\ TypeOK /\ PendingInLog /\ PendingInLogAt(s)
      /\ operation[s] \in Operation /\ operation[s].kind = "mergeEntries"
      /\ log[s] \in Seq(Entry)
  BY ServerTypes DEF TypeInv, PendingInLog, PersistedMergeEntries
<1> DEFINE entries == operation[s].entries
           peer == operation[s].peer
<1>2. entries \in Seq(Entry) /\ peer \in Server
  BY <1>1, OperationFields
<1>3. /\ IF WritesState(operation[s]) THEN StoreState(s) ELSE UNCHANGED stored
      /\ IF WritesEntries(operation[s]) THEN StoreEntries(s)
                                        ELSE UNCHANGED storedLog
      /\ log' = [log EXCEPT ![s] = Extended(log[s], entries)]
      /\ messages' = messages \union {AcceptEntries(s, peer, LastIndex(log'[s]))}
      /\ operation' = [operation EXCEPT ![s] = Idle]
      /\ UNCHANGED <<role, currentTerm, votedFor, skipTick, commitIndex,
                     votesRequired, votesAlreadyReceived, nextIndex, matchIndex,
                     pendingApplication, elected, committed, restarts>>
  BY DEF PersistedMergeEntries, SetOperation, Send, candidateVars, leaderVars,
         historyVars
<1>4. NewEntries(s) = entries
  BY <1>1 DEF NewEntries
<1>5. /\ Extended(log[s], entries) \in Seq(Entry)
      /\ Len(Extended(log[s], entries)) = Len(log[s]) + Len(entries)
      /\ entries = << >> => Extended(log[s], entries) = log[s]
  <2>1. entries = << >> => log[s] \o entries = log[s]
    BY <1>1, <1>2, ConcatEmptySeq
  <2> QED
    BY <1>1, <1>2, <2>1, ConcatProperties DEF Extended
<1> HIDE DEF entries, peer
<1>6. log' \in [Server -> Seq(Entry)] /\ log'[s] = Extended(log[s], entries)
  BY <1>1, <1>3, <1>5 DEF TypeOK
<1>7. messages' \in SUBSET Message
  <2>1. LastIndex(log'[s]) \in Nat
    BY <1>6, LogTypes
  <2>2. AcceptEntries(s, peer, LastIndex(log'[s])) \in Message
    BY <1>1, <1>2, <2>1, MessageTypes
  <2> QED
    BY <1>1, <1>3, <2>2 DEF TypeOK
<1>8. stored' \in [Server -> State]
  BY <1>1, <1>3, StoreStateType DEF TypeOK
<1>9. /\ storedLog' \in [Server -> Seq(Entry)]
      /\ \A p \in Server \ {s} : storedLog'[p] = storedLog[p]
      /\ \/ storedLog'[s] = log'[s]
         \/ storedLog'[s] = storedLog[s] /\ log'[s] = log[s]
  <2>1. CASE WritesEntries(operation[s])
    BY <1>1, <1>3, <1>4, <1>6, <2>1, StoreEntriesEffect
  <2>2. CASE ~WritesEntries(operation[s])
    <3>1. entries = << >>
      BY <1>1, <2>2 DEF WritesEntries, entries
    <3> QED
      BY <1>1, <1>3, <1>5, <1>6, <2>2, <3>1 DEF TypeOK
  <2> QED
    BY <2>1, <2>2
<1>10. operation' \in [Server -> Operation] /\ operation'[s].kind # "append"
  BY <1>1, <1>3, OperationTypes DEF TypeOK, Idle
<1>11. TypeOK'
  BY <1>1, <1>3, <1>6, <1>7, <1>8, <1>9, <1>10 DEF TypeOK
<1>12. PendingInLogAt(s)'
  <2>1. LastIndex(log'[s]) \in Nat /\ LastIndex(log[s]) <= LastIndex(log'[s])
    BY <1>1, <1>2, <1>5, <1>6 DEF LastIndex
  <2>2. LastIndex(log[s]) \in Nat
    BY <1>1, ServerTypes
  <2> QED
    BY <1>1, <1>3, <1>10, <2>1, <2>2 DEF PendingInLogAt
<1>13. PendingInLog'
  BY <1>1, <1>3, <1>12, PendingStep DEF TypeOK
<1>14. LogIsStoredAt(s)'
  <2>1. log'[s] \in Seq(Entry)
    BY <1>6
  <2>2. Len(log'[s]) <= Len(log'[s])
    BY <2>1
  <2> QED
    BY <1>9, <2>2 DEF LogIsStoredAt
<1>15. \A p \in Server \ {s} : log'[p] = log[p] /\ storedLog'[p] = storedLog[p]
  BY <1>1, <1>3, <1>9 DEF TypeOK
<1> QED
  BY <1>11, <1>13, <1>14, <1>15 DEF TypeInv

(* The continuation of an entry a leader appended.                          *)
LEMMA TypePersistedAppend ==
  ASSUME TypeInv, NEW s \in Server, LogIsStoredAt(s), PersistedAppend(s)
  PROVE  /\ TypeInv'
         /\ LogIsStoredAt(s)'
         /\ \A p \in Server \ {s} :
              log'[p] = log[p] /\ storedLog'[p] = storedLog[p]
<1>1. /\ TypeOK /\ PendingInLog /\ PendingInLogAt(s)
      /\ operation[s] \in Operation /\ operation[s].kind = "append"
      /\ log[s] \in Seq(Entry)
      /\ role[s] = "Leader"
  BY ServerTypes DEF TypeInv, PendingInLog, PendingInLogAt, PersistedAppend
<1> DEFINE entries == NewEntries(s)
           old     == pendingApplication[s]
           waiting == [index |-> LastIndex(log'[s]),
                       acceptsRequired |-> HalfOfPeers]
<1>2. /\ StoreEntries(s)
      /\ log' = [log EXCEPT ![s] = Extended(log[s], entries)]
      /\ pendingApplication' = [pendingApplication EXCEPT
                                  ![s] = Append(old, waiting)]
      /\ skipTick' = [skipTick EXCEPT ![s] = TRUE]
      /\ UpdateFollowers(s, Peers(s), nextIndex[s], matchIndex[s], FALSE, log'[s])
      /\ UNCHANGED <<role, currentTerm, votedFor, commitIndex, stored,
                     votesRequired, votesAlreadyReceived, nextIndex, matchIndex,
                     elected, committed, restarts>>
  BY DEF PersistedAppend, candidateVars, historyVars
<1>3. WritesEntries(operation[s])
  BY <1>1 DEF WritesEntries
<1>4. entries \in Seq(Entry) /\ Len(entries) = 1
  <2>1. entries \in Seq(Entry)
    BY <1>1, <1>3, NewEntriesType
  <2>2. entries = << [term |-> currentTerm[s], value |-> operation[s].value] >>
    BY <1>1 DEF NewEntries
  <2> QED
    BY <2>1, <2>2
<1> HIDE DEF entries
<1>5. /\ Extended(log[s], entries) \in Seq(Entry)
      /\ Len(Extended(log[s], entries)) = Len(log[s]) + 1
  <2>1. /\ log[s] \o entries \in Seq(Entry)
        /\ Len(log[s] \o entries) = Len(log[s]) + Len(entries)
    BY <1>1, <1>4, ConcatProperties
  <2> QED
    BY <1>4, <2>1 DEF Extended
<1>6. log' \in [Server -> Seq(Entry)] /\ log'[s] = Extended(log[s], entries)
  BY <1>1, <1>2, <1>5 DEF TypeOK
<1>7. LastIndex(log'[s]) \in Nat /\ LastIndex(log'[s]) = LastIndex(log[s]) + 1
  BY <1>1, <1>5, <1>6 DEF LastIndex
<1>8. waiting \in PendingEntry /\ waiting.index = LastIndex(log'[s])
  BY <1>7, HalfOfPeersType DEF PendingEntry
<1>9. /\ messages' \in SUBSET Message
      /\ operation' \in [Server -> Operation]
      /\ \A p \in Server \ {s} : operation'[p] = operation[p]
      /\ operation'[s].kind # "append"
  <2>1. /\ Peers(s) \in SUBSET Server
        /\ nextIndex[s] \in [Server -> Nat \ {0}]
        /\ log'[s] \in Seq(Entry)
        /\ commitIndex'[s] \in Nat
    BY <1>1, <1>2, <1>6, ServerTypes DEF Peers
  <2> QED
    BY <1>1, <1>2, <2>1, UpdateFollowersTypes
<1> HIDE DEF waiting
<1>10. /\ storedLog' \in [Server -> Seq(Entry)]
       /\ \A p \in Server \ {s} : storedLog'[p] = storedLog[p]
       /\ storedLog'[s] = log'[s]
  BY <1>1, <1>2, <1>3, <1>6, StoreEntriesEffect DEF entries
<1>11. /\ old \in Seq(PendingEntry)
       /\ Append(old, waiting) \in Seq(PendingEntry)
       /\ Len(Append(old, waiting)) = Len(old) + 1
       /\ \A i \in 1 .. Len(old) : Append(old, waiting)[i] = old[i]
       /\ Append(old, waiting)[Len(old) + 1] = waiting
  <2>1. old \in Seq(PendingEntry)
    BY <1>1, ServerTypes
  <2> QED
    BY <1>8, <2>1, AppendProperties
<1>12. skipTick' \in [Server -> BOOLEAN]
       /\ pendingApplication' \in [Server -> Seq(PendingEntry)]
  BY <1>1, <1>2, <1>11 DEF TypeOK
<1>13. TypeOK'
  BY <1>1, <1>2, <1>6, <1>9, <1>10, <1>12 DEF TypeOK
<1>14. PendingInLogAt(s)'
  <2>1. pendingApplication'[s] = Append(old, waiting)
    BY <1>1, <1>2 DEF TypeOK
  <2>2. ASSUME NEW i \in DOMAIN Append(old, waiting)
        PROVE  Append(old, waiting)[i].index \in 1 .. LastIndex(log'[s])
    <3>1. Len(old) \in Nat /\ i \in 1 .. Len(old) + 1 /\ LastIndex(log[s]) \in Nat
      BY <1>1, <1>11, ServerTypes
    <3>2. CASE i = Len(old) + 1
      BY <1>7, <1>8, <1>11, <3>1, <3>2
    <3>3. CASE i # Len(old) + 1
      <4>1. i \in 1 .. Len(old) /\ i \in DOMAIN old
        BY <1>11, <3>1, <3>3
      <4>2. old[i].index \in 1 .. LastIndex(log[s])
        BY <1>1, <4>1 DEF PendingInLogAt
      <4> QED
        BY <1>7, <1>11, <3>1, <4>1, <4>2
    <3> QED
      BY <3>2, <3>3
  <2> QED
    BY <1>1, <1>2, <1>9, <2>1, <2>2 DEF PendingInLogAt
<1>15. \A p \in Server \ {s} :
         log'[p] = log[p] /\ pendingApplication'[p] = pendingApplication[p]
  BY <1>1, <1>2 DEF TypeOK
<1>16. PendingInLog'
  BY <1>1, <1>2, <1>9, <1>14, <1>15, PendingStep
<1>17. LogIsStoredAt(s)'
  <2>1. Len(log'[s]) <= Len(log'[s])
    BY <1>6, <1>7 DEF LastIndex
  <2> QED
    BY <1>10, <2>1 DEF LogIsStoredAt
<1> QED
  BY <1>10, <1>13, <1>15, <1>16, <1>17 DEF TypeInv

(* A crash and the restart after it.                                        *)
LEMMA TypeRestart ==
  ASSUME TypeInv, NEW s \in Server, LogIsStoredAt(s), Restart(s)
  PROVE  /\ TypeInv'
         /\ LogIsStoredAt(s)'
         /\ \A p \in Server \ {s} :
              log'[p] = log[p] /\ storedLog'[p] = storedLog[p]
<1>1. TypeOK /\ PendingInLog
  BY DEF TypeInv
<1>2. /\ stored' \in [Server -> State]
      /\ storedLog' \in [Server -> Seq(Entry)]
      /\ \A p \in Server \ {s} : storedLog'[p] = storedLog[p]
  <2>1. UNCHANGED stored \/ StoreState(s)
    BY DEF Restart
  <2>2. UNCHANGED storedLog \/ (WritesEntries(operation[s]) /\ StoreEntries(s))
    BY DEF Restart
  <2>3. stored' \in [Server -> State]
    BY <1>1, <2>1, StoreStateType DEF TypeOK
  <2>4. /\ storedLog' \in [Server -> Seq(Entry)]
        /\ \A p \in Server \ {s} : storedLog'[p] = storedLog[p]
    BY <1>1, <2>2, StoreEntriesEffect DEF TypeOK
  <2> QED
    BY <2>3, <2>4
<1>3. /\ restarts' = restarts + 1
      /\ currentTerm' = [currentTerm EXCEPT ![s] = stored'[s].currentTerm]
      /\ votedFor' = [votedFor EXCEPT ![s] = stored'[s].votedFor]
      /\ log' = [log EXCEPT ![s] = storedLog'[s]]
      /\ role' = [role EXCEPT ![s] = "Follower"]
      /\ operation' = [operation EXCEPT ![s] = Idle]
      /\ commitIndex' = [commitIndex EXCEPT ![s] = 0]
      /\ skipTick' = [skipTick EXCEPT ![s] = FALSE]
      /\ votesRequired' = [votesRequired EXCEPT ![s] = 0]
      /\ votesAlreadyReceived' = [votesAlreadyReceived EXCEPT ![s] = {}]
      /\ nextIndex' = [nextIndex EXCEPT ![s] = [p \in Server |-> 1]]
      /\ matchIndex' = [matchIndex EXCEPT ![s] = [p \in Server |-> 0]]
      /\ pendingApplication' = [pendingApplication EXCEPT ![s] = << >>]
      /\ UNCHANGED <<messages, elected, committed>>
  BY DEF Restart, SetOperation, FollowerKeeps
<1>4. stored'[s].currentTerm \in Nat /\ stored'[s].votedFor \in Server \union {NoServer}
  BY <1>2 DEF State
<1>5. /\ currentTerm' \in [Server -> Nat]
      /\ votedFor' \in [Server -> Server \union {NoServer}]
      /\ log' \in [Server -> Seq(Entry)]
  BY <1>1, <1>2, <1>3, <1>4 DEF TypeOK
<1>6. /\ role' \in [Server -> {"Follower", "Candidate", "Leader"}]
      /\ operation' \in [Server -> Operation]
      /\ commitIndex' \in [Server -> Nat]
      /\ skipTick' \in [Server -> BOOLEAN]
  BY <1>1, <1>3, OperationTypes DEF TypeOK
<1>7. /\ votesRequired' \in [Server -> Int]
      /\ votesAlreadyReceived' \in [Server -> SUBSET Server]
      /\ restarts' \in Nat
  BY <1>1, <1>3 DEF TypeOK
<1>8. /\ nextIndex' \in [Server -> [Server -> Nat \ {0}]]
      /\ matchIndex' \in [Server -> [Server -> Nat]]
  BY <1>1, <1>3 DEF TypeOK
<1>9. << >> \in Seq(PendingEntry)
  OBVIOUS
<1>10. pendingApplication' \in [Server -> Seq(PendingEntry)]
  BY <1>1, <1>3, <1>9 DEF TypeOK
<1>11. TypeOK'
  BY <1>1, <1>2, <1>3, <1>5, <1>6, <1>7, <1>8, <1>10 DEF TypeOK
<1>12. PendingInLogAt(s)'
  BY <1>1, <1>3, PendingOfNoLeader DEF TypeOK, Idle
<1>13. \A p \in Server \ {s} :
         /\ role'[p] = role[p] /\ log'[p] = log[p]
         /\ operation'[p] = operation[p]
         /\ pendingApplication'[p] = pendingApplication[p]
  BY <1>1, <1>3 DEF TypeOK
<1>14. PendingInLog'
  BY <1>1, <1>12, <1>13, PendingStep
<1>15. log'[s] = storedLog'[s] /\ Len(storedLog'[s]) \in Nat
  BY <1>1, <1>2, <1>3 DEF TypeOK
<1>16. LogIsStoredAt(s)'
  BY <1>15 DEF LogIsStoredAt
<1> QED
  BY <1>2, <1>11, <1>13, <1>14, <1>16 DEF TypeInv

-----------------------------------------------------------------------------
(* The steps that only shorten a log *)

(* A follower's handler drops entries from the end of its log, if any.      *)
LEMMA FollowerKeepsPrefix ==
  ASSUME TypeOK, NEW s \in Server, NEW m \in Message, NEW commit, NEW tick,
         FollowerHandleMessage(s, m, commit, tick)
  PROVE  /\ Len(log'[s]) <= Len(log[s])
         /\ \A i \in 1 .. Len(log'[s]) : log'[s][i] = log[s][i]
<1>1. log[s] \in Seq(Entry) /\ DOMAIN log = Server
  BY DEF TypeOK
<1>2. Len(log[s]) \in Nat
  BY <1>1
<1>3. ASSUME m.type = "AppendEntries",
             Follows(log[s], m.prevLogIndex, m.prevLogTerm),
             FollowerCommits(s, m, commit)
      PROVE  /\ Len(log'[s]) <= Len(log[s])
             /\ \A i \in 1 .. Len(log'[s]) : log'[s][i] = log[s][i]
  <2> DEFINE index == m.prevLogIndex
  <2>1. index \in Nat
    BY <1>3, MessageFields
  <2>2. index \in 0 .. Len(log[s])
    BY <1>2, <1>3, <2>1 DEF Follows, HasEntry, LastIndex
  <2>3. log'[s] = SubSeq(log[s], 1, index)
    BY <1>1, <1>3 DEF FollowerCommits, TruncatedTo
  <2> HIDE DEF index
  <2>4. \A i \in 1 .. index : log[s][i] \in Entry
    BY <1>1, <1>2, <2>1, <2>2, ElementOfSeq
  <2>5. /\ Len(log'[s]) = IF 1 <= index THEN index - 1 + 1 ELSE 0
        /\ \A i \in 1 .. index - 1 + 1 : log'[s][i] = log[s][1 + i - 1]
    BY <2>1, <2>3, <2>4, SubSeqProperties
  <2>6. Len(log'[s]) = index
    BY <2>1, <2>5
  <2>7. \A i \in 1 .. index : log'[s][i] = log[s][i]
    <3> TAKE i \in 1 .. index
    <3>1. i \in 1 .. index - 1 + 1 /\ 1 + i - 1 = i
      BY <2>1
    <3> QED
      BY <2>5, <3>1
  <2> QED
    BY <2>2, <2>6, <2>7
<1>4. CASE UNCHANGED log
  BY <1>2, <1>4
<1> QED
  BY <1>3, <1>4
  DEF FollowerHandleMessage, FollowerHandleRequestVote,
      FollowerHandleAppendEntries, FollowerDeniesOlderLeader,
      FollowerRejectsConflict, FollowerAcceptsHeartbeat,
      FollowerMergesEntries, FollowerIgnores

(* The steps that persist no entries.                                       *)
LEMMA LogOnlyShortened ==
  ASSUME TypeOK, NEW s \in Server,
         \/ FollowerTimesOut(s)
         \/ CandidateTimesOut(s)
         \/ LeaderSendsHeartbeat(s)
         \/ \E m \in messages : Receive(s, m)
         \/ \E value \in Value : LeaderAppends(s, value)
         \/ PersistedRequestVote(s)
         \/ PersistedGrantVote(s)
         \/ PersistedSetTerm(s)
         \/ PersistedConvert(s)
  PROVE  /\ UNCHANGED storedLog
         /\ Len(log'[s]) <= Len(log[s])
         /\ \A i \in 1 .. Len(log'[s]) : log'[s][i] = log[s][i]
         /\ \A p \in Server \ {s} : log'[p] = log[p]
<1>1. Len(log[s]) \in Nat
  BY DEF TypeOK
<1>2. ASSUME UNCHANGED <<log, storedLog>>
      PROVE  /\ UNCHANGED storedLog
             /\ Len(log'[s]) <= Len(log[s])
             /\ \A i \in 1 .. Len(log'[s]) : log'[s][i] = log[s][i]
             /\ \A p \in Server \ {s} : log'[p] = log[p]
  BY <1>1, <1>2
<1>3. ASSUME NEW m \in Message, NEW commit, NEW tick, UNCHANGED storedLog,
             FollowerHandleMessage(s, m, commit, tick)
      PROVE  /\ UNCHANGED storedLog
             /\ Len(log'[s]) <= Len(log[s])
             /\ \A i \in 1 .. Len(log'[s]) : log'[s][i] = log[s][i]
             /\ \A p \in Server \ {s} : log'[p] = log[p]
  BY <1>3, FollowerKeepsPrefix, FollowerChanges
<1>4. CASE FollowerTimesOut(s) \/ CandidateTimesOut(s)
  BY <1>2, <1>4
  DEF FollowerTimesOut, CandidateTimesOut, StartElection, persistentVars
<1>5. CASE LeaderSendsHeartbeat(s)
  BY <1>2, <1>5 DEF LeaderSendsHeartbeat, persistentVars
<1>6. CASE \E m \in messages : Receive(s, m)
  <2>1. PICK m \in messages : Receive(s, m)
    BY <1>6
  <2>2. m \in Message
    BY DEF TypeOK
  <2>3. CASE FollowerReceives(s, m)
    BY <1>3, <2>2, <2>3 DEF FollowerReceives, persistentVars
  <2>4. CASE DeferToNewerTerm(s, m)
    BY <1>2, <2>4 DEF DeferToNewerTerm, persistentVars
  <2>5. CASE CandidateHandleGrantVote(s, m)
    BY <1>2, <2>5 DEF CandidateHandleGrantVote, persistentVars
  <2>6. CASE CandidateHandleRequestVote(s, m)
    BY <1>2, <2>6 DEF CandidateHandleRequestVote, persistentVars
  <2>7. CASE CandidateHandleAppendEntries(s, m)
    <3>1. CASE ConvertToFollower(s, m) /\ UNCHANGED persistentVars
      BY <1>3, <2>2, <3>1 DEF ConvertToFollower, persistentVars
    <3>2. CASE ~(ConvertToFollower(s, m) /\ UNCHANGED persistentVars)
      BY <1>2, <2>7, <3>2 DEF CandidateHandleAppendEntries, persistentVars
    <3> QED
      BY <3>1, <3>2
  <2>8. CASE LeaderHandleRequestVote(s, m)
    BY <1>2, <2>8 DEF LeaderHandleRequestVote, persistentVars
  <2>9. CASE LeaderHandleRejectEntries(s, m)
    BY <1>2, <2>9 DEF LeaderHandleRejectEntries, persistentVars
  <2>10. CASE LeaderHandleAcceptEntries(s, m)
    BY <1>2, <2>10 DEF LeaderHandleAcceptEntries, persistentVars
  <2> QED
    BY <2>1, <2>3, <2>4, <2>5, <2>6, <2>7, <2>8, <2>9, <2>10
    DEF Receive, CandidateReceives, LeaderReceives
<1>7. CASE \E value \in Value : LeaderAppends(s, value)
  BY <1>2, <1>7 DEF LeaderAppends, persistentVars
<1>8. CASE PersistedRequestVote(s) \/ PersistedGrantVote(s) \/ PersistedSetTerm(s)
  BY <1>2, <1>8
  DEF PersistedRequestVote, PersistedGrantVote, PersistedSetTerm
<1>9. CASE PersistedConvert(s)
  <2>1. operation[s].kind = "convert" /\ operation[s] \in Operation
    BY <1>9, ServerTypes DEF PersistedConvert
  <2>2. operation[s].message \in Message
    BY <2>1, OperationFields
  <2> QED
    BY <1>3, <1>9, <2>2 DEF PersistedConvert, ConvertToFollower
<1> QED
  BY <1>4, <1>5, <1>6, <1>7, <1>8, <1>9

-----------------------------------------------------------------------------
(* The inductive invariant and what follows from it *)

(* The inductive invariant: types alone do not say that the writes in flight*)
(* extend what was persisted, and what was persisted alone does not say that*)
(* the operators on logs are defined.                                       *)
Inv == TypeInv /\ LogIsStored

(* The inductive invariant holds initially.                                 *)
LEMMA InvInit == Init => Inv
<1> SUFFICES ASSUME Init PROVE Inv
  OBVIOUS
<1>1. TypeInv
  BY TypeInit
<1>2. LogIsStored
  BY DEF Init, LogIsStored, LogIsStoredAt
<1> QED
  BY <1>1, <1>2 DEF Inv

(* Only the server that steps can break LogIsStored.                        *)
LEMMA LogIsStoredStep ==
  ASSUME LogIsStored, NEW s \in Server, LogIsStoredAt(s)',
         \A p \in Server \ {s} : log'[p] = log[p] /\ storedLog'[p] = storedLog[p]
  PROVE  LogIsStored'
<1>1. ASSUME NEW p \in Server PROVE LogIsStoredAt(p)'
  BY DEF LogIsStored, LogIsStoredAt
<1> QED
  BY <1>1 DEF LogIsStored

(* Every step preserves the inductive invariant: one step of the proof for  *)
(* each action, and in it one for each conjunct the action can disturb.     *)
LEMMA InvNext == Inv /\ [Next]_vars => Inv'
<1> SUFFICES ASSUME Inv, [Next]_vars PROVE Inv'
  OBVIOUS
<1>1. TypeInv /\ TypeOK /\ LogIsStored
  BY DEF Inv, TypeInv
<1>2. CASE UNCHANGED vars
  <2>1. UNCHANGED <<role, currentTerm, votedFor, stored, log, storedLog,
                    operation, skipTick, commitIndex, votesRequired,
                    votesAlreadyReceived, nextIndex, matchIndex,
                    pendingApplication, messages, elected, committed, restarts>>
    BY <1>2 DEF vars, persistentVars, candidateVars, leaderVars, historyVars
  <2>2. TypeInv'
    BY <1>1, <2>1, TypeReply DEF TypeOK
  <2>3. LogIsStored'
    BY <1>1, <2>1 DEF LogIsStored, LogIsStoredAt
  <2> QED
    BY <2>2, <2>3 DEF Inv
<1>3. CASE Next
  <2>1. PICK s \in Server : Step(s)
    BY <1>3 DEF Next
  <2>2. LogIsStoredAt(s)
    BY <1>1 DEF LogIsStored
  <2>3. CASE PersistedMergeEntries(s) \/ PersistedAppend(s) \/ Restart(s)
    <3>1. /\ TypeInv'
          /\ LogIsStoredAt(s)'
          /\ \A p \in Server \ {s} :
               log'[p] = log[p] /\ storedLog'[p] = storedLog[p]
      BY <1>1, <2>2, <2>3, TypePersistedMergeEntries, TypePersistedAppend,
         TypeRestart
    <3> QED
      BY <1>1, <3>1, LogIsStoredStep DEF Inv
  <2>4. CASE ~(PersistedMergeEntries(s) \/ PersistedAppend(s) \/ Restart(s))
    <3>1. /\ UNCHANGED storedLog
          /\ Len(log'[s]) <= Len(log[s])
          /\ \A i \in 1 .. Len(log'[s]) : log'[s][i] = log[s][i]
          /\ \A p \in Server \ {s} : log'[p] = log[p]
      BY <1>1, <2>1, <2>4, LogOnlyShortened DEF Step, Persisted
    <3>2. TypeInv'
      BY <1>1, <2>1, <2>4, TypeTimesOut, TypeLeaderSendsHeartbeat,
         TypeFollowerReceives, TypeCandidateReceives, TypeLeaderReceives,
         TypeLeaderAppends, TypePersistedState, TypePersistedConvert
      DEF Receive, Step, Persisted
    <3>3. LogIsStoredAt(s)'
      <4>1. /\ Len(log[s]) \in Nat /\ Len(log'[s]) \in Nat
            /\ Len(storedLog[s]) \in Nat
        BY <1>1, <3>2, SMTT(40) DEF TypeInv, TypeOK
      <4> QED
        BY <2>2, <3>1, <4>1 DEF LogIsStoredAt
    <3> QED
      BY <1>1, <3>1, <3>2, <3>3, LogIsStoredStep DEF Inv
  <2> QED
    BY <2>3, <2>4
<1> QED
  BY <1>2, <1>3

(* The inductive invariant holds in every reachable state.                  *)
LEMMA Invariance == Spec => []Inv
BY InvInit, InvNext, PTL DEF Spec

(* The types of RaftProperties, for every cluster and every bound.          *)
THEOREM TypeCorrect == Spec => []TypeOK
<1>1. Inv => TypeOK
  BY DEF Inv, TypeInv
<1> QED
  BY <1>1, Invariance, PTL

(* Agreement at every index of the shorter log makes it a prefix.           *)
LEMMA AgreementIsPrefix ==
  ASSUME NEW l1 \in Seq(Entry), NEW l2 \in Seq(Entry), Len(l1) <= Len(l2),
         \A i \in 1 .. Len(l1) : l2[i] = l1[i]
  PROVE  IsPrefix(l1, l2)
<1> DEFINE n == Len(l1)
           a == SubSeq(l1, 1, n)
           b == SubSeq(l2, 1, n)
<1>1. n \in Nat /\ n <= Len(l2) /\ Len(l2) \in Nat
  OBVIOUS
<1>2. \A i \in 1 .. n : /\ l1[i] \in Entry
                        /\ l2[i] \in Entry
                        /\ l2[i] = l1[i]
  BY <1>1, ElementOfSeq
<1> HIDE DEF n
<1>3. /\ a \in Seq(Entry) /\ Len(a) = IF 1 <= n THEN n - 1 + 1 ELSE 0
      /\ \A i \in 1 .. n - 1 + 1 : a[i] = l1[1 + i - 1]
  BY <1>1, <1>2, SubSeqProperties
<1>4. /\ b \in Seq(Entry) /\ Len(b) = IF 1 <= n THEN n - 1 + 1 ELSE 0
      /\ \A i \in 1 .. n - 1 + 1 : b[i] = l2[1 + i - 1]
  BY <1>1, <1>2, SubSeqProperties
<1> HIDE DEF a, b
<1>5. Len(a) = n /\ Len(b) = n
  BY <1>1, <1>3, <1>4
<1>6. ASSUME NEW i \in 1 .. n PROVE a[i] = b[i]
  <2>1. i \in 1 .. n - 1 + 1 /\ 1 + i - 1 = i
    BY <1>1
  <2> QED
    BY <1>2, <1>3, <1>4, <2>1
<1>7. a = b
  BY <1>3, <1>4, <1>5, <1>6, SeqEqual
<1> QED
  BY <1>1, <1>7 DEF IsPrefix, a, b, n

(* No crash makes a server forget an entry of its log.                      *)
THEOREM DurableLogHolds == Spec => []DurableLog
<1>1. ASSUME Inv PROVE DurableLog
  <2>1. ASSUME NEW s \in Server PROVE IsPrefix(log[s], storedLog[s])
    <3>1. /\ log[s] \in Seq(Entry) /\ storedLog[s] \in Seq(Entry)
          /\ LogIsStoredAt(s)
      BY <1>1, ServerTypes DEF Inv, TypeInv, LogIsStored
    <3> QED
      BY <3>1, AgreementIsPrefix DEF LogIsStoredAt
  <2> QED
    BY <2>1 DEF DurableLog
<1> QED
  BY <1>1, Invariance, PTL

(* The one message a follower acknowledges at once: a heartbeat.           *)
LEMMA FollowerAcks ==
  ASSUME NEW s, NEW m, NEW commit, NEW tick,
         FollowerHandleMessage(s, m, commit, tick),
         NEW ack \in messages' \ messages, ack.type = "AcceptEntries"
  PROVE  m.type = "AppendEntries" /\ FollowerAcceptsHeartbeat(s, m, commit)
<1>1. \A p, i : DenyVote(s, p).type # "AcceptEntries"
                /\ RejectEntries(s, p, i).type # "AcceptEntries"
  BY DEF DenyVote, RejectEntries
<1> QED
  BY <1>1
  DEF FollowerHandleMessage, FollowerHandleRequestVote,
      FollowerHandleAppendEntries, FollowerDeniesOlderLeader,
      FollowerRejectsConflict, FollowerMergesEntries, FollowerIgnores, Send

(* What a leader sends acknowledges nothing.                                *)
LEMMA UpdateIsNoAck ==
  ASSUME NEW s, NEW peers, NEW next, NEW match, NEW heartbeatOnly, NEW l,
         UpdateFollowers(s, peers, next, match, heartbeatOnly, l),
         NEW m \in messages' \ messages
  PROVE  m.type = "AppendEntries"
<1> DEFINE update(p) == AppendEntries(s, p, next[p], match[p], heartbeatOnly, l,
                                      commitIndex'[s])
<1>1. \A p : update(p).type = "AppendEntries"
  BY DEF AppendEntries
<1>2. \E ps : messages' = messages \union {update(p) : p \in ps}
  BY DEF UpdateFollowers, Send
<1> QED
  BY <1>1, <1>2

(* The two steps that acknowledge entries: the follower's answer to a      *)
(* heartbeat, received or replayed after a conversion, and the             *)
(* continuation of mergeEntries().                                         *)
LEMMA AckSources ==
  ASSUME TypeOK, NEW s \in Server, Step(s),
         NEW ack \in messages' \ messages, ack.type = "AcceptEntries"
  PROVE  \/ PersistedMergeEntries(s)
         \/ \E m \in Message, commit \in Nat :
              /\ \/ m \in messages
                 \/ operation[s].kind = "convert" /\ operation[s].message = m
              /\ m.type = "AppendEntries"
              /\ FollowerAcceptsHeartbeat(s, m, commit)
<1> DEFINE Heartbeat ==
      \E m \in Message, commit \in Nat :
        /\ \/ m \in messages
           \/ operation[s].kind = "convert" /\ operation[s].message = m
        /\ m.type = "AppendEntries"
        /\ FollowerAcceptsHeartbeat(s, m, commit)
<1> SUFFICES ASSUME ~PersistedMergeEntries(s) PROVE Heartbeat
  OBVIOUS
<1>1. ASSUME UNCHANGED messages PROVE FALSE
  BY <1>1
<1>2. ASSUME NEW m \in Message, NEW commit \in Nat, NEW tick,
             \/ m \in messages
             \/ operation[s].kind = "convert" /\ operation[s].message = m,
             FollowerHandleMessage(s, m, commit, tick)
      PROVE  Heartbeat
  BY <1>2, FollowerAcks
<1> HIDE DEF Heartbeat
<1>3. commitIndex[s] \in Nat
  BY ServerTypes
<1>4. ASSUME NEW m \in Message,
             \/ m \in messages
             \/ operation[s].kind = "convert" /\ operation[s].message = m,
             ConvertToFollower(s, m)
      PROVE  Heartbeat
  <2>1. FollowerHandleMessage(s, m, 0, FALSE)
    BY <1>4 DEF ConvertToFollower
  <2> QED
    BY <1>2, <1>4, <2>1
<1>5. \A p, i : /\ DenyVote(s, p).type # "AcceptEntries"
                /\ GrantVote(s, p).type # "AcceptEntries"
                /\ RejectEntries(s, p, i).type # "AcceptEntries"
                /\ RequestVote(s, p, i).type # "AcceptEntries"
  BY DEF DenyVote, GrantVote, RejectEntries, RequestVote
<1>6. CASE FollowerTimesOut(s) \/ CandidateTimesOut(s)
  BY <1>1, <1>6 DEF FollowerTimesOut, CandidateTimesOut, StartElection
<1>7. CASE LeaderSendsHeartbeat(s)
  BY <1>1, <1>7, UpdateIsNoAck DEF LeaderSendsHeartbeat
<1>8. CASE \E m \in messages : Receive(s, m)
  <2>1. PICK m \in messages : Receive(s, m)
    BY <1>8
  <2>2. m \in Message
    BY DEF TypeOK
  <2>3. CASE FollowerReceives(s, m)
    <3>1. FollowerHandleMessage(s, m, commitIndex[s], skipTick[s])
      BY <2>3 DEF FollowerReceives
    <3> QED
      BY <1>2, <1>3, <2>2, <3>1
  <2>4. CASE DeferToNewerTerm(s, m)
    BY <1>1, <2>4 DEF DeferToNewerTerm
  <2>5. CASE CandidateHandleGrantVote(s, m)
    <3>1. messages' = messages \/ BecomeLeader(s)
      BY <2>5 DEF CandidateHandleGrantVote
    <3>2. \A p, n : AppendEntries(s, p, n, 0, TRUE, log[s], 0).type
                      # "AcceptEntries"
      BY DEF AppendEntries
    <3>3. CASE BecomeLeader(s)
      <4> DEFINE next == LastIndex(log[s]) + 1
      <4>1. messages' = messages \union
              {AppendEntries(s, p, next, 0, TRUE, log[s], 0) : p \in Peers(s)}
        BY <3>3 DEF BecomeLeader, Send
      <4>2. PICK p \in Peers(s) :
              ack = AppendEntries(s, p, next, 0, TRUE, log[s], 0)
        BY <4>1
      <4> QED
        BY <3>2, <4>2
    <3> QED
      BY <1>1, <3>1, <3>3
  <2>6. CASE CandidateHandleRequestVote(s, m)
    BY <1>5, <2>6 DEF CandidateHandleRequestVote, Send
  <2>7. CASE CandidateHandleAppendEntries(s, m)
    <3>1. CASE ConvertToFollower(s, m)
      BY <1>4, <2>2, <3>1
    <3>2. CASE ~ConvertToFollower(s, m)
      BY <1>5, <2>7, <3>2 DEF CandidateHandleAppendEntries, Send
    <3> QED
      BY <3>1, <3>2
  <2>8. CASE LeaderHandleRequestVote(s, m)
    BY <1>5, <2>8, UpdateIsNoAck DEF LeaderHandleRequestVote, Send
  <2>9. CASE LeaderHandleRejectEntries(s, m)
    BY <2>9, UpdateIsNoAck DEF LeaderHandleRejectEntries
  <2>10. CASE LeaderHandleAcceptEntries(s, m)
    BY <1>1, <2>10, UpdateIsNoAck DEF LeaderHandleAcceptEntries
  <2> QED
    BY <2>1, <2>3, <2>4, <2>5, <2>6, <2>7, <2>8, <2>9, <2>10
    DEF Receive, CandidateReceives, LeaderReceives
<1>9. CASE \E value \in Value : LeaderAppends(s, value)
  BY <1>1, <1>9 DEF LeaderAppends
<1>10. CASE PersistedRequestVote(s) \/ PersistedGrantVote(s) \/ PersistedSetTerm(s)
  BY <1>1, <1>5, <1>10
  DEF PersistedRequestVote, PersistedGrantVote, PersistedSetTerm, Send
<1>11. CASE PersistedConvert(s)
  <2>1. operation[s].kind = "convert" /\ operation[s] \in Operation
    BY <1>11, ServerTypes DEF PersistedConvert
  <2>2. operation[s].message \in Message
    BY <2>1, OperationFields
  <2> QED
    BY <1>11, <1>4, <2>1, <2>2 DEF PersistedConvert
<1>12. CASE PersistedAppend(s)
  BY <1>12, UpdateIsNoAck DEF PersistedAppend
<1>13. CASE Restart(s)
  BY <1>1, <1>13 DEF Restart
<1> QED
  BY <1>6, <1>7, <1>8, <1>9, <1>10, <1>11, <1>12, <1>13
  DEF Step, Persisted

(* So every acknowledgement is of the whole log of its sender.             *)
LEMMA AcksAreOfTheLog ==
  ASSUME TypeOK, Next, NEW ack \in messages' \ messages,
         ack.type = "AcceptEntries"
  PROVE  ack.from \in Server /\ Len(log'[ack.from]) = ack.lastLogIndex
<1>1. PICK s \in Server : Step(s)
  BY DEF Next
<1>2. CASE PersistedMergeEntries(s)
  <2>1. ack = AcceptEntries(s, operation[s].peer, LastIndex(log'[s]))
    BY <1>2 DEF PersistedMergeEntries, Send
  <2> QED
    BY <2>1 DEF AcceptEntries, LastIndex
<1>3. ASSUME NEW m \in Message, NEW commit, m.type = "AppendEntries",
             FollowerAcceptsHeartbeat(s, m, commit)
      PROVE  ack.from = s /\ Len(log'[s]) = ack.lastLogIndex
  <2>1. /\ ack = AcceptEntries(s, m.from, m.prevLogIndex)
        /\ Follows(log[s], m.prevLogIndex, m.prevLogTerm)
        /\ log' = [log EXCEPT ![s] = TruncatedTo(log[s], m.prevLogIndex)]
    BY <1>3 DEF FollowerAcceptsHeartbeat, FollowerCommits, Send
  <2>2. ack.from = s /\ ack.lastLogIndex = m.prevLogIndex
    BY <2>1 DEF AcceptEntries
  <2>3. log[s] \in Seq(Entry) /\ LastIndex(log[s]) \in Nat /\ m.prevLogIndex \in Nat
    BY <1>3, ServerTypes, MessageFields
  <2>4. m.prevLogIndex \in 0 .. LastIndex(log[s])
    BY <2>1, <2>3 DEF Follows, HasEntry
  <2>5. LastIndex(TruncatedTo(log[s], m.prevLogIndex)) = m.prevLogIndex
    BY <2>3, <2>4, LogTypes
  <2>6. log'[s] = TruncatedTo(log[s], m.prevLogIndex)
    BY <2>1 DEF TypeOK
  <2> QED
    BY <2>2, <2>5, <2>6 DEF LastIndex
<1> QED
  BY <1>1, <1>2, <1>3, AckSources

(* A follower acknowledges only what a crash cannot take back.              *)
THEOREM AckedIsStoredHolds == Spec => AckedIsStored
<1> DEFINE Acks == \A m \in messages' \ messages :
                     m.type = "AcceptEntries" =>
                       /\ Len(log'[m.from]) = m.lastLogIndex
                       /\ IsPrefix(log'[m.from], storedLog'[m.from])
<1>1. ASSUME Inv, Inv', [Next]_vars PROVE [Acks]_vars
  <2>1. SUFFICES ASSUME Next, NEW m \in messages' \ messages,
                        m.type = "AcceptEntries"
                 PROVE  /\ Len(log'[m.from]) = m.lastLogIndex
                        /\ IsPrefix(log'[m.from], storedLog'[m.from])
    BY <1>1
  <2>2. TypeOK /\ TypeOK' /\ LogIsStored'
    BY <1>1 DEF Inv, TypeInv
  <2>3. m.from \in Server /\ Len(log'[m.from]) = m.lastLogIndex
    BY <2>1, <2>2, AcksAreOfTheLog
  <2>4. /\ log'[m.from] \in Seq(Entry) /\ storedLog'[m.from] \in Seq(Entry)
        /\ LogIsStoredAt(m.from)'
    BY <2>2, <2>3 DEF TypeOK, LogIsStored
  <2>5. IsPrefix(log'[m.from], storedLog'[m.from])
    BY <2>4, AgreementIsPrefix DEF LogIsStoredAt
  <2> QED
    BY <2>3, <2>5
<1>2. Spec => [][Acks]_vars
  BY <1>1, Invariance, PTL DEF Spec
<1> QED
  BY <1>2 DEF AckedIsStored

=============================================================================
