------------------------- MODULE RaftElectionProofs -------------------------
(***************************************************************************)
(* Theorems about the elections of module Raft: no two leaders in a term,  *)
(* for every cluster, every number of elections and every number of        *)
(* crashes.                                                                *)
(*                                                                         *)
(* A vote is a message: the RequestVote a candidate sends to its peers     *)
(* says that it voted for itself, a GrantVote that its sender voted for    *)
(* its addressee.  Both are sent only after the vote was persisted.        *)
(***************************************************************************)
EXTENDS RaftProofs

-----------------------------------------------------------------------------
(* The inductive invariant *)

(* The messages that tell of a vote.                                       *)
IsBallot(m) == m.type \in {"RequestVote", "GrantVote"}

(* The server a ballot is for.                                             *)
Favours(m) == IF m.type = "RequestVote" THEN m.from ELSE m.to

(* A ballot was cast, and may still be delivered.                          *)
Ballot(voter, candidate, term) ==
  \E m \in messages :
    /\ IsBallot(m)
    /\ m.from = voter
    /\ Favours(m) = candidate
    /\ m.term = term

(* What is in memory and what is persisted differ only while the           *)
(* difference is being written, and then the write replaces no vote by     *)
(* another of the same term.                                               *)
RemembersAt(s) ==
  /\ stored[s].currentTerm <= currentTerm[s]
  /\ stored[s].currentTerm = currentTerm[s] =>
       stored[s].votedFor \in {NoServer, votedFor[s]}
  /\ WritesState(operation[s]) \/ stored[s] = StateOf(s)
  /\ operation[s].kind = "requestVote" => votedFor[s] = s
  /\ operation[s].kind = "grantVote" =>
       votedFor[s] = operation[s].peer /\ operation[s].peer # s
  /\ operation[s].kind = "mergeEntries" => operation[s].peer # s
  /\ operation[s].kind = "convert" => operation[s].message.from # s

Remembers == \A s \in Server : RemembersAt(s)

(* What was sent is remembered by what is persisted, and no server sends   *)
(* to itself.                                                              *)
RememberedAt(m) ==
  /\ m.from # m.to
  /\ m.term <= stored[m.from].currentTerm
  /\ IsBallot(m) /\ m.term = stored[m.from].currentTerm =>
       stored[m.from].votedFor = Favours(m)

Remembered == \A m \in messages : RememberedAt(m)

(* No server votes for two candidates in a term.                            *)
VotesOnce ==
  \A m1, m2 \in messages :
    IsBallot(m1) /\ IsBallot(m2) /\ m1.from = m2.from /\ m1.term = m2.term =>
      Favours(m1) = Favours(m2)

(* The inductive invariant about terms and votes.                           *)
VoteInv == Remembers /\ Remembered /\ VotesOnce

(* What a candidate believes of its votes is so.                           *)
CandidateAt(s) ==
  role[s] = "Candidate" /\ operation[s].kind # "convert" =>
    /\ votesAlreadyReceived[s] \subseteq Peers(s)
    /\ votesRequired[s] + Cardinality(votesAlreadyReceived[s]) = HalfOfPeers
    /\ \A p \in votesAlreadyReceived[s] : Ballot(p, s, currentTerm[s])
    /\ operation[s].kind # "requestVote" /\ Peers(s) # {} =>
         Ballot(s, s, currentTerm[s])

Candidates == \A s \in Server : CandidateAt(s)

(* Every leader was elected by a majority.                                 *)
Majority == {Q \in SUBSET Server : 2 * Cardinality(Q) > Cardinality(Server)}

ElectedByMajority ==
  \A e \in elected :
    \E Q \in Majority : \A v \in Q : Ballot(v, e.server, e.term)

-----------------------------------------------------------------------------
(* What every step does to terms and votes *)

(* What a step of server s sends tells only of what is persisted after it.  *)
SentNow(s) ==
  \A m \in messages' \ messages :
    /\ m.from = s /\ m.to # s
    /\ m.term = stored'[s].currentTerm
    /\ IsBallot(m) => Favours(m) = stored'[s].votedFor

(* No step of one server touches the terms and votes of another.           *)
OthersKeepVotes(s) ==
  \A p \in Server \ {s} :
    /\ currentTerm'[p] = currentTerm[p] /\ votedFor'[p] = votedFor[p]
    /\ stored'[p] = stored[p] /\ operation'[p] = operation[p]

(* What every step of server s does to terms, votes and ballots.            *)
VoteStep(s) ==
  /\ messages \subseteq messages'
  /\ OthersKeepVotes(s)
  /\ RemembersAt(s)'
  /\ stored'[s] \in {stored[s], StateOf(s)}
  /\ SentNow(s)

(* What is persisted only ever moves on to the term and vote in memory.     *)
LEMMA StoredMovesOn ==
  ASSUME TypeOK, VoteInv, NEW s \in Server, VoteStep(s)
  PROVE  \/ stored'[s].currentTerm > stored[s].currentTerm
         \/ /\ stored'[s].currentTerm = stored[s].currentTerm
            /\ stored[s].votedFor \in {NoServer, stored'[s].votedFor}
<1>1. RemembersAt(s) /\ stored'[s] \in {stored[s], StateOf(s)}
  BY DEF VoteInv, Remembers, VoteStep
<1>2. stored[s] \in State /\ currentTerm[s] \in Nat
  BY ServerTypes
<1>3. CASE stored'[s] = stored[s]
  BY <1>3
<1>4. CASE stored'[s] = StateOf(s)
  <2>1. /\ stored'[s].currentTerm = currentTerm[s]
        /\ stored'[s].votedFor = votedFor[s]
    BY <1>4 DEF StateOf
  <2>2. stored[s].currentTerm \in Nat
    BY <1>2 DEF State
  <2>3. stored[s].currentTerm <= currentTerm[s]
    BY <1>1 DEF RemembersAt
  <2>4. CASE stored[s].currentTerm = currentTerm[s]
    BY <1>1, <2>1, <2>4 DEF RemembersAt
  <2>5. CASE stored[s].currentTerm # currentTerm[s]
    BY <1>2, <2>1, <2>2, <2>3, <2>5
  <2> QED
    BY <2>4, <2>5
<1> QED
  BY <1>1, <1>3, <1>4

(* A step of that shape preserves the invariant about votes.                *)
LEMMA VoteStepInv ==
  ASSUME TypeOK, TypeOK', VoteInv, NEW s \in Server, VoteStep(s)
  PROVE  VoteInv'
<1>1. ASSUME NEW p \in Server PROVE RemembersAt(p)'
  <2>1. CASE p = s
    BY <2>1 DEF VoteStep
  <2>2. CASE p # s
    <3>1. RemembersAt(p)
      BY DEF VoteInv, Remembers
    <3>2. /\ currentTerm'[p] = currentTerm[p] /\ votedFor'[p] = votedFor[p]
          /\ stored'[p] = stored[p] /\ operation'[p] = operation[p]
      BY <2>2 DEF VoteStep, OthersKeepVotes
    <3> QED
      BY <3>1, <3>2 DEF RemembersAt, StateOf
  <2> QED
    BY <2>1, <2>2
<1>2. ASSUME NEW m \in messages' PROVE RememberedAt(m)'
  <2>1. m \in Message /\ m.from \in Server /\ m.to \in Server /\ m.term \in Nat
    BY MessageFields DEF TypeOK
  <2>2. CASE m \in messages /\ m.from # s
    <3>1. RememberedAt(m)
      BY <2>2 DEF VoteInv, Remembered
    <3>2. stored'[m.from] = stored[m.from]
      BY <2>1, <2>2 DEF VoteStep, OthersKeepVotes
    <3> QED
      BY <3>1, <3>2 DEF RememberedAt
  <2>3. CASE m \in messages /\ m.from = s
    <3>1. RememberedAt(m)
      BY <2>3 DEF VoteInv, Remembered
    <3>2. /\ stored[s].currentTerm \in Nat
          /\ stored'[s].currentTerm \in Nat
      BY DEF TypeOK, State
    <3>3. IsBallot(m) => Favours(m) \in Server
      BY <2>1 DEF Favours
    <3>4. Favours(m) # NoServer \/ ~IsBallot(m)
      BY <3>3, ServerAssumption
    <3>5. CASE stored'[s].currentTerm > stored[s].currentTerm
      <4>1. m.term <= stored'[s].currentTerm /\ m.term # stored'[s].currentTerm
        BY <2>1, <2>3, <3>1, <3>2, <3>5 DEF RememberedAt
      <4> QED
        BY <2>3, <3>1, <4>1 DEF RememberedAt
    <3>6. CASE /\ stored'[s].currentTerm = stored[s].currentTerm
               /\ stored[s].votedFor \in {NoServer, stored'[s].votedFor}
      BY <2>3, <3>1, <3>4, <3>6 DEF RememberedAt
    <3> QED
      BY <3>5, <3>6, StoredMovesOn
  <2>4. CASE m \notin messages
    <3>1. /\ m.from = s /\ m.to # s
          /\ m.term = stored'[s].currentTerm
          /\ IsBallot(m) => Favours(m) = stored'[s].votedFor
      BY <2>4 DEF VoteStep, SentNow
    <3> QED
      BY <2>1, <3>1 DEF RememberedAt
  <2> QED
    BY <2>2, <2>3, <2>4
<1>3. ASSUME NEW m1 \in messages', NEW m2 \in messages',
             IsBallot(m1), IsBallot(m2), m1.from = m2.from, m1.term = m2.term
      PROVE  Favours(m1) = Favours(m2)
  <2>1. CASE m1 \in messages /\ m2 \in messages
    BY <1>3, <2>1 DEF VoteInv, VotesOnce
  <2>2. CASE m1 \notin messages \/ m2 \notin messages
    <3>1. m1.from = s /\ m1.term = stored'[s].currentTerm
      BY <1>3, <2>2 DEF VoteStep, SentNow
    <3>2. RememberedAt(m1)' /\ RememberedAt(m2)'
      BY <1>2
    <3> QED
      BY <1>3, <3>1, <3>2 DEF RememberedAt
  <2> QED
    BY <2>1, <2>2
<1> QED
  BY <1>1, <1>2, <1>3 DEF VoteInv, Remembers, Remembered, VotesOnce

(* A step that leaves terms and votes alone, while nothing is being written *)
(* of them, and sends no ballot.                                            *)
LEMMA QuietStep ==
  ASSUME TypeOK, NEW s \in Server, RemembersAt(s), ~WritesState(operation[s]),
         UNCHANGED <<stored, currentTerm, votedFor>>,
         messages \subseteq messages',
         \A p \in Server \ {s} : operation'[p] = operation[p],
         operation'[s].kind \in {"none", "crashed", "append"},
         \A m \in messages' \ messages :
           /\ m.from = s /\ m.to # s
           /\ m.term = currentTerm[s] /\ ~IsBallot(m)
  PROVE  VoteStep(s)
<1>1. stored[s] = StateOf(s)
  BY DEF RemembersAt
<1>2. stored[s].currentTerm = currentTerm[s] /\ stored[s].votedFor = votedFor[s]
  BY <1>1 DEF StateOf
<1>3. SentNow(s)
  BY <1>2 DEF SentNow
<1>4. RemembersAt(s)'
  <2>1. currentTerm[s] \in Nat
    BY ServerTypes
  <2> QED
    BY <1>1, <1>2, <2>1 DEF RemembersAt, StateOf
<1> QED
  BY <1>3, <1>4 DEF VoteStep, OthersKeepVotes

(* A follower's handler, run when what is in memory is persisted, or has    *)
(* just been.                                                               *)
LEMMA FollowerVotes ==
  ASSUME TypeOK, NEW s \in Server, NEW m \in Message, NEW commit, NEW tick,
         m.from # s,
         FollowerHandleMessage(s, m, commit, tick),
         stored'[s] = StateOf(s),
         \A p \in Server \ {s} : stored'[p] = stored[p]
  PROVE  VoteStep(s)
<1> USE DEF SetOperation, SetTermAndVote, Idle
<1>1. /\ DOMAIN currentTerm = Server /\ DOMAIN votedFor = Server
      /\ DOMAIN operation = Server
      /\ currentTerm[s] \in Nat /\ m.term \in Nat
  BY MessageFields DEF TypeOK
<1>2. /\ stored'[s].currentTerm = currentTerm[s]
      /\ stored'[s].votedFor = votedFor[s]
  BY DEF StateOf
<1>3. ASSUME UNCHANGED <<currentTerm, votedFor>>,
             operation' = [operation EXCEPT ![s] = Idle],
             NEW reply, messages' = messages \union {reply},
             reply.from = s, reply.to # s, reply.term = currentTerm[s],
             ~IsBallot(reply)
      PROVE  VoteStep(s)
  <2>1. RemembersAt(s)'
    BY <1>1, <1>2, <1>3 DEF RemembersAt, StateOf
  <2>2. SentNow(s)
    BY <1>2, <1>3 DEF SentNow
  <2> QED
    BY <1>1, <1>3, <2>1, <2>2 DEF VoteStep, OthersKeepVotes
<1>4. ASSUME UNCHANGED <<currentTerm, votedFor, messages>>,
             operation' = [operation EXCEPT ![s] = Idle]
      PROVE  VoteStep(s)
  <2>1. RemembersAt(s)'
    BY <1>1, <1>2, <1>4 DEF RemembersAt, StateOf
  <2>2. SentNow(s)
    BY <1>4 DEF SentNow
  <2> QED
    BY <1>1, <1>4, <2>1, <2>2 DEF VoteStep, OthersKeepVotes
<1>5. ASSUME UNCHANGED messages, NEW vote, NEW op,
             currentTerm' = [currentTerm EXCEPT ![s] = m.term],
             votedFor' = [votedFor EXCEPT ![s] = vote],
             operation' = [operation EXCEPT ![s] = op],
             m.term >= currentTerm[s],
             m.term = currentTerm[s] => votedFor[s] \in {NoServer, vote},
             \/ WritesState(op)
             \/ m.term = currentTerm[s] /\ vote = votedFor[s],
             op.kind \in {"grantVote", "setTerm", "mergeEntries"},
             op.kind \in {"grantVote", "mergeEntries"} => op.peer # s,
             op.kind = "grantVote" => vote = op.peer
      PROVE  VoteStep(s)
  <2>1. /\ currentTerm'[s] = m.term /\ votedFor'[s] = vote
        /\ operation'[s] = op
    BY <1>1, <1>5
  <2>2. RemembersAt(s)'
    <3>1. stored'[s].currentTerm <= currentTerm'[s]
      BY <1>1, <1>2, <1>5, <2>1
    <3>2. stored'[s].currentTerm = currentTerm'[s] =>
            stored'[s].votedFor \in {NoServer, votedFor'[s]}
      BY <1>2, <1>5, <2>1
    <3>3. WritesState(operation'[s]) \/ stored'[s] = StateOf(s)'
      <4>1. CASE WritesState(op)
        BY <2>1, <4>1
      <4>2. CASE m.term = currentTerm[s] /\ vote = votedFor[s]
        BY <2>1, <4>2 DEF StateOf
      <4> QED
        BY <1>5, <4>1, <4>2
    <3> QED
      BY <1>5, <2>1, <3>1, <3>2, <3>3 DEF RemembersAt, WritesState
  <2>3. SentNow(s)
    BY <1>5 DEF SentNow
  <2> QED
    BY <1>1, <1>5, <2>2, <2>3 DEF VoteStep, OthersKeepVotes
<1>6. ASSUME NEW reply,
             \/ reply = DenyVote(s, m.from)
             \/ \E i : reply = RejectEntries(s, m.from, i)
             \/ \E i : reply = AcceptEntries(s, m.from, i)
      PROVE  /\ reply.from = s /\ reply.to # s
             /\ reply.term = currentTerm[s] /\ ~IsBallot(reply)
  BY <1>6 DEF DenyVote, RejectEntries, AcceptEntries, IsBallot
<1>7. CASE FollowerHandleRequestVote(s, m, commit, tick)
  <2>1. CASE /\ Send({DenyVote(s, m.from)})
             /\ SetOperation(s, Idle)
             /\ UNCHANGED <<currentTerm, votedFor>>
    BY <1>3, <1>6, <2>1 DEF Send
  <2>2. CASE /\ m.term >= currentTerm[s]
             /\ MayVoteFor(s, m)
             /\ SetTermAndVote(s, m.term, m.from)
             /\ SetOperation(s, [kind |-> "grantVote", peer |-> m.from])
             /\ UNCHANGED messages
    <3> DEFINE op == [kind |-> "grantVote", peer |-> m.from]
    <3>1. op.kind = "grantVote" /\ op.peer = m.from /\ WritesState(op)
      BY DEF WritesState
    <3>2. /\ currentTerm' = [currentTerm EXCEPT ![s] = m.term]
          /\ votedFor' = [votedFor EXCEPT ![s] = m.from]
          /\ operation' = [operation EXCEPT ![s] = op]
          /\ votedFor[s] \in {NoServer, m.from}
      BY <2>2 DEF MayVoteFor
    <3> HIDE DEF op
    <3> QED
      BY <1>5, <2>2, <3>1, <3>2
  <2>3. CASE /\ m.term > currentTerm[s]
             /\ SetTermAndVote(s, m.term, NoServer)
             /\ SetOperation(s, [kind |-> "setTerm"])
             /\ UNCHANGED messages
    <3> DEFINE op == [kind |-> "setTerm"]
    <3>1. op.kind = "setTerm" /\ WritesState(op)
      BY DEF WritesState
    <3>2. /\ currentTerm' = [currentTerm EXCEPT ![s] = m.term]
          /\ votedFor' = [votedFor EXCEPT ![s] = NoServer]
          /\ operation' = [operation EXCEPT ![s] = op]
          /\ m.term >= currentTerm[s] /\ m.term # currentTerm[s]
      BY <1>1, <2>3
    <3> HIDE DEF op
    <3> QED
      BY <1>5, <2>3, <3>1, <3>2
  <2>4. CASE SetOperation(s, Idle) /\ UNCHANGED <<currentTerm, votedFor, messages>>
    BY <1>4, <2>4
  <2> QED
    BY <1>7, <2>1, <2>2, <2>3, <2>4 DEF FollowerHandleRequestVote
<1>8. CASE FollowerDeniesOlderLeader(s, m, commit, tick)
  BY <1>3, <1>6, <1>8 DEF FollowerDeniesOlderLeader, Send
<1>9. CASE FollowerRejectsConflict(s, m, commit)
  BY <1>3, <1>6, <1>9 DEF FollowerRejectsConflict, Send
<1>10. CASE FollowerAcceptsHeartbeat(s, m, commit)
  BY <1>3, <1>6, <1>10 DEF FollowerAcceptsHeartbeat, Send
<1>11. CASE FollowerMergesEntries(s, m, commit)
  <2> DEFINE newer == m.term > currentTerm[s]
             vote  == IF newer THEN NoServer ELSE votedFor[s]
             op    == [kind |-> "mergeEntries", peer |-> m.from,
                       entries |-> m.entries, newerTerm |-> newer]
  <2>1. /\ currentTerm' = [currentTerm EXCEPT ![s] = m.term]
        /\ votedFor' = [votedFor EXCEPT ![s] = vote]
        /\ operation' = [operation EXCEPT ![s] = op]
        /\ UNCHANGED messages
        /\ m.term >= currentTerm[s]
    BY <1>11 DEF FollowerMergesEntries
  <2>2. op.kind = "mergeEntries" /\ op.peer # s
    OBVIOUS
  <2>3. CASE newer
    <3>1. WritesState(op)
      BY <2>3 DEF WritesState
    <3>2. m.term # currentTerm[s]
      BY <1>1, <2>3
    <3> HIDE DEF op, vote
    <3> QED
      BY <1>5, <2>1, <2>2, <3>1, <3>2
  <2>4. CASE ~newer
    <3>1. m.term = currentTerm[s] /\ vote = votedFor[s]
      BY <1>1, <2>1, <2>4
    <3> HIDE DEF op, vote
    <3> QED
      BY <1>5, <2>1, <2>2, <3>1
  <2> QED
    BY <2>3, <2>4
<1>12. CASE FollowerIgnores(s, m, commit, tick)
  BY <1>4, <1>12 DEF FollowerIgnores
<1> QED
  BY <1>7, <1>8, <1>9, <1>10, <1>11, <1>12
  DEF FollowerHandleMessage, FollowerHandleAppendEntries

(* The start of an election, and a newer term met by a candidate or leader: *)
(* the two other steps that begin a write of the term and vote.             *)
LEMMA BeginsWrite ==
  ASSUME TypeOK, NEW s \in Server, RemembersAt(s), Free(s),
         UNCHANGED <<stored, messages>>, NEW term \in Nat, NEW vote, NEW op,
         currentTerm' = [currentTerm EXCEPT ![s] = term],
         votedFor' = [votedFor EXCEPT ![s] = vote],
         operation' = [operation EXCEPT ![s] = op],
         term > currentTerm[s],
         \/ op.kind = "requestVote" /\ vote = s
         \/ op.kind = "convert" /\ op.message.from # s
  PROVE  VoteStep(s)
<1>1. /\ currentTerm'[s] = term /\ votedFor'[s] = vote /\ operation'[s] = op
      /\ currentTerm[s] \in Nat
  BY DEF TypeOK
<1>2. stored[s] = StateOf(s)
  BY DEF RemembersAt, Free, Idle, WritesState
<1>3. stored'[s].currentTerm = currentTerm[s]
  BY <1>2 DEF StateOf
<1>4. RemembersAt(s)'
  BY <1>1, <1>3 DEF RemembersAt, WritesState
<1> QED
  BY <1>4 DEF VoteStep, OthersKeepVotes, SentNow, TypeOK

(* The timer of a follower or candidate: the start of an election, or       *)
(* nothing.                                                                 *)
LEMMA VotesTimesOut ==
  ASSUME TypeOK, VoteInv, NEW s \in Server,
         FollowerTimesOut(s) \/ CandidateTimesOut(s)
  PROVE  VoteStep(s)
<1>1. RemembersAt(s) /\ currentTerm[s] \in Nat
  BY ServerTypes DEF VoteInv, Remembers
<1>2. CASE StartElection(s)
  <2>1. Free(s)
    BY DEF FollowerTimesOut, CandidateTimesOut
  <2>2. /\ currentTerm' = [currentTerm EXCEPT ![s] = currentTerm[s] + 1]
        /\ votedFor' = [votedFor EXCEPT ![s] = s]
        /\ operation' = [operation EXCEPT ![s] = [kind |-> "requestVote"]]
        /\ UNCHANGED <<stored, messages>>
    BY <1>2 DEF StartElection, SetTermAndVote, SetOperation, persistentVars
  <2>3. currentTerm[s] + 1 \in Nat /\ currentTerm[s] + 1 > currentTerm[s]
    BY <1>1
  <2> QED
    BY <1>1, <2>1, <2>2, <2>3, BeginsWrite
<1>3. CASE ~StartElection(s)
  <2>1. /\ UNCHANGED <<stored, currentTerm, votedFor, operation, messages>>
        /\ operation[s] = Idle
    BY <1>3
    DEF FollowerTimesOut, CandidateTimesOut, persistentVars, Free
  <2>2. ~WritesState(operation[s]) /\ operation'[s].kind = "none"
    BY <2>1 DEF WritesState, Idle
  <2> QED
    BY <1>1, <2>1, <2>2, QuietStep
<1> QED
  BY <1>2, <1>3

(* A candidate or leader that meets a newer term begins a write of it.      *)
LEMMA VotesDeferToNewerTerm ==
  ASSUME TypeOK, VoteInv, NEW s \in Server, NEW m \in messages, m.to = s,
         Free(s), DeferToNewerTerm(s, m)
  PROVE  VoteStep(s)
<1>1. RemembersAt(s) /\ m.term \in Nat
  BY MessageFields DEF VoteInv, Remembers, TypeOK
<1>2. m.from # s
  BY DEF VoteInv, Remembered, RememberedAt
<1> DEFINE op == [kind |-> "convert", message |-> m]
<1>3. /\ currentTerm' = [currentTerm EXCEPT ![s] = m.term]
      /\ votedFor' = [votedFor EXCEPT ![s] = NoServer]
      /\ operation' = [operation EXCEPT ![s] = op]
      /\ UNCHANGED <<stored, messages>>
      /\ m.term > currentTerm[s]
  BY DEF DeferToNewerTerm, SetTermAndVote, SetOperation, persistentVars
<1>4. op.kind = "convert" /\ op.message = m
  OBVIOUS
<1> HIDE DEF op
<1> QED
  BY <1>1, <1>2, <1>3, <1>4, BeginsWrite

(* Updating followers is a quiet step.                                      *)
LEMMA UpdateIsQuiet ==
  ASSUME TypeOK, NEW s \in Server, RemembersAt(s), ~WritesState(operation[s]),
         UNCHANGED <<stored, currentTerm, votedFor>>,
         NEW peers \in SUBSET Peers(s), NEW next, NEW match,
         NEW heartbeatOnly, NEW l,
         UpdateFollowers(s, peers, next, match, heartbeatOnly, l)
  PROVE  VoteStep(s)
<1> DEFINE update(p) == AppendEntries(s, p, next[p], match[p], heartbeatOnly, l,
                                      commitIndex'[s])
<1>1. \A p \in Peers(s) : /\ update(p).from = s /\ update(p).to # s
                        /\ update(p).term = currentTerm[s]
                        /\ ~IsBallot(update(p))
  BY DEF AppendEntries, IsBallot, Peers
<1>2. /\ \E ps \in SUBSET peers : messages' = messages \union {update(p) : p \in ps}
      /\ SetOperation(s, Idle) \/ SetOperation(s, Crashed)
  BY DEF UpdateFollowers, Send
<1> HIDE DEF update
<1>3. \A m \in messages' \ messages :
        m.from = s /\ m.to # s /\ m.term = currentTerm[s] /\ ~IsBallot(m)
  BY <1>1, <1>2
<1>4. messages \subseteq messages'
  BY <1>2
<1>5. /\ \A p \in Server \ {s} : operation'[p] = operation[p]
      /\ operation'[s].kind \in {"none", "crashed", "append"}
  BY <1>2 DEF SetOperation, Idle, Crashed, TypeOK
<1> QED
  BY <1>3, <1>4, <1>5, QuietStep

(* A reply that is no ballot is a quiet step, and so is none.               *)
LEMMA ReplyIsQuiet ==
  ASSUME TypeOK, NEW s \in Server, RemembersAt(s), Free(s),
         UNCHANGED <<stored, currentTerm, votedFor, operation>>,
         messages \subseteq messages',
         \A m \in messages' \ messages :
           /\ m.from = s /\ m.to # s
           /\ m.term = currentTerm[s] /\ ~IsBallot(m)
  PROVE  VoteStep(s)
<1>1. ~WritesState(operation[s]) /\ operation'[s].kind = "none"
  BY DEF Free, Idle, WritesState
<1> QED
  BY <1>1, QuietStep

(* Every handler, of every role.                                            *)
LEMMA VotesReceive ==
  ASSUME TypeOK, VoteInv, NEW s \in Server, NEW m \in messages, Receive(s, m)
  PROVE  VoteStep(s)
<1>1. /\ RemembersAt(s) /\ m \in Message /\ m.to = s /\ Free(s)
      /\ operation[s].kind = "none"
  BY DEF VoteInv, Remembers, Receive, TypeOK, Free, Idle
<1>2. m.from # s /\ {m.from} \in SUBSET Peers(s)
  BY <1>1, MessageFields DEF VoteInv, Remembered, RememberedAt, Peers
<1>3. stored[s] = StateOf(s) /\ ~WritesState(operation[s])
  BY <1>1 DEF RemembersAt, WritesState
<1>4. ASSUME NEW reply,
             \/ reply = DenyVote(s, m.from)
             \/ reply = RejectEntries(s, m.from, NoIndex)
      PROVE  /\ reply.from = s /\ reply.to # s
             /\ reply.term = currentTerm[s] /\ ~IsBallot(reply)
  BY <1>2, <1>4 DEF DenyVote, RejectEntries, IsBallot
<1>5. CASE FollowerReceives(s, m)
  BY <1>1, <1>2, <1>3, <1>5, FollowerVotes DEF FollowerReceives, persistentVars
<1>6. CASE DeferToNewerTerm(s, m)
  BY <1>1, <1>6, VotesDeferToNewerTerm
<1>7. CASE CandidateHandleGrantVote(s, m)
  <2>1. UNCHANGED <<stored, currentTerm, votedFor, operation>>
    BY <1>7 DEF CandidateHandleGrantVote, persistentVars
  <2>2. CASE UNCHANGED messages
    BY <1>1, <2>1, <2>2, ReplyIsQuiet
  <2>3. CASE BecomeLeader(s)
    <3> DEFINE next == LastIndex(log[s]) + 1
               claim(p) == AppendEntries(s, p, next, 0, TRUE, log[s], 0)
    <3>1. messages' = messages \union {claim(p) : p \in Peers(s)}
      BY <2>3 DEF BecomeLeader, Send
    <3>2. \A p \in Peers(s) : /\ claim(p).from = s /\ claim(p).to # s
                            /\ claim(p).term = currentTerm[s]
                            /\ ~IsBallot(claim(p))
      BY DEF AppendEntries, IsBallot, Peers
    <3> HIDE DEF claim
    <3>3. /\ messages \subseteq messages'
          /\ \A a \in messages' \ messages :
               /\ a.from = s /\ a.to # s
               /\ a.term = currentTerm[s] /\ ~IsBallot(a)
      BY <3>1, <3>2
    <3> QED
      BY <1>1, <2>1, <3>3, ReplyIsQuiet
  <2> QED
    BY <1>7, <2>2, <2>3 DEF CandidateHandleGrantVote
<1>8. CASE CandidateHandleRequestVote(s, m)
  BY <1>1, <1>4, <1>8, ReplyIsQuiet
  DEF CandidateHandleRequestVote, Send, persistentVars
<1>9. CASE CandidateHandleAppendEntries(s, m)
  <2>1. CASE ConvertToFollower(s, m) /\ UNCHANGED persistentVars
    BY <1>1, <1>2, <1>3, <2>1, FollowerVotes DEF ConvertToFollower, persistentVars
  <2>2. CASE /\ Send({RejectEntries(s, m.from, NoIndex)})
             /\ UNCHANGED <<stored, currentTerm, votedFor, operation>>
    BY <1>1, <1>4, <2>2, ReplyIsQuiet DEF Send
  <2> QED
    BY <1>9, <2>1, <2>2 DEF CandidateHandleAppendEntries, persistentVars
<1>10. CASE LeaderHandleRequestVote(s, m)
  <2>1. UNCHANGED <<stored, currentTerm, votedFor>>
    BY <1>10 DEF LeaderHandleRequestVote, persistentVars
  <2>2. CASE Send({DenyVote(s, m.from)}) /\ UNCHANGED operation
    BY <1>1, <1>4, <2>1, <2>2, ReplyIsQuiet DEF Send
  <2>3. CASE UpdateFollowers(s, {m.from}, nextIndex[s], matchIndex[s], TRUE, log[s])
    BY <1>1, <1>2, <1>3, <2>1, <2>3, UpdateIsQuiet
  <2> QED
    BY <1>10, <2>2, <2>3 DEF LeaderHandleRequestVote
<1>11. CASE LeaderHandleRejectEntries(s, m)
  BY <1>1, <1>2, <1>3, <1>11, UpdateIsQuiet
  DEF LeaderHandleRejectEntries, persistentVars
<1>12. CASE LeaderHandleAcceptEntries(s, m)
  <2>1. UNCHANGED <<stored, currentTerm, votedFor>>
    BY <1>12 DEF LeaderHandleAcceptEntries, persistentVars
  <2>2. CASE UNCHANGED <<messages, operation>>
    BY <1>1, <2>1, <2>2, ReplyIsQuiet
  <2>3. CASE UpdateFollowers(s, {m.from}, nextIndex'[s], matchIndex'[s], FALSE,
                             log[s])
    BY <1>1, <1>2, <1>3, <2>1, <2>3, UpdateIsQuiet
  <2> QED
    BY <1>12, <2>2, <2>3 DEF LeaderHandleAcceptEntries
<1> QED
  BY <1>5, <1>6, <1>7, <1>8, <1>9, <1>10, <1>11, <1>12
  DEF Receive, CandidateReceives, LeaderReceives

(* A write that is durable.                                                 *)
LEMMA WriteSettles ==
  ASSUME TypeOK, NEW s \in Server, UNCHANGED <<currentTerm, votedFor>>,
         stored'[s] = StateOf(s),
         \A p \in Server \ {s} : stored'[p] = stored[p],
         operation' = [operation EXCEPT ![s] = Idle],
         messages \subseteq messages',
         \A m \in messages' \ messages :
           /\ m.from = s /\ m.to # s /\ m.term = currentTerm[s]
           /\ IsBallot(m) => Favours(m) = votedFor[s]
  PROVE  VoteStep(s)
<1>1. stored'[s].currentTerm = currentTerm[s] /\ stored'[s].votedFor = votedFor[s]
  BY DEF StateOf
<1>2. /\ operation'[s].kind = "none" /\ currentTerm[s] \in Nat
      /\ \A p \in Server \ {s} : operation'[p] = operation[p]
  BY DEF TypeOK, Idle
<1>3. RemembersAt(s)'
  BY <1>1, <1>2 DEF RemembersAt, StateOf
<1>4. SentNow(s)
  BY <1>1 DEF SentNow
<1> QED
  BY <1>2, <1>3, <1>4 DEF VoteStep, OthersKeepVotes

(* Every continuation.                                                      *)
LEMMA VotesPersisted ==
  ASSUME TypeOK, VoteInv, NEW s \in Server, Persisted(s)
  PROVE  VoteStep(s)
<1>1. RemembersAt(s) /\ operation[s] \in Operation
  BY ServerTypes DEF VoteInv, Remembers
<1>2. StoreState(s) => /\ stored'[s] = StateOf(s)
                       /\ \A p \in Server \ {s} : stored'[p] = stored[p]
  BY DEF StoreState, TypeOK
<1>3. CASE PersistedRequestVote(s)
  <2>1. votedFor[s] = s
    BY <1>1, <1>3 DEF RemembersAt, PersistedRequestVote
  <2>2. /\ messages' = messages \union
             {RequestVote(s, p, currentTerm[s]) : p \in Peers(s)}
        /\ StoreState(s) /\ UNCHANGED <<currentTerm, votedFor>>
        /\ operation' = [operation EXCEPT ![s] = Idle]
    BY <1>3 DEF PersistedRequestVote, Send, SetOperation
  <2>3. \A p \in Peers(s) : LET m == RequestVote(s, p, currentTerm[s])
                            IN  /\ m.from = s /\ m.term = currentTerm[s]
                                /\ m.to # s /\ Favours(m) = s
    BY DEF RequestVote, Peers, Favours
  <2>4. \A m \in messages' \ messages :
          /\ m.from = s /\ m.term = currentTerm[s]
          /\ m.to # s /\ Favours(m) = votedFor[s]
    BY <2>1, <2>2, <2>3
  <2> QED
    BY <1>2, <2>2, <2>4, WriteSettles
<1>4. CASE PersistedGrantVote(s)
  <2> DEFINE m == GrantVote(s, operation[s].peer)
  <2>1. votedFor[s] = operation[s].peer /\ operation[s].peer # s
    BY <1>1, <1>4 DEF RemembersAt, PersistedGrantVote
  <2>2. /\ messages' = messages \union {m}
        /\ StoreState(s) /\ UNCHANGED <<currentTerm, votedFor>>
        /\ operation' = [operation EXCEPT ![s] = Idle]
    BY <1>4 DEF PersistedGrantVote, Send, SetOperation
  <2>3. /\ m.from = s /\ m.term = currentTerm[s]
        /\ m.to # s /\ Favours(m) = votedFor[s]
    BY <2>1 DEF GrantVote, Favours
  <2> HIDE DEF m
  <2> QED
    BY <1>2, <2>2, <2>3, WriteSettles
<1>5. CASE PersistedSetTerm(s)
  <2>1. /\ StoreState(s) /\ UNCHANGED <<messages, currentTerm, votedFor>>
        /\ operation' = [operation EXCEPT ![s] = Idle]
    BY <1>5 DEF PersistedSetTerm, SetOperation
  <2> QED
    BY <1>2, <2>1, WriteSettles
<1>6. CASE PersistedConvert(s)
  <2>1. /\ StoreState(s) /\ operation[s].kind = "convert"
        /\ FollowerHandleMessage(s, operation[s].message, 0, FALSE)
    BY <1>6 DEF PersistedConvert, ConvertToFollower
  <2>2. operation[s].message \in Message
    BY <1>1, <2>1, OperationFields
  <2>3. operation[s].message.from # s
    BY <1>1, <2>1 DEF RemembersAt
  <2> QED
    BY <1>2, <2>1, <2>2, <2>3, FollowerVotes
<1>7. CASE PersistedMergeEntries(s)
  <2> DEFINE m == AcceptEntries(s, operation[s].peer, LastIndex(log'[s]))
  <2>1. /\ IF WritesState(operation[s]) THEN StoreState(s) ELSE UNCHANGED stored
        /\ messages' = messages \union {m}
        /\ operation' = [operation EXCEPT ![s] = Idle]
        /\ UNCHANGED <<currentTerm, votedFor>>
    BY <1>7 DEF PersistedMergeEntries, Send, SetOperation
  <2>2. /\ stored'[s] = StateOf(s)
        /\ \A p \in Server \ {s} : stored'[p] = stored[p]
    BY <1>1, <1>2, <2>1 DEF RemembersAt
  <2>3. m.from = s /\ m.to # s /\ m.term = currentTerm[s] /\ ~IsBallot(m)
    BY <1>1, <1>7
    DEF AcceptEntries, IsBallot, RemembersAt, PersistedMergeEntries
  <2> HIDE DEF m
  <2> QED
    BY <2>1, <2>2, <2>3, WriteSettles
<1>8. CASE PersistedAppend(s)
  <2>1. /\ ~WritesState(operation[s])
        /\ UNCHANGED <<stored, currentTerm, votedFor>>
        /\ UpdateFollowers(s, Peers(s), nextIndex[s], matchIndex[s], FALSE, log'[s])
    BY <1>8 DEF PersistedAppend, WritesState
  <2> QED
    BY <1>1, <2>1, UpdateIsQuiet
<1> QED
  BY <1>3, <1>4, <1>5, <1>6, <1>7, <1>8 DEF Persisted

(* A restart takes back what was not persisted, and nothing was sent of it. *)
LEMMA VotesRestart ==
  ASSUME TypeOK, VoteInv, NEW s \in Server, Restart(s)
  PROVE  VoteStep(s)
<1>1. /\ stored'[s] \in {stored[s], StateOf(s)}
      /\ \A p \in Server \ {s} : stored'[p] = stored[p]
  BY DEF Restart, StoreState, TypeOK
<1>2. /\ currentTerm' = [currentTerm EXCEPT ![s] = stored'[s].currentTerm]
      /\ votedFor' = [votedFor EXCEPT ![s] = stored'[s].votedFor]
      /\ operation' = [operation EXCEPT ![s] = Idle]
      /\ UNCHANGED messages
  BY DEF Restart, SetOperation
<1>3. /\ currentTerm'[s] = stored'[s].currentTerm
      /\ votedFor'[s] = stored'[s].votedFor
      /\ operation'[s].kind = "none"
      /\ \A p \in Server \ {s} :
           /\ currentTerm'[p] = currentTerm[p] /\ votedFor'[p] = votedFor[p]
           /\ operation'[p] = operation[p]
  BY <1>2 DEF TypeOK, Idle
<1>4. /\ stored'[s] = [currentTerm |-> stored'[s].currentTerm,
                       votedFor |-> stored'[s].votedFor]
      /\ stored'[s].currentTerm \in Nat
  <2>1. stored[s] \in State /\ StateOf(s) \in State
    BY ServerTypes
  <2>2. stored'[s] \in State
    BY <1>1, <2>1
  <2> QED
    BY <2>2 DEF State
<1>5. RemembersAt(s)'
  BY <1>3, <1>4 DEF RemembersAt, StateOf
<1> QED
  BY <1>1, <1>2, <1>3, <1>5 DEF VoteStep, OthersKeepVotes, SentNow

(* Every step is of that shape.                                             *)
LEMMA VotesStep ==
  ASSUME TypeOK, VoteInv, NEW s \in Server, Step(s)
  PROVE  VoteStep(s)
<1>2. RemembersAt(s)
  BY DEF VoteInv, Remembers
<1>3. CASE FollowerTimesOut(s) \/ CandidateTimesOut(s)
  BY <1>3, VotesTimesOut
<1>4. CASE LeaderSendsHeartbeat(s)
  <2>1. /\ Free(s) /\ ~WritesState(operation[s])
        /\ UNCHANGED <<stored, currentTerm, votedFor>>
    BY <1>4 DEF LeaderSendsHeartbeat, Free, Idle, WritesState, persistentVars
  <2>2. CASE UNCHANGED <<messages, operation>>
    BY <1>2, <2>1, <2>2, ReplyIsQuiet
  <2>3. CASE UpdateFollowers(s, Peers(s), nextIndex[s], matchIndex[s], TRUE, log[s])
    BY <1>2, <2>1, <2>3, UpdateIsQuiet
  <2> QED
    BY <1>4, <2>2, <2>3 DEF LeaderSendsHeartbeat
<1>5. CASE \E m \in messages : Receive(s, m)
  BY <1>5, VotesReceive
<1>6. CASE \E value \in Value : LeaderAppends(s, value)
  <2>1. PICK value \in Value : LeaderAppends(s, value)
    BY <1>6
  <2> DEFINE op == [kind |-> "append", value |-> value]
  <2>2. /\ Free(s) /\ ~WritesState(operation[s])
        /\ UNCHANGED <<stored, currentTerm, votedFor, messages>>
        /\ operation' = [operation EXCEPT ![s] = op]
    BY <2>1 DEF LeaderAppends, Free, Idle, WritesState, SetOperation,
                persistentVars
  <2>3. /\ operation'[s].kind = "append"
        /\ \A p \in Server \ {s} : operation'[p] = operation[p]
    BY <2>2 DEF TypeOK
  <2> QED
    BY <1>2, <2>2, <2>3, QuietStep
<1>7. CASE Persisted(s)
  BY <1>7, VotesPersisted
<1>8. CASE Restart(s)
  BY <1>8, VotesRestart
<1> QED
  BY <1>3, <1>4, <1>5, <1>6, <1>7, <1>8 DEF Step

(* The invariant about votes holds initially.                               *)
LEMMA VoteInvInit == Init => VoteInv
<1> SUFFICES ASSUME Init PROVE VoteInv
  OBVIOUS
<1>1. \A s \in Server : RemembersAt(s)
  BY DEF Init, RemembersAt, StateOf, Idle
<1> QED
  BY <1>1 DEF Init, VoteInv, Remembers, Remembered, VotesOnce

(* Every step preserves the invariant about votes.                          *)
LEMMA VoteInvNext == TypeOK /\ TypeOK' /\ VoteInv /\ [Next]_vars => VoteInv'
<1> SUFFICES ASSUME TypeOK, TypeOK', VoteInv, [Next]_vars PROVE VoteInv'
  OBVIOUS
<1>1. CASE Next
  BY <1>1, VotesStep, VoteStepInv DEF Next
<1>2. CASE UNCHANGED vars
  BY <1>2
  DEF VoteInv, Remembers, RemembersAt, Remembered, RememberedAt, VotesOnce,
      StateOf, vars, persistentVars
<1> QED
  BY <1>1, <1>2

(* The invariant about votes holds in every reachable state.                *)
LEMMA VoteInvariance == Spec => []VoteInv
BY VoteInvInit, VoteInvNext, TypeCorrect, PTL DEF Spec

(* No server tells another about a term or a vote that it would forget.     *)
THEOREM PersistedBeforeSentHolds == Spec => []PersistedBeforeSent
<1>1. ASSUME TypeOK, VoteInv PROVE PersistedBeforeSent
  <2>1. ASSUME NEW m \in messages
        PROVE  /\ stored[m.from].currentTerm >= m.term
               /\ m.type = "GrantVote" /\ stored[m.from].currentTerm = m.term =>
                    stored[m.from].votedFor = m.to
    <3>1. RememberedAt(m)
      BY <1>1 DEF VoteInv, Remembered
    <3>2. m \in Message
      BY <1>1 DEF TypeOK
    <3>3. m.from \in Server /\ m.term \in Nat /\ stored[m.from].currentTerm \in Nat
      BY <1>1, <3>2, MessageFields, ServerTypes DEF State
    <3> QED
      BY <3>1, <3>3 DEF RememberedAt, IsBallot, Favours
  <2> QED
    BY <2>1 DEF PersistedBeforeSent
<1> QED
  BY <1>1, TypeCorrect, VoteInvariance, PTL

(* What is persisted of terms and votes is never taken back.                *)
THEOREM StoredVoteKeptHolds == Spec => StoredVoteKept
<1> DEFINE Keeps == \A s \in Server :
                     \/ stored'[s].currentTerm > stored[s].currentTerm
                     \/ /\ stored'[s].currentTerm = stored[s].currentTerm
                        /\ stored[s].votedFor \in {NoServer, stored'[s].votedFor}
<1>1. ASSUME TypeOK, VoteInv, [Next]_vars PROVE [Keeps]_vars
  <2>1. SUFFICES ASSUME Next, NEW p \in Server
                 PROVE  \/ stored'[p].currentTerm > stored[p].currentTerm
                        \/ /\ stored'[p].currentTerm = stored[p].currentTerm
                           /\ stored[p].votedFor \in {NoServer, stored'[p].votedFor}
    BY <1>1
  <2>2. PICK s \in Server : VoteStep(s)
    BY <1>1, <2>1, VotesStep DEF Next
  <2>3. CASE p = s
    BY <1>1, <2>2, <2>3, StoredMovesOn
  <2>4. CASE p # s
    <3>1. stored'[p] = stored[p]
      BY <2>2, <2>4 DEF VoteStep, OthersKeepVotes
    <3> QED
      BY <3>1
  <2> QED
    BY <2>3, <2>4
<1>2. Spec => [][Keeps]_vars
  BY <1>1, TypeCorrect, VoteInvariance, PTL DEF Spec
<1> QED
  BY <1>2 DEF StoredVoteKept

-----------------------------------------------------------------------------
(* Candidates and leaders *)

(* A ballot stays cast.                                                     *)
LEMMA BallotsStay ==
  ASSUME messages \subseteq messages', NEW voter, NEW candidate, NEW term,
         Ballot(voter, candidate, term)
  PROVE  Ballot(voter, candidate, term)'
BY DEF Ballot

(* A candidate that a step leaves alone.                                    *)
LEMMA CandidateKept ==
  ASSUME NEW s \in Server, CandidateAt(s), messages \subseteq messages',
         role'[s] = role[s], currentTerm'[s] = currentTerm[s],
         votesRequired'[s] = votesRequired[s],
         votesAlreadyReceived'[s] = votesAlreadyReceived[s],
         \/ operation'[s] = operation[s]
         \/ operation[s].kind \notin {"convert", "requestVote"}
  PROVE  CandidateAt(s)'
<1> SUFFICES ASSUME role'[s] = "Candidate", operation'[s].kind # "convert"
             PROVE  /\ votesAlreadyReceived'[s] \subseteq Peers(s)
                    /\ votesRequired'[s] + Cardinality(votesAlreadyReceived'[s])
                         = HalfOfPeers
                    /\ \A p \in votesAlreadyReceived'[s] :
                         Ballot(p, s, currentTerm[s])'
                    /\ operation'[s].kind # "requestVote" /\ Peers(s) # {} =>
                         Ballot(s, s, currentTerm[s])'
  BY DEF CandidateAt
<1>1. operation[s].kind # "convert"
  OBVIOUS
<1>2. /\ votesAlreadyReceived[s] \subseteq Peers(s)
      /\ votesRequired[s] + Cardinality(votesAlreadyReceived[s]) = HalfOfPeers
      /\ \A p \in votesAlreadyReceived[s] : Ballot(p, s, currentTerm[s])
      /\ operation[s].kind # "requestVote" /\ Peers(s) # {} =>
           Ballot(s, s, currentTerm[s])
  BY <1>1 DEF CandidateAt
<1> QED
  BY <1>2 DEF Ballot

(* A server that is no candidate, or defers to a newer term.                *)
LEMMA NoCandidate ==
  ASSUME NEW s \in Server,
         role'[s] # "Candidate" \/ operation'[s].kind = "convert"
  PROVE  CandidateAt(s)'
BY DEF CandidateAt

(* Half of the peers, rounded up, and the server itself are a majority.     *)
LEMMA HalfAndOneIsMajority ==
  2 * (HalfOfPeers + 1) > Cardinality(Server)
<1>1. Cardinality(Server) \in Nat
  BY ServerAssumption, FS_CardinalityType
<1> QED
  BY <1>1 DEF HalfOfPeers

(* An election that starts has no votes but its own.                        *)
LEMMA CandidateStarts ==
  ASSUME TypeOK, NEW s \in Server, StartElection(s)
  PROVE  CandidateAt(s)'
<1>1. /\ votesRequired' = [votesRequired EXCEPT ![s] = HalfOfPeers]
      /\ votesAlreadyReceived' = [votesAlreadyReceived EXCEPT ![s] = {}]
      /\ operation' = [operation EXCEPT ![s] = [kind |-> "requestVote"]]
  BY DEF StartElection, SetOperation
<1>2. /\ votesRequired'[s] = HalfOfPeers
      /\ votesAlreadyReceived'[s] = {}
      /\ operation'[s].kind = "requestVote"
  BY <1>1 DEF TypeOK
<1>3. HalfOfPeers + Cardinality({}) = HalfOfPeers
  BY FS_EmptySet, HalfOfPeersType
<1> QED
  BY <1>2, <1>3 DEF CandidateAt

(* The voters of a candidate once it has another vote.                      *)
LEMMA OneMoreVote ==
  ASSUME TypeOK, VoteInv, NEW s \in Server, CandidateAt(s),
         role[s] = "Candidate", Free(s), NEW m \in messages, m.to = s,
         CandidateHandleGrantVote(s, m)
  PROVE  LET voters == votesAlreadyReceived[s] \union {m.from}
         IN  /\ voters \subseteq Peers(s)
             /\ votesRequired[s] - 1 + Cardinality(voters) = HalfOfPeers
             /\ \A p \in voters \union {s} : Ballot(p, s, currentTerm[s])
<1> DEFINE old    == votesAlreadyReceived[s]
           voters == old \union {m.from}
<1>1. /\ m.type = "GrantVote" /\ m.term = currentTerm[s] /\ m.from \notin old
      /\ m \in Message /\ m.from \in Server
  BY MessageFields DEF CandidateHandleGrantVote, TypeOK
<1>2. m.from # s /\ Ballot(m.from, s, currentTerm[s])
  BY <1>1 DEF VoteInv, Remembered, RememberedAt, IsBallot, Ballot, Favours
<1>3. m.from \in Peers(s) /\ Peers(s) # {}
  BY <1>1, <1>2 DEF Peers
<1>4. /\ old \subseteq Peers(s)
      /\ votesRequired[s] + Cardinality(old) = HalfOfPeers
      /\ \A p \in old : Ballot(p, s, currentTerm[s])
      /\ Ballot(s, s, currentTerm[s])
  BY <1>3 DEF CandidateAt, Free, Idle
<1>5. IsFiniteSet(old) /\ Cardinality(old) \in Nat
  BY <1>4, ServerAssumption, FS_Subset, FS_CardinalityType DEF Peers
<1>6. Cardinality(voters) = Cardinality(old) + 1
  BY <1>1, <1>5, FS_AddElement
<1>7. votesRequired[s] \in Int /\ HalfOfPeers \in Nat
  BY HalfOfPeersType DEF TypeOK
<1>8. votesRequired[s] - 1 + Cardinality(voters) = HalfOfPeers
  BY <1>4, <1>5, <1>6, <1>7
<1> QED
  BY <1>2, <1>3, <1>4, <1>8

(* A vote that is not the last one a candidate needs.                       *)
LEMMA CandidateCounts ==
  ASSUME TypeOK, VoteInv, NEW s \in Server, CandidateAt(s),
         role[s] = "Candidate", Free(s), NEW m \in messages, m.to = s,
         CandidateHandleGrantVote(s, m), votesRequired[s] # 1
  PROVE  CandidateAt(s)'
<1> DEFINE voters == votesAlreadyReceived[s] \union {m.from}
<1>1. /\ votesAlreadyReceived' = [votesAlreadyReceived EXCEPT ![s] = voters]
      /\ votesRequired' = [votesRequired EXCEPT ![s] = votesRequired[s] - 1]
      /\ UNCHANGED <<messages, currentTerm>>
  BY DEF CandidateHandleGrantVote
<1>2. votesAlreadyReceived'[s] = voters /\ votesRequired'[s] = votesRequired[s] - 1
  BY <1>1 DEF TypeOK
<1>3. /\ voters \subseteq Peers(s)
      /\ votesRequired[s] - 1 + Cardinality(voters) = HalfOfPeers
      /\ \A p \in voters \union {s} : Ballot(p, s, currentTerm[s])
  BY OneMoreVote
<1> HIDE DEF voters
<1>4. \A p \in voters \union {s} : Ballot(p, s, currentTerm[s])'
  BY <1>1, <1>3 DEF Ballot
<1> QED
  BY <1>2, <1>3, <1>4 DEF CandidateAt

(* A candidate that wins has the votes of a majority.                       *)
LEMMA WinsByMajority ==
  ASSUME TypeOK, VoteInv, NEW s \in Server, CandidateAt(s),
         role[s] = "Candidate", Free(s), NEW m \in messages, m.to = s,
         CandidateHandleGrantVote(s, m), votesRequired[s] = 1
  PROVE  \E Q \in Majority : \A v \in Q : Ballot(v, s, currentTerm[s])
<1> DEFINE voters == votesAlreadyReceived[s] \union {m.from}
           Q      == voters \union {s}
<1>1. /\ voters \subseteq Peers(s)
      /\ votesRequired[s] - 1 + Cardinality(voters) = HalfOfPeers
      /\ \A p \in Q : Ballot(p, s, currentTerm[s])
  BY OneMoreVote
<1> HIDE DEF voters
<1>2. s \notin voters /\ voters \subseteq Server /\ Q \subseteq Server
  BY <1>1 DEF Peers
<1>3. IsFiniteSet(voters) /\ Cardinality(voters) \in Nat
  BY <1>2, ServerAssumption, FS_Subset, FS_CardinalityType
<1>4. Cardinality(Q) = Cardinality(voters) + 1
  BY <1>2, <1>3, FS_AddElement
<1>5. Cardinality(voters) = HalfOfPeers
  BY <1>1, <1>3, HalfOfPeersType
<1>6. 2 * Cardinality(Q) > Cardinality(Server)
  BY <1>4, <1>5, HalfAndOneIsMajority
<1> QED
  BY <1>1, <1>2, <1>6 DEF Majority

(* Nor the role and the counters of another.                                *)
OthersKeepRoles(s) ==
  \A p \in Server \ {s} :
    /\ role'[p] = role[p]
    /\ votesRequired'[p] = votesRequired[p]
    /\ votesAlreadyReceived'[p] = votesAlreadyReceived[p]

(* What every step of server s does to the elections: only a candidate with *)
(* a majority is elected.                                                   *)
ElectionStep(s) ==
  /\ OthersKeepRoles(s)
  /\ CandidateAt(s)'
  /\ \/ UNCHANGED elected
     \/ /\ elected' = elected \union {[server |-> s, term |-> currentTerm[s]]}
        /\ \E Q \in Majority : \A v \in Q : Ballot(v, s, currentTerm[s])

(* A step of that shape preserves the invariant about elections.            *)
LEMMA ElectionStepInv ==
  ASSUME TypeOK, VoteInv, Candidates, ElectedByMajority,
         NEW s \in Server, VoteStep(s), ElectionStep(s)
  PROVE  Candidates' /\ ElectedByMajority'
<1>1. messages \subseteq messages'
  BY DEF VoteStep
<1>2. ASSUME NEW p \in Server PROVE CandidateAt(p)'
  <2>1. CASE p = s
    BY <2>1 DEF ElectionStep
  <2>2. CASE p # s
    <3>1. /\ role'[p] = role[p]
          /\ votesRequired'[p] = votesRequired[p]
          /\ votesAlreadyReceived'[p] = votesAlreadyReceived[p]
          /\ currentTerm'[p] = currentTerm[p]
          /\ operation'[p] = operation[p]
      BY <2>2 DEF ElectionStep, OthersKeepRoles, VoteStep, OthersKeepVotes
    <3>2. CandidateAt(p)
      BY DEF Candidates
    <3> QED
      BY <1>1, <3>1, <3>2, CandidateKept
  <2> QED
    BY <2>1, <2>2
<1>3. ASSUME NEW e \in elected'
      PROVE  \E Q \in Majority : \A v \in Q : Ballot(v, e.server, e.term)'
  <2>1. \E Q \in Majority : \A v \in Q : Ballot(v, e.server, e.term)
    <3>1. CASE e \in elected
      BY <3>1 DEF ElectedByMajority
    <3>2. CASE e \notin elected
      BY <3>2 DEF ElectionStep
    <3> QED
      BY <3>1, <3>2
  <2> QED
    BY <1>1, <2>1 DEF Ballot
<1> QED
  BY <1>2, <1>3 DEF Candidates, ElectedByMajority, Majority

(* A server that becomes or stays a follower or leader.                     *)
LEMMA NoCandidateStep ==
  ASSUME NEW s \in Server, OthersKeepRoles(s), UNCHANGED elected,
         role'[s] # "Candidate" \/ operation'[s].kind = "convert"
  PROVE  ElectionStep(s)
BY NoCandidate DEF ElectionStep

(* Every handler is a step of that shape.                                   *)
LEMMA ElectionReceives ==
  ASSUME TypeOK, VoteInv, Candidates, NEW s \in Server, NEW m \in messages,
         Receive(s, m)
  PROVE  ElectionStep(s)
<1> USE DEF candidateVars, historyVars
<1>1. /\ m.to = s /\ Free(s) /\ CandidateAt(s)
  BY DEF Receive, Candidates
<1>2. /\ role \in [Server -> {"Follower", "Candidate", "Leader"}]
      /\ votesRequired \in [Server -> Int]
      /\ votesAlreadyReceived \in [Server -> SUBSET Server]
      /\ DOMAIN operation = Server
  BY DEF TypeOK
<1>3. ASSUME ConvertToFollower(s, m) PROVE ElectionStep(s)
  <2>1. /\ role' = [role EXCEPT ![s] = "Follower"]
        /\ votesRequired' = [votesRequired EXCEPT ![s] = 0]
        /\ votesAlreadyReceived' = [votesAlreadyReceived EXCEPT ![s] = {}]
        /\ UNCHANGED elected
    BY <1>3 DEF ConvertToFollower
  <2>2. OthersKeepRoles(s) /\ role'[s] = "Follower"
    BY <1>2, <2>1 DEF OthersKeepRoles
  <2> QED
    BY <2>1, <2>2, NoCandidateStep
<1>4. ASSUME UNCHANGED <<role, votesRequired, votesAlreadyReceived, elected>>,
             role[s] # "Candidate"
      PROVE  ElectionStep(s)
  BY <1>4, NoCandidateStep DEF OthersKeepRoles
<1>5. ASSUME UNCHANGED <<role, votesRequired, votesAlreadyReceived, elected,
                         currentTerm, operation>>,
             messages \subseteq messages'
      PROVE  ElectionStep(s)
  BY <1>1, <1>5, CandidateKept DEF OthersKeepRoles, ElectionStep
<1>6. CASE FollowerReceives(s, m)
  BY <1>4, <1>6 DEF FollowerReceives
<1>7. CASE DeferToNewerTerm(s, m)
  <2>1. /\ UNCHANGED <<role, votesRequired, votesAlreadyReceived, elected>>
        /\ operation' = [operation EXCEPT ![s] = [kind |-> "convert", message |-> m]]
    BY <1>7 DEF DeferToNewerTerm, SetOperation
  <2>2. operation'[s].kind = "convert"
    BY <1>2, <2>1
  <2> QED
    BY <2>1, <2>2, NoCandidateStep DEF OthersKeepRoles
<1>8. CASE role[s] = "Candidate" /\ CandidateHandleGrantVote(s, m)
  <2>1. CASE votesRequired[s] = 1
    <3>1. /\ role' = [role EXCEPT ![s] = "Leader"]
          /\ votesRequired' = [votesRequired EXCEPT ![s] = 0]
          /\ votesAlreadyReceived' = [votesAlreadyReceived EXCEPT ![s] = {}]
          /\ elected' = elected \union {[server |-> s, term |-> currentTerm[s]]}
      BY <1>8, <2>1 DEF CandidateHandleGrantVote, BecomeLeader
    <3>2. OthersKeepRoles(s) /\ role'[s] = "Leader"
      BY <1>2, <3>1 DEF OthersKeepRoles
    <3>3. CandidateAt(s)'
      BY <3>2, NoCandidate
    <3>4. \E Q \in Majority : \A v \in Q : Ballot(v, s, currentTerm[s])
      BY <1>1, <1>8, <2>1, WinsByMajority
    <3> QED
      BY <3>1, <3>2, <3>3, <3>4 DEF ElectionStep
  <2>2. CASE votesRequired[s] # 1
    <3>1. /\ votesAlreadyReceived' =
               [votesAlreadyReceived EXCEPT ![s] = votesAlreadyReceived[s] \union {m.from}]
          /\ votesRequired' = [votesRequired EXCEPT ![s] = votesRequired[s] - 1]
          /\ UNCHANGED <<role, elected>>
      BY <1>8, <2>2 DEF CandidateHandleGrantVote
    <3>2. OthersKeepRoles(s)
      BY <1>2, <3>1 DEF OthersKeepRoles
    <3>3. CandidateAt(s)'
      BY <1>1, <1>8, <2>2, CandidateCounts
    <3> QED
      BY <3>1, <3>2, <3>3 DEF ElectionStep
  <2> QED
    BY <2>1, <2>2
<1>9. CASE CandidateHandleRequestVote(s, m)
  BY <1>5, <1>9 DEF CandidateHandleRequestVote, Send
<1>10. CASE CandidateHandleAppendEntries(s, m)
  BY <1>3, <1>5, <1>10 DEF CandidateHandleAppendEntries, Send
<1>11. CASE /\ role[s] = "Leader"
            /\ \/ LeaderHandleRequestVote(s, m)
               \/ LeaderHandleRejectEntries(s, m)
               \/ LeaderHandleAcceptEntries(s, m)
  BY <1>4, <1>11
  DEF LeaderHandleRequestVote, LeaderHandleRejectEntries,
      LeaderHandleAcceptEntries
<1> QED
  BY <1>6, <1>7, <1>8, <1>9, <1>10, <1>11
  DEF Receive, CandidateReceives, LeaderReceives

(* Every continuation is a step of that shape.                              *)
LEMMA ElectionPersisted ==
  ASSUME TypeOK, VoteInv, Candidates, NEW s \in Server, VoteStep(s), Persisted(s)
  PROVE  ElectionStep(s)
<1> USE DEF candidateVars, historyVars
<1>1. CandidateAt(s) /\ messages \subseteq messages'
  BY DEF Candidates, VoteStep
<1>2. /\ role \in [Server -> {"Follower", "Candidate", "Leader"}]
      /\ votesRequired \in [Server -> Int]
      /\ votesAlreadyReceived \in [Server -> SUBSET Server]
      /\ DOMAIN operation = Server
  BY DEF TypeOK
<1>3. ASSUME UNCHANGED <<role, votesRequired, votesAlreadyReceived, elected,
                         currentTerm>>,
             operation[s].kind \notin {"convert", "requestVote"}
      PROVE  ElectionStep(s)
  BY <1>1, <1>3, CandidateKept DEF OthersKeepRoles, ElectionStep
<1>4. CASE PersistedRequestVote(s)
  <2>1. /\ UNCHANGED <<role, votesRequired, votesAlreadyReceived, elected,
                       currentTerm>>
        /\ operation[s].kind = "requestVote"
        /\ messages' = messages \union
             {RequestVote(s, p, currentTerm[s]) : p \in Peers(s)}
    BY <1>4 DEF PersistedRequestVote, Send
  <2>2. ASSUME Peers(s) # {} PROVE Ballot(s, s, currentTerm[s])'
    <3>1. PICK p \in Peers(s) : TRUE
      BY <2>2
    <3>2. RequestVote(s, p, currentTerm[s]) \in messages'
      BY <2>1
    <3>3. LET m == RequestVote(s, p, currentTerm[s])
          IN  /\ IsBallot(m) /\ m.from = s /\ Favours(m) = s
              /\ m.term = currentTerm'[s]
      BY <2>1 DEF RequestVote, IsBallot, Favours
    <3> QED
      BY <3>2, <3>3 DEF Ballot
  <2>3. role[s] = "Candidate" =>
          /\ votesAlreadyReceived[s] \subseteq Peers(s)
          /\ votesRequired[s] + Cardinality(votesAlreadyReceived[s]) = HalfOfPeers
          /\ \A p \in votesAlreadyReceived[s] : Ballot(p, s, currentTerm[s])'
    BY <1>1, <2>1 DEF CandidateAt, Ballot
  <2>4. CandidateAt(s)'
    BY <2>1, <2>2, <2>3 DEF CandidateAt
  <2> QED
    BY <2>1, <2>4 DEF OthersKeepRoles, ElectionStep
<1>5. CASE PersistedGrantVote(s)
  BY <1>3, <1>5 DEF PersistedGrantVote
<1>6. CASE PersistedSetTerm(s)
  BY <1>3, <1>6 DEF PersistedSetTerm
<1>7. CASE PersistedConvert(s)
  <2>1. /\ role' = [role EXCEPT ![s] = "Follower"]
        /\ votesRequired' = [votesRequired EXCEPT ![s] = 0]
        /\ votesAlreadyReceived' = [votesAlreadyReceived EXCEPT ![s] = {}]
        /\ UNCHANGED elected
    BY <1>7 DEF PersistedConvert, ConvertToFollower
  <2>2. OthersKeepRoles(s) /\ role'[s] = "Follower"
    BY <1>2, <2>1 DEF OthersKeepRoles
  <2> QED
    BY <2>1, <2>2, NoCandidateStep
<1>8. CASE PersistedMergeEntries(s)
  BY <1>3, <1>8 DEF PersistedMergeEntries
<1>9. CASE PersistedAppend(s)
  BY <1>3, <1>9 DEF PersistedAppend
<1> QED
  BY <1>4, <1>5, <1>6, <1>7, <1>8, <1>9 DEF Persisted

(* Every step is of that shape.                                             *)
LEMMA ElectionStepOf ==
  ASSUME TypeOK, VoteInv, Candidates, NEW s \in Server, VoteStep(s), Step(s)
  PROVE  ElectionStep(s)
<1> USE DEF candidateVars, historyVars
<1>1. CandidateAt(s) /\ messages \subseteq messages'
  BY DEF Candidates, VoteStep
<1>2. /\ role \in [Server -> {"Follower", "Candidate", "Leader"}]
      /\ votesRequired \in [Server -> Int]
      /\ votesAlreadyReceived \in [Server -> SUBSET Server]
  BY DEF TypeOK
<1>3. CASE FollowerTimesOut(s) \/ CandidateTimesOut(s)
  <2>1. CASE StartElection(s)
    <3>1. /\ UNCHANGED elected
          /\ \A p \in Server \ {s} : role'[p] = role[p]
      BY <1>2, <1>3, <2>1
      DEF FollowerTimesOut, CandidateTimesOut, StartElection
    <3>2. /\ votesRequired' = [votesRequired EXCEPT ![s] = HalfOfPeers]
          /\ votesAlreadyReceived' = [votesAlreadyReceived EXCEPT ![s] = {}]
      BY <2>1 DEF StartElection
    <3>3. OthersKeepRoles(s)
      BY <1>2, <3>1, <3>2 DEF OthersKeepRoles
    <3> QED
      BY <2>1, <3>1, <3>3, CandidateStarts DEF ElectionStep
  <2>2. CASE ~StartElection(s)
    <3>1. UNCHANGED <<role, votesRequired, votesAlreadyReceived, elected>>
          /\ role[s] = "Follower"
      BY <1>3, <2>2 DEF FollowerTimesOut, CandidateTimesOut
    <3> QED
      BY <3>1, NoCandidateStep DEF OthersKeepRoles
  <2> QED
    BY <2>1, <2>2
<1>4. CASE LeaderSendsHeartbeat(s)
  BY <1>4, NoCandidateStep DEF LeaderSendsHeartbeat, OthersKeepRoles
<1>5. CASE \E m \in messages : Receive(s, m)
  BY <1>5, ElectionReceives
<1>6. CASE \E value \in Value : LeaderAppends(s, value)
  BY <1>6, NoCandidateStep DEF LeaderAppends, OthersKeepRoles
<1>7. CASE Persisted(s)
  BY <1>7, ElectionPersisted
<1>8. CASE Restart(s)
  <2>1. /\ role' = [role EXCEPT ![s] = "Follower"]
        /\ votesRequired' = [votesRequired EXCEPT ![s] = 0]
        /\ votesAlreadyReceived' = [votesAlreadyReceived EXCEPT ![s] = {}]
        /\ UNCHANGED elected
    BY <1>8 DEF Restart
  <2>2. OthersKeepRoles(s) /\ role'[s] = "Follower"
    BY <1>2, <2>1 DEF OthersKeepRoles
  <2> QED
    BY <2>1, <2>2, NoCandidateStep
<1> QED
  BY <1>3, <1>4, <1>5, <1>6, <1>7, <1>8 DEF Step

(* The inductive invariant about elections, on top of the one about votes.  *)
ElectionInv == Candidates /\ ElectedByMajority

(* The invariant about elections holds initially.                           *)
LEMMA ElectionInvInit == Init => ElectionInv
BY DEF Init, ElectionInv, Candidates, CandidateAt, ElectedByMajority

(* Every step preserves the invariant about elections.                      *)
LEMMA ElectionInvNext ==
  TypeOK /\ VoteInv /\ ElectionInv /\ [Next]_vars => ElectionInv'
<1> SUFFICES ASSUME TypeOK, VoteInv, ElectionInv, [Next]_vars
             PROVE  ElectionInv'
  OBVIOUS
<1>1. CASE Next
  <2>1. PICK s \in Server : Step(s)
    BY <1>1 DEF Next
  <2>2. Candidates /\ ElectedByMajority
    BY DEF ElectionInv
  <2>3. VoteStep(s)
    BY <2>1, VotesStep
  <2>4. ElectionStep(s)
    BY <2>1, <2>2, <2>3, ElectionStepOf
  <2> QED
    BY <2>2, <2>3, <2>4, ElectionStepInv DEF ElectionInv
<1>2. CASE UNCHANGED vars
  BY <1>2
  DEF ElectionInv, Candidates, CandidateAt, ElectedByMajority, Ballot, Majority,
      vars, candidateVars, historyVars
<1> QED
  BY <1>1, <1>2

(* The invariant about elections holds in every reachable state.            *)
LEMMA ElectionInvariance == Spec => []ElectionInv
BY ElectionInvInit, ElectionInvNext, TypeCorrect, VoteInvariance, PTL DEF Spec

(* Two majorities share a server, and that server voted once.               *)
LEMMA OneLeaderPerTerm ==
  ASSUME TypeOK, VotesOnce, ElectedByMajority
  PROVE  ElectionSafety
<1> SUFFICES ASSUME NEW e1 \in elected, NEW e2 \in elected, e1.term = e2.term
             PROVE  e1.server = e2.server
  BY DEF ElectionSafety
<1>1. PICK Q1 \in Majority : \A v \in Q1 : Ballot(v, e1.server, e1.term)
  BY DEF ElectedByMajority
<1>2. PICK Q2 \in Majority : \A v \in Q2 : Ballot(v, e2.server, e2.term)
  BY DEF ElectedByMajority
<1>3. /\ Q1 \subseteq Server /\ Q2 \subseteq Server /\ IsFiniteSet(Server)
      /\ 2 * Cardinality(Q1) > Cardinality(Server)
      /\ 2 * Cardinality(Q2) > Cardinality(Server)
  BY ServerAssumption DEF Majority
<1>4. /\ Cardinality(Q1) \in Nat /\ Cardinality(Q2) \in Nat
      /\ Cardinality(Server) \in Nat
  BY <1>3, FS_Subset, FS_CardinalityType
<1>5. Cardinality(Q1) + Cardinality(Q2) > Cardinality(Server)
  BY <1>3, <1>4
<1>6. Q1 \intersect Q2 # {}
  BY <1>3, <1>5, FS_MajoritiesIntersect
<1>7. PICK v : v \in Q1 /\ v \in Q2
  BY <1>6
<1>8. Ballot(v, e1.server, e1.term) /\ Ballot(v, e2.server, e1.term)
  BY <1>1, <1>2, <1>7
<1> QED
  BY <1>8 DEF Ballot, VotesOnce

(* No two servers become leader in a term.                                  *)
THEOREM ElectionSafetyHolds == Spec => []ElectionSafety
<1>1. TypeOK /\ VoteInv /\ ElectionInv => ElectionSafety
  BY OneLeaderPerTerm DEF VoteInv, ElectionInv
<1> QED
  BY <1>1, TypeCorrect, VoteInvariance, ElectionInvariance, PTL

=============================================================================
