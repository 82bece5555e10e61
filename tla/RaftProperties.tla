--------------------------- MODULE RaftProperties ---------------------------
(***************************************************************************)
(* What the cluster of module Raft promises.                               *)
(***************************************************************************)
EXTENDS Raft, SequencesExt

-----------------------------------------------------------------------------
(* Types *)

State == [currentTerm : Nat, votedFor : Server \union {NoServer}]

Message ==
  [type : {"RequestVote"}, from : Server, to : Server, term : Nat,
   lastLogIndex : Nat, lastLogTerm : Nat]
  \union [type : {"DenyVote", "GrantVote"}, from : Server, to : Server,
          term : Nat]
  \union [type : {"RejectEntries"}, from : Server, to : Server, term : Nat,
          conflictingIndex : Nat]
  \union [type : {"AcceptEntries"}, from : Server, to : Server, term : Nat,
          lastLogIndex : Nat]
  \union [type : {"AppendEntries"}, from : Server, to : Server, term : Nat,
          prevLogIndex : Nat, prevLogTerm : Nat, leaderCommit : Nat,
          entries : Seq(Entry)]

Operation ==
  [kind : {"none", "crashed", "requestVote", "setTerm"}]
  \union [kind : {"grantVote"}, peer : Server]
  \union [kind : {"convert"}, message : Message]
  \union [kind : {"mergeEntries"}, peer : Server, entries : Seq(Entry),
          newerTerm : BOOLEAN]
  \union [kind : {"append"}, value : Value]

PendingEntry == [index : Nat, acceptsRequired : Int]

(* Every variable holds a value of the kind the code gives it.             *)
TypeOK ==
  /\ role \in [Server -> {"Follower", "Candidate", "Leader"}]
  /\ currentTerm \in [Server -> Nat]
  /\ votedFor \in [Server -> Server \union {NoServer}]
  /\ stored \in [Server -> State]
  /\ log \in [Server -> Seq(Entry)]
  /\ storedLog \in [Server -> Seq(Entry)]
  /\ operation \in [Server -> Operation]
  /\ skipTick \in [Server -> BOOLEAN]
  /\ commitIndex \in [Server -> Nat]
  /\ votesRequired \in [Server -> Int]
  /\ votesAlreadyReceived \in [Server -> SUBSET Server]
  /\ nextIndex \in [Server -> [Server -> Nat \ {0}]]
  /\ matchIndex \in [Server -> [Server -> Nat]]
  /\ pendingApplication \in [Server -> Seq(PendingEntry)]
  /\ messages \in SUBSET Message
  /\ elected \in SUBSET [server : Server, term : Nat]
  /\ committed \in SUBSET [index : Nat, entry : Entry]
  /\ restarts \in Nat

-----------------------------------------------------------------------------
(* Elections *)

(* At most one server becomes leader in a term, whatever is lost,          *)
(* duplicated or delayed and whoever crashes: what                         *)
(* src/fuzz/Runner.js verifyElectionSafety() looks for.  It rests on       *)
(* Candidate.handleGrantVote() counting each voter once and on no voter    *)
(* voting twice, not even after a restart.                                 *)
ElectionSafety ==
  \A e1, e2 \in elected : e1.term = e2.term => e1.server = e2.server

(* No server tells another about a term or a vote that it would not        *)
(* remember after a crash: the handlers change State in memory at once but *)
(* send only in the continuation of persistState().                        *)
PersistedBeforeSent ==
  \A m \in messages :
    LET saved == stored[m.from]
    IN  /\ saved.currentTerm >= m.term
        /\ m.type = "GrantVote" /\ saved.currentTerm = m.term =>
             saved.votedFor = m.to

(* The term that is persisted never goes back, and the vote persisted for  *)
(* a term is never withdrawn or given to another server in that term,      *)
(* although handleRequestVote() consults votedFor without looking at which *)
(* term it was for.                                                        *)
StoredVoteKept ==
  [][\A s \in Server :
       \/ stored'[s].currentTerm > stored[s].currentTerm
       \/ /\ stored'[s].currentTerm = stored[s].currentTerm
          /\ stored[s].votedFor \in {NoServer, stored'[s].votedFor}]_vars

-----------------------------------------------------------------------------
(* Logs *)

LogsMatch(l1, l2) ==
  \A i \in 1 .. Min2(Len(l1), Len(l2)) :
    l1[i].term = l2[i].term => SubSeq(l1, 1, i) = SubSeq(l2, 1, i)

(* Two logs with an entry of the same term at the same index are the same  *)
(* up to there, also for the logs that servers would restore after a crash *)
(* and that mergeEntries() cut in memory only: what                        *)
(* src/fuzz/Runner.js verifyLogMatching() looks for.                       *)
LogMatching ==
  \A s, p \in Server :
    /\ LogsMatch(log[s], log[p])
    /\ LogsMatch(log[s], storedLog[p])
    /\ LogsMatch(storedLog[s], storedLog[p])

(* A crash never makes a server forget an entry of its log.  Truncations   *)
(* are not persisted; Log.replace() resolves the conflicts they leave      *)
(* behind so that what it restores starts with the log that was lost.      *)
DurableLog == \A s \in Server : IsPrefix(log[s], storedLog[s])

(* A follower acknowledges entries only once a crash cannot take them      *)
(* back: when handleAppendEntries() sends AcceptEntries, everything up to  *)
(* its lastLogIndex is in the log and persisted.                           *)
AckedIsStored ==
  [][\A m \in messages' \ messages :
       m.type = "AcceptEntries" =>
         /\ Len(log'[m.from]) = m.lastLogIndex
         /\ IsPrefix(log'[m.from], storedLog'[m.from])]_vars

-----------------------------------------------------------------------------
(* Replication and commitment *)

(* The followers that the leader takes to have the entry at an index.      *)
Matched(s, index) == {p \in Peers(s) : matchIndex[s][p] >= index}

(* The followers that acknowledged the leader's log up to an index in the  *)
(* term it leads in: the acceptances they sent, not the leader's account.  *)
AcceptedBy(s, index) ==
  {p \in Peers(s) :
     \E m \in messages : /\ m.type = "AcceptEntries"
                         /\ m.from = p
                         /\ m.to = s
                         /\ m.term = currentTerm[s]
                         /\ m.lastLogIndex >= index}

WithLeaderIsMajority(followers) ==
  2 * (Cardinality(followers) + 1) > Cardinality(Server)

(* No acceptance of an earlier term was sent to the leader.                *)
RepliesAreNew(s) ==
  \A m \in messages :
    m.type = "AcceptEntries" /\ m.to = s => m.term = currentTerm[s]

(* The counter of an entry that waits to be applied is right: each         *)
(* follower that the leader takes to have it is counted once, however      *)
(* often it says so (the comment on Leader.markReplication()), and no      *)
(* counter passes 0, where the comparison with 0 would never let the entry *)
(* through.  For a leader that led before this only holds until it can get *)
(* replies to its earlier leadership: one that acknowledges more than the  *)
(* leader now has makes handleAcceptEntries() skip the count of an entry   *)
(* appended later.                                                         *)
AcceptsCounted ==
  \A s \in Server : role[s] = "Leader" /\ RepliesAreNew(s) =>
    \A i \in DOMAIN pendingApplication[s] :
      LET pending == pendingApplication[s][i]
      IN  /\ pending.acceptsRequired > 0
          /\ pending.acceptsRequired
               = HalfOfPeers - Cardinality(Matched(s, pending.index))

(* A leader commits an entry only when so many followers sent it an        *)
(* acceptance of that entry in its term that, with the leader itself, they *)
(* are more than half of the cluster.  As above it has not led before, or  *)
(* got no reply to that: see CommitsAreAccepted.                           *)
NewCommitsAreAccepted ==
  \A s \in Server :
    role[s] = "Leader" /\ RepliesAreNew(s) /\ commitIndex[s] > 0 =>
      WithLeaderIsMajority(AcceptedBy(s, commitIndex[s]))

(* A follower never commits an entry that no leader committed, although it *)
(* commits against a log it has just truncated and whose new entries are   *)
(* not persisted yet: only a leader's own step adds to what is committed.  *)
OnlyLeadersCommit ==
  [][committed' # committed =>
       \E s \in Server : /\ role[s] = "Leader"
                         /\ commitIndex'[s] > commitIndex[s]]_vars

(* Although committed entries can be lost (StateMachineSafety, below), two *)
(* that were committed at one index in one term are the same, and a log    *)
(* that holds one holds only committed entries before it: no truncation,   *)
(* late message or restart puts another entry in between.                  *)
CommitsMatch ==
  \A c \in committed :
    /\ \A d \in committed :
         d.index = c.index /\ d.entry.term = c.entry.term => d = c
    /\ \A s \in Server :
         /\ c.index <= LastIndex(log[s])
         /\ log[s][c.index].term = c.entry.term
         => \A i \in 1 .. c.index : [index |-> i, entry |-> log[s][i]] \in committed

-----------------------------------------------------------------------------
(* What the repository says and the code does not do *)

(* No two servers commit different entries at an index: what               *)
(* src/fuzz/Runner.js verifyStateMachineSafety() looks for and README.md   *)
(* means by "without losing any data".  It does not hold.                  *)
StateMachineSafety ==
  \A c1, c2 \in committed : c1.index = c2.index => c1.entry = c2.entry

(* Whoever leads, and whatever replies are still in transit to it, an      *)
(* entry is committed only once half of the peers accepted it from this    *)
(* leader (the comment at Leader.js:217-219: "The entry must be replicated *)
(* to the majority of the cluster").  It does not hold, since replies to   *)
(* an earlier leadership are counted.                                      *)
CommitsAreAccepted ==
  \A s \in Server : role[s] = "Leader" /\ Free(s) /\ commitIndex[s] > 0 =>
    WithLeaderIsMajority(AcceptedBy(s, commitIndex[s]))

=============================================================================
