--------------------------- MODULE RaftCommitProofs ---------------------------
(***************************************************************************)
(* Theorems about replication and commitment in module Raft: how a leader  *)
(* counts the followers that accepted an entry, and that only leaders add  *)
(* to what is committed, for every cluster, network and number of crashes. *)
(***************************************************************************)
EXTENDS RaftLogProofs

-----------------------------------------------------------------------------
(* What leaders are told of their own logs *)

(* The entry up to which an update tells a follower what the leader has,   *)
(* or a follower tells the leader that it has the same.                    *)
Reach(m) ==
  IF m.type = "AppendEntries"
  THEN [server |-> m.from, index |-> m.prevLogIndex + Len(m.entries)]
  ELSE [server |-> m.to, index |-> m.lastLogIndex]

(* While that leadership lasts its log is as long.                         *)
InReach(m) ==
  m.type \in {"AppendEntries", "AcceptEntries"} =>
    LET leader == Reach(m).server
    IN  /\ Leadership(leader, m.term) \in elected
        /\ Leads(leader) /\ currentTerm[leader] = m.term =>
             Reach(m).index <= LastIndex(log[leader])

ReachInv == \A m \in messages : InReach(m)

(* A follower accepts no more than an update of the same term told it of.  *)
AcksUpdates(s) ==
  \A a \in messages' \ messages : a.type = "AcceptEntries" =>
    \E m \in Updates : /\ a.to = m.from
                       /\ a.term = m.term
                       /\ a.lastLogIndex <= Reach(m).index

(* A message reaches an index of the log of a server.                      *)
LEMMA ReachTypes ==
  ASSUME NEW m \in Message, m.type \in {"AppendEntries", "AcceptEntries"}
  PROVE  Reach(m).server \in Server /\ Reach(m).index \in Nat
<1>1. m.from \in Server /\ m.to \in Server
  BY MessageFields
<1>2. CASE m.type = "AppendEntries"
  <2>1. m.prevLogIndex \in Nat /\ m.entries \in Seq(Entry)
    BY <1>2, MessageFields
  <2>2. Len(m.entries) \in Nat
    BY <2>1
  <2> QED
    BY <1>1, <1>2, <2>1, <2>2 DEF Reach
<1>3. CASE m.type = "AcceptEntries"
  BY <1>1, <1>3, MessageFields DEF Reach
<1> QED
  BY <1>2, <1>3

(* A step of one server that leads and sends as every step does keeps the  *)
(* leaders' logs that long.                                                *)
LEMMA ReachStepInv ==
  ASSUME TypeInv, TypeOK', LeadInv, LeadInv', ReachInv,
         NEW s \in Server, VoteStep(s), ElectionStep(s), LeadStep(s),
         LogStep(s), AcksUpdates(s)
  PROVE  ReachInv'
<1>1. /\ elected \subseteq elected' /\ messages \subseteq messages'
      /\ \A p \in Server \ {s} :
           /\ role'[p] = role[p] /\ operation'[p] = operation[p]
           /\ currentTerm'[p] = currentTerm[p] /\ log'[p] = log[p]
  BY DEF ElectionStep, OthersKeepRoles, VoteStep, OthersKeepVotes, LogStep
<1>2. /\ LastIndex(log[s]) \in Nat /\ LastIndex(log'[s]) \in Nat
      /\ messages \subseteq Message /\ messages' \subseteq Message
      /\ currentTerm[s] \in Nat
  BY SMTT(40) DEF TypeInv, TypeOK, LastIndex
<1>3. ASSUME NEW m \in messages, m.type \in {"AppendEntries", "AcceptEntries"}
      PROVE  InReach(m)'
  <2> DEFINE leader == Reach(m).server
  <2>1. leader \in Server /\ Reach(m).index \in Nat
    BY <1>2, <1>3, ReachTypes
  <2>2. /\ Leadership(leader, m.term) \in elected
        /\ Leads(leader) /\ currentTerm[leader] = m.term =>
             Reach(m).index <= LastIndex(log[leader])
    BY <1>3 DEF ReachInv, InReach
  <2>3. ASSUME Leads(leader)', currentTerm'[leader] = m.term
        PROVE  Reach(m).index <= LastIndex(log'[leader])
    <3> HIDE DEF leader
    <3>1. CASE leader # s
      BY <1>1, <2>1, <2>2, <2>3, <3>1 DEF Leads, leader
    <3>2. CASE leader = s /\ StaysLeader(s)
      <4>1. Reach(m).index <= LastIndex(log[s])
        BY <2>2, <2>3, <3>2 DEF StaysLeader, leader
      <4>2. LastIndex(log[s]) <= LastIndex(log'[s])
        BY <1>2, <3>2 DEF StaysLeader
      <4> QED
        BY <1>2, <2>1, <3>2, <4>1, <4>2
    <3>3. CASE leader = s /\ WinsElection(s)
      <4>1. Leadership(s, currentTerm[s]) \in elected
        BY <2>2, <2>3, <3>3 DEF WinsElection, leader
      <4>2. currentTerm[s] < currentTerm[s]
        BY <3>3, <4>1
        DEF LeadInv, CandidatesAreNew, WinsElection, Leadership
      <4> QED
        BY <1>2, <4>2
    <3> QED
      BY <2>3, <3>1, <3>2, <3>3
      DEF LeadStep, StepsDown, StandsForElection, Leads, leader
  <2> HIDE DEF leader
  <2> QED
    BY <1>1, <2>2, <2>3 DEF InReach, leader, Reach, Leadership
<1>4. ASSUME NEW m \in messages' \ messages, m.type = "AppendEntries"
      PROVE  InReach(m)'
  <2>1. /\ Leads(s)' /\ m.from = s /\ m.term = currentTerm'[s]
        /\ UpdateOf(log'[s], m)
    BY <1>4 DEF LogStep, SendsUpdates
  <2>2. Leadership(s, m.term) \in elected'
    BY <2>1 DEF LeadInv, LeadersElected, Leadership
  <2>3. m.prevLogIndex + Len(m.entries) <= LastIndex(log'[s])
    <3>1. /\ m.prevLogIndex \in Nat /\ m.prevLogIndex <= LastIndex(log'[s])
          /\ log'[s] \in Seq(Entry)
      BY <1>2, <1>4, <2>1, MessageFields DEF UpdateOf, TypeOK
    <3>2. CASE m.entries = << >>
      BY <3>1, <3>2
    <3>3. CASE m.entries = EntriesSince(log'[s], m.prevLogIndex + 1)
      <4> DEFINE l == log'[s]
                 i == m.prevLogIndex
      <4>1. l \in Seq(Entry) /\ Len(l) \in Nat /\ i \in Nat /\ i <= Len(l)
        BY <3>1 DEF LastIndex
      <4> HIDE DEF l, i
      <4>2. \A j \in i + 1 .. Len(l) : l[j] \in Entry
        BY <4>1, ElementOfSeq
      <4>3. Len(SubSeq(l, i + 1, Len(l)))
              = IF i + 1 <= Len(l) THEN Len(l) - (i + 1) + 1 ELSE 0
        BY <4>1, <4>2, SubSeqProperties
      <4>4. i + Len(SubSeq(l, i + 1, Len(l))) <= Len(l)
        BY <4>1, <4>3
      <4> QED
        BY <3>3, <4>4 DEF EntriesSince, LastIndex, l, i
    <3> QED
      BY <2>1, <3>2, <3>3 DEF UpdateOf
  <2> QED
    BY <1>4, <2>1, <2>2, <2>3 DEF InReach, Reach, Leadership
<1>5. ASSUME NEW a \in messages' \ messages, a.type = "AcceptEntries"
      PROVE  InReach(a)'
  <2>1. PICK m \in Updates : /\ a.to = m.from
                             /\ a.term = m.term
                             /\ a.lastLogIndex <= Reach(m).index
    BY <1>5 DEF AcksUpdates
  <2>2. m \in messages /\ m.type = "AppendEntries"
    BY DEF Updates
  <2>3. InReach(m)'
    BY <1>3, <2>2
  <2>4. /\ Reach(m).server \in Server /\ Reach(m).index \in Nat
        /\ a.lastLogIndex \in Nat
    BY <1>2, <1>5, <2>2, ReachTypes, MessageFields
  <2>5. /\ Reach(a) = [server |-> m.from, index |-> a.lastLogIndex]
        /\ Reach(m).server = m.from
    BY <1>5, <2>1, <2>2 DEF Reach
  <2>6. /\ Leadership(m.from, m.term) \in elected'
        /\ Leads(m.from)' /\ currentTerm'[m.from] = m.term =>
             Reach(m).index <= LastIndex(log'[m.from])
    BY <2>2, <2>3, <2>5 DEF InReach, Leadership, Reach
  <2>7. LastIndex(log'[m.from]) \in Nat
    BY <2>4, <2>5 DEF TypeOK, LastIndex
  <2>8. Leads(m.from)' /\ currentTerm'[m.from] = m.term =>
          a.lastLogIndex <= LastIndex(log'[m.from])
    BY <2>1, <2>4, <2>6, <2>7
  <2> QED
    BY <2>1, <2>5, <2>6, <2>8 DEF InReach, Reach, Leadership
<1>6. ASSUME NEW m \in messages' PROVE InReach(m)'
  <2>1. CASE m.type \notin {"AppendEntries", "AcceptEntries"}
    BY <2>1 DEF InReach
  <2> QED
    BY <1>3, <1>4, <1>5, <2>1
<1> QED
  BY <1>6 DEF ReachInv

(* Every step acknowledges so.                                             *)
LEMMA AcksOfStep ==
  ASSUME TypeInv, LogInv, NEW s \in Server, Step(s)
  PROVE  AcksUpdates(s)
<1>1. SUFFICES ASSUME NEW a \in messages' \ messages, a.type = "AcceptEntries"
               PROVE  \E m \in Updates : /\ a.to = m.from
                                         /\ a.term = m.term
                                         /\ a.lastLogIndex <= Reach(m).index
  BY DEF AcksUpdates
<1>2. /\ TypeOK /\ HeardAt(s) /\ log[s] \in Seq(Entry)
      /\ operation[s] \in Operation
  BY DEF TypeInv, TypeOK, LogInv, Heard
<1>3. CASE PersistedMergeEntries(s)
  <2>1. /\ operation[s].kind = "mergeEntries"
        /\ a = AcceptEntries(s, operation[s].peer, LastIndex(log'[s]))
        /\ log'[s] = Extended(log[s], operation[s].entries)
    BY <1>1, <1>2, <1>3 DEF PersistedMergeEntries, Send, TypeOK
  <2>2. PICK m \in Updates :
          /\ m.from = operation[s].peer
          /\ m.term = currentTerm[s]
          /\ m.prevLogIndex = LastIndex(log[s])
          /\ m.entries = operation[s].entries
    BY <1>2, <2>1 DEF HeardAt
  <2>3. LastIndex(log'[s]) = LastIndex(log[s]) + Len(operation[s].entries)
    <3>1. operation[s].entries \in Seq(Entry)
      BY <1>2, <2>1, OperationFields
    <3> QED
      BY <1>2, <2>1, <3>1, ExtendedLog
  <2>4. /\ a.to = m.from /\ a.term = m.term
        /\ a.lastLogIndex = Reach(m).index
    BY <2>1, <2>2, <2>3 DEF AcceptEntries, Reach, Updates
  <2>5. Reach(m).index \in Nat
    BY <1>2, ReachTypes DEF Updates, TypeOK
  <2> QED
    BY <2>4, <2>5
<1>4. ASSUME NEW m \in Message, NEW commit \in Nat,
             \/ m \in messages
             \/ operation[s].kind = "convert" /\ operation[s].message = m,
             m.type = "AppendEntries", FollowerAcceptsHeartbeat(s, m, commit)
      PROVE  \E u \in Updates : /\ a.to = u.from
                                /\ a.term = u.term
                                /\ a.lastLogIndex <= Reach(u).index
  <2>1. m \in Updates
    BY <1>2, <1>4 DEF HeardAt, Updates
  <2>2. /\ a = AcceptEntries(s, m.from, m.prevLogIndex)
        /\ m.term = currentTerm[s] /\ m.entries = << >>
    BY <1>1, <1>4 DEF FollowerAcceptsHeartbeat, Send
  <2>3. a.to = m.from /\ a.term = m.term /\ a.lastLogIndex = m.prevLogIndex
    BY <2>2 DEF AcceptEntries
  <2>4. m.prevLogIndex \in Nat
    BY <1>4, MessageFields
  <2>5. Reach(m).index = m.prevLogIndex
    BY <1>4, <2>2, <2>4 DEF Reach
  <2> QED
    BY <2>1, <2>3, <2>4, <2>5
<1> QED
  BY <1>1, <1>2, <1>3, <1>4, AckSources

-----------------------------------------------------------------------------
(* Counting acceptances *)

(* The followers that accepted an entry can be counted.                    *)
LEMMA MatchedIsFinite ==
  ASSUME NEW s \in Server, NEW i
  PROVE  /\ IsFiniteSet(Matched(s, i)) /\ Cardinality(Matched(s, i)) \in Nat
         /\ Matched(s, i) \subseteq Peers(s)
<1>1. Matched(s, i) \subseteq Peers(s) /\ Matched(s, i) \subseteq Server
  BY DEF Matched, Peers
<1> QED
  BY <1>1, ServerAssumption, FS_Subset, FS_CardinalityType

(* A follower that now has the log up to index n counts as one more for    *)
(* the entries past what it had.                                           *)
LEMMA OneMoreMatches ==
  ASSUME TypeOK, NEW s \in Server, NEW p \in Peers(s), NEW n \in Nat,
         n > matchIndex[s][p],
         matchIndex' = [matchIndex EXCEPT ![s][p] = n], NEW i \in Nat
  PROVE  Cardinality(Matched(s, i))' =
           Cardinality(Matched(s, i))
             + (IF matchIndex[s][p] < i /\ i <= n THEN 1 ELSE 0)
<1>1. /\ p \in Server /\ matchIndex[s][p] \in Nat
      /\ matchIndex'[s][p] = n
      /\ \A q \in Server \ {p} : matchIndex'[s][q] = matchIndex[s][q]
      /\ \A q \in Server : matchIndex[s][q] \in Nat
  BY DEF TypeOK, Peers
<1>2. CASE matchIndex[s][p] < i /\ i <= n
  <2>1. p \notin Matched(s, i) /\ Matched(s, i)' = Matched(s, i) \union {p}
    <3>1. p \notin Matched(s, i)
      BY <1>1, <1>2 DEF Matched
    <3>2. p \in Matched(s, i)'
      BY <1>1, <1>2 DEF Matched, Peers
    <3>3. \A q \in Peers(s) \ {p} : q \in Matched(s, i)' <=> q \in Matched(s, i)
      BY <1>1 DEF Matched, Peers
    <3>4. Matched(s, i) \subseteq Peers(s) /\ Matched(s, i)' \subseteq Peers(s)
      BY DEF Matched, Peers
    <3> QED
      BY <3>1, <3>2, <3>3, <3>4
  <2>2. Cardinality(Matched(s, i) \union {p}) = Cardinality(Matched(s, i)) + 1
    BY <2>1, MatchedIsFinite, FS_AddElement
  <2> QED
    BY <1>2, <2>1, <2>2
<1>3. CASE ~(matchIndex[s][p] < i /\ i <= n)
  <2>1. p \in Matched(s, i)' <=> p \in Matched(s, i)
    BY <1>1, <1>3 DEF Matched, Peers
  <2>2. \A q \in Peers(s) \ {p} : q \in Matched(s, i)' <=> q \in Matched(s, i)
    BY <1>1 DEF Matched, Peers
  <2>3. Matched(s, i) \subseteq Peers(s) /\ Matched(s, i)' \subseteq Peers(s)
    BY DEF Matched, Peers
  <2>4. Matched(s, i)' = Matched(s, i)
    BY <2>1, <2>2, <2>3
  <2>5. Cardinality(Matched(s, i)) \in Nat
    BY MatchedIsFinite
  <2> QED
    BY <1>3, <2>4, <2>5
<1> QED
  BY <1>2, <1>3

(* Whoever accepted an entry accepted those before it.                     *)
LEMMA MatchedShrinks ==
  ASSUME NEW s \in Server, NEW match, \A q \in Peers(s) : match[q] \in Nat,
         NEW i \in Nat, NEW j \in Nat, i <= j
  PROVE  Cardinality({q \in Peers(s) : match[q] >= j})
           <= Cardinality({q \in Peers(s) : match[q] >= i})
<1> DEFINE upTo(x) == {q \in Peers(s) : match[q] >= x}
<1>1. upTo(j) \subseteq upTo(i)
  OBVIOUS
<1>2. upTo(i) \subseteq Server
  BY DEF Peers
<1> HIDE DEF upTo
<1>3. Cardinality(upTo(j)) <= Cardinality(upTo(i))
  BY <1>1, <1>2, ServerAssumption, FS_Subset
<1> QED
  BY <1>3 DEF upTo

(* The entries a leader commits are the first that need no more followers, *)
(* up to one that needs some.                                              *)
LEMMA ReplicatedPrefix ==
  ASSUME NEW pending \in Seq(PendingEntry)
  PROVE  LET n == ReplicatedCount(pending)
         IN  /\ n \in 0 .. Len(pending)
             /\ \A i \in 1 .. n : pending[i].acceptsRequired = 0
             /\ n < Len(pending) => pending[n + 1].acceptsRequired # 0
<1> DEFINE L == Len(pending)
           S == {i \in DOMAIN pending :
                   \A j \in 1 .. i : pending[j].acceptsRequired = 0}
           T == {i \in 1 .. L : i \notin S}
           n == ReplicatedCount(pending)
<1>1. L \in Nat /\ DOMAIN pending = 1 .. L
  OBVIOUS
<1>2. n = Cardinality(S)
  BY DEF ReplicatedCount
<1> HIDE DEF n
<1>3. CASE T = {}
  <2>1. S = 1 .. L
    BY <1>1, <1>3
  <2>2. n = L
    <3> HIDE DEF S
    <3> QED
      BY <1>1, <1>2, <2>1, FS_Interval, SMTT(40)
  <2>3. \A i \in 1 .. L : pending[i].acceptsRequired = 0
    BY <1>1, <2>1
  <2> QED
    BY <1>1, <2>2, <2>3 DEF n
<1>4. CASE T # {}
  <2>1. T \subseteq Nat
    BY <1>1
  <2>2. PICK k \in T : \A i \in T : k <= i
    <3> HIDE DEF T
    <3> QED
      BY <1>4, <2>1, LeastNumber
  <2>3. k \in 1 .. L /\ k \notin S
    BY <2>2
  <2>4. ASSUME NEW i \in 1 .. k - 1 PROVE i \in S
    <3>1. i \in 1 .. L /\ ~(k <= i)
      BY <1>1, <2>3
    <3> QED
      BY <2>2, <3>1
  <2>5. ASSUME NEW i \in S PROVE i \in 1 .. k - 1
    <3>1. i \in 1 .. L /\ \A j \in 1 .. i : pending[j].acceptsRequired = 0
      BY <1>1
    <3>2. CASE k <= i
      <4>1. \A j \in 1 .. k : j \in 1 .. i
        BY <2>3, <3>1, <3>2
      <4> QED
        BY <1>1, <2>3, <3>1, <4>1
    <3> QED
      BY <1>1, <2>3, <3>1, <3>2
  <2>6. S = 1 .. k - 1
    BY <2>4, <2>5
  <2>7. n = k - 1
    <3>1. Cardinality(1 .. k - 1) = k - 1
      BY <2>3, FS_Interval
    <3> QED
      BY <1>2, <2>6, <3>1
  <2>8. \A i \in 1 .. k - 1 : pending[i].acceptsRequired = 0
    <3> TAKE i \in 1 .. k - 1
    <3>1. i \in S /\ i \in 1 .. i
      BY <2>4
    <3> QED
      BY <3>1
  <2>9. pending[k].acceptsRequired # 0
    <3>1. ASSUME pending[k].acceptsRequired = 0
          PROVE  \A j \in 1 .. k : pending[j].acceptsRequired = 0
      <4> TAKE j \in 1 .. k
      <4>1. j = k \/ j \in 1 .. k - 1
        BY <2>3
      <4> QED
        BY <2>8, <3>1, <4>1
    <3> QED
      BY <1>1, <2>3, <3>1
  <2>10. n \in 0 .. L /\ n + 1 = k
    BY <1>1, <2>3, <2>7
  <2> HIDE DEF L, S, T
  <2> QED
    BY <2>7, <2>8, <2>9, <2>10 DEF n, L
<1> QED
  BY <1>3, <1>4

-----------------------------------------------------------------------------
(* The inductive invariant about counting *)

(* What a leader assumes of a follower: it never looks back at what was     *)
(* acknowledged, and looks past the end of its own log only where that is  *)
(* what was acknowledged.                                                  *)
TracksFollower(s, p) ==
  /\ matchIndex[s][p] < nextIndex[s][p]
  /\ \/ nextIndex[s][p] <= LastIndex(log[s]) + 1
     \/ nextIndex[s][p] = matchIndex[s][p] + 1

(* The entries that wait are past those committed, in their order; no      *)
(* follower is between having an entry and not having it, and no more      *)
(* acceptances were counted than there are.                                *)
WaitsInOrder(s) ==
  \A i, j \in DOMAIN pendingApplication[s] :
    i < j => pendingApplication[s][i].index < pendingApplication[s][j].index

WaitingCounted(s) ==
  \A i \in DOMAIN pendingApplication[s] :
    LET waiting == pendingApplication[s][i]
    IN  /\ waiting.index > commitIndex[s]
        /\ \A p \in Peers(s) : \/ waiting.index <= matchIndex[s][p]
                               \/ waiting.index >= nextIndex[s][p]
        /\ HalfOfPeers - waiting.acceptsRequired
             <= Cardinality(Matched(s, waiting.index))

LeaderCounts(s) ==
  /\ HalfOfPeers > 0
  /\ commitIndex[s] <= LastIndex(log[s])
  /\ commitIndex[s] > 0 =>
       HalfOfPeers <= Cardinality(Matched(s, commitIndex[s]))
  /\ \A p \in Peers(s) : TracksFollower(s, p)
  /\ WaitsInOrder(s)
  /\ WaitingCounted(s)

CountsAt(s) ==
  /\ role[s] = "Leader" => LeaderCounts(s)
  /\ role[s] # "Leader" => matchIndex[s] = [p \in Server |-> 0]
  /\ role[s] = "Candidate" => commitIndex[s] = 0

(* Without replies to an earlier leadership the counts are exact.          *)
ExactlyCounted(s) ==
  /\ \A p \in Peers(s) : matchIndex[s][p] <= LastIndex(log[s])
  /\ \A i \in DOMAIN pendingApplication[s] :
       LET waiting == pendingApplication[s][i]
       IN  /\ waiting.acceptsRequired > 0
           /\ waiting.acceptsRequired
                = HalfOfPeers - Cardinality(Matched(s, waiting.index))

ExactAt(s) == role[s] = "Leader" /\ RepliesAreNew(s) => ExactlyCounted(s)

CountInv == \A s \in Server : CountsAt(s) /\ ExactAt(s)

(* Behind what a leader believes is a reply that said so, to this or to an *)
(* earlier leadership of its own.                                          *)
MatchesReply(s) ==
  role[s] = "Leader" =>
    \A p \in Peers(s) : matchIndex[s][p] > 0 =>
      \E m \in messages : /\ m.type = "AcceptEntries"
                          /\ m.from = p
                          /\ m.to = s
                          /\ m.lastLogIndex = matchIndex[s][p]

MatchesReplies == \A s \in Server : MatchesReply(s)

(* Reading the counts of a leader.                                         *)
LEMMA CountTypes ==
  ASSUME TypeInv, NEW s \in Server
  PROVE  /\ LastIndex(log[s]) \in Nat
         /\ commitIndex[s] \in Nat
         /\ HalfOfPeers \in Nat
         /\ \A p \in Peers(s) : /\ p \in Server
                                /\ nextIndex[s][p] \in Nat \ {0}
                                /\ matchIndex[s][p] \in Nat
         /\ pendingApplication[s] \in Seq(PendingEntry)
         /\ Len(pendingApplication[s]) \in Nat
         /\ DOMAIN pendingApplication[s] = 1 .. Len(pendingApplication[s])
         /\ \A i \in DOMAIN pendingApplication[s] :
              /\ pendingApplication[s][i] \in PendingEntry
              /\ pendingApplication[s][i].index \in 1 .. LastIndex(log[s])
              /\ pendingApplication[s][i].index \in Nat
              /\ pendingApplication[s][i].acceptsRequired \in Int
<1>1. /\ LastIndex(log[s]) \in Nat
      /\ commitIndex[s] \in Nat
      /\ nextIndex[s] \in [Server -> Nat \ {0}]
      /\ matchIndex[s] \in [Server -> Nat]
      /\ pendingApplication[s] \in Seq(PendingEntry)
  BY ServerTypes DEF TypeInv
<1>2. /\ Len(pendingApplication[s]) \in Nat
      /\ DOMAIN pendingApplication[s] = 1 .. Len(pendingApplication[s])
      /\ \A i \in DOMAIN pendingApplication[s] :
           pendingApplication[s][i] \in PendingEntry
  BY <1>1, ElementOfSeq
<1>3. \A i \in DOMAIN pendingApplication[s] :
        pendingApplication[s][i].index \in 1 .. LastIndex(log[s])
  BY DEF TypeInv, PendingInLog, PendingInLogAt
<1>4. \A e \in PendingEntry : e.index \in Nat /\ e.acceptsRequired \in Int
  BY DEF PendingEntry
<1> QED
  BY <1>1, <1>2, <1>3, <1>4, HalfOfPeersType DEF Peers

(* A leader counts a reply: the follower has the log up to `end`.           *)
Counts(s, p, end) ==
  /\ end >= nextIndex[s][p]
  /\ MarkReplication(s, nextIndex[s][p], end)
  /\ nextIndex' = [nextIndex EXCEPT ![s][p] = end + 1]
  /\ matchIndex' = [matchIndex EXCEPT ![s][p] = end]

(* The counters of the entries that the reply is about go down by one, as  *)
(* the followers that accepted them go up by one; those at the head of     *)
(* which none is missing any more are committed.                           *)
LEMMA ReplyCounted ==
  ASSUME TypeInv, NEW s \in Server, LeaderCounts(s), NEW p \in Peers(s),
         NEW end \in Nat, Counts(s, p, end)
  PROVE  LET old    == pendingApplication[s]
             marked == Marked(old, nextIndex[s][p], end)
             n      == ReplicatedCount(marked)
         IN  /\ n \in 0 .. Len(old)
             /\ \A i \in 1 .. n : marked[i].acceptsRequired = 0
             /\ n < Len(old) => marked[n + 1].acceptsRequired # 0
             /\ \A i \in 1 .. Len(old) :
                  /\ marked[i].index = old[i].index
                  /\ marked[i].acceptsRequired \in Int
                  /\ marked[i].acceptsRequired >= old[i].acceptsRequired - 1
                  /\ \A x \in Nat : x = old[i].index =>
                       Cardinality(Matched(s, x))' =
                         Cardinality(Matched(s, x))
                           + old[i].acceptsRequired - marked[i].acceptsRequired
             /\ Len(pendingApplication'[s]) = Len(old) - n
             /\ DOMAIN pendingApplication'[s] = 1 .. Len(old) - n
             /\ \A i \in 1 .. Len(old) - n :
                  pendingApplication'[s][i] = marked[n + i]
             /\ commitIndex'[s] = IF n = 0 THEN commitIndex[s] ELSE old[n].index
             /\ IF n = 0 THEN UNCHANGED committed
                         ELSE Commit(log[s], commitIndex'[s])
<1> DEFINE old    == pendingApplication[s]
           start  == nextIndex[s][p]
           marked == Marked(old, start, end)
           n      == ReplicatedCount(marked)
           rest   == SubSeq(marked, n + 1, Len(marked))
<1>1. /\ old \in Seq(PendingEntry) /\ Len(old) \in Nat
      /\ DOMAIN old = 1 .. Len(old)
      /\ \A i \in 1 .. Len(old) : /\ old[i] \in PendingEntry
                                  /\ old[i].index \in Nat
                                  /\ old[i].acceptsRequired \in Int
      /\ start \in Nat /\ matchIndex[s][p] \in Nat
  BY CountTypes
<1>2. \A i \in 1 .. Len(old) :
        /\ matchIndex[s][p] < start
        /\ old[i].index <= matchIndex[s][p] \/ old[i].index >= start
  BY <1>1 DEF LeaderCounts, TracksFollower, WaitingCounted
<1>3. /\ pendingApplication' = [pendingApplication EXCEPT ![s] = rest]
      /\ commitIndex' = [commitIndex EXCEPT
           ![s] = IF n = 0 THEN commitIndex[s] ELSE marked[n].index]
      /\ IF n = 0 THEN UNCHANGED committed
                  ELSE Commit(log[s], IF n = 0 THEN commitIndex[s]
                                               ELSE marked[n].index)
      /\ end >= start
      /\ matchIndex' = [matchIndex EXCEPT ![s][p] = end]
  BY DEF Counts, MarkReplication
<1>4. /\ pendingApplication'[s] = rest
      /\ commitIndex'[s] = IF n = 0 THEN commitIndex[s] ELSE marked[n].index
  <2> HIDE DEF rest, n, marked
  <2> QED
    BY <1>3 DEF TypeInv, TypeOK
<1> HIDE DEF old, start
<1>5. /\ marked \in Seq(PendingEntry) /\ Len(marked) = Len(old)
      /\ \A i \in 1 .. Len(old) : marked[i].index = old[i].index
  <2>1. 0 \in 0 .. Len(old)
    BY <1>1
  <2> QED
    BY <1>1, <2>1, MarkedTypes
<1>6. \A i \in 1 .. Len(old) :
        marked[i].acceptsRequired =
          IF start <= old[i].index /\ old[i].index <= end
          THEN old[i].acceptsRequired - 1 ELSE old[i].acceptsRequired
  BY <1>1 DEF Marked, PendingEntry
<1> HIDE DEF marked
<1>7. /\ n \in 0 .. Len(old)
      /\ \A i \in 1 .. n : marked[i].acceptsRequired = 0
      /\ n < Len(old) => marked[n + 1].acceptsRequired # 0
  BY <1>5, ReplicatedPrefix
<1> HIDE DEF n
<1>8. /\ rest \in Seq(PendingEntry) /\ Len(rest) = Len(old) - n
      /\ \A i \in 1 .. Len(rest) : rest[i] = marked[n + i]
  BY <1>5, <1>7, TailOfSeq, SMTT(40)
<1>9. ASSUME NEW i \in 1 .. Len(old)
      PROVE  /\ marked[i].acceptsRequired \in Int
             /\ marked[i].acceptsRequired >= old[i].acceptsRequired - 1
             /\ \A x \in Nat : x = old[i].index =>
                  Cardinality(Matched(s, x))' =
                    Cardinality(Matched(s, x))
                      + old[i].acceptsRequired - marked[i].acceptsRequired
  <2>1. /\ marked[i].acceptsRequired \in Int
        /\ marked[i].acceptsRequired >= old[i].acceptsRequired - 1
    BY <1>1, <1>6
  <2>2. ASSUME NEW x \in Nat, x = old[i].index
        PROVE  Cardinality(Matched(s, x))' =
                 Cardinality(Matched(s, x))
                   + old[i].acceptsRequired - marked[i].acceptsRequired
    <3>1. end > matchIndex[s][p]
      BY <1>1, <1>2, <1>3
    <3>2. Cardinality(Matched(s, x))' =
            Cardinality(Matched(s, x))
              + (IF matchIndex[s][p] < x /\ x <= end THEN 1 ELSE 0)
      BY <1>3, <3>1, OneMoreMatches DEF TypeInv
    <3>3. Cardinality(Matched(s, x)) \in Nat
      BY MatchedIsFinite
    <3>4. matchIndex[s][p] < x <=> start <= x
      BY <1>1, <1>2, <2>2
    <3>5. marked[i].acceptsRequired =
            IF matchIndex[s][p] < x /\ x <= end
            THEN old[i].acceptsRequired - 1 ELSE old[i].acceptsRequired
      BY <1>6, <2>2, <3>4
    <3> QED
      BY <1>1, <3>2, <3>3, <3>5
  <2> QED
    BY <2>1, <2>2
<1>10. /\ Len(pendingApplication'[s]) = Len(old) - n
       /\ DOMAIN pendingApplication'[s] = 1 .. Len(old) - n
       /\ \A i \in 1 .. Len(old) - n : pendingApplication'[s][i] = marked[n + i]
  <2> HIDE DEF rest
  <2>1. DOMAIN rest = 1 .. Len(rest)
    BY <1>8
  <2> QED
    BY <1>4, <1>8, <2>1
<1>11. /\ commitIndex'[s] = IF n = 0 THEN commitIndex[s] ELSE old[n].index
       /\ IF n = 0 THEN UNCHANGED committed
                   ELSE Commit(log[s], commitIndex'[s])
  <2>1. n # 0 => n \in 1 .. Len(old)
    BY <1>1, <1>7
  <2> QED
    BY <1>3, <1>4, <1>5, <2>1
<1> QED
  BY <1>5, <1>7, <1>9, <1>10, <1>11 DEF n, marked, old, start

(* So the counts stay in order.                                            *)
LEMMA CountsKept ==
  ASSUME TypeInv, TypeInv', NEW s \in Server, LeaderCounts(s),
         NEW p \in Peers(s), NEW end \in Nat, Counts(s, p, end),
         log'[s] = log[s]
  PROVE  /\ LeaderCounts(s)'
         /\ \/ UNCHANGED committed /\ commitIndex'[s] = commitIndex[s]
            \/ /\ commitIndex'[s] > commitIndex[s]
               /\ Commit(log[s], commitIndex'[s])
<1> DEFINE old    == pendingApplication[s]
           marked == Marked(old, nextIndex[s][p], end)
           n      == ReplicatedCount(marked)
<1>1. /\ n \in 0 .. Len(old)
      /\ \A i \in 1 .. n : marked[i].acceptsRequired = 0
      /\ \A i \in 1 .. Len(old) :
           /\ marked[i].index = old[i].index
           /\ marked[i].acceptsRequired \in Int
           /\ \A x \in Nat : x = old[i].index =>
                Cardinality(Matched(s, x))' =
                  Cardinality(Matched(s, x))
                    + old[i].acceptsRequired - marked[i].acceptsRequired
      /\ DOMAIN pendingApplication'[s] = 1 .. Len(old) - n
      /\ \A i \in 1 .. Len(old) - n : pendingApplication'[s][i] = marked[n + i]
      /\ commitIndex'[s] = IF n = 0 THEN commitIndex[s] ELSE old[n].index
      /\ IF n = 0 THEN UNCHANGED committed
                  ELSE Commit(log[s], commitIndex'[s])
  BY ReplyCounted, ZenonT(60)
<1>2. /\ LastIndex(log[s]) \in Nat /\ LastIndex(log'[s]) = LastIndex(log[s])
      /\ commitIndex[s] \in Nat /\ HalfOfPeers \in Nat
      /\ \A q \in Peers(s) : /\ q \in Server
                             /\ nextIndex[s][q] \in Nat \ {0}
                             /\ matchIndex[s][q] \in Nat
      /\ old \in Seq(PendingEntry) /\ Len(old) \in Nat
      /\ DOMAIN old = 1 .. Len(old)
      /\ \A i \in 1 .. Len(old) : /\ old[i].index \in 1 .. LastIndex(log[s])
                                  /\ old[i].index \in Nat
                                  /\ old[i].acceptsRequired \in Int
  BY CountTypes
<1>3. /\ HalfOfPeers > 0
      /\ commitIndex[s] <= LastIndex(log[s])
      /\ commitIndex[s] > 0 =>
           HalfOfPeers <= Cardinality(Matched(s, commitIndex[s]))
      /\ \A q \in Peers(s) : TracksFollower(s, q)
      /\ \A i, j \in 1 .. Len(old) : i < j => old[i].index < old[j].index
      /\ \A i \in 1 .. Len(old) :
           /\ old[i].index > commitIndex[s]
           /\ \A q \in Peers(s) : \/ old[i].index <= matchIndex[s][q]
                                  \/ old[i].index >= nextIndex[s][q]
           /\ HalfOfPeers - old[i].acceptsRequired
                <= Cardinality(Matched(s, old[i].index))
  BY <1>2 DEF LeaderCounts, WaitsInOrder, WaitingCounted
<1>4. /\ end >= nextIndex[s][p]
      /\ matchIndex' = [matchIndex EXCEPT ![s][p] = end]
      /\ matchIndex'[s][p] = end /\ nextIndex'[s][p] = end + 1
      /\ \A q \in Peers(s) \ {p} : /\ matchIndex'[s][q] = matchIndex[s][q]
                                   /\ nextIndex'[s][q] = nextIndex[s][q]
      /\ end > matchIndex[s][p]
  <2>1. /\ end >= nextIndex[s][p]
        /\ nextIndex' = [nextIndex EXCEPT ![s][p] = end + 1]
        /\ matchIndex' = [matchIndex EXCEPT ![s][p] = end]
    BY DEF Counts
  <2>2. end > matchIndex[s][p]
    BY <1>2, <1>3, <2>1 DEF TracksFollower
  <2> QED
    BY <1>2, <2>1, <2>2 DEF TypeInv, TypeOK
<1> HIDE DEF old, n, marked
<1>5. \A q \in Peers(s) : TracksFollower(s, q)'
  <2> TAKE q \in Peers(s)
  <2>1. CASE q = p
    BY <1>4, <2>1 DEF TracksFollower
  <2>2. CASE q # p
    BY <1>2, <1>3, <1>4, <2>2 DEF TracksFollower
  <2> QED
    BY <2>1, <2>2
<1>6. WaitsInOrder(s)'
  <2>1. ASSUME NEW i \in 1 .. Len(old) - n, NEW j \in 1 .. Len(old) - n, i < j
        PROVE  pendingApplication'[s][i].index < pendingApplication'[s][j].index
    <3>1. /\ n + i \in 1 .. Len(old) /\ n + j \in 1 .. Len(old)
          /\ n + i < n + j
      BY <1>1, <1>2, <2>1
    <3> QED
      BY <1>1, <1>3, <3>1
  <2> QED
    BY <1>1, <2>1 DEF WaitsInOrder
<1>7. /\ commitIndex'[s] \in Nat
      /\ n # 0 => n \in 1 .. Len(old) /\ commitIndex'[s] = old[n].index
      /\ n = 0 => commitIndex'[s] = commitIndex[s]
  BY <1>1, <1>2
<1>8. \/ UNCHANGED committed /\ commitIndex'[s] = commitIndex[s]
      \/ commitIndex'[s] > commitIndex[s] /\ Commit(log[s], commitIndex'[s])
  BY <1>1, <1>3, <1>7
<1>9. ASSUME NEW x \in Nat
      PROVE  /\ Cardinality(Matched(s, x))' >= Cardinality(Matched(s, x))
             /\ Cardinality(Matched(s, x))' \in Nat
  <2>1. Cardinality(Matched(s, x))' =
          Cardinality(Matched(s, x))
            + (IF matchIndex[s][p] < x /\ x <= end THEN 1 ELSE 0)
    BY <1>4, OneMoreMatches DEF TypeInv
  <2>2. Cardinality(Matched(s, x)) \in Nat
    BY MatchedIsFinite
  <2> QED
    BY <2>1, <2>2
<1>10. ASSUME NEW i \in 1 .. Len(old), NEW x \in Nat, x = old[i].index
       PROVE  HalfOfPeers - marked[i].acceptsRequired
                <= Cardinality(Matched(s, x))'
  <2>1. Cardinality(Matched(s, x)) \in Nat
    BY MatchedIsFinite
  <2>2. HalfOfPeers - old[i].acceptsRequired <= Cardinality(Matched(s, x))
    BY <1>3, <1>10
  <2>3. Cardinality(Matched(s, x))' =
          Cardinality(Matched(s, x))
            + old[i].acceptsRequired - marked[i].acceptsRequired
    BY <1>1, <1>10
  <2> QED
    BY <1>1, <1>2, <2>1, <2>2, <2>3, SMTT(40)
<1>11. ASSUME NEW x \in Nat, x = commitIndex'[s], x > 0
       PROVE  HalfOfPeers <= Cardinality(Matched(s, x))'
  <2>1. CASE n = 0
    <3>1. HalfOfPeers <= Cardinality(Matched(s, x))
      BY <1>3, <1>7, <1>11, <2>1
    <3>2. Cardinality(Matched(s, x)) \in Nat
      BY MatchedIsFinite
    <3> QED
      BY <1>2, <1>9, <3>1, <3>2
  <2>2. CASE n # 0
    <3>1. marked[n].acceptsRequired = 0 /\ n \in 1 .. Len(old) /\ x = old[n].index
      BY <1>1, <1>7, <1>11, <2>2
    <3>2. HalfOfPeers - marked[n].acceptsRequired <= Cardinality(Matched(s, x))'
      BY <1>10, <3>1
    <3> QED
      BY <1>2, <3>1, <3>2
  <2> QED
    BY <2>1, <2>2
<1>12. ASSUME NEW i \in 1 .. Len(old) - n, NEW x \in Nat,
              x = pendingApplication'[s][i].index
       PROVE  /\ x > commitIndex'[s]
              /\ \A q \in Peers(s) : \/ x <= matchIndex'[s][q]
                                     \/ x >= nextIndex'[s][q]
              /\ HalfOfPeers - pendingApplication'[s][i].acceptsRequired
                   <= Cardinality(Matched(s, x))'
  <2> DEFINE j == n + i
  <2>1. j \in 1 .. Len(old) /\ n < j
    BY <1>1, <1>2
  <2>2. pendingApplication'[s][i] = marked[j] /\ x = old[j].index
    BY <1>1, <1>12, <2>1
  <2> HIDE DEF j
  <2>3. x > commitIndex'[s]
    <3>1. n # 0 => old[n].index < old[j].index
      BY <1>3, <1>7, <2>1
    <3> QED
      BY <1>2, <1>3, <1>7, <2>1, <2>2, <3>1
  <2>4. ASSUME NEW q \in Peers(s)
        PROVE  x <= matchIndex'[s][q] \/ x >= nextIndex'[s][q]
    <3>1. x <= matchIndex[s][q] \/ x >= nextIndex[s][q]
      BY <1>3, <2>1, <2>2
    <3>2. CASE q = p
      BY <1>4, <3>2
    <3>3. CASE q # p
      BY <1>4, <3>1, <3>3
    <3> QED
      BY <3>2, <3>3
  <2> QED
    BY <1>10, <2>1, <2>2, <2>3, <2>4
<1>13. WaitingCounted(s)'
  <2>1. ASSUME NEW i \in DOMAIN pendingApplication'[s]
        PROVE  /\ i \in 1 .. Len(old) - n
               /\ pendingApplication'[s][i].index \in Nat
    <3>1. i \in 1 .. Len(old) - n
      BY <1>1
    <3>2. n + i \in 1 .. Len(old)
      BY <1>1, <1>2, <3>1
    <3> QED
      BY <1>1, <1>2, <3>1, <3>2
  <2> QED
    BY <1>12, <2>1 DEF WaitingCounted, Matched
<1>14. commitIndex'[s] <= LastIndex(log'[s])
  BY <1>2, <1>3, <1>7
<1>15. commitIndex'[s] > 0 =>
         HalfOfPeers <= Cardinality(Matched(s, commitIndex[s]))'
  BY <1>7, <1>11 DEF Matched
<1> QED
  BY <1>3, <1>5, <1>6, <1>8, <1>13, <1>14, <1>15 DEF LeaderCounts, HalfOfPeers

(* And they stay exact, when the follower has no more than the leader: an  *)
(* entry of which nobody is missing is at the head, since whoever accepted *)
(* it accepted those before it.                                            *)
LEMMA ExactCountsKept ==
  ASSUME TypeInv, TypeInv', NEW s \in Server, LeaderCounts(s), ExactlyCounted(s),
         NEW p \in Peers(s), NEW end \in Nat, end <= LastIndex(log[s]),
         Counts(s, p, end), log'[s] = log[s]
  PROVE  ExactlyCounted(s)'
<1> DEFINE old    == pendingApplication[s]
           marked == Marked(old, nextIndex[s][p], end)
           n      == ReplicatedCount(marked)
<1>1. /\ n \in 0 .. Len(old)
      /\ n < Len(old) => marked[n + 1].acceptsRequired # 0
      /\ \A i \in 1 .. Len(old) :
           /\ marked[i].index = old[i].index
           /\ marked[i].acceptsRequired \in Int
           /\ marked[i].acceptsRequired >= old[i].acceptsRequired - 1
           /\ \A x \in Nat : x = old[i].index =>
                Cardinality(Matched(s, x))' =
                  Cardinality(Matched(s, x))
                    + old[i].acceptsRequired - marked[i].acceptsRequired
      /\ DOMAIN pendingApplication'[s] = 1 .. Len(old) - n
      /\ \A i \in 1 .. Len(old) - n : pendingApplication'[s][i] = marked[n + i]
  BY ReplyCounted, ZenonT(60)
<1>2. /\ LastIndex(log'[s]) = LastIndex(log[s]) /\ HalfOfPeers \in Nat
      /\ Len(old) \in Nat /\ DOMAIN old = 1 .. Len(old)
      /\ \A i \in 1 .. Len(old) : /\ old[i].index \in Nat
                                  /\ old[i].acceptsRequired \in Int
  BY CountTypes
<1>3. /\ \A q \in Peers(s) : matchIndex[s][q] <= LastIndex(log[s])
      /\ \A i \in 1 .. Len(old) :
           /\ old[i].acceptsRequired > 0
           /\ old[i].acceptsRequired
                = HalfOfPeers - Cardinality(Matched(s, old[i].index))
      /\ \A i, j \in 1 .. Len(old) : i < j => old[i].index < old[j].index
  BY <1>2 DEF ExactlyCounted, LeaderCounts, WaitsInOrder
<1> HIDE DEF old, n, marked
<1>4. matchIndex' = [matchIndex EXCEPT ![s][p] = end]
      /\ \A q \in Peers(s) : matchIndex'[s][q] \in Nat
  BY DEF Counts, TypeInv, TypeOK, Peers
<1>5. \A q \in Peers(s) : matchIndex'[s][q] <= LastIndex(log'[s])
  BY <1>2, <1>3, <1>4 DEF TypeInv, TypeOK, Peers
<1>6. ASSUME NEW i \in 1 .. Len(old), NEW x \in Nat, x = old[i].index
      PROVE  /\ marked[i].acceptsRequired = HalfOfPeers - Cardinality(Matched(s, x))'
             /\ marked[i].acceptsRequired >= 0
             /\ Cardinality(Matched(s, x))' \in Int
  <2>1. Cardinality(Matched(s, x)) \in Nat
    BY MatchedIsFinite
  <2>2. old[i].acceptsRequired = HalfOfPeers - Cardinality(Matched(s, x))
    BY <1>3, <1>6
  <2>3. Cardinality(Matched(s, x))' =
          Cardinality(Matched(s, x))
            + old[i].acceptsRequired - marked[i].acceptsRequired
    BY <1>1, <1>6
  <2>4. /\ old[i].acceptsRequired > 0
        /\ old[i].acceptsRequired \in Int
        /\ marked[i].acceptsRequired \in Int
        /\ marked[i].acceptsRequired >= old[i].acceptsRequired - 1
        /\ HalfOfPeers \in Int
    BY <1>1, <1>2, <1>3
  <2>5. \A half, had, has, wanted, wants \in Int :
          /\ wanted = half - had /\ has = had + wanted - wants
          /\ wanted > 0 /\ wants >= wanted - 1
          => wants = half - has /\ wants >= 0
    OBVIOUS
  <2>6. Cardinality(Matched(s, x)) \in Int /\ Cardinality(Matched(s, x))' \in Int
    BY <2>1, <2>3, <2>4
  <2> QED
    BY <2>2, <2>3, <2>4, <2>5, <2>6
<1>7. ASSUME NEW j \in 1 .. Len(old), n < j
      PROVE  marked[j].acceptsRequired > 0
  <2> DEFINE k == n + 1
  <2>1. k \in 1 .. Len(old) /\ k <= j /\ n < Len(old)
    BY <1>1, <1>2, <1>7
  <2>2. marked[k].acceptsRequired # 0
    BY <1>1, <2>1
  <2> HIDE DEF k
  <2>3. PICK x \in Nat : x = old[k].index
    BY <1>2, <2>1
  <2>4. PICK y \in Nat : y = old[j].index
    BY <1>2
  <2>5. x <= y
    <3>1. CASE k = j
      BY <2>3, <2>4, <3>1
    <3>2. CASE k # j
      <4>1. k < j
        BY <1>2, <2>1, <3>2
      <4> QED
        BY <1>3, <2>1, <2>3, <2>4, <4>1
    <3> QED
      BY <3>1, <3>2
  <2>6. Cardinality(Matched(s, y))' <= Cardinality(Matched(s, x))'
    BY <1>4, <2>5, MatchedShrinks DEF Matched
  <2>7. /\ marked[k].acceptsRequired = HalfOfPeers - Cardinality(Matched(s, x))'
        /\ marked[k].acceptsRequired >= 0
        /\ Cardinality(Matched(s, x))' \in Int
    BY <1>6, <2>1, <2>3
  <2>8. /\ marked[j].acceptsRequired = HalfOfPeers - Cardinality(Matched(s, y))'
        /\ marked[j].acceptsRequired >= 0
        /\ Cardinality(Matched(s, y))' \in Int
    BY <1>6, <2>4
  <2>9. /\ marked[k].acceptsRequired \in Int
        /\ marked[j].acceptsRequired \in Int
        /\ HalfOfPeers \in Nat
    BY <1>1, <1>2, <2>1
  <2> QED
    BY <2>2, <2>6, <2>7, <2>8, <2>9
<1>8. ASSUME NEW i \in 1 .. Len(old) - n, NEW x \in Nat,
             x = pendingApplication'[s][i].index
      PROVE  /\ pendingApplication'[s][i].acceptsRequired > 0
             /\ pendingApplication'[s][i].acceptsRequired
                  = HalfOfPeers - Cardinality(Matched(s, x))'
  <2>1. n + i \in 1 .. Len(old) /\ n < n + i
    BY <1>1, <1>2
  <2>2. pendingApplication'[s][i] = marked[n + i] /\ x = old[n + i].index
    BY <1>1, <1>8, <2>1
  <2> QED
    BY <1>6, <1>7, <2>1, <2>2
<1>9. ASSUME NEW i \in DOMAIN pendingApplication'[s]
      PROVE  /\ i \in 1 .. Len(old) - n
             /\ pendingApplication'[s][i].index \in Nat
  <2>1. i \in 1 .. Len(old) - n
    BY <1>1
  <2>2. n + i \in 1 .. Len(old)
    BY <1>1, <1>2, <2>1
  <2> QED
    BY <1>1, <1>2, <2>1, <2>2
<1> QED
  BY <1>5, <1>8, <1>9 DEF ExactlyCounted, Matched, HalfOfPeers

(* What append() adds to the entries that wait.                            *)
Waits(s) ==
  pendingApplication'[s] =
    Append(pendingApplication[s],
           [index |-> LastIndex(log[s]) + 1, acceptsRequired |-> HalfOfPeers])

LEMMA AppendKeepsCounts ==
  ASSUME TypeInv, TypeInv', NEW s \in Server, LeaderCounts(s), Waits(s),
         LastIndex(log'[s]) = LastIndex(log[s]) + 1,
         matchIndex'[s] = matchIndex[s], nextIndex'[s] = nextIndex[s],
         commitIndex'[s] = commitIndex[s]
  PROVE  /\ LeaderCounts(s)'
         /\ ExactlyCounted(s) => ExactlyCounted(s)'
<1> DEFINE old  == pendingApplication[s]
           last == LastIndex(log[s])
           new  == [index |-> last + 1, acceptsRequired |-> HalfOfPeers]
<1>1. /\ last \in Nat /\ commitIndex[s] \in Nat /\ HalfOfPeers \in Nat
      /\ \A q \in Peers(s) : /\ nextIndex[s][q] \in Nat \ {0}
                             /\ matchIndex[s][q] \in Nat
      /\ old \in Seq(PendingEntry) /\ Len(old) \in Nat
      /\ DOMAIN old = 1 .. Len(old)
      /\ \A i \in 1 .. Len(old) : /\ old[i].index \in 1 .. last
                                  /\ old[i].index \in Nat
                                  /\ old[i].acceptsRequired \in Int
  BY CountTypes
<1>2. /\ HalfOfPeers > 0
      /\ commitIndex[s] <= last
      /\ commitIndex[s] > 0 =>
           HalfOfPeers <= Cardinality(Matched(s, commitIndex[s]))
      /\ \A q \in Peers(s) : TracksFollower(s, q)
      /\ \A i, j \in 1 .. Len(old) : i < j => old[i].index < old[j].index
      /\ \A i \in 1 .. Len(old) :
           /\ old[i].index > commitIndex[s]
           /\ \A q \in Peers(s) : \/ old[i].index <= matchIndex[s][q]
                                  \/ old[i].index >= nextIndex[s][q]
           /\ HalfOfPeers - old[i].acceptsRequired
                <= Cardinality(Matched(s, old[i].index))
  BY <1>1 DEF LeaderCounts, WaitsInOrder, WaitingCounted
<1>3. /\ pendingApplication'[s] = Append(old, new)
      /\ LastIndex(log'[s]) = last + 1
  BY DEF Waits
<1>4. new \in PendingEntry
  BY <1>1 DEF PendingEntry
<1> HIDE DEF old, new
<1>5. /\ DOMAIN pendingApplication'[s] = 1 .. Len(old) + 1
      /\ \A i \in 1 .. Len(old) : pendingApplication'[s][i] = old[i]
      /\ pendingApplication'[s][Len(old) + 1] = new
  BY <1>1, <1>3, <1>4
<1>6. new.index = last + 1 /\ new.acceptsRequired = HalfOfPeers
  BY DEF new
<1> HIDE DEF last
<1>7. \A q \in Peers(s) : TracksFollower(s, q)'
  BY <1>1, <1>2, <1>3 DEF TracksFollower, last
<1>8. WaitsInOrder(s)'
  <2>1. ASSUME NEW i \in 1 .. Len(old) + 1, NEW j \in 1 .. Len(old) + 1, i < j
        PROVE  pendingApplication'[s][i].index < pendingApplication'[s][j].index
    <3>1. i \in 1 .. Len(old)
      BY <1>1, <2>1
    <3>2. CASE j \in 1 .. Len(old)
      BY <1>2, <1>5, <2>1, <3>1, <3>2
    <3>3. CASE j = Len(old) + 1
      BY <1>1, <1>5, <1>6, <3>1, <3>3
    <3> QED
      BY <1>1, <3>2, <3>3
  <2> QED
    BY <1>5, <2>1 DEF WaitsInOrder
<1>9. \A x : Matched(s, x)' = Matched(s, x)
  BY DEF Matched
<1>10. ASSUME NEW i \in 1 .. Len(old) + 1, NEW x \in Nat,
              x = pendingApplication'[s][i].index
       PROVE  /\ x > commitIndex'[s]
              /\ \A q \in Peers(s) : \/ x <= matchIndex'[s][q]
                                     \/ x >= nextIndex'[s][q]
              /\ HalfOfPeers - pendingApplication'[s][i].acceptsRequired
                   <= Cardinality(Matched(s, x))'
  <2>1. CASE i \in 1 .. Len(old)
    BY <1>2, <1>5, <1>9, <1>10, <2>1
  <2>2. CASE i = Len(old) + 1
    <3>1. x = last + 1 /\ pendingApplication'[s][i].acceptsRequired = HalfOfPeers
      BY <1>5, <1>6, <1>10, <2>2
    <3>2. Cardinality(Matched(s, x)) \in Nat
      BY MatchedIsFinite
    <3>3. \A q \in Peers(s) : x <= matchIndex[s][q] \/ x >= nextIndex[s][q]
      <4> TAKE q \in Peers(s)
      <4>1. /\ nextIndex[s][q] \in Nat /\ matchIndex[s][q] \in Nat
            /\ \/ nextIndex[s][q] <= last + 1
               \/ nextIndex[s][q] = matchIndex[s][q] + 1
        BY <1>1, <1>2 DEF TracksFollower, last
      <4> QED
        BY <1>1, <3>1, <4>1
    <3> QED
      BY <1>1, <1>2, <1>9, <3>1, <3>2, <3>3
  <2> QED
    BY <1>1, <2>1, <2>2
<1>11. ASSUME NEW i \in 1 .. Len(old) + 1
       PROVE  pendingApplication'[s][i].index \in Nat
  <2>1. CASE i \in 1 .. Len(old)
    BY <1>1, <1>5, <2>1
  <2>2. CASE i = Len(old) + 1
    BY <1>1, <1>5, <1>6, <2>2
  <2>3. Len(old) \in Nat
    BY <1>1
  <2> QED
    BY ONLY <2>1, <2>2, <2>3
<1>12. WaitingCounted(s)'
  BY <1>5, <1>10, <1>11 DEF WaitingCounted, Matched
<1>13. LeaderCounts(s)'
  <2>1. commitIndex'[s] <= LastIndex(log'[s])
    BY <1>1, <1>2, <1>3
  <2>2. commitIndex'[s] > 0 =>
          HalfOfPeers <= Cardinality(Matched(s, commitIndex[s]))'
    BY <1>2 DEF Matched
  <2> QED
    BY <1>2, <1>7, <1>8, <1>12, <2>1, <2>2 DEF LeaderCounts, HalfOfPeers
<1>14. ASSUME ExactlyCounted(s) PROVE ExactlyCounted(s)'
  <2>1. /\ \A q \in Peers(s) : matchIndex[s][q] <= last
        /\ \A i \in 1 .. Len(old) :
             /\ old[i].acceptsRequired > 0
             /\ old[i].acceptsRequired
                  = HalfOfPeers - Cardinality(Matched(s, old[i].index))
    BY <1>1, <1>14 DEF ExactlyCounted, old, last
  <2>2. \A q \in Peers(s) : matchIndex'[s][q] <= LastIndex(log'[s])
    BY <1>1, <1>3, <2>1
  <2>3. ASSUME NEW i \in 1 .. Len(old) + 1, NEW x \in Nat,
               x = pendingApplication'[s][i].index
        PROVE  /\ pendingApplication'[s][i].acceptsRequired > 0
               /\ pendingApplication'[s][i].acceptsRequired
                    = HalfOfPeers - Cardinality(Matched(s, x))'
    <3>1. CASE i \in 1 .. Len(old)
      BY <1>5, <1>9, <2>1, <2>3, <3>1
    <3>2. CASE i = Len(old) + 1
      <4>1. x = last + 1 /\ pendingApplication'[s][i].acceptsRequired = HalfOfPeers
        BY <1>5, <1>6, <2>3, <3>2
      <4>2. Matched(s, x) = {}
        BY <1>1, <2>1, <4>1 DEF Matched
      <4>3. Cardinality(Matched(s, x))' = 0
        BY <1>9, <4>2, FS_EmptySet
      <4> QED
        BY <1>1, <1>2, <4>1, <4>3
    <3> QED
      BY <1>1, <3>1, <3>2
  <2> QED
    BY <1>5, <1>11, <2>2, <2>3 DEF ExactlyCounted, Matched, HalfOfPeers
<1> QED
  BY <1>13, <1>14

(* A leader that looks further back at a follower, or only sends.          *)
LEMMA LookingBackKeepsCounts ==
  ASSUME TypeInv, TypeInv', NEW s \in Server, LeaderCounts(s),
         matchIndex'[s] = matchIndex[s], commitIndex'[s] = commitIndex[s],
         pendingApplication'[s] = pendingApplication[s],
         LastIndex(log'[s]) >= LastIndex(log[s]),
         \A p \in Peers(s) : \/ nextIndex'[s][p] = nextIndex[s][p]
                             \/ /\ matchIndex[s][p] < nextIndex'[s][p]
                                /\ nextIndex'[s][p] < nextIndex[s][p]
  PROVE  /\ LeaderCounts(s)'
         /\ ExactlyCounted(s) => ExactlyCounted(s)'
<1>0. LastIndex(log'[s]) \in Nat
  BY DEF TypeInv, TypeOK, LastIndex
<1>1. /\ LastIndex(log[s]) \in Nat
      /\ commitIndex[s] \in Nat
      /\ \A p \in Peers(s) : /\ p \in Server
                             /\ nextIndex[s][p] \in Nat \ {0}
                             /\ matchIndex[s][p] \in Nat
      /\ \A i \in DOMAIN pendingApplication[s] :
           pendingApplication[s][i].index \in Nat
  BY CountTypes
<1>2. \A p \in Peers(s) : nextIndex'[s][p] \in Nat
  BY <1>1 DEF TypeInv, TypeOK
<1>3. \A x : Matched(s, x)' = Matched(s, x)
  BY DEF Matched
<1>4. ASSUME NEW p \in Peers(s)
      PROVE  /\ TracksFollower(s, p)'
             /\ nextIndex'[s][p] <= nextIndex[s][p]
  <2>1. TracksFollower(s, p)
    BY DEF LeaderCounts
  <2>2. CASE nextIndex'[s][p] = nextIndex[s][p]
    BY <1>0, <1>1, <2>1, <2>2 DEF TracksFollower
  <2>3. CASE /\ matchIndex[s][p] < nextIndex'[s][p]
             /\ nextIndex'[s][p] < nextIndex[s][p]
    BY <1>0, <1>1, <1>2, <2>1, <2>3 DEF TracksFollower
  <2> QED
    BY <2>2, <2>3
<1>5. WaitsInOrder(s)'
  BY DEF LeaderCounts, WaitsInOrder
<1>6. ASSUME NEW i \in DOMAIN pendingApplication[s], NEW p \in Peers(s)
      PROVE  \/ pendingApplication[s][i].index <= matchIndex[s][p]
             \/ pendingApplication[s][i].index >= nextIndex'[s][p]
  <2>1. \/ pendingApplication[s][i].index <= matchIndex[s][p]
        \/ pendingApplication[s][i].index >= nextIndex[s][p]
    BY DEF LeaderCounts, WaitingCounted
  <2>2. /\ pendingApplication[s][i].index \in Nat
        /\ nextIndex[s][p] \in Nat /\ nextIndex'[s][p] \in Nat
    BY <1>1, <1>2
  <2> QED
    BY <1>4, <2>1, <2>2
<1>7. WaitingCounted(s)'
  BY <1>6 DEF LeaderCounts, WaitingCounted, Matched, HalfOfPeers
<1>8. LeaderCounts(s)'
  <2>1. commitIndex'[s] <= LastIndex(log'[s])
    BY <1>0, <1>1 DEF LeaderCounts
  <2> QED
    BY <1>4, <1>5, <1>7, <2>1 DEF LeaderCounts, Matched, HalfOfPeers
<1>9. ASSUME ExactlyCounted(s) PROVE ExactlyCounted(s)'
  <2>1. \A p \in Peers(s) : matchIndex'[s][p] <= LastIndex(log'[s])
    BY <1>0, <1>1, <1>9 DEF ExactlyCounted
  <2> QED
    BY <1>9, <2>1 DEF ExactlyCounted, Matched, HalfOfPeers
<1> QED
  BY <1>8, <1>9

-----------------------------------------------------------------------------
(* What every step does to the counts *)

StopsLeading(s) ==
  /\ role'[s] # "Leader"
  /\ matchIndex'[s] = [p \in Server |-> 0]
  /\ role'[s] = "Candidate" => commitIndex'[s] = 0

StartsLeading(s) ==
  /\ role'[s] = "Leader"
  /\ HalfOfPeers > 0
  /\ commitIndex'[s] = 0
  /\ pendingApplication'[s] = << >>
  /\ \A p \in Server : /\ matchIndex'[s][p] = 0
                       /\ nextIndex'[s][p] = LastIndex(log'[s]) + 1

(* A leader hears nothing that it counts, and keeps its log.               *)
CountsNothing(s) ==
  /\ role[s] = "Leader" /\ role'[s] = "Leader"
  /\ currentTerm'[s] >= currentTerm[s]
  /\ matchIndex'[s] = matchIndex[s]
  /\ commitIndex'[s] = commitIndex[s]
  /\ pendingApplication'[s] = pendingApplication[s]
  /\ LastIndex(log'[s]) >= LastIndex(log[s])
  /\ \A i \in 1 .. LastIndex(log[s]) : log'[s][i] = log[s][i]
  /\ \A p \in Peers(s) : \/ nextIndex'[s][p] = nextIndex[s][p]
                         \/ /\ matchIndex[s][p] < nextIndex'[s][p]
                            /\ nextIndex'[s][p] < nextIndex[s][p]

(* A leader counts what a follower accepted.                               *)
CountsReply(s) ==
  /\ Leads(s) /\ role'[s] = "Leader"
  /\ currentTerm'[s] = currentTerm[s]
  /\ log'[s] = log[s]
  /\ \E m \in messages : /\ m.type = "AcceptEntries"
                         /\ m.to = s
                         /\ Counts(s, m.from, m.lastLogIndex)

(* A leader has a new entry to wait for.                                   *)
CountsFromNow(s) ==
  /\ role[s] = "Leader" /\ role'[s] = "Leader"
  /\ currentTerm'[s] = currentTerm[s]
  /\ Waits(s)
  /\ LastIndex(log'[s]) = LastIndex(log[s]) + 1
  /\ \A i \in 1 .. LastIndex(log[s]) : log'[s][i] = log[s][i]
  /\ matchIndex'[s] = matchIndex[s]
  /\ nextIndex'[s] = nextIndex[s]
  /\ commitIndex'[s] = commitIndex[s]

OthersKeepCounts(s) ==
  \A p \in Server \ {s} :
    /\ role'[p] = role[p] /\ log'[p] = log[p]
    /\ currentTerm'[p] = currentTerm[p]
    /\ matchIndex'[p] = matchIndex[p] /\ nextIndex'[p] = nextIndex[p]
    /\ pendingApplication'[p] = pendingApplication[p]
    /\ commitIndex'[p] = commitIndex[p]

CountStep(s) ==
  \/ StopsLeading(s)
  \/ StartsLeading(s)
  \/ CountsNothing(s)
  \/ CountsReply(s)
  \/ CountsFromNow(s)

(* If no reply to an earlier leadership was sent to a leader after a step, *)
(* none was before it: the acceptances of a term were sent after the       *)
(* election in it.                                                         *)
LEMMA RepliesWereNew ==
  ASSUME TypeInv, TypeOK', VoteInv, LeadInv, ReachInv,
         messages \subseteq messages', NEW s \in Server,
         currentTerm'[s] >= currentTerm[s], RepliesAreNew(s)'
  PROVE  RepliesAreNew(s)
<1> SUFFICES ASSUME NEW m \in messages, m.type = "AcceptEntries", m.to = s
             PROVE  m.term = currentTerm[s]
  BY DEF RepliesAreNew
<1>1. m.term = currentTerm'[s]
  BY DEF RepliesAreNew
<1>2. Leadership(s, m.term) \in elected
  BY DEF ReachInv, InReach, Reach
<1>3. m.term <= stored[s].currentTerm
  BY <1>2 DEF LeadInv, ElectedRemembered, Leadership
<1>4. stored[s].currentTerm <= currentTerm[s]
  BY DEF VoteInv, Remembers, RemembersAt
<1>5. /\ stored[s].currentTerm \in Nat /\ currentTerm[s] \in Nat
      /\ currentTerm'[s] \in Nat
  BY DEF TypeInv, TypeOK, State
<1> QED
  BY <1>1, <1>3, <1>4, <1>5

(* A step of that shape preserves the invariant about counts.              *)
LEMMA CountStepInv ==
  ASSUME TypeInv, TypeInv', VoteInv, LeadInv, ReachInv, CountInv,
         messages \subseteq messages', NEW s \in Server,
         OthersKeepCounts(s), CountStep(s)
  PROVE  CountInv'
<1>1. CountsAt(s) /\ ExactAt(s)
  BY DEF CountInv
<1>2. ASSUME NEW p \in Server \ {s} PROVE CountsAt(p)' /\ ExactAt(p)'
  <2>1. CountsAt(p) /\ ExactAt(p)
    BY DEF CountInv
  <2>2. /\ role'[p] = role[p] /\ log'[p] = log[p]
        /\ currentTerm'[p] = currentTerm[p]
        /\ matchIndex'[p] = matchIndex[p] /\ nextIndex'[p] = nextIndex[p]
        /\ pendingApplication'[p] = pendingApplication[p]
        /\ commitIndex'[p] = commitIndex[p]
    BY DEF OthersKeepCounts
  <2>3. role[p] = "Leader" /\ LeaderCounts(p) =>
          LeaderCounts(p)' /\ (ExactlyCounted(p) => ExactlyCounted(p)')
    <3>1. LastIndex(log'[p]) >= LastIndex(log[p])
      BY <2>2 DEF TypeInv, TypeOK, LastIndex
    <3> QED
      BY <2>2, <3>1, LookingBackKeepsCounts
  <2>4. RepliesAreNew(p)' => RepliesAreNew(p)
    BY <2>2 DEF RepliesAreNew
  <2> QED
    BY <2>1, <2>2, <2>3, <2>4 DEF CountsAt, ExactAt
<1>3. ASSUME StopsLeading(s) PROVE CountsAt(s)' /\ ExactAt(s)'
  BY <1>3 DEF StopsLeading, CountsAt, ExactAt
<1>4. ASSUME StartsLeading(s) PROVE CountsAt(s)' /\ ExactAt(s)'
  <2>1. /\ role'[s] = "Leader" /\ HalfOfPeers > 0 /\ commitIndex'[s] = 0
        /\ DOMAIN pendingApplication'[s] = {}
        /\ LastIndex(log'[s]) \in Nat
        /\ \A p \in Peers(s) : /\ matchIndex'[s][p] = 0
                               /\ nextIndex'[s][p] = LastIndex(log'[s]) + 1
    <3>1. LastIndex(log'[s]) \in Nat
      BY DEF TypeInv, TypeOK, LastIndex
    <3>2. DOMAIN pendingApplication'[s] = {}
      BY <1>4 DEF StartsLeading
    <3> QED
      BY <1>4, <3>1, <3>2 DEF StartsLeading, Peers
  <2>2. \A p \in Peers(s) : TracksFollower(s, p)'
    BY <2>1 DEF TracksFollower
  <2>3. LeaderCounts(s)'
    <3>1. WaitsInOrder(s)' /\ WaitingCounted(s)'
      BY <2>1 DEF WaitsInOrder, WaitingCounted
    <3> QED
      BY <2>1, <2>2, <3>1 DEF LeaderCounts, HalfOfPeers
  <2>4. ExactlyCounted(s)'
    BY <2>1 DEF ExactlyCounted
  <2> QED
    BY <2>1, <2>3, <2>4 DEF CountsAt, ExactAt
<1>5. ASSUME CountsNothing(s) PROVE CountsAt(s)' /\ ExactAt(s)'
  <2>1. LeaderCounts(s)
    BY <1>1, <1>5 DEF CountsNothing, CountsAt
  <2>2. LeaderCounts(s)' /\ (ExactlyCounted(s) => ExactlyCounted(s)')
    BY <1>5, <2>1, LookingBackKeepsCounts DEF CountsNothing
  <2>3. RepliesAreNew(s)' => RepliesAreNew(s)
    BY <1>5, RepliesWereNew DEF CountsNothing, TypeInv
  <2> QED
    BY <1>1, <1>5, <2>2, <2>3 DEF CountsNothing, CountsAt, ExactAt
<1>6. ASSUME CountsReply(s) PROVE CountsAt(s)' /\ ExactAt(s)'
  <2>1. PICK m \in messages : /\ m.type = "AcceptEntries"
                              /\ m.to = s
                              /\ Counts(s, m.from, m.lastLogIndex)
    BY <1>6 DEF CountsReply
  <2>2. m.from \in Peers(s) /\ m.lastLogIndex \in Nat
    <3>1. m.from # s
      BY <2>1 DEF VoteInv, Remembered, RememberedAt
    <3> QED
      BY <2>1, <3>1, MessageFields DEF TypeInv, TypeOK, Peers
  <2>3. LeaderCounts(s)
    BY <1>1, <1>6 DEF CountsReply, CountsAt, Leads
  <2>4. LeaderCounts(s)'
    BY <1>6, <2>1, <2>2, <2>3, CountsKept DEF CountsReply
  <2>5. ASSUME RepliesAreNew(s)' PROVE ExactlyCounted(s)'
    <3>1. RepliesAreNew(s)
      BY <1>6, <2>5 DEF RepliesAreNew, CountsReply
    <3>2. ExactlyCounted(s)
      BY <1>1, <1>6, <3>1 DEF CountsReply, ExactAt, Leads
    <3>3. m.lastLogIndex <= LastIndex(log[s])
      BY <1>6, <2>1, <3>1
      DEF ReachInv, InReach, Reach, CountsReply, RepliesAreNew
    <3> QED
      BY <1>6, <2>1, <2>2, <2>3, <3>2, <3>3, ExactCountsKept DEF CountsReply
  <2> QED
    BY <1>6, <2>4, <2>5 DEF CountsReply, CountsAt, ExactAt
<1>7. ASSUME CountsFromNow(s) PROVE CountsAt(s)' /\ ExactAt(s)'
  <2>1. LeaderCounts(s)
    BY <1>1, <1>7 DEF CountsFromNow, CountsAt
  <2>2. LeaderCounts(s)' /\ (ExactlyCounted(s) => ExactlyCounted(s)')
    BY <1>7, <2>1, AppendKeepsCounts DEF CountsFromNow
  <2>3. RepliesAreNew(s)' => RepliesAreNew(s)
    BY <1>7 DEF RepliesAreNew, CountsFromNow
  <2> QED
    BY <1>1, <1>7, <2>2, <2>3 DEF CountsFromNow, CountsAt, ExactAt
<1>8. CountsAt(s)' /\ ExactAt(s)'
  BY <1>3, <1>4, <1>5, <1>6, <1>7 DEF CountStep
<1> QED
  BY <1>2, <1>8 DEF CountInv

(* And the invariant about the replies behind them.                        *)
LEMMA MatchesStepInv ==
  ASSUME TypeInv, VoteInv, MatchesReplies, messages \subseteq messages',
         NEW s \in Server, OthersKeepCounts(s), CountStep(s)
  PROVE  MatchesReplies'
<1>1. ASSUME NEW p \in Server, role[p] = "Leader", matchIndex'[p] = matchIndex[p]
      PROVE  MatchesReply(p)'
  BY <1>1 DEF MatchesReplies, MatchesReply
<1>2. ASSUME NEW p \in Server \ {s} PROVE MatchesReply(p)'
  <2>1. role'[p] = role[p] /\ matchIndex'[p] = matchIndex[p]
    BY DEF OthersKeepCounts
  <2>2. CASE role[p] = "Leader"
    BY <1>1, <2>1, <2>2
  <2>3. CASE role[p] # "Leader"
    BY <2>1, <2>3 DEF MatchesReply
  <2> QED
    BY <2>2, <2>3
<1>3. ASSUME StopsLeading(s) PROVE MatchesReply(s)'
  BY <1>3 DEF StopsLeading, MatchesReply
<1>4. ASSUME StartsLeading(s) PROVE MatchesReply(s)'
  BY <1>4 DEF StartsLeading, MatchesReply, Peers
<1>5. ASSUME CountsNothing(s) \/ CountsFromNow(s) PROVE MatchesReply(s)'
  BY <1>1, <1>5 DEF CountsNothing, CountsFromNow
<1>6. ASSUME CountsReply(s) PROVE MatchesReply(s)'
  <2>1. PICK m \in messages : /\ m.type = "AcceptEntries"
                              /\ m.to = s
                              /\ Counts(s, m.from, m.lastLogIndex)
    BY <1>6 DEF CountsReply
  <2>2. m.from \in Server
    BY MessageFields DEF TypeInv, TypeOK
  <2>3. matchIndex' = [matchIndex EXCEPT ![s][m.from] = m.lastLogIndex]
    BY <2>1 DEF Counts
  <2>4. matchIndex'[s][m.from] = m.lastLogIndex
    BY <2>2, <2>3 DEF TypeInv, TypeOK
  <2>5. \A p \in Server \ {m.from} : matchIndex'[s][p] = matchIndex[s][p]
    BY <2>2, <2>3 DEF TypeInv, TypeOK
  <2>6. MatchesReply(s) /\ role[s] = "Leader"
    BY <1>6 DEF MatchesReplies, CountsReply, Leads
  <2> QED
    BY <2>1, <2>4, <2>5, <2>6 DEF MatchesReply, Peers
<1>7. MatchesReply(s)'
  BY <1>3, <1>4, <1>5, <1>6 DEF CountStep
<1> QED
  BY <1>2, <1>7 DEF MatchesReplies

(* A step that touches nothing a leader counts by.                         *)
LEMMA NothingCounted ==
  ASSUME TypeInv, NEW s \in Server, CountsAt(s),
         UNCHANGED <<role, commitIndex, leaderVars>>,
         currentTerm'[s] >= currentTerm[s],
         LastIndex(log'[s]) >= LastIndex(log[s]),
         \A i \in 1 .. LastIndex(log[s]) : log'[s][i] = log[s][i]
  PROVE  CountStep(s)
<1>1. CASE role[s] = "Leader"
  BY <1>1 DEF leaderVars, CountStep, CountsNothing
<1>2. CASE role[s] # "Leader"
  BY <1>2 DEF leaderVars, CountsAt, CountStep, StopsLeading
<1> QED
  BY <1>1, <1>2

(* A handler that leaves the log and the term alone besides.               *)
LEMMA LogKept ==
  ASSUME TypeOK, NEW s \in Server, UNCHANGED <<currentTerm, log>>
  PROVE  /\ currentTerm'[s] >= currentTerm[s]
         /\ LastIndex(log'[s]) >= LastIndex(log[s])
         /\ \A i \in 1 .. LastIndex(log[s]) : log'[s][i] = log[s][i]
BY DEF TypeOK, LastIndex

(* A follower after its conversion counts nothing.                         *)
LEMMA ConversionStopsLeading ==
  ASSUME TypeOK, NEW s \in Server, NEW m, ConvertToFollower(s, m)
  PROVE  StopsLeading(s)
<1>1. /\ role' = [role EXCEPT ![s] = "Follower"]
      /\ matchIndex' = [matchIndex EXCEPT ![s] = [p \in Server |-> 0]]
  BY DEF ConvertToFollower
<1> QED
  BY <1>1 DEF StopsLeading, TypeOK

(* A candidate that wins needed a vote, and has counted nothing yet.       *)
LEMMA WinnerStartsLeading ==
  ASSUME TypeInv, VoteInv, NEW s \in Server, CandidateAt(s), CountsAt(s),
         role[s] = "Candidate", Free(s), NEW m \in messages, m.to = s,
         CandidateHandleGrantVote(s, m), votesRequired[s] = 1
  PROVE  StartsLeading(s)
<1> DEFINE voters == votesAlreadyReceived[s] \union {m.from}
           next   == LastIndex(log[s]) + 1
<1>1. TypeOK /\ PendingInLogAt(s)
  BY DEF TypeInv, PendingInLog
<1>2. /\ voters \subseteq Peers(s)
      /\ votesRequired[s] - 1 + Cardinality(voters) = HalfOfPeers
  BY <1>1, OneMoreVote
<1>3. HalfOfPeers > 0
  <2>1. voters \subseteq Server /\ voters # {}
    BY <1>2 DEF Peers
  <2> HIDE DEF voters
  <2>2. Cardinality(voters) \in Nat /\ Cardinality(voters) # 0
    BY <2>1, ServerAssumption, FS_Subset, FS_CardinalityType, FS_EmptySet
  <2> QED
    BY <1>2, <2>2, HalfOfPeersType
<1>4. /\ role' = [role EXCEPT ![s] = "Leader"]
      /\ nextIndex' = [nextIndex EXCEPT ![s] = [p \in Server |-> next]]
      /\ UNCHANGED <<log, commitIndex, matchIndex, pendingApplication>>
  BY DEF CandidateHandleGrantVote, BecomeLeader
<1>5. /\ commitIndex[s] = 0 /\ pendingApplication[s] = << >>
      /\ matchIndex[s] = [p \in Server |-> 0]
  BY <1>1 DEF CountsAt, PendingInLogAt
<1>6. role'[s] = "Leader" /\ nextIndex'[s] = [p \in Server |-> next]
  <2> HIDE DEF next
  <2> QED
    BY <1>1, <1>4 DEF TypeOK
<1> QED
  BY <1>3, <1>4, <1>5, <1>6 DEF StartsLeading

(* Every handler, of every role.                                           *)
LEMMA CountsReceive ==
  ASSUME TypeInv, TypeOK', VoteInv, NEW s \in Server, CandidateAt(s),
         CountsAt(s), NEW m \in messages, Receive(s, m)
  PROVE  CountStep(s)
<1> USE DEF historyVars
<1>1. /\ TypeOK /\ m \in Message /\ m.from \in Server /\ m.to = s /\ Free(s)
      /\ m.from \in Peers(s)
      /\ operation[s].kind # "convert"
  <2>1. m.from # m.to
    BY DEF VoteInv, Remembered, RememberedAt
  <2>2. TypeOK /\ m \in Message /\ m.to = s /\ Free(s)
    BY DEF TypeInv, TypeOK, Receive
  <2>3. m.from \in Server
    BY <2>2, MessageFields
  <2> QED
    BY <2>1, <2>2, <2>3 DEF Free, Idle, Peers
<1>2. ASSUME UNCHANGED <<role, log, currentTerm, commitIndex, leaderVars>>
      PROVE  CountStep(s)
  BY <1>1, <1>2, LogKept, NothingCounted
<1>3. CASE FollowerReceives(s, m)
  BY <1>3 DEF FollowerReceives, leaderVars, CountsAt, CountStep, StopsLeading
<1>4. CASE DeferToNewerTerm(s, m)
  <2>1. /\ UNCHANGED <<role, log, commitIndex, leaderVars>>
        /\ m.term > currentTerm[s]
        /\ currentTerm' = [currentTerm EXCEPT ![s] = m.term]
    BY <1>4 DEF DeferToNewerTerm, SetTermAndVote
  <2>2. currentTerm'[s] >= currentTerm[s]
    BY <1>1, <2>1, MessageFields, SMTT(40) DEF TypeOK
  <2>3. /\ LastIndex(log'[s]) >= LastIndex(log[s])
        /\ \A i \in 1 .. LastIndex(log[s]) : log'[s][i] = log[s][i]
    BY <1>1, <2>1 DEF TypeOK, LastIndex
  <2> QED
    BY <2>1, <2>2, <2>3, NothingCounted
<1>5. CASE role[s] = "Candidate" /\ CandidateHandleGrantVote(s, m)
  <2>1. CASE votesRequired[s] = 1
    BY <1>1, <1>5, <2>1, WinnerStartsLeading DEF CountStep
  <2>2. CASE votesRequired[s] # 1
    BY <1>2, <1>5, <2>2 DEF CandidateHandleGrantVote, leaderVars
  <2> QED
    BY <2>1, <2>2
<1>6. CASE CandidateHandleRequestVote(s, m)
  BY <1>2, <1>6 DEF CandidateHandleRequestVote
<1>7. CASE CandidateHandleAppendEntries(s, m)
  BY <1>1, <1>2, <1>7, ConversionStopsLeading
  DEF CandidateHandleAppendEntries, CountStep
<1>8. CASE LeaderHandleRequestVote(s, m)
  BY <1>2, <1>8 DEF LeaderHandleRequestVote
<1>9. CASE role[s] = "Leader" /\ LeaderHandleRejectEntries(s, m)
  <2>1. /\ UNCHANGED <<role, log, currentTerm, commitIndex, matchIndex,
                       pendingApplication>>
        /\ m.conflictingIndex > matchIndex[s][m.from]
        /\ m.conflictingIndex < nextIndex[s][m.from]
        /\ nextIndex' = [nextIndex EXCEPT ![s][m.from] = m.conflictingIndex]
        /\ m.conflictingIndex \in Nat
    BY <1>1, <1>9, MessageFields DEF LeaderHandleRejectEntries
  <2>2. matchIndex[s][m.from] \in Nat /\ nextIndex[s][m.from] \in Nat
    BY <1>1, CountTypes
  <2>3. \A p \in Peers(s) : \/ nextIndex'[s][p] = nextIndex[s][p]
                            \/ /\ matchIndex[s][p] < nextIndex'[s][p]
                               /\ nextIndex'[s][p] < nextIndex[s][p]
    <3> TAKE p \in Peers(s)
    <3>1. CASE p = m.from
      <4>1. nextIndex'[s][p] = m.conflictingIndex
        BY <1>1, <2>1, <3>1 DEF TypeOK
      <4> QED
        BY <2>1, <2>2, <3>1, <4>1
    <3>2. CASE p # m.from
      BY <1>1, <2>1, <3>2 DEF TypeOK, Peers
    <3> QED
      BY <3>1, <3>2
  <2> QED
    BY <1>1, <1>9, <2>1, <2>3, LogKept DEF CountStep, CountsNothing
<1>10. CASE role[s] = "Leader" /\ LeaderHandleAcceptEntries(s, m)
  <2>1. /\ UNCHANGED <<role, log, currentTerm>>
        /\ m.type = "AcceptEntries"
        /\ \/ Counts(s, m.from, m.lastLogIndex)
           \/ UNCHANGED <<leaderVars, commitIndex>>
    BY <1>10 DEF LeaderHandleAcceptEntries, Counts
  <2>2. CASE Counts(s, m.from, m.lastLogIndex)
    BY <1>1, <1>10, <2>1, <2>2 DEF CountStep, CountsReply, Leads
  <2> QED
    BY <1>2, <2>1, <2>2
<1> QED
  BY <1>3, <1>4, <1>5, <1>6, <1>7, <1>8, <1>9, <1>10
  DEF Receive, CandidateReceives, LeaderReceives

(* Every step is of that shape.                                            *)
LEMMA CountStepOf ==
  ASSUME TypeInv, TypeOK', VoteInv, NEW s \in Server, CandidateAt(s),
         CountsAt(s), Step(s)
  PROVE  CountStep(s)
<1> USE DEF historyVars
<1>1. /\ TypeOK /\ PendingInLogAt(s)
      /\ log[s] \in Seq(Entry)
  BY DEF TypeInv, TypeOK, PendingInLog
<1>2. ASSUME UNCHANGED <<role, log, currentTerm, commitIndex, leaderVars>>
      PROVE  CountStep(s)
  BY <1>1, <1>2, LogKept, NothingCounted
<1>3. CASE FollowerTimesOut(s)
  <2>1. /\ role[s] = "Follower" /\ UNCHANGED matchIndex
        /\ \/ UNCHANGED role
           \/ /\ role' = [role EXCEPT ![s] = "Candidate"]
              /\ commitIndex' = [commitIndex EXCEPT ![s] = 0]
    BY <1>3 DEF FollowerTimesOut, StartElection, leaderVars
  <2>2. /\ role'[s] # "Leader"
        /\ role'[s] = "Candidate" => commitIndex'[s] = 0
    BY <1>1, <2>1 DEF TypeOK
  <2> QED
    BY <2>1, <2>2 DEF CountsAt, CountStep, StopsLeading
<1>4. CASE CandidateTimesOut(s)
  BY <1>4
  DEF CandidateTimesOut, StartElection, leaderVars, CountsAt, CountStep,
      StopsLeading
<1>5. CASE LeaderSendsHeartbeat(s)
  BY <1>2, <1>5 DEF LeaderSendsHeartbeat
<1>6. CASE \E m \in messages : Receive(s, m)
  BY <1>6, CountsReceive
<1>7. CASE \E value \in Value : LeaderAppends(s, value)
  BY <1>2, <1>7 DEF LeaderAppends
<1>8. CASE PersistedRequestVote(s) \/ PersistedGrantVote(s) \/ PersistedSetTerm(s)
  BY <1>2, <1>8
  DEF PersistedRequestVote, PersistedGrantVote, PersistedSetTerm
<1>9. CASE PersistedConvert(s)
  BY <1>1, <1>9, ConversionStopsLeading DEF PersistedConvert, CountStep
<1>10. ASSUME NEW es \in Seq(Entry), log'[s] = Extended(log[s], es)
       PROVE  /\ LastIndex(log'[s]) = LastIndex(log[s]) + Len(es)
              /\ \A i \in 1 .. LastIndex(log[s]) : log'[s][i] = log[s][i]
  <2>1. LastIndex(log'[s]) = LastIndex(log[s]) + Len(es)
    BY <1>1, <1>10, ExtendedLog
  <2>2. \A i \in 1 .. Len(log[s]) : (log[s] \o es)[i] = log[s][i]
    BY <1>1, ConcatProperties
  <2> QED
    BY <1>10, <2>1, <2>2 DEF Extended, LastIndex
<1>11. CASE PersistedMergeEntries(s)
  <2>1. /\ UNCHANGED <<role, currentTerm, commitIndex, leaderVars>>
        /\ operation[s].kind = "mergeEntries"
        /\ log'[s] = Extended(log[s], operation[s].entries)
    BY <1>1, <1>11 DEF PersistedMergeEntries, TypeOK
  <2>2. operation[s].entries \in Seq(Entry)
    BY <1>1, <2>1, ServerTypes, OperationFields
  <2>3. /\ Len(operation[s].entries) \in Nat /\ LastIndex(log[s]) \in Nat
        /\ currentTerm'[s] >= currentTerm[s]
    BY <1>1, <2>1, <2>2, SMTT(40) DEF TypeOK, LastIndex
  <2>4. /\ LastIndex(log'[s]) >= LastIndex(log[s])
        /\ \A i \in 1 .. LastIndex(log[s]) : log'[s][i] = log[s][i]
    <3>1. /\ LastIndex(log'[s]) = LastIndex(log[s]) + Len(operation[s].entries)
          /\ \A i \in 1 .. LastIndex(log[s]) : log'[s][i] = log[s][i]
      BY <1>10, <2>1, <2>2
    <3> QED
      BY <2>3, <3>1
  <2> QED
    BY <2>1, <2>3, <2>4, NothingCounted
<1>12. CASE PersistedAppend(s)
  <2>1. /\ UNCHANGED <<role, currentTerm, commitIndex, nextIndex, matchIndex>>
        /\ operation[s].kind = "append"
        /\ log'[s] = Extended(log[s], NewEntries(s))
        /\ pendingApplication' = [pendingApplication EXCEPT
             ![s] = Append(@, [index |-> LastIndex(log'[s]),
                               acceptsRequired |-> HalfOfPeers])]
    BY <1>1, <1>12 DEF PersistedAppend, TypeOK
  <2>2. NewEntries(s) \in Seq(Entry) /\ Len(NewEntries(s)) = 1
    BY <1>1, <2>1, AppendedEntry
  <2>3. /\ LastIndex(log'[s]) = LastIndex(log[s]) + 1
        /\ \A i \in 1 .. LastIndex(log[s]) : log'[s][i] = log[s][i]
    BY <1>10, <2>1, <2>2
  <2>4. Waits(s)
    BY <1>1, <2>1, <2>3 DEF Waits, TypeOK
  <2> QED
    BY <1>1, <2>1, <2>3, <2>4 DEF PendingInLogAt, CountStep, CountsFromNow
<1>13. CASE Restart(s)
  BY <1>1, <1>13 DEF Restart, TypeOK, FollowerKeeps, CountStep, StopsLeading
<1> QED
  BY <1>3, <1>4, <1>5, <1>6, <1>7, <1>8, <1>9, <1>11, <1>12, <1>13
  DEF Step, Persisted

(* No server counts for another.                                           *)
LEMMA FollowerKeepsOthers ==
  ASSUME TypeOK, NEW s \in Server, NEW m, NEW commit, NEW tick,
         FollowerHandleMessage(s, m, commit, tick)
  PROVE  \A p \in Server \ {s} : commitIndex'[p] = commitIndex[p]
<1>1. \E index : commitIndex' = [commitIndex EXCEPT ![s] = index]
  BY DEF FollowerHandleMessage, FollowerHandleRequestVote,
         FollowerHandleAppendEntries, FollowerDeniesOlderLeader,
         FollowerRejectsConflict, FollowerAcceptsHeartbeat,
         FollowerMergesEntries, FollowerCommits, FollowerIgnores, FollowerKeeps
<1> QED
  BY <1>1 DEF TypeOK

(* Counts and commits are only ever changed by a step of the same server.  *)
LEMMA CountsOwn ==
  ASSUME TypeInv, NEW s \in Server, Step(s)
  PROVE  \A p \in Server \ {s} :
           /\ matchIndex'[p] = matchIndex[p] /\ nextIndex'[p] = nextIndex[p]
           /\ pendingApplication'[p] = pendingApplication[p]
           /\ commitIndex'[p] = commitIndex[p]
<1> DEFINE Own == \A p \in Server \ {s} :
                    /\ matchIndex'[p] = matchIndex[p]
                    /\ nextIndex'[p] = nextIndex[p]
                    /\ pendingApplication'[p] = pendingApplication[p]
                    /\ commitIndex'[p] = commitIndex[p]
<1> USE DEF leaderVars, historyVars
<1>1. /\ TypeOK
      /\ DOMAIN matchIndex = Server /\ DOMAIN nextIndex = Server
      /\ DOMAIN pendingApplication = Server /\ DOMAIN commitIndex = Server
  BY DEF TypeInv, TypeOK
<1>2. ASSUME UNCHANGED <<commitIndex, leaderVars>> PROVE Own
  BY <1>2
<1>3. ASSUME NEW m, ConvertToFollower(s, m) PROVE Own
  BY <1>1, <1>3, FollowerKeepsOthers DEF ConvertToFollower
<1>4. CASE FollowerTimesOut(s) \/ CandidateTimesOut(s)
  BY <1>1, <1>4 DEF FollowerTimesOut, CandidateTimesOut, StartElection
<1>5. CASE LeaderSendsHeartbeat(s)
  BY <1>2, <1>5 DEF LeaderSendsHeartbeat
<1>6. ASSUME NEW m \in messages, Receive(s, m) PROVE Own
  <2>1. CASE FollowerReceives(s, m)
    BY <1>1, <2>1, FollowerKeepsOthers DEF FollowerReceives
  <2>2. CASE DeferToNewerTerm(s, m)
    BY <1>2, <2>2 DEF DeferToNewerTerm
  <2>3. CASE CandidateHandleGrantVote(s, m)
    BY <1>1, <2>3 DEF CandidateHandleGrantVote, BecomeLeader
  <2>4. CASE CandidateHandleRequestVote(s, m)
    BY <1>2, <2>4 DEF CandidateHandleRequestVote
  <2>5. CASE CandidateHandleAppendEntries(s, m)
    BY <1>2, <1>3, <2>5 DEF CandidateHandleAppendEntries
  <2>6. CASE LeaderHandleRequestVote(s, m)
    BY <1>2, <2>6 DEF LeaderHandleRequestVote
  <2>7. CASE LeaderHandleRejectEntries(s, m)
    BY <1>1, <2>7 DEF LeaderHandleRejectEntries
  <2>8. CASE LeaderHandleAcceptEntries(s, m)
    <3>1. CASE UNCHANGED <<leaderVars, commitIndex>>
      BY <1>2, <3>1
    <3>2. CASE Counts(s, m.from, m.lastLogIndex)
      <4>1. /\ \E rest : pendingApplication' = [pendingApplication EXCEPT ![s] = rest]
            /\ \E index : commitIndex' = [commitIndex EXCEPT ![s] = index]
        BY <3>2 DEF Counts, MarkReplication
      <4>2. /\ nextIndex' = [nextIndex EXCEPT ![s][m.from] = m.lastLogIndex + 1]
            /\ matchIndex' = [matchIndex EXCEPT ![s][m.from] = m.lastLogIndex]
        BY <3>2 DEF Counts
      <4> QED
        BY <1>1, <4>1, <4>2
    <3> QED
      BY <2>8, <3>1, <3>2 DEF LeaderHandleAcceptEntries, Counts
  <2> QED
    BY <1>6, <2>1, <2>2, <2>3, <2>4, <2>5, <2>6, <2>7, <2>8
    DEF Receive, CandidateReceives, LeaderReceives
<1>7. CASE \E value \in Value : LeaderAppends(s, value)
  BY <1>2, <1>7 DEF LeaderAppends
<1>8. CASE Persisted(s)
  <2>1. CASE PersistedConvert(s)
    BY <1>3, <2>1 DEF PersistedConvert
  <2>2. CASE PersistedAppend(s)
    BY <1>1, <2>2 DEF PersistedAppend
  <2>3. CASE ~(PersistedConvert(s) \/ PersistedAppend(s))
    BY <1>2, <1>8, <2>3
    DEF Persisted, PersistedRequestVote, PersistedGrantVote, PersistedSetTerm,
        PersistedMergeEntries
  <2> QED
    BY <2>1, <2>2, <2>3
<1>9. CASE Restart(s)
  BY <1>1, <1>9 DEF Restart, FollowerKeeps
<1> QED
  BY <1>4, <1>5, <1>6, <1>7, <1>8, <1>9 DEF Step

-----------------------------------------------------------------------------
(* The invariant about counts and what follows from it *)

(* The invariants hold initially.                                          *)
LEMMA CountInvInit == Init => ReachInv /\ CountInv /\ MatchesReplies
<1> SUFFICES ASSUME Init PROVE ReachInv /\ CountInv /\ MatchesReplies
  OBVIOUS
<1>1. ReachInv
  BY DEF Init, ReachInv
<1>2. CountInv
  BY DEF Init, CountInv, CountsAt, ExactAt
<1>3. MatchesReplies
  BY DEF Init, MatchesReplies, MatchesReply
<1> QED
  BY <1>1, <1>2, <1>3

(* Every step preserves them.                                              *)
LEMMA CountInvNext ==
  /\ Inv /\ Inv' /\ VoteInv /\ ElectionInv
  /\ LeadInv /\ LeadInv' /\ LogInv /\ ReachInv /\ CountInv
  /\ MatchesReplies /\ [Next]_vars
  => ReachInv' /\ CountInv' /\ MatchesReplies'
<1> SUFFICES ASSUME Inv, Inv', VoteInv, ElectionInv, LeadInv, LeadInv', LogInv,
                    ReachInv, CountInv, MatchesReplies, [Next]_vars
             PROVE  ReachInv' /\ CountInv' /\ MatchesReplies'
  OBVIOUS
<1>1. TypeInv /\ TypeInv' /\ TypeOK /\ TypeOK' /\ LogIsStored /\ Candidates
  BY DEF Inv, TypeInv, ElectionInv
<1>2. CASE Next
  <2>1. PICK s \in Server : Step(s)
    BY <1>2 DEF Next
  <2>2. VoteStep(s)
    BY <1>1, <2>1, VotesStep
  <2>3. ElectionStep(s)
    BY <1>1, <2>1, <2>2, ElectionStepOf
  <2>4. LeadStep(s)
    BY <1>1, <2>1, LeadStepOf
  <2>5. LogStep(s)
    BY <1>1, <2>1, LogStepOf
  <2>6. AcksUpdates(s)
    BY <1>1, <2>1, AcksOfStep
  <2>7. ReachInv'
    BY <1>1, <2>2, <2>3, <2>4, <2>5, <2>6, ReachStepInv
  <2>8. OthersKeepCounts(s)
    BY <1>1, <2>1, <2>2, <2>3, <2>5, CountsOwn
    DEF OthersKeepCounts, VoteStep, OthersKeepVotes, ElectionStep,
        OthersKeepRoles, LogStep
  <2>9. CountStep(s)
    BY <1>1, <2>1, CountStepOf DEF Candidates, CountInv
  <2>10. MatchesReplies'
    BY <1>1, <2>2, <2>8, <2>9, MatchesStepInv DEF VoteStep
  <2> QED
    BY <1>1, <2>2, <2>7, <2>8, <2>9, <2>10, CountStepInv DEF VoteStep
<1>3. CASE UNCHANGED vars
  <2>1. UNCHANGED <<role, currentTerm, log, operation, commitIndex, nextIndex,
                    matchIndex, pendingApplication, messages, elected>>
    BY <1>3 DEF vars, leaderVars, historyVars
  <2>2. ReachInv'
    BY <2>1 DEF ReachInv, InReach, Leads, Reach, Leadership
  <2>3. \A s : LeaderCounts(s)' = LeaderCounts(s)
    BY <2>1
    DEF LeaderCounts, TracksFollower, WaitsInOrder, WaitingCounted, Matched,
        HalfOfPeers
  <2>4. \A s : ExactAt(s)' = ExactAt(s)
    BY <2>1 DEF ExactAt, ExactlyCounted, RepliesAreNew, Matched, HalfOfPeers
  <2>5. MatchesReplies'
    BY <2>1 DEF MatchesReplies, MatchesReply
  <2> QED
    BY <2>1, <2>2, <2>3, <2>4, <2>5 DEF CountInv, CountsAt
<1> QED
  BY <1>2, <1>3

(* They hold in every reachable state.                                     *)
LEMMA CountInvariance == Spec => [](ReachInv /\ CountInv /\ MatchesReplies)
BY CountInvInit, CountInvNext, Invariance, VoteInvariance, ElectionInvariance,
   LogInvariance, PTL DEF Spec

(* The counter of an entry that waits to be applied is right, as long as   *)
(* the leader gets no replies to an earlier leadership of its own.         *)
THEOREM AcceptsCountedHolds == Spec => []AcceptsCounted
<1>1. CountInv => AcceptsCounted
  BY DEF CountInv, ExactAt, ExactlyCounted, AcceptsCounted
<1> QED
  BY <1>1, CountInvariance, PTL

(* A leader commits an entry only when followers that are a majority with  *)
(* it sent it an acceptance of the entry in its term, as long as it gets   *)
(* no replies to an earlier leadership of its own.                         *)
THEOREM NewCommitsAreAcceptedHolds == Spec => []NewCommitsAreAccepted
<1>1. ASSUME TypeInv, CountInv, MatchesReplies PROVE NewCommitsAreAccepted
  <2> SUFFICES ASSUME NEW s \in Server, role[s] = "Leader", RepliesAreNew(s),
                      commitIndex[s] > 0
               PROVE  WithLeaderIsMajority(AcceptedBy(s, commitIndex[s]))
    BY DEF NewCommitsAreAccepted
  <2> DEFINE matched  == Matched(s, commitIndex[s])
             accepted == AcceptedBy(s, commitIndex[s])
  <2>1. HalfOfPeers <= Cardinality(matched)
    BY <1>1 DEF CountInv, CountsAt, LeaderCounts
  <2>2. ASSUME NEW p \in matched PROVE p \in accepted
    <3>1. p \in Peers(s) /\ matchIndex[s][p] >= commitIndex[s]
      BY DEF Matched
    <3>2. matchIndex[s][p] \in Nat /\ commitIndex[s] \in Nat
      BY <1>1, <3>1, CountTypes
    <3>3. PICK m \in messages : /\ m.type = "AcceptEntries"
                                /\ m.from = p
                                /\ m.to = s
                                /\ m.lastLogIndex = matchIndex[s][p]
      BY <1>1, <3>1, <3>2 DEF MatchesReplies, MatchesReply
    <3>4. m.term = currentTerm[s]
      BY <3>3 DEF RepliesAreNew
    <3> QED
      BY <3>1, <3>3, <3>4 DEF AcceptedBy
  <2>3. accepted \subseteq Server
    BY DEF AcceptedBy, Peers
  <2> HIDE DEF matched, accepted
  <2>4. /\ Cardinality(matched) <= Cardinality(accepted)
        /\ Cardinality(matched) \in Nat /\ Cardinality(accepted) \in Nat
    <3>1. IsFiniteSet(accepted) /\ matched \subseteq accepted
      BY <2>2, <2>3, ServerAssumption, FS_Subset
    <3> QED
      BY <3>1, FS_Subset, FS_CardinalityType
  <2>5. HalfOfPeers \in Nat /\ Cardinality(Server) \in Nat
    BY HalfOfPeersType, ServerAssumption, FS_CardinalityType
  <2>6. 2 * (Cardinality(accepted) + 1) > Cardinality(Server)
    BY <2>1, <2>4, <2>5, HalfAndOneIsMajority
  <2> QED
    BY <2>6 DEF WithLeaderIsMajority, accepted
<1>2. Inv => TypeInv
  BY DEF Inv
<1> QED
  BY <1>1, <1>2, Invariance, CountInvariance, PTL

-----------------------------------------------------------------------------
(* What followers commit *)

(* Links that were ever created, those no log has any more included: they   *)
(* still agree, and leaders still have those of their terms.               *)
Place(k) == [index |-> k.index, term |-> k.entry.term]

EverCreated(links) ==
  /\ AllLinks \subseteq links
  /\ Agree(links)
  /\ \A k \in links : k.index \in Nat
  /\ Led({Place(k) : k \in links})

(* What an update says is committed was committed by its leader, from the  *)
(* log of which the update is.                                             *)
CommittedUpTo(l, index) ==
  {[index |-> i, entry |-> l[i]] : i \in 1 .. index} \subseteq committed

ToldFrom(l, links, m) ==
  /\ LinksOfLog(l) \subseteq links
  /\ UpdateOf(l, m)
  /\ CommittedUpTo(l, Min2(m.leaderCommit, m.prevLogIndex))

Told(links) == \A m \in Updates : \E l \in Seq(Entry) : ToldFrom(l, links, m)

(* What a leader takes for committed is.                                   *)
LeadersCommitted ==
  \A s \in Server : role[s] = "Leader" => CommittedUpTo(log[s], commitIndex[s])

(* What is committed was, with all before it, in a log of such links.      *)
CommittedFrom(l, links, c) ==
  /\ LinksOfLog(l) \subseteq links
  /\ c.index \in 1 .. Len(l)
  /\ l[c.index] = c.entry
  /\ CommittedUpTo(l, c.index)

FromLogs(links) ==
  \A c \in committed : \E l \in Seq(Entry) : CommittedFrom(l, links, c)

CommitInv ==
  /\ \E links : EverCreated(links) /\ Told(links) /\ FromLogs(links)
  /\ LeadersCommitted

(* Links that were ever created agree with the one that a step appends.    *)
LEMMA AppendedAgrees ==
  ASSUME TypeInv, LeadInv, LogInv, NEW s \in Server, NEW links,
         EverCreated(links)
  PROVE  Agree(links \union Appended(s))
<1>1. \A new1, new2 \in Appended(s) : new1 = new2
  BY DEF Appended
<1>2. ASSUME NEW new \in Appended(s), NEW k \in links,
             k.index = new.index, k.entry.term = new.entry.term
      PROVE  FALSE
  <2>1. /\ Leads(s) /\ new.index = LastIndex(log[s]) + 1
        /\ new.entry.term = currentTerm[s]
    BY AppendedIsNew
  <2>2. /\ Place(k) \in {Place(j) : j \in links}
        /\ Place(k).index = k.index /\ Place(k).term = k.entry.term
    BY DEF Place
  <2>3. k.index <= LastIndex(log[s])
    BY <1>2, <2>1, <2>2 DEF EverCreated, Led
  <2>4. LastIndex(log[s]) \in Nat
    BY DEF TypeInv, TypeOK, LastIndex
  <2> QED
    BY <1>2, <2>1, <2>3, <2>4
<1> QED
  BY <1>1, <1>2 DEF EverCreated, Agree

(* So a step adds at most that one to the links ever created.              *)
LEMMA EverCreatedStep ==
  ASSUME TypeInv, TypeOK', ElectionSafety', LeadInv, LogInv,
         NEW s \in Server, VoteStep(s), ElectionStep(s), LeadStep(s), LogStep(s),
         NEW links, EverCreated(links)
  PROVE  \E more : links \subseteq more /\ EverCreated(more)'
<1> DEFINE more  == links \union Appended(s)
           old   == {Place(k) : k \in links}
           after == {Place(k) : k \in more}
<1>1. LastIndex(log[s]) \in Nat
  BY DEF TypeInv, TypeOK, LastIndex
<1>2. /\ \A k \in links : k.index \in Nat
      /\ \A new \in Appended(s) : new.index \in Nat
  BY <1>1 DEF EverCreated, Appended
<1>3. Led(old) /\ \A k \in old : k.index \in Nat
  BY <1>2 DEF EverCreated, Place
<1>4. \A k \in after :
        \/ k \in old
        \/ \E new \in Appended(s) :
             k.index = new.index /\ k.term = new.entry.term
  BY DEF Place
<1>5. ASSUME NEW all, all = more PROVE EverCreated(all)'
  <2>1. AllLinks' \subseteq all
    BY <1>5, NoOtherLinks DEF EverCreated
  <2>2. Agree(all)
    BY <1>5, AppendedAgrees
  <2>3. \A k \in all : k.index \in Nat
    BY <1>2, <1>5
  <2>4. ASSUME NEW places, places = after PROVE Led(places)'
    <3> HIDE DEF old, after
    <3> QED
      BY <1>3, <1>4, <2>4, LedStepInv
  <2>5. Led({Place(k) : k \in all})'
    BY <1>5, <2>4 DEF Led, Place
  <2> QED
    BY <2>1, <2>2, <2>3, <2>5 DEF EverCreated, Agree
<1> QED
  BY <1>5

(* A follower that follows an update has the log the update is of, up to   *)
(* there, so that it commits what its leader committed.                    *)
LEMMA FollowerCommitsNothingNew ==
  ASSUME TypeInv, NEW links, EverCreated(links), Told(links),
         NEW s \in Server, NEW m \in Updates, NEW commit \in Nat,
         Follows(log[s], m.prevLogIndex, m.prevLogTerm),
         FollowerCommits(s, m, commit)
  PROVE  UNCHANGED committed
<1> DEFINE prev  == m.prevLogIndex
           kept  == TruncatedTo(log[s], prev)
           index == Min2(m.leaderCommit, LastIndex(kept))
<1>1. /\ m \in Message /\ prev \in Nat /\ m.leaderCommit \in Nat
      /\ log[s] \in Seq(Entry) /\ LastIndex(log[s]) \in Nat
      /\ LastIndex(log[s]) = Len(log[s])
      /\ LinksOfLog(log[s]) \subseteq links
  <2>1. LinksOfLog(log[s]) \subseteq AllLinks
    BY LinkSources
  <2>2. m \in Message /\ m.type = "AppendEntries"
    BY DEF Updates, TypeInv, TypeOK
  <2> QED
    BY <2>1, <2>2, MessageFields, ServerTypes
    DEF TypeInv, LastIndex, EverCreated
<1>2. prev \in 0 .. LastIndex(log[s])
  BY <1>1 DEF Follows, HasEntry
<1>3. /\ LastIndex(kept) = prev
      /\ \A i \in 1 .. prev : kept[i] = log[s][i]
  BY <1>1, <1>2, SubSeqProperties DEF TruncatedTo, LastIndex
<1>4. PICK l \in Seq(Entry) : ToldFrom(l, links, m)
  BY DEF Told
<1>5. \A i \in 1 .. prev : log[s][i] = l[i]
  <2>1. CASE prev = 0
    BY <2>1
  <2>2. CASE prev # 0
    <3>1. /\ prev \in 1 .. Len(log[s]) /\ prev \in 1 .. Len(l)
          /\ log[s][prev].term = l[prev].term
      BY <1>1, <1>2, <1>4, <2>2
      DEF ToldFrom, UpdateOf, Follows, TermAt, LastIndex
    <3> QED
      BY <1>1, <1>4, <3>1, SameUpToMatch, SMTT(40) DEF EverCreated, ToldFrom
  <2> QED
    BY <2>1, <2>2
<1>6. CASE m.leaderCommit > commit
  <2>1. /\ committed' = committed \union
             {[index |-> i, entry |-> kept[i]] : i \in 1 .. index}
        /\ index = Min2(m.leaderCommit, prev)
    BY <1>3, <1>6 DEF FollowerCommits, Commit
  <2>2. index \in Nat /\ index <= prev
    BY <1>1, <2>1 DEF Min2
  <2> HIDE DEF kept, index
  <2>3. \A i \in 1 .. index : kept[i] = l[i]
    BY <1>1, <1>3, <1>5, <2>2
  <2>4. \A i \in 1 .. index : [index |-> i, entry |-> l[i]] \in committed
    BY <1>4, <2>1 DEF ToldFrom, CommittedUpTo
  <2> QED
    BY <2>1, <2>3, <2>4
<1>7. CASE ~(m.leaderCommit > commit)
  BY <1>7 DEF FollowerCommits
<1> QED
  BY <1>6, <1>7

(* Whatever message a follower handles.                                    *)
LEMMA FollowerCommitsNothing ==
  ASSUME TypeInv, NEW links, EverCreated(links), Told(links),
         NEW s \in Server, NEW m \in messages, NEW commit \in Nat, NEW tick,
         FollowerHandleMessage(s, m, commit, tick)
  PROVE  UNCHANGED committed
<1>1. CASE FollowerHandleRequestVote(s, m, commit, tick)
  BY <1>1 DEF FollowerHandleRequestVote
<1>2. CASE FollowerIgnores(s, m, commit, tick)
  BY <1>2 DEF FollowerIgnores
<1>3. CASE FollowerHandleAppendEntries(s, m, commit, tick)
  <2>1. m \in Updates
    BY <1>3 DEF FollowerHandleAppendEntries, Updates
  <2>2. CASE /\ Follows(log[s], m.prevLogIndex, m.prevLogTerm)
             /\ FollowerCommits(s, m, commit)
    BY <2>1, <2>2, FollowerCommitsNothingNew
  <2>3. CASE UNCHANGED committed
    BY <2>3
  <2> QED
    BY <1>3, <2>2, <2>3
    DEF FollowerHandleAppendEntries, FollowerDeniesOlderLeader,
        FollowerRejectsConflict, FollowerAcceptsHeartbeat, FollowerMergesEntries
<1> QED
  BY <1>1, <1>2, <1>3 DEF FollowerHandleMessage

(* A leader commits more of its log.                                       *)
CommitsOwn(s) ==
  /\ role[s] = "Leader" /\ role'[s] = "Leader"
  /\ log'[s] = log[s]
  /\ commitIndex'[s] > commitIndex[s]
  /\ Commit(log[s], commitIndex'[s])

(* No other step adds to what is committed.                                *)
LEMMA CommitReceive ==
  ASSUME TypeInv, TypeInv', VoteInv, LogInv, NEW links, EverCreated(links),
         Told(links), NEW s \in Server, CountsAt(s),
         NEW m \in messages, Receive(s, m)
  PROVE  UNCHANGED committed \/ CommitsOwn(s)
<1> USE DEF historyVars
<1>1. commitIndex[s] \in Nat /\ m.to = s
  BY ServerTypes DEF TypeInv, Receive
<1>2. CASE FollowerReceives(s, m)
  BY <1>1, <1>2, FollowerCommitsNothing DEF FollowerReceives
<1>3. CASE DeferToNewerTerm(s, m)
  BY <1>3 DEF DeferToNewerTerm
<1>4. CASE \/ CandidateHandleGrantVote(s, m)
           \/ CandidateHandleRequestVote(s, m)
  BY <1>4 DEF CandidateHandleGrantVote, CandidateHandleRequestVote
<1>5. CASE CandidateHandleAppendEntries(s, m)
  BY <1>5, FollowerCommitsNothing
  DEF CandidateHandleAppendEntries, ConvertToFollower
<1>6. CASE LeaderHandleRequestVote(s, m) \/ LeaderHandleRejectEntries(s, m)
  BY <1>6 DEF LeaderHandleRequestVote, LeaderHandleRejectEntries
<1>7. CASE role[s] = "Leader" /\ LeaderHandleAcceptEntries(s, m)
  <2>1. /\ m.type = "AcceptEntries" /\ UNCHANGED <<role, log>>
        /\ \/ Counts(s, m.from, m.lastLogIndex)
           \/ UNCHANGED committed
    BY <1>7 DEF LeaderHandleAcceptEntries, Counts
  <2>2. m.from \in Peers(s) /\ m.lastLogIndex \in Nat
    <3>1. m.from # s
      BY <1>1, <2>1 DEF VoteInv, Remembered, RememberedAt
    <3> QED
      BY <2>1, <3>1, MessageFields DEF TypeInv, TypeOK, Peers
  <2>3. LeaderCounts(s)
    BY <1>7 DEF CountsAt
  <2>4. CASE Counts(s, m.from, m.lastLogIndex)
    BY <1>7, <2>1, <2>2, <2>3, <2>4, CountsKept DEF CommitsOwn
  <2> QED
    BY <2>1, <2>4
<1> QED
  BY <1>2, <1>3, <1>4, <1>5, <1>6, <1>7
  DEF Receive, CandidateReceives, LeaderReceives

(* Every step commits so.                                                  *)
LEMMA CommitStepOf ==
  ASSUME TypeInv, TypeInv', VoteInv, LogInv, NEW links, EverCreated(links),
         Told(links), NEW s \in Server, CountsAt(s), Step(s)
  PROVE  UNCHANGED committed \/ CommitsOwn(s)
<1> USE DEF historyVars
<1>1. CASE \E m \in messages : Receive(s, m)
  BY <1>1, CommitReceive
<1>2. CASE PersistedConvert(s)
  <2>1. operation[s].message \in messages
    BY <1>2 DEF PersistedConvert, LogInv, Heard, HeardAt
  <2> QED
    BY <1>2, <2>1, FollowerCommitsNothing
    DEF PersistedConvert, ConvertToFollower
<1>3. CASE \/ FollowerTimesOut(s) \/ CandidateTimesOut(s)
           \/ LeaderSendsHeartbeat(s)
           \/ \E value \in Value : LeaderAppends(s, value)
  BY <1>3
  DEF FollowerTimesOut, CandidateTimesOut, StartElection, LeaderSendsHeartbeat,
      LeaderAppends
<1>4. CASE \/ PersistedRequestVote(s) \/ PersistedGrantVote(s)
           \/ PersistedSetTerm(s) \/ PersistedMergeEntries(s)
           \/ PersistedAppend(s) \/ Restart(s)
  BY <1>4
  DEF PersistedRequestVote, PersistedGrantVote, PersistedSetTerm,
      PersistedMergeEntries, PersistedAppend, Restart
<1> QED
  BY <1>1, <1>2, <1>3, <1>4 DEF Step, Persisted

(* What leaders take for committed still is after a step.                  *)
LEMMA LeadersCommittedStep ==
  ASSUME TypeInv, TypeInv', VoteInv, CountInv, LeadersCommitted,
         committed \subseteq committed', NEW s \in Server,
         OthersKeepCounts(s), CountStep(s)
  PROVE  LeadersCommitted'
<1>1. ASSUME NEW p \in Server, role[p] = "Leader",
             commitIndex'[p] = commitIndex[p],
             \A i \in 1 .. LastIndex(log[p]) : log'[p][i] = log[p][i]
      PROVE  CommittedUpTo(log[p], commitIndex[p])'
  <2>1. commitIndex[p] <= LastIndex(log[p])
    BY <1>1 DEF CountInv, CountsAt, LeaderCounts
  <2>2. commitIndex[p] \in Nat /\ LastIndex(log[p]) \in Nat
    BY ServerTypes DEF TypeInv
  <2>3. \A i \in 1 .. commitIndex[p] : log'[p][i] = log[p][i]
    BY <1>1, <2>1, <2>2
  <2>4. CommittedUpTo(log[p], commitIndex[p])
    BY <1>1 DEF LeadersCommitted
  <2> QED
    BY <1>1, <2>3, <2>4 DEF CommittedUpTo
<1>2. ASSUME NEW p \in Server \ {s}, role'[p] = "Leader"
      PROVE  CommittedUpTo(log[p], commitIndex[p])'
  <2>1. /\ role[p] = "Leader" /\ commitIndex'[p] = commitIndex[p]
        /\ log'[p] = log[p]
    BY <1>2 DEF OthersKeepCounts
  <2> QED
    BY <1>1, <2>1
<1>3. ASSUME role'[s] = "Leader" PROVE CommittedUpTo(log[s], commitIndex[s])'
  <2>1. CASE StartsLeading(s)
    BY <2>1 DEF StartsLeading, CommittedUpTo
  <2>2. CASE CountsNothing(s) \/ CountsFromNow(s)
    BY <1>1, <2>2 DEF CountsNothing, CountsFromNow
  <2>3. CASE CountsReply(s)
    <3>1. PICK m \in messages : /\ m.type = "AcceptEntries"
                                /\ m.to = s
                                /\ Counts(s, m.from, m.lastLogIndex)
      BY <2>3 DEF CountsReply
    <3>2. m.from \in Peers(s) /\ m.lastLogIndex \in Nat
      <4>1. m.from # s
        BY <3>1 DEF VoteInv, Remembered, RememberedAt
      <4> QED
        BY <3>1, <4>1, MessageFields DEF TypeInv, TypeOK, Peers
    <3>3. LeaderCounts(s)
      BY <2>3 DEF CountInv, CountsReply, CountsAt, Leads
    <3>4. \/ commitIndex'[s] = commitIndex[s]
          \/ Commit(log[s], commitIndex'[s])
      BY <2>3, <3>1, <3>2, <3>3, CountsKept DEF CountsReply
    <3>5. CASE commitIndex'[s] = commitIndex[s]
      BY <1>1, <2>3, <3>5 DEF CountsReply, Leads
    <3>6. CASE Commit(log[s], commitIndex'[s])
      BY <2>3, <3>6 DEF CountsReply, Commit, CommittedUpTo
    <3> QED
      BY <3>4, <3>5, <3>6
  <2> QED
    BY <1>3, <2>1, <2>2, <2>3 DEF CountStep, StopsLeading
<1> QED
  BY <1>2, <1>3 DEF LeadersCommitted

(* And updates tell followers of no more.                                  *)
LEMMA ToldStep ==
  ASSUME TypeInv, TypeInv', LeadersCommitted', committed \subseteq committed',
         NEW s \in Server, LogStep(s), NEW links, Told(links),
         NEW more, links \subseteq more, EverCreated(more)'
  PROVE  Told(more)'
<1>1. ASSUME NEW m \in Updates', m \in messages
      PROVE  \E l \in Seq(Entry) : ToldFrom(l, more, m)'
  <2>1. m \in Updates
    BY <1>1 DEF Updates
  <2>2. PICK l \in Seq(Entry) : ToldFrom(l, links, m)
    BY <2>1 DEF Told
  <2>3. ToldFrom(l, more, m)'
    BY <2>2 DEF ToldFrom, CommittedUpTo
  <2> QED
    BY <2>3
<1>2. ASSUME NEW m \in Updates', m \notin messages
      PROVE  \E l \in Seq(Entry) : ToldFrom(l, more, m)'
  <2>1. /\ Leads(s)' /\ UpdateOf(log'[s], m)
        /\ m.leaderCommit \in {0, commitIndex'[s]}
    BY <1>2 DEF Updates, LogStep, SendsUpdates
  <2>2. /\ log'[s] \in Seq(Entry) /\ commitIndex'[s] \in Nat
        /\ m.prevLogIndex \in Nat
    BY <1>2, MessageFields DEF Updates, TypeInv, TypeOK
  <2>3. LinksOfLog(log'[s]) \subseteq more
    BY DEF EverCreated, AllLinks
  <2>4. CommittedUpTo(log[s], commitIndex[s])'
    BY <2>1 DEF LeadersCommitted, Leads
  <2>5. \A i \in 1 .. Min2(m.leaderCommit, m.prevLogIndex) :
          i \in 1 .. commitIndex'[s]
    BY <2>1, <2>2 DEF Min2
  <2>6. ASSUME NEW l, l = log'[s] PROVE ToldFrom(l, more, m)'
    BY <2>1, <2>3, <2>4, <2>5, <2>6 DEF ToldFrom, CommittedUpTo
  <2> QED
    BY <2>2, <2>6
<1> QED
  BY <1>1, <1>2 DEF Told

-----------------------------------------------------------------------------
(* The invariant about what is committed and what follows from it *)

(* What a leader commits comes from its log, which is made of links.       *)
LEMMA FromLogsStep ==
  ASSUME TypeInv', CountInv', NEW s \in Server,
         UNCHANGED committed \/ CommitsOwn(s),
         NEW links, FromLogs(links),
         NEW more, links \subseteq more, EverCreated(more)'
  PROVE  FromLogs(more)'
<1>1. committed \subseteq committed'
  BY DEF CommitsOwn, Commit
<1>2. ASSUME NEW c \in committed', c \in committed
      PROVE  \E l \in Seq(Entry) : CommittedFrom(l, more, c)'
  <2>1. PICK l \in Seq(Entry) : CommittedFrom(l, links, c)
    BY <1>2 DEF FromLogs
  <2>2. CommittedFrom(l, more, c)'
    BY <1>1, <2>1 DEF CommittedFrom, CommittedUpTo
  <2> QED
    BY <2>2
<1>3. ASSUME NEW c \in committed', c \notin committed
      PROVE  \E l \in Seq(Entry) : CommittedFrom(l, more, c)'
  <2>1. /\ role'[s] = "Leader" /\ log'[s] = log[s]
        /\ Commit(log[s], commitIndex'[s])
    BY <1>3 DEF CommitsOwn
  <2>2. /\ log'[s] \in Seq(Entry) /\ Len(log'[s]) \in Nat
        /\ commitIndex'[s] \in Nat /\ commitIndex'[s] <= Len(log'[s])
    BY <2>1 DEF TypeInv, TypeOK, CountInv, CountsAt, LeaderCounts, LastIndex
  <2>3. PICK i \in 1 .. commitIndex'[s] : c = [index |-> i, entry |-> log'[s][i]]
    BY <1>3, <2>1 DEF Commit
  <2>4. LinksOfLog(log'[s]) \subseteq more
    BY DEF EverCreated, AllLinks
  <2>5. CommittedUpTo(log[s], i)'
    BY <2>1, <2>2, <2>3 DEF Commit, CommittedUpTo
  <2>6. ASSUME NEW l, l = log'[s] PROVE CommittedFrom(l, more, c)'
    <3>1. i \in 1 .. Len(l) /\ c.index = i /\ c.entry = l[i]
      BY <2>2, <2>3, <2>6
    <3> QED
      BY <2>4, <2>5, <2>6, <3>1 DEF CommittedFrom, CommittedUpTo
  <2> QED
    BY <2>2, <2>6
<1> QED
  BY <1>2, <1>3 DEF FromLogs

(* The invariant holds initially.                                         *)
LEMMA CommitInvInit == Init => CommitInv
<1> SUFFICES ASSUME Init PROVE CommitInv
  OBVIOUS
<1>1. Updates = {} /\ \A s \in Server : log[s] = << >> /\ storedLog[s] = << >>
  BY DEF Init, Updates
<1>2. LinksOfLog(<< >>) = {}
  BY DEF LinksOfLog, LinksOf
<1>3. AllLinks = {}
  BY <1>1, <1>2 DEF AllLinks
<1>4. EverCreated({}) /\ Told({}) /\ FromLogs({})
  BY <1>1, <1>3 DEF Init, EverCreated, Agree, Led, Told, FromLogs
<1>5. LeadersCommitted
  BY DEF Init, LeadersCommitted
<1> QED
  BY <1>4, <1>5 DEF CommitInv

(* The step of one server: what it commits, and the invariant after it.    *)
LEMMA CommitInvStep ==
  ASSUME Inv, Inv', VoteInv, ElectionInv, ElectionSafety', LeadInv, LogInv,
         CountInv, CountInv', CommitInv, NEW s \in Server, Step(s)
  PROVE  /\ CommitInv'
         /\ UNCHANGED committed \/ CommitsOwn(s)
<1>1. /\ TypeInv /\ TypeInv' /\ TypeOK /\ TypeOK' /\ LogIsStored /\ Candidates
      /\ LeadersCommitted
  BY DEF Inv, TypeInv, ElectionInv, CommitInv
<1>2. PICK links : EverCreated(links) /\ Told(links) /\ FromLogs(links)
  BY DEF CommitInv
<1>3. VoteStep(s)
  BY <1>1, VotesStep
<1>4. ElectionStep(s)
  BY <1>1, <1>3, ElectionStepOf
<1>5. LeadStep(s)
  BY <1>1, LeadStepOf
<1>6. LogStep(s)
  BY <1>1, LogStepOf
<1>7. OthersKeepCounts(s)
  BY <1>1, <1>3, <1>4, <1>6, CountsOwn
  DEF OthersKeepCounts, VoteStep, OthersKeepVotes, ElectionStep,
      OthersKeepRoles, LogStep
<1>8. CountsAt(s) /\ CountStep(s)
  BY <1>1, CountStepOf DEF Candidates, CountInv
<1>9. UNCHANGED committed \/ CommitsOwn(s)
  BY <1>1, <1>2, <1>8, CommitStepOf
<1>10. committed \subseteq committed'
  BY <1>9 DEF CommitsOwn, Commit
<1>11. LeadersCommitted'
  BY <1>1, <1>7, <1>8, <1>10, LeadersCommittedStep
<1>12. PICK more : links \subseteq more /\ EverCreated(more)'
  BY <1>1, <1>2, <1>3, <1>4, <1>5, <1>6, EverCreatedStep
<1>13. Told(more)'
  BY <1>1, <1>2, <1>6, <1>10, <1>11, <1>12, ToldStep
<1>14. FromLogs(more)'
  BY <1>1, <1>2, <1>9, <1>12, FromLogsStep
<1> QED
  BY <1>9, <1>11, <1>12, <1>13, <1>14 DEF CommitInv

(* Every step preserves the invariant.                                     *)
LEMMA CommitInvNext ==
  /\ Inv /\ Inv' /\ VoteInv /\ ElectionInv /\ ElectionSafety'
  /\ LeadInv /\ LogInv /\ CountInv /\ CountInv' /\ CommitInv /\ [Next]_vars
  => CommitInv'
<1> SUFFICES ASSUME Inv, Inv', VoteInv, ElectionInv, ElectionSafety', LeadInv,
                    LogInv, CountInv, CountInv', CommitInv, [Next]_vars
             PROVE  CommitInv'
  OBVIOUS
<1>1. CASE Next
  BY <1>1, CommitInvStep DEF Next
<1>2. CASE UNCHANGED vars
  <2>1. UNCHANGED <<role, currentTerm, log, storedLog, operation, commitIndex,
                    messages, elected, committed>>
    BY <1>2 DEF vars, persistentVars, historyVars
  <2>2. AllLinks' = AllLinks /\ Updates' = Updates
    BY <2>1 DEF AllLinks, Updates
  <2>3. PICK links : EverCreated(links) /\ Told(links) /\ FromLogs(links)
    BY DEF CommitInv
  <2>4. EverCreated(links)'
    BY <2>1, <2>2, <2>3 DEF EverCreated, Agree, Led, Leads, Place
  <2>5. Told(links)'
    BY <2>1, <2>2, <2>3 DEF Told, ToldFrom, CommittedUpTo
  <2>6. LeadersCommitted'
    BY <2>1 DEF CommitInv, LeadersCommitted, CommittedUpTo
  <2>7. FromLogs(links)'
    BY <2>1, <2>3 DEF FromLogs, CommittedFrom, CommittedUpTo
  <2> QED
    BY <2>4, <2>5, <2>6, <2>7 DEF CommitInv
<1> QED
  BY <1>1, <1>2

(* It holds in every reachable state.                                      *)
LEMMA CommitInvariance == Spec => []CommitInv
BY CommitInvInit, CommitInvNext, Invariance, VoteInvariance,
   ElectionInvariance, ElectionSafetyHolds, LogInvariance, CountInvariance, PTL
   DEF Spec

(* Only a leader's step adds to what is committed: what a follower commits *)
(* when it is told to, a leader committed before.                          *)
THEOREM OnlyLeadersCommitHolds == Spec => OnlyLeadersCommit
<1> DEFINE LeadersOnly ==
      committed' # committed =>
        \E s \in Server : /\ role[s] = "Leader"
                          /\ commitIndex'[s] > commitIndex[s]
<1>1. ASSUME Inv, Inv', VoteInv, ElectionInv, ElectionSafety', LeadInv, LogInv,
             CountInv, CountInv', CommitInv, [Next]_vars
      PROVE  [LeadersOnly]_vars
  <2>1. CASE Next
    BY <1>1, <2>1, CommitInvStep DEF Next, CommitsOwn
  <2>2. CASE UNCHANGED vars
    BY <2>2
  <2> QED
    BY <1>1, <2>1, <2>2
<1>2. Spec => [][LeadersOnly]_vars
  BY <1>1, Invariance, VoteInvariance, ElectionInvariance, ElectionSafetyHolds,
     LogInvariance, CountInvariance, CommitInvariance, PTL DEF Spec
<1> QED
  BY <1>2 DEF OnlyLeadersCommit

(* Two entries committed at one index in one term are the same, and a log  *)
(* that holds one has only committed entries before it.                    *)
THEOREM CommitsMatchHolds == Spec => []CommitsMatch
<1>1. ASSUME TypeInv, CommitInv PROVE CommitsMatch
  <2>1. PICK links : EverCreated(links) /\ FromLogs(links)
    BY <1>1 DEF CommitInv
  <2>2. Agree(links) /\ committed \subseteq [index : Nat, entry : Entry]
    BY <1>1, <2>1 DEF EverCreated, TypeInv, TypeOK
  <2> SUFFICES ASSUME NEW c \in committed
               PROVE  /\ \A d \in committed :
                           d.index = c.index /\ d.entry.term = c.entry.term => d = c
                      /\ \A s \in Server :
                           /\ c.index <= LastIndex(log[s])
                           /\ log[s][c.index].term = c.entry.term
                           => \A i \in 1 .. c.index :
                                [index |-> i, entry |-> log[s][i]] \in committed
    BY DEF CommitsMatch
  <2>3. PICK l \in Seq(Entry) : CommittedFrom(l, links, c)
    BY <2>1 DEF FromLogs
  <2>4. /\ c.index \in Nat /\ c.index \in 1 .. Len(l) /\ l[c.index] = c.entry
        /\ LinksOfLog(l) \subseteq links
    BY <2>3 DEF CommittedFrom
  <2>5. ASSUME NEW other \in Seq(Entry), LinksOfLog(other) \subseteq links,
               c.index \in 1 .. Len(other), other[c.index].term = c.entry.term
        PROVE  \A i \in 1 .. c.index : other[i] = l[i]
    <3>1. other[c.index].term = l[c.index].term
      BY <2>4, <2>5
    <3>2. ASSUME NEW n \in Nat, n \in 1 .. Len(l), n \in 1 .. Len(other),
                 other[n].term = l[n].term
          PROVE  \A i \in 1 .. n : other[i] = l[i]
      <4>1. Agree(links) /\ LinksOfLog(l) \subseteq links
        BY <2>2, <2>4
      <4> QED
        BY <2>5, <3>2, <4>1, SameUpToMatch, ZenonT(60)
    <3> QED
      BY <2>4, <2>5, <3>1, <3>2
  <2>6. ASSUME NEW d \in committed, d.index = c.index, d.entry.term = c.entry.term
        PROVE  d = c
    <3>1. PICK other \in Seq(Entry) : CommittedFrom(other, links, d)
      BY <2>1 DEF FromLogs
    <3>2. /\ LinksOfLog(other) \subseteq links
          /\ c.index \in 1 .. Len(other) /\ other[c.index] = d.entry
      BY <2>6, <3>1 DEF CommittedFrom
    <3>3. other[c.index] = l[c.index]
      <4>1. other[c.index].term = c.entry.term /\ c.index \in 1 .. c.index
        BY <2>4, <2>6, <3>2
      <4>2. \A i \in 1 .. c.index : other[i] = l[i]
        BY <2>5, <3>2, <4>1
      <4> QED
        BY <4>1, <4>2
    <3>4. d.entry = c.entry
      BY <2>4, <3>2, <3>3
    <3>5. \A x \in [index : Nat, entry : Entry] :
            x = [index |-> x.index, entry |-> x.entry]
      OBVIOUS
    <3>6. /\ c = [index |-> c.index, entry |-> c.entry]
          /\ d = [index |-> d.index, entry |-> d.entry]
      BY <2>2, <2>6, <3>5
    <3> QED
      BY <2>6, <3>4, <3>6
  <2>7. ASSUME NEW s \in Server, c.index <= LastIndex(log[s]),
               log[s][c.index].term = c.entry.term, NEW i \in 1 .. c.index
        PROVE  [index |-> i, entry |-> log[s][i]] \in committed
    <3>1. log[s] \in Seq(Entry) /\ LinksOfLog(log[s]) \subseteq links
      <4>1. LinksOfLog(log[s]) \subseteq AllLinks
        BY LinkSources
      <4> QED
        BY <1>1, <2>1, <4>1, ServerTypes DEF EverCreated, TypeInv
    <3>2. c.index \in 1 .. Len(log[s])
      BY <2>4, <2>7, <3>1 DEF LastIndex
    <3>3. log[s][i] = l[i]
      BY <2>5, <2>7, <3>1, <3>2
    <3>4. [index |-> i, entry |-> l[i]] \in committed
      BY <2>3 DEF CommittedFrom, CommittedUpTo
    <3> QED
      BY <3>3, <3>4
  <2> QED
    BY <2>6, <2>7
<1>2. Inv => TypeInv
  BY DEF Inv
<1> QED
  BY <1>1, <1>2, Invariance, CommitInvariance, PTL

=============================================================================
