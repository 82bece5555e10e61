---------------------------- MODULE RaftLogProofs ----------------------------
(***************************************************************************)
(* Theorems about the logs of module Raft: two logs with an entry of the   *)
(* same term at the same index are the same up to there, for every         *)
(* cluster, network and number of crashes, and also for what a crash       *)
(* restores.                                                               *)
(*                                                                         *)
(* The argument is about links.  A link is an entry with its index and the *)
(* term of the entry before it.  Whatever log or message a link is in, the *)
(* same term at the same index means the same link: a leader creates one   *)
(* link per index and term, all other steps only copy links.               *)
(***************************************************************************)
EXTENDS RaftElectionProofs, WellFoundedInduction

-----------------------------------------------------------------------------
(* Links *)

(* The links of entries that follow index `prev`, of term `prevTerm`.      *)
LinkAt(prev, prevTerm, entries, i) ==
  [index |-> prev + i, entry |-> entries[i],
   after |-> IF i = 1 THEN prevTerm ELSE entries[i - 1].term]

LinksOf(prev, prevTerm, entries) ==
  {LinkAt(prev, prevTerm, entries, i) : i \in 1 .. Len(entries)}

LinksOfLog(l) == LinksOf(0, 0, l)

Updates == {m \in messages : m.type = "AppendEntries"}

LinksOfUpdate(m) == LinksOf(m.prevLogIndex, m.prevLogTerm, m.entries)

(* The links of every log, of what a crash restores and of every message.  *)
AllLinks ==
  (UNION {LinksOfLog(log[s]) \union LinksOfLog(storedLog[s]) : s \in Server})
    \union (UNION {LinksOfUpdate(m) : m \in Updates})

(* A log's own prefix has no other links.                                  *)
LEMMA ShorterLinks ==
  ASSUME NEW l1 \in Seq(Entry), NEW l2 \in Seq(Entry), Len(l1) <= Len(l2),
         \A i \in 1 .. Len(l1) : l1[i] = l2[i]
  PROVE  LinksOfLog(l1) \subseteq LinksOfLog(l2)
<1>1. Len(l1) \in Nat /\ Len(l2) \in Nat
  OBVIOUS
<1>2. ASSUME NEW i \in 1 .. Len(l1) PROVE LinkAt(0, 0, l1, i) = LinkAt(0, 0, l2, i)
  <2>1. i = 1 \/ i - 1 \in 1 .. Len(l1)
    BY <1>1
  <2> QED
    BY <2>1 DEF LinkAt
<1>3. \A i \in 1 .. Len(l1) : i \in 1 .. Len(l2)
  BY <1>1
<1> QED
  BY <1>2, <1>3 DEF LinksOfLog, LinksOf

(* Nor does the part of it that an update carries.                         *)
LEMMA SuffixLinks ==
  ASSUME NEW l \in Seq(Entry), NEW prev \in 0 .. LastIndex(l)
  PROVE  LinksOf(prev, TermAt(l, prev), EntriesSince(l, prev + 1))
           \subseteq LinksOfLog(l)
<1> DEFINE es == EntriesSince(l, prev + 1)
<1>1. Len(l) \in Nat /\ prev \in Nat /\ prev <= Len(l)
  BY DEF LastIndex
<1>2. \A i \in prev + 1 .. Len(l) : l[i] \in Entry
  BY <1>1, ElementOfSeq
<1>3. /\ Len(es) = IF prev + 1 <= Len(l) THEN Len(l) - (prev + 1) + 1 ELSE 0
      /\ \A i \in 1 .. Len(l) - (prev + 1) + 1 : es[i] = l[prev + 1 + i - 1]
  BY <1>1, <1>2, SubSeqProperties, SMTT(40) DEF EntriesSince, LastIndex
<1> HIDE DEF es
<1>4. Len(es) = Len(l) - prev
  <2>1. CASE prev + 1 <= Len(l)
    BY <1>1, <1>3, <2>1
  <2>2. CASE prev = Len(l)
    BY <1>1, <1>3, <2>2
  <2> QED
    BY <1>1, <2>1, <2>2
<1>5. ASSUME NEW i \in 1 .. Len(es)
      PROVE  /\ prev + i \in 1 .. Len(l)
             /\ es[i] = l[prev + i]
  <2>1. i \in 1 .. Len(l) - (prev + 1) + 1 /\ prev + 1 + i - 1 = prev + i
    BY <1>1, <1>4
  <2> QED
    BY <1>1, <1>3, <1>4, <2>1
<1>6. ASSUME NEW i \in 1 .. Len(es)
      PROVE  LinkAt(prev, TermAt(l, prev), es, i) = LinkAt(0, 0, l, prev + i)
  <2>1. CASE i = 1
    BY <1>1, <1>5, <2>1 DEF LinkAt, TermAt
  <2>2. CASE i # 1
    <3>1. i - 1 \in 1 .. Len(es) /\ prev + (i - 1) = prev + i - 1 /\ prev + i # 1
      BY <1>1, <1>4, <2>2
    <3>2. es[i - 1] = l[prev + i - 1]
      BY <1>5, <3>1
    <3> QED
      BY <1>1, <1>5, <2>2, <3>1, <3>2 DEF LinkAt
  <2> QED
    BY <2>1, <2>2
<1>7. LinksOf(prev, TermAt(l, prev), es) \subseteq LinksOfLog(l)
  BY <1>5, <1>6 DEF LinksOfLog, LinksOf
<1> QED
  BY <1>7 DEF es

(* Entries added to a log add the links of those entries after its last.   *)
LEMMA ExtendedLinks ==
  ASSUME NEW l \in Seq(Entry), NEW es \in Seq(Entry)
  PROVE  LinksOfLog(Extended(l, es))
           \subseteq LinksOfLog(l) \union LinksOf(LastIndex(l), LastTerm(l), es)
<1> DEFINE all == Extended(l, es)
           n   == LastIndex(l)
<1>1. n = Len(l) /\ n \in Nat /\ Len(es) \in Nat
  BY DEF LastIndex
<1>2. /\ Len(all) = n + Len(es)
      /\ \A i \in 1 .. n : all[i] = l[i]
      /\ \A i \in 1 .. Len(es) : all[n + i] = es[i]
  BY <1>1, ConcatProperties DEF Extended
<1> HIDE DEF all, n
<1>3. ASSUME NEW j \in 1 .. Len(all)
      PROVE  \/ j \in 1 .. n /\ LinkAt(0, 0, all, j) = LinkAt(0, 0, l, j)
             \/ \E i \in 1 .. Len(es) :
                  LinkAt(0, 0, all, j) = LinkAt(n, LastTerm(l), es, i)
  <2>1. CASE j <= n
    <3>1. j \in 1 .. n /\ (j = 1 \/ j - 1 \in 1 .. n)
      BY <1>1, <1>2, <2>1
    <3>2. all[j] = l[j] /\ (j = 1 \/ all[j - 1] = l[j - 1])
      BY <1>2, <3>1
    <3> QED
      BY <3>1, <3>2 DEF LinkAt
  <2>2. CASE j > n
    <3> DEFINE i == j - n
    <3>1. i \in 1 .. Len(es) /\ j = n + i
      BY <1>1, <1>2, <2>2
    <3>2. all[j] = es[i]
      BY <1>2, <3>1
    <3>3. CASE i = 1
      <4>1. j = 1 \/ (n \in 1 .. n /\ j - 1 = n)
        BY <1>1, <3>1, <3>3
      <4>2. (IF j = 1 THEN 0 ELSE all[j - 1].term) = LastTerm(l)
        BY <1>1, <1>2, <3>1, <3>3, <4>1 DEF LastTerm, TermAt, n
      <4> QED
        BY <3>1, <3>2, <3>3, <4>2 DEF LinkAt
    <3>4. CASE i # 1
      <4>1. i - 1 \in 1 .. Len(es) /\ j - 1 = n + (i - 1) /\ j # 1
        BY <1>1, <3>1, <3>4
      <4>2. all[j - 1] = es[i - 1]
        BY <1>2, <4>1
      <4> QED
        BY <3>1, <3>2, <3>4, <4>1, <4>2 DEF LinkAt
    <3> QED
      BY <3>3, <3>4
  <2> QED
    BY <1>1, <1>2, <2>1, <2>2
<1>4. LinksOfLog(all) \subseteq LinksOfLog(l) \union LinksOf(n, LastTerm(l), es)
  BY <1>1, <1>3 DEF LinksOfLog, LinksOf
<1> QED
  BY <1>4 DEF all, n

-----------------------------------------------------------------------------
(* Logs whose links agree *)

(* A set of numbers has a least one.                                       *)
LEMMA LeastNumber ==
  ASSUME NEW T, T \subseteq Nat, T # {}
  PROVE  \E x \in T : \A y \in T : x <= y
<1> DEFINE less == {ss \in Nat \X Nat : ss[1] < ss[2]}
<1>1. IsWellFoundedOn(less, Nat)
  BY NatLessThanWellFounded DEF OpToRel
<1> HIDE DEF less
<1>2. PICK x \in T : \A y \in T : ~(<<y, x>> \in less)
  BY <1>1, WFMin, Zenon
<1>3. ASSUME NEW y \in T PROVE x <= y
  <2>1. x \in Nat /\ y \in Nat
    OBVIOUS
  <2>2. y < x => <<y, x>> \in less
    BY <2>1 DEF less
  <2> QED
    BY <1>2, <2>1, <2>2
<1> QED
  BY <1>3

(* Of the links of one set, the same term at the same index is the same    *)
(* link.                                                                   *)
Agree(links) ==
  \A k1, k2 \in links :
    k1.index = k2.index /\ k1.entry.term = k2.entry.term => k1 = k2

(* Two logs made of such links are the same up to an entry of the same     *)
(* term: otherwise the last difference before it would be between links    *)
(* whose terms are the same, since each link names the term before it.     *)
LEMMA SameUpToMatch ==
  ASSUME NEW links, Agree(links),
         NEW l1 \in Seq(Entry), LinksOfLog(l1) \subseteq links,
         NEW l2 \in Seq(Entry), LinksOfLog(l2) \subseteq links,
         NEW n \in Nat, n \in 1 .. Len(l1), n \in 1 .. Len(l2),
         l1[n].term = l2[n].term
  PROVE  \A i \in 1 .. n : l1[i] = l2[i]
<1> DEFINE D == {d \in Nat : n - d \in 1 .. n /\ l1[n - d] # l2[n - d]}
<1>1. Len(l1) \in Nat /\ Len(l2) \in Nat
  OBVIOUS
<1>2. ASSUME NEW i \in 1 .. n, l1[i].term = l2[i].term
      PROVE  LinkAt(0, 0, l1, i) = LinkAt(0, 0, l2, i)
  <2>1. i \in 1 .. Len(l1) /\ i \in 1 .. Len(l2)
    BY <1>1
  <2>2. LinkAt(0, 0, l1, i) \in links /\ LinkAt(0, 0, l2, i) \in links
    BY <2>1 DEF LinksOfLog, LinksOf
  <2> QED
    BY <1>2, <2>2 DEF Agree, LinkAt
<1>3. ASSUME D # {} PROVE FALSE
  <2>1. D \subseteq Nat
    OBVIOUS
  <2>2. PICK d \in D : \A e \in D : d <= e
    BY <1>3, <2>1, LeastNumber
  <2>3. d \in Nat /\ n - d \in 1 .. n /\ l1[n - d] # l2[n - d]
    BY <2>2
  <2>4. l1[n - d].term = l2[n - d].term
    <3>1. CASE d = 0
      BY <3>1
    <3>2. CASE d # 0
      <4> DEFINE i == n - d + 1
      <4>1. d - 1 \in Nat /\ i = n - (d - 1) /\ i \in 1 .. n /\ i # 1
            /\ i - 1 = n - d
        BY <2>3, <3>2
      <4>2. d - 1 \notin D
        <5> HIDE DEF D
        <5>1. ~(d <= d - 1)
          BY <2>3
        <5> QED
          BY <2>2, <5>1
      <4>3. l1[i] = l2[i]
        <5>1. n - (d - 1) \in 1 .. n
          BY <4>1
        <5>2. l1[n - (d - 1)] = l2[n - (d - 1)]
          BY <4>1, <4>2, <5>1
        <5> QED
          BY <4>1, <5>2
      <4>4. LinkAt(0, 0, l1, i).after = LinkAt(0, 0, l2, i).after
        BY <1>2, <4>1, <4>3
      <4> QED
        BY <4>1, <4>4 DEF LinkAt
    <3> QED
      BY <3>1, <3>2
  <2>5. LinkAt(0, 0, l1, n - d).entry = LinkAt(0, 0, l2, n - d).entry
    BY <1>2, <2>3, <2>4
  <2> QED
    BY <2>3, <2>5 DEF LinkAt
<1>4. ASSUME NEW i \in 1 .. n PROVE l1[i] = l2[i]
  <2>1. n - i \in Nat /\ n - (n - i) = i
    OBVIOUS
  <2> QED
    BY <1>3, <2>1
<1> QED
  BY <1>4

(* So they match in the sense of RaftProperties.                           *)
LEMMA AgreeingLogsMatch ==
  ASSUME NEW links, Agree(links),
         NEW l1 \in Seq(Entry), LinksOfLog(l1) \subseteq links,
         NEW l2 \in Seq(Entry), LinksOfLog(l2) \subseteq links
  PROVE  LogsMatch(l1, l2)
<1>1. Len(l1) \in Nat /\ Len(l2) \in Nat
  OBVIOUS
<1>2. ASSUME NEW n \in 1 .. Min2(Len(l1), Len(l2)), l1[n].term = l2[n].term
      PROVE  SubSeq(l1, 1, n) = SubSeq(l2, 1, n)
  <2>1. n \in Nat /\ n \in 1 .. Len(l1) /\ n \in 1 .. Len(l2)
    BY <1>1 DEF Min2
  <2>2. \A i \in 1 .. n : l1[i] = l2[i]
    BY <1>2, <2>1, SameUpToMatch
  <2>3. \A i \in 1 .. n : l1[i] \in Entry /\ l2[i] \in Entry
    BY <2>1, ElementOfSeq
  <2> DEFINE a == SubSeq(l1, 1, n)
             b == SubSeq(l2, 1, n)
  <2>4. /\ a \in Seq(Entry) /\ Len(a) = IF 1 <= n THEN n - 1 + 1 ELSE 0
        /\ \A i \in 1 .. n - 1 + 1 : a[i] = l1[1 + i - 1]
    BY <2>1, <2>3, SubSeqProperties
  <2>5. /\ b \in Seq(Entry) /\ Len(b) = IF 1 <= n THEN n - 1 + 1 ELSE 0
        /\ \A i \in 1 .. n - 1 + 1 : b[i] = l2[1 + i - 1]
    BY <2>1, <2>3, SubSeqProperties
  <2> HIDE DEF a, b
  <2>6. Len(a) = n /\ Len(b) = n
    BY <2>1, <2>4, <2>5
  <2>7. ASSUME NEW i \in 1 .. n PROVE a[i] = b[i]
    <3>1. i \in 1 .. n - 1 + 1 /\ 1 + i - 1 = i
      BY <2>1
    <3> QED
      BY <2>2, <2>4, <2>5, <3>1
  <2>8. a = b
    BY <2>4, <2>5, <2>6, <2>7, SeqEqual
  <2> QED
    BY <2>8 DEF a, b
<1> QED
  BY <1>2 DEF LogsMatch

-----------------------------------------------------------------------------
(* Who leads in which term *)

(* A leader that has not met a newer term yet.                             *)
Leads(s) == role[s] = "Leader" /\ operation[s].kind # "convert"

Leadership(s, term) == [server |-> s, term |-> term]

(* Whoever leads was elected in its term.                                  *)
LeadersElected ==
  \A s \in Server : Leads(s) => Leadership(s, currentTerm[s]) \in elected

(* No server forgets that it was elected, and one that is a candidate is   *)
(* one in a newer term.                                                    *)
ElectedRemembered ==
  \A e \in elected : e.term <= stored[e.server].currentTerm

CandidatesAreNew ==
  \A e \in elected : role[e.server] = "Candidate" =>
    e.term < currentTerm[e.server]

LeadInv == LeadersElected /\ ElectedRemembered /\ CandidatesAreNew

StepsDown(s) ==
  /\ role'[s] # "Candidate"
  /\ ~Leads(s)'
  /\ UNCHANGED elected

StandsForElection(s) ==
  /\ role'[s] = "Candidate"
  /\ UNCHANGED elected
  /\ \/ currentTerm'[s] > currentTerm[s]
     \/ role[s] = "Candidate" /\ currentTerm'[s] = currentTerm[s]

WinsElection(s) ==
  /\ role[s] = "Candidate"
  /\ role'[s] = "Leader"
  /\ stored[s].currentTerm = currentTerm[s]
  /\ currentTerm'[s] = currentTerm[s]
  /\ elected' = elected \union {Leadership(s, currentTerm[s])}

(* A leader's log only grows, by one entry per append().                   *)
StaysLeader(s) ==
  /\ Leads(s)
  /\ role'[s] = "Leader"
  /\ currentTerm'[s] = currentTerm[s]
  /\ UNCHANGED elected
  /\ LastIndex(log'[s]) >=
       LastIndex(log[s]) + (IF operation[s].kind = "append" THEN 1 ELSE 0)

(* What every step of server s does to its leadership.                     *)
LeadStep(s) ==
  \/ StepsDown(s)
  \/ StandsForElection(s)
  \/ WinsElection(s)
  \/ StaysLeader(s)

(* A step of that shape preserves the invariant about leaders.             *)
LEMMA LeadStepInv ==
  ASSUME TypeOK, TypeOK', VoteInv, LeadInv,
         NEW s \in Server, VoteStep(s), ElectionStep(s), LeadStep(s)
  PROVE  LeadInv'
<1>1. /\ LeadersElected /\ ElectedRemembered /\ CandidatesAreNew
      /\ elected \subseteq elected'
  BY DEF LeadInv, ElectionStep
<1>2. \A p \in Server \ {s} :
        /\ role'[p] = role[p] /\ operation'[p] = operation[p]
        /\ currentTerm'[p] = currentTerm[p] /\ stored'[p] = stored[p]
  BY DEF VoteStep, OthersKeepVotes, ElectionStep, OthersKeepRoles
<1>3. /\ currentTerm[s] \in Nat /\ currentTerm'[s] \in Nat
      /\ stored[s].currentTerm \in Nat /\ stored'[s].currentTerm \in Nat
      /\ stored[s].currentTerm <= currentTerm[s]
      /\ stored[s].currentTerm <= stored'[s].currentTerm
  <2>1. /\ currentTerm[s] \in Nat /\ currentTerm'[s] \in Nat
        /\ stored[s].currentTerm \in Nat /\ stored'[s].currentTerm \in Nat
    BY DEF TypeOK, State
  <2>2. stored[s].currentTerm <= currentTerm[s]
    BY DEF VoteInv, Remembers, RemembersAt
  <2>3. stored[s].currentTerm <= stored'[s].currentTerm
    BY <2>1, StoredMovesOn
  <2> QED
    BY <2>1, <2>2, <2>3
<1>4. \A e \in elected' : e.server \in Server /\ e.term \in Nat
  BY DEF TypeOK
<1>5. elected' = elected \/ WinsElection(s)
  BY DEF LeadStep, StepsDown, StandsForElection, StaysLeader
<1>6. ASSUME NEW p \in Server, Leads(p)'
      PROVE  Leadership(p, currentTerm[p])' \in elected'
  <2>1. CASE p = s
    BY <1>1, <1>6, <2>1
    DEF LeadersElected, LeadStep, StepsDown, StandsForElection, WinsElection,
        StaysLeader, Leads, Leadership
  <2>2. CASE p # s
    BY <1>1, <1>2, <1>6, <2>2 DEF LeadersElected, Leads, Leadership
  <2> QED
    BY <2>1, <2>2
<1>7. ASSUME NEW e \in elected' PROVE e.term <= stored'[e.server].currentTerm
  <2>1. CASE e \in elected /\ e.server # s
    BY <1>1, <1>2, <1>4, <2>1 DEF ElectedRemembered
  <2>2. CASE e \in elected /\ e.server = s
    <3>1. e.term <= stored[s].currentTerm /\ e.term \in Nat
      BY <1>1, <1>4, <2>2 DEF ElectedRemembered
    <3> QED
      BY <1>3, <2>2, <3>1
  <2>3. CASE e \notin elected
    <3>1. WinsElection(s) /\ e = Leadership(s, currentTerm[s])
      BY <1>5, <2>3 DEF WinsElection
    <3>2. e.server = s /\ e.term = stored[s].currentTerm
      BY <3>1 DEF WinsElection, Leadership
    <3> QED
      BY <1>3, <3>2
  <2> QED
    BY <2>1, <2>2, <2>3
<1>8. ASSUME NEW e \in elected', role'[e.server] = "Candidate"
      PROVE  e.term < currentTerm'[e.server]
  <2>1. CASE e.server # s
    <3>1. e \in elected
      BY <1>5, <2>1 DEF WinsElection, Leadership
    <3> QED
      BY <1>1, <1>2, <1>4, <1>8, <2>1, <3>1 DEF CandidatesAreNew
  <2>2. CASE e.server = s
    <3>1. StandsForElection(s)
      BY <1>8, <2>2
      DEF LeadStep, StepsDown, WinsElection, StaysLeader
    <3>2. e \in elected /\ e.term \in Nat
      BY <1>4, <3>1 DEF StandsForElection
    <3>3. e.term <= stored[s].currentTerm
      BY <1>1, <2>2, <3>2 DEF ElectedRemembered
    <3>4. role[s] = "Candidate" => e.term < currentTerm[s]
      BY <1>1, <2>2, <3>2 DEF CandidatesAreNew
    <3> QED
      BY <1>3, <2>2, <3>1, <3>2, <3>3, <3>4 DEF StandsForElection
  <2> QED
    BY <2>1, <2>2
<1> QED
  BY <1>6, <1>7, <1>8
  DEF LeadInv, LeadersElected, ElectedRemembered, CandidatesAreNew

(* A log that entries are added to is that much longer.                    *)
LEMMA ExtendedLog ==
  ASSUME NEW l \in Seq(Entry), NEW es \in Seq(Entry)
  PROVE  /\ Extended(l, es) \in Seq(Entry)
         /\ LastIndex(l) \in Nat
         /\ LastIndex(Extended(l, es)) = LastIndex(l) + Len(es)
<1>1. l \o es \in Seq(Entry) /\ Len(l \o es) = Len(l) + Len(es)
  BY ConcatProperties
<1> QED
  BY <1>1 DEF Extended, LastIndex

(* What append() adds.                                                     *)
LEMMA AppendedEntry ==
  ASSUME TypeOK, NEW s \in Server, operation[s].kind = "append"
  PROVE  /\ NewEntries(s) \in Seq(Entry)
         /\ NewEntries(s) =
              << [term |-> currentTerm[s], value |-> operation[s].value] >>
         /\ Len(NewEntries(s)) = 1
<1>1. NewEntries(s) \in Seq(Entry)
  BY NewEntriesType DEF WritesEntries
<1>2. NewEntries(s) =
        << [term |-> currentTerm[s], value |-> operation[s].value] >>
  BY DEF NewEntries
<1> QED
  BY <1>1, <1>2

(* A follower that handles a message is a follower after it.               *)
LEMMA ConversionStepsDown ==
  ASSUME TypeOK, NEW s \in Server, NEW m, ConvertToFollower(s, m)
  PROVE  StepsDown(s)
<1>1. role'[s] = "Follower" /\ UNCHANGED elected
  BY DEF ConvertToFollower, TypeOK
<1> QED
  BY <1>1 DEF StepsDown, Leads

(* A step that changes neither role, term nor log, unless by adding to it. *)
LEMMA RoleKept ==
  ASSUME TypeOK, TypeOK', NEW s \in Server,
         UNCHANGED <<role, currentTerm, elected>>,
         operation[s].kind # "convert",
         operation[s].kind # "append",
         LastIndex(log'[s]) >= LastIndex(log[s])
  PROVE  LeadStep(s)
<1>1. LastIndex(log[s]) \in Nat /\ LastIndex(log'[s]) \in Nat
  BY SMTT(40) DEF TypeOK, LastIndex
<1>2. CASE role[s] = "Leader"
  BY <1>1, <1>2 DEF LeadStep, StaysLeader, Leads
<1>3. CASE role[s] = "Candidate"
  BY <1>3 DEF LeadStep, StandsForElection
<1>4. CASE role[s] \notin {"Leader", "Candidate"}
  BY <1>4 DEF LeadStep, StepsDown, Leads
<1> QED
  BY <1>2, <1>3, <1>4

(* Every handler, of every role.                                           *)
LEMMA LeadReceives ==
  ASSUME TypeOK, TypeOK', VoteInv, NEW s \in Server, NEW m \in messages,
         Receive(s, m)
  PROVE  LeadStep(s)
<1>1. Free(s) /\ RemembersAt(s) /\ m \in Message /\ currentTerm[s] \in Nat
  BY DEF Receive, VoteInv, Remembers, TypeOK
<1>2. operation[s].kind = "none" /\ LastIndex(log[s]) \in Nat
  BY <1>1 DEF Free, Idle, TypeOK, LastIndex
<1>3. ASSUME UNCHANGED <<role, currentTerm, elected, log>> PROVE LeadStep(s)
  BY <1>2, <1>3, RoleKept
<1>4. CASE FollowerReceives(s, m)
  BY <1>4 DEF FollowerReceives, LeadStep, StepsDown, Leads
<1>5. CASE DeferToNewerTerm(s, m)
  <2>1. /\ UNCHANGED <<role, elected>>
        /\ currentTerm'[s] = m.term /\ m.term > currentTerm[s]
        /\ operation'[s].kind = "convert"
    BY <1>5
    DEF DeferToNewerTerm, SetTermAndVote, SetOperation, historyVars, TypeOK
  <2> QED
    BY <2>1 DEF LeadStep, StepsDown, StandsForElection, Leads
<1>6. CASE role[s] = "Candidate" /\ CandidateHandleGrantVote(s, m)
  <2>1. CASE votesRequired[s] = 1
    <3>1. /\ role' = [role EXCEPT ![s] = "Leader"]
          /\ elected' = elected \union {Leadership(s, currentTerm[s])}
          /\ UNCHANGED currentTerm
      BY <1>6, <2>1 DEF CandidateHandleGrantVote, BecomeLeader, Leadership
    <3>2. stored[s] = StateOf(s)
      BY <1>1, <1>2 DEF RemembersAt, WritesState
    <3>3. role'[s] = "Leader" /\ stored[s].currentTerm = currentTerm[s]
      BY <3>1, <3>2 DEF TypeOK, StateOf
    <3> QED
      BY <1>6, <3>1, <3>3 DEF LeadStep, WinsElection
  <2>2. CASE votesRequired[s] # 1
    BY <1>3, <1>6, <2>2 DEF CandidateHandleGrantVote
  <2> QED
    BY <2>1, <2>2
<1>7. CASE CandidateHandleRequestVote(s, m)
  BY <1>3, <1>7 DEF CandidateHandleRequestVote, historyVars
<1>8. CASE CandidateHandleAppendEntries(s, m)
  BY <1>3, <1>8, ConversionStepsDown
  DEF CandidateHandleAppendEntries, historyVars, LeadStep
<1>9. CASE \/ LeaderHandleRequestVote(s, m)
           \/ LeaderHandleRejectEntries(s, m)
           \/ LeaderHandleAcceptEntries(s, m)
  BY <1>3, <1>9
  DEF LeaderHandleRequestVote, LeaderHandleRejectEntries,
      LeaderHandleAcceptEntries, historyVars
<1> QED
  BY <1>4, <1>5, <1>6, <1>7, <1>8, <1>9
  DEF Receive, CandidateReceives, LeaderReceives

(* Every step is of that shape.                                            *)
LEMMA LeadStepOf ==
  ASSUME TypeInv, TypeOK', VoteInv, NEW s \in Server, Step(s)
  PROVE  LeadStep(s)
<1> USE DEF historyVars
<1>1. /\ TypeOK /\ log[s] \in Seq(Entry) /\ log'[s] \in Seq(Entry)
      /\ currentTerm[s] \in Nat
      /\ LastIndex(log[s]) \in Nat
      /\ operation[s].kind = "append" => role[s] = "Leader"
  BY LogTypes DEF TypeInv, TypeOK, PendingInLog, PendingInLogAt
<1>2. ASSUME UNCHANGED <<role, currentTerm, elected, log>>,
             operation[s].kind # "convert", operation[s].kind # "append"
      PROVE  LeadStep(s)
  BY <1>1, <1>2, RoleKept
<1>3. CASE FollowerTimesOut(s) \/ CandidateTimesOut(s)
  <2>1. CASE StartElection(s) /\ (role[s] = "Follower" => role' = [role EXCEPT ![s] = "Candidate"])
    <3>1. /\ role'[s] = "Candidate"
          /\ currentTerm'[s] = currentTerm[s] + 1
          /\ UNCHANGED elected
      BY <1>1, <1>3, <2>1
      DEF FollowerTimesOut, CandidateTimesOut, StartElection, SetTermAndVote,
          TypeOK
    <3> QED
      BY <1>1, <3>1 DEF LeadStep, StandsForElection
  <2>2. CASE UNCHANGED <<role, elected>> /\ role[s] = "Follower"
    BY <2>2 DEF LeadStep, StepsDown, Leads
  <2> QED
    BY <1>3, <2>1, <2>2 DEF FollowerTimesOut, CandidateTimesOut
<1>4. CASE LeaderSendsHeartbeat(s)
  BY <1>2, <1>4 DEF LeaderSendsHeartbeat, Free, Idle
<1>5. CASE \E m \in messages : Receive(s, m)
  BY <1>1, <1>5, LeadReceives
<1>6. CASE \E value \in Value : LeaderAppends(s, value)
  BY <1>2, <1>6 DEF LeaderAppends, Free, Idle
<1>7. CASE PersistedRequestVote(s) \/ PersistedGrantVote(s) \/ PersistedSetTerm(s)
  BY <1>2, <1>7
  DEF PersistedRequestVote, PersistedGrantVote, PersistedSetTerm
<1>8. CASE PersistedConvert(s)
  BY <1>1, <1>8, ConversionStepsDown DEF PersistedConvert, LeadStep
<1>9. CASE PersistedMergeEntries(s)
  <2>1. /\ UNCHANGED <<role, currentTerm, elected>>
        /\ operation[s].kind = "mergeEntries"
        /\ log'[s] = Extended(log[s], operation[s].entries)
    BY <1>1, <1>9 DEF PersistedMergeEntries, TypeOK
  <2>2. operation[s].entries \in Seq(Entry)
    BY <1>1, <2>1, ServerTypes, OperationFields
  <2>3. Len(operation[s].entries) \in Nat
    BY <2>2
  <2>4. LastIndex(log'[s]) >= LastIndex(log[s])
    <3>1. LastIndex(Extended(log[s], operation[s].entries))
            = LastIndex(log[s]) + Len(operation[s].entries)
      BY <1>1, <2>2, ExtendedLog
    <3> QED
      BY <1>1, <2>1, <2>3, <3>1
  <2> QED
    BY <1>1, <2>1, <2>4, RoleKept
<1>10. CASE PersistedAppend(s)
  <2>1. /\ UNCHANGED <<role, currentTerm, elected>>
        /\ operation[s].kind = "append"
        /\ log'[s] = Extended(log[s], NewEntries(s))
    BY <1>1, <1>10 DEF PersistedAppend, TypeOK
  <2>2. NewEntries(s) \in Seq(Entry) /\ Len(NewEntries(s)) = 1
    BY <1>1, <2>1, AppendedEntry
  <2>3. LastIndex(log'[s]) = LastIndex(log[s]) + 1
    BY <1>1, <2>1, <2>2, ExtendedLog
  <2> QED
    BY <1>1, <2>1, <2>3 DEF LeadStep, StaysLeader, Leads
<1>11. CASE Restart(s)
  <2>1. role'[s] = "Follower" /\ UNCHANGED elected
    BY <1>1, <1>11 DEF Restart, TypeOK
  <2> QED
    BY <2>1 DEF LeadStep, StepsDown, Leads
<1> QED
  BY <1>3, <1>4, <1>5, <1>6, <1>7, <1>8, <1>9, <1>10, <1>11 DEF Step, Persisted

-----------------------------------------------------------------------------
(* The inductive invariant about logs *)

(* The index and term of every entry in a log or a message, and of the     *)
(* entries that updates say come before theirs.                            *)
Known ==
  {[index |-> k.index, term |-> k.entry.term] : k \in AllLinks}
    \union {[index |-> m.prevLogIndex, term |-> m.prevLogTerm] :
              m \in {u \in Updates : u.prevLogIndex # 0}}

(* Entries of a term are created by the leader elected in it.              *)
KnownOfElected == \A k \in Known : \E e \in elected : e.term = k.term

(* A leader's own log is as long as anything known of its term, so what it *)
(* appends next is new.                                                    *)
LeaderHasKnown ==
  \A k \in Known : \A s \in Server :
    Leads(s) /\ currentTerm[s] = k.term => k.index <= LastIndex(log[s])

StartsAtZero == \A m \in Updates : m.prevLogIndex = 0 => m.prevLogTerm = 0

(* An operation in flight was caused by a message that was sent, and the   *)
(* entries it merges follow the end of the log.                            *)
HeardAt(s) ==
  /\ operation[s].kind = "convert" => operation[s].message \in messages
  /\ operation[s].kind = "mergeEntries" =>
       \E m \in Updates :
         /\ m.from = operation[s].peer
         /\ m.term = currentTerm[s]
         /\ m.prevLogIndex = LastIndex(log[s])
         /\ m.prevLogTerm = LastTerm(log[s])
         /\ m.entries = operation[s].entries

Heard == \A s \in Server : HeardAt(s)

LogInv ==
  /\ Agree(AllLinks)
  /\ KnownOfElected
  /\ LeaderHasKnown
  /\ StartsAtZero
  /\ Heard

(* The link that the append in flight creates.                             *)
Appended(s) ==
  IF operation[s].kind = "append"
  THEN {[index |-> LastIndex(log[s]) + 1,
         entry |-> [term |-> currentTerm[s], value |-> operation[s].value],
         after |-> LastTerm(log[s])]}
  ELSE {}

(* Whether m brings a follower up to date with log l.                      *)
UpdateOf(l, m) ==
  /\ m.prevLogIndex <= LastIndex(l)
  /\ m.prevLogTerm = TermAt(l, m.prevLogIndex)
  /\ m.entries \in {<< >>, EntriesSince(l, m.prevLogIndex + 1)}

(* Only a leader sends updates, of its own term and log.                   *)
SendsUpdates(s) ==
  \A m \in messages' \ messages : m.type = "AppendEntries" =>
    /\ Leads(s)'
    /\ m.from = s
    /\ m.term = currentTerm'[s]
    /\ UpdateOf(log'[s], m)
    /\ m.leaderCommit \in {0, commitIndex'[s]}

(* What every step of server s does to logs and updates.                   *)
LogStep(s) ==
  /\ \A p \in Server \ {s} : log'[p] = log[p] /\ storedLog'[p] = storedLog[p]
  /\ LinksOfLog(log'[s]) \subseteq AllLinks \union Appended(s)
  /\ LinksOfLog(storedLog'[s]) \subseteq AllLinks \union Appended(s)
  /\ SendsUpdates(s)
  /\ HeardAt(s)'

(* The links of one server's logs and of one update.                       *)
LEMMA LinkSources ==
  /\ \A s \in Server : LinksOfLog(log[s]) \subseteq AllLinks
  /\ \A s \in Server : LinksOfLog(storedLog[s]) \subseteq AllLinks
  /\ \A m \in Updates : LinksOfUpdate(m) \subseteq AllLinks
BY DEF AllLinks

(* A step creates no link but the one it appends.                          *)
LEMMA NoOtherLinks ==
  ASSUME TypeOK', NEW s \in Server, LogStep(s)
  PROVE  AllLinks' \subseteq AllLinks \union Appended(s)
<1>1. ASSUME NEW p \in Server
      PROVE  /\ LinksOfLog(log'[p]) \subseteq AllLinks \union Appended(s)
             /\ LinksOfLog(storedLog'[p]) \subseteq AllLinks \union Appended(s)
  BY LinkSources DEF LogStep
<1>2. ASSUME NEW m \in Updates'
      PROVE  LinksOfUpdate(m) \subseteq AllLinks \union Appended(s)
  <2>1. CASE m \in messages
    BY <2>1, LinkSources DEF Updates
  <2>2. CASE m \notin messages
    <3>1. /\ m \in messages' \ messages /\ m.type = "AppendEntries"
          /\ m \in Message /\ UpdateOf(log'[s], m)
      BY <2>2 DEF Updates, LogStep, SendsUpdates, TypeOK
    <3>2. /\ log'[s] \in Seq(Entry) /\ LastIndex(log'[s]) \in Nat
          /\ m.prevLogIndex \in 0 .. LastIndex(log'[s])
      BY <3>1, MessageFields DEF UpdateOf, TypeOK, LastIndex
    <3>3. CASE m.entries = << >>
      BY <3>3 DEF LinksOfUpdate, LinksOf
    <3>4. CASE m.entries = EntriesSince(log'[s], m.prevLogIndex + 1)
      <4>1. LinksOfUpdate(m) \subseteq LinksOfLog(log'[s])
        BY <3>1, <3>2, <3>4, SuffixLinks DEF LinksOfUpdate, UpdateOf
      <4> QED
        BY <1>1, <4>1
    <3> QED
      BY <3>1, <3>3, <3>4 DEF UpdateOf
  <2> QED
    BY <2>1, <2>2
<1>3. ASSUME NEW k \in AllLinks' PROVE k \in AllLinks \union Appended(s)
  <2>1. \/ \E p \in Server :
             k \in LinksOfLog(log'[p]) \/ k \in LinksOfLog(storedLog'[p])
        \/ \E m \in Updates' : k \in LinksOfUpdate(m)
    BY <1>3 DEF AllLinks
  <2> QED
    BY <1>1, <1>2, <2>1
<1> QED
  BY <1>3

(* Nor does anything else become known.                                    *)
LEMMA NothingElseKnown ==
  ASSUME TypeOK', NEW s \in Server, LogStep(s)
  PROVE  Known' \subseteq
           Known \union {[index |-> k.index, term |-> k.entry.term] :
                           k \in Appended(s)}
<1> DEFINE place(k) == [index |-> k.index, term |-> k.entry.term]
<1>1. \A k \in AllLinks' : place(k) \in Known \union {place(j) : j \in Appended(s)}
  BY NoOtherLinks DEF Known
<1>2. ASSUME NEW m \in Updates', m.prevLogIndex # 0
      PROVE  \/ m \in Updates
             \/ \E k \in AllLinks' :
                  place(k) = [index |-> m.prevLogIndex, term |-> m.prevLogTerm]
  <2>1. CASE m \in messages
    BY <2>1 DEF Updates
  <2>2. CASE m \notin messages
    <3>1. /\ m \in messages' \ messages /\ m.type = "AppendEntries"
          /\ m \in Message /\ UpdateOf(log'[s], m)
      BY <2>2 DEF Updates, LogStep, SendsUpdates, TypeOK
    <3>2. /\ log'[s] \in Seq(Entry)
          /\ m.prevLogIndex \in 1 .. Len(log'[s])
      BY <1>2, <3>1, MessageFields DEF UpdateOf, TypeOK, LastIndex
    <3> DEFINE k == LinkAt(0, 0, log'[s], m.prevLogIndex)
    <3>3. k \in LinksOfLog(log'[s])
      BY <3>2 DEF LinksOfLog, LinksOf
    <3>4. k \in AllLinks'
      <4> HIDE DEF k
      <4> QED
        BY <3>3 DEF AllLinks
    <3>5. k.index = m.prevLogIndex /\ k.entry.term = m.prevLogTerm
      BY <1>2, <3>1, <3>2 DEF LinkAt, UpdateOf, TermAt
    <3> QED
      BY <3>4, <3>5
  <2> QED
    BY <2>1, <2>2
<1> QED
  BY <1>1, <1>2, ZenonT(60) DEF Known

(* What is known is known at an index.                                     *)
LEMMA KnownIndex ==
  ASSUME TypeOK, NEW k \in Known
  PROVE  k.index \in Nat
<1>1. \A es : \A l \in LinksOf(0, 0, es) : l.index \in Nat
  BY DEF LinksOf, LinkAt
<1>2. ASSUME NEW m \in Updates PROVE m.prevLogIndex \in Nat
  BY MessageFields DEF Updates, TypeOK
<1>3. \A m \in Updates : \A l \in LinksOfUpdate(m) : l.index \in Nat
  BY <1>2 DEF LinksOfUpdate, LinksOf, LinkAt
<1>4. \A l \in AllLinks : l.index \in Nat
  BY <1>1, <1>3 DEF AllLinks, LinksOfLog
<1> QED
  BY <1>2, <1>4 DEF Known

(* The link an append creates is new: nobody knows of an entry of the      *)
(* leader's term past the end of its log.                                  *)
LEMMA AppendedIsNew ==
  ASSUME TypeInv, LeadInv, LogInv, NEW s \in Server,
         NEW new \in Appended(s)
  PROVE  /\ Leads(s)
         /\ new.index = LastIndex(log[s]) + 1
         /\ new.entry.term = currentTerm[s]
         /\ Leadership(s, currentTerm[s]) \in elected
         /\ \A k \in AllLinks :
              ~(k.index = new.index /\ k.entry.term = new.entry.term)
<1>1. /\ operation[s].kind = "append"
      /\ new.index = LastIndex(log[s]) + 1
      /\ new.entry.term = currentTerm[s]
  BY DEF Appended
<1>2. Leads(s) /\ LastIndex(log[s]) \in Nat
  BY <1>1 DEF TypeInv, TypeOK, PendingInLog, PendingInLogAt, Leads, LastIndex
<1>3. Leadership(s, currentTerm[s]) \in elected
  BY <1>2 DEF LeadInv, LeadersElected
<1>4. ASSUME NEW k \in AllLinks,
             k.index = new.index, k.entry.term = new.entry.term
      PROVE  FALSE
  <2>1. [index |-> k.index, term |-> k.entry.term] \in Known
    BY DEF Known
  <2>2. k.index <= LastIndex(log[s])
    BY <1>1, <1>2, <1>4, <2>1 DEF LogInv, LeaderHasKnown
  <2> QED
    BY <1>1, <1>2, <1>4, <2>2
<1> QED
  BY <1>1, <1>2, <1>3, <1>4

(* Entries at these places, [index, term], are of terms that someone was    *)
(* elected in, whose log is as long while it leads.                        *)
Led(places) ==
  \A k \in places :
    /\ \E e \in elected : e.term = k.term
    /\ \A s \in Server :
         Leads(s) /\ currentTerm[s] = k.term => k.index <= LastIndex(log[s])

(* That stays so when what a step appends is added: whoever is elected is  *)
(* the first to be in its term.                                            *)
LEMMA LedStepInv ==
  ASSUME TypeInv, TypeOK', ElectionSafety', LeadInv, LogInv,
         NEW s \in Server, VoteStep(s), ElectionStep(s), LeadStep(s), LogStep(s),
         NEW old, NEW more, Led(old), \A k \in old : k.index \in Nat,
         \A k \in more :
           \/ k \in old
           \/ \E new \in Appended(s) :
                k.index = new.index /\ k.term = new.entry.term
  PROVE  Led(more)'
<1>1. /\ elected \subseteq elected'
      /\ \A p \in Server \ {s} :
           /\ role'[p] = role[p] /\ operation'[p] = operation[p]
           /\ currentTerm'[p] = currentTerm[p] /\ log'[p] = log[p]
  BY DEF ElectionStep, OthersKeepRoles, VoteStep, OthersKeepVotes, LogStep
<1>2. LastIndex(log[s]) \in Nat /\ LastIndex(log'[s]) \in Nat
  BY SMTT(40) DEF TypeInv, TypeOK, LastIndex
<1>3. ASSUME NEW k \in more PROVE \E e \in elected' : e.term = k.term
  <2>1. CASE k \in old
    BY <1>1, <2>1 DEF Led
  <2>2. CASE k \notin old
    <3>1. PICK new \in Appended(s) : k.term = new.entry.term
      BY <2>2
    <3>2. Leadership(s, k.term) \in elected
      BY <3>1, AppendedIsNew
    <3> QED
      BY <1>1, <3>2 DEF Leadership
  <2> QED
    BY <2>1, <2>2
<1>4. ASSUME NEW k \in more, NEW p \in Server,
             Leads(p)', currentTerm'[p] = k.term
      PROVE  k.index <= LastIndex(log'[p])
  <2>1. CASE k \in old /\ p # s
    BY <1>1, <1>4, <2>1 DEF Led, Leads
  <2>2. CASE k \in old /\ p = s
    <3>1. CASE StaysLeader(s)
      <4>1. k.index <= LastIndex(log[s])
        BY <1>4, <2>2, <3>1 DEF Led, StaysLeader
      <4>2. LastIndex(log[s]) <= LastIndex(log'[s])
        BY <1>2, <3>1 DEF StaysLeader
      <4> QED
        BY <1>2, <2>2, <4>1, <4>2
    <3>2. CASE WinsElection(s)
      <4>1. PICK e \in elected : e.term = currentTerm[s]
        BY <1>4, <2>2, <3>2 DEF Led, WinsElection
      <4>2. Leadership(s, currentTerm[s]) \in elected' /\ e \in elected'
        BY <1>1, <3>2 DEF WinsElection
      <4>3. e.server = s
        BY <4>1, <4>2 DEF ElectionSafety, Leadership
      <4>4. e.term < currentTerm[s]
        BY <3>2, <4>3 DEF LeadInv, CandidatesAreNew, WinsElection
      <4>5. currentTerm[s] \in Nat
        BY DEF TypeInv, TypeOK
      <4> QED
        BY <4>1, <4>4, <4>5
    <3> QED
      BY <1>4, <2>2, <3>1, <3>2
      DEF LeadStep, StepsDown, StandsForElection, Leads
  <2>3. CASE k \notin old
    <3>1. PICK new \in Appended(s) :
            k.index = new.index /\ k.term = new.entry.term
      BY <2>3
    <3>2. /\ operation[s].kind = "append"
          /\ Leads(s)
          /\ k.index = LastIndex(log[s]) + 1
          /\ k.term = currentTerm[s]
          /\ Leadership(s, currentTerm[s]) \in elected'
      BY <1>1, <3>1, AppendedIsNew DEF Appended
    <3>3. p = s
      <4>1. CASE p # s
        <5>1. Leadership(p, currentTerm[p]) \in elected'
          BY <1>1, <1>4, <4>1 DEF LeadInv, LeadersElected, Leads
        <5>2. currentTerm[p] = currentTerm[s]
          BY <1>1, <1>4, <3>2, <4>1
        <5> QED
          BY <3>2, <5>1, <5>2 DEF ElectionSafety, Leadership
      <4> QED
        BY <4>1
    <3>4. StaysLeader(s)
      BY <1>4, <3>2, <3>3
      DEF LeadStep, StepsDown, StandsForElection, WinsElection, Leads
    <3> QED
      BY <1>2, <3>2, <3>3, <3>4 DEF StaysLeader
  <2> QED
    BY <2>1, <2>2, <2>3
<1> QED
  BY <1>3, <1>4 DEF Led

(* A step of that shape preserves the invariant about logs.                *)
LEMMA LogStepInv ==
  ASSUME TypeInv, TypeOK', ElectionSafety', LeadInv, LogInv,
         NEW s \in Server, VoteStep(s), ElectionStep(s), LeadStep(s), LogStep(s)
  PROVE  LogInv'
<1>1. /\ elected \subseteq elected' /\ messages \subseteq messages'
      /\ \A p \in Server \ {s} :
           /\ role'[p] = role[p] /\ operation'[p] = operation[p]
           /\ currentTerm'[p] = currentTerm[p] /\ log'[p] = log[p]
  BY DEF ElectionStep, OthersKeepRoles, VoteStep, OthersKeepVotes, LogStep
<1>2. Agree(AllLinks)'
  <2>1. \A new1, new2 \in Appended(s) : new1 = new2
    BY DEF Appended
  <2> QED
    BY <2>1, NoOtherLinks, AppendedIsNew DEF LogInv, Agree
<1>3. ASSUME NEW k \in Known'
      PROVE  \/ k \in Known
             \/ \E new \in Appended(s) :
                  k.index = new.index /\ k.term = new.entry.term
  BY NothingElseKnown
<1>4. Led(Known)'
  <2>1. Led(Known)
    BY DEF LogInv, KnownOfElected, LeaderHasKnown, Led
  <2>2. \A k \in Known : k.index \in Nat
    BY KnownIndex DEF TypeInv
  <2>3. ASSUME NEW more, more = Known' PROVE Led(more)'
    BY <1>3, <2>1, <2>2, <2>3, LedStepInv
  <2> QED
    BY <2>3 DEF Led
<1>5. ASSUME NEW m \in Updates', m.prevLogIndex = 0 PROVE m.prevLogTerm = 0
  <2>1. CASE m \in messages
    BY <1>5, <2>1 DEF LogInv, StartsAtZero, Updates
  <2>2. CASE m \notin messages
    BY <1>5, <2>2 DEF Updates, LogStep, SendsUpdates, UpdateOf, TermAt
  <2> QED
    BY <2>1, <2>2
<1>6. ASSUME NEW p \in Server PROVE HeardAt(p)'
  <2>1. CASE p = s
    BY <2>1 DEF LogStep
  <2>2. CASE p # s
    <3>1. HeardAt(p)
      BY DEF LogInv, Heard
    <3> QED
      BY <1>1, <2>2, <3>1 DEF HeardAt, Updates
  <2> QED
    BY <2>1, <2>2
<1> QED
  BY <1>2, <1>4, <1>5, <1>6
  DEF LogInv, KnownOfElected, LeaderHasKnown, StartsAtZero, Heard, Led

(* What updateFollower() sends is of the log it reads.                     *)
LEMMA UpdatesSent ==
  ASSUME TypeOK, TypeOK', NEW s \in Server, role'[s] = "Leader",
         UNCHANGED currentTerm,
         NEW peers \in SUBSET Server, NEW next \in [Server -> Nat \ {0}],
         NEW match, NEW heartbeatOnly,
         UpdateFollowers(s, peers, next, match, heartbeatOnly, log'[s])
  PROVE  SendsUpdates(s)
<1> DEFINE known == {p \in peers : next[p] - 1 <= LastIndex(log'[s])}
           update(p) == AppendEntries(s, p, next[p], match[p], heartbeatOnly,
                                      log'[s], commitIndex'[s])
<1>1. ASSUME NEW p \in known
      PROVE  /\ update(p).from = s
             /\ update(p).term = currentTerm'[s]
             /\ UpdateOf(log'[s], update(p))
             /\ update(p).leaderCommit = commitIndex'[s]
  <2>1. next[p] \in Nat \ {0} /\ next[p] - 1 <= LastIndex(log'[s])
    OBVIOUS
  <2>2. next[p] - 1 + 1 = next[p]
    BY <2>1
  <2> QED
    BY <2>1, <2>2 DEF AppendEntries, UpdateOf
<1>2. \E ps \in SUBSET known : messages' = messages \union {update(p) : p \in ps}
  BY DEF UpdateFollowers, Send
<1>3. Leads(s)'
  BY SMTT(40) DEF UpdateFollowers, SetOperation, TypeOK, Leads, Idle, Crashed
<1> HIDE DEF known, update
<1> QED
  BY <1>1, <1>2, <1>3 DEF SendsUpdates

(* What a new leader claims its leadership with as well.                   *)
LEMMA ClaimsSent ==
  ASSUME TypeOK, NEW s \in Server, BecomeLeader(s), operation[s].kind = "none",
         UNCHANGED <<log, currentTerm, operation>>
  PROVE  SendsUpdates(s)
<1> DEFINE next == LastIndex(log[s]) + 1
           update(p) == AppendEntries(s, p, next, 0, TRUE, log[s], 0)
<1>1. LastIndex(log[s]) \in Nat /\ Leads(s)'
  BY DEF TypeOK, LastIndex, BecomeLeader, Leads
<1>2. ASSUME NEW p
      PROVE  /\ update(p).from = s
             /\ update(p).term = currentTerm'[s]
             /\ UpdateOf(log'[s], update(p))
             /\ update(p).leaderCommit = 0
  BY <1>1 DEF AppendEntries, UpdateOf
<1>3. messages' = messages \union {update(p) : p \in Peers(s)}
  BY DEF BecomeLeader, Send
<1> HIDE DEF update
<1> QED
  BY <1>1, <1>2, <1>3 DEF SendsUpdates

(* A follower sends no updates, and merges what an update told it, after   *)
(* the entry the update comes after.                                       *)
LEMMA FollowerHears ==
  ASSUME TypeOK, StartsAtZero, NEW s \in Server, NEW m \in messages,
         NEW commit, NEW tick, FollowerHandleMessage(s, m, commit, tick)
  PROVE  SendsUpdates(s) /\ HeardAt(s)'
<1> USE DEF SetOperation, Send, Idle
<1>1. /\ m \in Message
      /\ DOMAIN operation = Server /\ DOMAIN currentTerm = Server
      /\ log \in [Server -> Seq(Entry)] /\ log[s] \in Seq(Entry)
  BY DEF TypeOK
<1>2. \A p, i : /\ DenyVote(s, p).type # "AppendEntries"
                /\ RejectEntries(s, p, i).type # "AppendEntries"
                /\ AcceptEntries(s, p, i).type # "AppendEntries"
  BY DEF DenyVote, RejectEntries, AcceptEntries
<1>a. \A i \in 1 .. Len(log'[s]) : log'[s][i] = log[s][i]
  BY <1>1, FollowerKeepsPrefix
<1>3. CASE FollowerHandleRequestVote(s, m, commit, tick)
  <2>1. operation'[s].kind \in {"none", "grantVote", "setTerm"}
    BY <1>1, <1>3 DEF FollowerHandleRequestVote
  <2>2. SendsUpdates(s)
    BY <1>2, <1>3 DEF FollowerHandleRequestVote, SendsUpdates
  <2> QED
    BY <2>1, <2>2 DEF HeardAt
<1>4. CASE FollowerDeniesOlderLeader(s, m, commit, tick)
  BY <1>1, <1>2, <1>4 DEF FollowerDeniesOlderLeader, SendsUpdates, HeardAt
<1>5. CASE FollowerRejectsConflict(s, m, commit)
  BY <1>1, <1>2, <1>5 DEF FollowerRejectsConflict, SendsUpdates, HeardAt
<1>6. CASE FollowerAcceptsHeartbeat(s, m, commit)
  BY <1>1, <1>2, <1>6 DEF FollowerAcceptsHeartbeat, SendsUpdates, HeardAt
<1>7. CASE m.type = "AppendEntries" /\ FollowerMergesEntries(s, m, commit)
  <2>1. /\ UNCHANGED messages
        /\ operation'[s] = [kind |-> "mergeEntries", peer |-> m.from,
                            entries |-> m.entries,
                            newerTerm |-> (m.term > currentTerm[s])]
        /\ log'[s] = TruncatedTo(log[s], m.prevLogIndex)
        /\ Follows(log[s], m.prevLogIndex, m.prevLogTerm)
        /\ currentTerm'[s] = m.term
    BY <1>1, <1>7 DEF FollowerMergesEntries, FollowerCommits, SetTermAndVote
  <2>2. m.prevLogIndex \in Nat /\ LastIndex(log[s]) \in Nat
    BY <1>1, <1>7, MessageFields, LogTypes
  <2>3. m.prevLogIndex \in 0 .. LastIndex(log[s])
    BY <2>1, <2>2 DEF Follows, HasEntry
  <2>4. LastIndex(log'[s]) = m.prevLogIndex
    BY <1>1, <2>1, <2>3, LogTypes
  <2>5. LastTerm(log'[s]) = m.prevLogTerm
    <3>1. CASE m.prevLogIndex = 0
      BY <1>7, <2>4, <3>1 DEF StartsAtZero, Updates, LastTerm, TermAt
    <3>2. CASE m.prevLogIndex # 0
      <4>1. m.prevLogIndex \in 1 .. Len(log'[s])
        BY <2>2, <2>4, <3>2 DEF LastIndex
      <4>2. log'[s][m.prevLogIndex] = log[s][m.prevLogIndex]
        BY <1>a, <4>1
      <4> QED
        BY <2>1, <2>4, <3>2, <4>2 DEF Follows, LastTerm, TermAt
    <3> QED
      BY <3>1, <3>2
  <2>6. m \in Updates'
    BY <1>7, <2>1 DEF Updates
  <2>7. HeardAt(s)'
    BY <2>1, <2>4, <2>5, <2>6 DEF HeardAt
  <2> QED
    BY <2>1, <2>7 DEF SendsUpdates
<1>8. CASE FollowerIgnores(s, m, commit, tick)
  BY <1>1, <1>8 DEF FollowerIgnores, SendsUpdates, HeardAt
<1> QED
  BY <1>3, <1>4, <1>5, <1>6, <1>7, <1>8
  DEF FollowerHandleMessage, FollowerHandleAppendEntries

(* A step that sends no update and leaves nothing to remember one for.     *)
LEMMA NothingHeard ==
  ASSUME NEW s \in Server, operation'[s].kind \notin {"convert", "mergeEntries"}
  PROVE  HeardAt(s)'
BY DEF HeardAt

(* Nor does updateFollower() leave anything.                               *)
LEMMA UpdateHears ==
  ASSUME TypeOK, NEW s \in Server, NEW peers, NEW next, NEW match,
         NEW heartbeatOnly, NEW l,
         UpdateFollowers(s, peers, next, match, heartbeatOnly, l)
  PROVE  HeardAt(s)'
<1>1. operation'[s] \in {Idle, Crashed}
  BY DEF UpdateFollowers, SetOperation, TypeOK
<1> QED
  BY <1>1, NothingHeard DEF Idle, Crashed

(* Every handler sends only updates of the leader's log.                   *)
LEMMA UpdatesReceive ==
  ASSUME TypeInv, TypeOK', LogInv, NEW s \in Server, NEW m \in messages,
         Receive(s, m)
  PROVE  SendsUpdates(s) /\ HeardAt(s)'
<1> USE DEF Send
<1>1. /\ TypeOK /\ StartsAtZero /\ HeardAt(s) /\ m \in Message
      /\ operation[s].kind = "none"
      /\ m.from \in Server
      /\ nextIndex[s] \in [Server -> Nat \ {0}]
      /\ nextIndex'[s] \in [Server -> Nat \ {0}]
  <2>1. TypeOK /\ StartsAtZero /\ HeardAt(s)
    BY DEF TypeInv, LogInv, Heard
  <2>2. m \in Message /\ m.from \in Server
    BY <2>1, MessageFields DEF TypeOK
  <2>3. operation[s].kind = "none"
    BY DEF Receive, Free, Idle
  <2>4. /\ nextIndex[s] \in [Server -> Nat \ {0}]
        /\ nextIndex'[s] \in [Server -> Nat \ {0}]
    BY <2>1 DEF TypeOK
  <2> QED
    BY <2>1, <2>2, <2>3, <2>4
<1>2. \A p, i : /\ DenyVote(s, p).type # "AppendEntries"
                /\ RejectEntries(s, p, i).type # "AppendEntries"
  BY DEF DenyVote, RejectEntries
<1>3. ASSUME UNCHANGED operation,
             \A sent \in messages' \ messages : sent.type # "AppendEntries"
      PROVE  SendsUpdates(s) /\ HeardAt(s)'
  BY <1>1, <1>3, NothingHeard DEF SendsUpdates
<1>4. CASE FollowerReceives(s, m)
  BY <1>1, <1>4, FollowerHears DEF FollowerReceives
<1>5. CASE DeferToNewerTerm(s, m)
  <2>1. operation'[s] = [kind |-> "convert", message |-> m]
        /\ UNCHANGED messages
    BY <1>1, <1>5 DEF DeferToNewerTerm, SetOperation, TypeOK
  <2> QED
    BY <2>1 DEF SendsUpdates, HeardAt
<1>6. CASE CandidateHandleGrantVote(s, m)
  <2>1. /\ UNCHANGED <<operation, log, currentTerm>>
        /\ BecomeLeader(s) \/ UNCHANGED messages
    BY <1>6 DEF CandidateHandleGrantVote
  <2>2. CASE BecomeLeader(s)
    BY <1>1, <2>1, <2>2, ClaimsSent, NothingHeard
  <2>3. CASE UNCHANGED messages
    BY <1>3, <2>1, <2>3
  <2> QED
    BY <2>1, <2>2, <2>3
<1>7. CASE CandidateHandleRequestVote(s, m)
  BY <1>2, <1>3, <1>7 DEF CandidateHandleRequestVote
<1>8. CASE CandidateHandleAppendEntries(s, m)
  <2>1. CASE ConvertToFollower(s, m)
    BY <1>1, <2>1, FollowerHears DEF ConvertToFollower
  <2>2. CASE ~ConvertToFollower(s, m)
    BY <1>2, <1>3, <1>8, <2>2 DEF CandidateHandleAppendEntries
  <2> QED
    BY <2>1, <2>2
<1>9. ASSUME NEW next \in [Server -> Nat \ {0}], NEW match, NEW heartbeatOnly,
             role[s] = "Leader", UNCHANGED <<role, log, currentTerm>>,
             UpdateFollowers(s, {m.from}, next, match, heartbeatOnly, log[s])
      PROVE  SendsUpdates(s) /\ HeardAt(s)'
  <2>1. /\ role'[s] = "Leader" /\ log'[s] = log[s]
        /\ {m.from} \in SUBSET Server
    BY <1>1, <1>9
  <2> QED
    BY <1>1, <1>9, <2>1, UpdatesSent, UpdateHears
<1>10. CASE role[s] = "Leader" /\ LeaderHandleRequestVote(s, m)
  <2>1. UNCHANGED <<role, log, currentTerm>>
    BY <1>10 DEF LeaderHandleRequestVote
  <2>2. CASE m.term < currentTerm[s]
    <3>1. /\ messages' = messages \union {DenyVote(s, m.from)}
          /\ UNCHANGED operation
      <4>1. m.term # currentTerm[s]
        <5>1. currentTerm[s] \in Nat /\ m.term \in Nat
          BY <1>1, MessageFields DEF TypeOK
        <5> QED
          BY <2>2, <5>1
      <4> QED
        BY <1>10, <4>1, Zenon DEF LeaderHandleRequestVote
    <3> QED
      BY <1>2, <1>3, <3>1
  <2>3. CASE UpdateFollowers(s, {m.from}, nextIndex[s], matchIndex[s], TRUE, log[s])
    BY <1>1, <1>9, <1>10, <2>1, <2>3
  <2> QED
    BY <1>10, <2>2, <2>3 DEF LeaderHandleRequestVote
<1>11. CASE role[s] = "Leader" /\ LeaderHandleRejectEntries(s, m)
  BY <1>1, <1>9, <1>11 DEF LeaderHandleRejectEntries
<1>12. CASE role[s] = "Leader" /\ LeaderHandleAcceptEntries(s, m)
  BY <1>1, <1>3, <1>9, <1>12 DEF LeaderHandleAcceptEntries
<1> QED
  BY <1>4, <1>5, <1>6, <1>7, <1>8, <1>10, <1>11, <1>12
  DEF Receive, CandidateReceives, LeaderReceives

(* The continuation of mergeEntries() only copies the update's links.      *)
LEMMA MergeCopiesLinks ==
  ASSUME TypeInv, LogInv, NEW s \in Server, operation[s].kind = "mergeEntries"
  PROVE  /\ operation[s].entries \in Seq(Entry)
         /\ LinksOfLog(Extended(log[s], operation[s].entries)) \subseteq AllLinks
<1>1. log[s] \in Seq(Entry) /\ operation[s].entries \in Seq(Entry)
  BY ServerTypes, OperationFields DEF TypeInv
<1>2. PICK m \in Updates :
        /\ m.prevLogIndex = LastIndex(log[s])
        /\ m.prevLogTerm = LastTerm(log[s])
        /\ m.entries = operation[s].entries
  BY DEF LogInv, Heard, HeardAt
<1>3. LinksOf(LastIndex(log[s]), LastTerm(log[s]), operation[s].entries)
        \subseteq AllLinks
  BY <1>2, LinkSources DEF LinksOfUpdate
<1> QED
  BY <1>1, <1>3, ExtendedLinks, LinkSources

(* That of append() adds the one link it creates.                          *)
LEMMA AppendAddsLink ==
  ASSUME TypeInv, NEW s \in Server, operation[s].kind = "append"
  PROVE  LinksOfLog(Extended(log[s], NewEntries(s)))
           \subseteq AllLinks \union Appended(s)
<1>1. log[s] \in Seq(Entry) /\ TypeOK
  BY DEF TypeInv, TypeOK
<1> DEFINE es == NewEntries(s)
<1>2. /\ es \in Seq(Entry)
      /\ es = << [term |-> currentTerm[s], value |-> operation[s].value] >>
  BY <1>1, AppendedEntry
<1>3. Len(es) = 1 /\ es[1] = [term |-> currentTerm[s], value |-> operation[s].value]
  BY <1>2
<1> HIDE DEF es
<1>4. LinksOf(LastIndex(log[s]), LastTerm(log[s]), es) \subseteq Appended(s)
  BY <1>3 DEF LinksOf, LinkAt, Appended
<1>5. LinksOfLog(Extended(log[s], es))
        \subseteq LinksOfLog(log[s])
                    \union LinksOf(LastIndex(log[s]), LastTerm(log[s]), es)
  BY <1>1, <1>2, ExtendedLinks
<1> QED
  BY <1>4, <1>5, LinkSources DEF es

(* What a server restores after a crash: what was stored, with or without  *)
(* the write in flight.                                                    *)
LEMMA WriteStoresLinks ==
  ASSUME TypeInv, LogIsStored, LogInv, NEW s \in Server,
         WritesEntries(operation[s]), StoreEntries(s)
  PROVE  /\ \A p \in Server \ {s} : storedLog'[p] = storedLog[p]
         /\ storedLog'[s] = Extended(log[s], NewEntries(s))
         /\ LinksOfLog(storedLog'[s]) \subseteq AllLinks \union Appended(s)
<1>1. TypeOK /\ LogIsStoredAt(s)
  BY DEF TypeInv, LogIsStored
<1>2. /\ \A p \in Server \ {s} : storedLog'[p] = storedLog[p]
      /\ storedLog'[s] = Extended(log[s], NewEntries(s))
  BY <1>1, StoreEntriesEffect
<1>3. CASE operation[s].kind = "append"
  BY <1>2, <1>3, AppendAddsLink
<1>4. CASE operation[s].kind = "mergeEntries"
  <2>1. NewEntries(s) = operation[s].entries
    BY <1>4 DEF NewEntries
  <2> QED
    BY <1>2, <1>4, <2>1, MergeCopiesLinks
<1> QED
  BY <1>2, <1>3, <1>4 DEF WritesEntries

(* Every step is of that shape.                                            *)
LEMMA LogStepOf ==
  ASSUME TypeInv, TypeOK', LogIsStored, LogInv, NEW s \in Server, Step(s)
  PROVE  LogStep(s)
<1>1. /\ TypeOK /\ StartsAtZero /\ log \in [Server -> Seq(Entry)]
      /\ log[s] \in Seq(Entry) /\ log'[s] \in Seq(Entry)
      /\ operation[s] \in Operation /\ HeardAt(s)
      /\ DOMAIN operation = Server
      /\ LinksOfLog(log[s]) \subseteq AllLinks
      /\ LinksOfLog(storedLog[s]) \subseteq AllLinks
  BY LinkSources DEF TypeInv, TypeOK, LogInv, Heard
<1>2. CASE PersistedMergeEntries(s)
  <2>1. /\ operation[s].kind = "mergeEntries"
        /\ log' = [log EXCEPT ![s] = Extended(@, operation[s].entries)]
        /\ messages' = messages \union
             {AcceptEntries(s, operation[s].peer, LastIndex(log'[s]))}
        /\ operation' = [operation EXCEPT ![s] = Idle]
        /\ \/ WritesEntries(operation[s]) /\ StoreEntries(s)
           \/ UNCHANGED storedLog
    BY <1>2 DEF PersistedMergeEntries, Send, SetOperation
  <2>2. /\ \A p \in Server \ {s} :
             log'[p] = log[p] /\ storedLog'[p] = storedLog[p]
        /\ LinksOfLog(storedLog'[s]) \subseteq AllLinks \union Appended(s)
    BY <1>1, <2>1, WriteStoresLinks
  <2>3. LinksOfLog(log'[s]) \subseteq AllLinks \union Appended(s)
    BY <1>1, <2>1, MergeCopiesLinks
  <2>4. SendsUpdates(s)
    BY <2>1 DEF SendsUpdates, AcceptEntries
  <2>5. HeardAt(s)'
    BY <1>1, <2>1, NothingHeard DEF Idle
  <2> QED
    BY <2>2, <2>3, <2>4, <2>5 DEF LogStep
<1>3. CASE PersistedAppend(s)
  <2>1. /\ operation[s].kind = "append"
        /\ StoreEntries(s)
        /\ log' = [log EXCEPT ![s] = Extended(@, NewEntries(s))]
        /\ UpdateFollowers(s, Peers(s), nextIndex[s], matchIndex[s], FALSE, log'[s])
        /\ UNCHANGED <<role, currentTerm>>
    BY <1>3 DEF PersistedAppend
  <2>2. /\ \A p \in Server \ {s} :
             log'[p] = log[p] /\ storedLog'[p] = storedLog[p]
        /\ LinksOfLog(storedLog'[s]) \subseteq AllLinks \union Appended(s)
    BY <1>1, <2>1, WriteStoresLinks DEF WritesEntries
  <2>3. LinksOfLog(log'[s]) \subseteq AllLinks \union Appended(s)
    BY <1>1, <2>1, AppendAddsLink
  <2>4. SendsUpdates(s)
    <3>1. /\ role'[s] = "Leader"
          /\ nextIndex[s] \in [Server -> Nat \ {0}]
          /\ Peers(s) \in SUBSET Server
      BY <2>1 DEF TypeInv, TypeOK, PendingInLog, PendingInLogAt, Peers
    <3> QED
      BY <1>1, <2>1, <3>1, UpdatesSent
  <2>5. HeardAt(s)'
    BY <1>1, <2>1, UpdateHears
  <2> QED
    BY <2>2, <2>3, <2>4, <2>5 DEF LogStep
<1>4. CASE Restart(s)
  <2>1. /\ log' = [log EXCEPT ![s] = storedLog'[s]]
        /\ operation' = [operation EXCEPT ![s] = Idle]
        /\ UNCHANGED messages
        /\ \/ WritesEntries(operation[s]) /\ StoreEntries(s)
           \/ UNCHANGED storedLog
    BY <1>4 DEF Restart, SetOperation
  <2>2. /\ \A p \in Server \ {s} :
             log'[p] = log[p] /\ storedLog'[p] = storedLog[p]
        /\ LinksOfLog(storedLog'[s]) \subseteq AllLinks \union Appended(s)
    BY <1>1, <2>1, WriteStoresLinks
  <2>3. LinksOfLog(log'[s]) \subseteq AllLinks \union Appended(s)
    BY <1>1, <2>1, <2>2
  <2>4. SendsUpdates(s) /\ HeardAt(s)'
    BY <1>1, <2>1, NothingHeard DEF SendsUpdates, Idle
  <2> QED
    BY <2>2, <2>3, <2>4 DEF LogStep
<1>5. CASE ~(PersistedMergeEntries(s) \/ PersistedAppend(s) \/ Restart(s))
  <2>1. /\ UNCHANGED storedLog
        /\ Len(log'[s]) <= Len(log[s])
        /\ \A i \in 1 .. Len(log'[s]) : log'[s][i] = log[s][i]
        /\ \A p \in Server \ {s} : log'[p] = log[p]
    BY <1>1, <1>5, LogOnlyShortened DEF Step, Persisted
  <2>2. LinksOfLog(log'[s]) \subseteq AllLinks
    BY <1>1, <2>1, ShorterLinks
  <2>3. SendsUpdates(s) /\ HeardAt(s)'
    <3>1. ASSUME operation'[s].kind \notin {"convert", "mergeEntries"},
                 \A m \in messages' \ messages : m.type # "AppendEntries"
          PROVE  SendsUpdates(s) /\ HeardAt(s)'
      BY <3>1, NothingHeard DEF SendsUpdates
    <3>2. CASE FollowerTimesOut(s) \/ CandidateTimesOut(s)
      <4>1. UNCHANGED messages
            /\ operation' \in {operation, [operation EXCEPT ![s] = [kind |-> "requestVote"]]}
        BY <3>2
        DEF FollowerTimesOut, CandidateTimesOut, StartElection, SetOperation
      <4>2. operation[s] = Idle
        BY <3>2 DEF FollowerTimesOut, CandidateTimesOut, Free
      <4> QED
        BY <1>1, <3>1, <4>1, <4>2 DEF Idle
    <3>3. CASE LeaderSendsHeartbeat(s)
      <4>1. /\ role[s] = "Leader" /\ operation[s] = Idle
            /\ UNCHANGED <<role, log, currentTerm>>
        BY <3>3 DEF LeaderSendsHeartbeat, Free
      <4>2. CASE skipTick[s]
        BY <3>1, <3>3, <4>1, <4>2 DEF LeaderSendsHeartbeat, Idle
      <4>3. CASE UpdateFollowers(s, Peers(s), nextIndex[s], matchIndex[s], TRUE, log[s])
        <5>1. /\ role'[s] = "Leader"
              /\ nextIndex[s] \in [Server -> Nat \ {0}]
              /\ Peers(s) \in SUBSET Server
          BY <1>1, <4>1 DEF TypeOK, Peers
        <5> QED
          BY <1>1, <4>1, <4>3, <5>1, UpdatesSent, UpdateHears
      <4> QED
        BY <3>3, <4>2, <4>3 DEF LeaderSendsHeartbeat
    <3>4. CASE \E m \in messages : Receive(s, m)
      BY <3>4, UpdatesReceive
    <3>5. CASE \E value \in Value : LeaderAppends(s, value)
      BY <1>1, <3>1, <3>5 DEF LeaderAppends, SetOperation
    <3>6. CASE PersistedRequestVote(s) \/ PersistedGrantVote(s) \/ PersistedSetTerm(s)
      BY <1>1, <3>1, <3>6
      DEF PersistedRequestVote, PersistedGrantVote, PersistedSetTerm, Send,
          SetOperation, Idle, RequestVote, GrantVote
    <3>7. CASE PersistedConvert(s)
      <4>1. operation[s].message \in messages
        BY <1>1, <3>7 DEF PersistedConvert, HeardAt
      <4> QED
        BY <1>1, <3>7, <4>1, FollowerHears
        DEF PersistedConvert, ConvertToFollower
    <3> QED
      BY <1>5, <3>2, <3>3, <3>4, <3>5, <3>6, <3>7 DEF Step, Persisted
  <2> QED
    BY <1>1, <2>1, <2>2, <2>3 DEF LogStep
<1> QED
  BY <1>2, <1>3, <1>4, <1>5

-----------------------------------------------------------------------------
(* The invariant and what follows from it *)

(* The invariants hold initially.                                          *)
LEMMA LogInvInit == Init => LeadInv /\ LogInv
<1> SUFFICES ASSUME Init PROVE LeadInv /\ LogInv
  OBVIOUS
<1>1. LeadInv
  BY DEF Init, LeadInv, LeadersElected, ElectedRemembered, CandidatesAreNew, Leads
<1>2. Updates = {} /\ \A s \in Server : log[s] = << >> /\ storedLog[s] = << >>
  BY DEF Init, Updates
<1>3. LinksOfLog(<< >>) = {}
  BY DEF LinksOfLog, LinksOf
<1>4. AllLinks = {} /\ Known = {}
  BY <1>2, <1>3 DEF AllLinks, Known
<1>5. Heard
  BY DEF Init, Heard, HeardAt, Idle
<1> QED
  BY <1>1, <1>2, <1>4, <1>5
  DEF LogInv, Agree, KnownOfElected, LeaderHasKnown, StartsAtZero

(* Every step preserves them.                                              *)
LEMMA LogInvNext ==
  /\ Inv /\ Inv' /\ VoteInv /\ ElectionInv /\ ElectionSafety'
  /\ LeadInv /\ LogInv /\ [Next]_vars
  => LeadInv' /\ LogInv'
<1> SUFFICES ASSUME Inv, Inv', VoteInv, ElectionInv, ElectionSafety',
                    LeadInv, LogInv, [Next]_vars
             PROVE  LeadInv' /\ LogInv'
  OBVIOUS
<1>1. TypeInv /\ TypeOK /\ TypeOK' /\ LogIsStored /\ Candidates
  BY DEF Inv, TypeInv, ElectionInv
<1>2. CASE Next
  <2>1. PICK s \in Server : Step(s)
    BY <1>2 DEF Next
  <2>2. VoteStep(s)
    BY <1>1, <2>1, VotesStep
  <2>3. ElectionStep(s)
    BY <1>1, <2>1, <2>2, ElectionStepOf
  <2>4. LeadStep(s)
    BY <1>1, <2>1, LeadStepOf
  <2>5. LogStep(s)
    BY <1>1, <2>1, LogStepOf
  <2> QED
    BY <1>1, <2>2, <2>3, <2>4, <2>5, LeadStepInv, LogStepInv
<1>3. CASE UNCHANGED vars
  <2>1. UNCHANGED <<role, currentTerm, stored, log, storedLog, operation,
                    messages, elected>>
    BY <1>3 DEF vars, persistentVars, historyVars
  <2>2. LeadInv'
    BY <2>1
    DEF LeadInv, LeadersElected, ElectedRemembered, CandidatesAreNew, Leads,
        Leadership
  <2>3. AllLinks' = AllLinks /\ Updates' = Updates
    BY <2>1 DEF AllLinks, Updates
  <2>4. Known' = Known
    BY <2>3 DEF Known
  <2> QED
    BY <2>1, <2>2, <2>3, <2>4
    DEF LogInv, KnownOfElected, LeaderHasKnown, StartsAtZero, Heard, HeardAt,
        Leads
<1> QED
  BY <1>2, <1>3

(* They hold in every reachable state.                                     *)
LEMMA LogInvariance == Spec => [](LeadInv /\ LogInv)
BY LogInvInit, LogInvNext, Invariance, VoteInvariance, ElectionInvariance,
   ElectionSafetyHolds, PTL DEF Spec

(* Two logs with an entry of the same term at the same index are the same  *)
(* up to there, those a crash restores included.                           *)
THEOREM LogMatchingHolds == Spec => []LogMatching
<1>1. ASSUME Inv, LogInv PROVE LogMatching
  <2>1. ASSUME NEW s \in Server, NEW p \in Server
        PROVE  /\ LogsMatch(log[s], log[p])
               /\ LogsMatch(log[s], storedLog[p])
               /\ LogsMatch(storedLog[s], storedLog[p])
    <3>1. /\ log[s] \in Seq(Entry) /\ storedLog[s] \in Seq(Entry)
          /\ log[p] \in Seq(Entry) /\ storedLog[p] \in Seq(Entry)
      BY <1>1, ServerTypes DEF Inv, TypeInv
    <3>2. /\ LinksOfLog(log[s]) \subseteq AllLinks
          /\ LinksOfLog(storedLog[s]) \subseteq AllLinks
          /\ LinksOfLog(log[p]) \subseteq AllLinks
          /\ LinksOfLog(storedLog[p]) \subseteq AllLinks
          /\ Agree(AllLinks)
      BY <1>1, LinkSources DEF LogInv
    <3> QED
      BY <3>1, <3>2, AgreeingLogsMatch
  <2> QED
    BY <2>1 DEF LogMatching
<1> QED
  BY <1>1, Invariance, LogInvariance, PTL

=============================================================================
