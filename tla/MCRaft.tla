------------------------------- MODULE MCRaft -------------------------------
(***************************************************************************)
(* Small clusters for the runs over module Raft.                           *)
(***************************************************************************)
EXTENDS RaftProperties, TLC

CONSTANTS s1, s2, s3, s4

AnyValue == Permutations(Value)

(* The two followers of StarOfS1 and OnlyS1.                               *)
EitherFollower == Permutations({s2, s3})

(* Every message may be delivered.                                         *)
FullyConnected == Server \X Server

(* s1 and s2 only ever reach s3: two leaders that do not know of each      *)
(* other share a follower.                                                 *)
BridgedByS3 == {<<s1, s3>>, <<s3, s1>>, <<s2, s3>>, <<s3, s2>>}

(* s1 reaches s2 and s3, and nobody reaches s4.                            *)
StarOfS1 == {<<s1, s2>>, <<s2, s1>>, <<s1, s3>>, <<s3, s1>>}

(* A split vote or a single winner in term 1, and a second attempt by s1.  *)
SplitThenRetry == {<<s1, 1>>, <<s2, 1>>, <<s1, 2>>}

(* s1 and s2 can lead in term 1, or s1 in term 1 and s2 in term 2.         *)
TwoLeaders == {<<s1, 1>>, <<s2, 1>>, <<s2, 2>>}

(* s1 leads in term 1, and s2 takes over in term 2.                        *)
Handover == {<<s1, 1>>, <<s2, 2>>}

(* s1 leads, s3 stands in vain and then leads, and s1 leads again; nobody   *)
(* but s2 can vote.                                                        *)
Returns == {<<s1, 1>>, <<s3, 1>>, <<s3, 2>>, <<s1, 3>>}
ReachedByS2 == {<<s1, s2>>, <<s2, s1>>, <<s2, s3>>, <<s3, s2>>, <<s3, s1>>}

(* A bound for Returns: s3 stands only once s2 accepted what s1 appended   *)
(* and had it truncated again, and s1 once it had it truncated itself.     *)
TruncatedBeforeNext ==
  /\ currentTerm[s3] > 0 =>
       /\ \E m \in messages : m.type = "AcceptEntries"
       /\ currentTerm[s1] = 1 => log[s2] = << >>
  /\ role[s1] = "Candidate" => log[s1] = << >>

(* s1 is the only candidate.                                               *)
OnlyS1 == {<<s1, 1>>}

=============================================================================
