----------------------------- MODULE Replication -----------------------------
(***************************************************************************)
(* A leader and its followers while nothing goes wrong: nobody crashes or  *)
(* stands for election, connections keep the order of what is sent and     *)
(* lose nothing.  What is left of module Raft is the convergence of the    *)
(* logs: nextIndex and matchIndex of src/lib/roles/Leader.js against the   *)
(* replies of src/lib/roles/Follower.js.                                   *)
(*                                                                         *)
(* The servers were restarted with the logs they had persisted, and one    *)
(* whose log is longest was elected.  All entries are of earlier leaders   *)
(* that the logs agree on, or of this one: a follower's log is a prefix of *)
(* the leader's, and each log is its lastIndex.  A follower persists what  *)
(* it merges in the step that merges it.                                   *)
(***************************************************************************)
EXTENDS Integers, Sequences

CONSTANTS
  Follower,       \* the leader's peers
  MaxRestored,    \* bound: length of the logs that were restored
  MaxIndex,       \* bound: length of the leader's log
  MaxInTransit    \* bound: messages on one connection, both ways

VARIABLES
  lastIndex,            \* of the leader's log
  nextIndex,            \* the leader's account of each follower
  matchIndex,
  skipNextHeartbeat,
  followerIndex,        \* the lastIndex of each follower's log
  toFollower,           \* the connection with each follower
  toLeader

leaderVars == <<lastIndex, nextIndex, matchIndex, skipNextHeartbeat>>
vars == <<leaderVars, followerIndex, toFollower, toLeader>>

-----------------------------------------------------------------------------
(* The leader *)

(* updateFollower().  The message carries the entries after prevLogIndex up *)
(* to lastLogIndex: none unless nextIndex and matchIndex are adjacent.      *)
AppendEntries(next, match, heartbeatOnly, last) ==
  [prevLogIndex |-> next - 1,
   lastLogIndex |-> IF heartbeatOnly \/ next - 1 # match THEN next - 1
                                                         ELSE last]

HasRoom == \A f \in Follower : Len(toFollower[f]) + Len(toLeader[f]) < MaxInTransit

UpdateFollowers(heartbeatOnly, last) ==
  toFollower' = [f \in Follower |->
    Append(toFollower[f],
           AppendEntries(nextIndex[f], matchIndex[f], heartbeatOnly, last))]

SendHeartbeat ==
  /\ HasRoom
  /\ skipNextHeartbeat' = FALSE
  /\ UNCHANGED <<lastIndex, nextIndex, matchIndex, followerIndex, toLeader>>
  /\ \/ skipNextHeartbeat /\ UNCHANGED toFollower
     \/ ~skipNextHeartbeat /\ UpdateFollowers(TRUE, lastIndex)

AppendValue ==
  /\ HasRoom
  /\ lastIndex < MaxIndex
  /\ lastIndex' = lastIndex + 1
  /\ skipNextHeartbeat' = TRUE
  /\ UpdateFollowers(FALSE, lastIndex')
  /\ UNCHANGED <<nextIndex, matchIndex, followerIndex, toLeader>>

(* A reply is taken from the connection, and may be answered at once.       *)
Answer(f, answers, heartbeatOnly) ==
  /\ toLeader' = [toLeader EXCEPT ![f] = Tail(@)]
  /\ toFollower' = IF answers
       THEN [toFollower EXCEPT ![f] =
               Append(@, AppendEntries(nextIndex'[f], matchIndex'[f], heartbeatOnly,
                                       lastIndex))]
       ELSE toFollower
  /\ UNCHANGED <<lastIndex, skipNextHeartbeat, followerIndex>>

HandleRejectEntries(f, conflictingIndex) ==
  /\ UNCHANGED matchIndex
  /\ \/ /\ conflictingIndex > matchIndex[f] /\ conflictingIndex < nextIndex[f]
        /\ nextIndex' = [nextIndex EXCEPT ![f] = conflictingIndex]
        /\ Answer(f, TRUE, TRUE)
     \/ /\ ~(conflictingIndex > matchIndex[f] /\ conflictingIndex < nextIndex[f])
        /\ UNCHANGED nextIndex
        /\ Answer(f, FALSE, TRUE)

HandleAcceptEntries(f, lastLogIndex) ==
  /\ \/ /\ lastLogIndex >= nextIndex[f]
        /\ nextIndex' = [nextIndex EXCEPT ![f] = lastLogIndex + 1]
        /\ matchIndex' = [matchIndex EXCEPT ![f] = lastLogIndex]
     \/ /\ lastLogIndex < nextIndex[f]
        /\ UNCHANGED <<nextIndex, matchIndex>>
  /\ Answer(f, nextIndex'[f] <= lastIndex, FALSE)

LeaderReceives(f) ==
  /\ toLeader[f] # << >>
  /\ LET m == Head(toLeader[f])
     IN  \/ m.type = "RejectEntries" /\ HandleRejectEntries(f, m.index)
         \/ m.type = "AcceptEntries" /\ HandleAcceptEntries(f, m.index)

-----------------------------------------------------------------------------
(* A follower *)

Min2(a, b) == IF a < b THEN a ELSE b

Reply(type, index) == [type |-> type, index |-> index]

(* handleAppendEntries(): a log that is too short is a conflict at its last *)
(* entry; one that is not ends where the message does.                      *)
FollowerReceives(f) ==
  /\ toFollower[f] # << >>
  /\ toFollower' = [toFollower EXCEPT ![f] = Tail(@)]
  /\ LET m == Head(toFollower[f])
         conflictingIndex ==
           Min2(m.prevLogIndex, IF followerIndex[f] = 0 THEN 1 ELSE followerIndex[f])
     IN  \/ /\ m.prevLogIndex > followerIndex[f]
            /\ toLeader' = [toLeader EXCEPT
                 ![f] = Append(@, Reply("RejectEntries", conflictingIndex))]
            /\ UNCHANGED followerIndex
         \/ /\ m.prevLogIndex <= followerIndex[f]
            /\ followerIndex' = [followerIndex EXCEPT ![f] = m.lastLogIndex]
            /\ toLeader' = [toLeader EXCEPT
                 ![f] = Append(@, Reply("AcceptEntries", m.lastLogIndex))]
  /\ UNCHANGED leaderVars

-----------------------------------------------------------------------------
(* The leader claims its office with a heartbeat.                           *)
Init ==
  /\ lastIndex \in 0 .. MaxRestored
  /\ followerIndex \in [Follower -> 0 .. lastIndex]
  /\ nextIndex = [f \in Follower |-> lastIndex + 1]
  /\ matchIndex = [f \in Follower |-> 0]
  /\ skipNextHeartbeat = FALSE
  /\ toFollower = [f \in Follower |->
       << [prevLogIndex |-> lastIndex, lastLogIndex |-> lastIndex] >>]
  /\ toLeader = [f \in Follower |-> << >>]

Next ==
  \/ SendHeartbeat
  \/ AppendValue
  \/ \E f \in Follower : LeaderReceives(f) \/ FollowerReceives(f)

(* The interval fires, and what is sent arrives and is handled.             *)
Spec ==
  /\ Init /\ [][Next]_vars
  /\ WF_vars(SendHeartbeat)
  /\ \A f \in Follower : WF_vars(LeaderReceives(f)) /\ WF_vars(FollowerReceives(f))

-----------------------------------------------------------------------------
(* Properties *)

(* Every entry of the leader reaches every follower: "each server,          *)
(* eventually, has the same state as the leader" (README.md:22-24).  It     *)
(* does not hold: a follower whose log is not empty when the leader takes   *)
(* office never moves matchIndex, and without it is only sent heartbeats.   *)
EntriesReachFollowers ==
  \A f \in Follower, i \in 1 .. MaxIndex :
    lastIndex >= i ~> followerIndex[f] >= i

=============================================================================
