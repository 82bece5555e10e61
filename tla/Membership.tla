----------------------------- MODULE Membership -----------------------------
(***************************************************************************)
(* The life of a server as its host sees it, abstractly: it stands apart   *)
(* and its state may be restored; it joins, and may try again when that    *)
(* fails; it is a member until it is closed.  A server that is closed is   *)
(* closed for good, unless it was joining at that moment: the join goes on *)
(* and may make a member of it.                                            *)
(***************************************************************************)
EXTENDS Naturals

VARIABLES
  phase,       \* "apart", "joining", "stuck", "member" or "closed"
  straggles,   \* whether a closed server is still joining
  restores     \* how often its state was restored

Init ==
  /\ phase = "apart"
  /\ straggles = FALSE
  /\ restores = 0

(* What was restored is never replaced under a join or a role.              *)
Restore ==
  /\ phase \in {"apart", "closed"} /\ ~straggles
  /\ restores' = restores + 1
  /\ UNCHANGED <<phase, straggles>>

(* A transport that cannot be created leaves the server stuck.              *)
Join ==
  /\ phase = "apart"
  /\ phase' \in {"joining", "stuck"}
  /\ UNCHANGED <<straggles, restores>>

Fail ==
  /\ phase = "joining"
  /\ phase' = "apart"
  /\ UNCHANGED <<straggles, restores>>

Enter ==
  /\ phase = "joining" \/ straggles
  /\ phase' = "member"
  /\ straggles' = FALSE
  /\ UNCHANGED restores

GiveUp ==
  /\ straggles
  /\ straggles' = FALSE
  /\ UNCHANGED <<phase, restores>>

Close ==
  /\ phase # "closed"
  /\ phase' = "closed"
  /\ straggles' = (phase = "joining")
  /\ UNCHANGED restores

Next == Restore \/ Join \/ Fail \/ Enter \/ GiveUp \/ Close

Spec == Init /\ [][Next]_<<phase, straggles, restores>>

=============================================================================
