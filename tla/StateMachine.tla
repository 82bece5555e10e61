---------------------------- MODULE StateMachine ----------------------------
(***************************************************************************)
(* What a server's state machine sees of the log, abstractly: the indexes  *)
(* of the entries it applies.  An entry is applied only after it was       *)
(* committed, and no entry is passed over; but one that was applied may be *)
(* applied again (the application is at least once, not exactly once).     *)
(***************************************************************************)
EXTENDS Naturals, Sequences, Functions

VARIABLES
  allowed,   \* the highest index that was committed
  applied    \* the indexes the state machine applied, in that order

Reached(i) == i = 0 \/ i \in Range(applied)

Init == allowed = 0 /\ applied = << >>

Allow ==
  /\ allowed' > allowed
  /\ UNCHANGED applied

Apply ==
  /\ \E i \in 1 .. allowed :
       /\ Reached(i - 1)
       /\ applied' = Append(applied, i)
  /\ UNCHANGED allowed

Next == Allow \/ Apply

Spec == Init /\ [][Next]_<<allowed, applied>>

=============================================================================
