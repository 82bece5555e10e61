------------------------------- MODULE Serial -------------------------------
(***************************************************************************)
(* What a server promises about the work it is given, abstractly, and what *)
(* module Raft takes for granted: whatever role it is in, it handles the   *)
(* messages of each source in the order in which they arrived, each of     *)
(* them once, and starts nothing while an operation is in progress.  The   *)
(* last of these holds until the state machine calls append() from within  *)
(* applyEntry().                                                           *)
(***************************************************************************)
EXTENDS Naturals, FiniteSets

CONSTANT Source

VARIABLES
  arrived,    \* for each source, how many of its messages arrived
  handled,    \* for each source, how many of them were handled
  inFlight,   \* the operations in progress
  reentered   \* whether applyEntry() called append()

Init ==
  /\ arrived = [p \in Source |-> 0]
  /\ handled = [p \in Source |-> 0]
  /\ inFlight = {}
  /\ reentered = FALSE

Arrive(p) ==
  /\ arrived' = [arrived EXCEPT ![p] = @ + 1]
  /\ UNCHANGED <<handled, inFlight, reentered>>

Free == inFlight = {} \/ reentered

Starts ==
  /\ Free
  /\ inFlight \subseteq inFlight'
  /\ Cardinality(inFlight') = Cardinality(inFlight) + 1

(* Handling a message may start an operation.                              *)
Handle(p) ==
  /\ handled[p] < arrived[p]
  /\ handled' = [handled EXCEPT ![p] = @ + 1]
  /\ \/ Starts /\ reentered' \in {reentered, TRUE}
     \/ Free /\ UNCHANGED <<inFlight, reentered>>
  /\ UNCHANGED arrived

(* So may a timer, a call of append() or a new role.                       *)
Start == Starts /\ UNCHANGED <<arrived, handled, reentered>>

Complete ==
  /\ \E op \in inFlight : inFlight' = inFlight \ {op}
  /\ UNCHANGED <<arrived, handled, reentered>>

Next == (\E p \in Source : Arrive(p) \/ Handle(p)) \/ Start \/ Complete

Spec == Init /\ [][Next]_<<arrived, handled, inFlight, reentered>>

=============================================================================
