------------------------------- MODULE Events -------------------------------
(***************************************************************************)
(* The listeners of one event of a server (src/lib/expose-events.js): the  *)
(* Map from listeners to whether they fire once, in order of registration, *)
(* and the loop of emit() over it, which a listener may change by calling  *)
(* on(), once() and removeListener().  The other events have Maps of their *)
(* own and nobody listens to them.                                         *)
(*                                                                         *)
(* The operators say what a call does to the variables of this module;     *)
(* module Server says when it happens.                                     *)
(***************************************************************************)
EXTENDS Integers, Sequences, SequencesExt

CONSTANTS
  Listener,    \* the functions the host registers
  MaxCalls     \* bound: number of calls of on(), once() and removeListener()

VARIABLES
  listeners,   \* the Map: a sequence of listeners and their fireOnce
  emission,    \* where emit() is
  standing,    \* history: what the host may expect for each listener
  credit,      \* history: calls of once() less the calls of the listener
  calls        \* number of calls of on(), once() and removeListener()

eventVars == <<listeners, emission, standing, credit, calls>>

-----------------------------------------------------------------------------
(* The Map *)

Registered == {listeners[i].listener : i \in DOMAIN listeners}

Place(l) == CHOOSE i \in DOMAIN listeners : listeners[i].listener = l

(* `at` is how many of the entries of the Map the loop has passed, `once`   *)
(* the fireOnce it read for the listener it calls.  A Map that lost its     *)
(* last listener leaves the registry, but the loop still holds on to it:    *)
(* it is then orphaned, and what is registered next goes to a new one.      *)
Idle == [stage |-> "idle", event |-> "none", at |-> 0, listener |-> "none",
         once |-> FALSE, orphaned |-> FALSE]

Emitting == emission.stage \in {"next", "calling"}

(* A faulty variant: the new value replaces the old one.                    *)
FlagFaulty(old, fireOnce) == fireOnce

(* The comparison that on() and once() leave for a listener that is already *)
(* registered.                                                              *)
Flag(old, fireOnce) == fireOnce = old

(* Map.prototype.delete() moves the loop back when it was past the entry.   *)
Deleted(l) ==
  /\ listeners' = RemoveAt(listeners, Place(l))
  /\ emission' = [emission EXCEPT
       !.at = IF Emitting /\ ~emission.orphaned /\ Place(l) <= @ THEN @ - 1 ELSE @,
       !.orphaned = @ \/ (Emitting /\ Len(listeners) = 1)]

-----------------------------------------------------------------------------
(* The calls of the host *)

MayCall == calls < MaxCalls /\ calls' = calls + 1

AddListener(l, fireOnce) ==
  /\ listeners' =
       IF l \in Registered
       THEN [listeners EXCEPT ![Place(l)].once = Flag(@, fireOnce)]
       ELSE Append(listeners, [listener |-> l, once |-> fireOnce])
  /\ UNCHANGED emission

(* A listener that on() registers afresh, apart from any emit(), stays.     *)
On(l) ==
  /\ MayCall
  /\ AddListener(l, FALSE)
  /\ standing' = [standing EXCEPT ![l] =
       IF Emitting \/ l \in Registered THEN "other" ELSE "always"]
  /\ UNCHANGED credit

Once(l) ==
  /\ MayCall
  /\ AddListener(l, TRUE)
  /\ standing' = [standing EXCEPT ![l] = IF @ = "none" THEN "once" ELSE @]
  /\ credit' = [credit EXCEPT ![l] = IF standing[l] = "always" THEN @ ELSE @ + 1]

(* A faulty variant: what is removed during an emit() is still called.      *)
RemoveListenerFaulty(l) ==
  /\ MayCall
  /\ \/ l \in Registered /\ ~Emitting /\ Deleted(l)
     \/ (l \notin Registered \/ Emitting) /\ UNCHANGED <<listeners, emission>>
  /\ standing' = [standing EXCEPT ![l] = "none"]
  /\ credit' = [credit EXCEPT ![l] = 0]

RemoveListener(l) ==
  /\ MayCall
  /\ \/ l \in Registered /\ Deleted(l)
     \/ l \notin Registered /\ UNCHANGED <<listeners, emission>>
  /\ standing' = [standing EXCEPT ![l] = "none"]
  /\ credit' = [credit EXCEPT ![l] = 0]

-----------------------------------------------------------------------------
(* emit() *)

Emit(event) ==
  /\ emission' = IF listeners = << >> THEN Idle
                 ELSE [Idle EXCEPT !.stage = "next", !.event = event]
  /\ UNCHANGED <<listeners, standing, credit, calls>>

More == ~emission.orphaned /\ emission.at < Len(listeners)

CallListener ==
  /\ emission.stage = "next"
  /\ More
  /\ LET entry == listeners[emission.at + 1]
     IN  /\ emission' = [emission EXCEPT !.stage = "calling", !.at = @ + 1,
                           !.listener = entry.listener, !.once = entry.once]
         /\ credit' = [credit EXCEPT ![entry.listener] =
              IF standing[entry.listener] = "always" THEN @ ELSE @ - 1]
  /\ UNCHANGED <<listeners, standing, calls>>

(* A faulty variant: the loop does not notice that an entry is gone.        *)
FinallyWithoutMove ==
  [map |-> IF emission.once /\ ~emission.orphaned /\ emission.listener \in Registered
           THEN RemoveAt(listeners, Place(emission.listener)) ELSE listeners,
   at  |-> emission.at]

(* A faulty variant: a listener that fires once stays.                      *)
FinallyFaulty == [map |-> listeners, at |-> emission.at]

(* The `finally` of the loop.                                               *)
Finally ==
  IF emission.once /\ ~emission.orphaned /\ emission.listener \in Registered
  THEN [map |-> RemoveAt(listeners, Place(emission.listener)),
        at  |-> IF Place(emission.listener) <= emission.at
                THEN emission.at - 1 ELSE emission.at]
  ELSE [map |-> listeners, at |-> emission.at]

ListenerReturns ==
  /\ emission.stage = "calling"
  /\ listeners' = Finally.map
  /\ emission' = [emission EXCEPT !.stage = "next", !.at = Finally.at]
  /\ UNCHANGED <<standing, credit, calls>>

(* The Map leaves the registry when it is empty, or whichever Map took the  *)
(* place of the one that is.                                                *)
ListenerThrows ==
  /\ emission.stage = "calling"
  /\ listeners' = IF emission.orphaned THEN << >> ELSE Finally.map
  /\ emission' = Idle
  /\ UNCHANGED <<standing, credit, calls>>

EmitEnds ==
  /\ emission.stage = "next"
  /\ ~More
  /\ listeners' = IF emission.orphaned THEN << >> ELSE listeners
  /\ emission' = Idle
  /\ UNCHANGED <<standing, credit, calls>>

EmitRuns == CallListener \/ ListenerReturns \/ ListenerThrows \/ EmitEnds

EventsInit ==
  /\ listeners = << >>
  /\ emission = Idle
  /\ standing = [l \in Listener |-> "none"]
  /\ credit = [l \in Listener |-> 0]
  /\ calls = 0

=============================================================================
