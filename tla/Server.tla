------------------------------- MODULE Server -------------------------------
(***************************************************************************)
(* The server as its host uses it: src/lib/Server.js, what src/lib/Raft.js *)
(* does for it (joinInitialCluster, the role changes and their events,     *)
(* close, destroy), and the listeners that are told of a role, which may   *)
(* call the server in turn.                                                *)
(*                                                                         *)
(* One role follows another here as module Raft lets it; what a role does  *)
(* is left out.  The calls of the host and the continuations of the        *)
(* promises run alone, except that a crash handler is called in the middle *)
(* of a role's start() and a listener in the middle of an emit().          *)
(***************************************************************************)
EXTENDS Events

CONSTANTS
  Event,          \* the role whose event the host listens to
  MaxAttempts,    \* bound: number of calls of join() that are let through
  MaxChanges,     \* bound: number of role changes
  MaxRestores     \* bound: number of calls of restoreState(), restoreLog()

ASSUME ServerAssumption ==
  /\ Event \in {"Follower", "Candidate", "Leader"}
  /\ {MaxCalls, MaxAttempts, MaxChanges, MaxRestores} \subseteq Nat

VARIABLES
  allowJoin,      \* Server._allowJoin
  allowRestore,   \* Server._allowRestore
  closing,        \* Server._closeInProgress: of "close" or "destroy", or "no"
  transport,      \* Server._transport: that of which attempt, or 0
  join,           \* where each attempt to join is
  transports,     \* the transport of each attempt
  role,           \* Raft.currentRole, "none" for null
  finished,       \* the promise with which the log is closed
  ended,          \* history: a listener closed the server during this emit()
  changes,        \* number of role changes
  restores        \* number of restorations

lifeVars == <<allowJoin, allowRestore, closing, transport, join, transports, role,
              finished, ended, changes, restores>>
vars == <<lifeVars, eventVars>>

Attempt == 1 .. MaxAttempts

InProgress(a) == join[a] \in {"listening", "connecting"}

-----------------------------------------------------------------------------
(* The host calls the server when nothing else runs, or from a listener.    *)
AtRest == emission.stage = "idle"

HostCalls == AtRest \/ emission.stage = "calling"

(* restoreState() and restoreLog()                                          *)
Restore ==
  /\ HostCalls
  /\ allowRestore
  /\ restores < MaxRestores
  /\ restores' = restores + 1
  /\ UNCHANGED <<allowJoin, allowRestore, closing, transport, join, transports,
                 role, finished, ended, changes, eventVars>>

(* join(), up to the promise of listen().  createTransport() may throw.     *)
Join(a) ==
  /\ HostCalls
  /\ allowJoin
  /\ join[a] = "none" /\ (a > 1 => join[a - 1] # "none")
  /\ allowJoin' = FALSE
  /\ allowRestore' = FALSE
  /\ \/ /\ join' = [join EXCEPT ![a] = "listening"]
        /\ transport' = a
        /\ transports' = [transports EXCEPT ![a] = "open"]
     \/ /\ join' = [join EXCEPT ![a] = "rejected"]
        /\ UNCHANGED <<transport, transports>>
  /\ UNCHANGED <<closing, role, finished, ended, changes, restores, eventVars>>

(* A faulty variant: the transport is destroyed, but not forgotten.         *)
LeaveTransportFaulty ==
  /\ transports' = IF transport = 0 THEN transports
                   ELSE [transports EXCEPT ![transport] =
                           IF @ = "open" THEN "destroying" ELSE "twice"]
  /\ UNCHANGED transport

(* The transport, if the server has one, is forgotten and destroyed.        *)
LeaveTransport ==
  /\ transports' = IF transport = 0 THEN transports
                   ELSE [transports EXCEPT ![transport] =
                           IF @ = "open" THEN "destroying" ELSE "twice"]
  /\ transport' = 0

(* A faulty variant: a closed server is opened again.                       *)
JoinFailsFaulty(a) ==
  /\ allowJoin' = TRUE
  /\ allowRestore' = TRUE
  /\ LeaveTransport
  /\ join' = [join EXCEPT ![a] = "cleaning"]

(* The `catch` of join().                                                   *)
JoinFails(a) ==
  \/ /\ closing # "no"
     /\ join' = [join EXCEPT ![a] = "rejected"]
     /\ UNCHANGED <<allowJoin, allowRestore, transport, transports>>
  \/ /\ closing = "no"
     /\ allowJoin' = TRUE
     /\ allowRestore' = TRUE
     /\ LeaveTransport
     /\ join' = [join EXCEPT ![a] = "cleaning"]

(* listen() settles.  connect() is called for every address at once, on a   *)
(* transport that a closed server no longer has; without addresses that     *)
(* goes unnoticed.                                                          *)
ListenSettles(a) ==
  /\ AtRest
  /\ join[a] = "listening"
  /\ \/ JoinFails(a)
     \/ /\ join' = [join EXCEPT ![a] = "connecting"]
        /\ UNCHANGED <<allowJoin, allowRestore, transport, transports>>
  /\ UNCHANGED <<closing, role, finished, ended, changes, restores, eventVars>>

(* A role object is put in place and started; the event is to follow.       *)
StartRole(r) ==
  /\ role' = r
  /\ ended' = FALSE
  /\ emission' = [Idle EXCEPT !.stage = "starting", !.event = r]
  /\ UNCHANGED <<listeners, standing, credit, calls>>

(* The connections settle, and the last of them makes the server a follower *)
(* whether or not it was closed meanwhile.  Connections that an attempt     *)
(* that failed is still making are of no consequence.                       *)
ConnectSettles(a) ==
  /\ AtRest
  /\ join[a] = "connecting"
  /\ \/ JoinFails(a) /\ UNCHANGED <<role, ended, eventVars>>
     \/ /\ join' = [join EXCEPT ![a] = "resolved"]
        /\ StartRole("Follower")
        /\ UNCHANGED <<allowJoin, allowRestore, transport, transports>>
  /\ UNCHANGED <<closing, finished, changes, restores>>

(* A faulty variant: the join that failed is not answered.                  *)
DestroySettlesFaulty(a) ==
  /\ AtRest
  /\ transports[a] = "destroying"
  /\ transports' = [transports EXCEPT ![a] = "gone"]
  /\ UNCHANGED <<allowJoin, allowRestore, closing, transport, join, role,
                 finished, ended, changes, restores, eventVars>>

(* The promise of Transport.destroy() settles, which a join that failed     *)
(* waits for.                                                               *)
DestroySettles(a) ==
  /\ AtRest
  /\ transports[a] = "destroying"
  /\ transports' = [transports EXCEPT ![a] = "gone"]
  /\ join' = [join EXCEPT ![a] = IF @ = "cleaning" THEN "rejected" ELSE @]
  /\ UNCHANGED <<allowJoin, allowRestore, closing, transport, role, finished,
                 ended, changes, restores, eventVars>>

-----------------------------------------------------------------------------
(* A crash handler that is called while a role starts may close the server. *)
HostCloses == HostCalls \/ emission.stage = "starting"

LeaveRole ==
  /\ role' = "none"
  /\ ended' = (ended \/ emission.stage = "calling")

(* A faulty variant: an applier that is idle is not noticed.                *)
CloseFaulty ==
  /\ HostCloses
  /\ closing = "no"
  /\ closing' = "close"
  /\ allowJoin' = FALSE
  /\ LeaveTransport
  /\ LeaveRole
  /\ finished' \in {"no", "waiting"}
  /\ UNCHANGED <<allowRestore, join, changes, restores, eventVars>>

(* close(): what is being applied is waited for.  A second call returns the *)
(* promise of the first, also when a role was started since.                *)
Close ==
  /\ HostCloses
  /\ closing = "no"
  /\ closing' = "close"
  /\ allowJoin' = FALSE
  /\ LeaveTransport
  /\ LeaveRole
  /\ finished' \in {"yes", "waiting"}
  /\ UNCHANGED <<allowRestore, join, changes, restores, eventVars>>

(* destroy(): what is left to apply is dropped, and with it the end that    *)
(* close() waits for.                                                       *)
Destroy ==
  /\ HostCloses
  /\ closing' = "destroy"
  /\ allowJoin' = FALSE
  /\ LeaveTransport
  /\ LeaveRole
  /\ finished' = IF finished = "waiting" THEN "never" ELSE finished
  /\ UNCHANGED <<allowRestore, join, changes, restores, eventVars>>

(* The applier gets to the end of its queue, or the state machine fails.    *)
ApplierSettles ==
  /\ AtRest
  /\ finished = "waiting"
  /\ finished' \in {"yes", "never"}
  /\ UNCHANGED <<allowJoin, allowRestore, closing, transport, join, transports,
                 role, ended, changes, restores, eventVars>>

-----------------------------------------------------------------------------
(* Role changes, as module Raft has them *)

Follows(r) == CASE r = "Follower"  -> {"Candidate"}
                [] r = "Candidate" -> {"Leader", "Follower"}
                [] r = "Leader"    -> {"Follower"}
                [] r = "none"      -> {}

ChangeRole ==
  /\ AtRest
  /\ changes < MaxChanges
  /\ changes' = changes + 1
  /\ \E r \in Follows(role) : StartRole(r)
  /\ UNCHANGED <<allowJoin, allowRestore, closing, transport, join, transports,
                 finished, restores>>

(* A faulty variant: the event follows in any case.                         *)
RoleStartedFaulty ==
  /\ emission.stage = "starting"
  /\ IF emission.event = Event THEN Emit(emission.event)
     ELSE emission' = Idle /\ UNCHANGED <<listeners, standing, credit, calls>>
  /\ UNCHANGED lifeVars

(* The event is emitted when the role that was started is still in place.   *)
RoleStarted ==
  /\ emission.stage = "starting"
  /\ IF role = emission.event /\ role = Event THEN Emit(role)
     ELSE emission' = Idle /\ UNCHANGED <<listeners, standing, credit, calls>>
  /\ UNCHANGED lifeVars

HostListens ==
  /\ HostCalls
  /\ \E l \in Listener : On(l) \/ Once(l) \/ RemoveListener(l)
  /\ UNCHANGED lifeVars

-----------------------------------------------------------------------------
Init ==
  /\ EventsInit
  /\ allowJoin = TRUE
  /\ allowRestore = TRUE
  /\ closing = "no"
  /\ transport = 0
  /\ join = [a \in Attempt |-> "none"]
  /\ transports = [a \in Attempt |-> "none"]
  /\ role = "none"
  /\ finished = "no"
  /\ ended = FALSE
  /\ changes = 0
  /\ restores = 0

Emitter == EmitRuns /\ UNCHANGED lifeVars

Program == RoleStarted \/ Emitter

Host ==
  \/ Restore
  \/ \E a \in Attempt : Join(a)
  \/ Close
  \/ Destroy
  \/ HostListens

Transport(a) == ListenSettles(a) \/ ConnectSettles(a) \/ DestroySettles(a)

Next ==
  \/ Program
  \/ Host
  \/ \E a \in Attempt : Transport(a)
  \/ ApplierSettles
  \/ ChangeRole

(* Code that can run does, listeners return or throw, and the promises of   *)
(* the transport and of the state machine settle.                           *)
Spec ==
  /\ Init /\ [][Next]_vars
  /\ WF_vars(Program)
  /\ WF_vars(ApplierSettles)
  /\ \A a \in Attempt : WF_vars(Transport(a))

-----------------------------------------------------------------------------
(* Properties *)

(* Every variable holds a value of the kind the code gives it, and the loop *)
(* of emit() is within the Map it goes over.                                *)
TypeOK ==
  /\ {allowJoin, allowRestore, ended} \subseteq BOOLEAN
  /\ closing \in {"no", "close", "destroy"}
  /\ transport \in 0 .. MaxAttempts
  /\ join \in [Attempt -> {"none", "listening", "connecting", "cleaning",
                           "resolved", "rejected"}]
  /\ transports \in [Attempt -> {"none", "open", "destroying", "gone", "twice"}]
  /\ role \in {"none", "Follower", "Candidate", "Leader"}
  /\ finished \in {"no", "waiting", "yes", "never"}
  /\ {changes, restores, calls, emission.at} \subseteq Nat
  /\ listeners \in Seq([listener : Listener, once : BOOLEAN])
  /\ emission.stage \in {"idle", "starting", "next", "calling"}
  /\ emission.orphaned \/ emission.at <= Len(listeners)

(* The server stands apart, joins, is a member and is closed as module      *)
(* Membership says: no restoring under a join or a role, another attempt    *)
(* only after one that failed, and no way back from close() or destroy()    *)
(* but for the join that was in progress (Server.js:100-141).               *)
Phase ==
  CASE role # "none"                                    -> "member"
    [] role = "none" /\ closing # "no"                  -> "closed"
    [] role = "none" /\ closing = "no" /\ allowJoin     -> "apart"
    [] OTHER -> IF \E a \in Attempt : InProgress(a) THEN "joining" ELSE "stuck"

Life == INSTANCE Membership WITH
  phase     <- Phase,
  straggles <- closing # "no" /\ (\E a \in Attempt : InProgress(a)),
  restores  <- restores

LivesAsPromised == Life!Spec

(* Every transport that was created is destroyed once, and the server keeps *)
(* the one that was not: whichever of a failing join, close() and destroy() *)
(* come together.                                                           *)
TransportsDestroyedOnce ==
  \A a \in Attempt :
    /\ transports[a] # "twice"
    /\ transports[a] = "open" => transport = a

(* A listener hears of a role only while the server is in it, unless        *)
(* another listener has just closed the server (the comments at             *)
(* Raft.js:126-129): also when a crash handler destroys the server while    *)
(* the role starts.                                                         *)
HeardInRole == emission.stage = "calling" => role = emission.event \/ ended

(* What once() alone registered is called no more often than once() was.    *)
FiresOnce == \A l \in Listener : standing[l] = "once" => credit[l] >= 0

(* A listener that on() registered stays, as one that fires every time,     *)
(* until removeListener() or another on(): whatever the other listeners do  *)
(* during an emit(), and also when once() is called for it.                 *)
ListenersStay ==
  \A l \in Listener : standing[l] = "always" =>
    \E i \in DOMAIN listeners : listeners[i] = [listener |-> l, once |-> FALSE]

(* A listener that was removed is not called, not even by the emit() in     *)
(* progress.                                                                *)
RemovedIsSilent ==
  [][emission'.stage = "calling" /\ emission.stage = "next" =>
       standing[emission'.listener] # "none"]_vars

(* Every join() is answered, also when close(), destroy() or a listener     *)
(* comes in between.                                                        *)
JoinsSettle ==
  \A a \in Attempt :
    InProgress(a) \/ join[a] = "cleaning" ~> join[a] \in {"resolved", "rejected"}

(* close() settles, unless destroy() follows or the state machine fails.    *)
CloseSettles ==
  closing = "close" ~>
    \/ finished = "yes" /\ \A a \in Attempt : transports[a] # "destroying"
    \/ finished = "never"

=============================================================================
