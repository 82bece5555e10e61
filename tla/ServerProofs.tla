---------------------------- MODULE ServerProofs ----------------------------
(***************************************************************************)
(* Theorems about module Server, for any number of attempts to join, role  *)
(* changes, restorations, listeners and calls.                             *)
(***************************************************************************)
EXTENDS Server, EventsProofs

-----------------------------------------------------------------------------
(* The invariant *)

LifeType ==
  /\ allowJoin \in BOOLEAN /\ allowRestore \in BOOLEAN /\ ended \in BOOLEAN
  /\ closing \in {"no", "close", "destroy"}
  /\ transport \in 0 .. MaxAttempts
  /\ join \in [Attempt -> {"none", "listening", "connecting", "cleaning",
                           "resolved", "rejected"}]
  /\ transports \in [Attempt -> {"none", "open", "destroying", "gone", "twice"}]
  /\ role \in RoleName
  /\ finished \in {"no", "waiting", "yes", "never"}
  /\ changes \in Nat /\ restores \in Nat

(* At most one attempt is in progress.  While it is, the server has no role *)
(* and may neither join nor restore; a server that was not closed holds its *)
(* transport.                                                              *)
OneAttempt ==
  \A a \in Attempt : InProgress(a) =>
    /\ \A b \in Attempt : InProgress(b) => a = b
    /\ role = "none" /\ ~allowJoin /\ ~allowRestore
    /\ closing = "no" => transport = a

Allowed ==
  /\ allowJoin => closing = "no" /\ role = "none" /\ transport = 0
  /\ allowRestore => role = "none" /\ (allowJoin \/ closing # "no")

(* The transport that the server holds is the one that is open.            *)
OneTransport ==
  /\ \A a \in Attempt : transports[a] # "twice" /\ (transports[a] = "open" => transport = a)
  /\ transport # 0 => transports[transport] = "open"

(* An emit() is of the role the server is in, or was in when it began.     *)
EmitsItsRole ==
  emission.stage \in {"next", "calling"} => role = emission.event \/ ended

LifeInv == LifeType /\ OneAttempt /\ Allowed /\ OneTransport

Inv == LifeInv /\ EventsInv /\ EmitsItsRole

-----------------------------------------------------------------------------
(* The initial state satisfies the invariant.                              *)
LEMMA InitInv == ASSUME Init PROVE Inv
<1>1. LifeInv
  <2>1. /\ transport = 0 /\ 0 \in 0 .. MaxAttempts
        /\ \A a \in Attempt : join[a] = "none" /\ transports[a] = "none"
    BY ServerAssumption DEF Init
  <2>2. LifeType
    <3>1. /\ join \in [Attempt -> {"none", "listening", "connecting", "cleaning",
                                    "resolved", "rejected"}]
          /\ transports \in [Attempt -> {"none", "open", "destroying", "gone", "twice"}]
      BY DEF Init
    <3>2. QED
      BY <2>1, <3>1 DEF Init, LifeType, RoleName
  <2>3. OneAttempt /\ OneTransport
    BY <2>1 DEF OneAttempt, OneTransport, InProgress
  <2>4. Allowed
    BY DEF Init, Allowed
  <2>5. QED
    BY <2>2, <2>3, <2>4 DEF LifeInv
<1>2. EventsInv
  BY EventsInitInv DEF Init
<1>3. EmitsItsRole
  BY IdleFields DEF Init, EventsInit, EmitsItsRole
<1>4. QED
  BY <1>1, <1>2, <1>3 DEF Inv

(* The joins and the transports, action by action *)

(* A restoration changes nothing that the invariant speaks of.             *)
LEMMA RestoreInv == ASSUME LifeInv, Restore PROVE LifeInv'
BY DEF LifeInv, Restore, LifeType, OneAttempt, Allowed, OneTransport, InProgress

(* A join takes the rights to join and to restore, and may open a          *)
(* transport.                                                              *)
LEMMA JoinInv == ASSUME LifeInv, NEW a \in Attempt, Join(a) PROVE LifeInv'
<1>1. LifeType /\ OneAttempt /\ Allowed /\ OneTransport /\ allowJoin
  BY DEF LifeInv, Join
<1>2. /\ \A b \in Attempt : ~InProgress(b)
      /\ closing = "no" /\ role = "none" /\ transport = 0
  BY <1>1 DEF OneAttempt, Allowed
<1>3. /\ allowJoin' = FALSE /\ allowRestore' = FALSE
      /\ UNCHANGED <<closing, role, finished, ended, changes, restores>>
  BY DEF Join
<1>4. CASE /\ join' = [join EXCEPT ![a] = "listening"]
           /\ transport' = a
           /\ transports' = [transports EXCEPT ![a] = "open"]
  <2>1. LifeType'
    <3>1. transport' \in 0 .. MaxAttempts
      BY <1>4, ServerAssumption DEF Attempt
    <3>2. /\ join' \in [Attempt -> {"none", "listening", "connecting", "cleaning",
                                     "resolved", "rejected"}]
          /\ transports' \in [Attempt -> {"none", "open", "destroying", "gone", "twice"}]
      BY <1>1, <1>4 DEF LifeType
    <3>3. QED
      BY <1>1, <1>3, <3>1, <3>2 DEF LifeType
  <2>2. \A b \in Attempt : InProgress(b)' => b = a
    BY <1>1, <1>2, <1>4 DEF InProgress, LifeType
  <2>3. OneAttempt'
    BY <1>2, <1>3, <1>4, <2>2 DEF OneAttempt
  <2>4. OneTransport'
    <3>1. transports'[a] = "open" /\ \A b \in Attempt : b # a => transports'[b] = transports[b]
      BY <1>1, <1>4 DEF LifeType
    <3>2. \A b \in Attempt : b # 0
      BY DEF Attempt
    <3>3. QED
      BY <1>1, <1>2, <1>4, <3>1, <3>2 DEF OneTransport
  <2>5. QED
    BY <1>3, <2>1, <2>3, <2>4 DEF LifeInv, Allowed
<1>5. CASE /\ join' = [join EXCEPT ![a] = "rejected"]
           /\ UNCHANGED <<transport, transports>>
  <2>1. LifeType'
    BY <1>1, <1>3, <1>5 DEF LifeType
  <2>2. \A b \in Attempt : ~InProgress(b)'
    BY <1>1, <1>2, <1>5 DEF InProgress, LifeType
  <2>3. QED
    BY <1>1, <1>3, <1>5, <2>1, <2>2 DEF LifeInv, OneAttempt, Allowed, OneTransport
<1>6. QED
  BY <1>4, <1>5 DEF Join

(* An attempt that fails gives the rights back, unless the server was      *)
(* closed.                                                                 *)
LEMMA JoinFailsInv ==
  ASSUME LifeInv, NEW a \in Attempt, InProgress(a), JoinFails(a),
         UNCHANGED <<closing, role, finished, ended, changes, restores>>
  PROVE  /\ LifeInv' /\ \A b \in Attempt : ~InProgress(b)'
         /\ closing = "no" => allowJoin'
<1>1. LifeType /\ OneAttempt /\ Allowed /\ OneTransport
  BY DEF LifeInv
<1>2. /\ \A b \in Attempt : b # a => ~InProgress(b)
      /\ role = "none" /\ ~allowJoin /\ ~allowRestore /\ (closing = "no" => transport = a)
  BY <1>1 DEF OneAttempt
<1>3. \A b \in Attempt : ~InProgress(b)'
  <2>1. join'[a] \in {"rejected", "cleaning"} /\ \A b \in Attempt : b # a => join'[b] = join[b]
    BY <1>1 DEF JoinFails, LifeType
  <2>2. QED
    BY <1>2, <2>1 DEF InProgress
<1>4. CASE /\ closing # "no"
           /\ join' = [join EXCEPT ![a] = "rejected"]
           /\ UNCHANGED <<allowJoin, allowRestore, transport, transports>>
  <2>1. LifeType'
    BY <1>1, <1>4 DEF LifeType
  <2>2. QED
    BY <1>1, <1>3, <1>4, <2>1 DEF LifeInv, OneAttempt, Allowed, OneTransport
<1>5. CASE /\ closing = "no"
           /\ allowJoin' = TRUE
           /\ allowRestore' = TRUE
           /\ LeaveTransport
           /\ join' = [join EXCEPT ![a] = "cleaning"]
  <2>1. transport = a /\ transports[a] = "open"
    BY <1>1, <1>2, <1>5, ServerAssumption DEF OneTransport, Attempt
  <2>2. transport' = 0 /\ transports' = [transports EXCEPT ![a] = "destroying"]
    BY <1>5, <2>1, ServerAssumption DEF LeaveTransport, Attempt
  <2>3. LifeType'
    BY <1>1, <1>5, <2>2, ServerAssumption DEF LifeType
  <2>4. /\ transports'[a] = "destroying"
        /\ \A b \in Attempt : b # a => transports'[b] = transports[b]
    BY <1>1, <2>2 DEF LifeType
  <2>5. OneTransport'
    BY <1>1, <2>1, <2>2, <2>4 DEF OneTransport
  <2>6. QED
    BY <1>2, <1>3, <1>5, <2>2, <2>3, <2>5 DEF LifeInv, OneAttempt, Allowed
<1>6. QED
  BY <1>3, <1>4, <1>5 DEF JoinFails

(* listen() settles.                                                       *)
LEMMA ListenSettlesInv == ASSUME LifeInv, NEW a \in Attempt, ListenSettles(a) PROVE LifeInv'
<1>1. InProgress(a)
  BY DEF ListenSettles, InProgress
<1>2. CASE JoinFails(a)
  BY <1>1, <1>2, JoinFailsInv DEF ListenSettles
<1>3. CASE /\ join' = [join EXCEPT ![a] = "connecting"]
           /\ UNCHANGED <<allowJoin, allowRestore, transport, transports>>
  <2>1. \A b \in Attempt : InProgress(b)' => InProgress(b)
    BY <1>1, <1>3 DEF InProgress, LifeInv, LifeType
  <2>2. LifeType'
    BY <1>3 DEF LifeInv, LifeType, ListenSettles
  <2>3. QED
    BY <1>3, <2>1, <2>2 DEF LifeInv, ListenSettles, OneAttempt, Allowed, OneTransport
<1>4. QED
  BY <1>2, <1>3 DEF ListenSettles

(* The connections settle: a role is started when no attempt is left.      *)
LEMMA ConnectSettlesInv == ASSUME LifeInv, NEW a \in Attempt, ConnectSettles(a) PROVE LifeInv'
<1>1. InProgress(a)
  BY DEF ConnectSettles, InProgress
<1>2. CASE JoinFails(a) /\ UNCHANGED <<role, ended, eventVars>>
  BY <1>1, <1>2, JoinFailsInv DEF ConnectSettles
<1>3. CASE /\ join' = [join EXCEPT ![a] = "resolved"]
           /\ StartRole("Follower")
           /\ UNCHANGED <<allowJoin, allowRestore, transport, transports>>
  <2>1. /\ LifeType /\ ~allowJoin /\ ~allowRestore
        /\ \A b \in Attempt : b # a => ~InProgress(b)
    BY <1>1 DEF LifeInv, OneAttempt
  <2>2. \A b \in Attempt : ~InProgress(b)'
    BY <1>3, <2>1 DEF InProgress, LifeType
  <2>3. LifeType'
    BY <1>3, <2>1 DEF LifeType, ConnectSettles, StartRole, RoleName
  <2>4. QED
    BY <1>3, <2>1, <2>2, <2>3
       DEF LifeInv, ConnectSettles, OneAttempt, Allowed, OneTransport
<1>4. QED
  BY <1>2, <1>3 DEF ConnectSettles

(* A transport is destroyed.                                               *)
LEMMA DestroySettlesInv ==
  ASSUME LifeInv, NEW a \in Attempt, DestroySettles(a)
  PROVE  LifeInv' /\ \A b \in Attempt : InProgress(b)' <=> InProgress(b)
<1>1. LifeType /\ OneTransport
  BY DEF LifeInv
<1>2. \A b \in Attempt : InProgress(b)' <=> InProgress(b)
  BY <1>1 DEF DestroySettles, InProgress, LifeType
<1>3. LifeType'
  <2>1. join' \in [Attempt -> {"none", "listening", "connecting", "cleaning",
                               "resolved", "rejected"}]
    <3>1. CASE join[a] = "cleaning"
      <4>1. join' = [join EXCEPT ![a] = "rejected"]
        BY <1>1, <3>1 DEF DestroySettles, LifeType
      <4>2. QED
        BY <1>1, <4>1 DEF LifeType
    <3>2. CASE join[a] # "cleaning"
      <4>1. join' = [join EXCEPT ![a] = join[a]]
        BY <1>1, <3>2 DEF DestroySettles, LifeType
      <4>2. QED
        BY <1>1, <4>1 DEF LifeType
    <3>3. QED
      BY <3>1, <3>2
  <2>2. transports' \in [Attempt -> {"none", "open", "destroying", "gone", "twice"}]
    BY <1>1 DEF DestroySettles, LifeType
  <2>3. QED
    BY <1>1, <2>1, <2>2 DEF LifeType, DestroySettles
<1>4. OneTransport'
  <2>1. /\ transports[a] = "destroying" /\ transports'[a] = "gone" /\ transport' = transport
        /\ \A b \in Attempt : b # a => transports'[b] = transports[b]
    BY <1>1 DEF DestroySettles, LifeType
  <2>2. transport # a
    BY <1>1, <2>1 DEF OneTransport, Attempt
  <2>3. transport # 0 => transport \in Attempt
    BY <1>1, ServerAssumption DEF LifeType, Attempt
  <2>4. QED
    BY <1>1, <2>1, <2>2, <2>3 DEF OneTransport
<1>5. QED
  BY <1>2, <1>3, <1>4 DEF LifeInv, DestroySettles, OneAttempt, Allowed

(* close() and destroy() leave the transport, if there is one, and the     *)
(* role.                                                                   *)
LEMMA LeaveInv ==
  ASSUME LifeInv, LeaveTransport, LeaveRole, closing' \in {"close", "destroy"},
         allowJoin' = FALSE, finished' \in {"no", "waiting", "yes", "never"},
         UNCHANGED <<allowRestore, join, changes, restores>>
  PROVE  LifeInv' /\ \A b \in Attempt : InProgress(b)' <=> InProgress(b)
<1>1. LifeType /\ OneAttempt /\ Allowed /\ OneTransport
  BY DEF LifeInv
<1>2. \A b \in Attempt : InProgress(b)' <=> InProgress(b)
  BY DEF InProgress
<1>3. ended' \in BOOLEAN /\ role' = "none" /\ transport' = 0
  BY <1>1 DEF LeaveRole, LeaveTransport, LifeType
<1>4. /\ transports' \in [Attempt -> {"none", "open", "destroying", "gone", "twice"}]
      /\ OneTransport'
  <2>1. CASE transport = 0
    BY <1>1, <1>3, <2>1 DEF LeaveTransport, LifeType, OneTransport, Attempt
  <2>2. CASE transport # 0
    <3>1. transport \in Attempt /\ transports[transport] = "open"
      BY <1>1, <2>2, ServerAssumption DEF LifeType, Attempt, OneTransport
    <3>2. transports' = [transports EXCEPT ![transport] = "destroying"]
      BY <2>2, <3>1 DEF LeaveTransport
    <3>3. \A b \in Attempt : transports'[b] # "twice" /\ transports'[b] # "open"
      BY <1>1, <3>1, <3>2 DEF LifeType, OneTransport
    <3>4. QED
      BY <1>1, <1>3, <3>1, <3>2, <3>3 DEF LifeType, OneTransport
  <2>3. QED
    BY <2>1, <2>2
<1>5. LifeType'
  <2>1. transport' \in 0 .. MaxAttempts
    BY <1>3, ServerAssumption
  <2>2. role' \in RoleName
    BY <1>3 DEF RoleName
  <2>3. closing' \in {"no", "close", "destroy"}
    OBVIOUS
  <2>4. QED
    BY <1>1, <1>3, <1>4, <2>1, <2>2, <2>3 DEF LifeType
<1>6. OneAttempt' /\ Allowed'
  BY <1>1, <1>2, <1>3 DEF OneAttempt, Allowed
<1>7. QED
  BY <1>2, <1>4, <1>5, <1>6 DEF LifeInv

(* close() waits for what is being applied.                                *)
LEMMA CloseInv ==
  ASSUME LifeInv, Close
  PROVE  LifeInv' /\ \A b \in Attempt : InProgress(b)' <=> InProgress(b)
<1>1. /\ LeaveTransport /\ LeaveRole /\ closing' \in {"close", "destroy"}
      /\ allowJoin' = FALSE /\ finished' \in {"no", "waiting", "yes", "never"}
      /\ UNCHANGED <<allowRestore, join, changes, restores>>
  BY DEF Close
<1>2. QED
  BY <1>1, LeaveInv

(* destroy() does not.                                                     *)
LEMMA DestroyInv ==
  ASSUME LifeInv, Destroy
  PROVE  LifeInv' /\ \A b \in Attempt : InProgress(b)' <=> InProgress(b)
<1>1. /\ LeaveTransport /\ LeaveRole /\ closing' \in {"close", "destroy"}
      /\ allowJoin' = FALSE /\ finished' \in {"no", "waiting", "yes", "never"}
      /\ UNCHANGED <<allowRestore, join, changes, restores>>
  BY DEF Destroy, LifeInv, LifeType
<1>2. QED
  BY <1>1, LeaveInv

(* The applier settles what close() waits for.                             *)
LEMMA ApplierSettlesInv == ASSUME LifeInv, ApplierSettles PROVE LifeInv'
BY DEF LifeInv, ApplierSettles, LifeType, OneAttempt, Allowed, OneTransport, InProgress

(* A role follows another, and there is none while an attempt is made.     *)
LEMMA ChangeRoleInv == ASSUME LifeInv, ChangeRole PROVE LifeInv'
<1>1. LifeType /\ OneAttempt /\ Allowed /\ OneTransport
  BY DEF LifeInv
<1>2. role # "none" /\ role' \in RoleName /\ ended' = FALSE /\ changes' \in Nat
  BY <1>1 DEF ChangeRole, StartRole, Follows, LifeType, RoleName
<1>3. \A b \in Attempt : ~InProgress(b) /\ ~InProgress(b)'
  BY <1>1, <1>2 DEF OneAttempt, InProgress, ChangeRole
<1>4. LifeType'
  BY <1>1, <1>2 DEF LifeType, ChangeRole
<1>5. QED
  BY <1>1, <1>2, <1>3, <1>4
     DEF LifeInv, OneAttempt, Allowed, OneTransport, ChangeRole

(* What only the listeners take part in changes nothing of the life.       *)
LEMMA LifeUnchangedInv == ASSUME LifeInv, UNCHANGED lifeVars PROVE LifeInv'
BY DEF lifeVars, LifeInv, LifeType, OneAttempt, Allowed, OneTransport, InProgress

-----------------------------------------------------------------------------
(* The listeners, and the role they hear of *)

(* A role that starts has its emit() still before it.                      *)
LEMMA StartRoleInv ==
  ASSUME EventsInv, AtRest, NEW r \in RoleName, StartRole(r)
  PROVE  EventsInv' /\ EmitsItsRole'
<1>1. /\ emission' \in Emission /\ emission'.at = 0 /\ emission'.orphaned = FALSE
      /\ emission'.stage = "starting"
  BY EmissionTypes DEF StartRole
<1>2. ~Emitting /\ UNCHANGED <<listeners, standing, credit, calls>>
  BY DEF AtRest, Emitting, StartRole
<1>3. EventsInv'
  <2>1. emission'.stage # "calling"
    BY <1>1
  <2>2. QED
    BY <1>1, <1>2, <2>1, FreshEmissionInv
<1>4. QED
  BY <1>1, <1>3 DEF EmitsItsRole

(* close() and destroy() are called when no emit() has a listener to call  *)
(* next, and a listener that calls them is noted.                          *)
LEMMA LeaveRoleEmits ==
  ASSUME HostCloses, LeaveRole, UNCHANGED eventVars
  PROVE  EmitsItsRole'
BY DEF HostCloses, HostCalls, AtRest, LeaveRole, eventVars, EmitsItsRole

(* The start of a role ends, with its event or without it.                 *)
LEMMA RoleStartedInv ==
  ASSUME Inv, RoleStarted
  PROVE  EventsInv' /\ EmitsItsRole'
<1>1. /\ EventsInv /\ ~Emitting /\ emission.stage = "starting"
      /\ role \in RoleName /\ role' = role
  BY DEF Inv, LifeInv, LifeType, RoleStarted, Emitting, lifeVars
<1>2. CASE Emit(role)
  <2>1. EventsInv'
    BY <1>1, <1>2, EmitInv
  <2>2. emission'.stage \in {"next", "calling"} => emission'.event = role
    <3>1. CASE emission' = Idle
      BY <3>1, IdleFields
    <3>2. CASE emission' = [Idle EXCEPT !.stage = "next", !.event = role]
      BY <1>1, <3>2, EmissionTypes
    <3>3. QED
      BY <1>2, <3>1, <3>2 DEF Emit
  <2>3. QED
    BY <1>1, <2>1, <2>2 DEF EmitsItsRole
<1>3. CASE emission' = Idle /\ UNCHANGED <<listeners, standing, credit, calls>>
  <2>1. /\ emission' \in Emission /\ emission'.at = 0 /\ emission'.orphaned = FALSE
        /\ emission'.stage = "idle"
    BY <1>3, EmissionTypes
  <2>2. EventsInv'
    <3>1. emission'.stage # "calling"
      BY <2>1
    <3>2. QED
      BY <1>1, <1>3, <2>1, <3>1, FreshEmissionInv
  <2>3. QED
    BY <2>1, <2>2 DEF EmitsItsRole
<1>4. QED
  BY <1>2, <1>3 DEF RoleStarted

(* The loop of emit() stays with the event it began with.                  *)
LEMMA EmitterInv ==
  ASSUME Inv, Emitter
  PROVE  EventsInv' /\ EmitsItsRole'
<1>1. /\ EventsInv /\ EmitsItsRole /\ emission \in Emission /\ EmitRuns
      /\ role' = role /\ ended' = ended
  BY DEF Inv, EventsInv, EventsType, Emitter, lifeVars
<1>2. EventsInv'
  BY <1>1, EventsStepInv
<1>3. CASE CallListener
  <2>1. emission.stage = "next" /\ emission'.event = emission.event
    BY <1>1, <1>3, CalledIsRegistered
  <2>2. QED
    BY <1>1, <1>2, <2>1 DEF EmitsItsRole
<1>4. CASE ListenerReturns
  <2>1. emission.stage = "calling" /\ emission'.event = emission.event
    BY <1>1, <1>4 DEF ListenerReturns, Emission
  <2>2. QED
    BY <1>1, <1>2, <2>1 DEF EmitsItsRole
<1>5. CASE ListenerThrows \/ EmitEnds
  <2>1. emission'.stage = "idle"
    BY <1>5, IdleFields DEF ListenerThrows, EmitEnds
  <2>2. QED
    BY <1>2, <2>1 DEF EmitsItsRole
<1>6. QED
  BY <1>1, <1>3, <1>4, <1>5 DEF EmitRuns

(* on(), once() and removeListener() leave its stage and its event alone.  *)
LEMMA HostListensInv ==
  ASSUME Inv, HostListens
  PROVE  EventsInv' /\ EmitsItsRole'
<1>1. PICK l \in Listener : On(l) \/ Once(l) \/ RemoveListener(l)
  BY DEF HostListens
<1>2. /\ EventsInv /\ EmitsItsRole /\ emission \in Emission
      /\ role' = role /\ ended' = ended
  BY DEF Inv, EventsInv, EventsType, HostListens, lifeVars
<1>3. EventsInv'
  BY <1>1, <1>2, EventsStepInv
<1>4. emission'.stage = emission.stage /\ emission'.event = emission.event
  <2>1. CASE On(l) \/ Once(l)
    BY <2>1 DEF On, Once, AddListener
  <2>2. CASE RemoveListener(l)
    BY <1>2, <2>2 DEF RemoveListener, Deleted, Emission
  <2>3. QED
    BY <1>1, <2>1, <2>2
<1>5. QED
  BY <1>2, <1>3, <1>4 DEF EmitsItsRole

-----------------------------------------------------------------------------
(* The steps together *)

(* The calls of the host keep the invariant.                               *)
LEMMA HostInv == ASSUME Inv, Host PROVE Inv'
<1>1. LifeInv /\ EventsInv /\ EmitsItsRole
  BY DEF Inv
<1>2. CASE Restore
  <2>1. UNCHANGED eventVars /\ role' = role /\ ended' = ended /\ emission' = emission
    BY <1>2 DEF Restore, eventVars
  <2>2. QED
    BY <1>1, <1>2, <2>1, RestoreInv, EventsStepInv DEF Inv, EmitsItsRole
<1>3. CASE \E a \in Attempt : Join(a)
  <2>1. UNCHANGED eventVars /\ role' = role /\ ended' = ended /\ emission' = emission
    BY <1>3 DEF Join, eventVars
  <2>2. QED
    BY <1>1, <1>3, <2>1, JoinInv, EventsStepInv DEF Inv, EmitsItsRole
<1>4. CASE Close
  <2>1. HostCloses /\ LeaveRole /\ UNCHANGED eventVars
    BY <1>4 DEF Close
  <2>2. QED
    BY <1>1, <1>4, <2>1, CloseInv, EventsStepInv, LeaveRoleEmits DEF Inv
<1>5. CASE Destroy
  <2>1. HostCloses /\ LeaveRole /\ UNCHANGED eventVars
    BY <1>5 DEF Destroy
  <2>2. QED
    BY <1>1, <1>5, <2>1, DestroyInv, EventsStepInv, LeaveRoleEmits DEF Inv
<1>6. CASE HostListens
  <2>1. UNCHANGED lifeVars
    BY <1>6 DEF HostListens
  <2>2. QED
    BY <1>1, <1>6, <2>1, LifeUnchangedInv, HostListensInv DEF Inv
<1>7. QED
  BY <1>2, <1>3, <1>4, <1>5, <1>6 DEF Host

(* So do the promises of the transport when they settle.                   *)
LEMMA TransportInv == ASSUME Inv, NEW a \in Attempt, Transport(a) PROVE Inv'
<1>1. LifeInv /\ EventsInv /\ EmitsItsRole
  BY DEF Inv
<1>2. CASE ListenSettles(a)
  <2>1. UNCHANGED eventVars /\ role' = role /\ ended' = ended /\ emission' = emission
    BY <1>2 DEF ListenSettles, eventVars
  <2>2. QED
    BY <1>1, <1>2, <2>1, ListenSettlesInv, EventsStepInv DEF Inv, EmitsItsRole
<1>3. CASE ConnectSettles(a)
  <2>1. CASE UNCHANGED <<role, ended, eventVars>>
    <3>1. UNCHANGED eventVars /\ role' = role /\ ended' = ended /\ emission' = emission
      BY <2>1 DEF eventVars
    <3>2. QED
      BY <1>1, <1>3, <3>1, ConnectSettlesInv, EventsStepInv DEF Inv, EmitsItsRole
  <2>2. CASE StartRole("Follower")
    <3>1. "Follower" \in RoleName /\ AtRest
      BY <1>3 DEF RoleName, ConnectSettles
    <3>2. QED
      BY <1>1, <1>3, <2>2, <3>1, ConnectSettlesInv, StartRoleInv DEF Inv
  <2>3. QED
    BY <1>3, <2>1, <2>2 DEF ConnectSettles
<1>4. CASE DestroySettles(a)
  <2>1. UNCHANGED eventVars /\ role' = role /\ ended' = ended /\ emission' = emission
    BY <1>4 DEF DestroySettles, eventVars
  <2>2. QED
    BY <1>1, <1>4, <2>1, DestroySettlesInv, EventsStepInv DEF Inv, EmitsItsRole
<1>5. QED
  BY <1>2, <1>3, <1>4 DEF Transport

(* And every other step.                                                   *)
LEMMA StepInv == ASSUME Inv, [Next]_vars PROVE Inv'
<1>1. LifeInv /\ EventsInv /\ EmitsItsRole
  BY DEF Inv
<1>2. CASE RoleStarted
  <2>1. UNCHANGED lifeVars
    BY <1>2 DEF RoleStarted
  <2>2. QED
    BY <1>1, <1>2, <2>1, LifeUnchangedInv, RoleStartedInv DEF Inv
<1>3. CASE Emitter
  <2>1. UNCHANGED lifeVars
    BY <1>3 DEF Emitter
  <2>2. QED
    BY <1>1, <1>3, <2>1, LifeUnchangedInv, EmitterInv DEF Inv
<1>4. CASE ApplierSettles
  <2>1. UNCHANGED eventVars /\ role' = role /\ ended' = ended /\ emission' = emission
    BY <1>4 DEF ApplierSettles, eventVars
  <2>2. QED
    BY <1>1, <1>4, <2>1, ApplierSettlesInv, EventsStepInv DEF Inv, EmitsItsRole
<1>5. CASE ChangeRole
  <2>1. AtRest /\ \E r \in RoleName : StartRole(r)
    BY <1>5 DEF ChangeRole, Follows, RoleName, LifeInv, LifeType, Inv
  <2>2. QED
    BY <1>1, <1>5, <2>1, ChangeRoleInv, StartRoleInv DEF Inv
<1>6. CASE UNCHANGED vars
  <2>1. /\ UNCHANGED lifeVars /\ UNCHANGED eventVars
        /\ role' = role /\ ended' = ended /\ emission' = emission
    BY <1>6 DEF vars, lifeVars, eventVars
  <2>2. QED
    BY <1>1, <2>1, LifeUnchangedInv, EventsStepInv DEF Inv, EmitsItsRole
<1>7. QED
  BY <1>2, <1>3, <1>4, <1>5, <1>6, HostInv, TransportInv DEF Next, Program

(* The invariant is one.                                                   *)
LEMMA Invariance == Spec => []Inv
<1>1. Init => Inv
  BY InitInv
<1>2. Inv /\ [Next]_vars => Inv'
  BY StepInv
<1>3. QED
  BY <1>1, <1>2, PTL DEF Spec

-----------------------------------------------------------------------------
(* What the runs check of the server, for every value of the constants *)

(* The types of the server and of the loop of emit() (Server.js:41-52,     *)
(* expose-events.js:11-44).                                                *)
THEOREM ServerTypeCorrect == Spec => []TypeOK
<1>1. ASSUME Inv PROVE TypeOK
  <2>1. LifeType /\ EventsType /\ LoopInMap
    BY <1>1 DEF Inv, LifeInv, EventsInv
  <2>2. /\ emission \in Emission /\ calls \in Nat /\ listeners \in Seq(Entry)
        /\ emission.at \in Nat /\ emission.stage \in {"idle", "starting", "next", "calling"}
    BY <2>1 DEF EventsType, Emission, IsMap
  <2>3. listeners \in Seq([listener : Listener, once : BOOLEAN])
    BY <2>2 DEF Entry
  <2>4. role \in {"none", "Follower", "Candidate", "Leader"}
    BY <2>1 DEF LifeType, RoleName
  <2>5. emission.orphaned \/ emission.at <= Len(listeners)
    BY <2>1 DEF LoopInMap
  <2>6. {changes, restores, calls, emission.at} \subseteq Nat
    BY <2>1, <2>2 DEF LifeType
  <2>7. QED
    BY <2>1, <2>2, <2>3, <2>4, <2>5, <2>6 DEF LifeType, TypeOK
<1>2. QED
  BY <1>1, Invariance, PTL

(* Every transport that join() opened is destroyed once, by the join that  *)
(* failed, by close() or by destroy(), whichever of them come together     *)
(* (Server.js:59-96, 131-138).                                             *)
THEOREM TransportsDestroyedOnceHolds == Spec => []TransportsDestroyedOnce
<1>1. Inv => TransportsDestroyedOnce
  BY DEF Inv, LifeInv, OneTransport, TransportsDestroyedOnce
<1>2. QED
  BY <1>1, Invariance, PTL

(* A listener hears of a role only while the server is in it, or in the    *)
(* emit() in which another listener closed it (Raft.js:121-133).           *)
THEOREM HeardInRoleHolds == Spec => []HeardInRole
<1>1. Inv => HeardInRole
  BY DEF Inv, EmitsItsRole, HeardInRole
<1>2. QED
  BY <1>1, Invariance, PTL

(* Calls of once() that alone registered a listener are at least as many   *)
(* as its calls (expose-events.js:22-44).                                  *)
THEOREM FiresOnceHolds == Spec => []FiresOnce
<1>1. Inv => FiresOnce
  BY DEF Inv, EventsInv, Expected, FiresOnce
<1>2. QED
  BY <1>1, Invariance, PTL

(* A listener that on() registered apart from any emit() stays registered, *)
(* whatever is called and thrown (expose-events.js:22-80).                 *)
THEOREM ListenersStayHolds == Spec => []ListenersStay
<1>1. ASSUME Inv, NEW l \in Listener, standing[l] = "always"
      PROVE  \E i \in DOMAIN listeners :
               listeners[i] = [listener |-> l, once |-> FALSE]
  <2>1. EventsType /\ Held(listeners, l, FALSE)
    BY <1>1 DEF Inv, EventsInv, Expected
  <2>2. PICK i \in DOMAIN listeners :
               listeners[i].listener = l /\ listeners[i].once = FALSE
    BY <2>1 DEF Held
  <2>3. listeners[i] \in Entry
    BY <2>1 DEF EventsType, IsMap
  <2>4. listeners[i] = [listener |-> l, once |-> FALSE]
    BY <2>2, <2>3 DEF Entry
  <2>5. QED
    BY <2>4
<1>2. Inv => ListenersStay
  BY <1>1 DEF ListenersStay
<1>3. QED
  BY <1>2, Invariance, PTL

(* The loop of emit() calls no listener that was removed, not even in its  *)
(* course (expose-events.js:22-44, 82-96).                                 *)
THEOREM RemovedIsSilentHolds == Spec => RemovedIsSilent
<1> DEFINE Silent == emission'.stage = "calling" /\ emission.stage = "next" =>
                       standing[emission'.listener] # "none"
<1>1. ASSUME Inv, [Next]_vars PROVE [Silent]_vars
  <2>1. EventsInv /\ emission \in Emission
    BY <1>1 DEF Inv, EventsInv, EventsType
  <2>2. SUFFICES ASSUME emission'.stage = "calling", emission.stage = "next"
                 PROVE  standing[emission'.listener] # "none"
    OBVIOUS
  <2>3. CallListener
    <3>1. CASE Restore \/ Close \/ Destroy \/ ApplierSettles \/ UNCHANGED vars
               \/ (\E a \in Attempt : Join(a) \/ ListenSettles(a) \/ DestroySettles(a))
      <4>1. emission' = emission
        BY <3>1 DEF Restore, Close, Destroy, ApplierSettles, vars, Join, ListenSettles,
                    DestroySettles, eventVars
      <4>2. QED
        BY <2>2, <4>1
    <3>2. CASE HostListens \/ ChangeRole \/ (\E a \in Attempt : ConnectSettles(a))
      BY <2>2, <3>2 DEF HostListens, HostCalls, ChangeRole, ConnectSettles, AtRest
    <3>3. CASE RoleStarted
      BY <2>2, <3>3 DEF RoleStarted
    <3>4. CASE ListenerReturns \/ ListenerThrows
      BY <2>2, <3>4 DEF ListenerReturns, ListenerThrows
    <3>5. CASE EmitEnds
      BY <2>2, <3>5, IdleFields DEF EmitEnds
    <3>6. QED
      BY <1>1, <2>2, <3>1, <3>2, <3>3, <3>4, <3>5
         DEF Next, Program, Host, Transport, Emitter, EmitRuns
  <2>4. QED
    BY <2>1, <2>3, CalledIsRegistered
<1>2. Spec => [][Silent]_vars
  BY <1>1, Invariance, PTL DEF Spec
<1>3. QED
  BY <1>2 DEF RemovedIsSilent

-----------------------------------------------------------------------------
(* The server lives as module Membership promises *)

Straggles == closing # "no" /\ (\E a \in Attempt : InProgress(a))

Unmoved == UNCHANGED <<Phase, Straggles, restores>>

(* A step that leaves alone what the phase depends on is a stutter.        *)
LEMMA PhaseUnmoved ==
  ASSUME UNCHANGED <<role, closing, allowJoin, restores>>,
         \A a \in Attempt : InProgress(a)' <=> InProgress(a)
  PROVE  Unmoved
<1>1. (\E a \in Attempt : InProgress(a))' <=> \E a \in Attempt : InProgress(a)
  OBVIOUS
<1>2. Straggles' = Straggles
  BY <1>1 DEF Straggles
<1>3. Phase' = Phase
  BY <1>1 DEF Phase
<1>4. QED
  BY <1>2, <1>3 DEF Unmoved

(* A restoration is one of a server that stands apart or is closed.        *)
LEMMA RestoreLives == ASSUME LifeInv, Restore PROVE Life!Restore
<1>1. /\ role = "none" /\ (allowJoin \/ closing # "no")
      /\ \A a \in Attempt : ~InProgress(a)
      /\ allowJoin => closing = "no"
  BY DEF LifeInv, Restore, Allowed, OneAttempt
<1>2. UNCHANGED <<role, closing, allowJoin, join>> /\ restores' = restores + 1
  BY DEF Restore
<1>3. Phase' = Phase /\ Straggles' = Straggles
  BY <1>2 DEF Phase, Straggles, InProgress
<1>4. Phase \in {"apart", "closed"} /\ ~Straggles
  BY <1>1 DEF Phase, Straggles
<1>5. QED
  BY <1>2, <1>3, <1>4 DEF Life!Restore, Straggles

(* A join leaves the server joining, or stuck.                             *)
LEMMA JoinLives ==
  ASSUME LifeInv, LifeInv', NEW a \in Attempt, Join(a)
  PROVE  Life!Join
<1>1. /\ role = "none" /\ closing = "no" /\ allowJoin /\ ~allowJoin'
      /\ role' = "none" /\ closing' = "no" /\ restores' = restores
  BY DEF LifeInv, Join, Allowed
<1>2. Phase = "apart" /\ Phase' \in {"joining", "stuck"}
  BY <1>1 DEF Phase
<1>3. ~Straggles /\ ~Straggles'
  BY <1>1 DEF Straggles
<1>4. Straggles' = Straggles
  BY <1>3 DEF Straggles
<1>5. QED
  BY <1>1, <1>2, <1>4 DEF Life!Join, Straggles

(* A join that fails leaves the server apart, or closed as it was.         *)
LEMMA JoinFailsLives ==
  ASSUME LifeInv, NEW a \in Attempt, InProgress(a), JoinFails(a),
         UNCHANGED <<closing, role, finished, ended, changes, restores>>
  PROVE  Life!Fail \/ Life!GiveUp
<1>1. role = "none" /\ ~allowJoin
  BY DEF LifeInv, OneAttempt
<1>2. /\ \A b \in Attempt : ~InProgress(b)'
      /\ closing = "no" => allowJoin'
  BY JoinFailsInv
<1>3. ~Straggles'
  BY <1>2 DEF Straggles
<1>4. CASE closing = "no"
  <2>1. Phase = "joining" /\ Phase' = "apart"
    BY <1>1, <1>2, <1>4 DEF Phase
  <2>2. ~Straggles /\ Straggles' = Straggles
    BY <1>3, <1>4 DEF Straggles
  <2>3. QED
    BY <2>1, <2>2 DEF Life!Fail, Straggles
<1>5. CASE closing # "no"
  <2>1. Phase' = Phase
    BY <1>1, <1>5 DEF Phase
  <2>2. Straggles /\ Straggles' = FALSE
    BY <1>3, <1>5 DEF Straggles
  <2>3. QED
    BY <2>1, <2>2 DEF Life!GiveUp, Straggles
<1>6. QED
  BY <1>4, <1>5

(* A join that succeeds makes a member of the server, closed or not.       *)
LEMMA ConnectSettlesLives ==
  ASSUME LifeInv, LifeInv', NEW a \in Attempt, ConnectSettles(a)
  PROVE  Life!Fail \/ Life!GiveUp \/ Life!Enter
<1>1. InProgress(a)
  BY DEF ConnectSettles, InProgress
<1>2. CASE JoinFails(a) /\ UNCHANGED <<role, ended, eventVars>>
  BY <1>1, <1>2, JoinFailsLives DEF ConnectSettles
<1>3. CASE StartRole("Follower") /\ UNCHANGED allowJoin
  <2>1. role = "none" /\ ~allowJoin /\ role' = "Follower" /\ restores' = restores
    BY <1>1, <1>3 DEF LifeInv, OneAttempt, StartRole, ConnectSettles
  <2>2. Phase = "joining" \/ Straggles
    BY <1>1, <2>1 DEF Phase, Straggles
  <2>3. Phase' = "member"
    BY <2>1 DEF Phase
  <2>4. Straggles' = FALSE
    BY <2>1 DEF LifeInv, OneAttempt, Straggles
  <2>5. QED
    BY <2>1, <2>2, <2>3, <2>4 DEF Life!Enter, Straggles
<1>4. QED
  BY <1>2, <1>3 DEF ConnectSettles

(* close() and destroy() close a server that is not closed.                *)
LEMMA LeaveLives ==
  ASSUME LifeInv, LeaveRole, closing' \in {"close", "destroy"}, UNCHANGED <<join, restores>>
  PROVE  Life!Close \/ Unmoved
<1>1. role' = "none" /\ closing' # "no"
  BY DEF LeaveRole
<1>2. Phase' = "closed"
  BY <1>1 DEF Phase
<1>3. Straggles' = \E a \in Attempt : InProgress(a)
  BY <1>1 DEF Straggles, InProgress
<1>4. CASE Phase = "closed"
  <2>1. role = "none" /\ closing # "no"
    BY <1>4 DEF Phase
  <2>2. Straggles' = Straggles
    BY <1>3, <2>1 DEF Straggles
  <2>3. QED
    BY <1>2, <1>4, <2>2 DEF Unmoved
<1>5. CASE Phase # "closed"
  <2>1. (\E a \in Attempt : InProgress(a)) <=> Phase = "joining"
    <3>1. CASE \E a \in Attempt : InProgress(a)
      <4>1. role = "none" /\ ~allowJoin
        BY <3>1 DEF LifeInv, OneAttempt
      <4>2. closing = "no"
        BY <1>5, <4>1 DEF Phase
      <4>3. QED
        BY <3>1, <4>1, <4>2 DEF Phase
    <3>2. CASE ~\E a \in Attempt : InProgress(a)
      BY <3>2 DEF Phase
    <3>3. QED
      BY <3>1, <3>2
  <2>2. Straggles' = (Phase = "joining")
    BY <1>3, <2>1
  <2>3. QED
    BY <1>2, <1>5, <2>2 DEF Life!Close, Straggles
<1>6. QED
  BY <1>4, <1>5

(* Role after role, the server stays a member.                             *)
LEMMA ChangeRoleLives == ASSUME LifeInv, LifeInv', ChangeRole PROVE Unmoved
<1>1. role # "none" /\ role' # "none" /\ restores' = restores
  BY DEF ChangeRole, Follows, StartRole, LifeInv, LifeType, RoleName
<1>2. Phase = "member" /\ Phase' = "member"
  BY <1>1 DEF Phase
<1>3. ~Straggles /\ ~Straggles'
  BY <1>1 DEF LifeInv, OneAttempt, Straggles
<1>4. Straggles' = Straggles
  BY <1>3 DEF Straggles
<1>5. QED
  BY <1>1, <1>2, <1>4 DEF Unmoved

(* Every step is one of the life, or none.                                 *)
LEMMA StepLives ==
  ASSUME LifeInv, LifeInv', [Next]_vars
  PROVE  Life!Next \/ Unmoved
<1>1. CASE Restore
  BY <1>1, RestoreLives DEF Life!Next
<1>2. CASE \E a \in Attempt : Join(a)
  BY <1>2, JoinLives DEF Life!Next
<1>3. CASE Close \/ Destroy
  <2>1. LeaveRole /\ closing' \in {"close", "destroy"} /\ UNCHANGED <<join, restores>>
    BY <1>3 DEF Close, Destroy
  <2>2. QED
    BY <2>1, LeaveLives DEF Life!Next
<1>4. CASE UNCHANGED lifeVars \/ ApplierSettles
  <2>1. UNCHANGED <<role, closing, allowJoin, restores>> /\ UNCHANGED join
    BY <1>4 DEF lifeVars, ApplierSettles
  <2>2. \A a \in Attempt : InProgress(a)' <=> InProgress(a)
    BY <2>1 DEF InProgress
  <2>3. QED
    BY <2>1, <2>2, PhaseUnmoved
<1>5. CASE \E a \in Attempt : ListenSettles(a)
  <2>1. PICK a \in Attempt : ListenSettles(a)
    BY <1>5
  <2>2. InProgress(a) /\ UNCHANGED <<closing, role, finished, ended, changes, restores>>
    BY <2>1 DEF ListenSettles, InProgress
  <2>3. CASE JoinFails(a)
    BY <2>2, <2>3, JoinFailsLives DEF Life!Next
  <2>4. CASE join' = [join EXCEPT ![a] = "connecting"] /\ UNCHANGED allowJoin
    <3>1. \A b \in Attempt : InProgress(b)' <=> InProgress(b)
      BY <2>2, <2>4 DEF InProgress, LifeInv, LifeType
    <3>2. QED
      BY <2>2, <2>4, <3>1, PhaseUnmoved
  <2>5. QED
    BY <2>1, <2>3, <2>4 DEF ListenSettles
<1>6. CASE \E a \in Attempt : ConnectSettles(a)
  BY <1>6, ConnectSettlesLives DEF Life!Next
<1>7. CASE \E a \in Attempt : DestroySettles(a)
  <2>1. PICK a \in Attempt : DestroySettles(a)
    BY <1>7
  <2>2. UNCHANGED <<role, closing, allowJoin, restores>>
    BY <2>1 DEF DestroySettles
  <2>3. QED
    BY <2>1, <2>2, DestroySettlesInv, PhaseUnmoved
<1>8. CASE ChangeRole
  BY <1>8, ChangeRoleLives
<1>9. RoleStarted \/ Emitter \/ HostListens \/ UNCHANGED vars => UNCHANGED lifeVars
  BY DEF RoleStarted, Emitter, HostListens, vars
<1>10. QED
  BY <1>1, <1>2, <1>3, <1>4, <1>5, <1>6, <1>7, <1>8, <1>9
     DEF Next, Program, Host, Transport

(* The server implements module Membership: it is restored only while      *)
(* nothing runs on what it holds, it joins again only after a join that    *)
(* failed, and what is closed is closed for good, but for a join that was  *)
(* in progress (Server.js:59-141).                                         *)
THEOREM LivesAsPromisedHolds == Spec => LivesAsPromised
<1>1. Init => Life!Init
  <2>1. ASSUME Init PROVE Phase = "apart" /\ Straggles = FALSE /\ restores = 0
    BY <2>1 DEF Init, Phase, Straggles
  <2>2. QED
    BY <2>1 DEF Life!Init, Straggles
<1>2. Inv /\ Inv' /\ [Next]_vars => [Life!Next]_<<Phase, Straggles, restores>>
  BY StepLives DEF Inv, Unmoved
<1>3. Spec => Life!Init /\ [][Life!Next]_<<Phase, Straggles, restores>>
  BY <1>1, <1>2, Invariance, PTL DEF Spec
<1>4. QED
  BY <1>3 DEF LivesAsPromised, Life!Spec, Straggles

=============================================================================
