--------------------------- MODULE DispatchProofs ---------------------------
(***************************************************************************)
(* Theorems about module Dispatch, for any number of peers, messages,      *)
(* calls of append() and role changes: it implements module Serial, no     *)
(* peer is starved and no call of append() is left without an answer.      *)
(***************************************************************************)
EXTENDS Dispatch, FiniteSetTheorems, SequenceTheorems, TLAPS

-----------------------------------------------------------------------------
(* The inductive invariant *)

(* What the queue holds and what may be in progress.                       *)
Operation ==
  [kind : {"message"}, of : Source, role : Nat]
    \union [kind : {"append"}, of : 1 .. MaxAppends, role : Nat]
    \union [kind : {"timer", "replay"}, of : {0}, role : Nat]

TypeInv ==
  /\ TypeOK
  /\ roles \in Nat
  /\ queue \in Seq(Operation)
  /\ inFlight \in SUBSET Operation
  /\ IsFiniteSet(inFlight)

(* The messages that wait are those that arrived and were not handled, in  *)
(* their order.                                                            *)
Buffered ==
  \A p \in Source :
    /\ Len(buffer[p]) = arrived[p] - handled[p]
    /\ \A i \in 1 .. Len(buffer[p]) : buffer[p][i] = handled[p] + i

(* The queue is that of the role in office, and nothing in it is in        *)
(* progress yet.                                                           *)
QueueIsFresh ==
  /\ \A op \in inFlight : op.role <= roles
  /\ \A i \in DOMAIN queue : queue[i].role = roles /\ queue[i] \notin inFlight
  /\ \A i, j \in DOMAIN queue : queue[i] = queue[j] => i = j

(* Nothing waits while the scheduler is idle, and only one item before     *)
(* anything made it busy.                                                  *)
IdleMeansEmpty ==
  /\ ~running /\ ~busy => queue = << >>
  /\ running /\ ~busy => Len(queue) <= 1
  /\ role = "none" => ~running /\ queue = << >>
  /\ role = "none" <=> consumer.at = "stopped"

(* Until applyEntry() calls append() one operation is in progress at most, *)
(* and none while the scheduler runs items or could.                       *)
OneAtATime ==
  ~reentered =>
    /\ \A op1, op2 \in inFlight : op1 = op2
    /\ running \/ (~busy /\ role # "none") => inFlight = {}

(* The operations that only some roles start.                              *)
OfRole ==
  /\ \A i \in DOMAIN queue : queue[i].kind = "append" => role = "Leader"
  /\ \A op \in inFlight : op.role = roles =>
       /\ op.kind = "append" => role \in {"Leader", "none"}
       /\ op.kind = "timer" => role \in {"Candidate", "none"}

(* What becomes of the calls of append().                                  *)
AppendsKnown ==
  \A a \in 1 .. MaxAppends :
    /\ appends[a] = "none" =>
         /\ \A i \in DOMAIN queue : ~(queue[i].kind = "append" /\ queue[i].of = a)
         /\ \A op \in inFlight : ~(op.kind = "append" /\ op.of = a)
    /\ appends[a] \in {"queued", "pending"} => role = "Leader"
    /\ appends[a] = "persisting" =>
         \E op \in inFlight : op.kind = "append" /\ op.of = a

(* The messages that this role is handling.                                *)
Handling == {op \in inFlight : op.kind = "message" /\ op.role = roles}

QueuedMessages == {i \in DOMAIN queue : queue[i].kind = "message"}

(* The consumer only reads on when the message it offered was handled, and *)
(* has moved on to the next peer by then.                                  *)
OneMessage ==
  /\ \A op1, op2 \in Handling : op1 = op2
  /\ \A i, j \in QueuedMessages : i = j
  /\ QueuedMessages # {} => Handling = {} /\ consumer.at \in {"direct", "waiting"}
  /\ \A i \in QueuedMessages :
       /\ buffer[queue[i].of] # << >>
       /\ queue[i].of # NonPeer => consumer.index = NextPeer(queue[i].of)
       /\ queue[i].of = NonPeer => consumer.at = "waiting" /\ consumer.index = 0
       /\ queue[i].of # NonPeer /\ consumer.at = "waiting" => busy
  /\ Handling # {} => consumer.at \in {"waiting", "stopped"}
  /\ consumer.at = "direct" =>
       running /\ ~busy /\ QueuedMessages # {} /\ consumer.repeat
  /\ consumer.at = "awaiting" => consumer.index = 0

(* How many peers the consumer looks at before p.                          *)
Before(index, p) == IF p >= index THEN p - index ELSE p - index + NPeers

(* A loop that turned up no message yet found the peers so far to have     *)
(* none, and messages from outside the cluster are only read once all the  *)
(* peers have none.                                                        *)
LookedAt ==
  /\ consumer.at = "polling" /\ ~consumer.repeat =>
       \A p \in Peer :
         Before(consumer.start, p) < Before(consumer.start, consumer.index)
           => buffer[p] = << >>
  /\ consumer.at = "nonPeer" => \A p \in Peer : buffer[p] = << >>

(* A peer that waits is passed by no more messages than were offered since *)
(* it was looked at last.                                                  *)
TurnComes ==
  \A p \in Peer :
    /\ passed[p] > 0 => buffer[p] # << >>
    /\ passed[p] <= NPeers
    /\ role # "none" /\ (\A i \in QueuedMessages : queue[i].of # p) =>
         passed[p] + (IF QueuedMessages = {} THEN 0 ELSE 1)
           + Before(consumer.index, p) <= NPeers

Inv ==
  /\ TypeInv
  /\ Buffered
  /\ QueueIsFresh
  /\ IdleMeansEmpty
  /\ OneAtATime
  /\ OfRole
  /\ AppendsKnown
  /\ OneMessage
  /\ LookedAt
  /\ TurnComes
-----------------------------------------------------------------------------
(* Reading the state *)

(* A queue without its first item, and one with another item at its end.   *)
LEMMA TailOfQueue ==
  ASSUME NEW S, NEW q \in Seq(S), q # << >>
  PROVE  /\ Len(q) \in Nat \ {0}
         /\ Head(q) \in S /\ Head(q) = q[1]
         /\ Tail(q) \in Seq(S) /\ Len(Tail(q)) = Len(q) - 1
         /\ \A i \in 1 .. Len(q) - 1 : Tail(q)[i] = q[i + 1]
<1>1. Len(q) \in Nat \ {0}
  BY EmptySeq
<1>2. Head(q) = q[1] /\ q[1] \in S
  BY <1>1, HeadTailProperties
<1> QED
  BY <1>1, <1>2, HeadTailProperties

LEMMA AppendedQueue ==
  ASSUME NEW S, NEW q \in Seq(S), NEW x \in S
  PROVE  /\ Append(q, x) \in Seq(S) /\ Len(q) \in Nat
         /\ Len(Append(q, x)) = Len(q) + 1
         /\ \A i \in 1 .. Len(q) : Append(q, x)[i] = q[i]
         /\ Append(q, x)[Len(q) + 1] = x
BY AppendProperties

(* What the types say.                                                     *)
LEMMA QueueTypes ==
  ASSUME TypeInv
  PROVE  /\ Len(queue) \in Nat /\ DOMAIN queue = 1 .. Len(queue)
         /\ \A i \in DOMAIN queue : queue[i] \in Operation
         /\ queue = << >> <=> Len(queue) = 0
BY ElementOfSeq, EmptySeq DEF TypeInv

LEMMA WorkFields ==
  ASSUME NEW op \in Operation
  PROVE  /\ op.kind \in {"message", "append", "timer", "replay"}
         /\ op.role \in Nat
         /\ op = [kind |-> op.kind, of |-> op.of, role |-> op.role]
         /\ op.kind = "message" => op.of \in Source
         /\ op.kind = "append" => op.of \in 1 .. MaxAppends
         /\ op.kind \in {"timer", "replay"} => op.of = 0
BY DEF Operation

LEMMA ItemTypes ==
  ASSUME TypeInv
  PROVE  /\ \A p \in Source : Item("message", p) \in Operation
         /\ \A a \in 1 .. MaxAppends : Item("append", a) \in Operation
         /\ Item("timer", 0) \in Operation
         /\ [Item("timer", 0) EXCEPT !.role = @ + 1]
              = [kind |-> "timer", of |-> 0, role |-> roles + 1]
         /\ [Item("replay", 0) EXCEPT !.role = @ + 1]
              = [kind |-> "replay", of |-> 0, role |-> roles + 1]
         /\ [kind |-> "timer", of |-> 0, role |-> roles + 1] \in Operation
         /\ [kind |-> "replay", of |-> 0, role |-> roles + 1] \in Operation
BY DEF TypeInv, Item, Operation

(* The peers are some of the sources, and come round.                      *)
LEMMA Peers ==
  /\ NPeers \in Nat \ {0} /\ Peer \subseteq Source /\ 0 \in Peer
  /\ NonPeer \in Source /\ NonPeer \notin Peer
  /\ \A p \in Source : p \in Peer \/ p = NonPeer
  /\ Peer \subseteq Nat
BY DispatchAssumption DEF Peer, NonPeer, Source

LEMMA PeersComeRound ==
  ASSUME NEW p \in Peer
  PROVE  /\ NextPeer(p) \in Peer
         /\ NextPeer(p) = IF p + 1 = NPeers THEN 0 ELSE p + 1
<1>1. /\ NPeers \in Nat \ {0} /\ p \in Nat /\ p + 1 <= NPeers
  BY DispatchAssumption DEF Peer
<1>2. \A n \in Nat \ {0} : \A i \in 0 .. n - 1 : i % n = i
  OBVIOUS
<1>3. \A n \in Nat \ {0} : n % n = 0
  OBVIOUS
<1>4. CASE p + 1 = NPeers
  BY <1>1, <1>3, <1>4 DEF NextPeer, Peer
<1>5. CASE p + 1 # NPeers
  <2>1. p + 1 \in 0 .. NPeers - 1
    BY <1>1, <1>5
  <2>2. NextPeer(p) = p + 1
    BY <1>1, <1>2, <2>1 DEF NextPeer
  <2> QED
    BY <1>5, <2>1, <2>2 DEF Peer
<1> QED
  BY <1>4, <1>5

(* The consumer comes to p one step later or has just passed it.           *)
LEMMA Distances ==
  ASSUME NEW index \in Peer, NEW p \in Peer
  PROVE  /\ Before(index, p) \in 0 .. NPeers - 1
         /\ Before(index, p) = 0 <=> p = index
         /\ p # index => Before(NextPeer(index), p) = Before(index, p) - 1
         /\ p = index => Before(NextPeer(index), p) = NPeers - 1
         /\ p # index /\ NextPeer(index) # p =>
              Before(p, NextPeer(index)) = Before(p, index) + 1
         /\ NextPeer(index) = p => Before(p, index) = NPeers - 1
<1>1. /\ NPeers \in Nat \ {0} /\ index \in Nat /\ p \in Nat
      /\ index <= NPeers - 1 /\ p <= NPeers - 1
  BY DispatchAssumption DEF Peer
<1>2. NextPeer(index) = IF index + 1 = NPeers THEN 0 ELSE index + 1
  BY PeersComeRound
<1> QED
  BY <1>1, <1>2 DEF Before

-----------------------------------------------------------------------------
(* Types *)

(* Every scheduler and consumer function returns what it should.           *)
LEMMA ConsumerTypes ==
  ASSUME TypeOK
  PROVE  /\ \A p \in Peer : Polling(p) \in [at : {"polling"}, start : Peer,
                                             index : Peer, repeat : {FALSE}]
         /\ Stopped \in [at : {"stopped"}, start : {0}, index : {0}, repeat : {FALSE}]
         /\ Awaiting \in [at : {"awaiting"}, start : {0}, index : {0}, repeat : {FALSE}]
         /\ 0 \in Peer
         /\ consumer.start \in Peer /\ consumer.index \in Peer
         /\ consumer.repeat \in BOOLEAN
BY Peers DEF TypeOK, Polling, Stopped, Awaiting

ConsumerType ==
  [at : {"stopped", "polling", "direct", "nonPeer", "waiting", "awaiting"},
   start : Peer, index : Peer, repeat : BOOLEAN]

LEMMA ContinuedType ==
  ASSUME TypeOK
  PROVE  /\ Continued(consumer) \in ConsumerType
         /\ Continued(consumer).at \in {"polling", "nonPeer"}
         /\ \A c \in ConsumerType : Advanced(c) \in ConsumerType
         /\ \A c \in ConsumerType : Advanced(c).at \in {"polling", "nonPeer"}
         /\ \A a \in {"direct", "waiting"} :
              [consumer EXCEPT !.at = a] \in ConsumerType
<1>1. consumer \in ConsumerType
  BY DEF TypeOK, ConsumerType
<1>2. ASSUME NEW c \in ConsumerType
      PROVE  Advanced(c) \in ConsumerType /\ Advanced(c).at \in {"polling", "nonPeer"}
  BY DEF ConsumerType, Advanced, Polling
<1>3. Resumed(consumer) \in ConsumerType /\ Resumed(consumer).at = "polling"
  BY <1>1 DEF ConsumerType, Resumed, Polling
<1>4. \A a \in {"direct", "waiting"} : [consumer EXCEPT !.at = a] \in ConsumerType
  BY <1>1 DEF ConsumerType
<1> QED
  BY <1>1, <1>2, <1>3, <1>4 DEF Continued

AppendState == {"none", "queued", "persisting", "pending", "committed", "settled"}

LEMMA SettledType ==
  ASSUME TypeOK, NEW states
  PROVE  /\ Settled(states) \in [1 .. MaxAppends -> AppendState]
         /\ \A a \in 1 .. MaxAppends :
              Settled(states)[a] = IF appends[a] \in states THEN "settled"
                                                            ELSE appends[a]
BY DEF TypeOK, Settled, AppendState

LEMMA CommittingType ==
  ASSUME TypeOK, NEW entries \in SUBSET Pending
  PROVE  /\ Committing(entries) \in [1 .. MaxAppends -> AppendState]
         /\ \A a \in 1 .. MaxAppends :
              Committing(entries)[a] \in {appends[a], "committed"}
BY DEF TypeOK, Committing, AppendState

(* The parts of the type invariant that a step usually changes.            *)
SchedulerTypes ==
  /\ queue \in Seq(Operation)
  /\ running \in BOOLEAN /\ busy \in BOOLEAN
  /\ inFlight \in SUBSET Operation /\ IsFiniteSet(inFlight)
  /\ failed \subseteq inFlight

RoleTypes ==
  /\ role \in {"Follower", "Candidate", "Leader", "none"}
  /\ roles \in Nat
  /\ crashed \in BOOLEAN /\ reentered \in BOOLEAN
  /\ consumer \in ConsumerType
  /\ appends \in [1 .. MaxAppends -> AppendState]

InputTypes ==
  /\ arrived \in [Source -> Nat] /\ handled \in [Source -> Nat]
  /\ buffer \in [Source -> Seq(Nat)]

LEMMA TypeParts ==
  TypeInv <=> SchedulerTypes /\ RoleTypes /\ InputTypes /\ passed \in [Peer -> Nat]
BY DEF TypeInv, TypeOK, SchedulerTypes, RoleTypes, InputTypes, ConsumerType,
       AppendState

LEMMA TypePartsAfter ==
  SchedulerTypes' /\ RoleTypes' /\ InputTypes' /\ passed' \in [Peer -> Nat]
    => TypeInv'
BY DEF TypeInv, TypeOK, SchedulerTypes, RoleTypes, InputTypes, ConsumerType,
       AppendState

(* What asap() and a role change leave behind.                             *)
LEMMA AsapTypes ==
  ASSUME TypeInv, NEW item \in Operation, Asap(item), UNCHANGED failed
  PROVE  SchedulerTypes'
<1>1. queue' \in Seq(Operation)
  BY AppendedQueue DEF TypeInv, Asap
<1> QED
  BY <1>1 DEF TypeInv, TypeOK, Asap, SchedulerTypes

LEMMA ChangeRoleTypes ==
  ASSUME TypeInv, NEW new \in {"Follower", "Candidate", "Leader"},
         ChangeRole(new), inFlight' \subseteq inFlight, failed' \subseteq inFlight',
         InputTypes', UNCHANGED <<crashed, reentered>>
  PROVE  TypeInv'
<1>1. /\ \/ new = "Leader" /\ queue' = << >>
         \/ \E item \in Operation : queue' = << item >>
  BY ItemTypes DEF ChangeRole
<1>2. queue' \in Seq(Operation)
  <2>1. CASE queue' = << >>
    <3>1. << >> \in Seq(Operation)
      OBVIOUS
    <3> QED
      BY <2>1, <3>1, Zenon
  <2>2. ASSUME NEW item \in Operation, queue' = << item >>
        PROVE  queue' \in Seq(Operation)
    <3>1. << item >> \in Seq(Operation)
      OBVIOUS
    <3> QED
      BY <2>2, <3>1, Zenon
  <2> QED
    BY <1>1, <2>1, <2>2, Zenon
<1>3. IsFiniteSet(inFlight')
  BY FS_Subset DEF TypeInv
<1>4. SchedulerTypes'
  BY <1>2, <1>3 DEF ChangeRole, TypeInv, SchedulerTypes
<1>5. RoleTypes'
  <2>1. RoleTypes
    BY TypeParts
  <2>2. appends' \in [1 .. MaxAppends -> AppendState]
    BY SettledType DEF ChangeRole, TypeInv
  <2>3. consumer' \in ConsumerType
    BY ConsumerTypes DEF ChangeRole, TypeInv, ConsumerType
  <2>4. role' = new /\ roles' = roles + 1
    BY DEF ChangeRole
  <2> QED
    BY <2>1, <2>2, <2>3, <2>4 DEF RoleTypes
<1>6. passed' \in [Peer -> Nat]
  BY DEF ChangeRole
<1> QED
  BY <1>4, <1>5, <1>6, TypePartsAfter

(* What the environment does.                                              *)
LEMMA EnvironmentTypes ==
  ASSUME TypeInv,
         \/ \E p \in Source : Arrive(p)
         \/ Timer
         \/ \E a \in 1 .. MaxAppends : CallAppend(a) \/ Answer(a)
         \/ Complete
         \/ Fail
         \/ Close
  PROVE  TypeInv'
<1> USE DEF inputVars, schedulerVars, crashVars
<1>1. /\ SchedulerTypes /\ RoleTypes /\ InputTypes /\ passed \in [Peer -> Nat]
      /\ TypeOK
  BY TypeParts DEF TypeInv
<1>2. ASSUME NEW p \in Source, Arrive(p) PROVE TypeInv'
  <2>1. /\ arrived' = [arrived EXCEPT ![p] = @ + 1]
        /\ buffer' = [buffer EXCEPT ![p] = Append(@, arrived'[p])]
        /\ consumer' \in {Polling(0), consumer}
        /\ UNCHANGED <<role, roles, handled, queue, running, busy, inFlight,
                       failed, crashed, appends, passed, reentered>>
    <3>1. /\ arrived' = [arrived EXCEPT ![p] = @ + 1]
          /\ buffer' = [buffer EXCEPT ![p] = Append(@, arrived'[p])]
          /\ consumer' = IF consumer.at = "awaiting" THEN Polling(0) ELSE consumer
          /\ UNCHANGED <<role, roles, handled, schedulerVars, crashVars, appends,
                         passed, reentered>>
      BY <1>2, Zenon DEF Arrive
    <3> QED
      BY <3>1
  <2>2. arrived' \in [Source -> Nat]
    BY <1>1, <2>1 DEF InputTypes
  <2>3. Append(buffer[p], arrived'[p]) \in Seq(Nat)
    BY <1>1, <2>2, AppendedQueue DEF InputTypes
  <2>4. InputTypes'
    BY <1>1, <2>1, <2>2, <2>3 DEF InputTypes
  <2>5. RoleTypes'
    BY <1>1, <2>1, ConsumerTypes DEF RoleTypes, ConsumerType
  <2> QED
    BY <1>1, <2>1, <2>4, <2>5, TypePartsAfter DEF SchedulerTypes
<1>3. CASE Timer
  <2>1. SchedulerTypes'
    BY <1>3, AsapTypes, ItemTypes DEF Timer
  <2>2. UNCHANGED <<role, roles, arrived, buffer, handled, passed, crashed,
                    consumer, appends, reentered>>
    BY <1>3 DEF Timer
  <2> QED
    BY <1>1, <2>1, <2>2, TypePartsAfter DEF RoleTypes, InputTypes
<1>4. ASSUME NEW a \in 1 .. MaxAppends, CallAppend(a) PROVE TypeInv'
  <2>1. SchedulerTypes'
    BY <1>4, AsapTypes, ItemTypes DEF CallAppend
  <2>2. /\ UNCHANGED <<role, roles, arrived, buffer, handled, passed, crashed,
                       consumer, reentered>>
        /\ appends' = [appends EXCEPT ![a] = "queued"]
    BY <1>4 DEF CallAppend
  <2> QED
    BY <1>1, <2>1, <2>2, TypePartsAfter DEF RoleTypes, InputTypes, AppendState
<1>5. CASE Complete
  <2>1. PICK op \in inFlight \ failed :
          /\ inFlight' = inFlight \ {op}
          /\ \/ \E new \in {"Follower", "Leader"} : ChangeRole(new)
             \/ /\ running' = Current(op)
                /\ consumer' \in {Resumed(consumer), consumer}
                /\ \/ UNCHANGED appends
                   \/ /\ op.kind = "append"
                      /\ \E x \in AppendState : appends' = [appends EXCEPT ![op.of] = x]
                /\ UNCHANGED <<role, roles, queue, busy, passed>>
          /\ UNCHANGED <<arrived, buffer, handled, failed, crashed, reentered>>
    BY <1>5 DEF Complete, AppendState
  <2>2. /\ inFlight' \subseteq inFlight /\ failed' \subseteq inFlight'
        /\ op \in Operation /\ IsFiniteSet(inFlight')
    <3>1. inFlight' \subseteq inFlight /\ failed' \subseteq inFlight'
      BY <1>1, <2>1 DEF SchedulerTypes
    <3> QED
      BY <1>1, <2>1, <3>1, FS_Subset DEF SchedulerTypes
  <2>3. ASSUME NEW new \in {"Follower", "Leader"}, ChangeRole(new) PROVE TypeInv'
    <3>1. InputTypes'
      BY <1>1, <2>1 DEF InputTypes
    <3> QED
      BY <2>1, <2>2, <2>3, <3>1, ChangeRoleTypes
  <2>4. CASE ~\E new \in {"Follower", "Leader"} : ChangeRole(new)
    <3>1. Current(op) \in BOOLEAN
      BY DEF Current
    <3>2. SchedulerTypes'
      BY <1>1, <2>1, <2>2, <2>4, <3>1 DEF SchedulerTypes
    <3>3. consumer' \in ConsumerType
      <4>1. Resumed(consumer) \in ConsumerType
        BY <1>1, ConsumerTypes DEF Resumed, ConsumerType
      <4> QED
        BY <1>1, <2>1, <2>4, <4>1 DEF RoleTypes
    <3>4. appends' \in [1 .. MaxAppends -> AppendState]
      BY <1>1, <2>1, <2>2, <2>4, WorkFields DEF RoleTypes
    <3>5. RoleTypes' /\ InputTypes' /\ passed' \in [Peer -> Nat]
      BY <1>1, <2>1, <2>4, <3>3, <3>4 DEF RoleTypes, InputTypes
    <3> QED
      BY <3>2, <3>5, TypePartsAfter
  <2> QED
    BY <2>3, <2>4
<1>6. CASE Fail
  <2>1. /\ crashed' = TRUE
        /\ \E op \in inFlight : failed' = {op}
        /\ UNCHANGED <<role, roles, arrived, buffer, handled, passed, queue,
                       running, busy, inFlight, consumer, appends, reentered>>
    BY <1>6 DEF Fail
  <2> QED
    BY <1>1, <2>1, TypePartsAfter DEF SchedulerTypes, RoleTypes, InputTypes
<1>7. CASE Close
  <2>1. /\ role' = "none" /\ queue' = << >> /\ busy' = FALSE
        /\ consumer' = Stopped
        /\ appends' = Settled({"queued", "pending"})
        /\ UNCHANGED <<roles, arrived, buffer, handled, passed, running,
                       inFlight, failed, crashed, reentered>>
    BY <1>7 DEF Close
  <2>2. SchedulerTypes'
    <3>1. << >> \in Seq(Operation)
      OBVIOUS
    <3>2. queue' \in Seq(Operation)
      BY <2>1, <3>1, Zenon
    <3> QED
      BY <1>1, <2>1, <3>2 DEF SchedulerTypes
  <2>3. RoleTypes'
    BY <1>1, <2>1, SettledType, ConsumerTypes DEF RoleTypes, ConsumerType
  <2> QED
    BY <1>1, <2>1, <2>2, <2>3, TypePartsAfter DEF InputTypes
<1>8. ASSUME NEW a \in 1 .. MaxAppends, Answer(a) PROVE TypeInv'
  <2>1. /\ UNCHANGED <<role, roles, arrived, buffer, handled, passed, queue, running,
                       busy, inFlight, failed, crashed, consumer, reentered>>
        /\ appends' = [appends EXCEPT ![a] = "settled"]
    BY <1>8 DEF Answer
  <2> QED
    BY <1>1, <2>1, TypePartsAfter DEF SchedulerTypes, RoleTypes, InputTypes, AppendState
<1> QED
  BY <1>2, <1>3, <1>4, <1>5, <1>6, <1>7, <1>8

-----------------------------------------------------------------------------
(* The ways an item of the queue runs *)

(* A message is taken out of its buffer.                                   *)
Taken(item) ==
  IF item.kind = "message" THEN Take(item.of) ELSE UNCHANGED inputVars

Counted(item) ==
  IF item.kind = "message" THEN Passes(item.of) ELSE UNCHANGED passed

(* It began an operation.                                                  *)
Begun(item) ==
  /\ Begins(item) /\ Taken(item) /\ Counted(item)
  /\ item.kind = "timer" => role = "Candidate"
  /\ UNCHANGED <<failed, crashed, reentered>>

(* It returned or threw; a message of a leader may have committed.         *)
Ended(item) ==
  /\ queue' = Tail(queue) /\ running' \in BOOLEAN
  /\ Taken(item) /\ Counted(item)
  /\ consumer' \in IF item.kind = "message"
                   THEN {[consumer EXCEPT !.at = "waiting"]}
                          \union {Continued(consumer) : p \in Peer \intersect {item.of}}
                   ELSE {consumer}
  /\ appends' \in {appends} \union {Committing(entries) : entries \in SUBSET Pending}
  /\ crashed' \in {crashed, TRUE}
  /\ UNCHANGED <<role, roles, busy, inFlight, failed, reentered>>

(* It committed, and the state machine called append().                    *)
Committed(item) ==
  /\ item.kind = "message" /\ item.of \in Peer
  /\ CommitsAndAppends(item) /\ Taken(item) /\ Counted(item)
  /\ UNCHANGED <<failed, crashed>>

(* It changed the role.                                                    *)
Changed(item) ==
  /\ \E new \in {"Follower", "Candidate", "Leader"} : ChangeRole(new)
  /\ Taken(item)
  /\ UNCHANGED <<inFlight, failed, crashed, reentered>>

LEMMA RunCases ==
  ASSUME RunNext, queue # << >>, NEW item, item = Head(queue)
  PROVE  /\ running
         /\ Begun(item) \/ Ended(item) \/ Committed(item) \/ Changed(item)
<1> USE DEF crashVars
<1>1. running /\ (\/ RunMessage(item) \/ RunTimer(item)
                  \/ RunReplay(item) \/ RunAppend(item))
  BY Zenon DEF RunNext
<1>2. CASE RunMessage(item)
  <2>1. item.kind = "message" /\ Take(item.of) /\ Taken(item)
    BY <1>2 DEF RunMessage, Taken
  <2>2. CASE Begins(item) /\ Passes(item.of) /\ UNCHANGED <<crashVars, reentered>>
    BY <1>1, <2>1, <2>2 DEF Begun, Counted
  <2>3. CASE item.of \in Peer /\ Throws(item) /\ Passes(item.of)
               /\ UNCHANGED reentered
    BY <1>1, <2>1, <2>3 DEF Throws, Ended, Counted
  <2>4. CASE /\ item.of \in Peer /\ Returns(item) /\ Passes(item.of)
             /\ UNCHANGED <<crashVars, reentered>>
             /\ \/ UNCHANGED appends
                \/ \E entries \in SUBSET Pending : appends' = Committing(entries)
    BY <1>1, <2>1, <2>4 DEF Returns, Ended, Counted
  <2>5. CASE item.of \in Peer /\ CommitsAndAppends(item) /\ Passes(item.of)
               /\ UNCHANGED crashVars
    BY <1>1, <2>1, <2>5 DEF Committed, Counted
  <2>6. CASE /\ ChangeRole("Follower") \/ ChangeRole("Leader")
             /\ UNCHANGED <<inFlight, crashVars, reentered>>
    BY <1>1, <2>1, <2>6 DEF Changed
  <2> QED
    BY <1>1, <1>2, <2>2, <2>3, <2>4, <2>5, <2>6, Zenon DEF RunMessage
<1>3. CASE RunTimer(item)
  <2>1. item.kind = "timer" /\ UNCHANGED <<inputVars, reentered>> /\ Taken(item)
    BY <1>3 DEF RunTimer, Taken
  <2>2. CASE role = "Candidate" /\ Begins(item) /\ UNCHANGED <<passed, crashVars>>
    BY <1>1, <2>1, <2>2 DEF Begun, Counted
  <2>3. CASE Returns(item) /\ UNCHANGED <<appends, passed, crashVars>>
    BY <1>1, <2>1, <2>3 DEF Returns, Ended, Counted
  <2>4. CASE ChangeRole("Candidate") /\ UNCHANGED <<inFlight, crashVars>>
    BY <1>1, <2>1, <2>4 DEF Changed
  <2>5. CASE Throws(item) /\ UNCHANGED passed
    BY <1>1, <2>1, <2>5 DEF Throws, Ended, Counted
  <2> QED
    BY <1>1, <1>3, <2>2, <2>3, <2>4, <2>5, Zenon DEF RunTimer
<1>4. CASE RunReplay(item)
  <2>1. /\ item.kind = "replay" /\ Taken(item) /\ Counted(item)
        /\ UNCHANGED <<crashVars, reentered>>
    BY <1>4 DEF RunReplay, Taken, Counted
  <2>2. CASE Begins(item)
    BY <1>1, <2>1, <2>2 DEF Begun
  <2>3. CASE Returns(item) /\ UNCHANGED appends
    BY <1>1, <2>1, <2>3 DEF Returns, Ended
  <2> QED
    BY <1>1, <1>4, <2>2, <2>3, Zenon DEF RunReplay
<1>5. CASE RunAppend(item)
  BY <1>1, <1>5 DEF RunAppend, Begun, Taken, Counted
<1> QED
  BY <1>1, <1>2, <1>3, <1>4, <1>5

(* The item that runs.                                                     *)
LEMMA FirstItem ==
  ASSUME Inv, queue # << >>, NEW item, item = Head(queue)
  PROVE  /\ item \in Operation /\ item = queue[1] /\ 1 \in DOMAIN queue
         /\ item.role = roles /\ item \notin inFlight
         /\ Tail(queue) \in Seq(Operation) /\ Len(Tail(queue)) = Len(queue) - 1
         /\ \A i \in DOMAIN Tail(queue) :
              /\ i \in Nat /\ i + 1 \in DOMAIN queue /\ i + 1 # 1
              /\ Tail(queue)[i] = queue[i + 1] /\ queue[i + 1] # item
         /\ item.kind = "message" => item.of \in Source /\ buffer[item.of] # << >>
<1>1. queue \in Seq(Operation) /\ QueueIsFresh /\ OneMessage
  BY DEF Inv, TypeInv
<1>2. /\ Len(queue) \in Nat \ {0} /\ item \in Operation /\ item = queue[1]
      /\ Tail(queue) \in Seq(Operation) /\ Len(Tail(queue)) = Len(queue) - 1
      /\ \A i \in 1 .. Len(queue) - 1 : Tail(queue)[i] = queue[i + 1]
  BY <1>1, TailOfQueue
<1>3. DOMAIN queue = 1 .. Len(queue) /\ DOMAIN Tail(queue) = 1 .. Len(queue) - 1
  BY <1>1, <1>2
<1>4. \A i \in DOMAIN Tail(queue) :
        i \in Nat /\ i + 1 \in DOMAIN queue /\ i + 1 # 1
  BY <1>2, <1>3
<1>5. 1 \in DOMAIN queue
  BY <1>2, <1>3
<1>6. item.kind = "message" => item.of \in Source /\ buffer[item.of] # << >>
  BY <1>1, <1>2, <1>5, WorkFields DEF OneMessage, QueuedMessages
<1> QED
  BY <1>1, <1>2, <1>3, <1>4, <1>5, <1>6 DEF QueueIsFresh

-----------------------------------------------------------------------------
(* What the program does preserves the types *)

LEMMA TakenTypes ==
  ASSUME Inv, queue # << >>, NEW item, item = Head(queue), Taken(item)
  PROVE  InputTypes'
<1>1. InputTypes /\ (item.kind = "message" =>
                       item.of \in Source /\ buffer[item.of] # << >>)
  BY FirstItem, TypeParts DEF Inv
<1>2. CASE item.kind = "message"
  <2>1. /\ item.of \in Source
        /\ Head(buffer[item.of]) \in Nat /\ Tail(buffer[item.of]) \in Seq(Nat)
    BY <1>1, <1>2, TailOfQueue DEF InputTypes
  <2> QED
    BY <1>1, <1>2, <2>1 DEF Taken, Take, InputTypes
<1>3. CASE item.kind # "message"
  BY <1>1, <1>3 DEF Taken, InputTypes, inputVars
<1> QED
  BY <1>2, <1>3

LEMMA CountedTypes ==
  ASSUME TypeInv, NEW item, Counted(item)
  PROVE  passed' \in [Peer -> Nat]
<1>1. passed \in [Peer -> Nat]
  BY TypeParts
<1>2. \A q \in Peer : passed[q] + 1 \in Nat
  BY <1>1
<1>3. CASE item.kind = "message"
  BY <1>2, <1>3 DEF Counted, Passes
<1>4. CASE item.kind # "message"
  BY <1>1, <1>4 DEF Counted
<1> QED
  BY <1>3, <1>4

LEMMA ProgramTypes ==
  ASSUME Inv, Program
  PROVE  TypeInv'
<1>1. /\ SchedulerTypes /\ RoleTypes /\ InputTypes /\ passed \in [Peer -> Nat]
      /\ TypeOK /\ TypeInv
  BY TypeParts DEF Inv, TypeInv
<1>2. CASE Poll
  <2>1. PICK p \in Peer :
          /\ consumer' \in ConsumerType
          /\ UNCHANGED schedulerVars \/ Asap(Item("message", p))
    <3>1. [consumer EXCEPT !.index = NextPeer(consumer.index)] \in ConsumerType
      BY <1>1, ConsumerTypes, PeersComeRound DEF RoleTypes, ConsumerType
    <3>2. \A a \in {"direct", "waiting"} :
            [[consumer EXCEPT !.index = NextPeer(consumer.index)]
               EXCEPT !.repeat = TRUE, !.at = a] \in ConsumerType
      BY <3>1 DEF ConsumerType
    <3>3. consumer.index \in Peer
      BY <1>1, ConsumerTypes
    <3>4. CASE consumer' = Advanced([consumer EXCEPT !.index = NextPeer(consumer.index)])
                 /\ UNCHANGED schedulerVars
      BY <1>1, <3>1, <3>3, <3>4, ContinuedType
    <3>5. CASE /\ Asap(Item("message", consumer.index))
               /\ consumer' = [[consumer EXCEPT !.index = NextPeer(consumer.index)]
                     EXCEPT !.repeat = TRUE,
                            !.at = IF running' THEN "direct" ELSE "waiting"]
      <4>1. PICK a \in {"direct", "waiting"} :
              consumer' = [[consumer EXCEPT !.index = NextPeer(consumer.index)]
                             EXCEPT !.repeat = TRUE, !.at = a]
        BY <3>5
      <4>2. consumer' \in ConsumerType
        BY <3>2, <4>1
      <4> QED
        BY <3>3, <3>5, <4>2
    <3> QED
      BY <1>2, <3>4, <3>5, Zenon DEF Poll
  <2>2. UNCHANGED <<role, roles, arrived, buffer, handled, passed, failed, crashed,
                    appends, reentered>>
    BY <1>2 DEF Poll, inputVars, crashVars
  <2>3. SchedulerTypes'
    <3>1. Item("message", p) \in Operation
      BY <1>1, ItemTypes, Peers
    <3>2. CASE UNCHANGED schedulerVars
      BY <1>1, <2>2, <3>2 DEF schedulerVars, SchedulerTypes
    <3>3. CASE Asap(Item("message", p))
      BY <1>1, <2>2, <3>1, <3>3, AsapTypes
    <3> QED
      BY <2>1, <3>2, <3>3
  <2> QED
    BY <1>1, <2>1, <2>2, <2>3, TypePartsAfter DEF RoleTypes, InputTypes
<1>3. CASE PollNonPeer
  <2>1. /\ UNCHANGED schedulerVars \/ Asap(Item("message", NonPeer))
        /\ consumer' \in {[Awaiting EXCEPT !.at = "waiting"], Awaiting, Polling(0)}
        /\ UNCHANGED <<role, roles, arrived, buffer, handled, passed, failed,
                       crashed, appends, reentered>>
    BY <1>3 DEF PollNonPeer, inputVars, crashVars
  <2>2. consumer' \in ConsumerType
    BY <1>1, <2>1, ConsumerTypes DEF ConsumerType
  <2>3. SchedulerTypes'
    <3>1. Item("message", NonPeer) \in Operation
      BY <1>1, ItemTypes, Peers
    <3>2. CASE UNCHANGED schedulerVars
      BY <1>1, <2>1, <3>2 DEF schedulerVars, SchedulerTypes
    <3>3. CASE Asap(Item("message", NonPeer))
      BY <1>1, <2>1, <3>1, <3>3, AsapTypes
    <3> QED
      BY <2>1, <3>2, <3>3
  <2> QED
    BY <1>1, <2>1, <2>2, <2>3, TypePartsAfter DEF RoleTypes, InputTypes
<1>4. CASE RunNext /\ queue = << >>
  <2>1. /\ running' \in BOOLEAN /\ busy' \in BOOLEAN
        /\ UNCHANGED <<role, roles, arrived, buffer, handled, passed, queue,
                       inFlight, consumer, appends, failed, crashed, reentered>>
    BY <1>1, <1>4 DEF RunNext, inputVars, crashVars, SchedulerTypes
  <2> QED
    BY <1>1, <2>1, TypePartsAfter DEF SchedulerTypes, RoleTypes, InputTypes
<1>5. ASSUME RunNext, queue # << >>, NEW item, item = Head(queue)
      PROVE  TypeInv'
  <2>1. /\ item \in Operation /\ Tail(queue) \in Seq(Operation)
        /\ \A x \in Operation : IsFiniteSet(inFlight \union {x})
    BY <1>1, <1>5, FirstItem, FS_AddElement DEF SchedulerTypes
  <2>2. ASSUME Taken(item) PROVE InputTypes'
    BY <1>5, <2>2, TakenTypes
  <2>3. ASSUME Counted(item) PROVE passed' \in [Peer -> Nat]
    BY <1>1, <2>3, CountedTypes
  <2>4. [consumer EXCEPT !.at = "waiting"] \in ConsumerType
          /\ Continued(consumer) \in ConsumerType /\ consumer \in ConsumerType
    BY <1>1, ContinuedType DEF RoleTypes
  <2>5. \A entries \in SUBSET Pending :
          Committing(entries) \in [1 .. MaxAppends -> AppendState]
    BY <1>1, CommittingType
  <2>6. CASE Begun(item)
    <3>1. /\ inFlight' = inFlight \union {item} /\ queue' = Tail(queue)
          /\ running' = FALSE /\ busy' = TRUE
          /\ consumer' \in {[consumer EXCEPT !.at = "waiting"], consumer}
          /\ \/ UNCHANGED appends
             \/ /\ item.kind = "append"
                /\ appends' = [appends EXCEPT ![item.of] = "persisting"]
          /\ Taken(item) /\ Counted(item)
          /\ UNCHANGED <<role, roles, failed, crashed, reentered>>
      BY <2>6 DEF Begun, Begins
    <3>2. SchedulerTypes'
      BY <1>1, <2>1, <3>1 DEF SchedulerTypes
    <3>3. appends' \in [1 .. MaxAppends -> AppendState]
      BY <1>1, <2>1, <3>1, WorkFields DEF RoleTypes, AppendState
    <3>4. RoleTypes'
      BY <1>1, <2>4, <3>1, <3>3 DEF RoleTypes
    <3> QED
      BY <2>2, <2>3, <3>1, <3>2, <3>4, TypePartsAfter
  <2>7. CASE Ended(item)
    <3>1. consumer' \in ConsumerType
      BY <2>4, <2>7 DEF Ended
    <3>2. SchedulerTypes' /\ RoleTypes'
      BY <1>1, <2>1, <2>5, <2>7, <3>1 DEF Ended, SchedulerTypes, RoleTypes
    <3> QED
      BY <2>2, <2>3, <2>7, <3>2, TypePartsAfter DEF Ended
  <2>8. CASE Committed(item)
    <3>1. PICK b \in 1 .. MaxAppends, s \in {"persisting", "queued"},
               entries \in SUBSET Pending :
            /\ appends' = [Committing(entries) EXCEPT ![b] = s]
            /\ inFlight' \in {inFlight, inFlight \union {Item("append", b)}}
            /\ queue' \in {Tail(queue), Append(Tail(queue), Item("append", b))}
            /\ reentered' \in {reentered, TRUE}
            /\ consumer' = Continued(consumer)
            /\ UNCHANGED <<role, roles, running, busy, failed, crashed>>
      BY <2>8 DEF Committed, CommitsAndAppends
    <3>2. Item("append", b) \in Operation
      BY <1>1, ItemTypes
    <3>3. queue' \in Seq(Operation)
      BY <2>1, <3>1, <3>2, AppendedQueue, SMTT(40)
    <3>4. SchedulerTypes'
      BY <1>1, <2>1, <3>1, <3>2, <3>3 DEF SchedulerTypes
    <3>5. appends' \in [1 .. MaxAppends -> AppendState]
      BY <2>5, <3>1 DEF AppendState
    <3>6. RoleTypes'
      BY <1>1, <2>4, <3>1, <3>5 DEF RoleTypes
    <3> QED
      BY <2>2, <2>3, <2>8, <3>4, <3>6, TypePartsAfter DEF Committed
  <2>9. CASE Changed(item)
    <3>1. PICK new \in {"Follower", "Candidate", "Leader"} : ChangeRole(new)
      BY <2>9 DEF Changed
    <3>2. InputTypes'
      BY <2>2, <2>9 DEF Changed
    <3> QED
      BY <1>1, <2>9, <3>1, <3>2, ChangeRoleTypes DEF Changed, SchedulerTypes
  <2> QED
    BY <1>5, <2>6, <2>7, <2>8, <2>9, RunCases, Zenon
<1> QED
  BY <1>2, <1>3, <1>4, <1>5, Zenon DEF Program

-----------------------------------------------------------------------------
(* The queue, what is in progress and which of them belong to the role: one *)
(* lemma for each way to change them.                                       *)

SchedulerInv == QueueIsFresh /\ IdleMeansEmpty /\ OneAtATime /\ OfRole

(* An item comes into the queue.                                           *)
Offers(item) ==
  /\ ~running /\ role # "none"
  /\ item \in Operation /\ item.role = roles
  /\ item \notin inFlight /\ \A i \in DOMAIN queue : queue[i] # item
  /\ item.kind = "append" => role = "Leader"
  /\ Asap(item)
  /\ UNCHANGED <<role, roles, reentered>>
  /\ consumer'.at # "stopped"

LEMMA OfferedItems ==
  ASSUME TypeInv, NEW item \in Operation, queue' = Append(queue, item)
  PROVE  /\ Len(queue) \in Nat /\ Len(queue') = Len(queue) + 1
         /\ DOMAIN queue' = 1 .. Len(queue) + 1
         /\ \A i \in DOMAIN queue' : i \in DOMAIN queue \/ i = Len(queue) + 1
         /\ \A i \in DOMAIN queue :
              i # Len(queue) + 1 /\ i \in DOMAIN queue' /\ queue'[i] = queue[i]
         /\ queue'[Len(queue) + 1] = item
<1>1. queue \in Seq(Operation) /\ DOMAIN queue = 1 .. Len(queue)
  BY QueueTypes DEF TypeInv
<1> QED
  BY <1>1, AppendedQueue

LEMMA OfferedInv ==
  ASSUME Inv, NEW item, Offers(item)
  PROVE  SchedulerInv'
<1> USE DEF Offers
<1>1. /\ TypeInv /\ QueueIsFresh /\ IdleMeansEmpty /\ OneAtATime /\ OfRole
      /\ queue' = Append(queue, item) /\ running' = (running \/ ~busy)
      /\ UNCHANGED <<busy, inFlight, role, roles, reentered>>
      /\ queue = << >> <=> Len(queue) = 0
  BY QueueTypes DEF Inv, Asap
<1>2. QueueIsFresh'
  BY <1>1, OfferedItems DEF QueueIsFresh
<1>3. IdleMeansEmpty'
  <2>1. queue = << >> \/ busy
    BY <1>1 DEF IdleMeansEmpty
  <2>2. Len(queue') = Len(queue) + 1 /\ Len(queue) \in Nat
    BY <1>1, OfferedItems
  <2>3. ~busy => Len(queue) = 0
    BY <1>1, <2>1, Zenon
  <2>4. ~busy => Len(queue') <= 1
    BY <2>2, <2>3
  <2>5. /\ role' # "none" /\ consumer'.at # "stopped"
        /\ (busy' <=> busy) /\ (~running' <=> busy)
    BY <1>1
  <2> QED
    BY <2>4, <2>5 DEF IdleMeansEmpty
<1>4. OneAtATime'
  <2>1. (busy' <=> busy) /\ (~running' <=> busy)
    BY <1>1
  <2>2. reentered' <=> reentered
    <3>1. UNCHANGED <<role, roles, reentered>>
      BY Zenon
    <3> QED
      BY ONLY <3>1
  <2>3. inFlight' = inFlight /\ role # "none" /\ role' = role
    BY <1>1
  <2> QED
    BY <1>1, <2>1, <2>2, <2>3 DEF OneAtATime
<1>5. OfRole'
  BY <1>1, OfferedItems DEF OfRole
<1> QED
  BY <1>2, <1>3, <1>4, <1>5 DEF SchedulerInv

(* The first item begins an operation.                                     *)
LEMMA BegunInv ==
  ASSUME Inv, queue # << >>, NEW item, item = Head(queue), running, Begun(item)
  PROVE  SchedulerInv'
<1>1. /\ TypeInv /\ QueueIsFresh /\ IdleMeansEmpty /\ OneAtATime /\ OfRole
      /\ queue' = Tail(queue) /\ ~running' /\ busy'
      /\ inFlight' = inFlight \union {item}
      /\ consumer'.at = consumer.at \/ consumer'.at = "waiting"
      /\ item.kind = "timer" => role = "Candidate"
      /\ UNCHANGED <<role, roles, reentered>>
  <2>1. consumer'.at = consumer.at \/ consumer'.at = "waiting"
    BY DEF Begun, Begins, Inv, TypeInv, TypeOK
  <2> QED
    BY <2>1 DEF Inv, Begun, Begins
<1>2. QueueIsFresh'
  <2>1. \A i \in DOMAIN queue' : queue'[i].role = roles /\ queue'[i] \notin inFlight'
    BY <1>1, FirstItem DEF QueueIsFresh
  <2>2. \A i, j \in DOMAIN queue' : queue'[i] = queue'[j] => i = j
    BY <1>1, FirstItem DEF QueueIsFresh
  <2>3. \A op \in inFlight' : op.role <= roles
    BY <1>1, FirstItem DEF QueueIsFresh, TypeInv
  <2> QED
    BY <1>1, <2>1, <2>2, <2>3 DEF QueueIsFresh
<1>3. IdleMeansEmpty'
  BY <1>1 DEF IdleMeansEmpty
<1>4. OneAtATime'
  BY <1>1 DEF OneAtATime
<1>5. OfRole'
  BY <1>1, FirstItem DEF OfRole
<1> QED
  BY <1>2, <1>3, <1>4, <1>5 DEF SchedulerInv

(* The first item is over at once.                                         *)
LEMMA EndedInv ==
  ASSUME Inv, queue # << >>, NEW item, item = Head(queue), running, Ended(item)
  PROVE  SchedulerInv'
<1>1. /\ TypeInv /\ QueueIsFresh /\ IdleMeansEmpty /\ OneAtATime /\ OfRole
      /\ queue' = Tail(queue) /\ running' \in BOOLEAN
      /\ UNCHANGED <<role, roles, reentered, busy, inFlight>>
      /\ TypeOK
  BY DEF Inv, Ended, TypeInv
<1>2. consumer'.at \in {consumer.at, "waiting", "polling", "nonPeer"}
  BY <1>1, ContinuedType DEF Ended, TypeOK
<1>3. QueueIsFresh'
  BY <1>1, FirstItem DEF QueueIsFresh
<1>4. IdleMeansEmpty'
  <2>1. /\ role # "none" /\ consumer.at # "stopped"
        /\ ~busy => Len(queue) <= 1
    BY <1>1 DEF IdleMeansEmpty
  <2>2. Len(Tail(queue)) = Len(queue) - 1 /\ Len(queue) \in Nat \ {0}
          /\ Tail(queue) \in Seq(Operation)
    BY <1>1, TailOfQueue DEF TypeInv
  <2>3. ~busy => Tail(queue) = << >> /\ Len(Tail(queue)) <= 1
    BY <2>1, <2>2, EmptySeq
  <2> QED
    BY <1>1, <1>2, <2>1, <2>3 DEF IdleMeansEmpty
<1>5. OneAtATime'
  BY <1>1 DEF OneAtATime
<1>6. OfRole'
  BY <1>1, FirstItem DEF OfRole
<1> QED
  BY <1>3, <1>4, <1>5, <1>6 DEF SchedulerInv

(* The first item commits an entry, and the state machine calls append().  *)
LEMMA CommittedInv ==
  ASSUME Inv, queue # << >>, NEW item, item = Head(queue), running, Committed(item)
  PROVE  SchedulerInv'
<1>1. /\ TypeInv /\ QueueIsFresh /\ IdleMeansEmpty /\ OneAtATime /\ OfRole
      /\ AppendsKnown /\ OneMessage /\ TypeOK
  BY DEF Inv, TypeInv
<1>2. PICK b \in 1 .. MaxAppends :
        /\ appends[b] = "none"
        /\ \/ /\ consumer.at = "direct" /\ reentered'
              /\ inFlight' = inFlight \union {Item("append", b)}
              /\ queue' = Tail(queue)
           \/ /\ consumer.at # "direct"
              /\ queue' = Append(Tail(queue), Item("append", b))
              /\ UNCHANGED <<inFlight, reentered>>
  BY DEF Committed, CommitsAndAppends
<1>3. /\ role = "Leader" /\ consumer'.at # "stopped"
      /\ UNCHANGED <<role, roles, running, busy>>
  BY <1>1, ContinuedType DEF Committed, CommitsAndAppends
<1>4. /\ Item("append", b) \in Operation /\ Item("append", b).role = roles
      /\ Item("append", b).kind = "append" /\ Item("append", b).of = b
  BY <1>1, ItemTypes DEF Item
<1>5. /\ Item("append", b) \notin inFlight
      /\ \A i \in DOMAIN queue : queue[i] # Item("append", b)
  BY <1>1, <1>2, <1>4 DEF AppendsKnown
<1>6. /\ item \in Operation /\ item = queue[1] /\ 1 \in DOMAIN queue
      /\ item.kind = "message" /\ item.of # NonPeer
      /\ Len(queue) \in Nat /\ Tail(queue) \in Seq(Operation)
      /\ Len(Tail(queue)) = Len(queue) - 1
  BY <1>1, FirstItem, QueueTypes, Peers DEF Committed
<1>7. CASE consumer.at = "direct"
  <2>1. /\ reentered' /\ inFlight' = inFlight \union {Item("append", b)}
        /\ queue' = Tail(queue)
    BY <1>2, <1>7
  <2>2. QueueIsFresh'
    <3>1. \A i \in DOMAIN queue' : queue'[i].role = roles /\ queue'[i] \notin inFlight'
      BY <1>1, <1>5, <2>1, FirstItem DEF QueueIsFresh
    <3>2. \A i, j \in DOMAIN queue' : queue'[i] = queue'[j] => i = j
      BY <1>1, <2>1, FirstItem DEF QueueIsFresh
    <3>3. \A op \in inFlight' : op.role <= roles
      BY <1>1, <1>4, <2>1 DEF QueueIsFresh, TypeInv
    <3> QED
      BY <1>3, <3>1, <3>2, <3>3 DEF QueueIsFresh
  <2>3. IdleMeansEmpty'
    <3>1. /\ running /\ ~busy
      BY <1>1, <1>7 DEF OneMessage
    <3>2. Len(queue') <= 1
      BY <1>1, <1>6, <2>1, <3>1 DEF IdleMeansEmpty
    <3> QED
      BY <1>3, <3>1, <3>2 DEF IdleMeansEmpty
  <2>4. OneAtATime'
    BY <2>1 DEF OneAtATime
  <2>5. OfRole'
    BY <1>1, <1>3, <1>4, <2>1, FirstItem DEF OfRole
  <2> QED
    BY <2>2, <2>3, <2>4, <2>5 DEF SchedulerInv
<1>8. CASE consumer.at # "direct"
  <2>1. /\ queue' = Append(Tail(queue), Item("append", b))
        /\ inFlight' = inFlight
    BY <1>2, <1>8
  <2>2. reentered' <=> reentered
    <3>1. UNCHANGED <<inFlight, reentered>>
      BY <1>2, <1>8, Zenon
    <3> QED
      BY ONLY <3>1
  <2>3. /\ DOMAIN queue' = 1 .. Len(queue)
        /\ \A i \in 1 .. Len(queue) - 1 :
             /\ queue'[i] = queue[i + 1] /\ i + 1 \in DOMAIN queue
             /\ i # Len(queue)
        /\ queue'[Len(queue)] = Item("append", b)
        /\ \A i \in 1 .. Len(queue) : i \in 1 .. Len(queue) - 1 \/ i = Len(queue)
    <3>1. /\ queue' \in Seq(Operation) /\ Len(queue') = Len(queue)
          /\ \A i \in 1 .. Len(queue) - 1 : queue'[i] = Tail(queue)[i]
          /\ queue'[Len(queue)] = Item("append", b)
      BY <1>4, <1>6, <2>1, AppendedQueue
    <3>2. DOMAIN queue' = 1 .. Len(queue) /\ DOMAIN Tail(queue) = 1 .. Len(queue) - 1
      BY <1>6, <3>1
    <3>3. \A i \in 1 .. Len(queue) - 1 :
             /\ queue'[i] = queue[i + 1] /\ i + 1 \in DOMAIN queue
      BY <3>1, <3>2, FirstItem
    <3> QED
      BY <1>6, <3>1, <3>2, <3>3
  <2>4. QueueIsFresh'
    <3>1. \A i \in DOMAIN queue' : queue'[i].role = roles /\ queue'[i] \notin inFlight'
      BY <1>1, <1>4, <1>5, <2>1, <2>3 DEF QueueIsFresh
    <3>2. \A i, j \in DOMAIN queue' : queue'[i] = queue'[j] => i = j
      <4>1. \A i, j \in 1 .. Len(queue) - 1 : queue'[i] = queue'[j] => i = j
        <5>1. ASSUME NEW i \in 1 .. Len(queue) - 1, NEW j \in 1 .. Len(queue) - 1,
                     queue'[i] = queue'[j]
              PROVE  i + 1 = j + 1
          BY <1>1, <2>3, <5>1 DEF QueueIsFresh
        <5> QED
          BY <1>6, <5>1
      <4>2. \A i \in 1 .. Len(queue) - 1 : queue'[i] # queue'[Len(queue)]
        BY <1>5, <2>3
      <4> QED
        BY <2>3, <4>1, <4>2
    <3> QED
      BY <1>1, <1>3, <2>1, <3>1, <3>2 DEF QueueIsFresh
  <2>5. IdleMeansEmpty'
    <3>1. busy
      <4>1. 1 \in QueuedMessages
        BY <1>6 DEF QueuedMessages
      <4> QED
        BY <1>1, <1>6, <1>8, <4>1 DEF OneMessage
    <3>2. busy' /\ role' # "none" /\ consumer'.at # "stopped"
      <4>1. UNCHANGED <<role, busy>> /\ role = "Leader"
        BY <1>3
      <4> QED
        BY ONLY <1>3, <3>1, <4>1
    <3> QED
      BY <3>2 DEF IdleMeansEmpty
  <2>6. OneAtATime'
    BY <1>1, <1>3, <2>1, <2>2 DEF OneAtATime
  <2>7. OfRole'
    BY <1>1, <1>3, <1>4, <2>1, <2>3 DEF OfRole
  <2> QED
    BY <2>4, <2>5, <2>6, <2>7 DEF SchedulerInv
<1> QED
  BY <1>7, <1>8

(* The role changes, while nothing is in progress or when that is over.    *)
LEMMA NewQueue ==
  ASSUME TypeInv, NEW new \in {"Follower", "Candidate", "Leader"}, ChangeRole(new)
  PROVE  /\ DOMAIN queue' \subseteq {1} /\ Len(queue') <= 1
         /\ \A i \in DOMAIN queue' :
              queue'[i].kind \in {"timer", "replay"} /\ queue'[i].role = roles + 1
<1>1. ASSUME queue' = << >> PROVE DOMAIN queue' = {} /\ Len(queue') = 0
  BY <1>1
<1>2. ASSUME NEW item, queue' = << item >>
      PROVE  DOMAIN queue' = {1} /\ Len(queue') = 1 /\ queue'[1] = item
  BY <1>2
<1>3. \/ queue' = << >>
      \/ queue' = << [kind |-> "timer", of |-> 0, role |-> roles + 1] >>
      \/ queue' = << [kind |-> "replay", of |-> 0, role |-> roles + 1] >>
  BY ItemTypes DEF ChangeRole
<1>4. ASSUME NEW kind \in {"timer", "replay"},
             queue' = << [kind |-> kind, of |-> 0, role |-> roles + 1] >>
      PROVE  /\ DOMAIN queue' = {1} /\ Len(queue') = 1
             /\ queue'[1].kind = kind /\ queue'[1].role = roles + 1
  BY <1>2, <1>4
<1>5. CASE queue' = << >>
  BY <1>1, <1>5
<1>6. CASE queue' # << >>
  <2>1. PICK kind \in {"timer", "replay"} :
          queue' = << [kind |-> kind, of |-> 0, role |-> roles + 1] >>
    BY <1>3, <1>6
  <2>2. /\ DOMAIN queue' = {1} /\ Len(queue') = 1
        /\ queue'[1].kind = kind /\ queue'[1].role = roles + 1
    BY <1>4, <2>1, Zenon
  <2> QED
    BY <2>2
<1> QED
  BY <1>5, <1>6

LEMMA ChangedInv ==
  ASSUME Inv, NEW new \in {"Follower", "Candidate", "Leader"}, ChangeRole(new),
         inFlight' \subseteq inFlight, ~reentered => inFlight' = {},
         UNCHANGED reentered
  PROVE  SchedulerInv'
<1>1. /\ TypeInv /\ QueueIsFresh /\ roles \in Nat /\ inFlight \subseteq Operation
      /\ role' = new /\ roles' = roles + 1 /\ running' /\ ~busy'
      /\ consumer'.at = "polling" /\ reentered' = reentered
  BY DEF Inv, TypeInv, ChangeRole, Polling
<1>2. \A op \in inFlight' : op.role <= roles /\ op.role \in Nat
  BY <1>1, WorkFields DEF QueueIsFresh
<1>3. QueueIsFresh'
  BY <1>1, <1>2, NewQueue DEF QueueIsFresh
<1>4. IdleMeansEmpty'
  BY <1>1, NewQueue DEF IdleMeansEmpty
<1>5. OneAtATime'
  <2>1. reentered' <=> reentered
    <3>1. UNCHANGED reentered
      OBVIOUS
    <3> QED
      BY ONLY <3>1
  <2>2. ~reentered' => inFlight' = {}
    BY <2>1
  <2> QED
    BY <2>2 DEF OneAtATime
<1>6. OfRole'
  BY <1>1, <1>2, NewQueue DEF OfRole
<1> QED
  BY <1>3, <1>4, <1>5, <1>6 DEF SchedulerInv

(* An operation is over, in the same role.                                 *)
LEMMA CompletedInv ==
  ASSUME Inv, NEW op \in inFlight, ~running, running' = Current(op),
         inFlight' = inFlight \ {op}, consumer' \in {consumer, Resumed(consumer)},
         Current(op) \/ consumer' = consumer,
         UNCHANGED <<role, roles, queue, busy, reentered>>
  PROVE  SchedulerInv'
<1>1. /\ QueueIsFresh /\ IdleMeansEmpty /\ OneAtATime /\ OfRole
      /\ queue = << >> <=> Len(queue) = 0
  BY QueueTypes DEF Inv
<1>2. /\ role' = role /\ roles' = roles /\ queue' = queue
      /\ (busy' <=> busy) /\ (reentered' <=> reentered)
      /\ running' => role # "none"
      /\ consumer'.at = "stopped" <=> consumer.at = "stopped"
  <2>1. UNCHANGED <<role, roles, queue, busy, reentered>>
    OBVIOUS
  <2>2. role' = role /\ roles' = roles /\ queue' = queue
      /\ (busy' <=> busy) /\ (reentered' <=> reentered)
    BY ONLY <2>1
  <2>3. Resumed(consumer).at = "polling"
    BY DEF Resumed, Polling
  <2>4. Current(op) => role # "none"
    BY DEF Current
  <2> QED
    BY <1>1, <2>2, <2>3, <2>4 DEF IdleMeansEmpty
<1>3. QueueIsFresh'
  BY <1>1, <1>2 DEF QueueIsFresh
<1>4. IdleMeansEmpty'
  <2>1. ~busy => queue = << >> /\ Len(queue') <= 1
    BY <1>1, <1>2 DEF IdleMeansEmpty
  <2> QED
    BY <1>1, <1>2, <2>1 DEF IdleMeansEmpty
<1>5. OneAtATime'
  BY <1>1, <1>2 DEF OneAtATime
<1>6. OfRole'
  BY <1>1, <1>2 DEF OfRole
<1> QED
  BY <1>3, <1>4, <1>5, <1>6 DEF SchedulerInv

(* The server is closed, at rest.                                          *)
LEMMA ClosedInv ==
  ASSUME Inv, Close
  PROVE  SchedulerInv'
<1>1. /\ QueueIsFresh /\ OneAtATime /\ OfRole
      /\ role' = "none" /\ queue' = << >> /\ ~busy' /\ consumer'.at = "stopped"
      /\ ~running' /\ roles' = roles /\ inFlight' = inFlight
      /\ reentered' <=> reentered
  <2>1. UNCHANGED <<roles, running, inFlight, reentered>>
    BY DEF Close
  <2>2. (running' <=> running) /\ (reentered' <=> reentered)
    BY ONLY <2>1
  <2> QED
    BY <2>1, <2>2 DEF Inv, Close, AtRest, Stopped
<1>2. QueueIsFresh' /\ OfRole'
  BY <1>1 DEF QueueIsFresh, OfRole
<1>3. IdleMeansEmpty'
  BY <1>1 DEF IdleMeansEmpty
<1>4. OneAtATime'
  BY <1>1 DEF OneAtATime
<1> QED
  BY <1>2, <1>3, <1>4 DEF SchedulerInv

(* Nothing happens to the scheduler, or it finds its queue empty.          *)
LEMMA QuietInv ==
  ASSUME Inv, UNCHANGED <<role, roles, queue, inFlight, reentered>>,
         \/ UNCHANGED <<running, busy>>
         \/ running /\ queue = << >> /\ ~running' /\ ~busy',
         consumer'.at = "stopped" <=> consumer.at = "stopped"
  PROVE  SchedulerInv'
<1>1. QueueIsFresh /\ IdleMeansEmpty /\ OneAtATime /\ OfRole
  BY DEF Inv
<1>2. /\ role' = role /\ roles' = roles /\ queue' = queue /\ inFlight' = inFlight
      /\ reentered' <=> reentered
      /\ \/ (running' <=> running) /\ (busy' <=> busy)
         \/ running /\ queue = << >> /\ ~running' /\ ~busy'
  <2>1. /\ UNCHANGED <<role, roles, queue, inFlight, reentered>>
        /\ \/ UNCHANGED <<running, busy>>
           \/ running /\ queue = << >> /\ ~running' /\ ~busy'
    BY Zenon
  <2> QED
    BY ONLY <2>1
<1>3. QueueIsFresh' /\ OfRole'
  BY <1>1, <1>2 DEF QueueIsFresh, OfRole
<1>4. IdleMeansEmpty'
  BY <1>1, <1>2 DEF IdleMeansEmpty
<1>5. OneAtATime'
  BY <1>1, <1>2 DEF OneAtATime
<1> QED
  BY <1>3, <1>4, <1>5 DEF SchedulerInv

(* What each action of the environment and the consumer does.              *)
LEMMA Arrives ==
  ASSUME NEW p \in Source, Arrive(p)
  PROVE  /\ AtRest /\ role # "none"
         /\ arrived' = [arrived EXCEPT ![p] = @ + 1]
         /\ buffer' = [buffer EXCEPT ![p] = Append(@, arrived'[p])]
         /\ consumer' = IF consumer.at = "awaiting" THEN Polling(0) ELSE consumer
         /\ UNCHANGED <<role, roles, handled, passed, appends>>
         /\ UNCHANGED <<queue, running, busy, inFlight, failed, crashed, reentered>>
<1>1. /\ AtRest /\ role # "none"
      /\ arrived' = [arrived EXCEPT ![p] = @ + 1]
      /\ buffer' = [buffer EXCEPT ![p] = Append(@, arrived'[p])]
      /\ consumer' = IF consumer.at = "awaiting" THEN Polling(0) ELSE consumer
      /\ UNCHANGED <<role, roles, handled, schedulerVars, crashVars, appends,
                     passed, reentered>>
  BY Zenon DEF Arrive
<1> QED
  BY <1>1 DEF schedulerVars, crashVars

LEMMA TimerOffers ==
  ASSUME Inv, Timer
  PROVE  Offers(Item("timer", 0))
<1>1. /\ TypeInv /\ ~running /\ role # "none" /\ consumer.at # "stopped"
      /\ \A i \in DOMAIN queue : queue[i].kind # "timer"
      /\ role = "Candidate" => Item("timer", 0) \notin inFlight
      /\ Asap(Item("timer", 0)) /\ UNCHANGED <<role, roles, reentered, consumer>>
  BY DEF Inv, Timer, AtRest, IdleMeansEmpty
<1>2. /\ Item("timer", 0) \in Operation
      /\ Item("timer", 0).kind = "timer" /\ Item("timer", 0).role = roles
  BY <1>1, ItemTypes DEF Item
<1>3. Item("timer", 0) \notin inFlight
  BY <1>1, <1>2 DEF Inv, OfRole
<1>4. \A i \in DOMAIN queue : queue[i] # Item("timer", 0)
  BY <1>1, <1>2
<1> QED
  BY <1>1, <1>2, <1>3, <1>4 DEF Offers

LEMMA CallOffers ==
  ASSUME Inv, NEW a \in 1 .. MaxAppends, CallAppend(a)
  PROVE  Offers(Item("append", a))
<1>1. /\ TypeInv /\ ~running /\ role = "Leader" /\ consumer.at # "stopped"
      /\ appends[a] = "none"
      /\ Asap(Item("append", a)) /\ UNCHANGED <<role, roles, reentered, consumer>>
  BY DEF Inv, CallAppend, AtRest, IdleMeansEmpty
<1>2. /\ Item("append", a) \in Operation /\ Item("append", a).of = a
      /\ Item("append", a).kind = "append" /\ Item("append", a).role = roles
  BY <1>1, ItemTypes DEF Item
<1>3. /\ Item("append", a) \notin inFlight
      /\ \A i \in DOMAIN queue : queue[i] # Item("append", a)
  BY <1>1, <1>2 DEF Inv, AppendsKnown
<1> QED
  BY <1>1, <1>2, <1>3 DEF Offers

(* No message is offered while the consumer looks for one.                 *)
LEMMA MessageIsFresh ==
  ASSUME Inv, consumer.at \in {"polling", "nonPeer", "awaiting"}, NEW p \in Source
  PROVE  /\ QueuedMessages = {} /\ Handling = {} /\ role # "none"
         /\ Item("message", p) \in Operation
         /\ Item("message", p).kind = "message" /\ Item("message", p).of = p
         /\ Item("message", p).role = roles
         /\ Item("message", p) \notin inFlight
         /\ \A i \in DOMAIN queue : queue[i] # Item("message", p)
<1>1. QueuedMessages = {} /\ Handling = {} /\ role # "none"
  BY DEF Inv, OneMessage, IdleMeansEmpty
<1>2. /\ Item("message", p) \in Operation /\ Item("message", p).of = p
      /\ Item("message", p).kind = "message" /\ Item("message", p).role = roles
  BY ItemTypes DEF Inv, Item
<1> QED
  BY <1>1, <1>2 DEF QueuedMessages, Handling

(* The consumer offers the message of the peer it looks at.                *)
PollOffers ==
  /\ buffer[consumer.index] # << >>
  /\ Offers(Item("message", consumer.index))
  /\ running' = ~busy /\ UNCHANGED <<busy, inFlight>>
  /\ consumer'.index = NextPeer(consumer.index) /\ consumer'.repeat
  /\ consumer'.at = IF busy THEN "waiting" ELSE "direct"

PollSkips ==
  /\ buffer[consumer.index] = << >>
  /\ consumer' = Advanced([consumer EXCEPT !.index = NextPeer(consumer.index)])
  /\ UNCHANGED <<queue, running, busy, inFlight>>

LEMMA Polls ==
  ASSUME Inv, Poll
  PROVE  /\ consumer.at = "polling" /\ consumer.index \in Peer /\ ~running
         /\ PollOffers \/ PollSkips
         /\ UNCHANGED <<role, roles, arrived, buffer, handled, passed, appends, reentered>>
<1>1. /\ consumer.at = "polling" /\ consumer.index \in Peer /\ ~running
      /\ UNCHANGED <<role, roles, arrived, buffer, handled, passed, appends, reentered>>
      /\ TypeOK /\ consumer \in ConsumerType
  BY TypeParts DEF Inv, TypeInv, TypeOK, ConsumerType, Poll, inputVars
<1>2. ASSUME buffer[consumer.index] = << >>,
             consumer' = Advanced([consumer EXCEPT !.index = NextPeer(consumer.index)]),
             UNCHANGED schedulerVars
      PROVE  PollSkips
  BY <1>2 DEF PollSkips, schedulerVars
<1>3. ASSUME buffer[consumer.index] # << >>, Asap(Item("message", consumer.index)),
             consumer' = [[consumer EXCEPT !.index = NextPeer(consumer.index)]
                            EXCEPT !.repeat = TRUE,
                                   !.at = IF running' THEN "direct" ELSE "waiting"]
      PROVE  PollOffers
  <2>1. /\ consumer'.index = NextPeer(consumer.index) /\ consumer'.repeat = TRUE
        /\ consumer'.at = IF running' THEN "direct" ELSE "waiting"
    BY <1>1, <1>3 DEF ConsumerType
  <2>2. /\ running' = (running \/ ~busy) /\ busy' = busy /\ inFlight' = inFlight
        /\ busy \in BOOLEAN
    BY <1>1, <1>3 DEF Asap, TypeOK
  <2>3. Offers(Item("message", consumer.index))
    BY <1>1, <1>3, <2>1, MessageIsFresh, Peers DEF Offers
  <2> QED
    BY <1>1, <1>3, <2>1, <2>2, <2>3 DEF PollOffers
<1> QED
  BY <1>1, <1>2, <1>3, Zenon DEF Poll

(* The consumer offers a message from outside the cluster.                 *)
NonPeerOffers ==
  /\ buffer[NonPeer] # << >>
  /\ Offers(Item("message", NonPeer))
  /\ UNCHANGED <<busy, inFlight>>
  /\ consumer'.at = "waiting" /\ consumer'.index = 0

NonPeerSkips ==
  /\ consumer' \in {Awaiting, Polling(0)}
  /\ UNCHANGED <<queue, running, busy, inFlight>>

LEMMA NonPeerPolls ==
  ASSUME Inv, PollNonPeer
  PROVE  /\ consumer.at = "nonPeer" /\ ~running
         /\ NonPeerOffers \/ NonPeerSkips
         /\ UNCHANGED <<role, roles, arrived, buffer, handled, passed, appends, reentered>>
<1>1. /\ consumer.at = "nonPeer" /\ ~running
      /\ UNCHANGED <<role, roles, arrived, buffer, handled, passed, appends, reentered>>
  BY DEF PollNonPeer, inputVars
<1>2. ASSUME buffer[NonPeer] # << >>, Asap(Item("message", NonPeer)),
             consumer' = [Awaiting EXCEPT !.at = "waiting"]
      PROVE  NonPeerOffers
  BY <1>1, <1>2, MessageIsFresh, Peers
     DEF NonPeerOffers, Offers, Asap, Awaiting, Stopped
<1>3. ASSUME consumer' = IF \A p \in Source : buffer[p] = << >> THEN Awaiting
                                                                ELSE Polling(0),
             UNCHANGED schedulerVars
      PROVE  NonPeerSkips
  BY <1>3 DEF NonPeerSkips, schedulerVars
<1> QED
  BY <1>1, <1>2, <1>3, Zenon DEF PollNonPeer

(* An operation of the role in office is over, and that was all.           *)
Completes(op) ==
  /\ AtRest /\ op \in inFlight
  /\ inFlight' = inFlight \ {op}
  /\ running' = Current(op)
  /\ consumer' = IF op.kind = "message" /\ Current(op)
                 THEN Resumed(consumer) ELSE consumer
  /\ appends' = IF op.kind = "append"
                THEN [appends EXCEPT ![op.of] =
                        IF Current(op) THEN "pending" ELSE "settled"]
                ELSE appends
  /\ UNCHANGED <<role, roles, queue, busy, passed, buffer, reentered>>

(* A message turned out to have a newer term, or to be the vote that makes *)
(* a leader.                                                               *)
LeavesRole(op) ==
  /\ op \in inFlight /\ inFlight' = inFlight \ {op} /\ op.kind = "message"
  /\ \E new \in {"Follower", "Leader"} : ChangeRole(new)
  /\ UNCHANGED <<buffer, reentered>>

LEMMA CompleteCases ==
  ASSUME Complete
  PROVE  /\ \E op \in inFlight : Completes(op) \/ LeavesRole(op)
         /\ UNCHANGED <<arrived, buffer, handled, reentered>>
BY DEF Complete, Completes, LeavesRole, inputVars

LEMMA LeavesRoleInv ==
  ASSUME Inv, NEW op \in inFlight, LeavesRole(op)
  PROVE  ~reentered => inFlight' = {}
BY DEF Inv, OneAtATime, LeavesRole

LEMMA SchedulerNext ==
  ASSUME Inv, Next
  PROVE  SchedulerInv'
<1>1. ASSUME NEW p \in Source, Arrive(p) PROVE SchedulerInv'
  <2>1. /\ UNCHANGED <<role, roles, queue, inFlight, reentered>>
        /\ UNCHANGED <<running, busy>>
        /\ consumer' \in {consumer, Polling(0)}
        /\ consumer.at = "awaiting" \/ consumer' = consumer
    BY <1>1, Arrives
  <2>2. consumer'.at = "stopped" <=> consumer.at = "stopped"
    BY <2>1 DEF Polling
  <2> QED
    BY <2>1, <2>2, QuietInv
<1>2. CASE Timer
  BY <1>2, TimerOffers, OfferedInv
<1>3. ASSUME NEW a \in 1 .. MaxAppends, CallAppend(a) PROVE SchedulerInv'
  BY <1>3, CallOffers, OfferedInv
<1>4. CASE Complete
  <2>1. PICK op \in inFlight : Completes(op) \/ LeavesRole(op)
    BY <1>4, CompleteCases
  <2>2. CASE Completes(op)
    <3>1. /\ ~running /\ running' = Current(op) /\ inFlight' = inFlight \ {op}
          /\ consumer' \in {consumer, Resumed(consumer)}
          /\ Current(op) \/ consumer' = consumer
          /\ UNCHANGED <<role, roles, queue, busy, reentered>>
      BY <2>2 DEF Completes, AtRest
    <3> QED
      BY <3>1, CompletedInv
  <2>3. CASE LeavesRole(op)
    <3>1. /\ ~reentered => inFlight' = {}
          /\ \E new \in {"Follower", "Leader"} : ChangeRole(new)
          /\ inFlight' \subseteq inFlight /\ UNCHANGED reentered
      BY <2>3, LeavesRoleInv DEF LeavesRole
    <3> QED
      BY <3>1, ChangedInv
  <2> QED
    BY <2>1, <2>2, <2>3
<1>5. CASE Fail \/ \E a \in 1 .. MaxAppends : Answer(a)
  <2>1. /\ UNCHANGED <<role, roles, queue, inFlight, reentered>>
        /\ UNCHANGED <<running, busy>> /\ UNCHANGED consumer
    BY <1>5 DEF Fail, Answer, schedulerVars
  <2> QED
    BY <2>1, QuietInv
<1>6. CASE Close
  BY <1>6, ClosedInv
<1>7. CASE Poll
  <2>1. CASE PollOffers
    BY <2>1, OfferedInv DEF PollOffers
  <2>2. CASE PollSkips
    <3>1. /\ consumer.at = "polling"
          /\ UNCHANGED <<role, roles, queue, inFlight, reentered>>
          /\ UNCHANGED <<running, busy>>
      BY <1>7, <2>2, Polls DEF PollSkips
    <3>2. consumer'.at # "stopped"
      <4>1. [consumer EXCEPT !.index = NextPeer(consumer.index)] \in ConsumerType
        BY ConsumerTypes, PeersComeRound DEF Inv, TypeInv, TypeOK, ConsumerType
      <4> QED
        BY <2>2, <4>1, ContinuedType DEF PollSkips, Inv, TypeInv
    <3> QED
      BY <3>1, <3>2, QuietInv
  <2> QED
    BY <1>7, <2>1, <2>2, Polls
<1>8. CASE PollNonPeer
  <2>1. CASE NonPeerOffers
    BY <2>1, OfferedInv DEF NonPeerOffers
  <2>2. CASE NonPeerSkips
    <3>1. /\ consumer.at = "nonPeer" /\ consumer'.at # "stopped"
          /\ UNCHANGED <<role, roles, queue, inFlight, reentered>>
          /\ UNCHANGED <<running, busy>>
      BY <1>8, <2>2, NonPeerPolls DEF NonPeerSkips, Awaiting, Stopped, Polling
    <3> QED
      BY <3>1, QuietInv
  <2> QED
    BY <1>8, <2>1, <2>2, NonPeerPolls
<1>9. CASE RunNext /\ queue = << >>
  <2>1. /\ running /\ queue = << >> /\ ~running' /\ ~busy'
        /\ UNCHANGED <<role, roles, queue, inFlight, reentered>>
        /\ UNCHANGED consumer
    BY <1>9 DEF RunNext
  <2> QED
    BY <2>1, QuietInv
<1>10. ASSUME RunNext, queue # << >>, NEW item, item = Head(queue)
       PROVE  SchedulerInv'
  <2>1. running
    BY <1>10, RunCases
  <2>2. CASE Begun(item)
    BY <1>10, <2>1, <2>2, BegunInv
  <2>3. CASE Ended(item)
    BY <1>10, <2>1, <2>3, EndedInv
  <2>4. CASE Committed(item)
    BY <1>10, <2>1, <2>4, CommittedInv
  <2>5. CASE Changed(item)
    <3>1. PICK new \in {"Follower", "Candidate", "Leader"} : ChangeRole(new)
      BY <2>5 DEF Changed
    <3>2. /\ inFlight' = inFlight /\ UNCHANGED reentered
          /\ ~reentered => inFlight' = {}
      BY <2>1, <2>5 DEF Changed, Inv, OneAtATime
    <3> QED
      BY <3>1, <3>2, ChangedInv
  <2> QED
    BY <1>10, <2>2, <2>3, <2>4, <2>5, RunCases, Zenon
<1> QED
  BY <1>1, <1>2, <1>3, <1>4, <1>5, <1>6, <1>7, <1>8, <1>9, <1>10, Zenon
     DEF Next, Program

-----------------------------------------------------------------------------
(* The messages that wait *)

LEMMA InputCases ==
  ASSUME Inv, Next
  PROVE  \/ \E p \in Source : Arrive(p)
         \/ /\ running /\ queue # << >>
            /\ \E item : item = Head(queue) /\ item.kind = "message" /\ Take(item.of)
         \/ UNCHANGED inputVars
<1>1. ASSUME Timer \/ Complete \/ Fail \/ Close \/ Poll \/ PollNonPeer
             \/ (\E a \in 1 .. MaxAppends : CallAppend(a) \/ Answer(a))
             \/ (RunNext /\ queue = << >>)
      PROVE  UNCHANGED inputVars
  <2>1. CASE Timer \/ Complete \/ Fail \/ Close
    BY <2>1 DEF Timer, Complete, Fail, Close
  <2>2. CASE \/ Poll \/ PollNonPeer
             \/ (\E a \in 1 .. MaxAppends : CallAppend(a) \/ Answer(a))
    BY <2>2 DEF Poll, PollNonPeer, CallAppend, Answer
  <2>3. CASE RunNext /\ queue = << >>
    BY <2>3 DEF RunNext
  <2> QED
    BY <1>1, <2>1, <2>2, <2>3
<1>2. ASSUME RunNext, queue # << >>, NEW item, item = Head(queue)
      PROVE  running /\ Taken(item)
  BY <1>2, RunCases, Zenon DEF Begun, Ended, Committed, Changed
<1>3. CASE RunNext /\ queue # << >>
  <2>1. running /\ Taken(Head(queue))
    BY <1>2, <1>3
  <2> QED
    BY <1>3, <2>1 DEF Taken
<1>4. \/ \E p \in Source : Arrive(p)
      \/ Timer \/ Complete \/ Fail \/ Close \/ Poll \/ PollNonPeer
           \/ (\E a \in 1 .. MaxAppends : CallAppend(a) \/ Answer(a))
           \/ (RunNext /\ queue = << >>)
      \/ RunNext /\ queue # << >>
  BY Zenon DEF Next, Program
<1> QED
  BY <1>1, <1>3, <1>4

LEMMA BufferedNext ==
  ASSUME Inv, Next
  PROVE  Buffered'
<1>1. /\ Buffered /\ TypeInv
      /\ arrived \in [Source -> Nat] /\ handled \in [Source -> Nat]
      /\ buffer \in [Source -> Seq(Nat)]
      /\ \A q \in Source : Len(buffer[q]) \in Nat
  BY DEF Inv, TypeInv, TypeOK
<1>2. ASSUME NEW p \in Source, Arrive(p) PROVE Buffered'
  <2>1. /\ arrived' = [arrived EXCEPT ![p] = @ + 1]
        /\ buffer' = [buffer EXCEPT ![p] = Append(@, arrived'[p])]
        /\ handled' = handled
    BY <1>2, Arrives
  <2>2. arrived'[p] = arrived[p] + 1 /\ arrived'[p] \in Nat
    BY <1>1, <2>1
  <2>3. /\ Len(buffer'[p]) = Len(buffer[p]) + 1
        /\ \A i \in 1 .. Len(buffer[p]) : buffer'[p][i] = buffer[p][i]
        /\ buffer'[p][Len(buffer[p]) + 1] = arrived[p] + 1
    BY <1>1, <2>1, <2>2, AppendedQueue
  <2>4. /\ Len(buffer'[p]) = arrived'[p] - handled'[p]
        /\ \A i \in 1 .. Len(buffer'[p]) : buffer'[p][i] = handled'[p] + i
    <3>1. /\ Len(buffer[p]) = arrived[p] - handled[p]
          /\ \A i \in 1 .. Len(buffer[p]) : buffer[p][i] = handled[p] + i
          /\ arrived[p] \in Nat /\ handled[p] \in Nat /\ handled'[p] = handled[p]
          /\ Len(buffer[p]) \in Nat
      BY <1>1, <2>1 DEF Buffered
    <3>2. Len(buffer'[p]) = arrived'[p] - handled'[p]
      BY <2>2, <2>3, <3>1
    <3>3. \A i \in 1 .. Len(buffer[p]) + 1 : i \in 1 .. Len(buffer[p])
                                               \/ i = Len(buffer[p]) + 1
      BY <3>1
    <3>4. handled[p] + (Len(buffer[p]) + 1) = arrived[p] + 1
      BY <3>1
    <3> QED
      BY <2>3, <3>1, <3>2, <3>3, <3>4
  <2>5. ASSUME NEW q \in Source
        PROVE  /\ Len(buffer'[q]) = arrived'[q] - handled'[q]
               /\ \A i \in 1 .. Len(buffer'[q]) : buffer'[q][i] = handled'[q] + i
    <3>1. CASE q = p
      BY <2>4, <3>1
    <3>2. CASE q # p
      <4>1. /\ buffer'[q] = buffer[q]
            /\ arrived'[q] = arrived[q]
            /\ handled'[q] = handled[q]
        BY <1>1, <2>1, <3>2
      <4> QED
        BY <1>1, <4>1 DEF Buffered
    <3> QED
      BY <3>1, <3>2
  <2> QED
    BY <2>5 DEF Buffered
<1>3. ASSUME queue # << >>, NEW item, item = Head(queue), item.kind = "message",
             Take(item.of)
      PROVE  Buffered'
  <2> DEFINE p == item.of
  <2>1. p \in Source /\ buffer[p] # << >>
    BY <1>3, FirstItem
  <2>2. /\ handled' = [handled EXCEPT ![p] = Head(buffer[p])]
        /\ buffer' = [buffer EXCEPT ![p] = Tail(@)]
        /\ arrived' = arrived
    BY <1>3 DEF Take
  <2> HIDE DEF p
  <2>3. /\ Len(buffer[p]) \in Nat \ {0} /\ Head(buffer[p]) = buffer[p][1]
        /\ Len(Tail(buffer[p])) = Len(buffer[p]) - 1
        /\ \A i \in 1 .. Len(buffer[p]) - 1 : Tail(buffer[p])[i] = buffer[p][i + 1]
    BY <1>1, <2>1, TailOfQueue
  <2>4. /\ buffer'[p] = Tail(buffer[p]) /\ handled'[p] = handled[p] + 1
    BY <1>1, <2>1, <2>2, <2>3 DEF Buffered
  <2>5. /\ Len(buffer'[p]) = arrived'[p] - handled'[p]
        /\ \A i \in 1 .. Len(buffer'[p]) : buffer'[p][i] = handled'[p] + i
    <3>1. /\ Len(buffer[p]) = arrived[p] - handled[p]
          /\ \A i \in 1 .. Len(buffer[p]) : buffer[p][i] = handled[p] + i
          /\ arrived[p] \in Nat /\ handled[p] \in Nat /\ arrived'[p] = arrived[p]
      BY <1>1, <2>1, <2>2 DEF Buffered
    <3>2. Len(buffer'[p]) = arrived'[p] - handled'[p]
      BY <2>3, <2>4, <3>1
    <3>3. ASSUME NEW i \in 1 .. Len(buffer'[p])
          PROVE  buffer'[p][i] = handled'[p] + i
      <4>1. i \in 1 .. Len(buffer[p]) - 1 /\ i + 1 \in 1 .. Len(buffer[p])
        BY <2>3, <2>4, <3>3
      <4>2. buffer'[p][i] = handled[p] + (i + 1)
        <5>1. buffer'[p][i] = buffer[p][i + 1]
          BY <2>3, <2>4, <4>1, Zenon
        <5>2. buffer[p][i + 1] = handled[p] + (i + 1)
          BY <3>1, <4>1, Zenon
        <5> QED
          BY <5>1, <5>2
      <4>3. handled'[p] = handled[p] + 1 /\ handled[p] \in Nat /\ i \in Int
        BY <2>4, <3>1, <4>1
      <4> QED
        BY ONLY <4>2, <4>3
    <3> QED
      BY <3>2, <3>3
  <2>6. \A q \in Source : q # p => /\ buffer'[q] = buffer[q]
                                   /\ arrived'[q] = arrived[q]
                                   /\ handled'[q] = handled[q]
    BY <1>1, <2>2
  <2> QED
    BY <1>1, <2>5, <2>6 DEF Buffered
<1>4. CASE UNCHANGED inputVars
  BY <1>1, <1>4 DEF Buffered, inputVars
<1> QED
  BY <1>2, <1>3, <1>4, InputCases

-----------------------------------------------------------------------------
(* The calls of append() *)

(* What suffices for the calls to stay known.                              *)
LEMMA AppendsStayKnown ==
  ASSUME Inv,
         \A a \in 1 .. MaxAppends : appends'[a] = "none" => appends[a] = "none",
         \A i \in DOMAIN queue' : queue'[i].kind = "append" =>
              \/ \E j \in DOMAIN queue : queue'[i] = queue[j]
              \/ appends'[queue'[i].of] # "none",
         \A op \in inFlight' : op.kind = "append" =>
              \/ op \in inFlight \/ \E j \in DOMAIN queue : op = queue[j]
              \/ appends'[op.of] # "none",
         \A a \in 1 .. MaxAppends :
              appends'[a] \in {"queued", "pending"} => role' = "Leader",
         \A a \in 1 .. MaxAppends :
              appends'[a] = "persisting" =>
                \E op \in inFlight' : op.kind = "append" /\ op.of = a
  PROVE  AppendsKnown'
<1>1. AppendsKnown
  BY DEF Inv
<1>2. ASSUME NEW a \in 1 .. MaxAppends, appends'[a] = "none"
      PROVE  /\ \A i \in DOMAIN queue' :
                  ~(queue'[i].kind = "append" /\ queue'[i].of = a)
             /\ \A op \in inFlight' : ~(op.kind = "append" /\ op.of = a)
  BY <1>1, <1>2 DEF AppendsKnown
<1> QED
  BY <1>2 DEF AppendsKnown

LEMMA AppendsOffered ==
  ASSUME Inv, NEW item, Offers(item), UNCHANGED inFlight,
         item.kind = "append" => appends' = [appends EXCEPT ![item.of] = "queued"],
         item.kind # "append" => UNCHANGED appends
  PROVE  AppendsKnown'
<1>1. /\ TypeInv /\ AppendsKnown /\ item \in Operation
      /\ queue' = Append(queue, item) /\ role' = role
      /\ item.kind = "append" => role = "Leader" /\ item.of \in 1 .. MaxAppends
      /\ appends \in [1 .. MaxAppends -> AppendState]
  BY WorkFields, TypeParts DEF Inv, Offers, Asap, RoleTypes
<1>2. \A i \in DOMAIN queue' : queue'[i] = item \/ \E j \in DOMAIN queue : queue'[i] = queue[j]
  BY <1>1, OfferedItems
<1>3. \A a \in 1 .. MaxAppends :
        \/ appends'[a] = appends[a]
        \/ appends'[a] = "queued" /\ item.kind = "append"
  <2>1. CASE item.kind = "append"
    BY <1>1, <2>1
  <2>2. CASE item.kind # "append"
    BY <2>2
  <2> QED
    BY <2>1, <2>2
<1>4. item.kind = "append" => appends'[item.of] = "queued"
  BY <1>1
<1> QED
  BY <1>1, <1>2, <1>3, <1>4, AppendsStayKnown DEF AppendsKnown

(* What an item that runs does to them.                                    *)
LEMMA AppendsRun ==
  ASSUME Inv, queue # << >>, NEW item, item = Head(queue),
         Begun(item) \/ Ended(item) \/ Committed(item)
  PROVE  AppendsKnown'
<1>1. /\ TypeInv /\ TypeOK /\ AppendsKnown /\ appends \in [1 .. MaxAppends -> AppendState]
      /\ item \in Operation /\ item = queue[1] /\ 1 \in DOMAIN queue
      /\ item.kind = "append" => item.of \in 1 .. MaxAppends
  BY FirstItem, WorkFields, TypeParts DEF Inv, TypeInv, RoleTypes
<1>2. \A i \in DOMAIN Tail(queue) : \E j \in DOMAIN queue : Tail(queue)[i] = queue[j]
  BY FirstItem
<1>3. \A entries \in SUBSET Pending :
        /\ Committing(entries) \in [1 .. MaxAppends -> AppendState]
        /\ \A a \in 1 .. MaxAppends : Committing(entries)[a] \in {appends[a], "committed"}
  BY <1>1, CommittingType
<1>4. CASE Begun(item)
  <2>1. /\ inFlight' = inFlight \union {item} /\ queue' = Tail(queue)
        /\ role' = role
        /\ item.kind = "append" => appends' = [appends EXCEPT ![item.of] = "persisting"]
        /\ item.kind # "append" => appends' = appends
    BY <1>4 DEF Begun, Begins
  <2>2. \A a \in 1 .. MaxAppends :
          \/ appends'[a] = appends[a]
          \/ /\ appends'[a] = "persisting"
             /\ item.kind = "append" /\ item.of = a
    BY <1>1, <2>1
  <2>3. \A a \in 1 .. MaxAppends : appends'[a] = "none" => appends[a] = "none"
    BY <2>2
  <2>4. \A a \in 1 .. MaxAppends :
              appends'[a] \in {"queued", "pending"} => role' = "Leader"
    BY <1>1, <2>1, <2>2 DEF AppendsKnown
  <2>5. \A a \in 1 .. MaxAppends :
              appends'[a] = "persisting" =>
                \E op \in inFlight' : op.kind = "append" /\ op.of = a
    BY <1>1, <2>1, <2>2 DEF AppendsKnown
  <2>6. \A op \in inFlight' : op \in inFlight \/ \E j \in DOMAIN queue : op = queue[j]
    BY <1>1, <2>1
  <2> QED
    BY <1>2, <2>1, <2>3, <2>4, <2>5, <2>6, AppendsStayKnown
<1>5. CASE Ended(item)
  <2>1. /\ inFlight' = inFlight /\ queue' = Tail(queue) /\ role' = role
        /\ appends' \in {appends} \union {Committing(entries) : entries \in SUBSET Pending}
    BY <1>5 DEF Ended
  <2>2. \A a \in 1 .. MaxAppends :
          appends'[a] = appends[a] \/ appends'[a] = "committed"
    BY <1>3, <2>1
  <2> QED
    BY <1>1, <1>2, <2>1, <2>2, AppendsStayKnown DEF AppendsKnown
<1>6. CASE Committed(item)
  <2>1. PICK b \in 1 .. MaxAppends, entries \in SUBSET Pending :
          /\ \/ /\ appends' = [Committing(entries) EXCEPT ![b] = "persisting"]
                /\ inFlight' = inFlight \union {Item("append", b)}
                /\ queue' = Tail(queue)
             \/ /\ appends' = [Committing(entries) EXCEPT ![b] = "queued"]
                /\ queue' = Append(Tail(queue), Item("append", b))
                /\ inFlight' = inFlight
    BY <1>6 DEF Committed, CommitsAndAppends
  <2>2. role' = "Leader"
    BY <1>6 DEF Committed, CommitsAndAppends
  <2>3. /\ Item("append", b) \in Operation
        /\ Item("append", b).kind = "append" /\ Item("append", b).of = b
    BY <1>1, ItemTypes DEF Item
  <2>4. /\ appends'[b] # "none"
        /\ \A a \in 1 .. MaxAppends \ {b} :
             appends'[a] = appends[a] \/ appends'[a] = "committed"
    <3>1. /\ Committing(entries) \in [1 .. MaxAppends -> AppendState]
          /\ \A a \in 1 .. MaxAppends :
               Committing(entries)[a] \in {appends[a], "committed"}
      BY <1>3
    <3> QED
      BY <2>1, <3>1
  <2>5. \A i \in DOMAIN queue' : \/ \E j \in DOMAIN queue : queue'[i] = queue[j]
                                 \/ queue'[i] = Item("append", b)
    <3>1. CASE queue' = Tail(queue)
      BY <1>2, <3>1
    <3>2. CASE queue' = Append(Tail(queue), Item("append", b))
      <4>1. Tail(queue) \in Seq(Operation)
        BY FirstItem
      <4>2. /\ Len(Tail(queue)) \in Nat /\ queue' \in Seq(Operation)
            /\ Len(queue') = Len(Tail(queue)) + 1
            /\ \A i \in 1 .. Len(Tail(queue)) : queue'[i] = Tail(queue)[i]
            /\ queue'[Len(Tail(queue)) + 1] = Item("append", b)
        BY <2>3, <3>2, <4>1, AppendedQueue
      <4>3. /\ DOMAIN queue' = 1 .. Len(Tail(queue)) + 1
            /\ DOMAIN Tail(queue) = 1 .. Len(Tail(queue))
        BY <4>1, <4>2
      <4>4. \A i \in DOMAIN queue' : \/ i \in DOMAIN Tail(queue)
                                     \/ i = Len(Tail(queue)) + 1
        BY <4>2, <4>3
      <4> QED
        BY <1>2, <4>2, <4>3, <4>4
    <3> QED
      BY <2>1, <3>1, <3>2
  <2>6. \A a \in 1 .. MaxAppends : appends'[a] = "none" => appends[a] = "none"
    BY <2>4
  <2>7. \A a \in 1 .. MaxAppends :
              appends'[a] = "persisting" =>
                \E op \in inFlight' : op.kind = "append" /\ op.of = a
    <3>1. ASSUME NEW a \in 1 .. MaxAppends \ {b}, appends'[a] = "persisting"
          PROVE  \E op \in inFlight' : op.kind = "append" /\ op.of = a
      BY <1>1, <2>1, <2>4, <3>1 DEF AppendsKnown
    <3>2. appends'[b] = "persisting" => Item("append", b) \in inFlight'
      <4>1. Committing(entries) \in [1 .. MaxAppends -> AppendState]
        BY <1>3
      <4> QED
        BY <2>1, <4>1
    <3> QED
      BY <2>3, <3>1, <3>2
  <2>8. \A op \in inFlight' : op \in inFlight \/ op = Item("append", b)
    BY <2>1
  <2> QED
    BY <2>2, <2>3, <2>4, <2>5, <2>6, <2>7, <2>8, AppendsStayKnown
<1> QED
  BY <1>4, <1>5, <1>6

(* What the end of a role does to them.                                    *)
LEMMA AppendsLeft ==
  ASSUME Inv, appends' = Settled({"queued", "pending"}),
         \A i \in DOMAIN queue' : queue'[i].kind # "append",
         inFlight' \subseteq inFlight,
         \A op \in inFlight \ inFlight' : op.kind # "append"
  PROVE  AppendsKnown'
<1>1. AppendsKnown /\ TypeOK
  BY DEF Inv, TypeInv
<1>2. \A a \in 1 .. MaxAppends :
        appends'[a] = IF appends[a] \in {"queued", "pending"} THEN "settled"
                                                              ELSE appends[a]
  BY <1>1, SettledType
<1> QED
  BY <1>1, <1>2, AppendsStayKnown DEF AppendsKnown

(* What the end of an operation does to them.                              *)
LEMMA AppendsCompleted ==
  ASSUME Inv, NEW op \in inFlight, Completes(op)
  PROVE  AppendsKnown'
<1>1. /\ AppendsKnown /\ appends \in [1 .. MaxAppends -> AppendState]
      /\ op.kind = "append" => op.of \in 1 .. MaxAppends
      /\ op.kind = "append" /\ Current(op) => role = "Leader"
      /\ inFlight' = inFlight \ {op} /\ queue' = queue /\ role' = role
  BY WorkFields, TypeParts
     DEF Inv, TypeInv, RoleTypes, Completes, OfRole, Current
<1>2. \A a \in 1 .. MaxAppends :
        \/ appends'[a] = appends[a] /\ ~(op.kind = "append" /\ op.of = a)
        \/ appends'[a] = "pending" /\ role = "Leader" /\ op.kind = "append" /\ op.of = a
        \/ appends'[a] = "settled"
  <2>1. CASE op.kind = "append"
    BY <1>1, <2>1 DEF Completes
  <2>2. CASE op.kind # "append"
    BY <2>2 DEF Completes
  <2> QED
    BY <2>1, <2>2
<1>3. \A a \in 1 .. MaxAppends : appends'[a] = "none" => appends[a] = "none"
  BY <1>2
<1>4. \A a \in 1 .. MaxAppends :
            appends'[a] \in {"queued", "pending"} => role' = "Leader"
  BY <1>1, <1>2 DEF AppendsKnown
<1>5. \A a \in 1 .. MaxAppends :
            appends'[a] = "persisting" =>
              \E x \in inFlight' : x.kind = "append" /\ x.of = a
  BY <1>1, <1>2 DEF AppendsKnown
<1> QED
  BY <1>1, <1>3, <1>4, <1>5, AppendsStayKnown

LEMMA AppendsNext ==
  ASSUME Inv, Next
  PROVE  AppendsKnown'
<1>1. AppendsKnown
  BY DEF Inv
<1>2. ASSUME UNCHANGED <<role, queue, inFlight, appends>> PROVE AppendsKnown'
  BY <1>1, <1>2 DEF AppendsKnown
<1>3. ASSUME NEW p \in Source, Arrive(p) PROVE AppendsKnown'
  BY <1>2, <1>3, Arrives
<1>4. CASE Timer
  <2>1. /\ UNCHANGED <<inFlight, appends>> /\ Offers(Item("timer", 0))
        /\ Item("timer", 0).kind # "append"
    BY <1>4, TimerOffers DEF Timer, Asap, Item
  <2> QED
    BY <2>1, AppendsOffered
<1>5. ASSUME NEW a \in 1 .. MaxAppends, CallAppend(a) PROVE AppendsKnown'
  <2>1. /\ UNCHANGED inFlight /\ Offers(Item("append", a))
        /\ appends' = [appends EXCEPT ![a] = "queued"]
        /\ Item("append", a).kind = "append" /\ Item("append", a).of = a
    BY <1>5, CallOffers DEF CallAppend, Asap, Item
  <2> QED
    BY <2>1, AppendsOffered
<1>6. ASSUME NEW new \in {"Follower", "Candidate", "Leader"}, ChangeRole(new),
             inFlight' \subseteq inFlight,
             \A op \in inFlight \ inFlight' : op.kind # "append"
      PROVE  AppendsKnown'
  <2>1. \A i \in DOMAIN queue' : queue'[i].kind # "append"
    BY <1>6, NewQueue DEF Inv
  <2>2. appends' = Settled({"queued", "pending"})
    BY <1>6 DEF ChangeRole
  <2> QED
    BY <1>6, <2>1, <2>2, AppendsLeft
<1>7. CASE Complete
  <2>1. PICK op \in inFlight : Completes(op) \/ LeavesRole(op)
    BY <1>7, CompleteCases
  <2>2. CASE Completes(op)
    BY <2>2, AppendsCompleted
  <2>3. CASE LeavesRole(op)
    BY <1>6, <2>3 DEF LeavesRole
  <2> QED
    BY <2>1, <2>2, <2>3
<1>8. CASE Fail
  BY <1>2, <1>8 DEF Fail, schedulerVars
<1>9. CASE Close
  <2>1. /\ appends' = Settled({"queued", "pending"})
        /\ \A i \in DOMAIN queue' : queue'[i].kind # "append"
        /\ inFlight' = inFlight
    BY <1>9 DEF Close
  <2> QED
    BY <2>1, AppendsLeft
<1>10. CASE Poll
  <2>1. CASE PollOffers
    <3>1. /\ UNCHANGED <<inFlight, appends>>
          /\ Offers(Item("message", consumer.index))
          /\ Item("message", consumer.index).kind # "append"
      BY <1>10, <2>1, Polls DEF PollOffers, Item
    <3> QED
      BY <3>1, AppendsOffered
  <2>2. CASE PollSkips
    BY <1>2, <1>10, <2>2, Polls DEF PollSkips
  <2> QED
    BY <1>10, <2>1, <2>2, Polls
<1>11. CASE PollNonPeer
  <2>1. CASE NonPeerOffers
    <3>1. /\ UNCHANGED <<inFlight, appends>>
          /\ Offers(Item("message", NonPeer))
          /\ Item("message", NonPeer).kind # "append"
      BY <1>11, <2>1, NonPeerPolls DEF NonPeerOffers, Item
    <3> QED
      BY <3>1, AppendsOffered
  <2>2. CASE NonPeerSkips
    BY <1>2, <1>11, <2>2, NonPeerPolls DEF NonPeerSkips
  <2> QED
    BY <1>11, <2>1, <2>2, NonPeerPolls
<1>12. CASE RunNext /\ queue = << >>
  BY <1>2, <1>12 DEF RunNext
<1>13. ASSUME RunNext, queue # << >>, NEW item, item = Head(queue)
       PROVE  AppendsKnown'
  <2>1. CASE Begun(item) \/ Ended(item) \/ Committed(item)
    BY <1>13, <2>1, AppendsRun
  <2>2. CASE Changed(item)
    BY <1>6, <2>2 DEF Changed
  <2> QED
    BY <1>13, <2>1, <2>2, RunCases, Zenon
<1>14. ASSUME NEW a \in 1 .. MaxAppends, Answer(a) PROVE AppendsKnown'
  <2>1. /\ UNCHANGED <<role, queue, inFlight>>
        /\ \A b \in 1 .. MaxAppends : appends'[b] \in {appends[b], "settled"}
    <3>1. appends \in [1 .. MaxAppends -> AppendState]
      BY TypeParts DEF Inv, RoleTypes
    <3> QED
      BY <1>14, <3>1 DEF Answer, schedulerVars
  <2> QED
    BY <1>1, <2>1 DEF AppendsKnown
<1> QED
  BY <1>3, <1>4, <1>5, <1>7, <1>8, <1>9, <1>10, <1>11, <1>12, <1>13, <1>14, Zenon
     DEF Next, Program

-----------------------------------------------------------------------------
(* The consumer: its messages in the queue, its place in the loops and the  *)
(* turns of the peers                                                       *)

ConsumerInv == OneMessage /\ LookedAt /\ TurnComes

(* The queue holds the same messages as before, wherever they are in it.   *)
SameMessages ==
  /\ \A i \in QueuedMessages' : \E j \in QueuedMessages : queue'[i] = queue[j]
  /\ \A j \in QueuedMessages : \E i \in QueuedMessages' : queue'[i] = queue[j]
  /\ \A i, j \in QueuedMessages' : i = j

LEMMA MessagesOffered ==
  ASSUME Inv, NEW item \in Operation, queue' = Append(queue, item)
  PROVE  /\ item.kind # "message" => SameMessages
         /\ item.kind = "message" /\ QueuedMessages = {} =>
              /\ \A i, j \in QueuedMessages' : i = j
              /\ \A i \in QueuedMessages' : queue'[i] = item
              /\ QueuedMessages' # {}
<1>1. /\ Len(queue) \in Nat /\ DOMAIN queue' = 1 .. Len(queue) + 1
      /\ \A i \in DOMAIN queue' : i \in DOMAIN queue \/ i = Len(queue) + 1
      /\ \A i \in DOMAIN queue :
           i # Len(queue) + 1 /\ i \in DOMAIN queue' /\ queue'[i] = queue[i]
      /\ queue'[Len(queue) + 1] = item
      /\ Len(queue) + 1 \in DOMAIN queue'
  BY OfferedItems DEF Inv
<1>2. ASSUME item.kind # "message" PROVE SameMessages
  <2>1. /\ QueuedMessages' = QueuedMessages
        /\ \A i \in QueuedMessages : queue'[i] = queue[i]
    BY <1>1, <1>2 DEF QueuedMessages
  <2> QED
    BY <2>1 DEF SameMessages, Inv, OneMessage
<1>3. ASSUME item.kind = "message", QueuedMessages = {}
      PROVE  /\ \A i \in QueuedMessages' : i = Len(queue) + 1
             /\ Len(queue) + 1 \in QueuedMessages'
  BY <1>1, <1>3 DEF QueuedMessages
<1> QED
  BY <1>1, <1>2, <1>3

LEMMA MessagesRun ==
  ASSUME Inv, queue # << >>, NEW item, item = Head(queue)
  PROVE  /\ 1 \in DOMAIN queue /\ queue[1] = item
         /\ item.kind # "message" /\ queue' = Tail(queue) => SameMessages
         /\ item.kind = "message" => /\ 1 \in QueuedMessages
                                     /\ Handling = {}
                                     /\ consumer.at \in {"direct", "waiting"}
                                     /\ \A i \in DOMAIN Tail(queue) :
                                          Tail(queue)[i].kind # "message"
<1>1. /\ item = queue[1] /\ 1 \in DOMAIN queue /\ OneMessage
      /\ \A i \in DOMAIN Tail(queue) :
           /\ i \in Nat /\ i + 1 \in DOMAIN queue /\ i + 1 # 1
           /\ Tail(queue)[i] = queue[i + 1]
  BY FirstItem DEF Inv
<1>2. ASSUME item.kind = "message"
      PROVE  /\ 1 \in QueuedMessages
             /\ \A i \in DOMAIN Tail(queue) : Tail(queue)[i].kind # "message"
  BY <1>1, <1>2 DEF QueuedMessages, OneMessage
<1>3. ASSUME item.kind # "message", queue' = Tail(queue) PROVE SameMessages
  <2>1. \A i \in DOMAIN queue : i # 1 =>
          i - 1 \in DOMAIN Tail(queue) /\ (i - 1) + 1 = i
    <3>1. /\ DOMAIN queue = 1 .. Len(queue) /\ Len(queue) \in Nat
          /\ Tail(queue) \in Seq(Operation) /\ Len(Tail(queue)) = Len(queue) - 1
      BY FirstItem, QueueTypes DEF Inv
    <3>2. DOMAIN Tail(queue) = 1 .. Len(queue) - 1
      BY <3>1
    <3> QED
      BY <3>1, <3>2
  <2>2. \A i \in QueuedMessages' : i + 1 \in QueuedMessages /\ queue'[i] = queue[i + 1]
    BY <1>1, <1>3 DEF QueuedMessages
  <2>3. \A j \in QueuedMessages : j - 1 \in QueuedMessages' /\ queue'[j - 1] = queue[j]
    BY <1>1, <1>3, <2>1 DEF QueuedMessages
  <2>4. \A i \in QueuedMessages' : i \in Nat
    BY <1>1, <1>3 DEF QueuedMessages
  <2>5. \A i, j \in QueuedMessages' : i = j
    <3>1. \A i, j \in QueuedMessages' : i + 1 = j + 1
      BY <1>1, <2>2 DEF OneMessage
    <3> QED
      BY <2>4, <3>1
  <2> QED
    BY <2>2, <2>3, <2>5 DEF SameMessages
<1> QED
  BY <1>1, <1>2, <1>3 DEF OneMessage

(* The consumer waits or is at rest, and nothing it waits for is over.     *)
LEMMA ConsumerStays ==
  ASSUME Inv, SameMessages, Handling' \subseteq Handling,
         UNCHANGED <<consumer, passed, role>>, consumer.at # "direct",
         \A q \in Source : buffer[q] # << >> => buffer'[q] # << >>,
         consumer.at \in {"polling", "nonPeer"} => buffer' = buffer,
         QueuedMessages # {} /\ busy => busy'
  PROVE  ConsumerInv'
<1>1. /\ OneMessage /\ LookedAt /\ TurnComes /\ TypeOK
      /\ consumer' = consumer /\ passed' = passed /\ role' = role
  BY DEF Inv, TypeInv
<1>2. /\ QueuedMessages' = {} <=> QueuedMessages = {}
      /\ \A p : (\A i \in QueuedMessages' : queue'[i].of # p)
                  <=> (\A i \in QueuedMessages : queue[i].of # p)
  BY DEF SameMessages
<1>3. OneMessage'
  <2>1. \A i \in QueuedMessages' :
          /\ buffer'[queue'[i].of] # << >>
          /\ queue'[i].of # NonPeer => consumer.index = NextPeer(queue'[i].of)
          /\ queue'[i].of = NonPeer => consumer.at = "waiting" /\ consumer.index = 0
          /\ queue'[i].of # NonPeer /\ consumer.at = "waiting" => busy'
    <3> SUFFICES ASSUME NEW i \in QueuedMessages'
                 PROVE  /\ buffer'[queue'[i].of] # << >>
                        /\ queue'[i].of # NonPeer =>
                             consumer.index = NextPeer(queue'[i].of)
                        /\ queue'[i].of = NonPeer =>
                             consumer.at = "waiting" /\ consumer.index = 0
                        /\ queue'[i].of # NonPeer /\ consumer.at = "waiting" => busy'
      OBVIOUS
    <3>1. PICK j \in QueuedMessages : queue'[i] = queue[j]
      BY DEF SameMessages
    <3>2. queue[j].of \in Source
      BY QueueTypes, WorkFields DEF Inv, QueuedMessages
    <3> QED
      BY <1>1, <3>1, <3>2 DEF OneMessage
  <2> QED
    BY <1>1, <1>2, <2>1 DEF OneMessage, SameMessages
<1>4. LookedAt'
  BY <1>1 DEF LookedAt
<1>5. TurnComes'
  <2>1. \A q \in Peer : buffer[q] # << >> => buffer'[q] # << >>
    BY Peers
  <2> QED
    BY <1>1, <1>2, <2>1 DEF TurnComes
<1> QED
  BY <1>3, <1>4, <1>5 DEF ConsumerInv

(* A message was handled: the peers that wait are nearer to their turn.    *)
LEMMA MessageTurn ==
  ASSUME Inv, queue # << >>, NEW item, item = Head(queue), running,
         item.kind = "message", Taken(item), Counted(item),
         QueuedMessages' = {}, consumer'.index = consumer.index
  PROVE  TurnComes'
<1>1. /\ TurnComes /\ item = queue[1] /\ 1 \in QueuedMessages /\ role # "none"
      /\ \A i \in QueuedMessages : i = 1
      /\ item.of \in Source /\ consumer.index \in Peer
      /\ passed \in [Peer -> Nat] /\ buffer \in [Source -> Seq(Nat)]
  BY MessagesRun, FirstItem, ConsumerTypes, TypeParts
     DEF Inv, TypeInv, OneMessage, IdleMeansEmpty, InputTypes
<1>2. /\ passed' = [q \in Peer |-> IF q = item.of \/ buffer[q] = << >>
                                   THEN 0 ELSE passed[q] + 1]
      /\ \A q \in Source : q # item.of => buffer'[q] = buffer[q]
  BY <1>1 DEF Taken, Counted, Passes, Take
<1>3. ASSUME NEW p \in Peer
      PROVE  /\ passed'[p] > 0 => buffer'[p] # << >>
             /\ passed'[p] <= NPeers
             /\ passed'[p] + 0 + Before(consumer.index, p) <= NPeers
  <2>1. NPeers \in Nat \ {0} /\ Before(consumer.index, p) \in 0 .. NPeers - 1 /\ p \in Source
    BY <1>1, Distances, Peers
  <2>2. CASE p = item.of \/ buffer[p] = << >>
    <3>1. passed'[p] = 0
      BY <1>2, <2>2
    <3> QED
      BY <2>1, <3>1
  <2>3. CASE p # item.of /\ buffer[p] # << >>
    <3>1. passed'[p] = passed[p] + 1 /\ passed[p] \in Nat
      BY <1>1, <1>2, <2>3
    <3>2. passed[p] + 1 + Before(consumer.index, p) <= NPeers
      <4>1. QueuedMessages # {} /\ \A i \in QueuedMessages : queue[i].of # p
        BY <1>1, <2>3
      <4> QED
        BY <1>1, <4>1 DEF TurnComes
    <3>3. buffer'[p] # << >>
      BY <1>2, <2>1, <2>3
    <3> QED
      BY <2>1, <3>1, <3>2, <3>3
  <2> QED
    BY <2>2, <2>3
<1> QED
  BY <1>3 DEF TurnComes

(* The consumer goes on to look at the next peer.                          *)
LEMMA ContinuedLoop ==
  ASSUME Inv, consumer.at \in {"direct", "waiting"}
  PROVE  /\ Continued(consumer).at = "polling"
         /\ Continued(consumer).index = consumer.index
         /\ \/ Continued(consumer).repeat
            \/ Continued(consumer).start = consumer.index
<1>1. consumer \in ConsumerType /\ (consumer.at = "direct" => consumer.repeat)
  BY TypeParts DEF Inv, OneMessage, RoleTypes
<1>2. CASE consumer.at = "direct" /\ consumer.index # consumer.start
  BY <1>1, <1>2 DEF Continued, Advanced, ConsumerType
<1>3. CASE consumer.at = "direct" /\ consumer.index = consumer.start
  BY <1>1, <1>3 DEF Continued, Advanced, Polling
<1>4. CASE consumer.at = "waiting"
  BY <1>4 DEF Continued, Resumed, Polling
<1> QED
  BY <1>2, <1>3, <1>4

(* No peer comes before the one the consumer looks at first.               *)
LEMMA NoneBefore ==
  ASSUME NEW s \in Peer, NEW p \in Peer
  PROVE  ~(Before(s, p) < Before(s, s))
<1>1. Before(s, s) = 0 /\ Before(s, p) \in 0 .. NPeers - 1
  BY Distances
<1>2. NPeers \in Nat
  BY DispatchAssumption
<1> QED
  BY <1>1, <1>2

(* The consumer, with no message of its in the queue, continues its loop.  *)
LEMMA LoopContinues ==
  ASSUME Inv, QueuedMessages' = {}, Handling' = {},
         consumer'.at = "polling", consumer'.index \in Peer,
         consumer'.repeat \/ consumer'.start = consumer'.index
  PROVE  OneMessage' /\ LookedAt'
<1>1. OneMessage'
  BY DEF OneMessage
<1>2. LookedAt'
  BY NoneBefore DEF LookedAt
<1> QED
  BY <1>1, <1>2

(* The first item runs.                                                    *)
LEMMA ConsumerRuns ==
  ASSUME Inv, queue # << >>, NEW item, item = Head(queue), running,
         Begun(item) \/ Ended(item) \/ Committed(item)
  PROVE  ConsumerInv'
<1>1. /\ TypeInv /\ TypeOK /\ OneMessage /\ consumer \in ConsumerType
      /\ consumer.index \in Peer /\ roles' = roles /\ role' = role
      /\ Taken(item) /\ Counted(item) /\ item.role = roles /\ item \in Operation
  BY TypeParts, ConsumerTypes, FirstItem
     DEF Inv, TypeInv, RoleTypes, Begun, Ended, Committed, Begins, CommitsAndAppends
<1>2. ASSUME item.kind = "message" PROVE ConsumerInv'
  <2>1. Handling = {} /\ consumer.at \in {"direct", "waiting"}
    BY <1>2, MessagesRun
  <2>2. QueuedMessages' = {}
    <3>1. ASSUME queue' = Tail(queue) PROVE QueuedMessages' = {}
      BY <1>2, <3>1, MessagesRun DEF QueuedMessages
    <3>2. ASSUME NEW b \in 1 .. MaxAppends,
                 queue' = Append(Tail(queue), Item("append", b))
          PROVE  QueuedMessages' = {}
      <4>1. Item("append", b) \in Operation /\ Item("append", b).kind = "append"
        BY <1>1, ItemTypes DEF Item
      <4>2. /\ Tail(queue) \in Seq(Operation)
            /\ \A i \in DOMAIN Tail(queue) : Tail(queue)[i].kind # "message"
        BY <1>2, FirstItem, MessagesRun
      <4>3. /\ Len(Tail(queue)) \in Nat /\ queue' \in Seq(Operation)
            /\ Len(queue') = Len(Tail(queue)) + 1
            /\ \A i \in 1 .. Len(Tail(queue)) : queue'[i] = Tail(queue)[i]
            /\ queue'[Len(Tail(queue)) + 1] = Item("append", b)
        BY <3>2, <4>1, <4>2, AppendedQueue
      <4>4. /\ DOMAIN queue' = 1 .. Len(Tail(queue)) + 1
            /\ DOMAIN Tail(queue) = 1 .. Len(Tail(queue))
        BY <4>2, <4>3
      <4>5. \A i \in DOMAIN queue' : \/ i \in DOMAIN Tail(queue)
                                     \/ i = Len(Tail(queue)) + 1
        BY <4>3, <4>4
      <4> QED
        BY <4>1, <4>2, <4>3, <4>4, <4>5 DEF QueuedMessages
    <3>3. \/ queue' = Tail(queue)
          \/ \E b \in 1 .. MaxAppends : queue' = Append(Tail(queue), Item("append", b))
      BY DEF Begun, Begins, Ended, Committed, CommitsAndAppends
    <3> QED
      BY <3>1, <3>2, <3>3
  <2>3. CASE /\ consumer' = Continued(consumer)
             /\ \A op \in inFlight' : op \in inFlight \/ op.kind = "append"
    <3>1. Handling' = {}
      BY <1>1, <2>1, <2>3 DEF Handling
    <3>2. /\ consumer'.at = "polling" /\ consumer'.index = consumer.index
          /\ consumer'.repeat \/ consumer'.start = consumer'.index
      BY <2>1, <2>3, ContinuedLoop
    <3> QED
      BY <1>1, <1>2, <2>2, <3>1, <3>2, LoopContinues, MessageTurn DEF ConsumerInv
  <2>4. CASE /\ consumer' = [consumer EXCEPT !.at = "waiting"]
             /\ inFlight' \subseteq inFlight \union {item}
    <3>1. consumer'.at = "waiting" /\ consumer'.index = consumer.index
      BY <1>1, <2>4 DEF ConsumerType
    <3>2. Handling' \subseteq {item}
      BY <1>1, <2>1, <2>4 DEF Handling
    <3>3. OneMessage'
      BY <2>2, <3>1, <3>2 DEF OneMessage
    <3>4. LookedAt'
      BY <3>1 DEF LookedAt
    <3> QED
      BY <1>1, <1>2, <2>2, <3>1, <3>3, <3>4, MessageTurn DEF ConsumerInv
  <2>5. CASE Begun(item)
    BY <1>2, <2>4, <2>5 DEF Begun, Begins
  <2>6. CASE Ended(item)
    BY <1>2, <2>3, <2>4, <2>6 DEF Ended
  <2>7. CASE Committed(item)
    <3>1. \A b : Item("append", b).kind = "append"
      BY DEF Item
    <3> QED
      BY <2>3, <2>7, <3>1 DEF Committed, CommitsAndAppends
  <2> QED
    BY <2>5, <2>6, <2>7
<1>3. ASSUME item.kind # "message" PROVE ConsumerInv'
  <2>1. /\ queue' = Tail(queue) /\ inFlight' \subseteq inFlight \union {item}
        /\ consumer' = consumer /\ (busy => busy')
        /\ buffer' = buffer /\ passed' = passed
    <3>1. ~Committed(item)
      BY <1>3 DEF Committed
    <3>2. Taken(item) /\ Counted(item) => UNCHANGED <<buffer, passed>>
      BY <1>3 DEF Taken, Counted, inputVars
    <3>3. CASE Begun(item)
      BY <1>1, <1>3, <3>2, <3>3 DEF Begun, Begins
    <3>4. CASE Ended(item)
      <4>1. UNCHANGED busy /\ UNCHANGED <<busy>>
        BY <3>4 DEF Ended
      <4>2. busy => busy'
        BY ONLY <4>1
      <4> QED
        BY <1>1, <1>3, <3>2, <3>4, <4>2 DEF Ended
    <3> QED
      BY <3>1, <3>3, <3>4
  <2>2. SameMessages
    BY <1>3, <2>1, MessagesRun
  <2>3. Handling' \subseteq Handling
    BY <1>1, <1>3, <2>1 DEF Handling
  <2>4. consumer.at # "direct"
    <3>1. ASSUME consumer.at = "direct" PROVE FALSE
      <4>1. ~busy /\ QueuedMessages # {}
        BY <1>1, <3>1 DEF OneMessage
      <4>2. Len(queue) <= 1 /\ Len(queue) \in Nat /\ DOMAIN queue = 1 .. Len(queue)
        BY <1>1, <4>1, QueueTypes DEF Inv, IdleMeansEmpty
      <4>3. \A i \in DOMAIN queue : i = 1
        BY <4>2
      <4>4. queue[1].kind = "message"
        BY <4>1, <4>3 DEF QueuedMessages
      <4> QED
        BY <1>3, <4>4, MessagesRun
    <3> QED
      BY <3>1
  <2>5. /\ UNCHANGED <<consumer, passed, role>>
        /\ \A q \in Source : buffer[q] # << >> => buffer'[q] # << >>
        /\ consumer.at \in {"polling", "nonPeer"} => buffer' = buffer
    BY <1>1, <2>1
  <2>6. QueuedMessages # {} /\ busy => busy'
    BY <2>1
  <2> QED
    BY <2>2, <2>3, <2>4, <2>5, <2>6, ConsumerStays
<1> QED
  BY <1>2, <1>3

(* The consumer starts over, or waits, while it has no message anywhere.   *)
LEMMA ConsumerRests ==
  ASSUME Inv, QueuedMessages' = {}, Handling' = {},
         \/ consumer' \in {Awaiting, Polling(0)}
         \/ consumer' = Resumed(consumer),
         \A p \in Peer :
           /\ passed'[p] \in Nat /\ passed'[p] <= NPeers
           /\ passed'[p] > 0 => buffer'[p] # << >>
           /\ passed'[p] + Before(consumer'.index, p) <= NPeers
  PROVE  ConsumerInv'
<1>1. /\ \/ consumer'.at = "awaiting" /\ consumer'.index = 0
         \/ /\ consumer'.at = "polling" /\ consumer'.start = consumer'.index
            /\ consumer'.index \in Peer
  BY ConsumerTypes DEF Awaiting, Stopped, Polling, Resumed, Inv, TypeInv
<1>2. OneMessage' /\ LookedAt'
  BY <1>1, NoneBefore DEF OneMessage, LookedAt
<1>3. TurnComes'
  <2>1. NPeers \in Nat /\ Peer \subseteq Source
    BY Peers
  <2>2. \A p \in Peer : passed'[p] + 0 + Before(consumer'.index, p) <= NPeers
    <3>1. \A p \in Peer : passed'[p] + 0 = passed'[p]
      OBVIOUS
    <3> QED
      BY <3>1
  <2> QED
    BY <2>2 DEF TurnComes
<1> QED
  BY <1>2, <1>3 DEF ConsumerInv

(* The role changes.                                                       *)
LEMMA ConsumerChanges ==
  ASSUME Inv, NEW new \in {"Follower", "Candidate", "Leader"}, ChangeRole(new),
         inFlight' \subseteq inFlight
  PROVE  ConsumerInv'
<1>1. /\ consumer' = Polling(0) /\ passed' = [p \in Peer |-> 0]
      /\ roles' = roles + 1 /\ roles \in Nat /\ inFlight \subseteq Operation
      /\ \A op \in inFlight : op.role <= roles
  BY DEF ChangeRole, Inv, TypeInv, QueueIsFresh
<1>2. QueuedMessages' = {}
  BY NewQueue DEF Inv, QueuedMessages
<1>3. Handling' = {}
  <2>1. \A op \in inFlight' : op.role # roles'
    BY <1>1, WorkFields
  <2> QED
    BY <2>1 DEF Handling
<1>4. \A p \in Peer : /\ passed'[p] = 0
                      /\ passed'[p] + Before(consumer'.index, p) <= NPeers
  <2>1. consumer'.index = 0 /\ 0 \in Peer /\ NPeers \in Nat
    BY <1>1, Peers DEF Polling
  <2>2. \A p \in Peer : Before(0, p) \in 0 .. NPeers - 1
    BY <2>1, Distances
  <2> QED
    BY <1>1, <2>1, <2>2
<1> QED
  BY <1>1, <1>2, <1>3, <1>4, ConsumerRests, Peers

(* A message of the role in office was handled.                            *)
LEMMA ConsumerCompletes ==
  ASSUME Inv, NEW op \in inFlight, Completes(op)
  PROVE  ConsumerInv'
<1>1. /\ OneMessage /\ TurnComes /\ IdleMeansEmpty /\ TypeInv
      /\ inFlight' = inFlight \ {op} /\ ~running
      /\ UNCHANGED <<role, roles, queue, busy, passed, buffer>>
      /\ passed \in [Peer -> Nat]
  BY TypeParts DEF Inv, Completes, AtRest
<1>2. Handling' \subseteq Handling /\ QueuedMessages' = QueuedMessages
  BY <1>1 DEF Handling, QueuedMessages
<1>3. CASE op.kind = "message" /\ Current(op)
  <2>1. op \in Handling /\ role # "none"
    BY <1>3 DEF Handling, Current
  <2>2. Handling' = {} /\ QueuedMessages = {}
    BY <1>1, <2>1 DEF OneMessage, Handling
  <2>3. consumer' = Resumed(consumer) /\ consumer'.index = consumer.index
    BY <1>3 DEF Completes, Resumed, Polling
  <2>4. ASSUME NEW p \in Peer
        PROVE  /\ passed'[p] \in Nat /\ passed'[p] <= NPeers
               /\ passed'[p] > 0 => buffer'[p] # << >>
               /\ passed'[p] + Before(consumer'.index, p) <= NPeers
    <3>1. /\ passed[p] <= NPeers /\ (passed[p] > 0 => buffer[p] # << >>)
          /\ passed[p] + 0 + Before(consumer.index, p) <= NPeers
      BY <1>1, <2>1, <2>2 DEF TurnComes
    <3>2. passed[p] \in Nat /\ passed'[p] = passed[p] /\ buffer'[p] = buffer[p]
      BY <1>1
    <3>3. passed[p] + 0 = passed[p]
      BY <3>2
    <3> QED
      BY <2>3, <3>1, <3>2, <3>3
  <2> QED
    BY <1>2, <2>2, <2>3, <2>4, ConsumerRests
<1>4. CASE ~(op.kind = "message" /\ Current(op))
  <2>1. consumer' = consumer
    BY <1>4 DEF Completes
  <2>2. SameMessages
    BY <1>1, <1>2 DEF SameMessages, OneMessage
  <2>3. consumer.at # "direct"
    BY <1>1 DEF OneMessage
  <2>4. busy => busy'
    <3>1. UNCHANGED <<busy>>
      BY <1>1
    <3> QED
      BY ONLY <3>1
  <2>5. /\ UNCHANGED <<consumer, passed, role>>
        /\ \A q \in Source : buffer[q] # << >> => buffer'[q] # << >>
        /\ consumer.at \in {"polling", "nonPeer"} => buffer' = buffer
    BY <1>1, <2>1
  <2>6. QueuedMessages # {} /\ busy => busy'
    BY <2>4
  <2> QED
    BY <1>2, <2>2, <2>3, <2>5, <2>6, ConsumerStays
<1> QED
  BY <1>3, <1>4

(* The server is closed.                                                   *)
LEMMA ConsumerCloses ==
  ASSUME Inv, Close
  PROVE  ConsumerInv'
<1>1. /\ OneMessage /\ TurnComes /\ queue' = << >> /\ role' = "none"
      /\ inFlight' = inFlight /\ roles' = roles /\ passed' = passed
      /\ buffer' = buffer /\ consumer'.at = "stopped"
  BY DEF Inv, Close, inputVars, Stopped
<1>2. QueuedMessages' = {} /\ Handling' = Handling
  BY <1>1 DEF QueuedMessages, Handling
<1>3. OneMessage'
  BY <1>1, <1>2 DEF OneMessage
<1>4. LookedAt' /\ TurnComes'
  BY <1>1 DEF LookedAt, TurnComes
<1> QED
  BY <1>3, <1>4 DEF ConsumerInv

(* The message of a peer is offered.                                       *)
LEMMA ConsumerOffers ==
  ASSUME Inv, Poll, PollOffers
  PROVE  ConsumerInv'
<1> DEFINE p == consumer.index
<1> DEFINE item == Item("message", p)
<1>1. /\ TypeInv /\ TurnComes /\ consumer.at = "polling" /\ p \in Peer
      /\ UNCHANGED <<role, roles, buffer, passed>>
      /\ passed \in [Peer -> Nat]
  BY Polls, TypeParts DEF Inv
<1>2. /\ Offers(item) /\ inFlight' = inFlight /\ running' = ~busy
      /\ queue' = Append(queue, item)
      /\ (busy' <=> busy) /\ (~running' <=> busy)
      /\ consumer'.index = NextPeer(p) /\ consumer'.repeat
      /\ consumer'.at = (IF busy THEN "waiting" ELSE "direct")
      /\ buffer[p] # << >>
  <2>1. /\ Offers(item) /\ UNCHANGED <<busy, inFlight>> /\ running' = ~busy
        /\ consumer'.index = NextPeer(p) /\ consumer'.repeat
        /\ consumer'.at = (IF busy THEN "waiting" ELSE "direct")
        /\ buffer[p] # << >>
    BY Zenon DEF PollOffers
  <2>2. (busy' <=> busy) /\ (~running' <=> busy)
    BY ONLY <2>1
  <2> QED
    BY <2>1, <2>2 DEF Offers, Asap
<1>3. /\ QueuedMessages = {} /\ Handling = {} /\ role # "none"
      /\ item \in Operation /\ item.kind = "message" /\ item.of = p
      /\ p \in Source /\ p # NonPeer
  BY <1>1, MessageIsFresh, Peers
<1> HIDE DEF item, p
<1>4. /\ \A i, j \in QueuedMessages' : i = j
      /\ \A i \in QueuedMessages' : queue'[i].of = p
      /\ QueuedMessages' # {}
  BY <1>2, <1>3, MessagesOffered
<1>5. Handling' = {}
  BY <1>1, <1>2, <1>3 DEF Handling
<1>6. OneMessage'
  <2>1. buffer'[p] # << >>
    BY <1>1, <1>2
  <2>2. CASE busy
    BY <1>2, <1>3, <1>4, <1>5, <2>1, <2>2 DEF OneMessage
  <2>3. CASE ~busy
    BY <1>2, <1>3, <1>4, <1>5, <2>1, <2>3 DEF OneMessage
  <2> QED
    BY <2>2, <2>3
<1>7. LookedAt'
  BY <1>2 DEF LookedAt
<1>8. TurnComes'
  <2>1. ASSUME NEW q \in Peer, \A i \in QueuedMessages' : queue'[i].of # q
        PROVE  passed[q] + 1 + Before(consumer'.index, q) <= NPeers
    <3>1. q # p
      BY <1>4, <2>1
    <3>2. passed[q] + 0 + Before(consumer.index, q) <= NPeers
      BY <1>1, <1>3 DEF TurnComes
    <3>3. /\ Before(NextPeer(p), q) = Before(p, q) - 1
          /\ Before(p, q) \in 0 .. NPeers - 1 /\ passed[q] \in Nat
          /\ NPeers \in Nat \ {0}
      BY <1>1, <3>1, Distances, Peers
    <3>4. consumer'.index = NextPeer(p) /\ consumer.index = p
      BY <1>2 DEF p
    <3> QED
      BY <3>2, <3>3, <3>4
  <2>2. \A q \in Peer : /\ passed'[q] = passed[q] /\ buffer'[q] = buffer[q]
                        /\ passed[q] <= NPeers
                        /\ passed[q] > 0 => buffer[q] # << >>
    BY <1>1 DEF TurnComes
  <2> QED
    BY <1>4, <2>1, <2>2 DEF TurnComes
<1> QED
  BY <1>6, <1>7, <1>8 DEF ConsumerInv

(* The peer that the consumer looks at has no message.                     *)
LEMMA BeforeIsInjective ==
  ASSUME NEW s \in Peer, NEW p \in Peer, NEW q \in Peer, Before(s, p) = Before(s, q)
  PROVE  p = q
<1>1. /\ NPeers \in Nat \ {0} /\ s \in Nat /\ p \in Nat /\ q \in Nat
      /\ s <= NPeers - 1 /\ p <= NPeers - 1 /\ q <= NPeers - 1
  BY DispatchAssumption DEF Peer
<1> QED
  BY <1>1 DEF Before

LEMMA ConsumerSkips ==
  ASSUME Inv, Poll, PollSkips
  PROVE  ConsumerInv'
<1> DEFINE p == consumer.index
<1> DEFINE next == [consumer EXCEPT !.index = NextPeer(p)]
<1>1. /\ TypeInv /\ LookedAt /\ TurnComes /\ consumer.at = "polling" /\ p \in Peer
      /\ UNCHANGED <<role, roles, buffer, passed, queue, inFlight>>
      /\ passed \in [Peer -> Nat] /\ consumer \in ConsumerType
      /\ buffer[p] = << >> /\ consumer' = Advanced(next)
      /\ consumer.start \in Peer
  BY Polls, TypeParts, ConsumerTypes DEF Inv, PollSkips, TypeInv, RoleTypes
<1>2. /\ next.at = "polling" /\ next.start = consumer.start
      /\ next.index = NextPeer(p) /\ next.repeat = consumer.repeat
      /\ next \in ConsumerType /\ NextPeer(p) \in Peer
  BY <1>1, PeersComeRound DEF ConsumerType
<1>3. QueuedMessages' = {} /\ Handling' = {}
  BY <1>1, MessageIsFresh, Peers DEF QueuedMessages, Handling
<1> HIDE DEF next, p
<1>4. /\ consumer'.index = NextPeer(p)
      /\ consumer'.at \in {"polling", "nonPeer"}
      /\ \/ /\ next.index # next.start /\ consumer'.at = "polling"
            /\ consumer'.repeat = next.repeat /\ consumer'.start = next.start
         \/ consumer'.at = "polling" /\ consumer'.start = consumer'.index
         \/ /\ next.index = next.start /\ ~next.repeat
            /\ consumer'.at = "nonPeer"
  <2>1. CASE next.index # next.start
    BY <1>1, <1>2, <2>1 DEF Advanced, ConsumerType
  <2>2. CASE next.index = next.start /\ next.repeat
    BY <1>1, <1>2, <2>2 DEF Advanced, Polling
  <2>3. CASE next.index = next.start /\ ~next.repeat
    BY <1>1, <1>2, <2>3 DEF Advanced, ConsumerType
  <2> QED
    BY <2>1, <2>2, <2>3
<1>5. OneMessage'
  BY <1>3, <1>4 DEF OneMessage
<1>6. LookedAt'
  <2>1. CASE next.index # next.start /\ consumer'.at = "polling"
             /\ consumer'.repeat = next.repeat /\ consumer'.start = next.start
    <3>1. ASSUME ~consumer.repeat, NEW q \in Peer,
                 Before(consumer.start, q) < Before(consumer.start, NextPeer(p))
          PROVE  buffer[q] = << >>
      <4>1. /\ Before(consumer.start, NextPeer(p)) = Before(consumer.start, p) + 1
            /\ Before(consumer.start, q) \in Nat /\ Before(consumer.start, p) \in Nat
        <5>1. p # consumer.start => NextPeer(p) # consumer.start
          BY <1>2, <2>1
        <5>2. /\ Before(consumer.start, q) \in 0 .. NPeers - 1
              /\ Before(consumer.start, p) \in 0 .. NPeers - 1
              /\ NPeers \in Nat
          BY <1>1, Distances, Peers
        <5>3. NextPeer(p) # consumer.start
          BY <1>2, <2>1
        <5>4. CASE p # consumer.start
          BY <1>1, <5>2, <5>3, <5>4, Distances
        <5>5. CASE p = consumer.start
          <6>1. Before(p, p) = 0
            BY <1>1, Distances
          <6>2. Before(p, NextPeer(p)) = 1
            <7>1. /\ NPeers \in Nat \ {0} /\ p \in Nat
                  /\ NextPeer(p) = IF p + 1 = NPeers THEN 0 ELSE p + 1
              BY <1>1, PeersComeRound, Peers
            <7>2. p + 1 <= NPeers /\ NextPeer(p) # p
              BY <1>1, <7>1, <5>3, <5>5 DEF Peer
            <7> QED
              BY <7>1, <7>2 DEF Before
          <6> QED
            BY <5>2, <5>5, <6>1, <6>2
        <5> QED
          BY <5>4, <5>5
      <4>2. CASE Before(consumer.start, q) = Before(consumer.start, p)
        BY <1>1, <4>2, BeforeIsInjective
      <4>3. CASE Before(consumer.start, q) < Before(consumer.start, p)
        BY <1>1, <3>1, <4>3 DEF LookedAt, p
      <4> QED
        BY <3>1, <4>1, <4>2, <4>3
    <3>2. /\ consumer'.repeat = consumer.repeat /\ consumer'.start = consumer.start
          /\ consumer'.index = NextPeer(p) /\ buffer' = buffer
      BY <1>1, <1>2, <1>4, <2>1
    <3> QED
      BY <2>1, <3>1, <3>2 DEF LookedAt
  <2>2. CASE consumer'.at = "polling" /\ consumer'.start = consumer'.index
    BY <1>2, <1>4, <2>2, NoneBefore DEF LookedAt
  <2>3. CASE next.index = next.start /\ ~next.repeat /\ consumer'.at = "nonPeer"
    <3>1. NextPeer(p) = consumer.start /\ ~consumer.repeat
      BY <1>2, <2>3
    <3>2. ASSUME NEW q \in Peer PROVE buffer[q] = << >>
      <4>1. /\ Before(consumer.start, p) = NPeers - 1
            /\ Before(consumer.start, q) \in 0 .. NPeers - 1
            /\ NPeers \in Nat \ {0}
        <5>1. /\ Before(consumer.start, q) \in 0 .. NPeers - 1
              /\ NPeers \in Nat \ {0}
          BY <1>1, Distances, Peers
        <5>2. Before(NextPeer(p), p) = NPeers - 1
          BY <1>1, <1>2, Distances
        <5> QED
          BY <3>1, <5>1, <5>2
      <4>2. CASE Before(consumer.start, q) = Before(consumer.start, p)
        BY <1>1, <4>2, BeforeIsInjective
      <4>3. CASE Before(consumer.start, q) < Before(consumer.start, p)
        BY <1>1, <3>1, <4>3 DEF LookedAt, p
      <4> QED
        BY <4>1, <4>2, <4>3
    <3> QED
      BY <1>1, <2>3, <3>2 DEF LookedAt
  <2> QED
    BY <1>4, <2>1, <2>2, <2>3
<1>7. TurnComes'
  <2>1. ASSUME NEW q \in Peer
        PROVE  /\ passed[q] <= NPeers /\ (passed[q] > 0 => buffer[q] # << >>)
               /\ passed[q] + 0 + Before(NextPeer(p), q) <= NPeers
    <3>1. /\ passed[q] <= NPeers /\ (passed[q] > 0 => buffer[q] # << >>)
          /\ passed[q] \in Nat /\ NPeers \in Nat \ {0}
      BY <1>1, Peers DEF TurnComes
    <3>2. CASE q = p
      <4>1. passed[q] = 0 /\ Before(NextPeer(p), q) = NPeers - 1
        BY <1>1, <3>1, <3>2, Distances
      <4> QED
        BY <3>1, <4>1
    <3>3. CASE q # p
      <4>1. /\ Before(NextPeer(p), q) = Before(p, q) - 1
            /\ Before(p, q) \in 0 .. NPeers - 1
        BY <1>1, <3>3, Distances
      <4>2. passed[q] + 0 + Before(consumer.index, q) <= NPeers
        <5>1. QueuedMessages = {} /\ role # "none"
          BY <1>1, MessageIsFresh, Peers
        <5> QED
          BY <1>1, <5>1 DEF TurnComes
      <4> QED
        BY <3>1, <4>1, <4>2 DEF p
    <3> QED
      BY <3>2, <3>3
  <2>2. \A q \in Peer : passed'[q] = passed[q] /\ buffer'[q] = buffer[q]
    BY <1>1
  <2> QED
    BY <1>3, <1>4, <2>1, <2>2 DEF TurnComes
<1> QED
  BY <1>5, <1>6, <1>7 DEF ConsumerInv

(* The messages from outside the cluster are looked at.                    *)
LEMMA NoneHasPassed ==
  ASSUME Inv, consumer.at = "nonPeer", NEW p \in Peer
  PROVE  passed[p] = 0
<1>1. passed[p] \in Nat /\ buffer[p] = << >> /\ (passed[p] > 0 => buffer[p] # << >>)
  BY TypeParts DEF Inv, LookedAt, TurnComes
<1> QED
  BY <1>1

LEMMA ConsumerReadsOthers ==
  ASSUME Inv, PollNonPeer
  PROVE  ConsumerInv'
<1>1. /\ consumer.at = "nonPeer" /\ TypeInv
      /\ UNCHANGED <<role, roles, buffer, passed>>
      /\ NonPeer \in Source /\ NonPeer \notin Peer /\ 0 \in Peer /\ NPeers \in Nat \ {0}
  BY NonPeerPolls, Peers DEF Inv
<1>2. /\ QueuedMessages = {} /\ Handling = {} /\ role # "none"
      /\ Item("message", NonPeer) \in Operation
      /\ Item("message", NonPeer).kind = "message"
      /\ Item("message", NonPeer).of = NonPeer
  BY <1>1, MessageIsFresh
<1>3. \A p \in Peer : passed'[p] = 0 /\ Before(0, p) \in 0 .. NPeers - 1
  BY <1>1, NoneHasPassed, Distances
<1>4. CASE NonPeerOffers
  <2>1. /\ queue' = Append(queue, Item("message", NonPeer)) /\ inFlight' = inFlight
        /\ consumer'.at = "waiting" /\ consumer'.index = 0 /\ buffer[NonPeer] # << >>
    BY <1>4 DEF NonPeerOffers, Offers, Asap
  <2>2. /\ \A i, j \in QueuedMessages' : i = j
        /\ \A i \in QueuedMessages' : queue'[i].of = NonPeer
    BY <1>1, <1>2, <2>1, MessagesOffered
  <2>3. Handling' = {}
    BY <1>1, <1>2, <2>1 DEF Handling
  <2>4. OneMessage'
    <3>1. buffer'[NonPeer] # << >>
      BY <1>1, <2>1
    <3> QED
      BY <2>1, <2>2, <2>3, <3>1 DEF OneMessage
  <2>5. LookedAt'
    BY <2>1 DEF LookedAt
  <2>6. TurnComes'
    <3>1. \A p \in Peer : \A n \in {0, 1} :
            passed'[p] <= NPeers /\ passed'[p] + n + Before(0, p) <= NPeers
      BY <1>1, <1>3
    <3> QED
      BY <1>1, <1>3, <2>1, <3>1 DEF TurnComes
  <2> QED
    BY <2>4, <2>5, <2>6 DEF ConsumerInv
<1>5. CASE NonPeerSkips
  <2>1. QueuedMessages' = {} /\ Handling' = {}
    BY <1>1, <1>2, <1>5 DEF NonPeerSkips, QueuedMessages, Handling
  <2>2. consumer' \in {Awaiting, Polling(0)} /\ consumer'.index = 0
    BY <1>5 DEF NonPeerSkips, Awaiting, Stopped, Polling
  <2>3. \A p \in Peer : /\ passed'[p] \in Nat /\ passed'[p] <= NPeers
                        /\ passed'[p] > 0 => buffer'[p] # << >>
                        /\ passed'[p] + Before(consumer'.index, p) <= NPeers
    BY <1>1, <1>3, <2>2
  <2> QED
    BY <2>1, <2>2, <2>3, ConsumerRests
<1> QED
  BY <1>4, <1>5, NonPeerPolls

(* A message arrives.                                                      *)
LEMMA ConsumerWakes ==
  ASSUME Inv, NEW s \in Source, Arrive(s)
  PROVE  ConsumerInv'
<1>1. /\ OneMessage /\ TurnComes /\ TypeInv /\ IdleMeansEmpty
      /\ UNCHANGED <<role, roles, passed, queue, inFlight>> /\ (busy' <=> busy)
      /\ buffer' = [buffer EXCEPT ![s] = Append(@, arrived'[s])]
      /\ arrived' = [arrived EXCEPT ![s] = @ + 1]
      /\ consumer' = (IF consumer.at = "awaiting" THEN Polling(0) ELSE consumer)
      /\ consumer.at \in {"waiting", "awaiting", "stopped"}
      /\ arrived \in [Source -> Nat] /\ buffer \in [Source -> Seq(Nat)]
      /\ passed \in [Peer -> Nat] /\ role # "none"
  <2>1. UNCHANGED <<busy>>
    BY Arrives
  <2>2. busy' <=> busy
    BY ONLY <2>1
  <2> QED
    BY <2>2, Arrives, TypeParts DEF Inv, AtRest, InputTypes
<1>2. \A q \in Source : buffer[q] # << >> => buffer'[q] # << >>
  <2>1. arrived'[s] \in Nat /\ Append(buffer[s], arrived'[s]) # << >>
    <3>1. arrived'[s] \in Nat
      BY <1>1
    <3>2. /\ Append(buffer[s], arrived'[s]) \in Seq(Nat) /\ Len(buffer[s]) \in Nat
          /\ Len(Append(buffer[s], arrived'[s])) = Len(buffer[s]) + 1
      BY <1>1, <3>1, AppendedQueue
    <3> QED
      BY <3>1, <3>2, EmptySeq
  <2> QED
    BY <1>1, <2>1
<1>3. QueuedMessages' = QueuedMessages /\ Handling' = Handling
  BY <1>1 DEF QueuedMessages, Handling
<1>4. CASE consumer.at = "awaiting"
  <2>1. QueuedMessages = {} /\ Handling = {} /\ consumer.index = 0
    BY <1>1, <1>4 DEF OneMessage
  <2>2. consumer' = Polling(0) /\ consumer'.index = 0
    BY <1>1, <1>4 DEF Polling
  <2>3. ASSUME NEW p \in Peer
        PROVE  /\ passed'[p] \in Nat /\ passed'[p] <= NPeers
               /\ passed'[p] > 0 => buffer'[p] # << >>
               /\ passed'[p] + Before(consumer'.index, p) <= NPeers
    <3>1. /\ passed[p] <= NPeers /\ (passed[p] > 0 => buffer[p] # << >>)
          /\ passed[p] + 0 + Before(consumer.index, p) <= NPeers
      BY <1>1, <2>1 DEF TurnComes
    <3>2. passed[p] \in Nat /\ passed'[p] = passed[p] /\ p \in Source
      BY <1>1, Peers
    <3>3. passed[p] + 0 = passed[p]
      BY <3>2
    <3> QED
      BY <1>2, <2>1, <2>2, <3>1, <3>2, <3>3
  <2> QED
    BY <1>3, <2>1, <2>2, <2>3, ConsumerRests
<1>5. CASE consumer.at # "awaiting"
  <2>1. SameMessages
    BY <1>1, <1>3 DEF SameMessages, OneMessage
  <2>2. /\ UNCHANGED <<consumer, passed, role>> /\ consumer.at # "direct"
        /\ consumer.at \in {"polling", "nonPeer"} => buffer' = buffer
    BY <1>1, <1>5
  <2>3. QueuedMessages # {} /\ busy => busy'
    BY <1>1
  <2> QED
    BY <1>2, <1>3, <2>1, <2>2, <2>3, ConsumerStays
<1> QED
  BY <1>4, <1>5

LEMMA ConsumerNext ==
  ASSUME Inv, Next
  PROVE  ConsumerInv'
<1>1. TypeInv /\ OneMessage
  BY DEF Inv
<1>2. ASSUME SameMessages, inFlight' = inFlight, consumer.at # "direct",
             QueuedMessages # {} /\ busy => busy',
             UNCHANGED <<consumer, passed, role, roles, buffer>>
      PROVE  ConsumerInv'
  <2>1. /\ Handling' \subseteq Handling /\ UNCHANGED <<consumer, passed, role>>
        /\ \A q \in Source : buffer[q] # << >> => buffer'[q] # << >>
        /\ consumer.at \in {"polling", "nonPeer"} => buffer' = buffer
    BY <1>2 DEF Handling
  <2> QED
    BY <1>2, <2>1, ConsumerStays
<1>3. ASSUME queue' = queue PROVE SameMessages
  <2>1. QueuedMessages' = QueuedMessages
    BY <1>3 DEF QueuedMessages
  <2> QED
    BY <1>1, <1>3, <2>1 DEF SameMessages, OneMessage
<1>4. ASSUME NEW item, Offers(item), item.kind # "message",
             consumer.at \in {"waiting", "awaiting", "stopped"},
             UNCHANGED <<consumer, passed, buffer>>
      PROVE  ConsumerInv'
  <2>1. /\ item \in Operation /\ queue' = Append(queue, item)
        /\ inFlight' = inFlight
        /\ UNCHANGED <<consumer, passed, role, roles, buffer>>
    BY <1>4 DEF Offers, Asap
  <2>2. SameMessages
    BY <1>4, <2>1, MessagesOffered
  <2>3. QueuedMessages # {} /\ busy => busy'
    <3>1. UNCHANGED <<busy, inFlight>>
      BY <1>4 DEF Offers, Asap
    <3> QED
      BY ONLY <3>1
  <2> QED
    BY <1>2, <1>4, <2>1, <2>2, <2>3
<1>5. CASE Timer
  <2>1. /\ Offers(Item("timer", 0)) /\ Item("timer", 0).kind # "message"
        /\ consumer.at \in {"waiting", "awaiting", "stopped"}
        /\ UNCHANGED <<consumer, passed, buffer>>
    BY <1>5, TimerOffers DEF Timer, AtRest, Item, inputVars
  <2> QED
    BY <1>4, <2>1
<1>6. ASSUME NEW a \in 1 .. MaxAppends, CallAppend(a) PROVE ConsumerInv'
  <2>1. /\ Offers(Item("append", a)) /\ Item("append", a).kind # "message"
        /\ consumer.at \in {"waiting", "awaiting", "stopped"}
        /\ UNCHANGED <<consumer, passed, buffer>>
    BY <1>6, CallOffers DEF CallAppend, AtRest, Item, inputVars
  <2> QED
    BY <1>4, <2>1
<1>7. CASE Complete
  <2>1. PICK op \in inFlight : Completes(op) \/ LeavesRole(op)
    BY <1>7, CompleteCases
  <2>2. CASE Completes(op)
    BY <2>2, ConsumerCompletes
  <2>3. CASE LeavesRole(op)
    <3>1. /\ \E new \in {"Follower", "Leader"} : ChangeRole(new)
          /\ inFlight' \subseteq inFlight
      BY <2>3 DEF LeavesRole
    <3> QED
      BY <3>1, ConsumerChanges
  <2> QED
    BY <2>1, <2>2, <2>3
<1>8. CASE Fail \/ \E a \in 1 .. MaxAppends : Answer(a)
  <2>1. /\ queue' = queue /\ inFlight' = inFlight /\ consumer.at # "direct"
        /\ UNCHANGED <<consumer, passed, role, roles, buffer>>
    BY <1>8 DEF Fail, Answer, schedulerVars, inputVars, AtRest
  <2>2. QueuedMessages # {} /\ busy => busy'
    <3>1. UNCHANGED <<busy>>
      BY <1>8 DEF Fail, Answer, schedulerVars
    <3> QED
      BY ONLY <3>1
  <2> QED
    BY <1>2, <1>3, <2>1, <2>2
<1>9. CASE Poll
  BY <1>9, Polls, ConsumerOffers, ConsumerSkips
<1>10. CASE RunNext /\ queue = << >>
  <2>1. /\ queue' = queue /\ inFlight' = inFlight
        /\ UNCHANGED <<consumer, passed, role, roles, buffer>>
    BY <1>10 DEF RunNext, inputVars
  <2>2. QueuedMessages = {}
    BY <1>1, <1>10, QueueTypes DEF QueuedMessages
  <2>3. consumer.at # "direct"
    BY <1>1, <2>2 DEF OneMessage
  <2> QED
    BY <1>2, <1>3, <2>1, <2>2, <2>3
<1>11. ASSUME RunNext, queue # << >>, NEW item, item = Head(queue)
       PROVE  ConsumerInv'
  <2>1. running
    BY <1>11, RunCases
  <2>2. CASE Begun(item) \/ Ended(item) \/ Committed(item)
    BY <1>11, <2>1, <2>2, ConsumerRuns
  <2>3. CASE Changed(item)
    <3>1. inFlight' \subseteq inFlight
      BY <2>3 DEF Changed
    <3> QED
      BY <2>3, <3>1, ConsumerChanges DEF Changed
  <2> QED
    BY <1>11, <2>2, <2>3, RunCases, Zenon
<1> QED
  BY <1>5, <1>6, <1>7, <1>8, <1>9, <1>10, <1>11, ConsumerWakes, ConsumerCloses,
     ConsumerReadsOthers, Zenon DEF Next, Program

-----------------------------------------------------------------------------
(* The invariant *)

LEMMA InitInv ==
  ASSUME Init
  PROVE  Inv
<1>1. /\ consumer = Polling(0) /\ consumer.at = "polling" /\ consumer.index = 0
      /\ consumer.start = 0 /\ ~consumer.repeat
      /\ queue = << >> /\ DOMAIN queue = {} /\ << >> \in Seq(Operation)
  BY DEF Init, Polling
<1>2. TypeInv
  <2>1. consumer \in ConsumerType
    BY <1>1, Peers DEF ConsumerType, Polling
  <2>2. IsFiniteSet({}) /\ << >> \in Seq(Nat)
    BY FS_EmptySet
  <2>3. SchedulerTypes
    BY <1>1, <2>2 DEF Init, SchedulerTypes
  <2>4. RoleTypes
    BY <2>1 DEF Init, RoleTypes, AppendState
  <2>5. InputTypes /\ passed \in [Peer -> Nat]
    BY <2>2 DEF Init, InputTypes
  <2> QED
    BY <2>3, <2>4, <2>5, TypeParts
<1>3. Buffered
  BY DEF Init, Buffered
<1>4. QueueIsFresh /\ IdleMeansEmpty /\ OneAtATime /\ OfRole /\ AppendsKnown
  BY <1>1 DEF Init, QueueIsFresh, IdleMeansEmpty, OneAtATime, OfRole, AppendsKnown
<1>5. QueuedMessages = {} /\ Handling = {}
  BY <1>1 DEF Init, QueuedMessages, Handling
<1>6. OneMessage
  BY <1>1, <1>5 DEF OneMessage
<1>7. LookedAt
  BY <1>1, Peers, NoneBefore DEF LookedAt
<1>8. TurnComes
  <2>1. \A p \in Peer : Before(0, p) \in 0 .. NPeers - 1 /\ NPeers \in Nat \ {0}
    BY Peers, Distances
  <2>2. \A p \in Peer : passed[p] = 0
    BY DEF Init
  <2> QED
    BY <1>1, <1>5, <2>1, <2>2 DEF TurnComes
<1> QED
  BY <1>2, <1>3, <1>4, <1>6, <1>7, <1>8 DEF Inv

LEMMA NextInv ==
  ASSUME Inv, [Next]_vars
  PROVE  Inv'
<1>1. CASE Next
  <2>1. TypeInv'
    <3>1. CASE Program
      BY <3>1, ProgramTypes
    <3>2. CASE ~Program
      <4>1. \/ \E p \in Source : Arrive(p)
            \/ Timer
            \/ \E a \in 1 .. MaxAppends : CallAppend(a) \/ Answer(a)
            \/ Complete
            \/ Fail
            \/ Close
        BY <1>1, <3>2, Zenon DEF Next
      <4> QED
        BY <4>1, EnvironmentTypes, Zenon DEF Inv
    <3> QED
      BY <3>1, <3>2
  <2>2. Buffered' /\ SchedulerInv' /\ AppendsKnown' /\ ConsumerInv'
    BY <1>1, BufferedNext, SchedulerNext, AppendsNext, ConsumerNext
  <2> QED
    BY <2>1, <2>2 DEF Inv, SchedulerInv, ConsumerInv
<1>2. CASE UNCHANGED vars
  <2>1. /\ UNCHANGED <<role, roles, passed, consumer, appends, reentered>>
        /\ UNCHANGED <<arrived, buffer, handled, queue, running, busy, inFlight,
                       failed, crashed>>
    BY <1>2 DEF vars, inputVars, schedulerVars, crashVars
  <2>2. /\ UNCHANGED <<running, busy>>
        /\ UNCHANGED <<role, roles, queue, inFlight, reentered>>
        /\ consumer'.at = "stopped" <=> consumer.at = "stopped"
    BY <2>1
  <2>3. SchedulerInv'
    BY <2>2, QuietInv
  <2>4. TypeInv'
    BY <2>1, TypeParts, TypePartsAfter
       DEF Inv, SchedulerTypes, RoleTypes, InputTypes
  <2>5. Buffered' /\ AppendsKnown'
    BY <2>1 DEF Inv, Buffered, AppendsKnown
  <2>6. QueuedMessages' = QueuedMessages /\ Handling' = Handling
    BY <2>1 DEF QueuedMessages, Handling
  <2>7. (running' <=> running) /\ (busy' <=> busy)
    BY ONLY <2>2
  <2>8. OneMessage'
    BY <2>1, <2>6, <2>7 DEF Inv, OneMessage
  <2>9. LookedAt'
    BY <2>1 DEF Inv, LookedAt
  <2>10. TurnComes'
    BY <2>1, <2>6 DEF Inv, TurnComes
  <2> QED
    BY <2>3, <2>4, <2>5, <2>8, <2>9, <2>10 DEF Inv, SchedulerInv
<1> QED
  BY <1>1, <1>2

LEMMA InvHolds == Spec => []Inv
<1>1. Init => Inv
  BY InitInv
<1>2. Inv /\ [Next]_vars => Inv'
  BY NextInv
<1> QED
  BY <1>1, <1>2, PTL DEF Spec

-----------------------------------------------------------------------------
(* The theorems *)

(* Every variable keeps the type the code gives it.                        *)
THEOREM TypeOKHolds == Spec => []TypeOK
<1>1. Inv => TypeOK
  BY DEF Inv, TypeInv
<1> QED
  BY <1>1, InvHolds, PTL

(* However the queue of the scheduler and the loops of consumeNext() meet, *)
(* no more messages of others are handled while a message of a peer waits  *)
(* than there are peers (InputConsumer.js:66-99, Scheduler.js:38-97).      *)
THEOREM NoPeerStarvesHolds == Spec => []NoPeerStarves
<1>1. Inv => NoPeerStarves
  BY DEF Inv, TurnComes, NoPeerStarves
<1> QED
  BY <1>1, InvHolds, PTL

(* A server that stopped leading answered every call of append(), but for  *)
(* those it is persisting (Leader.js:180-230, Scheduler.js:24-36).         *)
THEOREM AppendsAnsweredHolds == Spec => []AppendsAnswered
<1>1. Inv => AppendsAnswered
  <2> SUFFICES ASSUME Inv, role # "Leader", NEW a \in 1 .. MaxAppends,
                      appends[a] \notin {"none", "settled", "committed"}
               PROVE  [kind |-> "append", of |-> a] \in
                        {[kind |-> op.kind, of |-> op.of] : op \in inFlight}
    BY DEF AppendsAnswered
  <2>1. appends[a] = "persisting"
    BY TypeParts DEF Inv, AppendsKnown, RoleTypes, AppendState
  <2>2. PICK op \in inFlight : op.kind = "append" /\ op.of = a
    BY <2>1 DEF Inv, AppendsKnown
  <2> QED
    BY <2>2
<1> QED
  BY <1>1, InvHolds, PTL

(* An operation that starts is a new one.                                  *)
LEMMA StartsOne ==
  ASSUME Inv, Work!Free, NEW op, op \notin inFlight, inFlight' = inFlight \union {op}
  PROVE  Work!Starts
<1>1. IsFiniteSet(inFlight)
  BY DEF Inv, TypeInv
<1>2. Cardinality(inFlight') = Cardinality(inFlight) + 1
  BY <1>1, FS_AddElement
<1>3. \A S : Work!Cardinality(S) = Cardinality(S)
  BY Zenon DEF Cardinality, Work!Cardinality
<1> QED
  BY <1>2, <1>3 DEF Work!Starts

LEMMA StepHandles ==
  ASSUME Inv, RunNext, queue # << >>
  PROVE  \/ \E p \in Source : Work!Handle(p)
         \/ Work!Start
         \/ UNCHANGED <<arrived, handled, inFlight, reentered>>
<1> DEFINE item == Head(queue)
<1>1. /\ running /\ (Begun(item) \/ Ended(item) \/ Committed(item) \/ Changed(item))
  BY RunCases
<1>2. /\ item \notin inFlight
      /\ item.kind = "message" => item.of \in Source /\ buffer[item.of] # << >>
  BY FirstItem
<1> HIDE DEF item
<1>3. Work!Free
  BY <1>1 DEF Work!Free, Inv, OneAtATime
<1>4. CASE item.kind = "message"
  <2>1. Take(item.of)
    BY <1>1, <1>4 DEF Begun, Ended, Committed, Changed, Taken
  <2>2. /\ item.of \in Source /\ handled[item.of] < arrived[item.of]
        /\ handled' = [handled EXCEPT ![item.of] = @ + 1]
        /\ arrived' = arrived
    <3>1. /\ buffer[item.of] \in Seq(Nat) /\ arrived[item.of] \in Nat
          /\ handled[item.of] \in Nat /\ Buffered
      BY <1>2, <1>4, TypeParts DEF Inv, InputTypes
    <3>2. /\ Len(buffer[item.of]) \in Nat \ {0}
          /\ Head(buffer[item.of]) = buffer[item.of][1]
      BY <1>2, <1>4, <3>1, TailOfQueue
    <3>3. /\ Len(buffer[item.of]) = arrived[item.of] - handled[item.of]
          /\ buffer[item.of][1] = handled[item.of] + 1
      BY <1>2, <1>4, <3>1, <3>2, SMTT(40) DEF Buffered
    <3>4. handled[item.of] < arrived[item.of]
      BY <3>1, <3>2, <3>3
    <3>5. Head(buffer[item.of]) = handled[item.of] + 1
      BY <3>2, <3>3
    <3> QED
      BY <1>2, <1>4, <2>1, <3>4, <3>5 DEF Take
  <2>3. \/ Work!Starts /\ reentered' \in {reentered, TRUE}
        \/ Work!Free /\ UNCHANGED <<inFlight, reentered>>
    <3>1. CASE Begun(item)
      BY <1>2, <1>3, <3>1, StartsOne DEF Begun, Begins
    <3>2. CASE Ended(item)
      BY <1>3, <3>2 DEF Ended
    <3>3. CASE Changed(item)
      BY <1>3, <3>3 DEF Changed
    <3>4. CASE Committed(item)
      <4>1. PICK b \in 1 .. MaxAppends :
              /\ appends[b] = "none"
              /\ \/ /\ inFlight' = inFlight \union {Item("append", b)}
                    /\ reentered' = TRUE
                 \/ UNCHANGED <<inFlight, reentered>>
        BY <3>4 DEF Committed, CommitsAndAppends
      <4>2. Item("append", b) \notin inFlight
        BY <4>1 DEF Inv, AppendsKnown, Item
      <4> QED
        BY <1>3, <4>1, <4>2, StartsOne
    <3> QED
      BY <1>1, <3>1, <3>2, <3>3, <3>4
  <2> QED
    BY <2>2, <2>3 DEF Work!Handle
<1>5. CASE item.kind # "message"
  <2>1. arrived' = arrived /\ handled' = handled
    BY <1>1, <1>5 DEF Begun, Ended, Committed, Changed, Taken, inputVars
  <2>2. CASE Begun(item)
    <3>1. Work!Starts /\ reentered' = reentered
      BY <1>2, <1>3, <2>2, StartsOne DEF Begun, Begins
    <3> QED
      BY <2>1, <3>1 DEF Work!Start
  <2>3. CASE Ended(item) \/ Changed(item)
    BY <2>1, <2>3 DEF Ended, Changed
  <2> QED
    BY <1>1, <1>5, <2>2, <2>3 DEF Committed
<1> QED
  BY <1>4, <1>5

(* The scheduler and the consumer implement module Serial: messages are    *)
(* handled in their order and once, and no two operations interleave       *)
(* (Scheduler.js:1-2), until applyEntry() calls append().                  *)
THEOREM NothingInterleavesHolds == Spec => NothingInterleaves
<1>1. Init => Work!Init
  BY DEF Init, Work!Init
<1>2. Inv /\ [Next]_vars => [Work!Next]_<<arrived, handled, inFlight, reentered>>
  <2> SUFFICES ASSUME Inv, [Next]_vars
               PROVE  \/ Work!Next
                      \/ UNCHANGED <<arrived, handled, inFlight, reentered>>
    OBVIOUS
  <2>1. ASSUME NEW p \in Source, Arrive(p) PROVE Work!Arrive(p)
    BY <2>1, Arrives DEF Work!Arrive
  <2>2. ASSUME Complete PROVE Work!Complete
    BY <2>2, CompleteCases DEF Completes, LeavesRole, Work!Complete
  <2>3. CASE Timer \/ (\E a \in 1 .. MaxAppends : CallAppend(a))
    BY <2>3 DEF Timer, CallAppend, Asap, inputVars
  <2>4. CASE Fail \/ Close \/ (\E a \in 1 .. MaxAppends : Answer(a))
    BY <2>4 DEF Fail, Close, Answer, inputVars, schedulerVars
  <2>5. CASE Poll \/ PollNonPeer
    <3>1. UNCHANGED schedulerVars \/ (\E p \in Source : Asap(Item("message", p)))
      <4>1. CASE Poll
        BY <4>1, Polls, Peers DEF Poll
      <4>2. CASE PollNonPeer
        BY <4>2, Peers DEF PollNonPeer
      <4> QED
        BY <2>5, <4>1, <4>2
    <3>2. UNCHANGED <<inputVars, reentered>>
      BY <2>5 DEF Poll, PollNonPeer
    <3> QED
      BY <3>1, <3>2 DEF Asap, schedulerVars, inputVars
  <2>6. CASE RunNext /\ queue = << >>
    BY <2>6 DEF RunNext, inputVars
  <2>7. CASE RunNext /\ queue # << >>
    BY <2>7, StepHandles DEF Work!Next
  <2>8. CASE UNCHANGED vars
    BY <2>8 DEF vars, inputVars, schedulerVars
  <2>9. \/ \E p \in Source : Arrive(p)
        \/ Complete
        \/ Timer \/ (\E a \in 1 .. MaxAppends : CallAppend(a))
        \/ Fail \/ Close \/ (\E a \in 1 .. MaxAppends : Answer(a))
        \/ Poll \/ PollNonPeer
        \/ RunNext /\ queue = << >>
        \/ RunNext /\ queue # << >>
        \/ UNCHANGED vars
    BY Zenon DEF Next, Program
  <2> QED
    BY <2>1, <2>2, <2>3, <2>4, <2>5, <2>6, <2>7, <2>8, <2>9 DEF Work!Next
<1> QED
  BY <1>1, <1>2, InvHolds, PTL DEF Spec, NothingInterleaves, Work!Spec

=============================================================================
