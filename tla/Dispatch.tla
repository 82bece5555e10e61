------------------------------ MODULE Dispatch ------------------------------
(***************************************************************************)
(* How one server gets its work done: the Scheduler of its role            *)
(* (src/lib/Scheduler.js), the InputConsumer that reads the messages of    *)
(* its peers and of servers outside the cluster (src/lib/InputConsumer.js, *)
(* src/lib/MessageBuffer.js), the timer, the calls of append(), and the    *)
(* role changes that replace all of these (src/lib/Raft.js) while messages *)
(* wait and operations are queued.                                         *)
(*                                                                         *)
(* Between two promises of its environment the program runs alone.  Such a *)
(* stretch is several steps here; Arrive, Timer and the like only happen   *)
(* when it has come to rest.                                               *)
(***************************************************************************)
EXTENDS Integers, Sequences, FiniteSets, Functions

CONSTANTS
  NPeers,        \* the peers are 0 .. NPeers - 1, in the consumer's order
  MaxMessages,   \* bound: number of messages, of all sources together
  MaxAppends,    \* bound: number of calls of append()
  MaxRoles       \* bound: number of role changes

ASSUME DispatchAssumption ==
  /\ NPeers \in Nat \ {0}
  /\ {MaxMessages, MaxAppends, MaxRoles} \subseteq Nat

VARIABLES
  role,        \* "Follower", "Candidate", "Leader", or "none" once closed
  roles,       \* number of role changes
  arrived,     \* for each source, the number of messages that arrived
  buffer,      \* its messages that wait, as a MessageBuffer offers them
  handled,     \* the last of its messages that a role handled
  queue,       \* Scheduler.queue, and the item that asap() runs at once
  running,     \* whether the scheduler is running items of the queue
  busy,        \* Scheduler.busy
  inFlight,    \* the operations whose promises are pending
  failed,      \* those of them whose promise was rejected
  crashed,     \* whether the crash handler was called
  consumer,    \* where consumeNext() is
  appends,     \* what became of each call of append()
  passed,      \* history: messages that this role handled while one of this
               \* peer waited
  reentered    \* history: the state machine called append() from within
               \* applyEntry()

inputVars == <<arrived, buffer, handled>>
schedulerVars == <<queue, running, busy, inFlight>>
crashVars == <<failed, crashed>>
vars == <<role, roles, inputVars, passed, schedulerVars, crashVars, consumer, appends,
          reentered>>

Peer == 0 .. NPeers - 1

NonPeer == NPeers      \* the nonPeerReceiver

Source == 0 .. NPeers

-----------------------------------------------------------------------------
(* The consumer.  `start` and `repeat` are consumeNext()'s variables, and   *)
(* so is `index`, the peer to look at next.                                 *)

(* A faulty variant: the consumer walks off the end of the peers.           *)
NextPeerFaulty(p) == p + 1

NextPeer(p) == (p + 1) % NPeers

Stopped == [at |-> "stopped", start |-> 0, index |-> 0, repeat |-> FALSE]

Polling(start) ==
  [at |-> "polling", start |-> start, index |-> start, repeat |-> FALSE]

Awaiting == [Stopped EXCEPT !.at = "awaiting"]

(* The ends of the two loops: every peer was looked at, and once more as    *)
(* long as that turned up a message.                                        *)
Advanced(c) ==
  IF c.index # c.start THEN [c EXCEPT !.at = "polling"]
  ELSE IF c.repeat THEN Polling(c.start)
  ELSE [c EXCEPT !.at = "nonPeer"]

(* A faulty variant: consumption always resumes with the first peer.        *)
ResumedFaulty(c) == Polling(0)

(* Consumption resumes with the peer after the one whose message was        *)
(* handled.                                                                 *)
Resumed(c) == Polling(c.index)

(* The consumer goes on after a handler that returned no promise: in its    *)
(* loop if the scheduler ran the handler at once, as a continuation if not. *)
Continued(c) == IF c.at = "direct" THEN Advanced(c) ELSE Resumed(c)

-----------------------------------------------------------------------------
(* The scheduler *)

(* The role that an item belongs to is the one with that number.            *)
Item(kind, of) == [kind |-> kind, of |-> of, role |-> roles]

(* A faulty variant: an operation that is in progress is not waited for.    *)
AsapFaulty(item) ==
  /\ queue' = Append(queue, item)
  /\ running' = TRUE
  /\ UNCHANGED <<busy, inFlight>>

(* asap(): the item runs at once, or after what is in progress.             *)
Asap(item) ==
  /\ queue' = Append(queue, item)
  /\ running' = (running \/ ~busy)
  /\ UNCHANGED <<busy, inFlight>>

(* The program has come to rest: it waits for its environment.              *)
AtRest == ~running /\ consumer.at \in {"waiting", "awaiting", "stopped"}

(* A faulty variant: what waits in the queue is not told.                   *)
SettledFaulty(states) ==
  [a \in 1 .. MaxAppends |->
     IF appends[a] = "pending" /\ appends[a] \in states THEN "settled"
                                                        ELSE appends[a]]

Settled(states) ==
  [a \in 1 .. MaxAppends |->
     IF appends[a] \in states THEN "settled" ELSE appends[a]]

Pending == {a \in 1 .. MaxAppends : appends[a] = "pending"}

(* The promise of an append whose entry is committed becomes that of        *)
(* Log.commit(): the state machine answers it, if anything ever does.  No   *)
(* later role change rejects it.                                            *)
Committing(entries) ==
  [a \in 1 .. MaxAppends |->
     IF a \in entries THEN "committed" ELSE appends[a]]

(* A role change: the old role's consumer stops and its scheduler aborts    *)
(* what is queued; appends that were queued or not committed are rejected,  *)
(* one whose entry is being persisted only once that is done.               *)
(* The new role's own work comes before the messages that wait.             *)
ChangeRole(new) ==
  /\ roles < MaxRoles
  /\ roles' = roles + 1
  /\ role' = new
  /\ queue' = CASE new = "Follower"  -> << [Item("replay", 0) EXCEPT !.role = @ + 1] >>
                [] new = "Candidate" -> << [Item("timer", 0) EXCEPT !.role = @ + 1] >>
                [] new = "Leader"    -> << >>
  /\ running' = TRUE
  /\ busy' = FALSE
  /\ consumer' = Polling(0)
  /\ appends' = Settled({"queued", "pending"})
  /\ passed' = [p \in Peer |-> 0]

-----------------------------------------------------------------------------
(* The environment *)

Arrive(p) ==
  /\ AtRest
  /\ role # "none"
  /\ FoldFunction(+, 0, arrived) < MaxMessages
  /\ arrived' = [arrived EXCEPT ![p] = @ + 1]
  /\ buffer' = [buffer EXCEPT ![p] = Append(@, arrived'[p])]
  /\ consumer' = IF consumer.at = "awaiting" THEN Polling(0) ELSE consumer
  /\ UNCHANGED <<role, roles, handled, schedulerVars, crashVars, appends, passed,
                 reentered>>

(* The interval of a follower or leader, the timeout of a candidate.        *)
Timer ==
  /\ AtRest
  /\ role # "none"
  /\ \A i \in DOMAIN queue : queue[i].kind # "timer"
  /\ role = "Candidate" => Item("timer", 0) \notin inFlight
  /\ Asap(Item("timer", 0))
  /\ UNCHANGED <<role, roles, inputVars, passed, crashVars, consumer, appends,
                 reentered>>

CallAppend(a) ==
  /\ AtRest
  /\ role = "Leader"
  /\ appends[a] = "none"
  /\ appends' = [appends EXCEPT ![a] = "queued"]
  /\ Asap(Item("append", a))
  /\ UNCHANGED <<role, roles, inputVars, passed, crashVars, consumer, reentered>>

(* Whether an operation belongs to the role in office.                      *)
Current(op) == role # "none" /\ op.role = roles

(* The promise of an operation is fulfilled: a message may turn out to have *)
(* a newer term, and its sender to be followed.  One from outside the       *)
(* cluster, whose sender was connected to first, may also be the vote that  *)
(* a candidate lacked.                                                      *)
Complete ==
  \E op \in inFlight \ failed :
    /\ AtRest
    /\ inFlight' = inFlight \ {op}
    /\ \/ /\ op.kind = "message"
          /\ Current(op)
          /\ \/ role \in {"Candidate", "Leader"} /\ ChangeRole("Follower")
             \/ op.of = NonPeer /\ role = "Candidate" /\ ChangeRole("Leader")
       \/ /\ running' = Current(op)
          /\ consumer' = IF op.kind = "message" /\ Current(op)
                         THEN Resumed(consumer) ELSE consumer
          /\ appends' = IF op.kind = "append"
                        THEN [appends EXCEPT ![op.of] =
                                IF Current(op) THEN "pending" ELSE "settled"]
                        ELSE appends
          /\ UNCHANGED <<role, roles, queue, busy, passed>>
    /\ UNCHANGED <<inputVars, crashVars, reentered>>

(* The state machine applied the entry of an append.  It may never do so:   *)
(* applyEntry() may fail, and Raft.destroy() drops the applier's queue.     *)
Answer(a) ==
  /\ AtRest
  /\ appends[a] = "committed"
  /\ appends' = [appends EXCEPT ![a] = "settled"]
  /\ UNCHANGED <<role, roles, inputVars, passed, schedulerVars, crashVars, consumer,
                 reentered>>

(* It is rejected: what should be persisted is not, or a sender outside the *)
(* cluster cannot be connected to.  The crash handler is called, and the    *)
(* operation is never over: the scheduler stays busy.                       *)
Fail ==
  /\ AtRest
  /\ ~crashed
  /\ crashed' = TRUE
  /\ \E op \in inFlight : failed' = {op}
  /\ UNCHANGED <<role, roles, inputVars, passed, schedulerVars, consumer, appends,
                 reentered>>

(* Raft.close(): what is in progress is not interrupted.                    *)
Close ==
  /\ AtRest
  /\ role # "none"
  /\ role' = "none"
  /\ queue' = << >>
  /\ busy' = FALSE
  /\ consumer' = Stopped
  /\ appends' = Settled({"queued", "pending"})
  /\ UNCHANGED <<roles, inputVars, passed, running, inFlight, crashVars, reentered>>

-----------------------------------------------------------------------------
(* The program *)

(* One round of the inner loop of consumeNext().  The message stays where   *)
(* it is until the scheduler runs the item.                                 *)
Poll ==
  /\ ~running
  /\ consumer.at = "polling"
  /\ LET p    == consumer.index
         next == [consumer EXCEPT !.index = NextPeer(p)]
     IN  \/ /\ buffer[p] = << >>
            /\ consumer' = Advanced(next)
            /\ UNCHANGED schedulerVars
         \/ /\ buffer[p] # << >>
            /\ Asap(Item("message", p))
            /\ consumer' = [next EXCEPT !.repeat = TRUE,
                 !.at = IF running' THEN "direct" ELSE "waiting"]
  /\ UNCHANGED <<role, roles, inputVars, passed, crashVars, appends, reentered>>

(* No peer has a message.  Consumption resumes with the first peer.         *)
PollNonPeer ==
  /\ ~running
  /\ consumer.at = "nonPeer"
  /\ \/ /\ buffer[NonPeer] # << >>
        /\ Asap(Item("message", NonPeer))
        /\ consumer' = [Awaiting EXCEPT !.at = "waiting"]
     \/ /\ buffer[NonPeer] = << >>
        /\ consumer' = IF \A p \in Source : buffer[p] = << >> THEN Awaiting
                                                              ELSE Polling(0)
        /\ UNCHANGED schedulerVars
  /\ UNCHANGED <<role, roles, inputVars, passed, crashVars, appends, reentered>>

(* The message is taken and handed to the role.                             *)
Take(p) ==
  /\ handled' = [handled EXCEPT ![p] = Head(buffer[p])]
  /\ buffer' = [buffer EXCEPT ![p] = Tail(@)]
  /\ UNCHANGED arrived

Passes(p) ==
  passed' = [q \in Peer |-> IF q = p \/ buffer[q] = << >> THEN 0
                                                          ELSE passed[q] + 1]

(* A handler that returns a promise.                                        *)
Begins(item) ==
  /\ inFlight' = inFlight \union {item}
  /\ busy' = TRUE
  /\ running' = FALSE
  /\ queue' = Tail(queue)
  /\ consumer' = IF item.kind = "message"
                 THEN [consumer EXCEPT !.at = "waiting"] ELSE consumer
  /\ appends' = IF item.kind = "append"
                THEN [appends EXCEPT ![item.of] = "persisting"] ELSE appends
  /\ UNCHANGED <<role, roles>>

(* A faulty variant: only one item of the queue runs.                       *)
ReturnsFaulty(item) ==
  /\ queue' = Tail(queue)
  /\ running' = FALSE
  /\ consumer' = IF item.kind = "message" THEN Continued(consumer) ELSE consumer
  /\ UNCHANGED <<role, roles, busy, inFlight>>

(* A handler that does not: the scheduler runs the next item.               *)
Returns(item) ==
  /\ queue' = Tail(queue)
  /\ consumer' = IF item.kind = "message" THEN Continued(consumer) ELSE consumer
  /\ UNCHANGED <<role, roles, running, busy, inFlight>>

(* A leader's handler may commit, and hand the entry to a state machine     *)
(* that is idle; applyEntry() may then call append().  The scheduler does   *)
(* not know that it is running when it was not busy: it runs the append at  *)
(* once, and forgets that it did when the handler returns.                  *)
CommitsAndAppends(item) ==
  /\ role = "Leader"
  /\ \E entries \in SUBSET Pending \ {{}}, b \in 1 .. MaxAppends :
       /\ appends[b] = "none"
       /\ consumer' = Continued(consumer)
       /\ \/ /\ consumer.at = "direct"
             /\ appends' = [Committing(entries) EXCEPT ![b] = "persisting"]
             /\ inFlight' = inFlight \union {Item("append", b)}
             /\ queue' = Tail(queue)
             /\ reentered' = TRUE
          \/ /\ consumer.at # "direct"
             /\ appends' = [Committing(entries) EXCEPT ![b] = "queued"]
             /\ queue' = Append(Tail(queue), Item("append", b))
             /\ UNCHANGED <<inFlight, reentered>>
  /\ UNCHANGED <<role, roles, running, busy>>

(* A leader's handler may throw, and the crash handler is called.  A queue  *)
(* that is running stops there, and the scheduler stays busy; one that was  *)
(* not busy goes on with whatever comes next.  The consumer waits for good. *)
Throws(item) ==
  /\ role = "Leader"
  /\ ~crashed
  /\ crashed' = TRUE
  /\ running' = FALSE
  /\ queue' = Tail(queue)
  /\ consumer' = IF item.kind = "message"
                 THEN [consumer EXCEPT !.at = "waiting"] ELSE consumer
  /\ UNCHANGED <<role, roles, busy, inFlight, failed, appends>>

(* A message handler may also change the role before it returns, and a      *)
(* leader's may commit what it appended.                                    *)
RunMessage(item) ==
  /\ item.kind = "message"
  /\ Take(item.of)
  /\ \/ Begins(item) /\ Passes(item.of) /\ UNCHANGED <<crashVars, reentered>>
     \/ item.of \in Peer /\ Throws(item) /\ Passes(item.of) /\ UNCHANGED reentered
     \/ /\ item.of \in Peer
        /\ Returns(item)
        /\ Passes(item.of)
        /\ UNCHANGED <<crashVars, reentered>>
        /\ \/ UNCHANGED appends
           \/ /\ role = "Leader"
              /\ \E entries \in SUBSET Pending : appends' = Committing(entries)
     \/ /\ item.of \in Peer
        /\ CommitsAndAppends(item)
        /\ Passes(item.of)
        /\ UNCHANGED crashVars
     \/ /\ item.of \in Peer
        /\ role = "Candidate"
        /\ ChangeRole("Follower") \/ ChangeRole("Leader")
        /\ UNCHANGED <<inFlight, crashVars, reentered>>

RunTimer(item) ==
  /\ item.kind = "timer"
  /\ \/ role = "Candidate" /\ Begins(item) /\ UNCHANGED <<passed, crashVars>>
     \/ role # "Candidate" /\ Returns(item) /\ UNCHANGED <<appends, passed, crashVars>>
     \/ /\ role = "Follower"
        /\ ChangeRole("Candidate")
        /\ UNCHANGED <<inFlight, crashVars>>
     \/ Throws(item) /\ UNCHANGED passed
  /\ UNCHANGED <<inputVars, reentered>>

RunReplay(item) ==
  /\ item.kind = "replay"
  /\ \/ Begins(item)
     \/ Returns(item) /\ UNCHANGED appends
  /\ UNCHANGED <<inputVars, passed, crashVars, reentered>>

RunAppend(item) ==
  /\ item.kind = "append"
  /\ Begins(item)
  /\ UNCHANGED <<inputVars, passed, crashVars, reentered>>

RunNext ==
  /\ running
  /\ \/ /\ queue = << >>
        /\ running' = FALSE
        /\ busy' = FALSE
        /\ UNCHANGED <<role, roles, inputVars, passed, queue, inFlight, consumer,
                       appends, crashVars, reentered>>
     \/ /\ queue # << >>
        /\ LET item == Head(queue)
           IN  \/ RunMessage(item)
               \/ RunTimer(item)
               \/ RunReplay(item)
               \/ RunAppend(item)

-----------------------------------------------------------------------------
(* A server that joined its cluster is a follower.                          *)
Init ==
  /\ role = "Follower"
  /\ roles = 0
  /\ arrived = [p \in Source |-> 0]
  /\ buffer = [p \in Source |-> << >>]
  /\ handled = [p \in Source |-> 0]
  /\ queue = << >>
  /\ running = FALSE
  /\ busy = FALSE
  /\ inFlight = {}
  /\ failed = {}
  /\ crashed = FALSE
  /\ reentered = FALSE
  /\ consumer = Polling(0)
  /\ appends = [a \in 1 .. MaxAppends |-> "none"]
  /\ passed = [p \in Peer |-> 0]

Program == Poll \/ PollNonPeer \/ RunNext

Next ==
  \/ Program
  \/ Complete
  \/ Fail
  \/ \E p \in Source : Arrive(p)
  \/ \E a \in 1 .. MaxAppends : CallAppend(a) \/ Answer(a)
  \/ Timer
  \/ Close

(* The program runs, and what it persists or connects to settles.           *)
Spec == Init /\ [][Next]_vars /\ WF_vars(Program) /\ SF_vars(Complete \/ Fail)

-----------------------------------------------------------------------------
(* Properties *)

(* Every variable holds a value of the kind the code gives it.              *)
TypeOK ==
  /\ role \in {"Follower", "Candidate", "Leader", "none"}
  /\ arrived \in [Source -> Nat] /\ handled \in [Source -> Nat]
  /\ buffer \in [Source -> Seq(Nat)]
  /\ passed \in [Peer -> Nat]
  /\ {running, busy, crashed, reentered} \subseteq BOOLEAN
  /\ failed \subseteq inFlight
  /\ consumer \in [at : {"stopped", "polling", "direct", "nonPeer", "waiting",
                          "awaiting"},
                   start : Peer, index : Peer, repeat : BOOLEAN]
  /\ appends \in [1 .. MaxAppends ->
                   {"none", "queued", "persisting", "pending", "committed", "settled"}]

(* Messages are handled in order, none is lost or handled twice by a role   *)
(* change, and no two operations interleave (src/lib/Scheduler.js:1-2),     *)
(* until a state machine calls append() from within applyEntry().           *)
Work == INSTANCE Serial WITH
  Source    <- Source,
  arrived   <- arrived,
  handled   <- handled,
  inFlight  <- inFlight,
  reentered <- reentered

NothingInterleaves == Work!Spec

(* While a message of a peer waits, a role handles no more messages than    *)
(* one of each other peer and one from outside the cluster: however the     *)
(* queue of the scheduler and the two loops of consumeNext() meet, the next *)
(* peer is not starved (the comment at InputConsumer.js:78-79).             *)
NoPeerStarves == \A p \in Peer : passed[p] <= NPeers

(* Once a server is not, or no longer, the leader, no call of append() is   *)
(* left without anybody to answer it: it was rejected or fulfilled, or its  *)
(* entry was committed, which leaves the answer to the state machine, or    *)
(* its entry is being persisted, which will answer it.                      *)
AppendsAnswered ==
  role # "Leader" =>
    \A a \in 1 .. MaxAppends :
      appends[a] \in {"none", "settled", "committed"} \/ [kind |-> "append", of |-> a] \in
        {[kind |-> op.kind, of |-> op.of] : op \in inFlight}

(* Whatever arrives is handled, unless the server is closed or crashes: no  *)
(* wakeup is lost between a message, the operation that was in progress     *)
(* when it arrived and the role change that operation leads to.             *)
EverythingIsHandled ==
  \A p \in Source : buffer[p] # << >> ~> buffer[p] = << >> \/ role = "none" \/ crashed

=============================================================================
