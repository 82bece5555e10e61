---------------------------- MODULE ApplierProofs ----------------------------
(***************************************************************************)
(* Theorems about module Applier, for a log of any length and any number   *)
(* of commits.                                                             *)
(***************************************************************************)
EXTENDS Applier, SequenceTheorems, TLAPS

-----------------------------------------------------------------------------
(* What a queue says of the entries that are still to come *)

Queued == [kind : {"entry", "undefined", "finish"}, index : Nat]

EntryOf(item) == IF item.kind = "entry" THEN {item.index} ELSE {}

(* Before each entry of the queue come all the entries before it, unless   *)
(* they were taken already.                                                *)
Ordered(items, taken) ==
  \A p \in DOMAIN items : items[p].kind = "entry" =>
    \A j \in 1 .. items[p].index - 1 :
      j \in taken \/ \E q \in 1 .. p - 1 : items[q] = Item(j)

(* Every entry up to `last` was taken or is in the queue.                  *)
Covers(items, taken, last) ==
  \A j \in 1 .. last : j \in taken \/ \E q \in DOMAIN items : items[q] = Item(j)

(* Entries that may follow a queue that covers those up to `last`.         *)
Continues(items, last) ==
  \A p \in DOMAIN items : /\ items[p].kind = "entry"
                          /\ \A j \in 1 .. items[p].index - 1 :
                               j <= last \/ \E q \in 1 .. p - 1 : items[q] = Item(j)

(* The entry that is taken last has the index `last`.                      *)
EndsAt(first, rest, last) ==
  \/ /\ first.index = last
     /\ \A p \in DOMAIN rest : rest[p].kind # "entry"
  \/ \E p \in DOMAIN rest :
       /\ rest[p] = Item(last)
       /\ \A q \in DOMAIN rest : q > p => rest[q].kind # "entry"

(* An entry is its kind and its index.                                     *)
LEMMA ItemFacts ==
  /\ \A item \in Queued : item.kind = "entry" => item = Item(item.index)
  /\ \A i \in Nat : Item(i) \in Queued /\ Item(i).kind = "entry" /\ Item(i).index = i
  /\ NoEntry \in Queued /\ NoEntry.kind = "undefined"
  /\ \A i \in Nat : /\ FinishItem(i) \in Queued
                    /\ FinishItem(i).kind = "finish" /\ FinishItem(i).index = i
BY DEF Queued, Item, NoEntry, FinishItem

(* The order of a queue survives an item that is no entry.                 *)
LEMMA AppendedOther ==
  ASSUME NEW s \in Seq(Queued), NEW x \in Queued, x.kind # "entry", NEW taken
  PROVE  /\ Append(s, x) \in Seq(Queued)
         /\ DOMAIN Append(s, x) = 1 .. Len(s) + 1 /\ DOMAIN s = 1 .. Len(s)
         /\ Len(s) \in Nat /\ Len(Append(s, x)) = Len(s) + 1
         /\ Append(s, x)[Len(s) + 1] = x
         /\ \A p \in 1 .. Len(s) : Append(s, x)[p] = s[p]
         /\ Ordered(s, taken) => Ordered(Append(s, x), taken)
         /\ \A last : Covers(s, taken, last) => Covers(Append(s, x), taken, last)
<1> DEFINE new == Append(s, x)
<1>1. /\ new \in Seq(Queued) /\ Len(s) \in Nat /\ Len(new) = Len(s) + 1
      /\ DOMAIN s = 1 .. Len(s) /\ DOMAIN new = 1 .. Len(s) + 1
      /\ new[Len(s) + 1] = x
      /\ \A p \in 1 .. Len(s) : new[p] = s[p]
  BY AppendProperties
<1> HIDE DEF new
<1>2. ASSUME Ordered(s, taken) PROVE Ordered(new, taken)
  <2>1. ASSUME NEW p \in 1 .. Len(s) + 1, new[p].kind = "entry",
               NEW j \in 1 .. new[p].index - 1
        PROVE  j \in taken \/ \E q \in 1 .. p - 1 : new[q] = Item(j)
    <3>1. p \in 1 .. Len(s) /\ new[p] = s[p]
      BY <1>1, <2>1
    <3>2. \A q \in 1 .. p - 1 : new[q] = s[q]
      BY <1>1, <3>1
    <3>3. QED
      BY <1>1, <1>2, <2>1, <3>1, <3>2 DEF Ordered
  <2>2. QED
    BY <1>1, <2>1 DEF Ordered
<1>3. \A last : Covers(s, taken, last) => Covers(new, taken, last)
  BY <1>1 DEF Covers
<1>4. QED
  BY <1>1, <1>2, <1>3 DEF new

(* What is left of a queue when its head is taken.                         *)
LEMMA TakenHead ==
  ASSUME NEW s \in Seq(Queued), s # << >>, NEW taken, Ordered(s, taken)
  PROVE  /\ Head(s) \in Queued /\ Tail(s) \in Seq(Queued) /\ Head(s) = s[1]
         /\ Len(s) \in Nat /\ Len(s) >= 1 /\ DOMAIN s = 1 .. Len(s)
         /\ DOMAIN Tail(s) = 1 .. Len(s) - 1 /\ Len(Tail(s)) = Len(s) - 1
         /\ \A p \in 1 .. Len(s) - 1 : Tail(s)[p] = s[p + 1]
         /\ Head(s).kind = "entry" => \A j \in 1 .. Head(s).index - 1 : j \in taken
         /\ Ordered(Tail(s), taken \cup EntryOf(Head(s)))
         /\ \A last : Covers(s, taken, last) =>
                        Covers(Tail(s), taken \cup EntryOf(Head(s)), last)
<1> DEFINE rest == Tail(s)
<1>1. /\ Head(s) \in Queued /\ rest \in Seq(Queued) /\ Head(s) = s[1]
      /\ Len(s) \in Nat /\ Len(s) >= 1 /\ DOMAIN s = 1 .. Len(s)
      /\ DOMAIN rest = 1 .. Len(s) - 1 /\ Len(rest) = Len(s) - 1
      /\ \A p \in 1 .. Len(s) - 1 : rest[p] = s[p + 1]
  <2>1. /\ Len(s) \in Nat \ {0} /\ DOMAIN s = 1 .. Len(s)
    BY EmptySeq, LenProperties
  <2>2. /\ Head(s) \in Queued /\ rest \in Seq(Queued) /\ Len(rest) = Len(s) - 1
        /\ \A i \in 1 .. Len(rest) : rest[i] = s[i + 1]
    BY HeadTailProperties
  <2>3. DOMAIN rest = 1 .. Len(rest)
    BY <2>2, LenProperties
  <2>4. QED
    BY <2>1, <2>2, <2>3
<1> HIDE DEF rest
<1> DEFINE first == s[1]
<1>2. \A j \in Nat : Item(j) = first => j \in EntryOf(first)
  BY <1>1, ItemFacts DEF EntryOf
<1>3. first.kind = "entry" => \A j \in 1 .. first.index - 1 : j \in taken
  BY <1>1 DEF Ordered
<1>4. ASSUME NEW p \in 1 .. Len(s) - 1, rest[p].kind = "entry",
             NEW j \in 1 .. rest[p].index - 1
      PROVE  j \in taken \cup EntryOf(first) \/ \E q \in 1 .. p - 1 : rest[q] = Item(j)
  <2>1. p + 1 \in DOMAIN s /\ s[p + 1] = rest[p]
    BY <1>1
  <2>2. j \in taken \/ \E q \in 1 .. (p + 1) - 1 : s[q] = Item(j)
    BY <1>4, <2>1 DEF Ordered
  <2>3. ASSUME NEW q \in 1 .. p, s[q] = Item(j)
        PROVE  j \in EntryOf(first) \/ \E r \in 1 .. p - 1 : rest[r] = Item(j)
    <3>1. CASE q = 1
      BY <1>2, <2>3, <3>1
    <3>2. CASE q > 1
      <4>1. q - 1 \in 1 .. p - 1 /\ q - 1 \in 1 .. Len(s) - 1
        BY <1>1, <3>2
      <4>2. rest[q - 1] = s[q]
        BY <1>1, <4>1
      <4>3. QED
        BY <2>3, <4>1, <4>2
    <3>3. QED
      BY <3>1, <3>2
  <2>4. QED
    BY <2>2, <2>3
<1>5. Ordered(rest, taken \cup EntryOf(first))
  BY <1>1, <1>4 DEF Ordered
<1>6. ASSUME NEW last, Covers(s, taken, last), NEW j \in 1 .. last
      PROVE  j \in taken \cup EntryOf(first) \/ \E q \in DOMAIN rest : rest[q] = Item(j)
  <2>1. j \in taken \/ \E q \in 1 .. Len(s) : s[q] = Item(j)
    BY <1>1, <1>6 DEF Covers
  <2>2. ASSUME NEW q \in 1 .. Len(s), s[q] = Item(j)
        PROVE  j \in EntryOf(first) \/ \E r \in DOMAIN rest : rest[r] = Item(j)
    <3>1. CASE q = 1
      BY <1>2, <1>6, <2>2, <3>1
    <3>2. CASE q > 1
      <4>1. q - 1 \in 1 .. Len(s) - 1
        BY <1>1, <3>2
      <4>2. rest[q - 1] = s[q]
        BY <1>1, <4>1
      <4>3. QED
        BY <1>1, <2>2, <4>1, <4>2
    <3>3. QED
      BY <3>1, <3>2
  <2>3. QED
    BY <2>1, <2>2
<1>7. \A last : Covers(s, taken, last) => Covers(rest, taken \cup EntryOf(first), last)
  BY <1>6 DEF Covers
<1>8. QED
  BY <1>1, <1>3, <1>5, <1>7 DEF rest

(* What a commit adds to a queue.                                          *)
LEMMA AppendedEntries ==
  ASSUME NEW s \in Seq(Queued), NEW items \in Seq(Queued), NEW taken, NEW last \in Nat,
         Ordered(s, taken), Covers(s, taken, last), Continues(items, last)
  PROVE  /\ s \o items \in Seq(Queued) /\ Len(s \o items) = Len(s) + Len(items)
         /\ DOMAIN (s \o items) = 1 .. Len(s) + Len(items)
         /\ \A p \in 1 .. Len(s) : (s \o items)[p] = s[p]
         /\ \A p \in 1 .. Len(items) : (s \o items)[Len(s) + p] = items[p]
         /\ Ordered(s \o items, taken)
         /\ \A p \in DOMAIN items : Covers(s \o items, taken, items[p].index)
<1> DEFINE all == s \o items
<1>1. /\ Len(s) \in Nat /\ DOMAIN s = 1 .. Len(s)
      /\ Len(items) \in Nat /\ DOMAIN items = 1 .. Len(items)
      /\ all \in Seq(Queued) /\ Len(all) = Len(s) + Len(items)
      /\ DOMAIN all = 1 .. Len(s) + Len(items)
      /\ \A p \in 1 .. Len(s) + Len(items) :
           all[p] = IF p <= Len(s) THEN s[p] ELSE items[p - Len(s)]
  <2>1. /\ all \in Seq(Queued) /\ Len(all) = Len(s) + Len(items)
        /\ \A p \in 1 .. Len(s) + Len(items) :
             all[p] = IF p <= Len(s) THEN s[p] ELSE items[p - Len(s)]
    BY ConcatProperties
  <2> HIDE DEF all
  <2>2. QED
    BY <2>1, LenProperties
<1> HIDE DEF all
<1>2. \A p \in 1 .. Len(s) : all[p] = s[p]
  BY <1>1
<1>3. ASSUME NEW p \in 1 .. Len(items)
      PROVE  Len(s) + p \in 1 .. Len(s) + Len(items) /\ all[Len(s) + p] = items[p]
  <2>1. Len(s) + p \in 1 .. Len(s) + Len(items) /\ ~(Len(s) + p <= Len(s))
        /\ Len(s) + p - Len(s) = p
    BY <1>1
  <2>2. QED
    BY <1>1, <2>1
<1>4. ASSUME NEW p \in 1 .. Len(items), NEW j \in 1 .. items[p].index - 1
      PROVE  \/ j \in taken
             \/ \E q \in 1 .. Len(s) + p - 1 : q \in DOMAIN all /\ all[q] = Item(j)
  <2>1. j <= last \/ \E q \in 1 .. p - 1 : items[q] = Item(j)
    BY <1>1 DEF Continues
  <2>2. CASE j <= last
    <3>1. j \in 1 .. last
      BY <2>2
    <3>2. j \in taken \/ \E q \in 1 .. Len(s) : s[q] = Item(j)
      BY <1>1, <3>1 DEF Covers
    <3>3. 1 .. Len(s) \subseteq 1 .. Len(s) + p - 1 /\ 1 .. Len(s) \subseteq DOMAIN all
      BY <1>1
    <3>4. QED
      BY <1>2, <3>2, <3>3
  <2>3. ASSUME NEW q \in 1 .. p - 1, items[q] = Item(j)
        PROVE  \E r \in 1 .. Len(s) + p - 1 : r \in DOMAIN all /\ all[r] = Item(j)
    <3>1. q \in 1 .. Len(items) /\ Len(s) + q \in 1 .. Len(s) + p - 1
      BY <1>1
    <3>2. QED
      BY <1>1, <1>3, <2>3, <3>1
  <2>4. QED
    BY <2>1, <2>2, <2>3
<1>5. Ordered(all, taken)
  <2>1. ASSUME NEW p \in 1 .. Len(s) + Len(items), all[p].kind = "entry",
               NEW j \in 1 .. all[p].index - 1
        PROVE  j \in taken \/ \E q \in 1 .. p - 1 : all[q] = Item(j)
    <3>1. CASE p <= Len(s)
      <4>1. p \in 1 .. Len(s) /\ all[p] = s[p] /\ \A q \in 1 .. p - 1 : all[q] = s[q]
        BY <1>1, <1>2, <3>1
      <4>2. QED
        BY <1>1, <2>1, <4>1 DEF Ordered
    <3>2. CASE p > Len(s)
      <4>1. p - Len(s) \in 1 .. Len(items) /\ Len(s) + (p - Len(s)) = p
        BY <1>1, <3>2
      <4>2. all[p] = items[p - Len(s)]
        BY <1>3, <4>1
      <4>3. Len(s) + (p - Len(s)) - 1 = p - 1
        BY <1>1
      <4>4. QED
        BY <1>4, <2>1, <4>1, <4>2, <4>3
    <3>3. QED
      BY <1>1, <3>1, <3>2
  <2>2. QED
    BY <1>1, <2>1 DEF Ordered
<1>6. ASSUME NEW p \in 1 .. Len(items), NEW j \in 1 .. items[p].index
      PROVE  j \in taken \/ \E q \in DOMAIN all : all[q] = Item(j)
  <2>1. items[p] \in Queued /\ items[p].kind = "entry"
    BY <1>1 DEF Continues
  <2>2. items[p].index \in Nat /\ items[p] = Item(items[p].index)
    BY <2>1, ItemFacts DEF Queued
  <2>3. CASE j = items[p].index
    BY <1>1, <1>3, <2>2, <2>3
  <2>4. CASE j # items[p].index
    <3>1. j \in 1 .. items[p].index - 1
      BY <2>2, <2>4
    <3>2. QED
      BY <1>4, <3>1
  <2>5. QED
    BY <2>3, <2>4
<1>7. \A p \in DOMAIN items : Covers(all, taken, items[p].index)
  BY <1>1, <1>6 DEF Covers
<1>8. QED
  BY <1>1, <1>2, <1>3, <1>5, <1>7 DEF all

-----------------------------------------------------------------------------
(* The invariant *)

(* The entries that the state machine applied or is applying.              *)
Taken == Range(applied) \cup EntryOf(current)

ApplierType ==
  /\ role \in {"Follower", "Leader"}
  /\ commitIndex \in Nat /\ electedAt \in Nat /\ lastIndex \in Nat /\ storedIndex \in Nat
  /\ lastApplied \in Nat /\ lastQueued \in Nat /\ allowed \in Nat /\ commits \in Nat
  /\ queue \in Seq(Queued)
  /\ current \in [kind : {"nothing", "entry", "undefined"}, index : Nat]
  /\ current.kind = "nothing" => current = Nothing
  /\ finished \in {"no", "waiting", "yes", "never"}
  /\ crashed \in BOOLEAN
  /\ applied \in Seq(Nat)

(* What was taken was committed, and so was everything before it applied.  *)
TakenInOrder ==
  \A i \in Taken : i \in 1 .. allowed /\ \A j \in 1 .. i - 1 : j \in Range(applied)

(* So it will be for what is queued, and a commit can rely on it.          *)
QueuedInOrder ==
  /\ \A p \in DOMAIN queue : queue[p].kind = "entry" => queue[p].index \in 1 .. allowed
  /\ Ordered(queue, Taken)
  /\ finished \in {"no", "waiting"} => Covers(queue, Taken, lastQueued)

(* The applier stops at the entry that was queued last, or at the fake     *)
(* entry of finish(), which stands for it and comes after all others.      *)
EndsInOrder ==
  /\ finished = "no" =>
       /\ current.kind = "nothing" => lastApplied = lastQueued
       /\ current.kind = "entry" => EndsAt(current, queue, lastQueued)
       /\ \A p \in DOMAIN queue : queue[p].kind # "finish"
  /\ finished = "waiting" =>
       /\ current.kind # "nothing"
       /\ \E p \in DOMAIN queue : queue[p].kind = "finish"
  /\ finished = "yes" =>
       /\ current.kind = "nothing" /\ lastApplied = lastQueued
       /\ \A i \in 1 .. lastQueued : i \in Range(applied)
  /\ \A p \in DOMAIN queue : queue[p].kind = "finish" =>
       finished = "waiting" /\ queue[p].index = lastQueued /\ p = Len(queue)

(* An idle applier has nothing before it but missing entries, and a role   *)
(* has committed no more than was queued, unless the applier is stuck.     *)
NothingForgotten ==
  /\ current.kind = "nothing" => \A p \in DOMAIN queue : queue[p].kind = "undefined"
  /\ current.kind # "undefined" => commitIndex <= lastQueued

ApplierInv ==
  /\ ApplierType /\ TakenInOrder /\ QueuedInOrder /\ EndsInOrder /\ NothingForgotten

(* Nothing is queued at first.                                             *)
LEMMA ApplierInitInv == ASSUME Init PROVE ApplierInv
<1>1. /\ queue = << >> /\ applied = << >> /\ current = Nothing /\ DOMAIN queue = {}
      /\ Nothing.kind = "nothing" /\ Nothing.index = 0
      /\ Range(applied) = {} /\ Taken = {}
  BY DEF Init, Nothing, Range, Taken, EntryOf
<1>2. ApplierType
  <2>1. /\ queue \in Seq(Queued) /\ applied \in Seq(Nat)
    BY <1>1
  <2>2. current \in [kind : {"nothing", "entry", "undefined"}, index : Nat]
    BY <1>1 DEF Nothing
  <2>3. QED
    BY <1>1, <2>1, <2>2 DEF Init, ApplierType
<1>3. TakenInOrder
  BY <1>1 DEF TakenInOrder
<1>4. QueuedInOrder
  BY <1>1 DEF Init, QueuedInOrder, Ordered, Covers
<1>5. EndsInOrder /\ NothingForgotten
  BY <1>1 DEF Init, EndsInOrder, NothingForgotten
<1>6. QED
  BY <1>2, <1>3, <1>4, <1>5 DEF ApplierInv

-----------------------------------------------------------------------------
(* commit() *)

Entries(index) ==
  [i \in 1 .. Len(IndexesUntil(index)) |-> Item(IndexesUntil(index)[i])]

(* The entries that a commit enqueues go on where the queue ends, and end  *)
(* with the one that is committed.                                         *)
LEMMA EntriesContinue ==
  ASSUME NEW index \in Nat, index # 0, lastQueued \in Nat
  PROVE  LET items == Entries(index)
         IN  /\ items \in Seq(Queued) /\ Len(items) \in Nat /\ Len(items) >= 1
             /\ DOMAIN items = 1 .. Len(items)
             /\ \A p \in 1 .. Len(items) :
                  items[p].kind = "entry" /\ items[p].index \in 1 .. index
             /\ items[Len(items)] = Item(index)
             /\ Continues(items, lastQueued)
<1> DEFINE items == Entries(index)
<1>1. CASE index <= lastQueued
  <2>1. IndexesUntil(index) = << index >>
    BY <1>1 DEF IndexesUntil
  <2>2. items = [i \in 1 .. 1 |-> Item(index)]
    BY <2>1 DEF Entries
  <2> HIDE DEF items
  <2>3. /\ items \in Seq(Queued) /\ Len(items) = 1
        /\ items[1] = Item(index) /\ DOMAIN items = 1 .. 1
    <3>1. items \in [1 .. 1 -> Queued]
      BY <2>2, ItemFacts
    <3>2. QED
      BY <2>2, <3>1, SeqDef
  <2>4. items[1].kind = "entry" /\ items[1].index = index
    BY <2>3, ItemFacts
  <2>5. Continues(items, lastQueued)
    BY <1>1, <2>3, <2>4 DEF Continues
  <2>6. QED
    BY <2>3, <2>4, <2>5 DEF items
<1>2. CASE index > lastQueued
  <2> DEFINE n == index - lastQueued
  <2>1. n \in Nat /\ n >= 1
    BY <1>2
  <2>2. IndexesUntil(index) = [i \in 1 .. n |-> lastQueued + i]
    BY <1>2 DEF IndexesUntil
  <2>3. Len(IndexesUntil(index)) = n
    <3>1. [i \in 1 .. n |-> lastQueued + i] \in [1 .. n -> Nat]
      BY <2>1
    <3> HIDE DEF n
    <3>2. QED
      BY <2>1, <2>2, <3>1, SeqDef
  <2> HIDE DEF n
  <2>4. items = [i \in 1 .. n |-> Item(lastQueued + i)]
    BY <2>2, <2>3 DEF Entries
  <2> HIDE DEF items
  <2>5. /\ items \in Seq(Queued) /\ Len(items) = n /\ DOMAIN items = 1 .. n
        /\ \A i \in 1 .. n : items[i] = Item(lastQueued + i)
    <3>1. items \in [1 .. n -> Queued]
      BY <2>1, <2>4, ItemFacts
    <3>2. items \in Seq(Queued)
      BY <2>1, <3>1, SeqDef
    <3>3. DOMAIN items = 1 .. n /\ \A i \in 1 .. n : items[i] = Item(lastQueued + i)
      BY <2>4
    <3>4. Len(items) = n
      BY <2>1, <3>2, <3>3
    <3>5. QED
      BY <3>2, <3>3, <3>4
  <2>6. \A i \in 1 .. n : /\ items[i].kind = "entry" /\ items[i].index = lastQueued + i
                          /\ items[i].index \in 1 .. index
    BY <2>1, <2>5, ItemFacts DEF n
  <2>7. items[n] = Item(index)
    BY <2>1, <2>5 DEF n
  <2>8. ASSUME NEW p \in 1 .. n, NEW j \in 1 .. items[p].index - 1, ~(j <= lastQueued)
        PROVE  \E q \in 1 .. p - 1 : items[q] = Item(j)
    <3>1. j - lastQueued \in 1 .. p - 1 /\ j - lastQueued \in 1 .. n
      BY <2>1, <2>6, <2>8
    <3>2. lastQueued + (j - lastQueued) = j
      BY <2>8, <2>6
    <3>3. QED
      BY <2>5, <3>1, <3>2
  <2>9. Continues(items, lastQueued)
    BY <2>5, <2>6, <2>8 DEF Continues
  <2>10. QED
    BY <2>1, <2>5, <2>6, <2>7, <2>9 DEF items
<1>3. QED
  BY <1>1, <1>2

(* commit() keeps the invariant, whatever else its caller does to the role *)
(* and the log.                                                            *)
LEMMA CommitInv ==
  ASSUME ApplierInv, NEW index \in Nat, finished = "no", Commit(index),
         commitIndex' = index, role' \in {"Follower", "Leader"}, electedAt' \in Nat,
         lastIndex' \in Nat, storedIndex' \in Nat
  PROVE  ApplierInv'
<1>1. /\ ApplierType /\ TakenInOrder /\ QueuedInOrder /\ EndsInOrder /\ NothingForgotten
      /\ UNCHANGED <<lastApplied, finished, crashed, applied>>
      /\ lastQueued \in Nat /\ allowed \in Nat /\ queue \in Seq(Queued)
      /\ Covers(queue, Taken, lastQueued) /\ Ordered(queue, Taken)
  BY DEF ApplierInv, Commit, ApplierType, QueuedInOrder
<1>2. /\ allowed' \in Nat /\ allowed' >= allowed /\ allowed' >= index /\ commits' \in Nat
  BY <1>1 DEF Commit, ApplierType
<1>3. ASSUME ApplierType', TakenInOrder', QueuedInOrder', EndsInOrder', NothingForgotten'
      PROVE  ApplierInv'
  BY <1>3 DEF ApplierInv
<1>4. CASE index = 0
  <2>1. queue' = Append(queue, NoEntry) /\ UNCHANGED <<current, lastQueued>>
    BY <1>4 DEF Commit
  <2>2. /\ queue' \in Seq(Queued) /\ Len(queue) \in Nat
        /\ DOMAIN queue' = 1 .. Len(queue) + 1 /\ DOMAIN queue = 1 .. Len(queue)
        /\ queue'[Len(queue) + 1].kind = "undefined"
        /\ \A p \in 1 .. Len(queue) : queue'[p] = queue[p]
        /\ Ordered(queue', Taken) /\ Covers(queue', Taken, lastQueued)
    BY <1>1, <2>1, ItemFacts, AppendedOther
  <2>3. ApplierType'
    BY <1>1, <1>2, <2>1, <2>2 DEF ApplierType
  <2>4. Taken' = Taken
    BY <1>1, <2>1 DEF Taken
  <2>5. TakenInOrder'
    BY <1>1, <1>2, <2>4 DEF TakenInOrder
  <2>6. QueuedInOrder'
    <3>1. \A p \in DOMAIN queue' :
            queue'[p].kind = "entry" => queue'[p].index \in 1 .. allowed'
      <4>1. ASSUME NEW p \in 1 .. Len(queue) + 1, queue'[p].kind = "entry"
            PROVE  queue'[p].index \in 1 .. allowed'
        <5>1. p \in 1 .. Len(queue) /\ queue'[p] = queue[p]
          BY <2>2, <4>1
        <5>2. queue[p].index \in 1 .. allowed
          BY <1>1, <2>2, <4>1, <5>1 DEF QueuedInOrder
        <5>3. QED
          BY <1>1, <1>2, <5>1, <5>2
      <4>2. QED
        BY <2>2, <4>1
    <3>2. QED
      BY <2>1, <2>2, <2>4, <3>1 DEF QueuedInOrder
  <2>7. EndsInOrder'
    <3>1. current.kind = "entry" => EndsAt(current, queue', lastQueued)
      <4>1. SUFFICES ASSUME current.kind = "entry"
                     PROVE  EndsAt(current, queue', lastQueued)
        OBVIOUS
      <4>2. EndsAt(current, queue, lastQueued)
        BY <1>1, <4>1 DEF EndsInOrder
      <4>3. QED
        BY <2>2, <4>2, SMTT(40) DEF EndsAt
    <3>2. \A p \in DOMAIN queue' : queue'[p].kind # "finish"
      BY <1>1, <2>2 DEF EndsInOrder
    <3>3. finished' = "no"
      BY <1>1
    <3>4. QED
      BY <1>1, <2>1, <3>1, <3>2, <3>3 DEF EndsInOrder
  <2>8. NothingForgotten'
    <3>1. current.kind = "nothing" =>
            \A p \in DOMAIN queue' : queue'[p].kind = "undefined"
      BY <1>1, <2>2 DEF NothingForgotten
    <3>2. QED
      BY <1>1, <1>4, <2>1, <3>1 DEF NothingForgotten
  <2>9. QED
    BY <1>3, <2>3, <2>5, <2>6, <2>7, <2>8
<1>5. CASE index # 0
  <2> DEFINE items == Entries(index)
             n     == Len(items)
             stuck == ~Busy /\ queue # << >>
             all   == queue \o IF stuck THEN << Head(items) >> ELSE items
  <2>1. /\ items \in Seq(Queued) /\ n \in Nat /\ n >= 1 /\ DOMAIN items = 1 .. n
        /\ \A p \in 1 .. n : items[p].kind = "entry" /\ items[p].index \in 1 .. index
        /\ items[n] = Item(index) /\ Continues(items, lastQueued)
    BY <1>1, <1>5, EntriesContinue
  <2>2. /\ lastQueued' = Last(all).index
        /\ current' = IF Busy THEN current ELSE Head(all)
        /\ queue' = IF Busy THEN all ELSE Tail(all)
    BY <1>5 DEF Commit, Entries
  <2> HIDE DEF items, n
  <2> DEFINE added == IF stuck THEN << Head(items) >> ELSE items
             m     == Len(added)
  <2>3. /\ added \in Seq(Queued) /\ m \in Nat /\ m >= 1 /\ DOMAIN added = 1 .. m
        /\ \A p \in 1 .. m : added[p].kind = "entry" /\ added[p].index \in 1 .. index
        /\ Continues(added, lastQueued)
        /\ added[m] \in Queued /\ added[m].index \in Nat
        /\ ~stuck => added[m].index = index
    <3>1. CASE stuck
      <4>1. Head(items) = items[1] /\ items[1] \in Queued
        BY <2>1, HeadTailProperties
      <4>2. added = << items[1] >>
        BY <3>1, <4>1
      <4> HIDE DEF added, stuck
      <4>3. /\ added \in Seq(Queued) /\ Len(added) = 1 /\ added[1] = items[1]
            /\ DOMAIN added = 1 .. 1
        BY <4>1, <4>2
      <4>4. Continues(added, lastQueued)
        BY <2>1, <4>3 DEF Continues
      <4>5. items[1].kind = "entry" /\ items[1].index \in 1 .. index
        BY <2>1
      <4>6. QED
        BY <3>1, <4>1, <4>3, <4>4, <4>5
    <3>2. CASE ~stuck
      <4>1. added = items /\ m = n
        BY <3>2 DEF n
      <4>2. items[n] \in Queued /\ items[n].index = index
        BY <2>1, ItemFacts
      <4> HIDE DEF added, stuck, m
      <4>3. QED
        BY <2>1, <4>1, <4>2
    <3>3. QED
      BY <3>1, <3>2
  <2> DEFINE last == added[m].index
  <2> HIDE DEF added, m
  <2>4. /\ all \in Seq(Queued) /\ Len(all) = Len(queue) + m /\ Len(queue) \in Nat
        /\ DOMAIN all = 1 .. Len(queue) + m /\ DOMAIN queue = 1 .. Len(queue)
        /\ \A p \in 1 .. Len(queue) : all[p] = queue[p]
        /\ \A p \in 1 .. m : all[Len(queue) + p] = added[p]
        /\ Ordered(all, Taken) /\ Covers(all, Taken, last)
    <3>1. all = queue \o added
      BY DEF added
    <3>2. m \in DOMAIN added
      BY <2>3
    <3> HIDE DEF all
    <3>3. Len(queue) \in Nat /\ DOMAIN queue = 1 .. Len(queue)
      BY <1>1, LenProperties
    <3>4. QED
      BY <1>1, <2>3, <3>1, <3>2, <3>3, AppendedEntries DEF m
  <2> HIDE DEF all
  <2>5. /\ Len(queue) + m \in DOMAIN all /\ all[Len(queue) + m] = added[m]
        /\ added[m].kind = "entry" /\ all # << >>
        /\ lastQueued' = last /\ last \in Nat
    <3>1. Len(queue) + m \in DOMAIN all /\ all[Len(queue) + m] = added[m]
      BY <2>3, <2>4
    <3>2. Last(all) = all[Len(queue) + m]
      BY <2>4 DEF Last
    <3>3. QED
      BY <2>2, <2>3, <3>1, <3>2
  <2>6. ASSUME NEW p \in DOMAIN all
        PROVE  /\ all[p].kind = "entry" => all[p].index \in 1 .. allowed'
               /\ all[p].kind # "finish"
    <3>1. CASE p \in 1 .. Len(queue)
      <4>1. /\ all[p] = queue[p] /\ queue[p].kind # "finish"
            /\ queue[p].kind = "entry" => queue[p].index \in 1 .. allowed
        BY <1>1, <2>4, <3>1 DEF QueuedInOrder, EndsInOrder
      <4>2. QED
        BY <1>1, <1>2, <4>1
    <3>2. CASE p \notin 1 .. Len(queue)
      <4>1. p - Len(queue) \in 1 .. m /\ Len(queue) + (p - Len(queue)) = p
        BY <2>3, <2>4, <3>2
      <4>2. all[p] = added[p - Len(queue)]
        BY <2>4, <4>1
      <4>3. QED
        BY <1>2, <2>3, <4>1, <4>2, SMTT(40)
    <3>3. QED
      BY <3>1, <3>2
  <2>7. finished' = "no"
    BY <1>1
  <2>8. CASE Busy
    <3>1. queue' = all /\ current' = current /\ Taken' = Taken
      BY <1>1, <2>2, <2>8 DEF Taken
    <3>2. current.kind # "nothing"
      BY <1>1, <2>8 DEF Busy, ApplierType
    <3>3. ApplierType'
      BY <1>1, <1>2, <2>4, <2>5, <3>1 DEF ApplierType
    <3>4. TakenInOrder'
      BY <1>1, <1>2, <3>1 DEF TakenInOrder
    <3>5. QueuedInOrder'
      BY <2>4, <2>5, <2>6, <3>1 DEF QueuedInOrder
    <3>6. EndsAt(current, all, last)
      <4>1. all[Len(queue) + m] = Item(last)
        BY <2>3, <2>5, ItemFacts
      <4>2. \A q \in DOMAIN all : ~(q > Len(queue) + m)
        BY <2>3, <2>4
      <4>3. QED
        BY <2>5, <4>1, <4>2 DEF EndsAt
    <3>7. EndsInOrder'
      BY <2>5, <2>6, <2>7, <3>1, <3>2, <3>6 DEF EndsInOrder
    <3>8. ~stuck
      BY <2>8
    <3>9. NothingForgotten'
      BY <2>3, <2>5, <3>1, <3>2, <3>8 DEF NothingForgotten
    <3>10. QED
      BY <1>3, <3>3, <3>4, <3>5, <3>7, <3>9
  <2>9. CASE ~Busy
    <3>1. /\ queue' = Tail(all) /\ current' = Head(all) /\ current = Nothing
          /\ current.kind = "nothing"
      BY <2>2, <2>9 DEF Busy, Nothing
    <3>2. /\ Head(all) \in Queued /\ Tail(all) \in Seq(Queued) /\ Head(all) = all[1]
          /\ DOMAIN Tail(all) = 1 .. Len(all) - 1
          /\ \A p \in 1 .. Len(all) - 1 : Tail(all)[p] = all[p + 1]
          /\ Head(all).kind = "entry" => \A j \in 1 .. Head(all).index - 1 : j \in Taken
          /\ Ordered(Tail(all), Taken \cup EntryOf(Head(all)))
          /\ Covers(Tail(all), Taken \cup EntryOf(Head(all)), last)
      BY <2>4, <2>5, TakenHead
    <3>3. Taken = Range(applied) /\ Taken' = Taken \cup EntryOf(Head(all))
      BY <1>1, <3>1 DEF Taken, EntryOf
    <3>4. 1 \in DOMAIN all /\ Head(all).kind \in {"entry", "undefined"}
      <4>1. 1 \in DOMAIN all
        BY <2>3, <2>4
      <4>2. all[1].kind # "finish"
        BY <2>6, <4>1
      <4>3. QED
        BY <3>2, <4>1, <4>2 DEF Queued
    <3>5. ApplierType'
      <4>1. current' \in [kind : {"nothing", "entry", "undefined"}, index : Nat]
        BY <3>1, <3>2, <3>4 DEF Queued
      <4>2. current'.kind # "nothing"
        BY <3>1, <3>4
      <4>3. QED
        BY <1>1, <1>2, <2>5, <3>1, <3>2, <4>1, <4>2 DEF ApplierType
    <3>6. TakenInOrder'
      <4>1. ASSUME NEW i \in Taken
            PROVE  i \in 1 .. allowed' /\ \A j \in 1 .. i - 1 : j \in Range(applied)
        <5>1. i \in 1 .. allowed /\ \A j \in 1 .. i - 1 : j \in Range(applied)
          BY <1>1 DEF TakenInOrder
        <5>2. QED
          BY <1>1, <1>2, <5>1
      <4>2. ASSUME NEW i \in EntryOf(Head(all))
            PROVE  i \in 1 .. allowed' /\ \A j \in 1 .. i - 1 : j \in Range(applied)
        <5>1. Head(all).kind = "entry" /\ i = Head(all).index
          BY DEF EntryOf
        <5>2. QED
          BY <2>6, <3>2, <3>3, <3>4, <5>1
      <4>3. QED
        BY <1>1, <3>3, <4>1, <4>2 DEF TakenInOrder
    <3>7. ASSUME NEW p \in DOMAIN queue'
          PROVE  p + 1 \in DOMAIN all /\ queue'[p] = all[p + 1]
      BY <2>3, <2>4, <3>1, <3>2
    <3>8. QueuedInOrder'
      BY <2>5, <2>6, <3>1, <3>2, <3>3, <3>7 DEF QueuedInOrder
    <3>9. EndsInOrder'
      <4>1. current'.kind = "entry" => EndsAt(current', queue', last)
        <5>1. CASE Len(all) = 1
          <6>1. Len(queue) + m = 1
            BY <2>4, <5>1
          <6>2. Head(all) = added[m] /\ DOMAIN Tail(all) = {}
            BY <2>5, <3>2, <5>1, <6>1
          <6>3. QED
            BY <3>1, <6>2 DEF EndsAt
        <5>2. CASE Len(all) # 1
          <6> DEFINE k == Len(all) - 1
          <6>1. k \in 1 .. Len(all) - 1 /\ k + 1 = Len(queue) + m
            BY <2>3, <2>4, <5>2
          <6>2. queue'[k] = Item(last)
            BY <2>3, <2>5, <3>1, <3>2, <6>1, ItemFacts
          <6>3. k \in DOMAIN queue' /\ \A q \in DOMAIN queue' : ~(q > k)
            BY <2>3, <2>4, <3>1, <3>2, <6>1, SMTT(40)
          <6>4. QED
            BY <6>2, <6>3 DEF EndsAt
        <5>3. QED
          BY <5>1, <5>2
      <4>2. \A p \in DOMAIN queue' : queue'[p].kind # "finish"
        BY <2>6, <3>7
      <4>3. current'.kind # "nothing"
        BY <3>1, <3>4
      <4>4. QED
        BY <2>5, <2>7, <4>1, <4>2, <4>3 DEF EndsInOrder
    <3>10. NothingForgotten'
      <4>1. CASE stuck
        <5>1. 1 \in 1 .. Len(queue) /\ queue[1].kind = "undefined"
          <6>1. queue # << >>
            BY <4>1
          <6>2. Len(queue) # 0
            BY <1>1, <6>1, EmptySeq
          <6>3. QED
            BY <1>1, <2>4, <3>1, <6>1, <6>2 DEF NothingForgotten
        <5>2. current'.kind = "undefined"
          BY <2>4, <3>1, <3>2, <5>1
        <5>3. QED
          BY <5>2 DEF NothingForgotten
      <4>2. CASE ~stuck
        <5>1. lastQueued' = index
          BY <2>3, <2>5, <4>2
        <5>2. current'.kind # "nothing"
          BY <3>1, <3>4
        <5>3. QED
          BY <5>1, <5>2 DEF NothingForgotten
      <4>3. QED
        BY <4>1, <4>2
    <3>11. QED
      BY <1>3, <3>5, <3>6, <3>8, <3>9, <3>10
  <2>10. QED
    BY <2>8, <2>9
<1>6. QED
  BY <1>4, <1>5

-----------------------------------------------------------------------------
(* The callers of commit(), and those that leave the applier alone *)

(* Roles and logs change under the applier.                                *)
LEMMA CallersInv ==
  ASSUME ApplierInv,
         \/ \E prevLogIndex, leaderCommit \in 0 .. MaxIndex :
              FollowerHandleAppendEntries(prevLogIndex, leaderCommit)
         \/ LeaderCommits \/ LogGrows \/ ChangeRole
  PROVE  ApplierInv'
<1>1. ApplierType
  BY DEF ApplierInv
<1>2. ASSUME UNCHANGED <<applierVars, historyVars>>, commitIndex' \in {0, commitIndex},
             role' \in {"Follower", "Leader"}, electedAt' \in Nat,
             lastIndex' \in Nat, storedIndex' \in Nat
      PROVE  ApplierInv'
  <2>1. /\ UNCHANGED <<queue, current, lastApplied, lastQueued, finished, crashed, applied>>
        /\ UNCHANGED <<allowed, commits>> /\ Taken' = Taken
    BY <1>2 DEF applierVars, historyVars, Taken
  <2>2. ApplierType'
    BY <1>1, <1>2, <2>1 DEF ApplierType
  <2>3. TakenInOrder' /\ QueuedInOrder' /\ EndsInOrder'
    BY <2>1 DEF ApplierInv, TakenInOrder, QueuedInOrder, EndsInOrder
  <2>4. NothingForgotten'
    BY <1>1, <1>2, <2>1 DEF ApplierInv, ApplierType, NothingForgotten
  <2>5. QED
    BY <2>2, <2>3, <2>4 DEF ApplierInv
<1>3. ASSUME NEW prevLogIndex \in 0 .. MaxIndex, NEW leaderCommit \in 0 .. MaxIndex,
             FollowerHandleAppendEntries(prevLogIndex, leaderCommit)
      PROVE  ApplierInv'
  <2>1. /\ finished = "no" /\ prevLogIndex \in Nat /\ lastIndex' = prevLogIndex
        /\ UNCHANGED <<role, electedAt, storedIndex>>
    BY <1>3, ApplierAssumption DEF FollowerHandleAppendEntries, Running
  <2>2. CASE leaderCommit > commitIndex
    <3>1. /\ commitIndex' = Min2(leaderCommit, prevLogIndex) /\ Commit(commitIndex')
          /\ Min2(leaderCommit, prevLogIndex) \in Nat
      BY <1>1, <1>3, <2>2, ApplierAssumption
         DEF FollowerHandleAppendEntries, Min2, ApplierType
    <3>2. PICK index \in Nat : commitIndex' = index
      BY <3>1
    <3>3. QED
      BY <1>1, <2>1, <3>1, <3>2, CommitInv DEF ApplierType
  <2>3. CASE UNCHANGED <<commitIndex, applierVars, historyVars>>
    BY <1>1, <1>2, <2>1, <2>3 DEF ApplierType
  <2>4. QED
    BY <1>3, <2>2, <2>3 DEF FollowerHandleAppendEntries
<1>4. CASE LeaderCommits
  <2>1. PICK index \in Nat : commitIndex' = index /\ Commit(index)
    BY <1>1, <1>4 DEF LeaderCommits, ApplierType
  <2>2. finished = "no" /\ UNCHANGED <<role, electedAt, lastIndex, storedIndex>>
    BY <1>4 DEF LeaderCommits, Running, logVars
  <2>3. QED
    BY <1>1, <2>1, <2>2, CommitInv DEF ApplierType
<1>5. CASE LogGrows
  BY <1>1, <1>2, <1>5 DEF LogGrows, roleVars, ApplierType
<1>6. CASE ChangeRole
  BY <1>1, <1>2, <1>6 DEF ChangeRole, logVars, ApplierType
<1>7. QED
  BY <1>3, <1>4, <1>5, <1>6

(* close() queues the fake entry, or finds the applier idle.               *)
LEMMA CloseInv == ASSUME ApplierInv, Close PROVE ApplierInv'
<1>1. /\ ApplierType /\ TakenInOrder /\ QueuedInOrder /\ EndsInOrder /\ NothingForgotten
      /\ finished = "no" /\ lastQueued \in Nat /\ queue \in Seq(Queued)
      /\ UNCHANGED <<role, commitIndex, electedAt, lastIndex, storedIndex, current,
                     lastApplied, lastQueued, crashed, applied, allowed, commits>>
      /\ Finish
  BY DEF ApplierInv, ApplierType, Close, Running, roleVars, logVars, historyVars
<1>2. Taken' = Taken
  BY <1>1 DEF Taken
<1>3. TakenInOrder'
  BY <1>1, <1>2 DEF TakenInOrder
<1>4. CASE ~Busy /\ finished' = "yes" /\ UNCHANGED queue
  <2>1. ApplierType'
    BY <1>1, <1>4 DEF ApplierType
  <2>2. QueuedInOrder' /\ NothingForgotten'
    BY <1>1, <1>2, <1>4 DEF QueuedInOrder, NothingForgotten
  <2>3. current.kind = "nothing"
    BY <1>4 DEF Busy, Nothing
  <2>4. ASSUME NEW i \in 1 .. lastQueued PROVE i \in Range(applied)
    <3>1. i \in Taken \/ \E q \in DOMAIN queue : queue[q] = Item(i)
      BY <1>1 DEF QueuedInOrder, Covers
    <3>2. \A q \in DOMAIN queue : queue[q].kind = "undefined"
      BY <1>1, <2>3 DEF NothingForgotten
    <3>3. QED
      BY <1>1, <2>3, <3>1, <3>2, ItemFacts DEF Taken, EntryOf
  <2>5. EndsInOrder'
    BY <1>1, <1>4, <2>3, <2>4 DEF EndsInOrder
  <2>6. QED
    BY <1>3, <2>1, <2>2, <2>5 DEF ApplierInv
<1>5. CASE Busy /\ finished' = "waiting" /\ queue' = Append(queue, FinishItem(lastQueued))
  <2>1. /\ queue' \in Seq(Queued) /\ Len(queue) \in Nat
        /\ DOMAIN queue' = 1 .. Len(queue) + 1 /\ DOMAIN queue = 1 .. Len(queue)
        /\ queue'[Len(queue) + 1] = FinishItem(lastQueued)
        /\ \A p \in 1 .. Len(queue) : queue'[p] = queue[p]
        /\ Ordered(queue', Taken)
    <3>1. FinishItem(lastQueued) \in Queued /\ FinishItem(lastQueued).kind # "entry"
      BY <1>1, ItemFacts
    <3>2. Ordered(queue, Taken)
      BY <1>1 DEF QueuedInOrder
    <3>3. QED
      BY <1>1, <1>5, <3>1, <3>2, AppendedOther
  <2>2. ASSUME NEW p \in DOMAIN queue'
        PROVE  /\ queue'[p].kind = "entry" => queue'[p].index \in 1 .. allowed
               /\ queue'[p].kind = "finish" =>
                    queue'[p].index = lastQueued /\ p = Len(queue) + 1
    <3>1. CASE p \in 1 .. Len(queue)
      BY <1>1, <2>1, <3>1 DEF QueuedInOrder, EndsInOrder
    <3>2. CASE p = Len(queue) + 1
      BY <1>1, <2>1, <3>2, ItemFacts
    <3>3. QED
      BY <2>1, <3>1, <3>2
  <2>3. ApplierType'
    BY <1>1, <1>5, <2>1 DEF ApplierType
  <2>4. QueuedInOrder'
    <3>1. Covers(queue', Taken, lastQueued)
      BY <1>1, <2>1 DEF QueuedInOrder, Covers
    <3>2. QED
      BY <1>1, <1>2, <1>5, <2>1, <2>2, <3>1 DEF QueuedInOrder
  <2>5. current.kind # "nothing"
    BY <1>1, <1>5 DEF Busy, ApplierType
  <2>6. EndsInOrder'
    <3>1. Len(queue) + 1 \in DOMAIN queue' /\ queue'[Len(queue) + 1].kind = "finish"
      BY <1>1, <2>1, ItemFacts
    <3>2. Len(queue') = Len(queue) + 1
      BY <2>1, LenProperties
    <3>3. QED
      BY <1>1, <1>5, <2>2, <2>5, <3>1, <3>2 DEF EndsInOrder
  <2>7. NothingForgotten'
    BY <1>1, <2>5 DEF NothingForgotten
  <2>8. QED
    BY <1>3, <2>3, <2>4, <2>6, <2>7 DEF ApplierInv
<1>6. QED
  BY <1>1, <1>4, <1>5 DEF Finish

(* destroy() drops the queue.                                              *)
LEMMA DestroyInv == ASSUME ApplierInv, Destroy PROVE ApplierInv'
<1>1. /\ ApplierType /\ TakenInOrder /\ NothingForgotten
      /\ finished' = "never" /\ queue' = << >> /\ DOMAIN queue' = {}
      /\ UNCHANGED <<role, commitIndex, electedAt, lastIndex, storedIndex, current,
                     lastApplied, lastQueued, crashed, applied, allowed, commits>>
  BY DEF ApplierInv, Destroy, roleVars, logVars, historyVars
<1>2. Taken' = Taken
  BY <1>1 DEF Taken
<1>3. ApplierType'
  <2>1. queue' \in Seq(Queued)
    BY <1>1
  <2>2. QED
    BY <1>1, <2>1 DEF ApplierType
<1>4. TakenInOrder'
  BY <1>1, <1>2 DEF TakenInOrder
<1>5. QueuedInOrder' /\ EndsInOrder'
  BY <1>1 DEF QueuedInOrder, EndsInOrder, Ordered
<1>6. NothingForgotten'
  BY <1>1 DEF NothingForgotten
<1>7. QED
  BY <1>3, <1>4, <1>5, <1>6 DEF ApplierInv

(* The state machine fails.                                                *)
LEMMA ApplyEntryFailsInv == ASSUME ApplierInv, ApplyEntryFails PROVE ApplierInv'
<1>1. /\ UNCHANGED <<role, commitIndex, electedAt, lastIndex, storedIndex, queue, current,
                     lastApplied, lastQueued, finished, applied, allowed, commits>>
      /\ crashed' = TRUE /\ Taken' = Taken
  BY DEF ApplyEntryFails, roleVars, logVars, historyVars, Taken
<1>2. QED
  BY <1>1 DEF ApplierInv, ApplierType, TakenInOrder, QueuedInOrder, EndsInOrder,
     NothingForgotten

-----------------------------------------------------------------------------
(* The state machine, and a restart *)

(* What a sequence holds when an element was appended.                     *)
LEMMA RangeAppended ==
  ASSUME NEW s \in Seq(Nat), NEW e \in Nat
  PROVE  Append(s, e) \in Seq(Nat) /\ Range(Append(s, e)) = Range(s) \cup {e}
<1>1. /\ Append(s, e) \in Seq(Nat) /\ Len(s) \in Nat /\ DOMAIN s = 1 .. Len(s)
      /\ DOMAIN Append(s, e) = 1 .. Len(s) + 1 /\ Append(s, e)[Len(s) + 1] = e
      /\ \A i \in 1 .. Len(s) : Append(s, e)[i] = s[i]
  BY AppendProperties
<1>2. QED
  BY <1>1 DEF Range

(* The next item of the queue is the end of it.                            *)
LEMMA EndsAtTail ==
  ASSUME NEW s \in Seq(Queued), s # << >>, NEW first, NEW last \in Nat,
         EndsAt(first, s, last), Head(s).kind = "entry"
  PROVE  EndsAt(Head(s), Tail(s), last)
<1>1. /\ Head(s) = s[1] /\ Len(s) \in Nat /\ Len(s) >= 1 /\ DOMAIN s = 1 .. Len(s)
      /\ DOMAIN Tail(s) = 1 .. Len(s) - 1
      /\ \A p \in 1 .. Len(s) - 1 : Tail(s)[p] = s[p + 1]
  <2>1. Ordered(s, Nat)
    <3>1. \A p \in DOMAIN s : s[p] \in Queued
      OBVIOUS
    <3>2. \A p \in DOMAIN s : \A j \in 1 .. s[p].index - 1 : j \in Nat
      BY <3>1 DEF Queued
    <3>3. QED
      BY <3>2 DEF Ordered
  <2>2. QED
    BY <2>1, TakenHead
<1>2. PICK p \in DOMAIN s : /\ s[p] = Item(last)
                            /\ \A q \in DOMAIN s : q > p => s[q].kind # "entry"
  BY <1>1 DEF EndsAt
<1>3. CASE p = 1
  <2>1. Head(s).index = last
    BY <1>1, <1>2, <1>3, ItemFacts
  <2>2. \A q \in DOMAIN Tail(s) : Tail(s)[q].kind # "entry"
    BY <1>1, <1>2, <1>3
  <2>3. QED
    BY <2>1, <2>2 DEF EndsAt
<1>4. CASE p # 1
  <2>1. p - 1 \in DOMAIN Tail(s) /\ Tail(s)[p - 1] = Item(last)
    BY <1>1, <1>2, <1>4
  <2>2. \A q \in DOMAIN Tail(s) : q > p - 1 => Tail(s)[q].kind # "entry"
    BY <1>1, <1>2
  <2>3. QED
    BY <2>1, <2>2 DEF EndsAt
<1>5. QED
  BY <1>3, <1>4

(* The state machine applied an entry: the applier goes on with the next.  *)
LEMMA ApplyEntrySucceedsInv == ASSUME ApplierInv, ApplyEntrySucceeds PROVE ApplierInv'
<1>1. /\ ApplierType /\ TakenInOrder /\ QueuedInOrder /\ EndsInOrder /\ NothingForgotten
      /\ current.kind = "entry" /\ current.index \in Nat /\ finished # "yes"
      /\ queue \in Seq(Queued) /\ applied \in Seq(Nat) /\ lastQueued \in Nat
      /\ applied' = Append(applied, current.index) /\ TakeNext(queue)
      /\ lastApplied' = IF finished' = finished THEN current.index ELSE Head(queue).index
      /\ UNCHANGED <<role, commitIndex, electedAt, lastIndex, storedIndex, lastQueued,
                     allowed, commits>>
  BY DEF ApplierInv, ApplierType, EndsInOrder, ApplyEntrySucceeds, roleVars, logVars,
     historyVars
<1>2. /\ applied' \in Seq(Nat) /\ Range(applied') = Taken
      /\ Range(applied) \subseteq Range(applied')
  BY <1>1, RangeAppended DEF Taken, EntryOf
<1>3. commitIndex <= lastQueued
  BY <1>1 DEF NothingForgotten
<1>4. ASSUME ApplierType', TakenInOrder', QueuedInOrder', EndsInOrder', NothingForgotten'
      PROVE  ApplierInv'
  BY <1>4 DEF ApplierInv
<1>5. CASE /\ queue' = << >> /\ current' = Nothing /\ crashed' = crashed
           /\ \/ queue = << >> /\ finished' = finished
              \/ /\ queue # << >> /\ Head(queue).kind = "finish" /\ finished' = "yes"
                 /\ Len(queue) = 1
  <2>1. /\ Nothing.kind = "nothing" /\ DOMAIN queue' = {} /\ queue' \in Seq(Queued)
        /\ Nothing \in [kind : {"nothing", "entry", "undefined"}, index : Nat]
    BY <1>5 DEF Nothing
  <2>2. Taken' = Taken
    BY <1>2, <1>5, <2>1 DEF Taken, EntryOf
  <2>3. /\ lastApplied' \in Nat
        /\ finished' = "yes" \/ finished' = "no" => lastApplied' = lastQueued
        /\ finished' # "waiting" /\ finished' \in {"no", "yes", "never"}
        /\ finished' = "no" => queue = << >> /\ queue' = queue /\ finished = "no"
        /\ finished' = "yes" =>
             \A i \in 1 .. lastQueued : i \in Range(applied')
    <3>1. CASE queue = << >> /\ finished' = finished
      <4>1. finished # "waiting"
        BY <1>1, <3>1 DEF EndsInOrder
      <4>2. finished = "no" => lastQueued = current.index
        BY <1>1, <3>1 DEF EndsInOrder, EndsAt
      <4>3. finished \in {"no", "never"}
        BY <1>1, <4>1 DEF ApplierType
      <4>4. lastApplied' = current.index /\ queue' = queue
        BY <1>1, <1>5, <3>1
      <4>5. QED
        BY <1>1, <3>1, <4>2, <4>3, <4>4
    <3>2. CASE /\ queue # << >> /\ Head(queue).kind = "finish" /\ finished' = "yes"
               /\ Len(queue) = 1
      <4>1. 1 \in DOMAIN queue /\ Head(queue) = queue[1]
        BY <1>1, <3>2, TakenHead DEF QueuedInOrder
      <4>2. Head(queue).index = lastQueued
        BY <1>1, <3>2, <4>1 DEF EndsInOrder
      <4>3. lastApplied' = Head(queue).index
        BY <1>1, <3>2
      <4>4. finished # "never" /\ finished # "no"
        BY <1>1, <3>2, <4>1 DEF EndsInOrder
      <4>5. ASSUME NEW i \in 1 .. lastQueued PROVE i \in Range(applied')
        <5>1. i \in Taken \/ \E q \in DOMAIN queue : queue[q] = Item(i)
          BY <1>1, <4>4 DEF QueuedInOrder, Covers, ApplierType
        <5>2. \A q \in DOMAIN queue : queue[q].kind = "finish"
          BY <1>1, <3>2, <4>1, LenProperties
        <5>3. QED
          BY <1>1, <1>2, <5>1, <5>2, ItemFacts
      <4>6. QED
        BY <1>1, <3>2, <4>2, <4>3, <4>5
    <3>3. QED
      BY <1>5, <3>1, <3>2
  <2>4. ApplierType'
    BY <1>1, <1>2, <1>5, <2>1, <2>3 DEF ApplierType
  <2>5. TakenInOrder'
    BY <1>1, <1>2, <2>2 DEF TakenInOrder
  <2>6. QueuedInOrder'
    <3>1. finished' = "no" => Covers(queue', Taken', lastQueued')
      BY <1>1, <1>5, <2>2, <2>3 DEF QueuedInOrder
    <3>2. Ordered(queue', Taken') /\ finished' # "waiting"
      BY <2>1, <2>3 DEF Ordered
    <3>3. QED
      BY <2>1, <3>1, <3>2 DEF QueuedInOrder
  <2>7. EndsInOrder'
    BY <1>1, <1>5, <2>1, <2>3 DEF EndsInOrder
  <2>8. NothingForgotten'
    BY <1>1, <1>3, <1>5 DEF NothingForgotten
  <2>9. QED
    BY <1>4, <2>4, <2>5, <2>6, <2>7, <2>8
<1>6. CASE /\ queue # << >> /\ current' = Head(queue) /\ queue' = Tail(queue)
           /\ finished' = finished /\ crashed' \in {crashed, TRUE}
           /\ Head(queue).kind \in {"entry", "undefined"}
  <2>1. /\ Head(queue) \in Queued /\ queue' \in Seq(Queued) /\ Head(queue) = queue[1]
        /\ Len(queue) \in Nat /\ Len(queue) >= 1 /\ DOMAIN queue = 1 .. Len(queue)
        /\ DOMAIN queue' = 1 .. Len(queue) - 1
        /\ \A p \in 1 .. Len(queue) - 1 : queue'[p] = queue[p + 1]
        /\ Head(queue).kind = "entry" => \A j \in 1 .. Head(queue).index - 1 : j \in Taken
        /\ Ordered(queue', Taken \cup EntryOf(Head(queue)))
        /\ Covers(queue, Taken, lastQueued) =>
             Covers(queue', Taken \cup EntryOf(Head(queue)), lastQueued)
    BY <1>1, <1>6, TakenHead DEF QueuedInOrder
  <2>2. Taken' = Taken \cup EntryOf(Head(queue))
    BY <1>2, <1>6 DEF Taken
  <2>3. ApplierType'
    <3>1. current' \in [kind : {"nothing", "entry", "undefined"}, index : Nat]
      BY <1>6, <2>1 DEF Queued
    <3>2. current'.kind # "nothing" /\ crashed' \in BOOLEAN /\ lastApplied' \in Nat
      BY <1>1, <1>6 DEF ApplierType
    <3>3. QED
      BY <1>1, <1>2, <1>6, <2>1, <3>1, <3>2 DEF ApplierType
  <2>4. TakenInOrder'
    <3>1. ASSUME NEW i \in Taken
          PROVE  i \in 1 .. allowed /\ \A j \in 1 .. i - 1 : j \in Range(applied')
      BY <1>1, <1>2 DEF TakenInOrder
    <3>2. ASSUME NEW i \in EntryOf(Head(queue))
          PROVE  i \in 1 .. allowed /\ \A j \in 1 .. i - 1 : j \in Range(applied')
      <4>1. Head(queue).kind = "entry" /\ i = Head(queue).index
        BY DEF EntryOf
      <4>2. 1 \in DOMAIN queue
        BY <2>1
      <4>3. QED
        BY <1>1, <1>2, <2>1, <4>1, <4>2 DEF QueuedInOrder
    <3>3. QED
      BY <1>1, <2>2, <3>1, <3>2 DEF TakenInOrder
  <2>5. ASSUME NEW p \in DOMAIN queue'
        PROVE  p + 1 \in DOMAIN queue /\ queue'[p] = queue[p + 1]
    BY <2>1
  <2>6. QueuedInOrder'
    BY <1>1, <1>6, <2>1, <2>2, <2>5 DEF QueuedInOrder
  <2>7. EndsInOrder'
    <3>1. finished = "no" /\ Head(queue).kind = "entry" =>
            EndsAt(Head(queue), Tail(queue), lastQueued)
      BY <1>1, <1>6, EndsAtTail DEF EndsInOrder
    <3>2. ASSUME finished = "waiting"
          PROVE  \E p \in DOMAIN queue' : queue'[p].kind = "finish"
      <4>1. PICK p \in DOMAIN queue : queue[p].kind = "finish"
        BY <1>1, <3>2 DEF EndsInOrder
      <4>2. p # 1
        BY <1>6, <2>1, <4>1
      <4>3. p - 1 \in DOMAIN queue' /\ queue'[p - 1] = queue[p]
        BY <2>1, <4>2
      <4>4. QED
        BY <4>1, <4>3
    <3>3. /\ finished = "no" => \A p \in DOMAIN queue' : queue'[p].kind # "finish"
          /\ \A p \in DOMAIN queue' : queue'[p].kind = "finish" =>
               finished = "waiting" /\ queue'[p].index = lastQueued /\ p = Len(queue')
      BY <1>1, <2>1, <2>5, LenProperties DEF EndsInOrder
    <3>4. QED
      BY <1>1, <1>6, <3>1, <3>2, <3>3 DEF EndsInOrder
  <2>8. NothingForgotten'
    BY <1>1, <1>3, <1>6 DEF NothingForgotten
  <2>9. QED
    BY <1>4, <2>3, <2>4, <2>6, <2>7, <2>8
<1>7. CASE queue # << >> /\ Head(queue).kind = "finish"
  <2>1. /\ Head(queue) = queue[1] /\ Len(queue) \in Nat /\ DOMAIN queue = 1 .. Len(queue)
        /\ 1 \in DOMAIN queue
    BY <1>1, <1>7, TakenHead DEF QueuedInOrder
  <2>2. Len(queue) = 1
    BY <1>1, <1>7, <2>1 DEF EndsInOrder
  <2>3. Tail(queue) = << >>
    <3>1. Tail(queue) \in Seq(Queued) /\ Len(Tail(queue)) = 0
      BY <1>1, <1>7, <2>2, HeadTailProperties
    <3>2. QED
      BY <3>1, EmptySeq
  <2>4. QED
    BY <1>1, <1>5, <1>7, <2>2, <2>3 DEF TakeNext
<1>8. CASE queue # << >> /\ Head(queue).kind # "finish"
  <2>1. Head(queue) \in Queued
    BY <1>1, <1>8
  <2>2. Head(queue).kind \in {"entry", "undefined"}
    BY <1>8, <2>1 DEF Queued
  <2>3. crashed' = (crashed \/ Head(queue).kind = "undefined") => crashed' \in {crashed, TRUE}
    BY <1>1 DEF ApplierType
  <2>4. QED
    BY <1>1, <1>6, <1>8, <2>2, <2>3 DEF TakeNext
<1>9. CASE queue = << >>
  BY <1>1, <1>5, <1>9 DEF TakeNext
<1>10. QED
  BY <1>7, <1>8, <1>9

(* A restart goes on from what the state machine applied last.             *)
LEMMA RestartInv == ASSUME ApplierInv, Restart PROVE ApplierInv'
<1>1. /\ ApplierType /\ TakenInOrder /\ finished = "no" /\ finished' = "no"
      /\ queue' = << >> /\ DOMAIN queue' = {} /\ queue' \in Seq(Queued)
      /\ current' = Nothing /\ Nothing.kind = "nothing"
      /\ Nothing \in [kind : {"nothing", "entry", "undefined"}, index : Nat]
      /\ role' = "Follower" /\ commitIndex' = 0 /\ electedAt' = 0
      /\ lastIndex' = storedIndex /\ crashed' = FALSE
      /\ lastApplied' = IF applied = << >> THEN 0 ELSE Last(applied)
      /\ lastQueued' = lastApplied'
      /\ UNCHANGED <<storedIndex, applied, allowed, commits>>
  BY DEF ApplierInv, Restart, historyVars, Nothing
<1>2. Taken' = Range(applied) /\ Range(applied) \subseteq Taken
  BY <1>1 DEF Taken, EntryOf
<1>3. lastQueued' \in Nat /\ \A j \in 1 .. lastQueued' : j \in Range(applied)
  <2>1. CASE applied = << >>
    BY <1>1, <2>1
  <2>2. CASE applied # << >>
    <3>1. /\ applied \in Seq(Nat) /\ Len(applied) \in DOMAIN applied
          /\ lastQueued' = applied[Len(applied)] /\ applied[Len(applied)] \in Nat
      BY <1>1, <2>2, EmptySeq DEF ApplierType, Last
    <3>2. lastQueued' \in Range(applied) /\ lastQueued' \in Nat
      BY <3>1 DEF Range
    <3>3. \A j \in 1 .. lastQueued' - 1 : j \in Range(applied)
      BY <1>1, <1>2, <3>2 DEF TakenInOrder
    <3>4. PICK last \in Nat : last = lastQueued'
      BY <3>2
    <3>5. ASSUME NEW j \in 1 .. last PROVE j \in Range(applied)
      <4>1. j \in 1 .. last - 1 \/ j = last
        OBVIOUS
      <4>2. \A i \in 1 .. last - 1 : i \in Range(applied)
        BY <3>3, <3>4
      <4>3. last \in Range(applied)
        BY <3>2, <3>4
      <4>4. QED
        BY <4>1, <4>2, <4>3
    <3>6. QED
      BY <3>4, <3>5
  <2>3. QED
    BY <2>1, <2>2
<1>4. ApplierType'
  BY <1>1, <1>3 DEF ApplierType
<1>5. TakenInOrder'
  BY <1>1, <1>2 DEF TakenInOrder
<1>6. QueuedInOrder'
  BY <1>1, <1>2, <1>3 DEF QueuedInOrder, Ordered, Covers
<1>7. EndsInOrder' /\ NothingForgotten'
  BY <1>1, <1>3 DEF EndsInOrder, NothingForgotten
<1>8. QED
  BY <1>4, <1>5, <1>6, <1>7 DEF ApplierInv

(* Every step keeps the invariant.                                         *)
LEMMA ApplierStepInv == ASSUME ApplierInv, [Next]_vars PROVE ApplierInv'
<1>1. CASE UNCHANGED vars
  <2>1. /\ UNCHANGED <<role, commitIndex, electedAt, lastIndex, storedIndex, queue, current,
                      lastApplied, lastQueued, finished, crashed, applied, allowed, commits>>
        /\ Taken' = Taken
    BY <1>1 DEF vars, roleVars, logVars, applierVars, historyVars, Taken
  <2>2. QED
    BY <2>1 DEF ApplierInv, ApplierType, TakenInOrder, QueuedInOrder, EndsInOrder,
       NothingForgotten
<1>2. QED
  BY <1>1, CallersInv, CloseInv, DestroyInv, ApplyEntrySucceedsInv, ApplyEntryFailsInv,
     RestartInv DEF Next

(* The invariant is one.                                                   *)
LEMMA ApplierInvariance == Spec => []ApplierInv
<1>1. Init => ApplierInv
  BY ApplierInitInv
<1>2. ApplierInv /\ [Next]_vars => ApplierInv'
  BY ApplierStepInv
<1>3. QED
  BY <1>1, <1>2, PTL DEF Spec

-----------------------------------------------------------------------------
(* What the runs check of the applier, for a log of any length *)

(* The types of the applier; the state machine is never handed an entry 0  *)
(* (LogEntryApplier.js:16-74).                                             *)
THEOREM ApplierTypeCorrect == Spec => []TypeOK
<1>1. ASSUME ApplierInv PROVE TypeOK
  <2>1. ApplierType /\ TakenInOrder
    BY <1>1 DEF ApplierInv
  <2>2. \A p \in DOMAIN applied : applied[p] \in Nat \ {0}
    <3>1. ASSUME NEW p \in DOMAIN applied PROVE applied[p] \in Nat \ {0}
      <4>1. applied[p] \in Taken
        BY DEF Taken, Range
      <4>2. applied[p] \in 1 .. allowed /\ allowed \in Nat
        BY <2>1, <4>1 DEF TakenInOrder, ApplierType
      <4>3. QED
        BY <4>2
    <3>2. QED
      BY <3>1
  <2>3. applied \in Seq(Nat \ {0})
    <3>1. Len(applied) \in Nat /\ applied \in [1 .. Len(applied) -> Nat \ {0}]
      BY <2>1, <2>2, LenProperties DEF ApplierType
    <3>2. QED
      BY <3>1, SeqDef
  <2>4. queue \in Seq([kind : {"entry", "undefined", "finish"}, index : Nat])
    BY <2>1 DEF ApplierType, Queued
  <2>5. {commitIndex, electedAt, lastIndex, storedIndex, lastApplied, lastQueued,
         allowed, commits} \subseteq Nat
    BY <2>1 DEF ApplierType
  <2>6. QED
    BY <2>1, <2>3, <2>4, <2>5 DEF ApplierType, TypeOK
<1>2. QED
  BY <1>1, ApplierInvariance, PTL

(* An applier that is idle has applied all that its role committed         *)
(* (Log.js:119-139, LogEntryApplier.js:61-76).                             *)
THEOREM CaughtUpHolds == Spec => []CaughtUp
<1>1. ASSUME ApplierInv PROVE CaughtUp
  <2>1. SUFFICES ASSUME ~Busy, queue = << >>, finished # "never"
                 PROVE  lastApplied >= commitIndex
    BY DEF CaughtUp
  <2>2. /\ current.kind = "nothing" /\ DOMAIN queue = {}
        /\ finished \in {"no", "waiting", "yes"}
        /\ lastApplied \in Nat /\ commitIndex \in Nat /\ lastQueued \in Nat
    BY <1>1, <2>1 DEF Busy, Nothing, ApplierInv, ApplierType
  <2>3. lastApplied = lastQueued /\ commitIndex <= lastQueued
    BY <1>1, <2>2 DEF ApplierInv, EndsInOrder, NothingForgotten
  <2>4. QED
    BY <2>2, <2>3
<1>2. QED
  BY <1>1, ApplierInvariance, PTL

(* close() resolves only when all that was queued before it was applied    *)
(* (LogEntryApplier.js:26-44, Raft.js:61-77).                              *)
THEOREM ClosedWhenAppliedHolds == Spec => []ClosedWhenApplied
<1>1. ASSUME ApplierInv, finished = "yes" PROVE ClosedWhenApplied
  <2>1. current.kind = "nothing" /\ \A i \in 1 .. lastQueued : i \in Range(applied)
    BY <1>1 DEF ApplierInv, EndsInOrder
  <2>2. \A p \in DOMAIN queue : queue[p].kind = "undefined"
    BY <1>1, <2>1 DEF ApplierInv, NothingForgotten
  <2>3. QED
    BY <2>1, <2>2 DEF ClosedWhenApplied
<1>2. ApplierInv => ClosedWhenApplied
  BY <1>1 DEF ClosedWhenApplied
<1>3. QED
  BY <1>2, ApplierInvariance, PTL

(* A step that applies nothing and commits nothing, or only commits.       *)
LEMMA CommitAllows ==
  ASSUME ApplierInv, NEW index \in Nat, Commit(index)
  PROVE  AtLeastOnce!Allow \/ UNCHANGED <<allowed, applied>>
<1>1. allowed' = (IF index > allowed THEN index ELSE allowed) /\ applied' = applied
  BY DEF Commit
<1>2. QED
  BY <1>1 DEF AtLeastOnce!Allow

(* Every step is one of the state machine, or none.                        *)
LEMMA StepApplies ==
  ASSUME ApplierInv, [Next]_vars
  PROVE  AtLeastOnce!Next \/ UNCHANGED <<allowed, applied>>
<1>1. ApplierType
  BY DEF ApplierInv
<1>2. CASE LogGrows \/ ChangeRole \/ Close \/ Destroy \/ ApplyEntryFails \/ Restart
           \/ UNCHANGED vars
  BY <1>2 DEF LogGrows, ChangeRole, Close, Destroy, ApplyEntryFails, Restart, vars,
     applierVars, historyVars
<1>3. ASSUME NEW prevLogIndex \in 0 .. MaxIndex, NEW leaderCommit \in 0 .. MaxIndex,
             FollowerHandleAppendEntries(prevLogIndex, leaderCommit)
      PROVE  AtLeastOnce!Next \/ UNCHANGED <<allowed, applied>>
  <2>1. CASE leaderCommit > commitIndex
    <3>1. PICK index \in Nat : Commit(index)
      BY <1>1, <1>3, <2>1, ApplierAssumption
         DEF FollowerHandleAppendEntries, Min2, ApplierType
    <3>2. QED
      BY <3>1, CommitAllows DEF AtLeastOnce!Next
  <2>2. CASE UNCHANGED <<commitIndex, applierVars, historyVars>>
    BY <2>2 DEF applierVars, historyVars
  <2>3. QED
    BY <1>3, <2>1, <2>2 DEF FollowerHandleAppendEntries
<1>4. CASE LeaderCommits
  <2>1. PICK index \in Nat : Commit(index)
    BY <1>1, <1>4 DEF LeaderCommits, ApplierType
  <2>2. QED
    BY <2>1, CommitAllows DEF AtLeastOnce!Next
<1>5. CASE ApplyEntrySucceeds
  <2>1. /\ current.kind = "entry" /\ current.index \in Nat
        /\ applied' = Append(applied, current.index) /\ allowed' = allowed
    BY <1>1, <1>5 DEF ApplyEntrySucceeds, historyVars, ApplierType
  <2>2. current.index \in Taken
    BY <2>1 DEF Taken, EntryOf
  <2>3. /\ current.index \in 1 .. allowed
        /\ \A j \in 1 .. current.index - 1 : j \in Range(applied)
    BY <2>2 DEF ApplierInv, TakenInOrder
  <2>4. current.index - 1 = 0 \/ current.index - 1 \in Range(applied)
    BY <2>1, <2>3
  <2>5. AtLeastOnce!Apply
    BY <2>1, <2>3, <2>4 DEF AtLeastOnce!Apply, AtLeastOnce!Reached, AtLeastOnce!Range, Range
  <2>6. QED
    BY <2>5 DEF AtLeastOnce!Next
<1>6. QED
  BY <1>2, <1>3, <1>4, <1>5 DEF Next

(* The applier implements module StateMachine: it applies only what was    *)
(* committed, and nothing before everything that precedes it               *)
(* (Log.js:119-139, LogEntryApplier.js:61-76).                             *)
THEOREM NothingPassedOverHolds == Spec => NothingPassedOver
<1>1. Init => AtLeastOnce!Init
  BY DEF Init, AtLeastOnce!Init
<1>2. ApplierInv /\ [Next]_vars => [AtLeastOnce!Next]_<<allowed, applied>>
  BY StepApplies
<1>3. Spec => AtLeastOnce!Init /\ [][AtLeastOnce!Next]_<<allowed, applied>>
  BY <1>1, <1>2, ApplierInvariance, PTL DEF Spec
<1>4. QED
  BY <1>3 DEF NothingPassedOver, AtLeastOnce!Spec

=============================================================================
