---------------------------- MODULE EventsProofs ----------------------------
(***************************************************************************)
(* An inductive invariant of the listeners of an event, for any number of  *)
(* listeners and of calls: one lemma per operation of module Events.       *)
(***************************************************************************)
EXTENDS Events, SequenceTheorems, TLAPS

-----------------------------------------------------------------------------
(* A Map from listeners to their fireOnce, as a sequence of entries *)

Entry == [listener : Listener, once : BOOLEAN]

Held(map, l, once) ==
  \E i \in DOMAIN map : map[i].listener = l /\ map[i].once = once

IsMap(map) ==
  /\ map \in Seq(Entry)
  /\ \A i, j \in DOMAIN map : map[i].listener = map[j].listener => i = j

(* delete(): the other entries stay, in their order.                       *)
LEMMA RemovedFromMap ==
  ASSUME NEW map, IsMap(map), NEW p \in 1 .. Len(map)
  PROVE  /\ IsMap(RemoveAt(map, p))
         /\ Len(RemoveAt(map, p)) = Len(map) - 1
         /\ \A l : \A once : Held(RemoveAt(map, p), l, once) <=>
                               l # map[p].listener /\ Held(map, l, once)
<1> DEFINE new == RemoveAt(map, p)
<1>1. map \in Seq(Entry) /\ Len(map) \in Nat /\ p \in Nat /\ DOMAIN map = 1 .. Len(map)
  BY DEF IsMap
<1> DEFINE front == SubSeq(map, 1, p - 1)
           back  == SubSeq(map, p + 1, Len(map))
<1>2. /\ front \in Seq(Entry) /\ Len(front) = p - 1
      /\ \A i \in 1 .. p - 1 : front[i] = map[i]
  <2>1. /\ front \in Seq(Entry)
        /\ Len(front) = IF 1 <= p - 1 THEN p - 1 - 1 + 1 ELSE 0
        /\ \A i \in 1 .. p - 1 - 1 + 1 : front[i] = map[1 + i - 1]
    <3>1. 1 \in Int /\ p - 1 \in Int /\ \A i \in 1 .. p - 1 : map[i] \in Entry
      BY <1>1
    <3>2. QED
      BY <3>1, SubSeqProperties
  <2>2. QED
    BY <2>1, <1>1
<1>3. /\ back \in Seq(Entry) /\ Len(back) = Len(map) - p
      /\ \A i \in 1 .. Len(map) - p : back[i] = map[p + i]
  <2>1. /\ back \in Seq(Entry)
        /\ Len(back) = IF p + 1 <= Len(map) THEN Len(map) - (p + 1) + 1 ELSE 0
        /\ \A i \in 1 .. Len(map) - (p + 1) + 1 : back[i] = map[p + 1 + i - 1]
    <3>1. /\ p + 1 \in Int /\ Len(map) \in Int
          /\ \A i \in p + 1 .. Len(map) : map[i] \in Entry
      BY <1>1
    <3>2. QED
      BY <3>1, SubSeqProperties
  <2> HIDE DEF back
  <2>2. Len(back) = Len(map) - p
    <3>1. p \in Nat /\ Len(map) \in Nat /\ p <= Len(map)
      BY <1>1
    <3>2. Len(back) = IF p + 1 <= Len(map) THEN Len(map) - (p + 1) + 1 ELSE 0
      BY <2>1
    <3>3. CASE p + 1 <= Len(map)
      BY <3>1, <3>2, <3>3
    <3>4. CASE p = Len(map)
      BY <3>1, <3>2, <3>4
    <3>5. QED
      BY <3>1, <3>3, <3>4
  <2>3. ASSUME NEW i \in 1 .. Len(map) - p
        PROVE  back[i] = map[p + i]
    <3>1. i \in 1 .. Len(map) - (p + 1) + 1 /\ p + 1 + i - 1 = p + i
      BY <1>1
    <3>2. QED
      BY <3>1, <2>1
  <2>4. QED
    BY <2>1, <2>2, <2>3
<1>4. /\ new \in Seq(Entry) /\ Len(new) = Len(map) - 1
      /\ DOMAIN new = 1 .. Len(map) - 1
      /\ \A i \in 1 .. Len(map) - 1 :
           new[i] = IF i <= p - 1 THEN front[i] ELSE back[i - (p - 1)]
  <2>1. new = front \o back
    BY DEF RemoveAt
  <2> HIDE DEF new, front, back
  <2>2. /\ front \o back \in Seq(Entry)
        /\ Len(front \o back) = Len(front) + Len(back)
        /\ \A i \in 1 .. Len(front) + Len(back) : (front \o back)[i] =
             IF i <= Len(front) THEN front[i] ELSE back[i - Len(front)]
    BY <1>2, <1>3, ConcatProperties
  <2>3. Len(front) + Len(back) = Len(map) - 1
    BY <1>1, <1>2, <1>3
  <2>4. QED
    BY <1>2, <2>1, <2>2, <2>3
<1> HIDE DEF new, front, back
<1>5. \A i \in 1 .. p - 1 : new[i] = map[i]
  BY <1>1, <1>2, <1>4
<1>6. \A i \in p .. Len(map) - 1 : new[i] = map[i + 1]
  BY <1>1, <1>3, <1>4, SMTT(40)
<1> DEFINE old(i) == IF i < p THEN i ELSE i + 1
<1>7. \A i \in 1 .. Len(map) - 1 : old(i) \in 1 .. Len(map) /\ new[i] = map[old(i)]
  BY <1>1, <1>5, <1>6
<1>8. IsMap(new)
  <2>1. ASSUME NEW i \in 1 .. Len(map) - 1, NEW j \in 1 .. Len(map) - 1,
               new[i].listener = new[j].listener
        PROVE  i = j
    <3>1. old(i) = old(j)
      <4> HIDE DEF old
      <4>1. QED
        BY <2>1, <1>1, <1>7 DEF IsMap
    <3>2. QED
      BY <3>1, <1>1
  <2>2. QED
    BY <2>1, <1>4 DEF IsMap
<1>9. ASSUME NEW l, NEW once
      PROVE  Held(new, l, once) <=> l # map[p].listener /\ Held(map, l, once)
  <2>1. ASSUME Held(new, l, once)
        PROVE  l # map[p].listener /\ Held(map, l, once)
    <3>1. PICK i \in 1 .. Len(map) - 1 : new[i].listener = l /\ new[i].once = once
      BY <2>1, <1>4 DEF Held
    <3>2. CASE i < p
      BY <3>1, <3>2, <1>1, <1>5 DEF Held, IsMap
    <3>3. CASE i >= p
      BY <3>1, <3>3, <1>1, <1>6 DEF Held, IsMap
    <3>4. QED
      BY <3>2, <3>3, <1>1
  <2>2. ASSUME l # map[p].listener, Held(map, l, once)
        PROVE  Held(new, l, once)
    <3>1. PICK i \in 1 .. Len(map) : map[i].listener = l /\ map[i].once = once
      BY <2>2, <1>1 DEF Held
    <3>2. i # p
      BY <3>1, <2>2
    <3>3. CASE i < p
      <4>1. i \in 1 .. Len(map) - 1 /\ new[i] = map[i]
        BY <3>3, <1>1, <1>5
      <4>2. QED
        BY <4>1, <3>1, <1>4 DEF Held
    <3>4. CASE i > p
      <4>1. i - 1 \in 1 .. Len(map) - 1 /\ new[i - 1] = map[i]
        BY <3>4, <1>1, <1>6
      <4>2. QED
        BY <4>1, <3>1, <1>4 DEF Held
    <3>5. QED
      BY <3>2, <3>3, <3>4, <1>1
  <2>3. QED
    BY <2>1, <2>2
<1>10. QED
  BY <1>4, <1>8, <1>9 DEF new

(* set() of a listener that is not registered adds its entry at the end.   *)
LEMMA AddedToMap ==
  ASSUME NEW map, IsMap(map), NEW k \in Listener, NEW flag \in BOOLEAN,
         \A i \in DOMAIN map : map[i].listener # k
  PROVE  LET new == Append(map, [listener |-> k, once |-> flag])
         IN  /\ IsMap(new)
             /\ Len(new) = Len(map) + 1
             /\ \A l : \A once : Held(new, l, once) <=>
                  Held(map, l, once) \/ (l = k /\ once = flag)
<1> DEFINE new == Append(map, [listener |-> k, once |-> flag])
<1>1. map \in Seq(Entry) /\ Len(map) \in Nat /\ DOMAIN map = 1 .. Len(map)
  BY DEF IsMap
<1>2. new \in Seq(Entry) /\ Len(new) = Len(map) + 1 /\ DOMAIN new = 1 .. Len(map) + 1
  BY <1>1 DEF Entry
<1>3. \A i \in 1 .. Len(map) : new[i] = map[i]
  BY <1>1
<1>4. new[Len(map) + 1] = [listener |-> k, once |-> flag]
  BY <1>1
<1> HIDE DEF new
<1>5. IsMap(new)
  BY <1>1, <1>2, <1>3, <1>4 DEF IsMap
<1>6. \A l : \A once : Held(new, l, once) <=>
                         Held(map, l, once) \/ (l = k /\ once = flag)
  BY <1>1, <1>2, <1>3, <1>4 DEF Held
<1>7. QED
  BY <1>2, <1>5, <1>6 DEF new

(* set() of a listener that is registered changes its flag in its place.   *)
LEMMA ChangedInMap ==
  ASSUME NEW map, IsMap(map), NEW p \in 1 .. Len(map), NEW flag \in BOOLEAN
  PROVE  LET new == [map EXCEPT ![p].once = flag]
         IN  /\ IsMap(new)
             /\ Len(new) = Len(map)
             /\ \A l : \A once : Held(new, l, once) <=>
                  \/ l # map[p].listener /\ Held(map, l, once)
                  \/ l = map[p].listener /\ once = flag
<1> DEFINE new == [map EXCEPT ![p].once = flag]
<1>1. map \in Seq(Entry) /\ Len(map) \in Nat /\ DOMAIN map = 1 .. Len(map)
  BY DEF IsMap
<1>2. \A i \in 1 .. Len(map) : map[i] \in Entry
  BY <1>1
<1>3. new[p] = [map[p] EXCEPT !.once = flag] /\ \A i \in 1 .. Len(map) : i # p => new[i] = map[i]
  BY <1>1
<1>4. new[p].listener = map[p].listener /\ new[p].once = flag /\ new[p] \in Entry
  BY <1>2, <1>3 DEF Entry
<1>5. new \in Seq(Entry) /\ Len(new) = Len(map) /\ DOMAIN new = 1 .. Len(map)
  <2>1. new = [map EXCEPT ![p] = new[p]]
    BY <1>1, <1>3
  <2>2. QED
    BY <2>1, <1>1, <1>4, ExceptSeq
<1> HIDE DEF new
<1>6. IsMap(new)
  BY <1>1, <1>3, <1>4, <1>5 DEF IsMap
<1>7. \A l : \A once : Held(new, l, once) <=>
        \/ l # map[p].listener /\ Held(map, l, once)
        \/ l = map[p].listener /\ once = flag
  BY <1>1, <1>3, <1>4, <1>5 DEF Held, IsMap
<1>8. QED
  BY <1>5, <1>6, <1>7 DEF new

-----------------------------------------------------------------------------
(* The invariant *)

RoleName == {"none", "Follower", "Candidate", "Leader"}

Emission ==
  [stage : {"idle", "starting", "next", "calling"}, event : RoleName, at : Nat,
   listener : Listener \union {"none"}, once : BOOLEAN, orphaned : BOOLEAN]

EventsType ==
  /\ IsMap(listeners)
  /\ emission \in Emission
  /\ standing \in [Listener -> {"none", "once", "always", "other"}]
  /\ credit \in [Listener -> Int]
  /\ calls \in Nat

(* The loop of emit() is within the Map it goes over.                      *)
LoopInMap ==
  /\ ~Emitting => emission.at = 0 /\ ~emission.orphaned
  /\ emission.orphaned \/ emission.at <= Len(listeners)
  /\ emission.stage = "calling" => emission.listener \in Listener

(* The listener that is called now and deleted when it returns.            *)
Leaving(l) ==
  /\ emission.stage = "calling" /\ emission.listener = l
  /\ emission.once /\ ~emission.orphaned

(* What the host may expect of a listener.                                 *)
Expected(l) ==
  /\ standing[l] = "none" =>
       ~Held(listeners, l, TRUE) /\ ~Held(listeners, l, FALSE) /\ credit[l] >= 0
  /\ standing[l] = "always" =>
       /\ Held(listeners, l, FALSE) /\ ~Held(listeners, l, TRUE)
       /\ ~emission.orphaned /\ ~Leaving(l)
  /\ standing[l] = "once" =>
       /\ credit[l] >= 0 /\ ~Held(listeners, l, FALSE)
       /\ Held(listeners, l, TRUE) => credit[l] >= 1 \/ Leaving(l)

EventsInv == EventsType /\ LoopInMap /\ \A l \in Listener : Expected(l)

(* The Map and its entries.                                                *)
LEMMA MapFacts ==
  ASSUME EventsType
  PROVE  /\ listeners \in Seq(Entry) /\ Len(listeners) \in Nat
         /\ DOMAIN listeners = 1 .. Len(listeners)
         /\ \A i \in 1 .. Len(listeners) :
              /\ listeners[i].listener \in Listener /\ listeners[i].once \in BOOLEAN
              /\ Held(listeners, listeners[i].listener, listeners[i].once)
         /\ \A l : l \in Registered <=>
              Held(listeners, l, TRUE) \/ Held(listeners, l, FALSE)
         /\ \A l \in Registered : /\ Place(l) \in 1 .. Len(listeners)
                                 /\ listeners[Place(l)].listener = l
<1>1. /\ listeners \in Seq(Entry) /\ Len(listeners) \in Nat
      /\ DOMAIN listeners = 1 .. Len(listeners)
      /\ \A i \in 1 .. Len(listeners) : listeners[i] \in Entry
  BY DEF EventsType, IsMap
<1>2. \A i \in 1 .. Len(listeners) :
        /\ listeners[i].listener \in Listener /\ listeners[i].once \in BOOLEAN
        /\ Held(listeners, listeners[i].listener, listeners[i].once)
  BY <1>1 DEF Entry, Held
<1>3. ASSUME NEW l
      PROVE  l \in Registered <=> Held(listeners, l, TRUE) \/ Held(listeners, l, FALSE)
  <2>1. \A i \in 1 .. Len(listeners) : listeners[i].once = TRUE \/ listeners[i].once = FALSE
    BY <1>2
  <2>2. QED
    BY <2>1, <1>1 DEF Held, Registered
<1>4. ASSUME NEW l \in Registered
      PROVE  Place(l) \in 1 .. Len(listeners) /\ listeners[Place(l)].listener = l
  <2>1. \E i \in DOMAIN listeners : listeners[i].listener = l
    BY DEF Registered
  <2>2. QED
    BY <2>1, <1>1 DEF Place
<1>5. QED
  BY <1>1, <1>2, <1>3, <1>4

-----------------------------------------------------------------------------
(* The calls of the host *)

(* What on() and once() do to the Map.                                     *)
LEMMA AddListenerMap ==
  ASSUME EventsType, NEW k \in Listener, NEW flag \in BOOLEAN, AddListener(k, flag)
  PROVE  /\ IsMap(listeners') /\ Len(listeners') >= Len(listeners)
         /\ emission' = emission
         /\ \A l : \A once : l # k => (Held(listeners', l, once) <=> Held(listeners, l, once))
         /\ k \notin Registered => \A once : Held(listeners', k, once) <=> once = flag
         /\ Held(listeners, k, TRUE) => \A once : Held(listeners', k, once) <=> once = flag
         /\ Held(listeners, k, FALSE) => \A once : Held(listeners', k, once) <=> once = ~flag
<1>1. IsMap(listeners) /\ emission' = emission /\ Len(listeners) \in Nat
  BY MapFacts DEF EventsType, AddListener
<1>2. CASE k \notin Registered
  <2>1. listeners' = Append(listeners, [listener |-> k, once |-> flag])
    BY <1>2 DEF AddListener
  <2>2. \A i \in DOMAIN listeners : listeners[i].listener # k
    BY <1>2 DEF Registered
  <2>3. /\ IsMap(listeners') /\ Len(listeners') = Len(listeners) + 1
        /\ \A l : \A once : Held(listeners', l, once) <=>
             Held(listeners, l, once) \/ (l = k /\ once = flag)
    BY <1>1, <2>1, <2>2, AddedToMap
  <2>4. ~Held(listeners, k, TRUE) /\ ~Held(listeners, k, FALSE)
        /\ \A once : ~Held(listeners, k, once)
    BY <2>2 DEF Held
  <2>5. Len(listeners') >= Len(listeners)
    BY <1>1, <2>3
  <2>6. QED
    BY <1>1, <1>2, <2>3, <2>4, <2>5
<1>3. CASE k \in Registered
  <2> DEFINE p   == Place(k)
             old == listeners[p].once
  <2>1. p \in 1 .. Len(listeners) /\ listeners[p].listener = k /\ old \in BOOLEAN
    BY <1>3, MapFacts
  <2>2. listeners' = [listeners EXCEPT ![p].once = Flag(old, flag)]
    BY <1>3 DEF AddListener
  <2>3. Flag(old, flag) \in BOOLEAN
    BY DEF Flag
  <2>4. Held(listeners, k, TRUE) => old = TRUE
    BY <2>1 DEF EventsType, IsMap, Held
  <2>5. Held(listeners, k, FALSE) => old = FALSE
    BY <2>1 DEF EventsType, IsMap, Held
  <2> HIDE DEF p, old
  <2>6. /\ IsMap(listeners') /\ Len(listeners') = Len(listeners)
        /\ \A l : \A once : Held(listeners', l, once) <=>
             \/ l # k /\ Held(listeners, l, once)
             \/ l = k /\ once = Flag(old, flag)
    BY <1>1, <2>1, <2>2, <2>3, ChangedInMap
  <2>7. old = TRUE => Flag(old, flag) = flag
    BY DEF Flag
  <2>8. old = FALSE => Flag(old, flag) = ~flag
    BY DEF Flag
  <2>9. Len(listeners') >= Len(listeners)
    BY <1>1, <2>6
  <2>10. Held(listeners, k, TRUE) => \A once : Held(listeners', k, once) <=> once = flag
    BY <2>4, <2>6, <2>7
  <2>11. Held(listeners, k, FALSE) => \A once : Held(listeners', k, once) <=> once = ~flag
    BY <2>5, <2>6, <2>8
  <2>12. QED
    BY <1>1, <1>3, <2>6, <2>9, <2>10, <2>11
<1>4. QED
  BY <1>2, <1>3

(* A registration leaves the loop within the Map.                          *)
LEMMA AddListenerLoop ==
  ASSUME EventsInv, IsMap(listeners'), Len(listeners') >= Len(listeners),
         emission' = emission
  PROVE  LoopInMap'
<1>1. Len(listeners) \in Nat /\ Len(listeners') \in Nat /\ emission.at \in Nat
  BY MapFacts DEF EventsInv, EventsType, Emission, IsMap
<1>2. QED
  BY <1>1 DEF EventsInv, LoopInMap, Emitting

(* once() keeps the invariant.                                             *)
LEMMA OnceInv ==
  ASSUME EventsInv, NEW k \in Listener, Once(k)
  PROVE  EventsInv'
<1>1. EventsType /\ AddListener(k, TRUE) /\ calls' = calls + 1
  BY DEF EventsInv, Once, MayCall
<1>2. /\ IsMap(listeners') /\ Len(listeners') >= Len(listeners) /\ emission' = emission
      /\ \A l : \A once : l # k => (Held(listeners', l, once) <=> Held(listeners, l, once))
      /\ k \notin Registered => \A once : Held(listeners', k, once) <=> once = TRUE
      /\ Held(listeners, k, TRUE) => \A once : Held(listeners', k, once) <=> once = TRUE
      /\ Held(listeners, k, FALSE) => \A once : Held(listeners', k, once) <=> once = ~TRUE
  BY <1>1, AddListenerMap
<1>3. /\ standing \in [Listener -> {"none", "once", "always", "other"}]
      /\ standing' = [standing EXCEPT ![k] = IF @ = "none" THEN "once" ELSE @]
      /\ credit \in [Listener -> Int]
      /\ credit' = [credit EXCEPT ![k] = IF standing[k] = "always" THEN @ ELSE @ + 1]
  BY <1>1 DEF Once, EventsType
<1>4. EventsType'
  BY <1>1, <1>2, <1>3 DEF EventsType
<1>5. LoopInMap'
  BY <1>2, AddListenerLoop
<1>6. ASSUME NEW l \in Listener, l # k
      PROVE  Expected(l)'
  BY <1>2, <1>3, <1>6 DEF EventsInv, Expected, Leaving
<1>7. Expected(k)'
  <2>1. Expected(k)
    BY DEF EventsInv
  <2>2. CASE standing[k] = "none"
    <3>1. k \notin Registered
      BY <1>1, <2>1, <2>2, MapFacts DEF Expected
    <3>2. Held(listeners', k, TRUE) /\ ~Held(listeners', k, FALSE)
      BY <1>2, <3>1
    <3>3. standing'[k] = "once" /\ credit'[k] >= 1 /\ credit'[k] \in Int
      BY <1>3, <2>1, <2>2 DEF Expected
    <3>4. credit'[k] >= 0 /\ standing'[k] # "none" /\ standing'[k] # "always"
      BY <3>3
    <3>5. QED
      BY <3>2, <3>3, <3>4 DEF Expected
  <2>3. CASE standing[k] = "once"
    <3>1. Held(listeners', k, TRUE) /\ ~Held(listeners', k, FALSE)
      BY <1>1, <1>2, <2>1, <2>3, MapFacts DEF Expected
    <3>2. standing'[k] = "once" /\ credit'[k] >= 1 /\ credit'[k] \in Int
      BY <1>3, <2>1, <2>3 DEF Expected
    <3>3. credit'[k] >= 0 /\ standing'[k] # "none" /\ standing'[k] # "always"
      BY <3>2
    <3>4. QED
      BY <3>1, <3>2, <3>3 DEF Expected
  <2>4. CASE standing[k] = "always"
    <3>1. Held(listeners', k, FALSE) /\ ~Held(listeners', k, TRUE)
      BY <1>2, <2>1, <2>4 DEF Expected
    <3>2. standing'[k] = "always"
      BY <1>3, <2>4
    <3>3. QED
      BY <1>2, <2>1, <2>4, <3>1, <3>2 DEF Expected, Leaving
  <2>5. CASE standing[k] = "other"
    BY <1>3, <2>5 DEF Expected
  <2>6. QED
    BY <1>3, <2>2, <2>3, <2>4, <2>5
<1>8. QED
  BY <1>4, <1>5, <1>6, <1>7 DEF EventsInv

(* on() keeps the invariant.                                               *)
LEMMA OnInv ==
  ASSUME EventsInv, NEW k \in Listener, On(k)
  PROVE  EventsInv'
<1>1. EventsType /\ AddListener(k, FALSE) /\ calls' = calls + 1
  BY DEF EventsInv, On, MayCall
<1>2. /\ IsMap(listeners') /\ Len(listeners') >= Len(listeners) /\ emission' = emission
      /\ \A l : \A once : l # k => (Held(listeners', l, once) <=> Held(listeners, l, once))
      /\ k \notin Registered => \A once : Held(listeners', k, once) <=> once = FALSE
  BY <1>1, AddListenerMap
<1>3. /\ standing \in [Listener -> {"none", "once", "always", "other"}]
      /\ standing' = [standing EXCEPT ![k] =
           IF Emitting \/ k \in Registered THEN "other" ELSE "always"]
      /\ credit' = credit
  BY <1>1 DEF On, EventsType
<1>4. EventsType'
  BY <1>1, <1>2, <1>3 DEF EventsType
<1>5. LoopInMap'
  BY <1>2, AddListenerLoop
<1>6. ASSUME NEW l \in Listener, l # k
      PROVE  Expected(l)'
  BY <1>2, <1>3, <1>6 DEF EventsInv, Expected, Leaving
<1>7. Expected(k)'
  <2>1. CASE Emitting \/ k \in Registered
    <3>1. standing'[k] = "other"
      BY <1>3, <2>1
    <3>2. QED
      BY <3>1 DEF Expected
  <2>2. CASE ~Emitting /\ k \notin Registered
    <3>1. standing'[k] = "always"
      BY <1>3, <2>2
    <3>2. Held(listeners', k, FALSE) /\ ~Held(listeners', k, TRUE)
      BY <1>2, <2>2
    <3>3. ~emission'.orphaned /\ ~Leaving(k)'
      BY <1>2, <2>2 DEF EventsInv, LoopInMap, Emitting, Leaving
    <3>4. QED
      BY <3>1, <3>2, <3>3 DEF Expected
  <2>3. QED
    BY <2>1, <2>2
<1>8. QED
  BY <1>4, <1>5, <1>6, <1>7 DEF EventsInv

(* What removeListener() does to the Map and to the loop over it.          *)
LEMMA DeletedMap ==
  ASSUME EventsInv, NEW k \in Registered, Deleted(k)
  PROVE  /\ IsMap(listeners')
         /\ \A l : \A once : Held(listeners', l, once) <=>
                             l # k /\ Held(listeners, l, once)
         /\ emission' \in Emission /\ emission'.stage = emission.stage
         /\ emission'.event = emission.event /\ emission'.once = emission.once
         /\ emission'.listener = emission.listener
         /\ emission.orphaned => emission'.orphaned
         /\ ~emission.orphaned /\ emission'.orphaned =>
              Emitting /\ \A l : \A once : ~Held(listeners', l, once)
         /\ LoopInMap'
<1>1. /\ IsMap(listeners) /\ Len(listeners) \in Nat /\ EventsType
      /\ Place(k) \in 1 .. Len(listeners) /\ listeners[Place(k)].listener = k
  BY MapFacts DEF EventsInv, EventsType
<1>2. /\ IsMap(listeners') /\ Len(listeners') = Len(listeners) - 1
      /\ \A l : \A once : Held(listeners', l, once) <=>
                          l # k /\ Held(listeners, l, once)
  BY <1>1, RemovedFromMap DEF Deleted
<1> DEFINE at       == IF Emitting /\ ~emission.orphaned /\ Place(k) <= emission.at
                       THEN emission.at - 1 ELSE emission.at
           orphaned == emission.orphaned \/ (Emitting /\ Len(listeners) = 1)
<1>3. emission' = [emission EXCEPT !.at = at, !.orphaned = orphaned]
  BY DEF Deleted
<1>4. emission \in Emission /\ emission.at \in Nat /\ emission.orphaned \in BOOLEAN
  BY DEF EventsInv, EventsType, Emission
<1>5. at \in Nat /\ orphaned \in BOOLEAN
  BY <1>1, <1>4 DEF Emitting
<1>6. emission'.at = at /\ emission'.orphaned = orphaned
  BY <1>3, <1>4 DEF Emission
<1>7. /\ emission' \in Emission /\ emission'.stage = emission.stage
      /\ emission'.event = emission.event /\ emission'.once = emission.once
      /\ emission'.listener = emission.listener
  BY <1>3, <1>4, <1>5 DEF Emission
<1>8. LoopInMap'
  <2>1. Emitting' <=> Emitting
    BY <1>7 DEF Emitting
  <2>2. ~Emitting => at = 0 /\ ~orphaned
    BY DEF EventsInv, LoopInMap
  <2>3. orphaned \/ at <= Len(listeners')
    <3>1. emission.orphaned \/ emission.at <= Len(listeners)
      BY DEF EventsInv, LoopInMap
    <3>2. CASE Place(k) <= emission.at /\ Emitting
      BY <1>1, <1>2, <1>4, <3>1, <3>2
    <3>3. CASE Place(k) > emission.at
      BY <1>1, <1>2, <1>4, <3>3
    <3>4. CASE ~Emitting
      BY <1>1, <1>2, <2>2, <3>4
    <3>5. QED
      BY <1>1, <1>4, <3>2, <3>3, <3>4
  <2>4. QED
    BY <1>6, <1>7, <2>1, <2>2, <2>3 DEF EventsInv, LoopInMap
<1>9. ASSUME ~emission.orphaned, orphaned
      PROVE  Emitting /\ \A l : \A once : ~Held(listeners', l, once)
  <2>1. Emitting /\ Len(listeners) = 1
    BY <1>9
  <2>2. DOMAIN listeners' = 1 .. Len(listeners') /\ Len(listeners') = 0
    BY <1>2, <2>1 DEF IsMap
  <2>3. QED
    BY <2>1, <2>2 DEF Held
<1>10. QED
  BY <1>2, <1>6, <1>7, <1>8, <1>9

(* removeListener() keeps the invariant.                                   *)
LEMMA RemoveListenerInv ==
  ASSUME EventsInv, NEW k \in Listener, RemoveListener(k)
  PROVE  EventsInv'
<1>1. /\ EventsType /\ calls' = calls + 1
      /\ standing \in [Listener -> {"none", "once", "always", "other"}]
      /\ standing' = [standing EXCEPT ![k] = "none"]
      /\ credit \in [Listener -> Int] /\ credit' = [credit EXCEPT ![k] = 0]
  BY DEF EventsInv, EventsType, RemoveListener, MayCall
<1>2. CASE k \in Registered /\ Deleted(k)
  <2>1. /\ IsMap(listeners')
        /\ \A l : \A once : Held(listeners', l, once) <=>
                            l # k /\ Held(listeners, l, once)
        /\ emission' \in Emission /\ emission'.stage = emission.stage
        /\ emission'.event = emission.event /\ emission'.once = emission.once
        /\ emission'.listener = emission.listener
        /\ emission.orphaned => emission'.orphaned
        /\ ~emission.orphaned /\ emission'.orphaned =>
             Emitting /\ \A l : \A once : ~Held(listeners', l, once)
        /\ LoopInMap'
    BY <1>2, DeletedMap
  <2>2. EventsType'
    BY <1>1, <2>1 DEF EventsType
  <2>3. standing'[k] = "none" /\ credit'[k] = 0 /\ credit'[k] >= 0
    BY <1>1
  <2>4. Expected(k)'
    <3>1. ~Held(listeners', k, TRUE) /\ ~Held(listeners', k, FALSE)
      BY <2>1
    <3>2. standing'[k] # "once" /\ standing'[k] # "always"
      BY <2>3
    <3>3. QED
      BY <2>3, <3>1, <3>2 DEF Expected
  <2>5. ASSUME NEW l \in Listener, l # k
        PROVE  Expected(l)'
    <3>1. standing'[l] = standing[l] /\ credit'[l] = credit[l]
      BY <1>1, <2>5
    <3>2. Held(listeners', l, TRUE) <=> Held(listeners, l, TRUE)
      BY <2>1, <2>5
    <3>3. Held(listeners', l, FALSE) <=> Held(listeners, l, FALSE)
      BY <2>1, <2>5
    <3>4. Leaving(l)' => Leaving(l)
      BY <2>1 DEF Leaving
    <3>5. Leaving(l) /\ Held(listeners', l, TRUE) => Leaving(l)'
      BY <2>1 DEF Leaving
    <3>6. Expected(l)
      BY DEF EventsInv
    <3>7. CASE standing[l] = "always"
      BY <2>1, <3>1, <3>2, <3>3, <3>4, <3>6, <3>7 DEF Expected
    <3>8. CASE standing[l] # "always"
      BY <3>1, <3>2, <3>3, <3>5, <3>6, <3>8 DEF Expected
    <3>9. QED
      BY <3>7, <3>8
  <2>6. QED
    BY <2>1, <2>2, <2>4, <2>5 DEF EventsInv
<1>3. CASE k \notin Registered /\ UNCHANGED <<listeners, emission>>
  <2>1. EventsType' /\ LoopInMap'
    BY <1>1, <1>3 DEF EventsInv, EventsType, LoopInMap, Emitting
  <2>2. ~Held(listeners', k, TRUE) /\ ~Held(listeners', k, FALSE)
    BY <1>1, <1>3, MapFacts
  <2>3. Expected(k)'
    <3>1. standing'[k] = "none" /\ credit'[k] = 0 /\ credit'[k] >= 0
      BY <1>1
    <3>2. standing'[k] # "once" /\ standing'[k] # "always"
      BY <3>1
    <3>3. QED
      BY <1>3, <2>2, <3>1, <3>2 DEF Expected
  <2>4. ASSUME NEW l \in Listener, l # k
        PROVE  Expected(l)'
    BY <1>1, <1>3, <2>4 DEF EventsInv, Expected, Leaving
  <2>5. QED
    BY <2>1, <2>3, <2>4 DEF EventsInv
<1>4. QED
  BY <1>2, <1>3 DEF RemoveListener

-----------------------------------------------------------------------------
(* emit() *)

(* What the loop starts with, and what is left of it.                      *)
LEMMA EmissionTypes ==
  /\ Idle \in Emission /\ Idle.stage = "idle" /\ Idle.at = 0 /\ Idle.orphaned = FALSE
  /\ \A stage \in {"starting", "next"}, event \in RoleName :
       LET new == [Idle EXCEPT !.stage = stage, !.event = event]
       IN  /\ new \in Emission /\ new.stage = stage /\ new.at = 0
           /\ new.orphaned = FALSE /\ new.event = event
<1>1. /\ Idle \in Emission /\ Idle.stage = "idle" /\ Idle.at = 0
      /\ Idle.orphaned = FALSE
  <2>1. Idle.stage = "idle" /\ Idle.at = 0
    BY DEF Idle
  <2>2. Idle.orphaned = FALSE
    BY DEF Idle
  <2>3. Idle \in Emission
    BY DEF Idle, Emission, RoleName
  <2>4. QED
    BY <2>1, <2>2, <2>3
<1>2. ASSUME NEW stage \in {"starting", "next"}, NEW event \in RoleName
      PROVE  LET new == [Idle EXCEPT !.stage = stage, !.event = event]
             IN  /\ new \in Emission /\ new.stage = stage /\ new.at = 0
                 /\ new.orphaned = FALSE /\ new.event = event
  <2> HIDE DEF Idle
  <2>1. QED
    BY <1>1 DEF Emission
<1>3. QED
  BY <1>1, <1>2

(* An emission that is over.                                               *)
LEMMA IdleFields ==
  /\ Idle \in Emission /\ Idle.stage = "idle" /\ Idle.stage # "calling" /\ Idle.at = 0
  /\ ~Idle.orphaned
BY EmissionTypes

(* A loop that has not begun, or none, keeps the invariant.                *)
LEMMA FreshEmissionInv ==
  ASSUME EventsInv, ~Emitting, UNCHANGED <<listeners, standing, credit, calls>>,
         emission' \in Emission, emission'.at = 0, emission'.orphaned = FALSE,
         emission'.stage # "calling"
  PROVE  EventsInv'
<1>1. EventsType'
  BY DEF EventsInv, EventsType
<1>2. LoopInMap'
  <2>1. Len(listeners) \in Nat
    BY MapFacts DEF EventsInv
  <2>2. QED
    BY <2>1 DEF LoopInMap
<1>3. ASSUME NEW l \in Listener
      PROVE  Expected(l)'
  BY DEF EventsInv, Expected, Leaving, Emitting
<1>4. QED
  BY <1>1, <1>2, <1>3 DEF EventsInv

(* emit() itself.                                                          *)
LEMMA EmitInv ==
  ASSUME EventsInv, ~Emitting, NEW event \in RoleName, Emit(event)
  PROVE  EventsInv'
<1>1. /\ emission' \in Emission /\ emission'.at = 0 /\ emission'.orphaned = FALSE
      /\ emission'.stage # "calling"
  BY EmissionTypes DEF Emit
<1>2. UNCHANGED <<listeners, standing, credit, calls>>
  BY DEF Emit
<1>3. QED
  BY <1>1, <1>2, FreshEmissionInv

(* The listener that is called is one that the host may expect to be.      *)
LEMMA CalledIsRegistered ==
  ASSUME EventsInv, CallListener
  PROVE  \E k \in Listener, once \in BOOLEAN :
           /\ Held(listeners, k, once) /\ standing[k] # "none"
           /\ emission.stage = "next" /\ ~emission.orphaned
           /\ emission.at + 1 <= Len(listeners)
           /\ emission' = [emission EXCEPT !.stage = "calling", !.at = @ + 1,
                            !.listener = k, !.once = once]
           /\ emission'.listener = k /\ emission'.event = emission.event
           /\ credit' = [credit EXCEPT ![k] =
                IF standing[k] = "always" THEN @ ELSE @ - 1]
<1> DEFINE entry == listeners[emission.at + 1]
<1>1. /\ emission \in Emission /\ emission.at \in Nat /\ Len(listeners) \in Nat
      /\ ~emission.orphaned /\ emission.at < Len(listeners) /\ EventsType
      /\ emission.stage = "next"
  BY MapFacts DEF EventsInv, EventsType, Emission, CallListener, More
<1>2. emission.at + 1 \in 1 .. Len(listeners)
  BY <1>1
<1>3. /\ entry.listener \in Listener /\ entry.once \in BOOLEAN
      /\ Held(listeners, entry.listener, entry.once)
  BY <1>1, <1>2, MapFacts
<1>4. /\ emission' = [emission EXCEPT !.stage = "calling", !.at = @ + 1,
                       !.listener = entry.listener, !.once = entry.once]
      /\ credit' = [credit EXCEPT ![entry.listener] =
           IF standing[entry.listener] = "always" THEN @ ELSE @ - 1]
  BY DEF CallListener
<1> HIDE DEF entry
<1>5. emission'.listener = entry.listener /\ emission'.event = emission.event
  BY <1>1, <1>4 DEF Emission
<1>6. standing[entry.listener] # "none"
  <2>1. Expected(entry.listener)
    BY <1>3 DEF EventsInv
  <2>2. CASE entry.once = TRUE
    BY <1>3, <2>1, <2>2 DEF Expected
  <2>3. CASE entry.once = FALSE
    BY <1>3, <2>1, <2>3 DEF Expected
  <2>4. QED
    BY <1>3, <2>2, <2>3
<1>7. emission.at + 1 <= Len(listeners)
  BY <1>1
<1>8. QED
  BY <1>1, <1>3, <1>4, <1>5, <1>6, <1>7

(* The call of a listener keeps the invariant.                             *)
LEMMA CallListenerInv ==
  ASSUME EventsInv, CallListener
  PROVE  EventsInv'
<1>1. PICK k \in Listener, once \in BOOLEAN :
        /\ Held(listeners, k, once)
        /\ emission.at + 1 <= Len(listeners) /\ ~emission.orphaned
        /\ emission.stage = "next"
        /\ emission' = [emission EXCEPT !.stage = "calling", !.at = @ + 1,
                         !.listener = k, !.once = once]
        /\ credit' = [credit EXCEPT ![k] =
             IF standing[k] = "always" THEN @ ELSE @ - 1]
  BY CalledIsRegistered
<1>2. /\ EventsType /\ emission \in Emission /\ emission.at \in Nat
      /\ UNCHANGED <<listeners, standing, calls>>
      /\ standing \in [Listener -> {"none", "once", "always", "other"}]
      /\ credit \in [Listener -> Int]
  BY DEF EventsInv, EventsType, Emission, CallListener
<1>3. /\ emission' \in Emission /\ emission'.stage = "calling"
      /\ emission'.at = emission.at + 1 /\ emission'.listener = k
      /\ emission'.once = once /\ ~emission'.orphaned
  <2>1. /\ emission'.stage = "calling" /\ emission'.at = emission.at + 1
        /\ emission'.listener = k
    BY <1>1, <1>2 DEF Emission
  <2>2. emission'.once = once
    BY <1>1, <1>2 DEF Emission
  <2>3. ~emission'.orphaned
    BY <1>1, <1>2 DEF Emission
  <2>4. emission' \in Emission
    <3>1. ASSUME NEW at \in Nat
          PROVE  [emission EXCEPT !.stage = "calling", !.at = at, !.listener = k,
                                  !.once = once] \in Emission
      BY <1>2 DEF Emission
    <3>2. emission.at + 1 \in Nat
      BY <1>2
    <3>3. QED
      BY <1>1, <3>1, <3>2
  <2>5. QED
    BY <2>1, <2>2, <2>3, <2>4
<1>4. EventsType'
  BY <1>1, <1>2, <1>3 DEF EventsType
<1>5. LoopInMap'
  BY <1>1, <1>2, <1>3 DEF LoopInMap, Emitting
<1>6. ASSUME NEW l \in Listener, l # k
      PROVE  Expected(l)'
  <2>1. standing'[l] = standing[l] /\ credit'[l] = credit[l]
    BY <1>1, <1>2, <1>6
  <2>2. ~Leaving(l) /\ ~Leaving(l)'
    BY <1>1, <1>3, <1>6 DEF Leaving
  <2>3. QED
    BY <1>2, <1>3, <2>1, <2>2 DEF EventsInv, Expected
<1>7. Expected(k)'
  <2>1. Expected(k) /\ ~Leaving(k)
    BY <1>1 DEF EventsInv, Leaving
  <2>2. CASE standing[k] = "none"
    <3>1. ~Held(listeners, k, TRUE) /\ ~Held(listeners, k, FALSE)
      BY <2>1, <2>2 DEF Expected
    <3>2. CASE once = TRUE
      BY <1>1, <3>1, <3>2
    <3>3. CASE once = FALSE
      BY <1>1, <3>1, <3>3
    <3>4. QED
      BY <1>1, <3>2, <3>3
  <2>3. CASE standing[k] = "once"
    <3>1. once = TRUE
      <4>1. CASE once = FALSE
        BY <1>1, <2>1, <2>3, <4>1 DEF Expected
      <4>2. QED
        BY <1>1, <4>1
    <3>2. Leaving(k)'
      BY <1>3, <3>1 DEF Leaving
    <3>3. credit[k] >= 1 /\ credit[k] \in Int /\ ~Held(listeners, k, FALSE)
      BY <1>1, <1>2, <2>1, <2>3, <3>1 DEF Expected
    <3>4. credit'[k] >= 0
      BY <1>1, <1>2, <2>3, <3>3
    <3>5. standing'[k] = "once" /\ standing'[k] # "none" /\ standing'[k] # "always"
      BY <1>2, <2>3
    <3>6. QED
      BY <1>2, <3>2, <3>3, <3>4, <3>5 DEF Expected
  <2>4. CASE standing[k] = "always"
    <3>1. once = FALSE
      <4>1. CASE once = TRUE
        BY <1>1, <2>1, <2>4, <4>1 DEF Expected
      <4>2. QED
        BY <1>1, <4>1
    <3>2. ~Leaving(k)'
      BY <1>3, <3>1 DEF Leaving
    <3>3. QED
      BY <1>2, <1>3, <2>1, <2>4, <3>2 DEF Expected
  <2>5. CASE standing[k] = "other"
    BY <1>2, <2>5 DEF Expected
  <2>6. QED
    BY <1>1, <1>2, <2>2, <2>3, <2>4, <2>5
<1>8. QED
  BY <1>4, <1>5, <1>6, <1>7 DEF EventsInv

(* What is left of the Map when a listener has been called.                *)
LEMMA FinallyMap ==
  ASSUME EventsInv, emission.stage = "calling"
  PROVE  /\ IsMap(Finally.map) /\ Finally.at \in Nat
         /\ emission.orphaned \/ Finally.at <= Len(Finally.map)
         /\ \A l : \A once : Held(Finally.map, l, once) <=>
              Held(listeners, l, once) /\ ~Leaving(l)
<1> DEFINE k == emission.listener
           p == Place(k)
<1>1. /\ IsMap(listeners) /\ EventsType /\ emission.at \in Nat /\ Len(listeners) \in Nat
      /\ emission.orphaned \/ emission.at <= Len(listeners)
  BY MapFacts DEF EventsInv, EventsType, Emission, LoopInMap
<1>2. CASE emission.once /\ ~emission.orphaned /\ k \in Registered
  <2>1. Finally = [map |-> RemoveAt(listeners, p),
                   at  |-> IF p <= emission.at THEN emission.at - 1 ELSE emission.at]
    BY <1>2 DEF Finally
  <2>2. p \in 1 .. Len(listeners) /\ listeners[p].listener = k
    BY <1>1, <1>2, MapFacts
  <2> HIDE DEF p, k
  <2>3. /\ IsMap(RemoveAt(listeners, p))
        /\ Len(RemoveAt(listeners, p)) = Len(listeners) - 1
        /\ \A l : \A once : Held(RemoveAt(listeners, p), l, once) <=>
             l # k /\ Held(listeners, l, once)
    BY <1>1, <2>2, RemovedFromMap
  <2>4. /\ Finally.map = RemoveAt(listeners, p)
        /\ Finally.at = IF p <= emission.at THEN emission.at - 1 ELSE emission.at
    BY <2>1
  <2>5. Finally.at \in Nat /\ Finally.at <= Len(Finally.map)
    <3>1. p \in Nat /\ p >= 1 /\ p <= Len(listeners) /\ emission.at <= Len(listeners)
      BY <1>1, <1>2, <2>2
    <3>2. CASE p <= emission.at
      BY <1>1, <2>3, <2>4, <3>1, <3>2
    <3>3. CASE p > emission.at
      BY <1>1, <2>3, <2>4, <3>1, <3>3
    <3>4. QED
      BY <1>1, <3>1, <3>2, <3>3
  <2>6. \A l : Leaving(l) <=> l = k
    BY <1>2 DEF Leaving, k
  <2>7. QED
    BY <2>3, <2>4, <2>5, <2>6
<1>3. CASE ~(emission.once /\ ~emission.orphaned /\ k \in Registered)
  <2>1. Finally = [map |-> listeners, at |-> emission.at]
    BY <1>3 DEF Finally
  <2>2. Finally.map = listeners /\ Finally.at = emission.at
    BY <2>1
  <2>3. ASSUME NEW l, NEW once, Held(listeners, l, once)
        PROVE  ~Leaving(l)
    <3>1. l \in Registered
      BY <2>3 DEF Held, Registered
    <3>2. QED
      BY <1>3, <3>1 DEF Leaving
  <2>4. QED
    BY <1>1, <2>2, <2>3
<1>4. QED
  BY <1>2, <1>3

(* A listener that returned keeps the invariant.                           *)
LEMMA ListenerReturnsInv ==
  ASSUME EventsInv, ListenerReturns
  PROVE  EventsInv'
<1>1. /\ IsMap(listeners') /\ Finally.at \in Nat
      /\ emission.orphaned \/ Finally.at <= Len(listeners')
      /\ \A l : \A once : Held(listeners', l, once) <=>
           Held(listeners, l, once) /\ ~Leaving(l)
  BY FinallyMap DEF ListenerReturns
<1>2. /\ EventsType /\ emission \in Emission
      /\ emission' = [emission EXCEPT !.stage = "next", !.at = Finally.at]
      /\ UNCHANGED <<standing, credit, calls>>
  BY DEF EventsInv, EventsType, ListenerReturns
<1>3. /\ emission' \in Emission /\ emission'.stage = "next"
      /\ emission'.at = Finally.at /\ emission'.orphaned = emission.orphaned
  BY <1>1, <1>2 DEF Emission
<1>4. EventsType'
  BY <1>1, <1>2, <1>3 DEF EventsType
<1>5. LoopInMap'
  BY <1>1, <1>3 DEF LoopInMap, Emitting
<1>6. ASSUME NEW l \in Listener
      PROVE  Expected(l)'
  <2>1. Expected(l) /\ ~Leaving(l)'
    BY <1>3 DEF EventsInv, Leaving
  <2>2. QED
    BY <1>1, <1>2, <1>3, <2>1 DEF Expected
<1>7. QED
  BY <1>4, <1>5, <1>6 DEF EventsInv

(* The end of an emit() that lost its Map: what was registered since is    *)
(* lost, and nothing of it was to stay.                                    *)
LEMMA OrphanedEndInv ==
  ASSUME EventsInv, emission.orphaned, listeners' = << >>, emission' = Idle,
         UNCHANGED <<standing, credit, calls>>
  PROVE  EventsInv'
<1>1. IsMap(listeners') /\ \A l : \A once : ~Held(listeners', l, once)
  BY DEF IsMap, Held
<1>2. EventsType'
  BY <1>1, IdleFields DEF EventsInv, EventsType
<1>3. LoopInMap'
  <2>1. Len(listeners') \in Nat /\ Len(listeners') = 0
    OBVIOUS
  <2>2. /\ emission'.stage = "idle" /\ emission'.stage # "calling"
        /\ emission'.at = 0 /\ ~emission'.orphaned
    BY IdleFields
  <2>3. QED
    BY <2>1, <2>2 DEF LoopInMap
<1>4. ASSUME NEW l \in Listener
      PROVE  Expected(l)'
  <2>1. Expected(l)
    BY DEF EventsInv
  <2>2. QED
    BY <1>1, <2>1 DEF Expected
<1>5. QED
  BY <1>2, <1>3, <1>4 DEF EventsInv

(* A listener that throws ends the emit() and keeps the invariant.         *)
LEMMA ListenerThrowsInv ==
  ASSUME EventsInv, ListenerThrows
  PROVE  EventsInv'
<1>1. CASE emission.orphaned
  BY <1>1, OrphanedEndInv DEF ListenerThrows
<1>2. CASE ~emission.orphaned
  <2>1. /\ IsMap(listeners') /\ emission' = Idle
        /\ \A l : \A once : Held(listeners', l, once) <=>
             Held(listeners, l, once) /\ ~Leaving(l)
        /\ EventsType /\ UNCHANGED <<standing, credit, calls>>
    BY <1>2, FinallyMap DEF ListenerThrows, EventsInv
  <2>2. EventsType'
    BY <2>1, IdleFields DEF EventsType
  <2>3. LoopInMap'
    <3>1. Len(listeners') \in Nat
      BY <2>1 DEF IsMap
    <3>2. /\ emission'.stage = "idle" /\ emission'.stage # "calling"
          /\ emission'.at = 0 /\ ~emission'.orphaned
      BY <2>1, IdleFields
    <3>3. QED
      BY <3>1, <3>2 DEF LoopInMap
  <2>4. ASSUME NEW l \in Listener
        PROVE  Expected(l)'
    <3>1. Expected(l) /\ ~Leaving(l)' /\ ~emission'.orphaned
      BY <2>1, IdleFields DEF EventsInv, Leaving
    <3>2. QED
      BY <2>1, <3>1 DEF Expected
  <2>5. QED
    BY <2>2, <2>3, <2>4 DEF EventsInv
<1>3. QED
  BY <1>1, <1>2 DEF EventsInv, EventsType, Emission

(* So does the end of the loop.                                            *)
LEMMA EmitEndsInv ==
  ASSUME EventsInv, EmitEnds
  PROVE  EventsInv'
<1>1. CASE emission.orphaned
  BY <1>1, OrphanedEndInv DEF EmitEnds
<1>2. CASE ~emission.orphaned
  <2>1. EventsType /\ emission' = Idle /\ UNCHANGED <<listeners, standing, credit, calls>>
    BY <1>2 DEF EmitEnds, EventsInv
  <2>2. EventsType'
    BY <2>1, IdleFields DEF EventsType
  <2>3. LoopInMap'
    <3>1. Len(listeners') \in Nat
      BY <2>1, MapFacts
    <3>2. /\ emission'.stage = "idle" /\ emission'.stage # "calling"
          /\ emission'.at = 0 /\ ~emission'.orphaned
      BY <2>1, IdleFields
    <3>3. QED
      BY <3>1, <3>2 DEF LoopInMap
  <2>4. ASSUME NEW l \in Listener
        PROVE  Expected(l)'
    <3>1. Expected(l) /\ ~Leaving(l) /\ ~Leaving(l)' /\ ~emission'.orphaned
      BY <2>1, IdleFields DEF EventsInv, Leaving, EmitEnds
    <3>2. QED
      BY <2>1, <3>1 DEF Expected
  <2>5. QED
    BY <2>2, <2>3, <2>4 DEF EventsInv
<1>3. QED
  BY <1>1, <1>2 DEF EventsInv, EventsType, Emission

(* No listener is registered at first.                                     *)
LEMMA EventsInitInv ==
  ASSUME EventsInit
  PROVE  EventsInv
<1>1. IsMap(listeners) /\ \A l : \A once : ~Held(listeners, l, once)
  BY DEF EventsInit, IsMap, Held
<1>2. EventsType
  <2>1. credit \in [Listener -> Int] /\ calls \in Nat
    BY DEF EventsInit
  <2>2. standing \in [Listener -> {"none", "once", "always", "other"}]
    BY DEF EventsInit
  <2>3. emission \in Emission
    BY IdleFields DEF EventsInit
  <2>4. QED
    BY <1>1, <2>1, <2>2, <2>3 DEF EventsType
<1>3. LoopInMap
  <2>1. Len(listeners) \in Nat /\ Len(listeners) = 0
    BY DEF EventsInit
  <2>2. /\ emission.stage = "idle" /\ emission.stage # "calling"
        /\ emission.at = 0 /\ ~emission.orphaned
    BY IdleFields DEF EventsInit
  <2>3. QED
    BY <2>1, <2>2 DEF LoopInMap
<1>4. ASSUME NEW l \in Listener
      PROVE  Expected(l)
  <2>1. standing[l] = "none" /\ credit[l] >= 0
    BY DEF EventsInit
  <2>2. standing[l] # "once" /\ standing[l] # "always"
    BY <2>1
  <2>3. QED
    BY <1>1, <2>1, <2>2 DEF Expected
<1>5. QED
  BY <1>2, <1>3, <1>4 DEF EventsInv

(* The steps of an emit() and the calls of the host leave nothing out.     *)
LEMMA EventsStepInv ==
  ASSUME EventsInv
  PROVE  /\ EmitRuns => EventsInv'
         /\ \A l \in Listener : On(l) \/ Once(l) \/ RemoveListener(l) => EventsInv'
         /\ UNCHANGED eventVars => EventsInv'
<1>1. EmitRuns => EventsInv'
  BY CallListenerInv, ListenerReturnsInv, ListenerThrowsInv, EmitEndsInv DEF EmitRuns
<1>2. \A l \in Listener : On(l) \/ Once(l) \/ RemoveListener(l) => EventsInv'
  BY OnInv, OnceInv, RemoveListenerInv
<1>3. ASSUME UNCHANGED eventVars
      PROVE  EventsInv'
  BY <1>3 DEF eventVars, EventsInv, EventsType, LoopInMap, Expected, Leaving, Emitting
<1>4. QED
  BY <1>1, <1>2, <1>3

=============================================================================
