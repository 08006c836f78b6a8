------------------------- MODULE PriorityHeapProofs -------------------------
(***************************************************************************)
(* Proofs about PriorityHeap, for any number of tasks: the slice stays a   *)
(* heap, and a priority queue is what Push and Pop make of it.             *)
(***************************************************************************)
EXTENDS PriorityHeap, WellFoundedInduction, TLAPS

\* No position up to n weighs more than its parent, but for those in Loose.
Edges(n, Loose) == \A i \in 2..n : i \notin Loose => Weight(i) <= Weight(i \div 2)

\* Whose parent is at weighs no more than at's parent.
Under(n) == \A i \in 2..n : i \div 2 = at /\ at > 1 => Weight(i) <= Weight(at \div 2)

\* A heap with one place that may be wrong: upwards after a push, downwards
\* in a pop, while the largest task waits at the end.
HeapInv ==
  /\ HeapTypeOK
  /\ pc = "idle" => Edges(Len(items), {})
  /\ pc = "up" => Edges(Len(items), {at}) /\ Under(Len(items))
  /\ pc = "down" =>
       /\ \A i \in 2..(Len(items) - 1) : i \div 2 # at => Weight(i) <= Weight(i \div 2)
       /\ Under(Len(items) - 1)
       /\ at = 1 \/ at < Len(items)
       /\ \A i \in Places : Weight(i) <= Weight(Len(items))

-----------------------------------------------------------------------------
LEMMA PlacesAre ==
  ASSUME HeapTypeOK
  PROVE  /\ Len(items) \in Nat /\ Places = 1..Len(items)
         /\ \A i \in Places : items[i] \in Task /\ Weight(i) \in Nat
<1>1. /\ Len(items) \in Nat /\ Places = 1..Len(items)
      /\ \A i \in Places : items[i] \in Task
  BY DEF HeapTypeOK, Places
<1>2. \A t \in Task : level[t] \in Nat
  BY HeapAssumption DEF HeapTypeOK
<1> QED  BY <1>1, <1>2 DEF Weight

\* Whose parent is i are 2i and 2i+1.
LEMMA ParentOf ==
  ASSUME NEW i \in Nat, NEW j \in Nat
  PROVE  /\ i > 1 => i \div 2 \in Nat /\ 1 <= i \div 2 /\ i \div 2 < i
         /\ i \div 2 = j <=> i = 2 * j \/ i = 2 * j + 1
OBVIOUS

\* A nonempty set of numbers has a least one.
LEMMA LeastOf ==
  ASSUME NEW S, S \subseteq Nat, S # {}
  PROVE  \E x \in S : \A y \in S : ~(y < x)
<1>1. \E x \in S : \A y \in S : <<y, x>> \notin OpToRel(<, Nat)
  BY NatLessThanWellFounded, WFMin
<1>2. PICK x \in S : \A y \in S : <<y, x>> \notin OpToRel(<, Nat)
  BY <1>1
<1>3. \A y \in S : ~(y < x)
  BY <1>2 DEF OpToRel
<1> QED  BY <1>3

\* The first of a heap is a largest: the first one heavier would have a
\* parent, which is as heavy.
LEMMA RootLargest ==
  ASSUME HeapTypeOK, Edges(Len(items), {})
  PROVE  \A i \in Places : Weight(i) <= Weight(1)
<1> DEFINE Heavier == {i \in Places : Weight(i) > Weight(1)}
<1>1. /\ Len(items) \in Nat /\ Places = 1..Len(items)
      /\ \A i \in Places : Weight(i) \in Nat
  BY PlacesAre
<1>2. SUFFICES ASSUME Heavier # {} PROVE FALSE
  BY <1>1
<1>3. PICK x \in Heavier : \A y \in Heavier : ~(y < x)
  <2>1. Heavier \subseteq Nat
    BY <1>1
  <2> HIDE DEF Heavier
  <2> QED  BY <1>2, <2>1, LeastOf
<1>4. x \in 2..Len(items) /\ x \in Nat /\ x > 1 /\ 1 \in Places
  BY <1>1, <1>3
<1>5. x \div 2 \in Places /\ x \div 2 < x
  BY <1>1, <1>4, ParentOf
<1>6. Weight(x) <= Weight(x \div 2)
  BY <1>4 DEF Edges
<1>7. x \div 2 \in Heavier
  BY <1>1, <1>3, <1>4, <1>5, <1>6
<1> QED  BY <1>3, <1>5, <1>7

\* Swapping two places loses and doubles nothing.
LEMMA Swapped ==
  ASSUME HeapTypeOK, NEW i \in Places, NEW j \in Places, Swap(i, j), UNCHANGED level
  PROVE  /\ items' \in Seq(Task) /\ Len(items') = Len(items) /\ Places' = Places
         /\ \A k \in Places : items'[k] = IF k = i THEN items[j] ELSE IF k = j THEN items[i] ELSE items[k]
         /\ \A k \in Places : Weight(k)' = IF k = i THEN Weight(j) ELSE IF k = j THEN Weight(i) ELSE Weight(k)
         /\ \A k, l \in Places' : items'[k] = items'[l] => k = l
         /\ Inside' = Inside
<1>1. /\ Len(items) \in Nat /\ Places = 1..Len(items)
      /\ \A k \in Places : items[k] \in Task
      /\ items \in Seq(Task)
  BY PlacesAre DEF HeapTypeOK
<1>2. /\ items' \in Seq(Task) /\ Len(items') = Len(items) /\ Places' = Places
      /\ \A k \in Places : items'[k] = IF k = i THEN items[j] ELSE IF k = j THEN items[i] ELSE items[k]
  BY <1>1 DEF Swap, Places
<1>3. \A k \in Places : Weight(k)' = IF k = i THEN Weight(j) ELSE IF k = j THEN Weight(i) ELSE Weight(k)
  BY <1>2 DEF Weight
<1>4. \A k, l \in Places' : items'[k] = items'[l] => k = l
  BY <1>2 DEF HeapTypeOK
<1>5. Inside' \subseteq Inside
  BY <1>2 DEF Inside
<1>6. Inside \subseteq Inside'
  <2> SUFFICES ASSUME NEW k \in Places PROVE items[k] \in Inside'
    BY DEF Inside
  <2>1. CASE k = i
    BY <1>2, <2>1 DEF Inside
  <2>2. CASE k = j
    BY <1>2, <2>2 DEF Inside
  <2>3. CASE k # i /\ k # j
    BY <1>2, <2>3 DEF Inside
  <2> QED  BY <2>1, <2>2, <2>3
<1> QED  BY <1>2, <1>3, <1>4, <1>5, <1>6

-----------------------------------------------------------------------------
(* One lemma per step: the invariant, and what the step is to the bag.     *)

Keeps == HeapInv' /\ Inside' = Inside /\ level' = level

LEMMA PushStep ==
  ASSUME HeapInv, NEW t \in Task, NEW l \in Level, Push(t, l)
  PROVE  HeapInv' /\ Inside' = Inside \cup {t}
<1> DEFINE n == Len(items)
<1>1. /\ n \in Nat /\ Places = 1..n
      /\ \A i \in Places : items[i] \in Task
      /\ items \in Seq(Task) /\ level \in [Task -> Level]
      /\ \A i, j \in Places : items[i] = items[j] => i = j
      /\ \A i \in Places : items[i] # t
      /\ Edges(n, {})
  BY PlacesAre DEF HeapInv, HeapTypeOK, Push, Inside
<1>2. /\ items' \in Seq(Task) /\ Len(items') = n + 1 /\ Places' = 1..(n + 1)
      /\ items'[n + 1] = t /\ \A i \in Places : items'[i] = items[i]
      /\ pc' = "up" /\ at' = n + 1
      /\ level' = [level EXCEPT ![t] = l]
  BY <1>1 DEF Push, Places
<1>3. \A i \in Places : Weight(i)' = Weight(i)
  BY <1>1, <1>2 DEF Weight
<1>4. HeapTypeOK'
  BY <1>1, <1>2 DEF HeapTypeOK
<1>5. Inside' = Inside \cup {t}
  BY <1>1, <1>2 DEF Inside
<1>6. Edges(Len(items), {at})'
  <2> SUFFICES ASSUME NEW i \in 2..(n + 1), i # n + 1
               PROVE  Weight(i)' <= Weight(i \div 2)'
    BY <1>2 DEF Edges
  <2>1. i \in Places /\ i \div 2 \in Places /\ i \in 2..n
    BY <1>1, ParentOf
  <2> QED  BY <1>1, <1>3, <2>1 DEF Edges
<1>7. Under(Len(items))'
  <2> SUFFICES ASSUME NEW i \in 2..(n + 1), i \div 2 = n + 1
               PROVE  FALSE
    BY <1>2 DEF Under
  <2> QED  BY <1>1, ParentOf
<1> QED  BY <1>2, <1>4, <1>5, <1>6, <1>7 DEF HeapInv

LEMMA UpStep ==
  ASSUME HeapInv, Up
  PROVE  Keeps
<1> DEFINE n == Len(items)
<1>1. /\ n \in Nat /\ Places = 1..n /\ at \in Places /\ at > 1
      /\ \A i \in Places : Weight(i) \in Nat
      /\ HeapTypeOK
  BY PlacesAre DEF HeapInv, HeapTypeOK, Up
<1>2. PICK p \in Places : p = at \div 2 /\ p < at /\ p \in Nat
  BY <1>1, ParentOf
<1>3. Weight(at) > Weight(p) /\ Edges(n, {at}) /\ Under(n)
  BY <1>2 DEF HeapInv, Up, Less
<1>4. /\ items' \in Seq(Task) /\ Len(items') = n /\ Places' = Places
      /\ \A k \in Places : Weight(k)' = IF k = at THEN Weight(p) ELSE IF k = p THEN Weight(at) ELSE Weight(k)
      /\ \A k, l \in Places' : items'[k] = items'[l] => k = l
      /\ Inside' = Inside
      /\ level' = level /\ pc' = "up" /\ at' = p
  BY <1>1, <1>2, Swapped DEF Up
<1>5. HeapTypeOK'
  BY <1>1, <1>2, <1>4 DEF HeapTypeOK
<1>6. \A i \in 2..n : i \in Places /\ i \div 2 \in Places /\ i \div 2 < i
  BY <1>1, ParentOf
<1>7. Edges(Len(items), {at})'
  <2> SUFFICES ASSUME NEW i \in 2..n, i # p
               PROVE  Weight(i)' <= Weight(i \div 2)'
    BY <1>4 DEF Edges
  <2>1. CASE i = at
    BY <1>1, <1>2, <1>3, <1>4, <2>1
  <2>2. CASE i # at /\ i \div 2 = at
    BY <1>1, <1>2, <1>3, <1>4, <1>6, <2>2 DEF Under
  <2>3. CASE i # at /\ i \div 2 = p
    <3>1. Weight(i) <= Weight(p)
      BY <1>3, <2>3 DEF Edges
    <3>2. Weight(i)' = Weight(i) /\ Weight(p)' = Weight(at)
      BY <1>2, <1>4, <1>6, <2>3
    <3> QED  BY <1>1, <1>2, <1>3, <1>6, <2>3, <3>1, <3>2
  <2>4. CASE i # at /\ i \div 2 # at /\ i \div 2 # p
    BY <1>3, <1>4, <1>6, <2>4 DEF Edges
  <2> QED  BY <2>1, <2>2, <2>3, <2>4
<1>8. Under(Len(items))'
  <2> SUFFICES ASSUME NEW i \in 2..n, i \div 2 = p, p > 1
               PROVE  Weight(i)' <= Weight(p \div 2)'
    BY <1>4 DEF Under
  <2>1. p \in 2..n /\ p \div 2 \in Places /\ p \div 2 < p
    BY <1>1, <1>2, ParentOf
  <2>2. Weight(p) <= Weight(p \div 2) /\ Weight(p \div 2)' = Weight(p \div 2)
    BY <1>2, <1>3, <1>4, <2>1 DEF Edges
  <2>3. CASE i = at
    BY <1>1, <1>4, <2>2, <2>3
  <2>4. CASE i # at
    <3>1. Weight(i) <= Weight(p) /\ Weight(i)' = Weight(i)
      BY <1>2, <1>3, <1>4, <1>6, <2>4 DEF Edges
    <3> QED  BY <1>1, <1>2, <1>6, <2>1, <2>2, <3>1
  <2> QED  BY <2>3, <2>4
<1> QED  BY <1>4, <1>5, <1>7, <1>8 DEF HeapInv, Keeps

LEMMA UpEndStep ==
  ASSUME HeapInv, UpEnd
  PROVE  Keeps
<1>1. /\ Len(items) \in Nat /\ Places = 1..Len(items) /\ at \in Places
      /\ \A i \in Places : Weight(i) \in Nat
  BY PlacesAre DEF HeapInv, HeapTypeOK, UpEnd
<1>2. /\ UNCHANGED <<items, level>> /\ pc' = "idle" /\ at' = 0
      /\ Inside' = Inside /\ Len(items') = Len(items) /\ Places' = Places
      /\ \A i : Weight(i)' = Weight(i)
  BY DEF UpEnd, Inside, Places, Weight
<1>3. Edges(Len(items), {at}) /\ (at > 1 => Weight(at) <= Weight(at \div 2))
  <2>1. at > 1 => at \div 2 \in Places
    BY <1>1, ParentOf
  <2> QED  BY <1>1, <2>1 DEF HeapInv, UpEnd, Less
<1>4. Edges(Len(items), {})'
  BY <1>1, <1>2, <1>3 DEF Edges
<1>5. HeapTypeOK'
  BY <1>2 DEF HeapInv, HeapTypeOK
<1> QED  BY <1>2, <1>4, <1>5 DEF HeapInv, Keeps

LEMMA PopStep ==
  ASSUME HeapInv, Pop
  PROVE  Keeps
<1>0. HeapTypeOK /\ Edges(Len(items), {})
  BY DEF HeapInv, Pop
<1>1. PICK n \in Nat : n = Len(items) /\ n > 0
  BY <1>0 DEF HeapTypeOK, Pop
<1>2. /\ Places = 1..n /\ \A i \in Places : Weight(i) \in Nat
      /\ \A i \in Places : Weight(i) <= Weight(1)
  BY <1>0, <1>1, PlacesAre, RootLargest
<1>3. /\ items' \in Seq(Task) /\ Len(items') = n /\ Places' = Places
      /\ \A k \in Places : Weight(k)' = IF k = 1 THEN Weight(n) ELSE IF k = n THEN Weight(1) ELSE Weight(k)
      /\ \A k, l \in Places' : items'[k] = items'[l] => k = l
      /\ Inside' = Inside
      /\ level' = level /\ pc' = "down" /\ at' = 1
  BY <1>0, <1>1, <1>2, Swapped DEF Pop
<1>4. HeapTypeOK'
  BY <1>0, <1>1, <1>2, <1>3 DEF HeapTypeOK
<1>5. ASSUME NEW i \in 2..(n - 1), i \div 2 # 1
      PROVE  Weight(i)' <= Weight(i \div 2)'
  <2>1. /\ i \in Places /\ i \div 2 \in Places /\ i \div 2 < i /\ i \div 2 # n /\ i # n /\ i # 1
    BY <1>1, <1>2, ParentOf
  <2>2. Weight(i) <= Weight(i \div 2)
    BY <1>0, <1>1 DEF Edges
  <2>3. Weight(i)' = Weight(i) /\ Weight(i \div 2)' = Weight(i \div 2)
    BY <1>3, <1>5, <2>1
  <2> QED  BY <2>2, <2>3
<1>6. \A i \in Places' : Weight(i)' <= Weight(n)'
  BY <1>1, <1>2, <1>3
<1>7. Under(Len(items) - 1)'
  BY <1>3 DEF Under
<1> QED  BY <1>1, <1>3, <1>4, <1>5, <1>6, <1>7 DEF HeapInv, Keeps

LEMMA DownStep ==
  ASSUME HeapInv, Down
  PROVE  Keeps
<1>0. HeapTypeOK /\ pc = "down"
  BY DEF HeapInv, Down
<1>1. PICK n \in Nat : n = Len(items)
  BY <1>0 DEF HeapTypeOK
<1>2. /\ Places = 1..n /\ at \in Places /\ \A i \in Places : Weight(i) \in Nat
  BY <1>0, <1>1, PlacesAre DEF HeapTypeOK
<1>3. /\ \A i \in 2..(n - 1) : i \div 2 # at => Weight(i) <= Weight(i \div 2)
      /\ Under(n - 1)
      /\ at = 1 \/ at < n
      /\ \A i \in Places : Weight(i) <= Weight(n)
  BY <1>0, <1>1 DEF HeapInv
<1>4. PICK a \in Places : a = at
  BY <1>2
<1>5. PICK j \in Children : Larger(j) /\ Less(j, at) /\ Swap(at, j) /\ at' = j
  BY DEF Down
<1>6. /\ j \in 2..(n - 1) /\ j \in Nat /\ j \in Places /\ j \div 2 = a /\ a < j
  BY <1>1, <1>2, <1>4, <1>5, ParentOf DEF Children
<1>7. /\ Weight(j) > Weight(a)
      /\ \A i \in 2..(n - 1) : i \div 2 = a => Weight(i) <= Weight(j)
  <2>1. Weight(j) > Weight(a)
    BY <1>4, <1>5 DEF Less
  <2>2. ASSUME NEW i \in 2..(n - 1), i \div 2 = a
        PROVE  Weight(i) <= Weight(j)
    <3>1. i \in Children /\ i \in Places
      BY <1>1, <1>2, <1>4, <2>2, ParentOf DEF Children
    <3>2. ~Less(i, j)
      BY <1>5, <3>1 DEF Larger
    <3> QED  BY <1>2, <1>6, <3>1, <3>2 DEF Less
  <2> QED  BY <2>1, <2>2
<1>8. /\ items' \in Seq(Task) /\ Len(items') = n /\ Places' = Places
      /\ \A k \in Places : Weight(k)' = IF k = a THEN Weight(j) ELSE IF k = j THEN Weight(a) ELSE Weight(k)
      /\ \A k, l \in Places' : items'[k] = items'[l] => k = l
      /\ Inside' = Inside
      /\ level' = level /\ pc' = "down" /\ at' = j
  <2>1. UNCHANGED level /\ pc' = "down"
    BY <1>0 DEF Down
  <2> QED  BY <1>0, <1>1, <1>4, <1>5, <1>6, <2>1, Swapped
<1>9. HeapTypeOK'
  BY <1>0, <1>1, <1>6, <1>8 DEF HeapTypeOK
<1>10. \A i \in 2..(n - 1) : i \in Places /\ i \div 2 \in Places /\ i \div 2 < i /\ i # n /\ i \div 2 # n
  BY <1>1, <1>2, ParentOf
<1>11. ASSUME NEW i \in 2..(n - 1), i \div 2 # j
       PROVE  Weight(i)' <= Weight(i \div 2)'
  <2>1. CASE i = j
    BY <1>2, <1>4, <1>6, <1>7, <1>8, <2>1
  <2>2. CASE i # j /\ i \div 2 = a
    BY <1>4, <1>6, <1>7, <1>8, <1>10, <2>2
  <2>3. CASE i = a
    <3>1. Weight(j) <= Weight(a \div 2)
      BY <1>3, <1>4, <1>6, <2>3 DEF Under
    <3> QED  BY <1>6, <1>8, <1>10, <1>11, <2>3, <3>1
  <2>4. CASE i # j /\ i # a /\ i \div 2 # a
    BY <1>3, <1>4, <1>8, <1>10, <1>11, <2>4
  <2> QED  BY <2>1, <2>2, <2>3, <2>4
<1>12. Under(Len(items) - 1)'
  <2> SUFFICES ASSUME NEW i \in 2..(n - 1), i \div 2 = j
               PROVE  Weight(i)' <= Weight(j \div 2)'
    BY <1>8 DEF Under
  <2>1. Weight(i) <= Weight(j)
    BY <1>3, <1>4, <1>6 
  <2>2. i # a /\ i # j
    BY <1>6, <1>10
  <2> QED  BY <1>4, <1>6, <1>8, <1>10, <2>1, <2>2
<1>13. \A i \in Places' : Weight(i)' <= Weight(n)'
  <2>1. n \in Places /\ n # j /\ n # a
    BY <1>1, <1>2, <1>6
  <2> QED  BY <1>3, <1>6, <1>8, <2>1
<1>14. at' < Len(items')
  BY <1>6, <1>8
<1> QED  BY <1>8, <1>9, <1>11, <1>12, <1>13, <1>14 DEF HeapInv, Keeps

\* Where down ends the rest is a heap, and the last task is a largest.
LEMMA PopEndStep ==
  ASSUME HeapInv, PopEnd
  PROVE  HeapInv' /\ \E t \in Task : Bag!Take(t)
<1>0. HeapTypeOK /\ pc = "down"
  BY DEF HeapInv, PopEnd
<1>1. PICK n \in Nat : n = Len(items)
  BY <1>0 DEF HeapTypeOK
<1>2. /\ Places = 1..n /\ at \in Places /\ n \in Places /\ \A i \in Places : Weight(i) \in Nat
      /\ \A i \in Places : items[i] \in Task
      /\ items \in Seq(Task)
  BY <1>0, <1>1, PlacesAre DEF HeapTypeOK
<1>3. /\ \A i \in 2..(n - 1) : i \div 2 # at => Weight(i) <= Weight(i \div 2)
      /\ \A i \in Places : Weight(i) <= Weight(n)
      /\ \A j \in Children : ~Less(j, at)
  BY <1>0, <1>1 DEF HeapInv, PopEnd
<1>4. /\ items' \in Seq(Task) /\ Len(items') = n - 1 /\ Places' = 1..(n - 1)
      /\ \A i \in 1..(n - 1) : items'[i] = items[i] /\ i \in Places /\ i # n
      /\ \A i \in Places : i \in 1..(n - 1) \/ i = n
      /\ level' = level /\ pc' = "idle" /\ at' = 0
  BY <1>1, <1>2 DEF PopEnd, Places
<1>5. \A i \in 1..(n - 1) : Weight(i)' = Weight(i)
  BY <1>4 DEF Weight
<1>6. Edges(Len(items), {})'
  <2> SUFFICES ASSUME NEW i \in 2..(n - 1)
               PROVE  Weight(i)' <= Weight(i \div 2)'
    BY <1>4 DEF Edges
  <2>1. i \in 1..(n - 1) /\ i \div 2 \in 1..(n - 1)
    BY <1>1, ParentOf
  <2>2. Weight(i) <= Weight(i \div 2)
    <3>1. CASE i \div 2 # at
      BY <1>3, <3>1
    <3>2. CASE i \div 2 = at
      <4>1. i \in Children
        BY <1>1, <1>2, <3>2, ParentOf DEF Children
      <4> QED  BY <1>2, <1>3, <1>4, <2>1, <3>2, <4>1 DEF Less
    <3> QED  BY <3>1, <3>2
  <2> QED  BY <1>5, <2>1, <2>2
<1>7. HeapTypeOK'
  BY <1>0, <1>4 DEF HeapTypeOK
<1>8. Bag!Take(items[n])
  <2>1. items[n] \in Inside
    BY <1>2 DEF Inside
  <2>2. \A u \in Inside : level[u] <= level[items[n]]
    BY <1>3 DEF Inside, Weight
  <2>3. Inside' = Inside \ {items[n]}
    <3>1. \A i \in 1..(n - 1) : items[i] # items[n]
      BY <1>0, <1>2, <1>4 DEF HeapTypeOK
    <3> QED  BY <1>4, <3>1 DEF Inside
  <2> QED  BY <1>4, <2>1, <2>2, <2>3 DEF Bag!Take
<1> QED  BY <1>2, <1>4, <1>6, <1>7, <1>8 DEF HeapInv

-----------------------------------------------------------------------------
LEMMA HeapInitHolds ==
  ASSUME HeapInit
  PROVE  HeapInv /\ Bag!BagInit
<1>1. Places = {} /\ Inside = {} /\ Len(items) = 0 /\ items \in Seq(Task)
  BY DEF HeapInit, Places, Inside
<1>2. Edges(0, {})
  BY DEF Edges
<1> QED
  BY <1>1, <1>2 DEF HeapInit, HeapInv, HeapTypeOK, Bag!BagInit

LEMMA StutterKeeps ==
  ASSUME HeapInv, UNCHANGED heapVars
  PROVE  Keeps
<1>1. UNCHANGED <<items, level, pc, at>>
  BY DEF heapVars
<1>2. Places' = Places /\ Inside' = Inside /\ \A i : Weight(i)' = Weight(i)
  BY <1>1 DEF Places, Inside, Weight
<1>3. HeapTypeOK'
  BY <1>1, <1>2 DEF HeapInv, HeapTypeOK
<1> QED
  BY <1>1, <1>2, <1>3 DEF Keeps, HeapInv, Edges, Under

\* Every step keeps the invariant and is a step of the bag, or none.
LEMMA HeapStep ==
  ASSUME HeapInv, [HeapNext]_heapVars
  PROVE  HeapInv' /\ [Bag!BagNext]_<<Inside, level>>
<1>1. CASE \E t \in Task, l \in Level : Push(t, l)
  <2>1. PICK t \in Task, l \in Level : Push(t, l)
    BY <1>1
  <2>2. Bag!Put(t, l)
    BY <2>1, PushStep DEF Push, Bag!Put
  <2> QED  BY <2>1, <2>2, PushStep DEF Bag!BagNext
<1>2. CASE PopEnd
  BY <1>2, PopEndStep DEF Bag!BagNext
<1>3. CASE Up \/ UpEnd \/ Pop \/ Down \/ UNCHANGED heapVars
  <2>1. Keeps
    BY <1>3, UpStep, UpEndStep, PopStep, DownStep, StutterKeeps
  <2> QED  BY <2>1 DEF Keeps
<1> QED
  BY <1>1, <1>2, <1>3 DEF HeapNext

LEMMA HeapInvariant == HeapSpec => []HeapInv
<1>1. HeapInit => HeapInv
  BY HeapInitHolds
<1>2. HeapInv /\ [HeapNext]_heapVars => HeapInv'
  BY HeapStep
<1> QED
  BY <1>1, <1>2, PTL DEF HeapSpec

\* The slice's types: in particular no task is in it twice.
THEOREM HeapTypeCorrect == HeapSpec => []HeapTypeOK
<1>1. HeapInv => HeapTypeOK
  BY DEF HeapInv
<1> QED  BY <1>1, HeapInvariant, PTL

\* Whatever was pushed and popped, the slice is a heap between two calls.
THEOREM HeapStaysOrdered == HeapSpec => []HeapOrdered
<1>1. ASSUME HeapInv, pc = "idle"
      PROVE  \A i \in Places \ {1} : Weight(i) <= Weight(i \div 2)
  <2>1. Places = 1..Len(items) /\ Len(items) \in Nat
    BY <1>1, PlacesAre DEF HeapInv
  <2> QED  BY <1>1, <2>1 DEF HeapInv, Edges
<1>2. HeapInv => HeapOrdered
  BY <1>1 DEF HeapOrdered
<1> QED  BY <1>2, HeapInvariant, PTL

\* pq.go under container/heap is a priority queue of any size: each Pop takes
\* a task of the largest level, and nothing is lost or doubled.
THEOREM HeapPopsLargest == HeapSpec => PopsLargest
<1>1. HeapInit => Bag!BagInit
  BY HeapInitHolds
<1>2. HeapInv /\ [HeapNext]_heapVars => [Bag!BagNext]_<<Inside, level>>
  BY HeapStep
<1> QED
  BY <1>1, <1>2, HeapInvariant, PTL DEF HeapSpec, PopsLargest, Bag!BagSpec
=============================================================================
