---------------------------- MODULE PriorityHeap ----------------------------
(***************************************************************************)
(* The slice behind the queue (pkg/queue/pq.go) under container/heap, one  *)
(* step per swap.  The queue's lock makes each Push and Pop one step for   *)
(* everybody else, which is how RetryQueue has them; here is why such a    *)
(* Pop takes a task of the largest level.                                  *)
(*                                                                         *)
(* Positions count from 1, so that the parent of position i is i \div 2.   *)
(* The Index that Push and Pop store in the task is left out: Swap does    *)
(* not keep it and its one reader, RetryAbleQueue.Update, has no caller.   *)
(***************************************************************************)
EXTENDS Naturals, Sequences

CONSTANTS
  Task,
  Level   \* the weights of tasks

ASSUME HeapAssumption == Level \subseteq Nat

VARIABLES
  items,  \* PriorityQueue.items
  level,  \* the Weight of each task; no task's changes while it is inside
  pc,     \* "idle", or where heap.Push or heap.Pop is: "up", "down"
  at      \* the position that is being moved, 0 when idle

heapVars == <<items, level, pc, at>>

Places      == DOMAIN items
Weight(i)   == level[items[i]]
Inside      == {items[i] : i \in Places}

\* PriorityQueue.Less: the larger weight comes first.
Less(i, j) == Weight(i) > Weight(j)

\* Mutant: no second variable for what is overwritten first.
Overwrite(i, j) == items' = [items EXCEPT ![i] = items[j]]

\* PriorityQueue.Swap.
Swap(i, j) == items' = [items EXCEPT ![i] = items[j], ![j] = items[i]]

HeapInit ==
  /\ items = <<>>
  /\ level \in [Task -> Level]
  /\ pc = "idle"
  /\ at = 0

-----------------------------------------------------------------------------
(* heap.Push: PriorityQueue.Push, then up.                                 *)

Push(t, l) ==
  /\ pc = "idle"
  /\ t \notin Inside
  /\ items' = Append(items, t)
  /\ level' = [level EXCEPT ![t] = l]
  /\ pc' = "up"
  /\ at' = Len(items) + 1

\* Mutant: one step up and no more.
UpOnce ==
  /\ pc = "up"
  /\ at > 1 /\ Less(at, at \div 2)
  /\ Swap(at, at \div 2)
  /\ at' = 0
  /\ pc' = "idle"
  /\ UNCHANGED level

Up ==
  /\ pc = "up"
  /\ at > 1 /\ Less(at, at \div 2)
  /\ Swap(at, at \div 2)
  /\ at' = at \div 2
  /\ UNCHANGED <<level, pc>>

UpEnd ==
  /\ pc = "up"
  /\ ~(at > 1 /\ Less(at, at \div 2))
  /\ pc' = "idle"
  /\ at' = 0
  /\ UNCHANGED <<items, level>>

-----------------------------------------------------------------------------
(* heap.Pop: the first and the last change places, the new first goes down *)
(* among the others, and PriorityQueue.Pop cuts off the last.              *)

Pop ==
  /\ pc = "idle"
  /\ items # <<>>
  /\ Swap(1, Len(items))
  /\ pc' = "down"
  /\ at' = 1
  /\ UNCHANGED level

\* The children of at that take part, and which of them may take its place.
Children  == {2 * at, 2 * at + 1} \cap 1..(Len(items) - 1)
Larger(j) == \A i \in Children : ~Less(i, j)

Down ==
  /\ pc = "down"
  /\ \E j \in Children :
       /\ Larger(j) /\ (j = 2 * at \/ Less(j, 2 * at))
       /\ Less(j, at)
       /\ Swap(at, j)
       /\ at' = j
  /\ UNCHANGED <<level, pc>>

\* Mutant: PriorityQueue.Pop cuts off the first.
PopFirst ==
  /\ pc = "down"
  /\ \A j \in Children : ~Less(j, at)
  /\ items' = Tail(items)
  /\ pc' = "idle"
  /\ at' = 0
  /\ UNCHANGED level

PopEnd ==
  /\ pc = "down"
  /\ \A j \in Children : ~Less(j, at)
  /\ items' = SubSeq(items, 1, Len(items) - 1)
  /\ pc' = "idle"
  /\ at' = 0
  /\ UNCHANGED level

HeapNext ==
  \/ \E t \in Task, l \in Level : Push(t, l)
  \/ Up \/ UpEnd \/ Pop \/ Down \/ PopEnd

HeapSpec == HeapInit /\ [][HeapNext]_heapVars

-----------------------------------------------------------------------------
\* Type invariant; no task is in the slice twice.
HeapTypeOK ==
  /\ items \in Seq(Task)
  /\ \A i, j \in Places : items[i] = items[j] => i = j
  /\ level \in [Task -> Level]
  /\ pc \in {"idle", "up", "down"}
  /\ IF pc = "idle" THEN at = 0 ELSE at \in Places

\* Between two calls no task weighs more than its parent.
HeapOrdered == pc = "idle" => \A i \in Places \ {1} : Weight(i) <= Weight(i \div 2)

\* Push and Pop are those of a priority queue: nothing is lost or doubled by
\* the swaps, and Pop's task has the largest level of all, however many there
\* are and however their levels tie.
Bag == INSTANCE LevelBag WITH bag <- Inside

PopsLargest == Bag!BagSpec
=============================================================================
