---------------------------- MODULE PQueueProofs ----------------------------
(***************************************************************************)
(* The heap order of PQueue, the bag it implements and the array each call *)
(* ends at, for every set of ids and priorities, every starting capacity   *)
(* and every length of queue.                                              *)
(***************************************************************************)
EXTENDS MCPQueue, HeapProofs

(* A priority taken from a queue is an integer. *)
LEMMA ItemFacts ==
  ASSUME NEW item \in Item
  PROVE  item.priority \in Int /\ item.obj \in Obj
BY PriorityAssumption DEF Item

(* Where the children of the index in hand lie. *)
LEMMA IdxFacts ==
  ASSUME TypeOK
  PROVE  /\ idx \in Nat /\ sz \in Nat
         /\ Left(idx) \in Nat \ {0} /\ Right(idx) \in Nat \ {0}
         /\ Left(idx) = 2 * idx + 1 /\ Right(idx) = 2 * idx + 2
         /\ idx < Left(idx) /\ Left(idx) < Right(idx)
         /\ Parent(Left(idx)) = idx /\ Parent(Right(idx)) = idx
<1>1. idx \in Nat /\ sz \in Nat
  BY DEF TypeOK
<1>2. /\ Left(idx) \in Nat \ {0} /\ Right(idx) \in Nat \ {0}
      /\ Left(idx) = 2 * idx + 1 /\ Right(idx) = 2 * idx + 2
      /\ Parent(Left(idx)) = idx /\ Parent(Right(idx)) = idx
  BY <1>1, ChildFacts
<1> QED BY <1>1, <1>2

(* The child that moves up is a live child of the index in hand. *)
LEMMA FavouriteFacts ==
  ASSUME TypeOK, Right(idx) < sz
  PROVE  /\ Favourite \in 0 .. sz - 1
         /\ Favourite \in {Left(idx), Right(idx)}
         /\ idx < Favourite
         /\ Parent(Favourite) = idx
<1>1. Favourite = Left(idx) \/ Favourite = Right(idx)
  BY DEF Favourite
<1> QED BY <1>1, IdxFacts

-----------------------------------------------------------------------------
(* Types and index bounds hold each other up: an item moves only between  *)
(* live slots, and the bounds need the types.                              *)
TypeInv == TypeOK /\ IndexInRange

LEMMA TypeInvInit == Create => TypeInv
BY SizeAssumption DEF Create, TypeInv, IndexInRange, TypeOK, QueueType, IDLE, UP, DOWN

LEMMA TypeInvStep == TypeInv /\ [Next]_vars => TypeInv'
<1> SUFFICES ASSUME TypeInv, [Next]_vars PROVE TypeInv'
  OBVIOUS
<1> USE DEF TypeInv, IDLE, UP, DOWN
<1>0. /\ sz \in Nat /\ idx \in Nat /\ data \in [0 .. sz - 1 -> Item]
      /\ TypeOK /\ IndexInRange
  BY DEF TypeOK
<1>1. ASSUME NEW p \in Priority, NEW o \in Obj, Enqueue(p, o) PROVE TypeInv'
  BY <1>1 DEF Enqueue, Grown, Extended, Item, TypeOK, IndexInRange
<1>2. CASE DequeueEmpty
  BY <1>2 DEF DequeueEmpty, TypeOK, IndexInRange
<1>3. CASE Dequeue
  BY <1>3, ItemFacts DEF Dequeue, Shrunk, TypeOK, IndexInRange
<1>4. CASE BubbleUp
  <2>1. idx \in 0 .. sz - 1 /\ Parent(idx) \in 0 .. sz - 1
    BY <1>0, <1>4, ParentFacts DEF BubbleUp, IndexInRange
  <2>2. data' \in [0 .. sz - 1 -> Item]
    BY <1>0, <1>4, <2>1 DEF Swap, BubbleUp
  <2> QED BY <1>4, <2>1, <2>2 DEF BubbleUp, TypeOK, IndexInRange
<1>5. CASE EnqueueReturn
  BY <1>5 DEF EnqueueReturn, Return, TypeOK, IndexInRange
<1>6. CASE BubbleDown
  <2>1. Favourite \in 0 .. sz - 1 /\ idx \in 0 .. sz - 1
    BY <1>0, <1>6, FavouriteFacts DEF BubbleDown
  <2>2. data' \in [0 .. sz - 1 -> Item]
    BY <1>0, <1>6, <2>1 DEF Swap, BubbleDown
  <2> QED BY <1>6, <2>1, <2>2 DEF BubbleDown, TypeOK, IndexInRange
<1>7. CASE OneChildReturn
  <2>1. Left(idx) \in 0 .. sz - 1 /\ idx \in 0 .. sz - 1
    BY <1>0, <1>7, IdxFacts DEF OneChildReturn
  <2>2. data' \in [0 .. sz - 1 -> Item]
    BY <1>0, <1>7, <2>1 DEF Swap, OneChildReturn
  <2> QED BY <1>7, <2>2 DEF OneChildReturn, Return, TypeOK, IndexInRange
<1>8. CASE DequeueReturn
  BY <1>8 DEF DequeueReturn, Return, TypeOK, IndexInRange
<1>9. CASE UNCHANGED vars
  BY <1>9 DEF vars, TypeOK, IndexInRange
<1> QED BY <1>1, <1>2, <1>3, <1>4, <1>5, <1>6, <1>7, <1>8, <1>9 DEF Next, Sift

(* Every variable of the queue keeps the type that its C declaration and   *)
(* the sizes in use give it, whatever is called (priority-queue.c:13-18).  *)
THEOREM TypeCorrect == Spec => []TypeOK
<1>1. TypeInv => TypeOK
  BY DEF TypeInv
<1> QED BY TypeInvInit, TypeInvStep, <1>1, PTL DEF Spec

LEMMA FitsCapacityStep == TypeInv /\ FitsCapacity /\ [Next]_vars => FitsCapacity'
<1> SUFFICES ASSUME TypeInv, FitsCapacity, [Next]_vars PROVE FitsCapacity'
  OBVIOUS
<1> USE DEF TypeInv, TypeOK, FitsCapacity
<1>1. ASSUME NEW p \in Priority, NEW o \in Obj, Enqueue(p, o) PROVE FitsCapacity'
  BY <1>1 DEF Enqueue, Grown
<1>2. CASE Dequeue
  BY <1>2 DEF Dequeue
<1>3. CASE DequeueEmpty \/ Sift \/ UNCHANGED vars
  BY <1>3 DEF DequeueEmpty, Sift, BubbleUp, EnqueueReturn, BubbleDown, OneChildReturn,
              DequeueReturn, vars
<1> QED BY <1>1, <1>2, <1>3 DEF Next

(* No write of the queue goes beyond its allocation, however often the     *)
(* array has been doubled (priority-queue.c:101-112, 152-153).             *)
THEOREM WritesFit == Spec => []FitsCapacity
<1>1. Create => FitsCapacity
  BY SizeAssumption DEF Create, FitsCapacity
<1> QED BY <1>1, TypeInvInit, TypeInvStep, FitsCapacityStep, PTL DEF Spec
-----------------------------------------------------------------------------
(* The items in hand and their comparison, in the terms of arithmetic. *)
LEMMA PriorityFacts ==
  ASSUME TypeOK
  PROVE  /\ type \in QueueType
         /\ sz \in Nat
         /\ data \in [0 .. sz - 1 -> Item]
         /\ \A i \in 0 .. sz - 1 : data[i].priority \in Int
BY ItemFacts DEF TypeOK

(* The heap order in the terms of HeapProofs, by the loop the call is in. *)
HeapByLoop ==
  /\ pc = IDLE => IsHeap(type, data, sz)
  /\ pc = UP   => Rising(type, data, sz, idx)
  /\ pc = DOWN => Sinking(type, data, sz, idx)

LEMMA HeapInvIs == TypeOK => (HeapInv <=> HeapByLoop)
<1> SUFFICES ASSUME TypeOK PROVE HeapInv <=> HeapByLoop
  OBVIOUS
<1> USE DEF IDLE, UP, DOWN
<1>1. sz \in Nat /\ idx \in Nat /\ pc \in {IDLE, UP, DOWN}
  BY DEF TypeOK
<1>2. \A i \in 1 .. sz - 1 : /\ Ordered(Parent(i), i) <=> InOrder(type, data, Parent(i), i)
                             /\ Ordered(Parent(idx), i) <=> InOrder(type, data, Parent(idx), i)
                             /\ Parent(i) = idx <=> i \in {Left(idx), Right(idx)}
  <2>1. Parent(Left(idx)) = idx /\ Parent(Right(idx)) = idx
    BY <1>1, ChildFacts
  <2> QED BY <1>1, <2>1, Parents DEF Ordered, Ahead, InOrder
<1>3. CASE pc = IDLE
  BY <1>2, <1>3 DEF HeapInv, HeapByLoop, OrderedPairs, GapOrdered, IndexInRange, IsHeap, InOrderBut
<1>4. CASE pc = UP
  BY <1>1, <1>2, <1>4 DEF HeapInv, HeapByLoop, OrderedPairs, GapOrdered, IndexInRange, Rising, InOrderBut, AcrossGap
<1>5. CASE pc = DOWN
  BY <1>1, <1>2, <1>5 DEF HeapInv, HeapByLoop, OrderedPairs, GapOrdered, IndexInRange, Sinking, InOrderBut, AcrossGap
<1> QED BY <1>1, <1>3, <1>4, <1>5

LEMMA NextHeapInvIs == (TypeOK => (HeapInv <=> HeapByLoop))'
BY HeapInvIs, PTL

(* The swap and the comparisons of the loops, in the terms of HeapProofs. *)
LEMMA LoopFacts ==
  ASSUME TypeOK
  PROVE  /\ IsArray(data, sz)
         /\ Favourite = FavouriteOf(type, data, idx)
         /\ AheadOfBoth <=> BeforeBoth(type, data, idx)
<1>1. IsArray(data, sz)
  BY PriorityFacts DEF IsArray
<1> QED BY <1>1 DEF Favourite, FavouriteOf, AheadOfBoth, BeforeBoth, Ahead

LEMMA SiftKeepsHeap ==
  ASSUME TypeOK, HeapByLoop, Sift
  PROVE  HeapByLoop'
<1> USE DEF IDLE, UP, DOWN
<1>1. sz \in Nat /\ idx \in Nat /\ IsArray(data, sz)
  BY IdxFacts, LoopFacts
<1>2. CASE BubbleUp
  <2>1. Rising(type, data, sz, idx) /\ idx > 0 /\ Before(type, data[idx].priority, data[Parent(idx)].priority)
    BY <1>2 DEF HeapByLoop, BubbleUp, Ahead
  <2>2. Rising(type, Swap(data, idx, Parent(idx)), sz, Parent(idx))
    BY <1>1, <2>1, SwapRises
  <2> QED BY <1>2, <2>2 DEF BubbleUp, HeapByLoop
<1>3. CASE EnqueueReturn
  <2>1. Rising(type, data, sz, idx) /\ (idx > 0 => ~ Before(type, data[idx].priority, data[Parent(idx)].priority))
    BY <1>3 DEF HeapByLoop, EnqueueReturn, Ahead
  <2>2. IsHeap(type, data, sz)
    BY <1>1, <2>1, RisenIsHeap
  <2> QED BY <1>3, <2>2 DEF EnqueueReturn, Return, HeapByLoop
<1>4. CASE BubbleDown
  <2>1. Sinking(type, data, sz, idx) /\ Right(idx) < sz /\ ~ BeforeBoth(type, data, idx)
    BY <1>4, LoopFacts DEF HeapByLoop, BubbleDown
  <2>2. Sinking(type, Swap(data, idx, FavouriteOf(type, data, idx)), sz, FavouriteOf(type, data, idx))
    BY <1>1, <2>1, SwapSinks
  <2>3. Sinking(type, Swap(data, idx, Favourite), sz, Favourite)
    BY <2>2, LoopFacts
  <2> QED BY <1>4, <2>3 DEF BubbleDown, HeapByLoop
<1>5. CASE OneChildReturn
  <2>1. Sinking(type, data, sz, idx) /\ Left(idx) < sz /\ Right(idx) >= sz
    BY <1>5 DEF HeapByLoop, OneChildReturn
  <2>2. IsHeap(type, IF Before(type, data[Left(idx)].priority, data[idx].priority)
                     THEN Swap(data, idx, Left(idx)) ELSE data, sz)
    BY <1>1, <2>1, OnlyChildIsHeap
  <2>3. IsHeap(type', data', sz')
    BY <1>5, <2>2 DEF OneChildReturn, Ahead
  <2> QED BY <1>5, <2>3 DEF OneChildReturn, Return, HeapByLoop
<1>6. CASE DequeueReturn
  <2>1. Sinking(type, data, sz, idx) /\ (Left(idx) < sz => Right(idx) < sz /\ BeforeBoth(type, data, idx))
    BY <1>6, LoopFacts DEF HeapByLoop, DequeueReturn
  <2>2. IsHeap(type, data, sz)
    BY <1>1, <2>1, SunkIsHeap
  <2> QED BY <1>6, <2>2 DEF DequeueReturn, Return, HeapByLoop
<1> QED BY <1>2, <1>3, <1>4, <1>5, <1>6 DEF Sift

LEMMA HeapStep ==
  ASSUME TypeOK, HeapByLoop, [Next]_vars
  PROVE  HeapByLoop'
<1> USE DEF IDLE, UP, DOWN
<1>1. sz \in Nat
  BY DEF TypeOK
<1>2. ASSUME NEW p \in Priority, NEW o \in Obj, Enqueue(p, o) PROVE HeapByLoop'
  <2>1. Rising(type, Extended(data, sz, [priority |-> p, obj |-> o]), sz + 1, sz)
    BY <1>1, <1>2, ExtendedRises DEF HeapByLoop, Enqueue
  <2> QED BY <1>2, <2>1 DEF Enqueue, HeapByLoop
<1>3. CASE Dequeue
  <2>1. sz \in Nat \ {0} /\ IsHeap(type, data, sz)
    BY <1>1, <1>3 DEF HeapByLoop, Dequeue
  <2>2. Sinking(type, Shrunk(data, sz), sz - 1, 0)
    BY <2>1, ShrunkSinks
  <2> QED BY <1>3, <2>2 DEF Dequeue, HeapByLoop
<1>4. CASE DequeueEmpty \/ UNCHANGED vars
  BY <1>4 DEF DequeueEmpty, vars, HeapByLoop
<1> QED BY <1>2, <1>3, <1>4, SiftKeepsHeap DEF Next

LEMMA HeapInvStep == TypeInv /\ HeapInv /\ [Next]_vars => HeapInv'
<1> SUFFICES ASSUME TypeInv, HeapInv, [Next]_vars PROVE HeapInv'
  OBVIOUS
<1>1. TypeOK /\ TypeOK'
  BY TypeInvStep DEF TypeInv
<1>2. HeapByLoop'
  BY <1>1, HeapInvIs, HeapStep
<1> QED BY <1>1, <1>2, NextHeapInvIs

(* The heap order with at most one item on its way, and the sift loops     *)
(* inside the live array: the inductive invariant behind every answer of   *)
(* the queue (priority-queue.c:114-124, 157-196).                          *)
THEOREM HeapCorrect == Spec => []HeapInv
<1>1. Create => HeapInv
  BY DEF Create, HeapInv, OrderedPairs, GapOrdered, IndexInRange, IDLE, UP, DOWN
<1>2. TypeInv => TypeOK
  BY DEF TypeInv
<1> QED BY <1>1, <1>2, TypeInvInit, TypeInvStep, HeapInvStep, PTL DEF Spec
-----------------------------------------------------------------------------
(* Between calls the array is a heap, and no item of it precedes the root. *)
LEMMA IdleRootIsBest == TypeOK /\ HeapInv => NextIsBest
<1> SUFFICES ASSUME TypeOK, HeapInv, pc = IDLE, NEW i \in 0 .. sz - 1 PROVE Ordered(0, i)
  BY DEF NextIsBest
<1>1. IsHeap(type, data, sz)
  BY HeapInvIs DEF HeapByLoop
<1>2. InOrder(type, data, 0, i)
  BY <1>1, LoopFacts, RootIsBest
<1> QED BY <1>2 DEF InOrder, Ordered, Ahead

(* What every caller relies on: between calls the item pqueue_dequeue and  *)
(* pqueue_get_next_priority answer with is preceded by no other, for any   *)
(* sequence of calls on a queue of any size (priority-queue.c:68-84).      *)
THEOREM NextIsBestAlways == Spec => []NextIsBest
<1>1. TypeInv => TypeOK
  BY DEF TypeInv
<1>2. Spec => []TypeInv
  BY TypeInvInit, TypeInvStep, PTL DEF Spec
<1> QED BY <1>1, <1>2, HeapCorrect, IdleRootIsBest, PTL
-----------------------------------------------------------------------------
(***************************************************************************)
(* priority-queue.c implements a bag from which a removal takes a best     *)
(* item, for every set of ids and priorities, every starting capacity and  *)
(* every length of queue: the sift loops only exchange items, and what     *)
(* leaves is the root, which is a best item by NextIsBestAlways.            *)
(***************************************************************************)

LEMMA ContentsAre ==
  /\ Contents = [item \in Item |-> Copies(data, sz, item)]
  /\ Contents' = [item \in Item |-> Copies(data', sz', item)]
BY DEF Contents, Copies, Where

(* The abstract queue has the items and the order of the array.            *)
LEMMA SameItems ==
  /\ Abstract!Item = Item /\ Abstract!QueueType = QueueType
  /\ \A t, p, q : Abstract!Before(t, p, q) <=> Before(t, p, q)
BY DEF Abstract!Item, Item, Abstract!QueueType, QueueType, Abstract!MIN, MIN, Abstract!MAX, MAX,
       Abstract!Before, Before

LEMMA BagInitMaps == Create => Abstract!BagInit
<1> SUFFICES ASSUME Create PROVE Abstract!BagInit
  OBVIOUS
<1>1. \A item \in Item : Where(data, sz, item) = {}
  BY DEF Create, Where
<1>2. Contents = [item \in Item |-> 0]
  BY <1>1, ContentsAre, FS_EmptySet DEF Copies
<1> QED BY <1>2, SameItems DEF Create, Abstract!BagInit

(* The calls change the bag by one item, the loops leave it alone.         *)
LEMMA BagStepMaps ==
  ASSUME TypeOK, HeapInv, [Next]_vars
  PROVE  [Abstract!BagNext]_(Abstract!bagvars)
<1>0. sz \in Nat /\ data \in [0 .. sz - 1 -> Item]
  BY DEF TypeOK
<1>1. ASSUME UNCHANGED <<type, sz, result>>,
             \/ data' = data
             \/ \E a, b \in 0 .. sz - 1 : data' = Swap(data, a, b)
      PROVE  UNCHANGED Abstract!bagvars
  <2>1. \A item \in Item : Copies(data', sz', item) = Copies(data, sz, item)
    BY <1>0, <1>1, SwapCopies
  <2> QED BY <1>1, <2>1, ContentsAre DEF Abstract!bagvars
<1>2. ASSUME NEW priority \in Priority, NEW obj \in Obj, Enqueue(priority, obj)
      PROVE  Abstract!BagNext
  <2> DEFINE x == [priority |-> priority, obj |-> obj]
  <2>1. x \in Item
    BY DEF Item
  <2>2. data' = Extended(data, sz, x) /\ sz' = sz + 1 /\ UNCHANGED <<type, result>>
    BY <1>2 DEF Enqueue
  <2> HIDE DEF x
  <2>3. \A item \in Item : Copies(data', sz', item) = Copies(data, sz, item) + (IF item = x THEN 1 ELSE 0)
    BY <1>0, <2>2, ExtendedCopies
  <2>4. \A item \in Item : Copies(data, sz, item) \in Nat
    BY <1>0, WhereFinite
  <2>5. Contents' = [Contents EXCEPT ![x] = @ + 1]
    BY <2>1, <2>3, <2>4, ContentsAre
  <2> QED BY <2>1, <2>2, <2>5, SameItems DEF Abstract!BagNext, Abstract!Put
<1>3. ASSUME DequeueEmpty PROVE Abstract!BagNext
  <2>1. \A item \in Item : Where(data, sz, item) = {}
    BY <1>3 DEF DequeueEmpty, Where
  <2>2. \A item \in Item : Contents[item] = 0
    BY <2>1, ContentsAre, FS_EmptySet DEF Copies
  <2>3. Contents' = Contents
    BY <1>3, ContentsAre DEF DequeueEmpty
  <2> QED BY <1>3, <2>2, <2>3, SameItems DEF DequeueEmpty, Abstract!BagNext, Abstract!TakeNothing
<1>4. ASSUME Dequeue PROVE Abstract!BagNext
  <2> DEFINE x == data[0]
  <2>1. /\ pc = IDLE /\ sz \in Nat \ {0} /\ 0 \in 0 .. sz - 1
        /\ data' = Shrunk(data, sz) /\ sz' = sz - 1 /\ result' = x.obj /\ type' = type
    BY <1>0, <1>4 DEF Dequeue
  <2>2. x \in Item
    BY <1>0, <2>1
  <2>3. \A i \in 0 .. sz - 1 : ~ Before(type, data[i].priority, x.priority)
    BY <2>1, IdleRootIsBest DEF NextIsBest, Ordered, Ahead
  <2>4. \A item \in Item : Copies(data', sz', item) = Copies(data, sz, item) - (IF item = x THEN 1 ELSE 0)
    BY <2>1, ShrunkCopies
  <2>5. \A item \in Item : Copies(data, sz, item) \in Nat
    BY <1>0, WhereFinite
  <2>6. Contents[x] > 0
    <3>1. 0 \in Where(data, sz, x) /\ IsFiniteSet(Where(data, sz, x))
      BY <1>0, <2>1, WhereFinite DEF Where
    <3>2. Cardinality(Where(data, sz, x)) # 0
      BY <3>1, FS_EmptySet
    <3> QED BY <2>2, <2>5, <3>2, ContentsAre DEF Copies
  <2>7. ASSUME NEW other \in Item, Contents[other] > 0
        PROVE  ~ Before(type, other.priority, x.priority)
    <3>1. Cardinality(Where(data, sz, other)) # 0
      BY <2>7, ContentsAre DEF Copies
    <3>2. PICK i \in 0 .. sz - 1 : data[i] = other
      BY <3>1, FS_EmptySet DEF Where
    <3> QED BY <2>3, <3>2
  <2> HIDE DEF x
  <2>8. Contents' = [Contents EXCEPT ![x] = @ - 1]
    BY <2>2, <2>4, <2>5, ContentsAre
  <2>9. Abstract!Take(x)
    BY <2>1, <2>6, <2>7, <2>8, SameItems DEF Abstract!Take
  <2> QED BY <2>2, <2>9, SameItems DEF Abstract!BagNext
<1>5. CASE BubbleUp
  <2>1. idx \in 0 .. sz - 1 /\ Parent(idx) \in 0 .. sz - 1
    BY <1>5, ParentFacts DEF BubbleUp, TypeOK, HeapInv, IndexInRange
  <2> QED BY <1>1, <1>5, <2>1 DEF BubbleUp
<1>6. CASE BubbleDown
  <2>1. idx \in 0 .. sz - 1 /\ Favourite \in 0 .. sz - 1
    BY <1>6, IdxFacts DEF BubbleDown, Favourite
  <2> QED BY <1>1, <1>6, <2>1 DEF BubbleDown
<1>7. CASE OneChildReturn
  <2>1. idx \in 0 .. sz - 1 /\ Left(idx) \in 0 .. sz - 1
    BY <1>7, IdxFacts DEF OneChildReturn
  <2> QED BY <1>1, <1>7, <2>1 DEF OneChildReturn
<1>8. CASE EnqueueReturn \/ DequeueReturn
  BY <1>1, <1>8 DEF EnqueueReturn, DequeueReturn
<1>9. CASE UNCHANGED vars
  BY <1>1, <1>9 DEF vars
<1> QED BY <1>2, <1>3, <1>4, <1>5, <1>6, <1>7, <1>8, <1>9 DEF Next, Sift

(* The heap is a bag to its callers: nothing is lost or doubled by the     *)
(* swaps, and every removal takes a best item (priority-queue.c:86-199).   *)
THEOREM QueueIsABag == Spec => ImplementsBag
<1>1. TypeOK /\ HeapInv /\ [Next]_vars => [Abstract!BagNext]_(Abstract!bagvars)
  BY BagStepMaps
<1> QED BY <1>1, BagInitMaps, TypeCorrect, HeapCorrect, PTL
        DEF Spec, ImplementsBag, Abstract!Spec
-----------------------------------------------------------------------------
(***************************************************************************)
(* The operators of HeapOps, which make a whole call at once, do what the  *)
(* loops do turn by turn: from where a call stands, the turns of its loop  *)
(* lead to the array that the operator gave when the call began.           *)
(***************************************************************************)

(* The array and the index of the call under way. *)
Here == [data |-> data, idx |-> idx]

(* The inductive invariant: what the call still has to do leads to the     *)
(* array foreseen when it began.                                           *)
OnCourse ==
  /\ EndsAsForeseen
  /\ pc # IDLE => Leads(pc, type, sz, Here, foreseen)

LEMMA EnqueueOnCourse ==
  ASSUME TypeOK, NEW p \in Priority, NEW o \in Obj, Enqueue(p, o),
         foreseen' = Enqueued(type, Now, p, o).data
  PROVE  OnCourse'
<1>1. /\ sz \in Nat /\ idx' = sz /\ pc' = UP /\ type' = type
      /\ data' = Extended(data, sz, [priority |-> p, obj |-> o])
  BY DEF Enqueue, TypeOK
<1>2. foreseen' = BubbledUp(type, data', sz)
  BY <1>1 DEF Enqueued, Extended, Now
<1>3. Leads(UP, type', sz', [data |-> data', idx |-> idx'], foreseen')
  BY <1>1, <1>2, UpLeads DEF UP
<1> QED BY <1>1, <1>3 DEF OnCourse, EndsAsForeseen, Here, IDLE, UP

LEMMA DequeueOnCourse ==
  ASSUME TypeOK, Dequeue, foreseen' = Dequeued(type, Now).data
  PROVE  OnCourse'
<1>1. /\ sz' \in Nat /\ idx' = 0 /\ pc' = DOWN /\ type' = type /\ sz' = sz - 1
      /\ data' = Shrunk(data, sz)
  BY DEF Dequeue, TypeOK
<1>2. foreseen' = BubbledDown(type, data', sz', 0)
  BY <1>1 DEF Dequeued, Shrunk, Now
<1>3. Leads(DOWN, type', sz', [data |-> data', idx |-> idx'], foreseen')
  BY <1>1, <1>2, DownLeads DEF DOWN
<1> QED BY <1>1, <1>3 DEF OnCourse, EndsAsForeseen, Here, IDLE, DOWN

(* What the loop of pqueue_enqueue does is the turn that is foreseen. *)
LEMMA UpTurn ==
  ASSUME TypeOK
  PROVE  Turn(UP, type, sz, Here) =
           IF idx > 0 /\ Ahead(idx, Parent(idx))
           THEN [data |-> Swap(data, idx, Parent(idx)), idx |-> Parent(idx)]
           ELSE Here
BY DEF Turn, UP, Here, Ahead, Before, Swap, Parent, Risen, MIN

(* What the loop of pqueue_dequeue does, likewise. *)
LEMMA DownTurn ==
  ASSUME TypeOK
  PROVE  Turn(DOWN, type, sz, Here) =
           CASE sz <= Left(idx) -> Here
             [] Left(idx) < sz /\ sz <= Right(idx) ->
                  [data |-> IF Ahead(Left(idx), idx) THEN Swap(data, idx, Left(idx)) ELSE data,
                   idx  |-> sz]
             [] Right(idx) < sz ->
                  IF AheadOfBoth THEN [Here EXCEPT !.idx = sz]
                  ELSE [data |-> Swap(data, idx, Favourite), idx |-> Favourite]
<1>1. Turn(DOWN, type, sz, Here) = Sunk(type, sz, Here)
  BY DEF Turn, UP, DOWN
<1> QED BY <1>1 DEF Here, Ahead, Before, Swap, Left, Right, AheadOfBoth, Favourite,
                    Sunk, MIN

LEMMA SiftOnCourse ==
  ASSUME TypeOK, OnCourse, Sift, UNCHANGED foreseen
  PROVE  OnCourse'
<1> USE DEF IDLE, UP, DOWN
<1>1. sz \in Nat /\ idx \in Nat /\ Left(idx) = 2 * idx + 1 /\ Right(idx) = 2 * idx + 2
  BY IdxFacts
<1>2. foreseen' = foreseen
  OBVIOUS
<1>3. CASE BubbleUp
  <2>1. Leads(UP, type, sz, Here, foreseen)
    BY <1>3 DEF OnCourse, BubbleUp
  <2>2. Turn(UP, type, sz, Here) = [data |-> data', idx |-> idx']
    BY <1>3, UpTurn DEF BubbleUp
  <2>3. Leads(UP, type, sz, [data |-> data', idx |-> idx'], foreseen)
    BY <2>1, <2>2, LeadsOn
  <2> QED BY <1>2, <1>3, <2>3 DEF BubbleUp, OnCourse, EndsAsForeseen, Here
<1>4. CASE EnqueueReturn
  <2>1. Leads(UP, type, sz, Here, foreseen)
    BY <1>4 DEF OnCourse, EnqueueReturn
  <2>2. Turn(UP, type, sz, Here) = Here
    BY <1>4, UpTurn DEF EnqueueReturn
  <2>3. Here.data = foreseen
    BY <2>1, <2>2, LeadsHere
  <2> QED BY <1>2, <1>4, <2>3 DEF EnqueueReturn, Return, OnCourse, EndsAsForeseen, Here
<1>5. CASE BubbleDown
  <2>1. Leads(DOWN, type, sz, Here, foreseen)
    BY <1>5 DEF OnCourse, BubbleDown
  <2>2. Turn(DOWN, type, sz, Here) = [data |-> data', idx |-> idx']
    BY <1>1, <1>5, DownTurn DEF BubbleDown
  <2>3. Leads(DOWN, type, sz, [data |-> data', idx |-> idx'], foreseen)
    BY <2>1, <2>2, LeadsOn
  <2> QED BY <1>2, <1>5, <2>3 DEF BubbleDown, OnCourse, EndsAsForeseen, Here
<1>6. CASE OneChildReturn
  <2> DEFINE after == [data |-> data', idx |-> sz]
  <2>1. Leads(DOWN, type, sz, Here, foreseen)
    BY <1>6 DEF OnCourse, OneChildReturn
  <2>2. Turn(DOWN, type, sz, Here) = after
    BY <1>1, <1>6, DownTurn DEF OneChildReturn
  <2>3. Leads(DOWN, type, sz, after, foreseen)
    BY <2>1, <2>2, LeadsOn
  <2>4. Turn(DOWN, type, sz, after) = after
    BY <1>1, Sinks
  <2>5. after.data = foreseen
    <3> HIDE DEF after
    <3> QED BY <2>3, <2>4, LeadsHere
  <2> QED BY <1>2, <1>6, <2>5 DEF OneChildReturn, Return, OnCourse, EndsAsForeseen
<1>7. CASE DequeueReturn
  <2> DEFINE after == Turn(DOWN, type, sz, Here)
  <2>1. Leads(DOWN, type, sz, Here, foreseen)
    BY <1>7 DEF OnCourse, DequeueReturn
  <2>2. Leads(DOWN, type, sz, after, foreseen)
    BY <2>1, LeadsOn
  <2>3. after.data = data /\ (after = Here \/ ("idx" \in DOMAIN after /\ after.idx = sz))
    BY <1>1, <1>7, DownTurn DEF DequeueReturn, Here
  <2>4. Turn(DOWN, type, sz, after) = after
    <3>1. CASE after = Here
      BY <3>1
    <3>2. CASE "idx" \in DOMAIN after /\ after.idx = sz
      <4> HIDE DEF after
      <4> QED BY <1>1, <3>2, Sinks
    <3> QED BY <2>3, <3>1, <3>2
  <2>5. after.data = foreseen
    <3> HIDE DEF after
    <3> QED BY <2>2, <2>4, LeadsHere
  <2> QED BY <1>2, <1>7, <2>3, <2>5 DEF DequeueReturn, Return, OnCourse, EndsAsForeseen
<1> QED BY <1>3, <1>4, <1>5, <1>6, <1>7 DEF Sift

(* Every call of the queue leaves the array that HeapOps computes for it,  *)
(* item by item and whatever its length: a module whose steps make whole   *)
(* calls by those operators is as good as one that makes them turn by turn *)
(* (priority-queue.c:86-125, 127-197).                                     *)
THEOREM EndsAreForeseen == MCSpec => []EndsAsForeseen
<1>1. MCInit => TypeInv /\ OnCourse
  BY TypeInvInit DEF MCInit, Create, OnCourse, EndsAsForeseen
<1>2. TypeInv /\ OnCourse /\ [MCNext]_mcvars => (TypeInv /\ OnCourse)'
  <2> SUFFICES ASSUME TypeInv, OnCourse, [MCNext]_mcvars PROVE (TypeInv /\ OnCourse)'
    OBVIOUS
  <2>1. TypeOK
    BY DEF TypeInv
  <2>2. [Next]_vars
    BY DEF MCNext, mcvars, Next
  <2>3. TypeInv'
    BY <2>2, TypeInvStep
  <2>4. ASSUME NEW p \in Priority, NEW o \in Obj, Enqueue(p, o),
               foreseen' = Enqueued(type, Now, p, o).data
        PROVE  OnCourse'
    BY <2>1, <2>4, EnqueueOnCourse
  <2>5. CASE Dequeue /\ foreseen' = Dequeued(type, Now).data
    BY <2>1, <2>3, <2>5, DequeueOnCourse
  <2>6. CASE Sift /\ UNCHANGED foreseen
    BY <2>1, <2>3, <2>6, SiftOnCourse
  <2>7. CASE (DequeueEmpty \/ UNCHANGED vars) /\ UNCHANGED foreseen
    <3>1. /\ pc' = pc /\ type' = type /\ sz' = sz /\ data' = data /\ idx' = idx
          /\ foreseen' = foreseen
      BY <2>7 DEF DequeueEmpty, vars
    <3> QED BY <2>3, <3>1 DEF OnCourse, EndsAsForeseen, Here
  <2> QED BY <2>3, <2>4, <2>5, <2>6, <2>7 DEF MCNext, mcvars
<1>3. OnCourse => EndsAsForeseen
  BY DEF OnCourse
<1> QED BY <1>1, <1>2, <1>3, PTL DEF MCSpec
=============================================================================
