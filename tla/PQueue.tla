------------------------------- MODULE PQueue -------------------------------
(***************************************************************************)
(* priority-queue.c, one action per call and per iteration of the loops    *)
(* that restore the heap order.  The calls that only read the queue are    *)
(* state functions.  A call that is refused (NaN priority, failed realloc, *)
(* NULL queue) returns before it writes anything and is a stuttering step. *)
(***************************************************************************)
EXTENDS BinaryHeap, FiniteSets

CONSTANTS Obj,         \* the ids a queue holds (uint16_t)
          Priority,    \* the priorities a caller passes (a double that is not NaN)
          DefaultCap,  \* DEFAULT_HEAP_CAPACITY
          MaxSize,     \* bound: the longest queue that is explored
          NoObj        \* 0xffff, what an empty queue answers

ASSUME PriorityAssumption == Priority \subseteq Int

ASSUME SizeAssumption == DefaultCap \in Nat \ {0} /\ MaxSize \in Nat

Item == [priority : Priority, obj : Obj]

VARIABLES type,    \* pq->type
          data,    \* pq->data[0 .. sz-1]
          sz,      \* pq->sz
          cap,     \* pq->cap
          pc,      \* no call under way, or the loop the call is in
          idx,     \* the index the loop is at
          result   \* what the last pqueue_dequeue returns

vars == <<type, data, sz, cap, pc, idx, result>>

IDLE == "idle"
UP   == "up"
DOWN == "down"

Create ==
  /\ type \in QueueType
  /\ data = [i \in 0 .. -1 |-> i]
  /\ sz = 0
  /\ cap = DefaultCap
  /\ pc = IDLE
  /\ idx = 0
  /\ result = NoObj

(* a is strictly before b in the order the queue hands items out. *)
Ahead(a, b) == Before(type, data[a].priority, data[b].priority)

Return ==
  /\ pc' = IDLE
  /\ idx' = 0
-----------------------------------------------------------------------------
(* Not the code: growth when the write has already gone too far. *)
GrowsLate == IF sz > cap THEN 2 * cap ELSE cap

(* The capacity the next item needs. *)
Grown == IF sz + 1 >= cap THEN 2 * cap ELSE cap

Enqueue(priority, obj) ==
  /\ pc = IDLE
  /\ sz < MaxSize
  /\ cap' = Grown
  /\ data' = Extended(data, sz, [priority |-> priority, obj |-> obj])
  /\ sz' = sz + 1
  /\ idx' = sz
  /\ pc' = UP
  /\ UNCHANGED <<type, result>>

BubbleUp ==
  /\ pc = UP
  /\ idx > 0
  /\ Ahead(idx, Parent(idx))
  /\ data' = Swap(data, idx, Parent(idx))
  /\ idx' = Parent(idx)
  /\ UNCHANGED <<type, sz, cap, pc, result>>

EnqueueReturn ==
  /\ pc = UP
  /\ idx > 0 => ~ Ahead(idx, Parent(idx))
  /\ Return
  /\ UNCHANGED <<type, data, sz, cap, result>>
-----------------------------------------------------------------------------
DequeueEmpty ==
  /\ pc = IDLE
  /\ sz = 0
  /\ result' = NoObj
  /\ UNCHANGED <<type, data, sz, cap, pc, idx>>

Dequeue ==
  /\ pc = IDLE
  /\ sz > 0
  /\ result' = data[0].obj
  /\ sz' = sz - 1
  /\ data' = Shrunk(data, sz)
  /\ idx' = 0
  /\ pc' = DOWN
  /\ UNCHANGED <<type, cap>>

(* Not the code: one child forgotten. *)
AheadOfLeft == Ahead(idx, Left(idx))

AheadOfBoth == Ahead(idx, Left(idx)) /\ Ahead(idx, Right(idx))

(* Not the code: the wrong child; the wrong child of two equal ones. *)
OtherChild == IF Ahead(Left(idx), Right(idx)) THEN Right(idx) ELSE Left(idx)
LeftOnTie  == IF Ahead(Right(idx), Left(idx)) THEN Right(idx) ELSE Left(idx)

(* The child an item with two children changes places with. *)
Favourite == IF Ahead(Left(idx), Right(idx)) THEN Left(idx) ELSE Right(idx)

(* Not the code: the loop stays where it is after the swap. *)
BubbleDownInPlace ==
  /\ pc = DOWN
  /\ Right(idx) < sz
  /\ ~ AheadOfBoth
  /\ data' = Swap(data, idx, Favourite)
  /\ UNCHANGED <<type, sz, cap, pc, idx, result>>

BubbleDown ==
  /\ pc = DOWN
  /\ Right(idx) < sz
  /\ ~ AheadOfBoth
  /\ data' = Swap(data, idx, Favourite)
  /\ idx' = Favourite
  /\ UNCHANGED <<type, sz, cap, pc, result>>

OneChildReturn ==
  /\ pc = DOWN
  /\ Left(idx) < sz
  /\ Right(idx) >= sz
  /\ data' = IF Ahead(Left(idx), idx) THEN Swap(data, idx, Left(idx)) ELSE data
  /\ Return
  /\ UNCHANGED <<type, sz, cap, result>>

DequeueReturn ==
  /\ pc = DOWN
  /\ Left(idx) < sz => (Right(idx) < sz /\ AheadOfBoth)
  /\ Return
  /\ UNCHANGED <<type, data, sz, cap, result>>
-----------------------------------------------------------------------------
Sift == BubbleUp \/ EnqueueReturn \/ BubbleDown \/ OneChildReturn \/ DequeueReturn

Next ==
  \/ \E priority \in Priority, obj \in Obj : Enqueue(priority, obj)
  \/ DequeueEmpty
  \/ Dequeue
  \/ Sift

Spec == Create /\ [][Next]_vars

(* A call runs to its return: nothing preempts the single thread. *)
FairSpec == Spec /\ WF_vars(Sift)
-----------------------------------------------------------------------------
TypeOK ==
  /\ type \in QueueType
  /\ sz \in Nat
  /\ data \in [0 .. sz - 1 -> Item]
  /\ cap \in Nat
  /\ pc \in {IDLE, UP, DOWN}
  /\ idx \in Nat
  /\ result \in Obj \cup {NoObj}

(* Nothing orders b before a. *)
Ordered(a, b) == ~ Ahead(b, a)

(* Every item but the one being moved is in order with its parent. *)
OrderedPairs ==
  \A i \in 1 .. sz - 1 :
    \/ pc = UP /\ i = idx
    \/ pc = DOWN /\ Parent(i) = idx
    \/ Ordered(Parent(i), i)

(* The item being moved does not separate its children from its parent. *)
GapOrdered ==
  pc # IDLE /\ idx > 0 =>
    \A i \in 1 .. sz - 1 : Parent(i) = idx => Ordered(Parent(idx), i)

IndexInRange ==
  /\ pc = UP => idx < sz
  /\ pc = DOWN => idx < sz \/ idx = 0

(* What makes the sift loops correct: the heap order holds but for the one *)
(* item that is on its way, and the loops stay inside the live array.      *)
HeapInv == OrderedPairs /\ GapOrdered /\ IndexInRange

(* Between calls the root is the item pqueue_get_next_priority and         *)
(* pqueue_dequeue must hand out: no live item precedes it, after any       *)
(* sequence of calls (priority-queue.c:68-84, 116-124, 157-196).           *)
NextIsBest ==
  pc = IDLE => \A i \in 0 .. sz - 1 : Ordered(0, i)

(* Every write lands inside the allocated array, also across growth, and   *)
(* also for the write at sz that the next pqueue_enqueue makes before it   *)
(* grows again (priority-queue.c:101-112, 152-153).                        *)
FitsCapacity == sz < cap

(* Every call returns: neither loop runs for ever. *)
CallsReturn == pc # IDLE ~> pc = IDLE
-----------------------------------------------------------------------------
(* The abstract view: how many copies of each item the queue holds. *)
Contents == [item \in Item |-> Cardinality({i \in 0 .. sz - 1 : data[i] = item})]

Abstract == INSTANCE PriorityBag WITH bag <- Contents, taken <- result

(* The queue implements a bag whose removals are of a best item. *)
ImplementsBag == Abstract!Spec
=============================================================================
