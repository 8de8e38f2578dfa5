----------------------------- MODULE PriorityBag -----------------------------
(***************************************************************************)
(* What a caller of priority-queue.c relies on: a bag of items from which  *)
(* each removal takes some item that no other item precedes.               *)
(***************************************************************************)
EXTENDS BinaryHeap

CONSTANTS Obj, Priority, NoObj

Item == [priority : Priority, obj : Obj]

VARIABLES type, bag, taken

bagvars == <<type, bag, taken>>

BagInit ==
  /\ type \in QueueType
  /\ bag = [item \in Item |-> 0]
  /\ taken = NoObj

Put(item) ==
  /\ bag' = [bag EXCEPT ![item] = @ + 1]
  /\ UNCHANGED <<type, taken>>

Take(item) ==
  /\ bag[item] > 0
  /\ \A other \in Item : bag[other] > 0 => ~ Before(type, other.priority, item.priority)
  /\ bag' = [bag EXCEPT ![item] = @ - 1]
  /\ taken' = item.obj
  /\ UNCHANGED type

TakeNothing ==
  /\ \A item \in Item : bag[item] = 0
  /\ taken' = NoObj
  /\ UNCHANGED <<type, bag>>

BagNext == TakeNothing \/ \E item \in Item : Put(item) \/ Take(item)

Spec == BagInit /\ [][BagNext]_bagvars
=============================================================================
