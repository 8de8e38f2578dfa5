------------------------------- MODULE HeapOps -------------------------------
(***************************************************************************)
(* Whole calls of priority-queue.c as operators on a queue value, for the  *)
(* modules whose steps make many queue calls.  MCPQueue checks that the    *)
(* steps of PQueue end where these operators say.                          *)
(***************************************************************************)
EXTENDS BinaryHeap

EmptyQueue == [data |-> <<>>, sz |-> 0]

(* The loop of pqueue_enqueue: one turn, and as many as there may be. *)
Risen(type, heap) ==
  IF heap.idx > 0 /\ Before(type, heap.data[heap.idx].priority, heap.data[Parent(heap.idx)].priority)
  THEN [data |-> Swap(heap.data, heap.idx, Parent(heap.idx)), idx |-> Parent(heap.idx)]
  ELSE heap

BubbledUp(type, data, idx) ==
  LET after[turns \in 0 .. idx] ==
        IF turns = 0 THEN [data |-> data, idx |-> idx] ELSE Risen(type, after[turns - 1])
  IN  after[idx].data

(* The loop of pqueue_dequeue; it is left with the index past the end. *)
Sunk(type, sz, heap) ==
  LET Ahead(a, b) == Before(type, heap.data[a].priority, heap.data[b].priority)
      idx   == heap.idx
      child == IF Ahead(Left(idx), Right(idx)) THEN Left(idx) ELSE Right(idx)
  IN  CASE sz <= Left(idx) -> heap
        [] Left(idx) < sz /\ sz <= Right(idx) ->
             [data |-> IF Ahead(Left(idx), idx) THEN Swap(heap.data, idx, Left(idx)) ELSE heap.data,
              idx  |-> sz]
        [] Right(idx) < sz ->
             IF Ahead(idx, Left(idx)) /\ Ahead(idx, Right(idx))
             THEN [heap EXCEPT !.idx = sz]
             ELSE [data |-> Swap(heap.data, idx, child), idx |-> child]

BubbledDown(type, data, sz, idx) ==
  LET after[turns \in 0 .. sz] ==
        IF turns = 0 THEN [data |-> data, idx |-> idx] ELSE Sunk(type, sz, after[turns - 1])
  IN  after[sz].data

Enqueued(type, q, priority, obj) ==
  [data |-> BubbledUp(type, Extended(q.data, q.sz, [priority |-> priority, obj |-> obj]), q.sz),
   sz |-> q.sz + 1]

Dequeued(type, q) ==
  [data |-> BubbledDown(type, Shrunk(q.data, q.sz), q.sz - 1, 0),
   sz |-> q.sz - 1]

NextPriority(q) == q.data[0].priority
NextObj(q)      == q.data[0].obj

(* pqueue_get_priority: the first item in array order that holds obj.  The *)
(* NaN for a missing item, and for obj 0, is the empty set; a priority is  *)
(* a singleton.                                                            *)
KnownPriority(q, obj) ==
  {q.data[i].priority : i \in {j \in 0 .. q.sz - 1 :
     obj # 0 /\ q.data[j].obj = obj /\ \A k \in 0 .. j - 1 : q.data[k].obj # obj}}
=============================================================================
