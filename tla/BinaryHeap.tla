----------------------------- MODULE BinaryHeap -----------------------------
(***************************************************************************)
(* The array part of priority-queue.c: index arithmetic, items and the     *)
(* comparison of the two queue types.  A heap is a function from its live  *)
(* indices 0 .. sz-1 to items, records of a priority and an id; slots from *)
(* sz to cap-1 are never read.                                             *)
(***************************************************************************)
EXTENDS Integers

MIN == "MIN"
MAX == "MAX"
QueueType == {MIN, MAX}

Parent(idx) == (idx - 1) \div 2
Left(idx)   == 2 * idx + 1
Right(idx)  == 2 * idx + 2

(* The strict comparison every loop of the queue makes, by queue type. *)
Before(type, p, q) == IF type = MIN THEN p < q ELSE p > q

(* Not the code: a swap without the temporary. *)
SwapNoTmp(data, a, b) == [data EXCEPT ![a] = data[b]]
Swap(data, a, b) == [data EXCEPT ![a] = data[b], ![b] = data[a]]

(* The array with one more item at its end. *)
Extended(data, sz, item) == [i \in 0 .. sz |-> IF i = sz THEN item ELSE data[i]]

(* The array once its last item has replaced the one at the root. *)
Shrunk(data, sz) == [i \in 0 .. sz - 2 |-> IF i = 0 THEN data[sz - 1] ELSE data[i]]
=============================================================================
