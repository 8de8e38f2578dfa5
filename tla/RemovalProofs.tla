---------------------------- MODULE RemovalProofs ----------------------------
(***************************************************************************)
(* recommend_removal prints who is gone, on every network: that the list,  *)
(* its length and the graph stay in step rests on the queue, which has     *)
(* been emptied and refilled by a count of the survivors at every turn.    *)
(***************************************************************************)
EXTENDS Removal, HeapProofs, SequenceTheorems

(* The search of graph_remove_vertex finds a zerg that is on the list. *)
LEMMA FirstFound ==
  ASSUME NEW S, NEW s \in Seq(S), NEW e, \E i \in 1 .. Len(s) : s[i] = e
  PROVE  /\ SelectInSeq(s, LAMBDA v : v = e) \in 1 .. Len(s)
         /\ s[SelectInSeq(s, LAMBDA v : v = e)] = e
<1> DEFINE I == {i \in 1 .. Len(s) : s[i] = e}
<1>1. SelectInSeq(s, LAMBDA v : v = e) = Min(I)
  BY DEF SelectInSeq
<1>2. I # {} /\ I \subseteq Nat
  OBVIOUS
<1>3. Min(I) \in I
  <2> HIDE DEF I
  <2>1. PICK j \in I : \A k \in I : ~ k < j
    BY <1>2, FirstOf
  <2>2. \E m \in I : \A k \in I : m <= k
    BY <1>2, <2>1
  <2> QED BY <2>2 DEF Min
<1> QED BY <1>1, <1>3

(* A list without one of its positions. *)
LEMMA RemoveAtFacts ==
  ASSUME NEW S, NEW s \in Seq(S), NEW k \in 1 .. Len(s)
  PROVE  /\ RemoveAt(s, k) \in Seq(S)
         /\ Len(RemoveAt(s, k)) = Len(s) - 1
         /\ \A i \in 1 .. Len(s) - 1 : RemoveAt(s, k)[i] = s[IF i < k THEN i ELSE i + 1]
<1> DEFINE a == SubSeq(s, 1, k - 1)
           b == SubSeq(s, k + 1, Len(s))
<1>0. Len(s) \in Nat /\ k \in Nat
  OBVIOUS
<1>1. a \in Seq(S) /\ Len(a) = k - 1 /\ \A i \in 1 .. k - 1 : a[i] = s[i]
  OBVIOUS
<1>2. b \in Seq(S) /\ Len(b) = Len(s) - k /\ \A i \in 1 .. Len(s) - k : b[i] = s[k + i]
  OBVIOUS
<1> HIDE DEF a, b
<1>3. /\ a \o b \in Seq(S) /\ Len(a \o b) = Len(a) + Len(b)
      /\ \A i \in 1 .. Len(a) + Len(b) : (a \o b)[i] = IF i <= Len(a) THEN a[i] ELSE b[i - Len(a)]
  BY <1>1, <1>2, ConcatProperties
<1>4. Len(a \o b) = Len(s) - 1
  BY <1>0, <1>1, <1>2, <1>3
<1>5. ASSUME NEW i \in 1 .. Len(s) - 1 PROVE (a \o b)[i] = s[IF i < k THEN i ELSE i + 1]
  <2>0. i \in 1 .. Len(a) + Len(b)
    BY <1>0, <1>1, <1>2
  <2>1. CASE i < k
    <3>1. i <= Len(a) /\ i \in 1 .. k - 1
      BY <1>0, <1>1, <2>1
    <3> QED BY <1>1, <1>3, <2>0, <2>1, <3>1
  <2>2. CASE ~ i < k
    <3>1. i - (k - 1) \in 1 .. Len(s) - k /\ k + (i - (k - 1)) = i + 1 /\ ~ i <= Len(a)
      BY <1>0, <1>1, <2>2
    <3>2. (a \o b)[i] = b[i - (k - 1)]
      BY <1>1, <1>3, <2>0, <3>1
    <3> QED BY <1>2, <2>2, <3>1, <3>2
  <2> QED BY <2>1, <2>2
<1> QED BY <1>3, <1>4, <1>5 DEF RemoveAt, a, b

(* Each zerg is on the list once. *)
Injective(list) == \A i, j \in 1 .. Len(list) : list[i] = list[j] => i = j

(* A zerg taken off the list is off it, and the others are still on it. *)
LEMMA ListWithoutFacts ==
  ASSUME NEW S, nodes \in Seq(S), Injective(nodes), NEW id \in Survivors, id # 0
  PROVE  LET list == ListWithout(id)
         IN  /\ list \in Seq(S) /\ Injective(list)
             /\ Len(list) = Len(nodes) - 1
             /\ {list[k] : k \in 1 .. Len(list)} = Survivors \ {id}
<1> DEFINE k == SelectInSeq(nodes, LAMBDA v : v = id)
           list == RemoveAt(nodes, k)
<1>0. Len(nodes) \in Nat
  OBVIOUS
<1>1. \E i \in 1 .. Len(nodes) : nodes[i] = id
  BY DEF Survivors
<1>2. ListWithout(id) = list
  BY <1>1 DEF ListWithout, RemoveFirst
<1>3. k \in 1 .. Len(nodes) /\ nodes[k] = id
  BY <1>1, FirstFound
<1> HIDE DEF k
<1>4. /\ list \in Seq(S) /\ Len(list) = Len(nodes) - 1
      /\ \A i \in 1 .. Len(nodes) - 1 : list[i] = nodes[IF i < k THEN i ELSE i + 1]
  BY <1>3, RemoveAtFacts
<1> HIDE DEF list
<1>5. Injective(list)
  <2> SUFFICES ASSUME NEW i \in 1 .. Len(list), NEW j \in 1 .. Len(list), list[i] = list[j] PROVE i = j
    BY DEF Injective
  <2> DEFINE from(x) == IF x < k THEN x ELSE x + 1
  <2>1. from(i) \in 1 .. Len(nodes) /\ from(j) \in 1 .. Len(nodes)
    BY <1>0, <1>3, <1>4
  <2>2. nodes[from(i)] = nodes[from(j)]
    BY <1>4
  <2>3. from(i) = from(j)
    BY <2>1, <2>2 DEF Injective
  <2> QED BY <1>0, <1>3, <1>4, <2>3
<1>6. ASSUME NEW i \in 1 .. Len(list) PROVE list[i] \in Survivors \ {id}
  <2> DEFINE from == IF i < k THEN i ELSE i + 1
  <2>1. from \in 1 .. Len(nodes) /\ from # k
    BY <1>0, <1>3, <1>4
  <2>2. list[i] = nodes[from]
    BY <1>4
  <2>3. nodes[from] # nodes[k]
    BY <1>3, <2>1 DEF Injective
  <2> QED BY <1>3, <2>1, <2>2, <2>3 DEF Survivors
<1>7. ASSUME NEW x \in Survivors \ {id} PROVE \E i \in 1 .. Len(list) : list[i] = x
  <2>1. PICK j \in 1 .. Len(nodes) : nodes[j] = x
    BY DEF Survivors
  <2>2. j # k
    BY <1>3, <2>1
  <2>3. CASE j < k
    BY <1>0, <1>3, <1>4, <2>1, <2>3
  <2>4. CASE ~ j < k
    <3>1. j - 1 \in 1 .. Len(list) /\ ~ j - 1 < k /\ j - 1 + 1 = j
      BY <1>0, <1>3, <1>4, <2>2, <2>4
    <3>2. list[j - 1] = nodes[j]
      BY <1>4, <3>1
    <3> QED BY <2>1, <3>1, <3>2
  <2> QED BY <2>3, <2>4
<1>8. {list[i] : i \in 1 .. Len(list)} = Survivors \ {id}
  BY <1>6, <1>7
<1> QED BY <1>2, <1>4, <1>5, <1>8
-----------------------------------------------------------------------------
(* A call of suurballe changes distances and no zerg. *)
LEMMA SuurballeDomain ==
  ASSUME NEW network, NEW s, NEW t PROVE DOMAIN Suurballe(network, s, t).adj = DOMAIN network
<1>1. \A a, path, ks : DOMAIN Avoiding(a, path, ks) = DOMAIN a
  BY DEF Avoiding, Reweighed
<1>2. \A a, path, ks : DOMAIN PutBack(a, path, ks) = DOMAIN a
  BY DEF PutBack, Reweighed
<1>3. \A found, left : Answer(found, left).adj = left
  BY DEF Answer
<1>4. \A a, P1, P2, P3 : DOMAIN FourthSearch(a, P1, P2, P3, s, t).adj = DOMAIN a
  <2> TAKE a, P1, P2, P3
  <2> DEFINE avoided == Avoiding(a, P3, AllHops(P3))
             back == AllPutBack(avoided, P1, P2, P3)
  <2>1. DOMAIN avoided = DOMAIN a
    BY <1>1
  <2>2. DOMAIN back = DOMAIN avoided
    <3> HIDE DEF avoided
    <3> QED BY <1>2 DEF AllPutBack
  <2>3. FourthSearch(a, P1, P2, P3, s, t).adj \in {avoided, back}
    <3> HIDE DEF avoided, back
    <3>1. \/ FourthSearch(a, P1, P2, P3, s, t) = Answer(FALSE, avoided)
          \/ \E found : FourthSearch(a, P1, P2, P3, s, t) = Answer(found, back)
      BY DEF FourthSearch, avoided, back
    <3> QED BY <1>3, <3>1
  <2> QED BY <2>1, <2>2, <2>3
<1>5. \A a, P1, P2 : DOMAIN ThirdSearch(a, P1, P2, s, t).adj = DOMAIN a
  <2> TAKE a, P1, P2
  <2> DEFINE avoided == AvoidingOverlap(a, P1, P2)
             P3 == PathDijkstra(avoided, s, t)
  <2>1. DOMAIN avoided = DOMAIN a
    BY <1>1 DEF AvoidingOverlap
  <2>2. \/ ThirdSearch(a, P1, P2, s, t) = Answer(FALSE, avoided)
        \/ ThirdSearch(a, P1, P2, s, t) = FourthSearch(avoided, P1, P2, P3, s, t)
    BY DEF ThirdSearch
  <2> HIDE DEF avoided, P3
  <2>3. DOMAIN FourthSearch(avoided, P1, P2, P3, s, t).adj = DOMAIN avoided
    BY <1>4
  <2>4. Answer(FALSE, avoided).adj = avoided
    BY <1>3
  <2> QED BY <2>1, <2>2, <2>3, <2>4
<1>6. \A a, P1 : DOMAIN SecondSearch(a, P1, s, t).adj = DOMAIN a
  <2> TAKE a, P1
  <2> DEFINE avoided == Avoiding(a, P1, AllHops(P1))
             restored == PutBack(avoided, P1, AllHops(P1))
             P2 == PathDijkstra(avoided, s, t)
  <2>1. DOMAIN avoided = DOMAIN a
    BY <1>1
  <2>2. DOMAIN restored = DOMAIN avoided
    <3> HIDE DEF avoided
    <3> QED BY <1>2
  <2>3. \/ SecondSearch(a, P1, s, t) = Answer(FALSE, avoided)
        \/ SecondSearch(a, P1, s, t) = Answer(TRUE, restored)
        \/ SecondSearch(a, P1, s, t) = ThirdSearch(restored, P1, P2, s, t)
    BY DEF SecondSearch
  <2> HIDE DEF avoided, restored, P2
  <2>4. DOMAIN ThirdSearch(restored, P1, P2, s, t).adj = DOMAIN restored
    BY <1>5
  <2>5. Answer(FALSE, avoided).adj = avoided /\ Answer(TRUE, restored).adj = restored
    BY <1>3
  <2> QED BY <2>1, <2>2, <2>3, <2>4, <2>5
<1> DEFINE P1 == PathDijkstra(network, s, t)
<1>7. \/ Suurballe(network, s, t) = Answer(FALSE, network)
      \/ Suurballe(network, s, t) = SecondSearch(network, P1, s, t)
  BY DEF Suurballe
<1> HIDE DEF P1
<1> QED BY <1>3, <1>6, <1>7

(* Removal never changes which zerg there were. *)
LEMMA DomainKept ==
  ASSUME [Next]_vars PROVE DOMAIN adj' = DOMAIN adj
<1>1. CASE AskPair
  <2>1. CASE SameZerg
    BY <1>1, <2>1 DEF AskPair
  <2>2. CASE ~ SameZerg
    <3>1. adj' = Suurballe(adj, nodes[curr], nodes[other]).adj
      BY <1>1, <2>2 DEF AskPair
    <3> QED BY <3>1, SuurballeDomain
  <2> QED BY <2>1, <2>2
<1>2. CASE TakeLeastLinked
  BY <1>2 DEF TakeLeastLinked, AdjWithout
<1>3. CASE UNCHANGED adj
  BY <1>3
<1> QED BY <1>1, <1>2, <1>3 DEF Next, EnqueueCount, FirstCountDone, RecountDone, Report, Returned, vars
-----------------------------------------------------------------------------
ListInv ==
  /\ nodes \in Seq(DOMAIN adj) /\ Injective(nodes)
  /\ curr \in 1 .. Len(nodes) + 1 /\ count \in Nat /\ n \in Nat
  /\ pc \in {"count", "recount", "turn", "done"}

(* Who is gone is in the set, and has been counted. *)
GoneInv ==
  /\ remove = (DOMAIN adj) \ Survivors
  /\ IsFiniteSet(remove) /\ total = Cardinality(remove)
  /\ Len(nodes) + total = zerg_count

(* The loop goes on while at most half are gone. *)
HalfInv ==
  /\ pc \in {"count", "turn"} => 2 * total <= zerg_count
  /\ said = "remove these" => 2 * total <= zerg_count
  /\ pc # "done" => said = "nothing"

(* The queue holds one item for each survivor that has been counted. *)
QueueInv ==
  /\ IsArray(pq.data, pq.sz) /\ IsHeap(MIN, pq.data, pq.sz)
  /\ \A k \in 0 .. pq.sz - 1 : pq.data[k].obj \in Survivors
  /\ pq.sz = curr - 1
  /\ pc = "turn" => curr = Len(nodes) + 1

RemovalInv == ListInv /\ GoneInv /\ HalfInv /\ QueueInv

LEMMA EmptyQueueFacts ==
  /\ IsArray(EmptyQueue.data, EmptyQueue.sz) /\ IsHeap(MIN, EmptyQueue.data, EmptyQueue.sz)
  /\ EmptyQueue.sz = 0
BY DEF EmptyQueue, IsArray, IsHeap, InOrderBut

LEMMA InitRemovalInv == Init => RemovalInv
<1> SUFFICES ASSUME Init PROVE RemovalInv
  OBVIOUS
<1>1. PICK network \in Networks : nodes = network.nodes /\ adj = network.adj
  BY DEF Init
<1>2. /\ nodes \in Seq(DOMAIN adj) /\ Injective(nodes)
      /\ \A id \in DOMAIN adj : \E k \in 1 .. Len(nodes) : nodes[k] = id
  BY <1>1, RemovalAssumption DEF Injective
<1>3. Len(nodes) \in Nat /\ (DOMAIN adj) \ Survivors = {}
  BY <1>2 DEF Survivors
<1>4. ListInv
  BY <1>2, <1>3 DEF Init, ListInv
<1>5. GoneInv
  BY <1>3, FS_EmptySet DEF Init, GoneInv
<1>6. HalfInv
  BY <1>3 DEF Init, HalfInv
<1>7. QueueInv
  BY EmptyQueueFacts DEF Init, QueueInv
<1> QED BY <1>4, <1>5, <1>6, <1>7 DEF RemovalInv

(* A turn's removal: the survivor at the root of the queue. *)
LEMMA TakeKeepsInv ==
  ASSUME RemovalInv, 0 \notin DOMAIN adj, TakeLeastLinked, DOMAIN adj' = DOMAIN adj
  PROVE  RemovalInv'
<1> DEFINE zerg == NextObj(pq)
<1>0. /\ pc = "turn" /\ pc' = "recount" /\ n < zerg_count /\ n' = n /\ n \in Nat /\ zerg_count' = zerg_count
      /\ pq' = EmptyQueue /\ curr' = 1 /\ count' = 0 /\ said' = said
      /\ Len(nodes) \in Nat
  BY DEF TakeLeastLinked, StartCount, RemovalInv, ListInv
<1>1. QueueInv'
  BY <1>0, EmptyQueueFacts DEF QueueInv
<1>2. CASE ~ TooFewLinks(NextPriority(pq))
  <2>1. nodes' = nodes /\ remove' = remove /\ total' = total
    BY <1>2 DEF TakeLeastLinked
  <2>2. ListInv'
    BY <1>0, <2>1 DEF RemovalInv, ListInv
  <2>3. GoneInv' /\ HalfInv'
    BY <1>0, <2>1 DEF RemovalInv, GoneInv, HalfInv, Survivors
  <2> QED BY <1>1, <2>2, <2>3 DEF RemovalInv
<1>3. CASE TooFewLinks(NextPriority(pq))
  <2>1. total \in Nat /\ IsFiniteSet(remove) /\ total = Cardinality(remove) /\ Len(nodes) + total = zerg_count
    BY FS_CardinalityType DEF RemovalInv, GoneInv
  <2>2. Len(nodes) > 0
    <3>1. 2 * total <= zerg_count
      BY <1>0 DEF RemovalInv, HalfInv
    <3> QED BY <1>0, <2>1, <3>1
  <2>3. zerg \in Survivors
    <3>1. pq.sz = Len(nodes)
      BY <1>0 DEF RemovalInv, QueueInv
    <3>2. 0 \in 0 .. pq.sz - 1
      BY <1>0, <2>2, <3>1
    <3> QED BY <3>2 DEF RemovalInv, QueueInv, NextObj
  <2>4. zerg \in DOMAIN adj /\ zerg # 0
    BY <2>3 DEF RemovalInv, ListInv, Survivors
  <2>5. nodes' = ListWithout(zerg) /\ remove' = remove \cup {zerg} /\ total' = total + 1
    BY <1>3, <2>4 DEF TakeLeastLinked
  <2> HIDE DEF zerg
  <2>6. /\ nodes' \in Seq(DOMAIN adj) /\ Injective(nodes') /\ Len(nodes') = Len(nodes) - 1
        /\ Survivors' = Survivors \ {zerg}
    <3>1. nodes \in Seq(DOMAIN adj) /\ Injective(nodes)
      BY DEF RemovalInv, ListInv
    <3>2. Survivors' = {nodes'[k] : k \in 1 .. Len(nodes')}
      BY DEF Survivors
    <3> QED BY <2>3, <2>4, <2>5, <3>1, <3>2, ListWithoutFacts
  <2>7. remove' = (DOMAIN adj) \ Survivors' /\ zerg \notin remove
    BY <2>3, <2>4, <2>5, <2>6 DEF RemovalInv, GoneInv
  <2>8. IsFiniteSet(remove') /\ Cardinality(remove') = total'
    BY <2>1, <2>5, <2>7, FS_AddElement
  <2>9. ListInv'
    BY <1>0, <2>2, <2>6 DEF ListInv
  <2>10. GoneInv'
    BY <1>0, <2>1, <2>5, <2>6, <2>7, <2>8 DEF GoneInv
  <2>11. HalfInv'
    <3>1. said' = "nothing"
      BY <1>0 DEF RemovalInv, HalfInv
    <3> QED BY <1>0, <3>1 DEF HalfInv
  <2> QED BY <1>1, <2>9, <2>10, <2>11 DEF RemovalInv
<1> QED BY <1>2, <1>3

LEMMA RemovalStep ==
  ASSUME RemovalInv, 0 \notin DOMAIN adj, [Next]_vars, DOMAIN adj' = DOMAIN adj
  PROVE  RemovalInv'
<1>0. Len(nodes) \in Nat
  BY DEF RemovalInv, ListInv
<1>1. CASE AskPair
  <2>1. nodes' = nodes /\ curr' = curr /\ pq' = pq /\ UNCHANGED removing /\ pc' = pc /\ said' = said
    BY <1>1 DEF AskPair
  <2>2. count' \in Nat
    BY <1>1 DEF AskPair, RemovalInv, ListInv
  <2> QED BY <2>1, <2>2 DEF RemovalInv, ListInv, GoneInv, HalfInv, QueueInv, Survivors, removing
<1>2. CASE EnqueueCount
  <2>1. /\ nodes' = nodes /\ curr' = curr + 1 /\ count' = 0 /\ UNCHANGED removing /\ pc' = pc /\ said' = said
        /\ pq' = Enqueued(MIN, pq, count, nodes[curr]) /\ Counting /\ curr <= Len(nodes)
    BY <1>2 DEF EnqueueCount
  <2>2. curr \in 1 .. Len(nodes) /\ count \in Int
    BY <1>0, <2>1 DEF RemovalInv, ListInv
  <2>3. /\ pq'.sz = pq.sz + 1 /\ IsArray(pq'.data, pq'.sz) /\ IsHeap(MIN, pq'.data, pq'.sz)
        /\ \A k \in 0 .. pq'.sz - 1 : \/ pq'.data[k] = [priority |-> count, obj |-> nodes[curr]]
                                      \/ \E j \in 0 .. pq.sz - 1 : pq'.data[k] = pq.data[j]
    BY <2>1, <2>2, EnqueuedFacts DEF RemovalInv, QueueInv
  <2>4. \A k \in 0 .. pq'.sz - 1 : pq'.data[k].obj \in Survivors
    <3>1. nodes[curr] \in Survivors /\ \A j \in 0 .. pq.sz - 1 : pq.data[j].obj \in Survivors
      BY <2>2 DEF RemovalInv, QueueInv, Survivors
    <3> TAKE k \in 0 .. pq'.sz - 1
    <3>2. CASE pq'.data[k] = [priority |-> count, obj |-> nodes[curr]]
      BY <3>1, <3>2
    <3>3. CASE \E j \in 0 .. pq.sz - 1 : pq'.data[k] = pq.data[j]
      BY <3>1, <3>3
    <3> QED BY <2>3, <3>2, <3>3
  <2>5. QueueInv'
    BY <1>0, <2>1, <2>2, <2>3, <2>4 DEF RemovalInv, QueueInv, Survivors, Counting
  <2>6. ListInv'
    BY <1>0, <2>1, <2>2 DEF RemovalInv, ListInv, removing
  <2> QED BY <2>1, <2>5, <2>6 DEF RemovalInv, GoneInv, HalfInv, Survivors, removing
<1>3. CASE FirstCountDone
  <2>1. /\ nodes' = nodes /\ UNCHANGED <<curr, count, pq>> /\ UNCHANGED removing /\ said' = said
        /\ curr > Len(nodes) /\ pc = "count" /\ pc' = "turn"
    BY <1>3 DEF FirstCountDone, Counted, counting
  <2>2. QueueInv'
    BY <1>0, <2>1 DEF RemovalInv, ListInv, QueueInv, Survivors
  <2>3. ListInv'
    BY <2>1 DEF RemovalInv, ListInv, removing
  <2> QED BY <2>1, <2>2, <2>3 DEF RemovalInv, GoneInv, HalfInv, Survivors, removing
<1>4. CASE TakeLeastLinked
  BY <1>4, TakeKeepsInv
<1>5. CASE RecountDone
  <2>1. /\ nodes' = nodes /\ curr' = curr /\ count' = count /\ pq' = pq
        /\ remove' = remove /\ total' = total /\ zerg_count' = zerg_count
        /\ curr > Len(nodes) /\ pc = "recount"
    BY <1>5 DEF RecountDone, Counted, counting
  <2>2. total \in Nat /\ zerg_count \in Nat
    BY <1>0, FS_CardinalityType DEF RemovalInv, GoneInv
  <2>3. \/ pc' = "done" /\ said' = "exceeds half" /\ n' = n
        \/ pc' = "turn" /\ said' = said /\ n' = n + 1 /\ 2 * total <= zerg_count
    <3>1. CASE MoreThanHalf
      BY <1>5, <3>1 DEF RecountDone
    <3>2. CASE ~ MoreThanHalf
      <4>1. 2 * total <= zerg_count
        BY <2>2, <3>2 DEF MoreThanHalf
      <4> QED BY <1>5, <3>2, <4>1 DEF RecountDone
    <3> QED BY <3>1, <3>2
  <2>4. HalfInv'
    BY <2>1, <2>3 DEF RemovalInv, HalfInv
  <2>5. ListInv'
    <3>1. n \in Nat /\ n + 1 \in Nat
      BY DEF RemovalInv, ListInv
    <3>2. n' = n \/ n' = n + 1
      BY <2>3, Zenon
    <3>3. n' \in Nat
      BY <3>1, <3>2
    <3> QED BY <2>1, <2>3, <3>3 DEF RemovalInv, ListInv
  <2>6. QueueInv'
    BY <1>0, <2>1 DEF RemovalInv, ListInv, QueueInv, Survivors
  <2> QED BY <2>1, <2>4, <2>5, <2>6 DEF RemovalInv, GoneInv, Survivors
<1>6. CASE Report
  BY <1>6 DEF Report, RemovalInv, ListInv, GoneInv, HalfInv, QueueInv, Survivors, counting, removing
<1>7. CASE UNCHANGED vars
  BY <1>7 DEF vars, RemovalInv, ListInv, GoneInv, HalfInv, QueueInv, Survivors, counting, removing
<1> QED BY <1>1, <1>2, <1>3, <1>4, <1>5, <1>6, <1>7 DEF Next, Returned

(* The list that is printed is who is gone, each counted once, and at most *)
(* half of all zerg, on every network without id 0 (graph.c:592-628).      *)
THEOREM ListsAreRight == Spec => [](0 \notin DOMAIN adj => ListIsWhatIsGone)
<1> DEFINE Inv == 0 \notin DOMAIN adj => RemovalInv
<1>1. Init => Inv
  BY InitRemovalInv
<1>2. Inv /\ [Next]_vars => Inv'
  BY DomainKept, RemovalStep
<1>3. Inv => (0 \notin DOMAIN adj => ListIsWhatIsGone)
  BY DEF RemovalInv, GoneInv, HalfInv, ListIsWhatIsGone
<1> QED BY <1>1, <1>2, <1>3, PTL DEF Spec
=============================================================================
