----------------------------- MODULE RouteCalls -----------------------------
(***************************************************************************)
(* The calls of suurballe on one network, with the heap of HeapOps in      *)
(* place of the bag: which of the best entries comes next, and which       *)
(* distance of a zerg counts, follow from the array.                       *)
(***************************************************************************)
EXTENDS Disjoint, Pathfinding

(* What else GraphProofs shows of the lists: no zerg has two edges to      *)
(* another, and 0 has none.                                                *)
ASSUME LinkAssumption ==
  \A network \in Networks :
    /\ IsFiniteSet(DOMAIN network)
    /\ 0 \in DOMAIN network => network[0] = <<>>
    /\ \A s \in DOMAIN network : \A i, j \in 1 .. Len(network[s]) :
         network[s][i].to = network[s][j].to => i = j

VARIABLE heap   \* the queue of the search under way

vars == <<searchvars, callvars, heap>>

Init == DisjointInit /\ heap = EmptyQueue
-----------------------------------------------------------------------------
StartWithHeap ==
  /\ StartSearch
  /\ heap' = Enqueued(MIN, EmptyQueue, 0, call.start)

TakeRoot ==
  /\ heap.sz > 0
  /\ TakeNext(Entry(NextPriority(heap), NextObj(heap)))
  /\ heap' = Dequeued(MIN, heap)
  /\ UNCHANGED callvars

(* The distance that decides is that of the neighbour's first entry in the *)
(* array; NaN, that of no entry, is not known.                             *)
Known == KnownPriority(heap, Neighbour)

EdgeImproves ==
  /\ VisitImproves
  /\ \A distance \in Known : distance > Through
  /\ heap' = Enqueued(MIN, heap, Through, Neighbour)
  /\ UNCHANGED callvars

EdgeSkipped ==
  /\ VisitSkips
  /\ Neighbour \notin Expanded \cup {curr_node} => \E distance \in Known : distance <= Through
  /\ UNCHANGED <<heap, callvars>>

HeapEmpty == heap.sz = 0 /\ Exhausted /\ UNCHANGED <<heap, callvars>>

RestOfSearch ==
  /\ TurnDone \/ WalkBack \/ ReachStart \/ FallOff
  /\ UNCHANGED <<heap, callvars>>

Steps ==
  \/ StartWithHeap
  \/ TakeRoot \/ EdgeImproves \/ EdgeSkipped \/ HeapEmpty \/ RestOfSearch
  \/ TakePath /\ heap' = EmptyQueue
  \/ (AfterFirst \/ AfterSecond \/ AfterThird \/ AfterFourth) /\ UNCHANGED heap

Next ==
  \/ (\E s, t \in Zergs : s # t /\ Ask(s, t)) /\ UNCHANGED heap
  \/ Steps
  \/ UseAnswer /\ UNCHANGED heap

(* A call runs to its return: nothing preempts the single thread. *)
Spec == Init /\ [][Next]_vars /\ WF_vars(Steps)
-----------------------------------------------------------------------------
(* Every call returns: its searches end although expanded zerg are         *)
(* expanded again from stale entries, and so does each walk back over the  *)
(* map (pathfinding.c:69-107).                                             *)
CallsReturn == []<>(call.at \in {"none", "answer"})

(* The steps of a search end at the path, and those of a call at the       *)
(* answer and the distances, that Pathfinding's operators foresee: they    *)
(* are the calls that Removal makes.                                       *)
EndsAsForeseen ==
  /\ pc = "found" => path = PathDijkstra(adj, start, end)
  /\ call.at = "answer" => Answer(call.found, adj) = Suurballe(call.before, call.start, call.end)

Length(steps) == FoldLeft(LAMBDA sum, step : sum + step.distance, 0, steps)

(* P1 is a shortest path: suurballe builds on "shortest path"              *)
(* (pathfinding.c:150).  So it is on every small network; SevenNetwork in  *)
(* MCRouteCalls has a call in which a stale entry makes P1 longer.         *)
PathIsShortest ==
  pc = "found" /\ path # <<>> /\ call.routes = <<>> => Length(path) = ShortestLength(adj, start, end)

(* The answer false is right: a pair that is adjacent or has two disjoint  *)
(* routes is not denied (pathfinding.c:319-320).                           *)
CompleteAnswer ==
  call.at = "answer" /\ ~ call.found => ~ LinkedPair(Edges(built), Zergs, call.start, call.end)

(* What suurballe fails to put back is harmless to later answers: it is    *)
(* the distance of a bridge, which every route must use whatever it costs, *)
(* and only a call that answers false leaves one behind                    *)
(* (pathfinding.c:176-183, 280-318).                                       *)
OnlyBridgesSpoiled ==
  call.at \in {"none", "answer"} =>
    \A s \in Zergs : \A i \in 1 .. Len(adj[s]) :
      adj[s][i] # built[s][i] =>
        /\ adj[s][i].distance = Expensive
        /\ IsBridge(Edges(built), Zergs, s, adj[s][i].to)

TrueLeavesNoTrace == call.at = "answer" /\ call.found => adj = call.before
=============================================================================
