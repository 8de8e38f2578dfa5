----------------------------- MODULE Pathfinding -----------------------------
(***************************************************************************)
(* pathfinding.c as operators on an adjacency: for each zerg id the list   *)
(* of its edges, in list order.  The order decides between routes of equal *)
(* length, as the order of equal items in the queue does.                  *)
(* path_dijkstra uses hash set and map only through membership and lookup; *)
(* they hold any id but 0.  Allocations succeed.                           *)
(***************************************************************************)
EXTENDS Paths, HeapOps, FiniteSets, SequencesExt

(* Not the code: any queued zerg is taken for improved. *)
ImprovesAlways(search, edge, dist) == edge.to \notin search.processed /\ edge.to # search.curr_node

(* The test of visit_node: a zerg not queued has no priority to beat. *)
Improves(search, edge, dist) ==
  /\ edge.to \notin search.processed
  /\ \A k \in KnownPriority(search.to_process, edge.to) : k > dist
  /\ edge.to # search.curr_node

WithStep(previous, id, step) ==
  [k \in DOMAIN previous \cup {id} |-> IF k = id THEN step ELSE previous[k]]

(* visit_node, for one edge out of curr_node at curr_distance. *)
EdgeVisited(search, edge) ==
  LET dist == search.curr_distance + edge.distance
  IN  IF Improves(search, edge, dist)
      THEN [search EXCEPT
              !.previous = WithStep(@, edge.to, [data |-> search.curr_node, distance |-> edge.distance]),
              !.to_process = Enqueued(MIN, @, dist, edge.to)]
      ELSE search

(* The search after each edge of the item that is taken next. *)
VisitStates(adj, search) ==
  LET next == NextObj(search.to_process)
      after[visits \in 0 .. Len(adj[next])] ==
        IF visits = 0
        THEN [search EXCEPT !.curr_distance = NextPriority(search.to_process),
                            !.curr_node = next,
                            !.to_process = Dequeued(MIN, @)]
        ELSE EdgeVisited(after[visits - 1], adj[next][visits])
  IN  after

(* One turn of the main loop: expand the next item, then mark it. *)
TurnMade(adj, search) ==
  LET next == NextObj(search.to_process)
  IN  [VisitStates(adj, search)[Len(adj[next])] EXCEPT !.processed = @ \cup {next}]

(* The search after each turn of the main loop.  A zerg has an entry at    *)
(* most for every turn made before its own first, so that there are fewer  *)
(* than 2 ^ n turns with n zerg.                                           *)
TurnStates(adj, search, end) ==
  LET after[turns \in 0 .. 2 ^ Cardinality(DOMAIN adj)] ==
        IF turns = 0 THEN search
        ELSE LET now == after[turns - 1]
             IN  IF now.to_process.sz = 0 \/ end \in now.processed THEN now ELSE TurnMade(adj, now)
  IN  after

Searched(adj, search, end) == TurnStates(adj, search, end)[2 ^ Cardinality(DOMAIN adj)]

(* The walk back over previous, which ends at start; each step ends up     *)
(* with its own id and the distance of the edge into it.                   *)
WalkedBack(previous, end) ==
  LET path[at \in ZergId] ==
        IF at \notin DOMAIN previous THEN <<>>
        ELSE IF previous[at] = NoStep THEN <<[data |-> at, distance |-> 0]>>
        ELSE Append(path[previous[at].data], [data |-> at, distance |-> previous[at].distance])
  IN  path[end]

Begun(start) ==
  [to_process |-> Enqueued(MIN, EmptyQueue, 0, start),
   processed  |-> {},
   previous   |-> [id \in {start} \ {0} |-> NoStep],
   curr_distance |-> 0,
   curr_node  |-> 0]

(* path_dijkstra: the empty sequence is its NULL. *)
PathDijkstra(adj, start, end) == WalkedBack(Searched(adj, Begun(start), end).previous, end)
-----------------------------------------------------------------------------
(* suurballe: its answer and the distances it leaves in the graph, one     *)
(* operator for each search that the call may get to.                      *)
Answer(found, left) == [found |-> found, adj |-> left]

(* P3 is made expensive and P4 found; only then are distances put back.    *)
FourthSearch(adj, P1, P2, P3, start, end) ==
  LET avoided == Avoiding(adj, P3, AllHops(P3))
      P4 == PathDijkstra(avoided, start, end)
  IN  IF P4 = <<>> THEN Answer(FALSE, avoided)
      ELSE Answer(Apart(P3, P4), AllPutBack(avoided, P1, P2, P3))

(* Where P1 and P2 overlap, both are made expensive and P3 is found. *)
ThirdSearch(adj, P1, P2, start, end) ==
  LET avoided == AvoidingOverlap(adj, P1, P2)
      P3 == PathDijkstra(avoided, start, end)
  IN  IF P3 = <<>> THEN Answer(FALSE, avoided) ELSE FourthSearch(avoided, P1, P2, P3, start, end)

(* P1 is made expensive while P2 is found. *)
SecondSearch(adj, P1, start, end) ==
  LET avoided  == Avoiding(adj, P1, AllHops(P1))
      restored == PutBack(avoided, P1, AllHops(P1))
      P2 == PathDijkstra(avoided, start, end)
  IN  IF P2 = <<>> THEN Answer(FALSE, avoided)
      ELSE IF Apart(P1, P2) THEN Answer(TRUE, restored)
      ELSE ThirdSearch(restored, P1, P2, start, end)

Suurballe(adj, start, end) ==
  LET P1 == PathDijkstra(adj, start, end)
  IN  IF P1 = <<>> THEN Answer(FALSE, adj) ELSE SecondSearch(adj, P1, start, end)
=============================================================================
