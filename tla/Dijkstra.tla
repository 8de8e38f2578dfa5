------------------------------- MODULE Dijkstra -------------------------------
(***************************************************************************)
(* path_dijkstra of pathfinding.c, one item taken from the queue, one edge *)
(* visited and one step walked back at a time.  The queue is the bag that  *)
(* priority-queue.c implements (PriorityBag): any best item may come next, *)
(* and pqueue_get_priority may answer with any of several entries of a     *)
(* zerg.  Between calls others may change the distances of edges.          *)
(* Allocations succeed.                                                    *)
(***************************************************************************)
EXTENDS Paths, Mesh, BagsExt

CONSTANT Networks   \* the adjacencies calls may start from

(* What GraphProofs shows of the lists graph.c builds: ends are vertices,  *)
(* and not 0.                                                              *)
ASSUME NetworkAssumption ==
  \A network \in Networks :
    /\ DOMAIN network \subseteq ZergId
    /\ \A s \in DOMAIN network : network[s] \in Seq([to : DOMAIN network \ {0}, distance : Nat])

VARIABLES adj,           \* the edges of each zerg, in list order
          start, end,    \* the arguments of the call
          to_process,    \* the queue: a bag of ids with their distances
          processed,     \* the set of expanded ids, in the order they came
          previous,      \* the map from an id to the step before it
          curr_distance, \* the distance of the item being expanded
          curr_node,     \* its id
          edge,          \* the position in its list of edges
          path,          \* the steps walked back so far
          pc             \* the loop the call is in

arguments  == <<start, end>>
expanding  == <<curr_distance, curr_node, edge>>
searchvars == <<adj, arguments, to_process, processed, previous, expanding, path, pc>>

Entry(distance, id) == [distance |-> distance, obj |-> id]

Expanded == {processed[k] : k \in 1 .. Len(processed)}

Queued == {entry.obj : entry \in DOMAIN to_process}

(* graph_neighbors: nothing for 0 and for an id that is not in the graph. *)
EdgesOf(id) == IF id \in DOMAIN adj \ {0} THEN adj[id] ELSE <<>>

NoEntries == [entry \in {} |-> 0]
EmptyMap == [id \in {} |-> NoStep]

SearchInit ==
  /\ adj \in Networks
  /\ start = 0 /\ end = 0
  /\ to_process = NoEntries /\ processed = <<>> /\ previous = EmptyMap
  /\ curr_distance = 0 /\ curr_node = 0 /\ edge = 1
  /\ path = <<>>
  /\ pc = "idle"
-----------------------------------------------------------------------------
(* Id 0 is no key of the map. *)
FindPath(s, t) ==
  /\ pc = "idle"
  /\ start' = s /\ end' = t
  /\ to_process' = BagAdd(to_process, Entry(0, s))
  /\ previous' = [id \in {s} \ {0} |-> NoStep]
  /\ pc' = "loop"
  /\ UNCHANGED <<adj, processed, expanding, path>>

Best(entry) ==
  entry \in DOMAIN to_process /\ \A other \in DOMAIN to_process : entry.distance <= other.distance

TakeNext(entry) ==
  /\ pc = "loop"
  /\ Best(entry)
  /\ to_process' = BagRemove(to_process, entry)
  /\ curr_distance' = entry.distance /\ curr_node' = entry.obj /\ edge' = 1
  /\ pc' = "visit"
  /\ UNCHANGED <<adj, arguments, processed, previous, path>>

Visiting == pc = "visit" /\ edge \in 1 .. Len(EdgesOf(curr_node))

Neighbour == EdgesOf(curr_node)[edge].to
Through   == curr_distance + EdgesOf(curr_node)[edge].distance

(* visit_node: the way through curr_node is taken if the neighbour has no  *)
(* known distance, or a longer one.                                        *)
IsShorter ==
  /\ Neighbour \notin Expanded /\ Neighbour # curr_node
  /\ \/ Neighbour \notin Queued
     \/ \E entry \in DOMAIN to_process : entry.obj = Neighbour /\ entry.distance > Through

VisitImproves ==
  /\ Visiting
  /\ IsShorter
  /\ previous' = [id \in DOMAIN previous \cup {Neighbour} |->
                    IF id = Neighbour
                    THEN [data |-> curr_node, distance |-> EdgesOf(curr_node)[edge].distance]
                    ELSE previous[id]]
  /\ to_process' = BagAdd(to_process, Entry(Through, Neighbour))
  /\ edge' = edge + 1
  /\ UNCHANGED <<adj, arguments, processed, curr_distance, curr_node, path, pc>>

VisitSkips ==
  /\ Visiting
  /\ \/ Neighbour \in Expanded \/ Neighbour = curr_node
     \/ \E entry \in DOMAIN to_process : entry.obj = Neighbour /\ entry.distance <= Through
  /\ edge' = edge + 1
  /\ UNCHANGED <<adj, arguments, to_process, processed, previous, curr_distance, curr_node, path, pc>>

(* Not the code: the search ends once the end is queued. *)
TurnDoneEarly ==
  /\ pc = "visit"
  /\ edge > Len(EdgesOf(curr_node))
  /\ processed' = IF curr_node \in Expanded \cup {0} THEN processed ELSE Append(processed, curr_node)
  /\ pc' = IF end \in Queued \cup {curr_node} THEN "walk" ELSE "loop"
  /\ UNCHANGED <<adj, arguments, to_process, previous, expanding, path>>

(* An item may be of a zerg that was expanded before; a set takes no 0. *)
TurnDone ==
  /\ pc = "visit"
  /\ edge > Len(EdgesOf(curr_node))
  /\ processed' = IF curr_node \in Expanded \cup {0} THEN processed ELSE Append(processed, curr_node)
  /\ pc' = IF curr_node = end THEN "walk" ELSE "loop"
  /\ UNCHANGED <<adj, arguments, to_process, previous, expanding, path>>

(* Not the code: the loop only ends at the end. *)
ExhaustedAtEnd == pc = "loop" /\ curr_node = end /\ pc' = "walk" /\ UNCHANGED <<adj, arguments, to_process, processed, previous, expanding, path>>

Exhausted ==
  /\ pc = "loop"
  /\ DOMAIN to_process = {}
  /\ curr_node' = end
  /\ pc' = "walk"
  /\ UNCHANGED <<adj, arguments, to_process, processed, previous, curr_distance, edge, path>>
-----------------------------------------------------------------------------
(* Not the code: curr_node moves on before the step gets its id. *)
WalkBackShifted ==
  /\ pc = "walk"
  /\ curr_node \in DOMAIN previous
  /\ previous[curr_node] # NoStep
  /\ path' = <<previous[curr_node]>> \o path
  /\ curr_node' = previous[curr_node].data
  /\ UNCHANGED <<adj, arguments, to_process, processed, previous, curr_distance, edge, pc>>

(* The walk over the map, from the end: each step gets its own id and the  *)
(* distance of the edge into it.                                           *)
WalkBack ==
  /\ pc = "walk"
  /\ curr_node \in DOMAIN previous
  /\ previous[curr_node] # NoStep
  /\ path' = <<[data |-> curr_node, distance |-> previous[curr_node].distance]>> \o path
  /\ curr_node' = previous[curr_node].data
  /\ UNCHANGED <<adj, arguments, to_process, processed, previous, curr_distance, edge, pc>>

ReachStart ==
  /\ pc = "walk"
  /\ curr_node \in DOMAIN previous
  /\ previous[curr_node] = NoStep
  /\ path' = <<[data |-> curr_node, distance |-> 0]>> \o path
  /\ pc' = "found"
  /\ UNCHANGED <<adj, arguments, to_process, processed, previous, expanding>>

(* What was walked so far is returned: nothing, if the end was not found.  *)
FallOff ==
  /\ pc = "walk"
  /\ curr_node \notin DOMAIN previous
  /\ pc' = "found"
  /\ UNCHANGED <<adj, arguments, to_process, processed, previous, expanding, path>>

(* The caller has used the path. *)
Return ==
  /\ pc = "found"
  /\ start' = 0 /\ end' = 0
  /\ to_process' = NoEntries /\ processed' = <<>> /\ previous' = EmptyMap
  /\ curr_distance' = 0 /\ curr_node' = 0 /\ edge' = 1
  /\ path' = <<>>
  /\ pc' = "idle"
  /\ UNCHANGED adj

(* change_edge_distance, any number of times: edges stay, with any distance. *)
Reweigh ==
  /\ pc = "idle"
  /\ DOMAIN adj' = DOMAIN adj
  /\ \A s \in DOMAIN adj :
       /\ adj'[s] \in Seq([to : DOMAIN adj \ {0}, distance : Nat])
       /\ Len(adj'[s]) = Len(adj[s])
       /\ \A i \in 1 .. Len(adj[s]) : adj'[s][i].to = adj[s][i].to
  /\ UNCHANGED <<arguments, to_process, processed, previous, expanding, path, pc>>

Search ==
  \/ \E entry \in DOMAIN to_process : TakeNext(entry)
  \/ VisitImproves \/ VisitSkips \/ TurnDone \/ Exhausted
  \/ WalkBack \/ ReachStart \/ FallOff

SearchNext == Search \/ Return \/ Reweigh \/ \E s, t \in ZergId : FindPath(s, t)

SearchSpec == SearchInit /\ [][SearchNext]_searchvars
-----------------------------------------------------------------------------
(* The path handed back is a route of the network from start to end that   *)
(* visits no zerg twice, with the distance of the hop into each step; it   *)
(* is NULL only if there is no route.  Stale queue entries are expanded    *)
(* again and overwrite the map of predecessors, so neither the absence of  *)
(* cycles nor the end of the walk back is obvious (pathfinding.c:23-116).  *)
PathIsRoute ==
  pc = "found" =>
    IF path = <<>>
    THEN {start, end} \subseteq DOMAIN adj \ {0} => ~ Reaches(Edges(adj), start, end, DOMAIN adj \ {start, end})
    ELSE /\ path[1] = [data |-> start, distance |-> 0]
         /\ path[Len(path)].data = end
         /\ \A i, j \in 1 .. Len(path) : path[i].data = path[j].data => i = j
         /\ \A k \in AllHops(path) :
              \E i \in 1 .. Len(EdgesOf(path[k].data)) :
                EdgesOf(path[k].data)[i] = [to |-> path[k + 1].data, distance |-> path[k + 1].distance]
=============================================================================
