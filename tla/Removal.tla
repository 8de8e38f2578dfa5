------------------------------- MODULE Removal -------------------------------
(***************************************************************************)
(* check_connectivity and recommend_removal of graph.c, as the driver      *)
(* calls them at the end of a run: count the links of every zerg, then     *)
(* remove zerg one by one until the rest is fully linked or more than half *)
(* are gone.                                                               *)
(***************************************************************************)
EXTENDS Pathfinding, Mesh

CONSTANT Networks   \* the networks a run may end with: [nodes, adj]

(* What GraphProofs shows of g->nodes: each id is on it, and once.         *)
ASSUME RemovalAssumption ==
  \A network \in Networks :
    /\ network.nodes \in Seq(DOMAIN network.adj)
    /\ \A id \in DOMAIN network.adj : \E k \in 1 .. Len(network.nodes) : network.nodes[k] = id
    /\ \A i, j \in 1 .. Len(network.nodes) : network.nodes[i] = network.nodes[j] => i = j

VARIABLES nodes,       \* ids on g->nodes, head first
          adj,         \* the edges of each, in list order
          pq,          \* the queue of ids by number of links
          zerg_count,  \* what the driver passes: zerg_count(g)
          n,           \* turns of the loop so far
          total,       \* total_recommended
          remove,      \* the set that will be printed
          curr, other, \* check_connectivity: the two positions on g->nodes
          count,       \* links of the zerg at curr found so far
          pc, said     \* where the call is, and what it printed

counting == <<curr, other, count>>
removing == <<zerg_count, n, total, remove>>
vars == <<nodes, adj, pq, counting, removing, pc, said>>

Survivors == {nodes[k] : k \in 1 .. Len(nodes)}

(* graph_remove_vertex: nothing happens for id 0. *)
ListWithout(id) == IF id = 0 THEN nodes ELSE RemoveFirst(nodes, id)
AdjWithout(id) ==
  IF id = 0 THEN adj
  ELSE [s \in DOMAIN adj |-> IF s = id THEN <<>> ELSE SelectSeq(adj[s], LAMBDA e : e.to # id)]
-----------------------------------------------------------------------------
StartCount == pq' = EmptyQueue /\ curr' = 1 /\ other' = 1 /\ count' = 0

Init ==
  /\ \E network \in Networks : nodes = network.nodes /\ adj = network.adj
  /\ pq = EmptyQueue /\ curr = 1 /\ other = 1 /\ count = 0
  /\ zerg_count = Len(nodes)
  /\ n = 0 /\ total = 0 /\ remove = {}
  /\ pc = "count" /\ said = "nothing"

Counting == pc \in {"count", "recount"}

SameZerg == nodes[curr] = nodes[other]

(* One pair: every call works on the distances the call before left.       *)
AskPair ==
  /\ Counting
  /\ curr <= Len(nodes) /\ other <= Len(nodes)
  /\ IF SameZerg THEN UNCHANGED <<adj, count>>
     ELSE \E outcome \in {Suurballe(adj, nodes[curr], nodes[other])} :
          /\ adj' = outcome.adj
          /\ count' = count + (IF outcome.found THEN 1 ELSE 0)
  /\ other' = other + 1
  /\ UNCHANGED <<nodes, pq, curr, removing, pc, said>>

EnqueueCount ==
  /\ Counting
  /\ curr <= Len(nodes) /\ other > Len(nodes)
  /\ pq' = Enqueued(MIN, pq, count, nodes[curr])
  /\ curr' = curr + 1 /\ other' = 1 /\ count' = 0
  /\ UNCHANGED <<nodes, adj, removing, pc, said>>

Counted == curr > Len(nodes)

(* The count the driver makes before it calls recommend_removal. *)
FirstCountDone ==
  /\ pc = "count" /\ Counted
  /\ pc' = "turn"
  /\ UNCHANGED <<nodes, adj, pq, counting, removing, said>>

(* Not the code: the threshold one too low; the threshold never lowered. *)
TooFewByTwo(links)   == links < zerg_count - 2 - total /\ zerg_count > 1
TooFewForAll(links)  == links < zerg_count - 1 /\ zerg_count > 1

(* The zerg with the fewest links goes if it is not linked to all others. *)
TooFewLinks(links) == links < zerg_count - 1 - total /\ zerg_count > 1

TakeLeastLinked ==
  /\ pc = "turn"
  /\ n < zerg_count
  /\ LET zerg == NextObj(pq) IN
       IF TooFewLinks(NextPriority(pq))
       THEN /\ remove' = remove \cup ({zerg} \ {0})   \* a set cannot hold 0
            /\ nodes' = ListWithout(zerg)
            /\ adj' = AdjWithout(zerg)
            /\ total' = total + 1
       ELSE UNCHANGED <<remove, nodes, adj, total>>
  /\ StartCount
  /\ pc' = "recount"
  /\ UNCHANGED <<zerg_count, n, said>>

(* Not the code: all may go; the turn is not counted. *)
MoreThanAll == total > zerg_count
RecountSameTurn ==
  /\ pc = "recount" /\ Counted
  /\ pc' = "turn"
  /\ UNCHANGED <<nodes, adj, pq, counting, removing, said>>

MoreThanHalf == total > zerg_count \div 2

RecountDone ==
  /\ pc = "recount" /\ Counted
  /\ IF MoreThanHalf
     THEN pc' = "done" /\ said' = "exceeds half" /\ UNCHANGED n
     ELSE pc' = "turn" /\ n' = n + 1 /\ UNCHANGED said
  /\ UNCHANGED <<nodes, adj, pq, counting, zerg_count, total, remove>>

Report ==
  /\ pc = "turn"
  /\ n >= zerg_count
  /\ said' = IF total = 0 THEN "fully connected" ELSE "remove these"
  /\ pc' = "done"
  /\ UNCHANGED <<nodes, adj, pq, counting, removing>>

(* The driver goes on to print; nothing here changes any more. *)
Returned == pc = "done" /\ UNCHANGED vars

Next ==
  \/ AskPair \/ EnqueueCount \/ FirstCountDone
  \/ TakeLeastLinked \/ RecountDone \/ Report
  \/ Returned

(* One thread runs: until the call is done it keeps taking steps.  With a  *)
(* step enabled in every other state (no deadlock) this is WF_vars(Next);  *)
(* TLC need not evaluate ENABLED of a whole search.                        *)
Progress == []<>(pc = "done") \/ []<><<TRUE>>_vars

Spec == Init /\ [][Next]_vars /\ Progress
-----------------------------------------------------------------------------
(* "recommend a list of Zerg to kill in order to form a fully-connected    *)
(* network of the survivors" (doc/zergmap_man_page.1:7): whenever a list   *)
(* or "fully connected" is printed, every pair of zerg not on the list is  *)
(* adjacent or has two disjoint routes through the survivors               *)
(* (graph.c:592-628).                                                      *)
SurvivorsFullyLinked ==
  said \in {"fully connected", "remove these"} =>
    FullyLinked(Edges(adj), (DOMAIN adj) \ remove)

(* The printed list is the zerg that are gone, each counted once, and it   *)
(* names at most half of them (graph.c:609-614).                           *)
ListIsWhatIsGone ==
  said = "remove these" =>
    /\ remove = (DOMAIN adj) \ Survivors
    /\ total = Cardinality(remove)
    /\ 2 * Cardinality(remove) <= zerg_count

(* No zerg that is linked to every other survivor is ever taken out        *)
(* (graph.c:598-603).                                                      *)
NeverTakesLinked ==
  [][\A zerg \in Survivors \ Survivors' :
       \E rest \in Survivors \ {zerg} : ~ LinkedPair(Edges(adj), Survivors, zerg, rest)]_vars

(* The loop reports in the end. *)
Reports == <>(said # "nothing")
=============================================================================
