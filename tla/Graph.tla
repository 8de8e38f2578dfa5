-------------------------------- MODULE Graph --------------------------------
(***************************************************************************)
(* graph.c: a list of heap-allocated nodes, each with a list of edges that *)
(* point at nodes.  The model keeps the addresses, so that an edge to a    *)
(* freed node, or two nodes with one id, are states it could reach.        *)
(* A call that is refused (id 0, NaN distance, unknown or known id, failed *)
(* malloc) returns before it writes and is a stuttering step.  The payload *)
(* of a node (coordinates, health, kill mark) does not steer this module.  *)
(***************************************************************************)
EXTENDS Integers, Sequences

CONSTANTS Id,      \* the ids packets carry (uint16_t, 0 among them)
          Addr,    \* the addresses malloc can return for a node
          Dist,    \* the distances callers pass (NaN is refused)
          Free     \* the content of a cell that holds no node

ASSUME GraphAssumption == Id \subseteq Nat /\ Free \notin [id : Id, edges : Seq([to : Addr, distance : Dist])]

VARIABLES nodes,   \* g->nodes: the addresses on the list, head first
          cell     \* what each address holds

vars == <<nodes, cell>>

Edge == [to : Addr, distance : Dist]
Node == [id : Id, edges : Seq(Edge)]

Positions == 1 .. Len(nodes)
OnList    == {nodes[k] : k \in Positions}
IdAt(k)   == cell[nodes[k]].id

(* The search every operation starts with: the first node with the id. *)
FirstWith(id) == {k \in Positions : IdAt(k) = id /\ \A j \in 1 .. k - 1 : IdAt(j) # id}

(* A list without its k-th element. *)
Dropped(s, k) == [i \in 1 .. Len(s) - 1 |-> IF i < k THEN s[i] ELSE s[i + 1]]

(* The first edge of a list that points at an address: none or one index. *)
FirstTo(edges, a) == {k \in 1 .. Len(edges) : edges[k].to = a /\ \A j \in 1 .. k - 1 : edges[j].to # a}

(* The first edge of a list whose target node bears an id. *)
FirstToId(edges, id) ==
  {k \in 1 .. Len(edges) : cell[edges[k].to].id = id /\ \A j \in 1 .. k - 1 : cell[edges[j].to].id # id}

(* Not the code: incoming edges stay. *)
Kept(edges, a) == edges

(* One incoming edge is unlinked from a source, then the scan moves on. *)
Unlinked(edges, a) ==
  IF FirstTo(edges, a) = {} THEN edges
  ELSE Dropped(edges, CHOOSE k \in FirstTo(edges, a) : TRUE)

Create == nodes = <<>> /\ cell = [a \in Addr |-> Free]
-----------------------------------------------------------------------------
(* Not the code: no search for the id first. *)
AddVertexUnchecked(id, a) ==
  /\ cell[a] = Free
  /\ cell' = [cell EXCEPT ![a] = [id |-> id, edges |-> <<>>]]
  /\ nodes' = <<a>> \o nodes

AddVertex(id, a) ==
  /\ \A k \in Positions : IdAt(k) # id
  /\ cell[a] = Free
  /\ cell' = [cell EXCEPT ![a] = [id |-> id, edges |-> <<>>]]
  /\ nodes' = <<a>> \o nodes

RemoveVertex(id) ==
  /\ id # 0
  /\ \E k \in FirstWith(id) :
       /\ cell' = [a \in Addr |->
                     IF a = nodes[k] THEN Free
                     ELSE IF a \in OnList
                     THEN [cell[a] EXCEPT !.edges = Unlinked(@, nodes[k])]
                     ELSE cell[a]]
       /\ nodes' = Dropped(nodes, k)

(* Not the code: only the source is checked; no search for the edge first. *)
SourceValid(src, dst) == src # 0
AddEdgeUnchecked(src, dst, dist) ==
  /\ \E s \in FirstWith(src), d \in FirstWith(dst) :
       cell' = [cell EXCEPT ![nodes[s]].edges = <<[to |-> nodes[d], distance |-> dist]>> \o @]
  /\ UNCHANGED nodes

(* The ids graph_add_edge and graph_remove_edge accept. *)
Valid(src, dst) == src # 0 /\ dst # 0

AddEdge(src, dst, dist) ==
  /\ Valid(src, dst)
  /\ \E s \in FirstWith(src), d \in FirstWith(dst) :
       /\ FirstTo(cell[nodes[s]].edges, nodes[d]) = {}
       /\ cell' = [cell EXCEPT ![nodes[s]].edges = <<[to |-> nodes[d], distance |-> dist]>> \o @]
  /\ UNCHANGED nodes

(* change_edge_distance checks neither id against 0. *)
ChangeEdgeDistance(src, dst, dist) ==
  /\ \E s \in FirstWith(src) : \E e \in FirstToId(cell[nodes[s]].edges, dst) :
       cell' = [cell EXCEPT ![nodes[s]].edges[e].distance = dist]
  /\ UNCHANGED nodes

(* Not the code: the destination ignored. *)
RemoveAllEdges(src, dst) ==
  /\ \E s \in FirstWith(src) : cell' = [cell EXCEPT ![nodes[s]].edges = <<>>]
  /\ UNCHANGED nodes

RemoveEdge(src, dst) ==
  /\ Valid(src, dst)
  /\ \E s \in FirstWith(src) : \E e \in FirstToId(cell[nodes[s]].edges, dst) :
       cell' = [cell EXCEPT ![nodes[s]].edges = Dropped(@, e)]
  /\ UNCHANGED nodes

(* Not the code: the list goes, its nodes stay allocated. *)
DestroyList == nodes' = <<>> /\ UNCHANGED cell

(* graph_destroy walks the list and frees what it meets; a new graph_create *)
(* starts from an empty list.                                              *)
Destroy ==
  /\ cell' = [a \in Addr |-> IF a \in OnList THEN Free ELSE cell[a]]
  /\ nodes' = <<>>

Next ==
  \/ \E id \in Id : RemoveVertex(id) \/ \E a \in Addr : AddVertex(id, a)
  \/ \E src, dst \in Id : RemoveEdge(src, dst) \/ \E dist \in Dist :
       AddEdge(src, dst, dist) \/ ChangeEdgeDistance(src, dst, dist)
  \/ Destroy

Spec == Create /\ [][Next]_vars
-----------------------------------------------------------------------------
TypeOK ==
  /\ nodes \in Seq(Addr)
  /\ cell \in [Addr -> Node \cup {Free}]

(* Every allocated node is on the list, exactly once: removal frees what   *)
(* it unlinks and nothing else (graph.c:265-319, 702-723).                 *)
ListOwnsNodes ==
  /\ \A i, j \in Positions : nodes[i] = nodes[j] => i = j
  /\ OnList = {a \in Addr : cell[a] # Free}

(* No two nodes bear one id, although insertion and removal only ever look *)
(* at the first match (graph.c:94-100, 274-275).                           *)
UniqueIds == \A i, j \in Positions : IdAt(i) = IdAt(j) => i = j

(* A node has at most one edge to another: the removal of a vertex relies  *)
(* on it, it unlinks one incoming edge per source (graph.c:285-298).       *)
NoDuplicateEdge ==
  \A a \in OnList : \A i, j \in 1 .. Len(cell[a].edges) :
    cell[a].edges[i].to = cell[a].edges[j].to => i = j

(* No edge points at freed memory: every later walk reads to->id           *)
(* (graph.c:265-319, 421-427, 451, 477, 531).                              *)
NoDanglingEdge ==
  \A a \in OnList : \A i \in 1 .. Len(cell[a].edges) : cell[a].edges[i].to \in OnList

(* Id 0 cannot be linked: graph_add_edge refuses it, so a zerg that sends  *)
(* with source id 0 stays without an edge (graph.c:325).                   *)
ZeroIsolated ==
  \A a \in OnList :
    /\ cell[a].id = 0 => cell[a].edges = <<>>
    /\ \A i \in 1 .. Len(cell[a].edges) : cell[cell[a].edges[i].to].id # 0

GraphInv == ListOwnsNodes /\ UniqueIds /\ NoDuplicateEdge /\ NoDanglingEdge

(* The graph the ids see: the distance of a pair is the one that           *)
(* graph_edge_distance finds.                                              *)
Ids == {IdAt(k) : k \in Positions}

Linked ==
  UNION {{<<cell[a].id, cell[cell[a].edges[i].to].id>> : i \in 1 .. Len(cell[a].edges)} : a \in OnList}

EdgeDistance(src, dst) ==
  LET s == CHOOSE k \in FirstWith(src) : TRUE
      e == CHOOSE i \in FirstToId(cell[nodes[s]].edges, dst) : TRUE
  IN  cell[nodes[s]].edges[e].distance

Net == INSTANCE ZergNet WITH zergs <- Ids,
                             weight <- [pair \in Linked |-> EdgeDistance(pair[1], pair[2])]

(* The lists and pointers implement a graph over ids. *)
ImplementsNet == Net!Spec
=============================================================================
