----------------------------- MODULE GraphProofs ----------------------------
(***************************************************************************)
(* The shape of the heap graph.c builds, for every set of ids, addresses   *)
(* and distances and graphs of every size.                                 *)
(***************************************************************************)
EXTENDS Graph, TLAPS

(* A list without its k-th element: its length and what is left where. *)
LEMMA DroppedFacts ==
  ASSUME NEW S, NEW s \in Seq(S), NEW k \in 1 .. Len(s)
  PROVE  /\ Dropped(s, k) \in Seq(S)
         /\ Len(Dropped(s, k)) = Len(s) - 1
         /\ \A i \in 1 .. Len(s) - 1 : Dropped(s, k)[i] = IF i < k THEN s[i] ELSE s[i + 1]
BY DEF Dropped

(* A list with a new head. *)
LEMMA PrependFacts ==
  ASSUME NEW S, NEW s \in Seq(S), NEW e \in S
  PROVE  /\ <<e>> \o s \in Seq(S)
         /\ Len(<<e>> \o s) = Len(s) + 1
         /\ (<<e>> \o s)[1] = e
         /\ \A i \in 2 .. Len(s) + 1 : (<<e>> \o s)[i] = s[i - 1]
OBVIOUS

(* What unlinking the first edge to a node leaves of a list without        *)
(* duplicates: no edge to that node, and no edge that was not there.       *)
LEMMA UnlinkedFacts ==
  ASSUME NEW es \in Seq(Edge), NEW a \in Addr,
         \A i, j \in 1 .. Len(es) : es[i].to = es[j].to => i = j
  PROVE  /\ Unlinked(es, a) \in Seq(Edge)
         /\ \A i, j \in 1 .. Len(Unlinked(es, a)) :
              Unlinked(es, a)[i].to = Unlinked(es, a)[j].to => i = j
         /\ \A i \in 1 .. Len(Unlinked(es, a)) :
              /\ Unlinked(es, a)[i].to # a
              /\ \E j \in 1 .. Len(es) : Unlinked(es, a)[i] = es[j]
<1>1. \A k \in 1 .. Len(es) : es[k].to = a => k \in FirstTo(es, a)
  BY DEF FirstTo
<1>2. CASE FirstTo(es, a) = {}
  BY <1>1, <1>2 DEF Unlinked
<1>3. CASE FirstTo(es, a) # {}
  <2>1. PICK k \in 1 .. Len(es) : es[k].to = a /\ Unlinked(es, a) = Dropped(es, k)
    <3> DEFINE c == CHOOSE k \in FirstTo(es, a) : TRUE
    <3>1. c \in FirstTo(es, a)
      BY <1>3
    <3>2. Unlinked(es, a) = Dropped(es, c)
      BY <1>3 DEF Unlinked
    <3> QED BY <3>1, <3>2 DEF FirstTo
  <2>2. /\ Dropped(es, k) \in Seq(Edge)
        /\ Len(Dropped(es, k)) = Len(es) - 1
        /\ \A i \in 1 .. Len(es) - 1 : Dropped(es, k)[i] = IF i < k THEN es[i] ELSE es[i + 1]
    BY DroppedFacts
  <2>3. \A i \in 1 .. Len(es) - 1 :
          \E j \in 1 .. Len(es) : j # k /\ Dropped(es, k)[i] = es[j] /\ j = (IF i < k THEN i ELSE i + 1)
    BY <2>2
  <2>4. \A i \in 1 .. Len(es) - 1 :
          /\ Dropped(es, k)[i].to # a
          /\ \E j \in 1 .. Len(es) : Dropped(es, k)[i] = es[j]
    BY <2>1, <2>3
  <2>5. ASSUME NEW i \in 1 .. Len(es) - 1, NEW j \in 1 .. Len(es) - 1,
               Dropped(es, k)[i].to = Dropped(es, k)[j].to
        PROVE  i = j
    <3>1. PICK m \in 1 .. Len(es) : Dropped(es, k)[i] = es[m] /\ m = (IF i < k THEN i ELSE i + 1)
      BY <2>3
    <3>2. PICK n \in 1 .. Len(es) : Dropped(es, k)[j] = es[n] /\ n = (IF j < k THEN j ELSE j + 1)
      BY <2>3
    <3>3. m = n
      BY <2>5, <3>1, <3>2
    <3> QED BY <3>1, <3>2, <3>3
  <2> QED BY <2>1, <2>2, <2>4, <2>5
<1> QED BY <1>2, <1>3

(* A search finds a live node, and the only one with the id. *)
LEMMA FirstWithFacts ==
  ASSUME TypeOK, ListOwnsNodes, NEW id, NEW k \in FirstWith(id)
  PROVE  /\ k \in Positions /\ nodes[k] \in Addr /\ nodes[k] \in OnList
         /\ cell[nodes[k]] \in Node
         /\ cell[nodes[k]].id = id
<1>1. k \in Positions /\ nodes[k] \in Addr /\ nodes[k] \in OnList /\ cell[nodes[k]].id = id
  BY DEF FirstWith, TypeOK, Positions, OnList, IdAt
<1>2. cell[nodes[k]] # Free
  BY <1>1 DEF ListOwnsNodes
<1> QED BY <1>1, <1>2 DEF TypeOK

LEMMA OnListFacts ==
  ASSUME TypeOK, ListOwnsNodes, NEW a \in OnList
  PROVE  /\ a \in Addr /\ cell[a] \in Node
         /\ cell[a].id \in Id /\ cell[a].edges \in Seq(Edge)
BY DEF OnList, TypeOK, ListOwnsNodes, Positions, Node

Inv == TypeOK /\ GraphInv

LEMMA InvInit == Create => Inv
BY DEF Create, Inv, TypeOK, GraphInv, ListOwnsNodes, UniqueIds, NoDuplicateEdge,
       NoDanglingEdge, OnList, Positions

LEMMA AddVertexKeepsInv ==
  ASSUME Inv, NEW id \in Id, NEW a \in Addr, AddVertex(id, a)
  PROVE  Inv'
<1> USE DEF Inv, GraphInv
<1>1. /\ nodes \in Seq(Addr) /\ cell \in [Addr -> Node \cup {Free}]
      /\ cell[a] = Free
  BY DEF TypeOK, AddVertex
<1>2. /\ nodes' \in Seq(Addr) /\ Len(nodes') = Len(nodes) + 1 /\ nodes'[1] = a
      /\ \A i \in 2 .. Len(nodes) + 1 : nodes'[i] = nodes[i - 1]
  BY <1>1, PrependFacts DEF AddVertex
<1>3. [id |-> id, edges |-> <<>>] \in Node
  BY DEF Node
<1>4. /\ cell' \in [Addr -> Node \cup {Free}]
      /\ cell'[a] = [id |-> id, edges |-> <<>>]
      /\ \A b \in Addr : b # a => cell'[b] = cell[b]
  BY <1>1, <1>3 DEF AddVertex
<1>5. OnList' = OnList \cup {a} /\ a \notin OnList /\ OnList \subseteq Addr
  <2>1. OnList' = {nodes'[k] : k \in 1 .. Len(nodes) + 1}
    BY <1>2 DEF OnList, Positions
  <2>2. OnList = {nodes[k] : k \in 1 .. Len(nodes)}
    BY DEF OnList, Positions
  <2>3. ASSUME NEW b \in OnList' PROVE b \in OnList \cup {a}
    <3>1. PICK k \in 1 .. Len(nodes) + 1 : b = nodes'[k]
      BY <2>1, <2>3
    <3>2. CASE k = 1
      BY <3>1, <3>2, <1>2
    <3>3. CASE k # 1
      <4>1. k - 1 \in 1 .. Len(nodes) /\ b = nodes[k - 1]
        BY <3>1, <3>3, <1>1, <1>2
      <4> QED BY <4>1, <2>2
    <3> QED BY <3>2, <3>3
  <2>4. ASSUME NEW k \in 1 .. Len(nodes) PROVE nodes[k] \in OnList'
    <3>1. k + 1 \in 1 .. Len(nodes) + 1 /\ nodes'[k + 1] = nodes[k]
      BY <1>1, <1>2
    <3> QED BY <3>1, <2>1
  <2>5. a \in OnList'
    BY <1>1, <1>2, <2>1
  <2>6. a \notin OnList
    BY <1>1 DEF ListOwnsNodes
  <2>7. OnList \subseteq Addr
    BY <1>1, <2>2
  <2> QED BY <2>2, <2>3, <2>4, <2>5, <2>6, <2>7
<1>6. TypeOK'
  BY <1>2, <1>4 DEF TypeOK
<1>7. ListOwnsNodes'
  <2>1. \A i \in 2 .. Len(nodes) + 1 : nodes'[i] \in OnList
    BY <1>1, <1>2 DEF OnList, Positions
  <2>2. \A i, j \in Positions' : nodes'[i] = nodes'[j] => i = j
    <3> SUFFICES ASSUME NEW i \in 1 .. Len(nodes) + 1, NEW j \in 1 .. Len(nodes) + 1,
                        nodes'[i] = nodes'[j]
                 PROVE  i = j
      BY <1>2 DEF Positions
    <3>1. CASE i = 1 \/ j = 1
      BY <3>1, <2>1, <1>2, <1>5
    <3>2. CASE i # 1 /\ j # 1
      BY <3>2, <1>1, <1>2 DEF ListOwnsNodes, Positions
    <3> QED BY <3>1, <3>2
  <2>3. OnList' = {b \in Addr : cell'[b] # Free}
    BY <1>3, <1>4, <1>5, GraphAssumption DEF ListOwnsNodes, Node, Edge
  <2> QED BY <2>2, <2>3 DEF ListOwnsNodes
<1>8. UniqueIds'
  <2>1. \A i \in 2 .. Len(nodes) + 1 : /\ i - 1 \in Positions
                                      /\ nodes[i - 1] \in OnList
                                      /\ cell'[nodes'[i]].id = IdAt(i - 1)
    BY <1>1, <1>2, <1>4, <1>5 DEF OnList, Positions, IdAt
  <2>2. cell'[nodes'[1]].id = id
    BY <1>2, <1>4
  <2> SUFFICES ASSUME NEW i \in 1 .. Len(nodes) + 1, NEW j \in 1 .. Len(nodes) + 1,
                      cell'[nodes'[i]].id = cell'[nodes'[j]].id
               PROVE  i = j
    BY <1>2 DEF UniqueIds, IdAt, Positions
  <2>3. CASE i = 1 \/ j = 1
    BY <2>1, <2>2, <2>3 DEF AddVertex
  <2>4. CASE i # 1 /\ j # 1
    BY <2>1, <2>4 DEF UniqueIds
  <2> QED BY <2>3, <2>4
<1>9. NoDuplicateEdge'
  BY <1>4, <1>5 DEF NoDuplicateEdge
<1>10. NoDanglingEdge'
  BY <1>4, <1>5 DEF NoDanglingEdge
<1> QED BY <1>6, <1>7, <1>8, <1>9, <1>10

(* A step that only rewrites the edges of one live node keeps the shape if *)
(* the new edge list is without duplicates and points at live nodes.       *)
LEMMA RewriteEdges ==
  ASSUME Inv, NEW a \in OnList, NEW es \in Seq(Edge),
         cell' = [cell EXCEPT ![a].edges = es], UNCHANGED nodes,
         \A i, j \in 1 .. Len(es) : es[i].to = es[j].to => i = j,
         \A i \in 1 .. Len(es) : es[i].to \in OnList
  PROVE  Inv'
<1> USE DEF Inv, GraphInv
<1>1. /\ a \in Addr /\ cell[a] \in Node /\ cell \in [Addr -> Node \cup {Free}]
      /\ nodes \in Seq(Addr)
  BY OnListFacts DEF TypeOK
<1>2. /\ cell'[a].id = cell[a].id /\ cell'[a].edges = es /\ cell'[a] \in Node
      /\ \A b \in Addr : b # a => cell'[b] = cell[b]
      /\ cell' \in [Addr -> Node \cup {Free}]
  BY <1>1 DEF Node
<1>3. OnList' = OnList /\ Positions' = Positions /\ OnList \subseteq Addr
  BY <1>1 DEF OnList, Positions
<1>4. TypeOK'
  BY <1>1, <1>2 DEF TypeOK
<1>5. \A b \in Addr : cell'[b] = Free <=> cell[b] = Free
  BY <1>1, <1>2, GraphAssumption DEF Node, Edge
<1>6. ListOwnsNodes'
  BY <1>3, <1>5 DEF ListOwnsNodes
<1>7. \A k \in Positions : IdAt(k)' = IdAt(k)
  BY <1>1, <1>2 DEF IdAt, Positions
<1>8. UniqueIds'
  BY <1>3, <1>7 DEF UniqueIds
<1>9. NoDuplicateEdge' /\ NoDanglingEdge'
  BY <1>1, <1>2, <1>3 DEF NoDuplicateEdge, NoDanglingEdge
<1> QED BY <1>4, <1>6, <1>8, <1>9

LEMMA AddEdgeKeepsInv ==
  ASSUME Inv, NEW src \in Id, NEW dst \in Id, NEW dist \in Dist, AddEdge(src, dst, dist)
  PROVE  Inv'
<1> USE DEF Inv, GraphInv
<1>1. PICK s \in FirstWith(src), d \in FirstWith(dst) :
        /\ FirstTo(cell[nodes[s]].edges, nodes[d]) = {}
        /\ cell' = [cell EXCEPT ![nodes[s]].edges = <<[to |-> nodes[d], distance |-> dist]>> \o @]
  BY DEF AddEdge
<1> DEFINE a  == nodes[s]
           e  == [to |-> nodes[d], distance |-> dist]
           old == cell[a].edges
           es == <<e>> \o old
<1>2. /\ a \in OnList /\ nodes[d] \in OnList /\ nodes[d] \in Addr
      /\ old \in Seq(Edge) /\ e \in Edge
  BY FirstWithFacts, OnListFacts DEF Edge
<1>3. /\ es \in Seq(Edge) /\ Len(es) = Len(old) + 1 /\ es[1] = e
      /\ \A i \in 2 .. Len(old) + 1 : es[i] = old[i - 1]
  BY <1>2, PrependFacts
<1>4. cell' = [cell EXCEPT ![a].edges = es] /\ UNCHANGED nodes
  BY <1>1 DEF AddEdge
<1>5. \A i \in 1 .. Len(old) : old[i].to \in OnList
  BY <1>2 DEF NoDanglingEdge
<1>6. \A i, j \in 1 .. Len(old) : old[i].to = old[j].to => i = j
  BY <1>2 DEF NoDuplicateEdge
<1>7. \A i \in 1 .. Len(old) : old[i].to # nodes[d]
  BY <1>1, <1>6 DEF FirstTo
<1> HIDE DEF a, old, es
<1>8. \A i \in 1 .. Len(es) : es[i].to \in OnList
  BY <1>2, <1>3, <1>5
<1>9. ASSUME NEW i \in 1 .. Len(es), NEW j \in 1 .. Len(es), es[i].to = es[j].to PROVE i = j
  <2>1. es[1].to = nodes[d]
    BY <1>3
  <2>2. \A m \in 2 .. Len(old) + 1 : m - 1 \in 1 .. Len(old) /\ es[m].to = old[m - 1].to
    BY <1>2, <1>3
  <2>3. \A m \in 2 .. Len(old) + 1 : es[m].to # es[1].to
    BY <2>1, <2>2, <1>7
  <2>4. CASE i = 1 \/ j = 1
    BY <2>3, <2>4, <1>2, <1>3, <1>9
  <2>5. CASE i # 1 /\ j # 1
    <3>1. i \in 2 .. Len(old) + 1 /\ j \in 2 .. Len(old) + 1
      BY <2>5, <1>2, <1>3
    <3>2. old[i - 1].to = old[j - 1].to
      BY <3>1, <2>2, <1>9
    <3>3. i - 1 = j - 1
      BY <3>1, <3>2, <2>2, <1>6
    <3> QED BY <3>1, <3>3
  <2> QED BY <2>4, <2>5
<1> QED BY <1>2, <1>3, <1>4, <1>8, <1>9, RewriteEdges

LEMMA ChangeEdgeDistanceKeepsInv ==
  ASSUME Inv, NEW src \in Id, NEW dst \in Id, NEW dist \in Dist,
         ChangeEdgeDistance(src, dst, dist)
  PROVE  Inv'
<1> USE DEF Inv, GraphInv
<1>0. PICK s \in FirstWith(src) : \E k \in FirstToId(cell[nodes[s]].edges, dst) :
        cell' = [cell EXCEPT ![nodes[s]].edges[k].distance = dist]
  BY DEF ChangeEdgeDistance
<1>1. PICK k \in FirstToId(cell[nodes[s]].edges, dst) :
        cell' = [cell EXCEPT ![nodes[s]].edges[k].distance = dist]
  BY <1>0
<1> DEFINE a   == nodes[s]
           old == cell[a].edges
           es  == [old EXCEPT ![k].distance = dist]
<1>2. a \in OnList /\ old \in Seq(Edge) /\ k \in 1 .. Len(old)
  BY <1>1, FirstWithFacts, OnListFacts DEF FirstToId
<1>3. cell' = [cell EXCEPT ![a].edges = es] /\ UNCHANGED nodes
  BY <1>1 DEF ChangeEdgeDistance
<1>4. /\ \A i \in 1 .. Len(old) : old[i].to \in OnList
      /\ \A i, j \in 1 .. Len(old) : old[i].to = old[j].to => i = j
  BY <1>2 DEF NoDanglingEdge, NoDuplicateEdge
<1> HIDE DEF a, old
<1>5. /\ es \in Seq(Edge) /\ Len(es) = Len(old)
      /\ \A i \in 1 .. Len(old) : es[i].to = old[i].to
  <2>1. \A i \in 1 .. Len(old) : old[i] \in Edge
    BY <1>2
  <2>2. PICK new \in Edge : new = [old[k] EXCEPT !.distance = dist] /\ new.to = old[k].to
    <3>1. old[k] \in Edge
      BY <2>1, <1>2
    <3>2. [old[k] EXCEPT !.distance = dist] \in Edge
      BY <3>1 DEF Edge
    <3>3. [old[k] EXCEPT !.distance = dist].to = old[k].to
      BY <3>1 DEF Edge
    <3> QED BY <3>2, <3>3
  <2>3. es = [old EXCEPT ![k] = new]
    BY <2>2
  <2> QED BY <2>2, <2>3, <1>2
<1> HIDE DEF es
<1> QED BY <1>2, <1>3, <1>4, <1>5, RewriteEdges

LEMMA RemoveEdgeKeepsInv ==
  ASSUME Inv, NEW src \in Id, NEW dst \in Id, RemoveEdge(src, dst)
  PROVE  Inv'
<1> USE DEF Inv, GraphInv
<1>0. PICK s \in FirstWith(src) : \E k \in FirstToId(cell[nodes[s]].edges, dst) :
        cell' = [cell EXCEPT ![nodes[s]].edges = Dropped(@, k)]
  BY DEF RemoveEdge
<1>1. PICK k \in FirstToId(cell[nodes[s]].edges, dst) :
        cell' = [cell EXCEPT ![nodes[s]].edges = Dropped(@, k)]
  BY <1>0
<1> DEFINE a   == nodes[s]
           old == cell[a].edges
           es  == Dropped(old, k)
<1>2. a \in OnList /\ old \in Seq(Edge) /\ k \in 1 .. Len(old)
  BY <1>1, FirstWithFacts, OnListFacts DEF FirstToId
<1>3. cell' = [cell EXCEPT ![a].edges = es] /\ UNCHANGED nodes
  BY <1>1 DEF RemoveEdge
<1>4. /\ \A i \in 1 .. Len(old) : old[i].to \in OnList
      /\ \A i, j \in 1 .. Len(old) : old[i].to = old[j].to => i = j
  BY <1>2 DEF NoDanglingEdge, NoDuplicateEdge
<1>5. /\ es \in Seq(Edge) /\ Len(es) = Len(old) - 1
      /\ \A i \in 1 .. Len(old) - 1 : es[i] = IF i < k THEN old[i] ELSE old[i + 1]
  BY <1>2, DroppedFacts
<1> HIDE DEF a, old, es
<1>6. \A i \in 1 .. Len(es) : es[i].to \in OnList
  BY <1>2, <1>4, <1>5
<1>7. ASSUME NEW i \in 1 .. Len(es), NEW j \in 1 .. Len(es), es[i].to = es[j].to PROVE i = j
  <2>1. PICK m \in 1 .. Len(old) : es[i] = old[m] /\ m = (IF i < k THEN i ELSE i + 1)
    BY <1>2, <1>5
  <2>2. PICK n \in 1 .. Len(old) : es[j] = old[n] /\ n = (IF j < k THEN j ELSE j + 1)
    BY <1>2, <1>5
  <2>3. m = n
    BY <2>1, <2>2, <1>4, <1>7
  <2> QED BY <2>1, <2>2, <2>3, <1>2
<1> QED BY <1>2, <1>3, <1>5, <1>6, <1>7, RewriteEdges

LEMMA RemoveVertexKeepsInv ==
  ASSUME Inv, NEW id \in Id, RemoveVertex(id)
  PROVE  Inv'
<1> USE DEF Inv, GraphInv
<1>1. PICK k \in FirstWith(id) :
        /\ cell' = [a \in Addr |->
                      IF a = nodes[k] THEN Free
                      ELSE IF a \in OnList
                      THEN [cell[a] EXCEPT !.edges = Unlinked(@, nodes[k])]
                      ELSE cell[a]]
        /\ nodes' = Dropped(nodes, k)
  BY DEF RemoveVertex
<1>2. PICK gone \in Addr : gone = nodes[k] /\ gone \in OnList
  BY FirstWithFacts
<1>3. k \in 1 .. Len(nodes) /\ nodes \in Seq(Addr) /\ cell \in [Addr -> Node \cup {Free}]
  BY FirstWithFacts DEF TypeOK, Positions
<1>4. /\ nodes' \in Seq(Addr) /\ Len(nodes') = Len(nodes) - 1
      /\ \A i \in 1 .. Len(nodes) - 1 : nodes'[i] = IF i < k THEN nodes[i] ELSE nodes[i + 1]
  BY <1>1, <1>3, DroppedFacts
<1>5. \A i, j \in 1 .. Len(nodes) : nodes[i] = nodes[j] => i = j
  BY DEF ListOwnsNodes, Positions
<1>6. OnList' = OnList \ {gone}
  <2>1. OnList' = {nodes'[i] : i \in 1 .. Len(nodes) - 1}
    BY <1>4 DEF OnList, Positions
  <2>2. OnList = {nodes[i] : i \in 1 .. Len(nodes)}
    BY DEF OnList, Positions
  <2>3. ASSUME NEW i \in 1 .. Len(nodes) - 1 PROVE nodes'[i] \in OnList \ {gone}
    <3>1. PICK m \in 1 .. Len(nodes) : nodes'[i] = nodes[m] /\ m # k
      BY <1>3, <1>4
    <3> QED BY <3>1, <1>2, <1>3, <1>5, <2>2
  <2>4. ASSUME NEW m \in 1 .. Len(nodes), nodes[m] # gone PROVE nodes[m] \in OnList'
    <3>1. CASE m < k
      <4>1. m \in 1 .. Len(nodes) - 1 /\ nodes'[m] = nodes[m]
        BY <3>1, <1>3, <1>4
      <4> QED BY <4>1, <2>1
    <3>2. CASE m > k
      <4>1. m - 1 \in 1 .. Len(nodes) - 1 /\ nodes'[m - 1] = nodes[m]
        BY <3>2, <1>3, <1>4
      <4> QED BY <4>1, <2>1
    <3> QED BY <3>1, <3>2, <2>4, <1>2, <1>3
  <2> QED BY <2>1, <2>2, <2>3, <2>4
<1>7. \A b \in OnList' :
        /\ b \in Addr /\ b # gone /\ cell[b] \in Node /\ cell[b].edges \in Seq(Edge)
        /\ cell'[b] = [cell[b] EXCEPT !.edges = Unlinked(@, gone)]
  BY <1>1, <1>2, <1>6, OnListFacts
<1>8. \A b \in OnList' :
        /\ cell'[b].id = cell[b].id
        /\ cell'[b].edges = Unlinked(cell[b].edges, gone)
        /\ \A i, j \in 1 .. Len(cell[b].edges) : cell[b].edges[i].to = cell[b].edges[j].to => i = j
        /\ \A i \in 1 .. Len(cell[b].edges) : cell[b].edges[i].to \in OnList
  BY <1>6, <1>7 DEF Node, NoDuplicateEdge, NoDanglingEdge
<1>9. \A b \in OnList' :
        /\ cell'[b].edges \in Seq(Edge)
        /\ \A i, j \in 1 .. Len(cell'[b].edges) : cell'[b].edges[i].to = cell'[b].edges[j].to => i = j
        /\ \A i \in 1 .. Len(cell'[b].edges) :
             /\ cell'[b].edges[i].to # gone
             /\ \E j \in 1 .. Len(cell[b].edges) : cell'[b].edges[i] = cell[b].edges[j]
  <2> SUFFICES ASSUME NEW b \in OnList'
               PROVE  /\ cell'[b].edges \in Seq(Edge)
                      /\ \A i, j \in 1 .. Len(cell'[b].edges) :
                           cell'[b].edges[i].to = cell'[b].edges[j].to => i = j
                      /\ \A i \in 1 .. Len(cell'[b].edges) :
                           /\ cell'[b].edges[i].to # gone
                           /\ \E j \in 1 .. Len(cell[b].edges) : cell'[b].edges[i] = cell[b].edges[j]
    OBVIOUS
  <2>1. /\ cell[b].edges \in Seq(Edge)
        /\ \A i, j \in 1 .. Len(cell[b].edges) : cell[b].edges[i].to = cell[b].edges[j].to => i = j
    BY <1>7, <1>8
  <2>2. cell'[b].edges = Unlinked(cell[b].edges, gone)
    BY <1>8
  <2> QED BY <2>1, <2>2, UnlinkedFacts
<1>10. \A b \in OnList' : cell'[b] \in Node
  BY <1>7, <1>9 DEF Node
<1>11. TypeOK'
  <2>1. cell' \in [Addr -> Node \cup {Free}]
    BY <1>1, <1>2, <1>3, <1>6, <1>10
  <2> QED BY <2>1, <1>4 DEF TypeOK
<1>12. ListOwnsNodes'
  <2>1. \A i, j \in Positions' : nodes'[i] = nodes'[j] => i = j
    BY <1>3, <1>4, <1>5 DEF Positions
  <2>2. \A b \in Addr : cell'[b] # Free <=> cell[b] # Free /\ b # gone
    BY <1>1, <1>2, <1>6, <1>10, GraphAssumption DEF ListOwnsNodes, Node, Edge
  <2> QED BY <2>1, <2>2, <1>6 DEF ListOwnsNodes
<1>13. UniqueIds'
  <2> SUFFICES ASSUME NEW i \in 1 .. Len(nodes) - 1, NEW j \in 1 .. Len(nodes) - 1,
                      cell'[nodes'[i]].id = cell'[nodes'[j]].id
               PROVE  i = j
    BY <1>4 DEF UniqueIds, IdAt, Positions
  <2>1. nodes'[i] \in OnList' /\ nodes'[j] \in OnList'
    BY <1>4 DEF OnList, Positions
  <2>2. cell[nodes'[i]].id = cell[nodes'[j]].id
    BY <2>1, <1>8
  <2>3. PICK m \in 1 .. Len(nodes) : nodes'[i] = nodes[m] /\ m = (IF i < k THEN i ELSE i + 1)
    BY <1>3, <1>4
  <2>4. PICK n \in 1 .. Len(nodes) : nodes'[j] = nodes[n] /\ n = (IF j < k THEN j ELSE j + 1)
    BY <1>3, <1>4
  <2>5. m = n
    BY <2>2, <2>3, <2>4 DEF UniqueIds, IdAt, Positions
  <2> QED BY <2>3, <2>4, <2>5, <1>3
<1>14. NoDuplicateEdge'
  BY <1>9 DEF NoDuplicateEdge
<1>15. NoDanglingEdge'
  <2> SUFFICES ASSUME NEW b \in OnList', NEW i \in 1 .. Len(cell'[b].edges)
               PROVE  cell'[b].edges[i].to \in OnList'
    BY DEF NoDanglingEdge
  <2>1. PICK j \in 1 .. Len(cell[b].edges) : cell'[b].edges[i] = cell[b].edges[j]
    BY <1>9
  <2>2. cell[b].edges[j].to \in OnList /\ cell'[b].edges[i].to # gone
    BY <1>8, <1>9
  <2> QED BY <2>1, <2>2, <1>6
<1> QED BY <1>11, <1>12, <1>13, <1>14, <1>15

LEMMA DestroyKeepsInv == ASSUME Inv, Destroy PROVE Inv'
<1>1. nodes' = <<>> /\ cell' = [a \in Addr |-> Free]
  BY DEF Destroy, Inv, GraphInv, ListOwnsNodes
<1> QED BY <1>1 DEF Inv, TypeOK, GraphInv, ListOwnsNodes, UniqueIds, NoDuplicateEdge,
                    NoDanglingEdge, OnList, Positions

LEMMA InvStep == Inv /\ [Next]_vars => Inv'
<1> SUFFICES ASSUME Inv, [Next]_vars PROVE Inv'
  OBVIOUS
<1>1. CASE UNCHANGED vars
  BY <1>1 DEF vars, Inv, TypeOK, GraphInv, ListOwnsNodes, UniqueIds, NoDuplicateEdge,
              NoDanglingEdge, OnList, Positions, IdAt
<1> QED BY <1>1, AddVertexKeepsInv, RemoveVertexKeepsInv, AddEdgeKeepsInv,
           ChangeEdgeDistanceKeepsInv, RemoveEdgeKeepsInv, DestroyKeepsInv DEF Next

LEMMA InvAlways == Spec => []Inv
BY InvInit, InvStep, PTL DEF Spec

(* Nodes and edge lists keep the types of graph.c:12-34. *)
THEOREM TypeCorrect == Spec => []TypeOK
<1>1. Inv => TypeOK
  BY DEF Inv
<1> QED BY <1>1, InvAlways, PTL

(* No sequence of graph calls leaves an edge that points at a freed node,  *)
(* although removing a vertex unlinks at most one edge per source          *)
(* (graph.c:265-319).                                                      *)
THEOREM NeverDangling == Spec => []NoDanglingEdge
<1>1. Inv => NoDanglingEdge
  BY DEF Inv, GraphInv
<1> QED BY <1>1, InvAlways, PTL

(* What that removal relies on: never two edges from one node to another   *)
(* (graph.c:353-360).                                                      *)
THEOREM NeverDuplicateEdge == Spec => []NoDuplicateEdge
<1>1. Inv => NoDuplicateEdge
  BY DEF Inv, GraphInv
<1> QED BY <1>1, InvAlways, PTL

(* Two nodes never share an id, so every search by id finds the node       *)
(* (graph.c:92-100).                                                       *)
THEOREM IdsStayUnique == Spec => []UniqueIds
<1>1. Inv => UniqueIds
  BY DEF Inv, GraphInv
<1> QED BY <1>1, InvAlways, PTL

(* Every node that malloc handed out is on the list once, and off the list *)
(* nothing is still allocated: vertex removal neither leaks nor frees twice *)
(* (graph.c:303-313).                                                      *)
THEOREM NothingLeaks == Spec => []ListOwnsNodes
<1>1. Inv => ListOwnsNodes
  BY DEF Inv, GraphInv
<1> QED BY <1>1, InvAlways, PTL
-----------------------------------------------------------------------------
(***************************************************************************)
(* The lists and pointers of graph.c implement a weighted graph over ids,  *)
(* for every set of ids, addresses and distances: every step of Graph is a *)
(* step of ZergNet or changes nothing that callers see.  What the steps do *)
(* is first said of arcs between addresses, without positions on lists.    *)
(***************************************************************************)

(* A list of edges has one to the node at b, of a distance. *)
Has(edges, b, dist) == \E i \in 1 .. Len(edges) : edges[i] = [to |-> b, distance |-> dist]

(* The node at a has an edge to the node at b. *)
Arc(a, b, dist) == a \in OnList /\ Has(cell[a].edges, b, dist)

IdOf(a) == cell[a].id

Weight == [pair \in Linked |-> EdgeDistance(pair[1], pair[2])]

(* The graph the ids see, in terms of arcs. *)
NetOfArcs ==
  /\ DOMAIN Weight = Linked /\ Weight = [pair \in Linked |-> Weight[pair]]
  /\ Ids = {IdOf(a) : a \in OnList}
  /\ \A a, b \in OnList : IdOf(a) = IdOf(b) => a = b
  /\ \A a \in OnList : IdOf(a) \in Id
  /\ \A a, b, dist : Arc(a, b, dist) =>
       /\ a \in OnList /\ b \in OnList /\ dist \in Dist
       /\ <<IdOf(a), IdOf(b)>> \in Linked
       /\ Weight[<<IdOf(a), IdOf(b)>>] = dist
  /\ \A pair \in Linked : \E a, b \in OnList, dist \in Dist :
       Arc(a, b, dist) /\ pair = <<IdOf(a), IdOf(b)>>

(* The search by id finds the node, and the search among its edges the arc. *)
LEMMA FirstWithIs ==
  ASSUME Inv, NEW k \in Positions
  PROVE  FirstWith(IdAt(k)) = {k}
<1>1. \A j \in Positions : IdAt(j) = IdAt(k) => j = k
  BY DEF Inv, GraphInv, UniqueIds
<1>2. \A j \in 1 .. k - 1 : j \in Positions /\ j # k
  BY DEF Inv, TypeOK, Positions
<1> QED BY <1>1, <1>2 DEF FirstWith

LEMMA UniqueOnList ==
  ASSUME Inv, NEW a \in OnList, NEW b \in OnList, IdOf(a) = IdOf(b)
  PROVE  a = b
<1>1. PICK k \in Positions : nodes[k] = a
  BY DEF OnList
<1>2. PICK l \in Positions : nodes[l] = b
  BY DEF OnList
<1> QED BY <1>1, <1>2 DEF Inv, GraphInv, UniqueIds, IdAt, IdOf

LEMMA EdgeDistanceIs ==
  ASSUME Inv, NEW a \in OnList, NEW i \in 1 .. Len(cell[a].edges)
  PROVE  EdgeDistance(IdOf(a), IdOf(cell[a].edges[i].to)) = cell[a].edges[i].distance
<1> DEFINE edges == cell[a].edges
           dst == IdOf(edges[i].to)
<1>1. PICK k \in Positions : nodes[k] = a
  BY DEF OnList
<1>2. FirstWith(IdOf(a)) = {k}
  BY <1>1, FirstWithIs DEF IdAt, IdOf
<1>3. \A j \in 1 .. Len(edges) : edges[j].to \in OnList
  BY DEF Inv, GraphInv, NoDanglingEdge
<1>4. \A j \in 1 .. Len(edges) : IdOf(edges[j].to) = dst => j = i
  <2>1. \A j \in 1 .. Len(edges) : edges[j].to = edges[i].to => j = i
    BY DEF Inv, GraphInv, NoDuplicateEdge
  <2> HIDE DEF edges
  <2>2. ASSUME NEW j \in 1 .. Len(edges), IdOf(edges[j].to) = IdOf(edges[i].to) PROVE j = i
    <3>1. edges[j].to \in OnList /\ edges[i].to \in OnList
      BY <1>3 DEF edges
    <3>2. edges[j].to = edges[i].to
      BY <2>2, <3>1, UniqueOnList
    <3> QED BY <2>1, <3>2
  <2> QED BY <2>2
<1>5. FirstToId(edges, dst) = {i}
  <2>1. Len(edges) \in Nat
    BY OnListFacts DEF Inv, GraphInv
  <2>2. \A j \in 1 .. i - 1 : j \in 1 .. Len(edges) /\ j # i
    BY <2>1
  <2> QED BY <1>4, <2>2 DEF FirstToId, IdOf
<1>6. EdgeDistance(IdOf(a), dst) = cell[nodes[k]].edges[i].distance
  <2> DEFINE s == CHOOSE x \in FirstWith(IdOf(a)) : TRUE
             e == CHOOSE x \in FirstToId(cell[nodes[s]].edges, dst) : TRUE
  <2>1. s = k
    BY <1>2
  <2>2. nodes[s] = a
    BY <1>1, <2>1
  <2>3. e = i
    BY <1>5, <2>2
  <2>4. EdgeDistance(IdOf(a), dst) = cell[nodes[s]].edges[e].distance
    BY DEF EdgeDistance
  <2> QED BY <2>1, <2>3, <2>4
<1> QED BY <1>1, <1>6

LEMMA ArcsMakeNet == Inv => NetOfArcs
<1> SUFFICES ASSUME Inv PROVE NetOfArcs
  OBVIOUS
<1>1. Ids = {IdOf(a) : a \in OnList}
  BY DEF Ids, OnList, IdAt, IdOf
<1>2. \A a, b \in OnList : IdOf(a) = IdOf(b) => a = b
  BY UniqueOnList
<1>3. \A a \in OnList : IdOf(a) \in Id
  BY OnListFacts DEF Inv, GraphInv, IdOf
<1>4. ASSUME NEW a, NEW b, NEW dist, Arc(a, b, dist)
      PROVE  /\ a \in OnList /\ b \in OnList /\ dist \in Dist
             /\ <<IdOf(a), IdOf(b)>> \in Linked
             /\ Weight[<<IdOf(a), IdOf(b)>>] = dist
  <2>1. PICK i \in 1 .. Len(cell[a].edges) : a \in OnList /\ cell[a].edges[i] = [to |-> b, distance |-> dist]
    BY <1>4 DEF Arc, Has
  <2>2. cell[a].edges[i].to = b /\ cell[a].edges[i].distance = dist
    BY <2>1
  <2>3. b \in OnList
    BY <2>1, <2>2 DEF Inv, GraphInv, NoDanglingEdge
  <2>4. cell[a].edges[i] \in Edge
    BY <2>1, OnListFacts DEF Inv, GraphInv
  <2>5. dist \in Dist
    BY <2>2, <2>4 DEF Edge
  <2>6. <<IdOf(a), IdOf(b)>> \in Linked
    BY <2>1, <2>2 DEF Linked, IdOf
  <2>7. Weight[<<IdOf(a), IdOf(b)>>] = dist
    BY <2>1, <2>2, <2>6, EdgeDistanceIs DEF Weight
  <2> QED BY <2>1, <2>3, <2>5, <2>6, <2>7
<1>5. ASSUME NEW pair \in Linked
      PROVE  \E a, b \in OnList, dist \in Dist : Arc(a, b, dist) /\ pair = <<IdOf(a), IdOf(b)>>
  <2>1. PICK a \in OnList : pair \in {<<cell[a].id, cell[cell[a].edges[i].to].id>> : i \in 1 .. Len(cell[a].edges)}
    BY DEF Linked
  <2>2. PICK i \in 1 .. Len(cell[a].edges) : pair = <<IdOf(a), IdOf(cell[a].edges[i].to)>>
    BY <2>1 DEF IdOf
  <2>3. cell[a].edges[i] \in Edge
    BY OnListFacts DEF Inv, GraphInv
  <2>4. cell[a].edges[i] = [to |-> cell[a].edges[i].to, distance |-> cell[a].edges[i].distance]
    BY <2>3 DEF Edge
  <2>5. Arc(a, cell[a].edges[i].to, cell[a].edges[i].distance)
    BY <2>4 DEF Arc, Has
  <2> QED BY <1>4, <2>2, <2>5
<1>6. DOMAIN Weight = Linked /\ Weight = [pair \in Linked |-> Weight[pair]]
  BY DEF Weight
<1> QED BY <1>1, <1>2, <1>3, <1>4, <1>5, <1>6 DEF NetOfArcs
-----------------------------------------------------------------------------
(* What is left of a list without its k-th element. *)
LEMMA DroppedKeeps ==
  ASSUME NEW S, NEW s \in Seq(S), NEW k \in 1 .. Len(s)
  PROVE  /\ \A i \in 1 .. Len(Dropped(s, k)) : \E j \in 1 .. Len(s) : j # k /\ Dropped(s, k)[i] = s[j]
         /\ \A j \in 1 .. Len(s) : j # k => \E i \in 1 .. Len(Dropped(s, k)) : Dropped(s, k)[i] = s[j]
<1> DEFINE d == Dropped(s, k)
<1>1. /\ Len(d) = Len(s) - 1 /\ Len(s) \in Nat
      /\ \A i \in 1 .. Len(s) - 1 : d[i] = IF i < k THEN s[i] ELSE s[i + 1]
  BY DroppedFacts
<1> HIDE DEF d
<1>2. ASSUME NEW i \in 1 .. Len(d) PROVE \E j \in 1 .. Len(s) : j # k /\ d[i] = s[j]
  BY <1>1
<1>3. ASSUME NEW j \in 1 .. Len(s), j # k PROVE \E i \in 1 .. Len(d) : d[i] = s[j]
  <2>1. CASE j < k
    BY <1>1, <2>1
  <2>2. CASE j > k
    <3>1. j - 1 \in 1 .. Len(d) /\ d[j - 1] = s[(j - 1) + 1]
      BY <1>1, <2>2
    <3> QED BY <3>1
  <2> QED BY <1>3, <2>1, <2>2
<1> QED BY <1>2, <1>3 DEF d

LEMMA UnlinkedKeeps ==
  ASSUME NEW es \in Seq(Edge), NEW a, NEW j \in 1 .. Len(es), es[j].to # a
  PROVE  \E i \in 1 .. Len(Unlinked(es, a)) : Unlinked(es, a)[i] = es[j]
<1>1. CASE FirstTo(es, a) = {}
  BY <1>1 DEF Unlinked
<1>2. CASE FirstTo(es, a) # {}
  <2> DEFINE c == CHOOSE k \in FirstTo(es, a) : TRUE
  <2>1. c \in FirstTo(es, a) /\ Unlinked(es, a) = Dropped(es, c)
    BY <1>2 DEF Unlinked
  <2>2. c \in 1 .. Len(es) /\ c # j
    BY <2>1 DEF FirstTo
  <2> HIDE DEF c
  <2> QED BY <2>1, <2>2, DroppedKeeps
<1> QED BY <1>1, <1>2

(* A node is not what a free cell holds. *)
LEMMA NodeIsNotFree == ASSUME NEW node \in Node PROVE node # Free
BY GraphAssumption DEF Node, Edge

LEMMA AddVertexArcs ==
  ASSUME Inv, Inv', NEW id \in Id, NEW x \in Addr, AddVertex(id, x)
  PROVE  /\ OnList' = OnList \cup {x} /\ x \notin OnList /\ IdOf(x)' = id
         /\ \A a \in OnList : IdOf(a)' = IdOf(a)
         /\ \A a, b, dist : Arc(a, b, dist)' <=> Arc(a, b, dist)
<1> DEFINE node == [id |-> id, edges |-> <<>>]
<1>1. cell \in [Addr -> Node \cup {Free}] /\ cell[x] = Free /\ cell' = [cell EXCEPT ![x] = node]
  BY DEF AddVertex, Inv, TypeOK
<1>2. node \in Node
  BY DEF Node
<1>3. cell'[x] = node /\ node # Free /\ \A a \in Addr \ {x} : cell'[a] = cell[a]
  BY <1>1, <1>2, NodeIsNotFree
<1>4. OnList = {a \in Addr : cell[a] # Free} /\ OnList' = {a \in Addr : cell'[a] # Free}
  BY DEF Inv, GraphInv, ListOwnsNodes
<1>5. OnList' = OnList \cup {x} /\ x \notin OnList
  BY <1>1, <1>3, <1>4
<1>6. IdOf(x)' = id /\ cell'[x].edges = <<>>
  BY <1>3 DEF IdOf
<1>7. \A a \in OnList : cell'[a] = cell[a] /\ a # x
  BY <1>3, <1>4, <1>5
<1> HIDE DEF node
<1>8. \A a, b, dist : Arc(a, b, dist)' <=> Arc(a, b, dist)
  BY <1>5, <1>6, <1>7 DEF Arc, Has
<1> QED BY <1>5, <1>6, <1>7, <1>8 DEF IdOf

LEMMA RemoveVertexArcs ==
  ASSUME Inv, Inv', NEW id \in Id, RemoveVertex(id)
  PROVE  \E gone \in OnList :
           /\ IdOf(gone) = id
           /\ OnList' = OnList \ {gone}
           /\ \A a \in OnList' : IdOf(a)' = IdOf(a)
           /\ \A a, b, dist : Arc(a, b, dist)' <=> Arc(a, b, dist) /\ a # gone /\ b # gone
<1>1. PICK k \in FirstWith(id) :
        cell' = [a \in Addr |->
                   IF a = nodes[k] THEN Free
                   ELSE IF a \in OnList
                   THEN [cell[a] EXCEPT !.edges = Unlinked(@, nodes[k])]
                   ELSE cell[a]]
  BY DEF RemoveVertex
<1>2. PICK gone \in OnList : gone = nodes[k] /\ IdOf(gone) = id
  BY FirstWithFacts DEF Inv, GraphInv, IdOf
<1>3. OnList = {a \in Addr : cell[a] # Free} /\ OnList' = {a \in Addr : cell'[a] # Free}
  BY DEF Inv, GraphInv, ListOwnsNodes
<1>4. gone \in Addr /\ cell'[gone] = Free
  BY <1>1, <1>2, <1>3
<1>5. ASSUME NEW a \in OnList, a # gone
      PROVE  /\ cell'[a] # Free /\ IdOf(a)' = IdOf(a)
             /\ cell'[a].edges = Unlinked(cell[a].edges, gone)
  <2>1. a \in Addr /\ cell[a] \in Node /\ cell[a].edges \in Seq(Edge)
    BY OnListFacts DEF Inv, GraphInv
  <2>2. cell'[a] = [cell[a] EXCEPT !.edges = Unlinked(cell[a].edges, gone)]
    BY <1>1, <1>2, <1>5, <2>1
  <2>3. \A i, j \in 1 .. Len(cell[a].edges) : cell[a].edges[i].to = cell[a].edges[j].to => i = j
    BY DEF Inv, GraphInv, NoDuplicateEdge
  <2>4. Unlinked(cell[a].edges, gone) \in Seq(Edge)
    BY <1>4, <2>1, <2>3, UnlinkedFacts
  <2>5. /\ cell'[a] \in Node /\ cell'[a].id = cell[a].id
        /\ cell'[a].edges = Unlinked(cell[a].edges, gone)
    BY <2>1, <2>2, <2>4 DEF Node
  <2> QED BY <2>5, NodeIsNotFree DEF IdOf
<1>6. OnList' = OnList \ {gone}
  <2>1. \A a \in Addr \ OnList : cell'[a] = Free
    BY <1>1, <1>2, <1>3
  <2> QED BY <1>3, <1>4, <1>5, <2>1
<1>7. ASSUME NEW a, NEW b, NEW dist, Arc(a, b, dist)'
      PROVE  Arc(a, b, dist) /\ a # gone /\ b # gone
  <2>1. PICK i \in 1 .. Len(cell'[a].edges) : cell'[a].edges[i] = [to |-> b, distance |-> dist]
    BY <1>7 DEF Arc, Has
  <2>2. a \in OnList /\ a # gone
    BY <1>6, <1>7 DEF Arc, Has
  <2>3. /\ cell[a].edges \in Seq(Edge)
        /\ \A m, n \in 1 .. Len(cell[a].edges) : cell[a].edges[m].to = cell[a].edges[n].to => m = n
    BY <2>2, OnListFacts DEF Inv, GraphInv, NoDuplicateEdge
  <2>4. /\ cell'[a].edges[i].to # gone
        /\ \E j \in 1 .. Len(cell[a].edges) : cell'[a].edges[i] = cell[a].edges[j]
    BY <1>4, <1>5, <2>1, <2>2, <2>3, UnlinkedFacts
  <2>5. b # gone
    BY <2>1, <2>4
  <2> QED BY <2>1, <2>2, <2>4, <2>5 DEF Arc, Has
<1>8. ASSUME NEW a, NEW b, NEW dist, Arc(a, b, dist), a # gone, b # gone
      PROVE  Arc(a, b, dist)'
  <2>1. PICK j \in 1 .. Len(cell[a].edges) : cell[a].edges[j] = [to |-> b, distance |-> dist]
    BY <1>8 DEF Arc, Has
  <2>2. a \in OnList /\ a \in OnList'
    BY <1>6, <1>8 DEF Arc, Has
  <2>3. cell[a].edges \in Seq(Edge) /\ cell[a].edges[j].to # gone
    BY <1>8, <2>1, <2>2, OnListFacts DEF Inv, GraphInv
  <2>4. \E i \in 1 .. Len(cell'[a].edges) : cell'[a].edges[i] = cell[a].edges[j]
    BY <1>5, <1>8, <2>2, <2>3, UnlinkedKeeps
  <2> QED BY <2>1, <2>2, <2>4 DEF Arc, Has
<1> QED BY <1>2, <1>5, <1>6, <1>7, <1>8

(* A step that only rewrites the edges of one node changes its arcs alone. *)
LEMMA RewriteArcs ==
  ASSUME Inv, NEW s \in OnList, NEW es \in Seq(Edge),
         cell' = [cell EXCEPT ![s].edges = es], UNCHANGED nodes
  PROVE  /\ OnList' = OnList
         /\ \A a \in OnList : IdOf(a)' = IdOf(a)
         /\ \A a, b, dist : Arc(a, b, dist)' <=>
              IF a = s THEN Has(es, b, dist)
              ELSE Arc(a, b, dist)
<1>1. /\ s \in Addr /\ cell[s] \in Node /\ cell \in [Addr -> Node \cup {Free}]
      /\ OnList \subseteq Addr
  BY OnListFacts DEF Inv, GraphInv, TypeOK
<1>2. /\ cell'[s].id = cell[s].id /\ cell'[s].edges = es
      /\ \A a \in Addr : a # s => cell'[a] = cell[a]
  BY <1>1 DEF Node
<1>3. OnList' = OnList
  BY DEF OnList, Positions
<1>4. \A a \in OnList : IdOf(a)' = IdOf(a)
  BY <1>1, <1>2 DEF IdOf
<1>5. ASSUME NEW a, NEW b, NEW dist
      PROVE  Arc(a, b, dist)' <=>
               IF a = s THEN Has(es, b, dist)
               ELSE Arc(a, b, dist)
  <2>1. CASE a = s
    BY <1>2, <1>3, <2>1 DEF Arc, Has
  <2>2. CASE a # s /\ a \in OnList
    <3>1. cell'[a] = cell[a]
      BY <1>1, <1>2, <2>2
    <3> QED BY <1>3, <2>2, <3>1 DEF Arc, Has
  <2>3. CASE a # s /\ a \notin OnList
    BY <1>3, <2>3 DEF Arc, Has
  <2> QED BY <2>1, <2>2, <2>3
<1> QED BY <1>3, <1>4, <1>5

LEMMA AddEdgeArcs ==
  ASSUME Inv, NEW src \in Id, NEW dst \in Id, NEW dist \in Dist, AddEdge(src, dst, dist)
  PROVE  \E s, d \in OnList :
           /\ IdOf(s) = src /\ IdOf(d) = dst
           /\ OnList' = OnList
           /\ \A a \in OnList : IdOf(a)' = IdOf(a)
           /\ \A w : ~Arc(s, d, w)
           /\ \A a, b, w : Arc(a, b, w)' <=> Arc(a, b, w) \/ (a = s /\ b = d /\ w = dist)
<1>1. PICK i \in FirstWith(src), j \in FirstWith(dst) :
        /\ FirstTo(cell[nodes[i]].edges, nodes[j]) = {}
        /\ cell' = [cell EXCEPT ![nodes[i]].edges = <<[to |-> nodes[j], distance |-> dist]>> \o @]
  BY DEF AddEdge
<1>2. PICK s \in OnList : s = nodes[i] /\ IdOf(s) = src
  BY FirstWithFacts DEF Inv, GraphInv, IdOf
<1>3. PICK d \in OnList : d = nodes[j] /\ IdOf(d) = dst
  BY FirstWithFacts DEF Inv, GraphInv, IdOf
<1> DEFINE e   == [to |-> d, distance |-> dist]
           old == cell[s].edges
           es  == <<e>> \o old
<1>4. old \in Seq(Edge) /\ d \in Addr /\ e \in Edge
  BY OnListFacts DEF Inv, GraphInv, Edge
<1>5. /\ es \in Seq(Edge) /\ Len(es) = Len(old) + 1 /\ es[1] = e
      /\ \A m \in 2 .. Len(old) + 1 : es[m] = old[m - 1]
  BY <1>4, PrependFacts
<1>6. cell' = [cell EXCEPT ![s].edges = es] /\ UNCHANGED nodes
  BY <1>1, <1>2, <1>3 DEF AddEdge
<1>7. \A m \in 1 .. Len(old) : old[m].to # d
  <2>1. \A m, n \in 1 .. Len(old) : old[m].to = old[n].to => m = n
    BY DEF Inv, GraphInv, NoDuplicateEdge
  <2>2. \A m \in 1 .. Len(old) : old[m].to = d => m \in FirstTo(old, d)
    <3> HIDE DEF old
    <3>1. Len(old) \in Nat
      BY <1>4
    <3> QED BY <2>1, <3>1 DEF FirstTo
  <2> QED BY <1>1, <1>2, <1>3, <2>2
<1>8. \A w : ~Arc(s, d, w)
  BY <1>7 DEF Arc, Has
<1>9. /\ OnList' = OnList
      /\ \A a \in OnList : IdOf(a)' = IdOf(a)
      /\ \A a, b, w : Arc(a, b, w)' <=>
           IF a = s THEN Has(es, b, w)
           ELSE Arc(a, b, w)
  <2> HIDE DEF es
  <2> QED BY <1>5, <1>6, RewriteArcs
<1>10. ASSUME NEW b, NEW w
       PROVE  Has(es, b, w) <=> Arc(s, b, w) \/ (b = d /\ w = dist)
  <2>1. Arc(s, b, w) <=> Has(old, b, w)
    BY DEF Arc
  <2>2. e = [to |-> b, distance |-> w] <=> (b = d /\ w = dist)
    OBVIOUS
  <2> HIDE DEF es, old, e
  <2>3. Len(old) \in Nat /\ 1 \in 1 .. Len(es)
    BY <1>4, <1>5
  <2>4. ASSUME Has(es, b, w) PROVE Has(old, b, w) \/ e = [to |-> b, distance |-> w]
    <3>1. PICK m \in 1 .. Len(es) : es[m] = [to |-> b, distance |-> w]
      BY <2>4 DEF Has
    <3>2. CASE m = 1
      BY <1>5, <3>1, <3>2
    <3>3. CASE m # 1
      <4>1. m \in 2 .. Len(old) + 1 /\ m - 1 \in 1 .. Len(old)
        BY <1>5, <2>3, <3>3
      <4> QED BY <1>5, <3>1, <4>1 DEF Has
    <3> QED BY <3>2, <3>3
  <2>5. ASSUME Has(old, b, w) PROVE Has(es, b, w)
    <3>1. PICK n \in 1 .. Len(old) : old[n] = [to |-> b, distance |-> w]
      BY <2>5 DEF Has
    <3>2. n + 1 \in 2 .. Len(old) + 1 /\ n + 1 \in 1 .. Len(es) /\ (n + 1) - 1 = n
      BY <1>5, <2>3
    <3> QED BY <1>5, <3>1, <3>2 DEF Has
  <2>6. ASSUME e = [to |-> b, distance |-> w] PROVE Has(es, b, w)
    BY <1>5, <2>3, <2>6 DEF Has
  <2> QED BY <2>1, <2>2, <2>4, <2>5, <2>6
<1> HIDE DEF es, old, e
<1>11. ASSUME NEW a, NEW b, NEW w
       PROVE  Arc(a, b, w)' <=> Arc(a, b, w) \/ (a = s /\ b = d /\ w = dist)
  <2>1. CASE a = s
    BY <1>9, <1>10, <2>1
  <2>2. CASE a # s
    BY <1>9, <2>2
  <2> QED BY <2>1, <2>2
<1> QED BY <1>2, <1>3, <1>8, <1>9, <1>11

(* The edge that a search by id finds is the only one between two nodes. *)
Finds(src, dst, s, k, a, b) ==
  /\ a \in OnList /\ b \in OnList
  /\ a = nodes[s] /\ IdOf(a) = src /\ IdOf(b) = dst
  /\ k \in 1 .. Len(cell[a].edges) /\ cell[a].edges[k].to = b
  /\ \A i \in 1 .. Len(cell[a].edges) : cell[a].edges[i].to = b => i = k
  /\ cell[a].edges \in Seq(Edge)

LEMMA EdgeFound ==
  ASSUME Inv, NEW src, NEW dst, NEW s \in FirstWith(src),
         NEW k \in FirstToId(cell[nodes[s]].edges, dst)
  PROVE  \E a, b : Finds(src, dst, s, k, a, b)
<1>1. PICK a \in OnList : a = nodes[s] /\ IdOf(a) = src
  BY FirstWithFacts DEF Inv, GraphInv, IdOf
<1>2. k \in 1 .. Len(cell[a].edges) /\ cell[cell[a].edges[k].to].id = dst
  BY <1>1 DEF FirstToId
<1>3. cell[a].edges[k].to \in OnList
  BY <1>2 DEF Inv, GraphInv, NoDanglingEdge
<1>4. \A i \in 1 .. Len(cell[a].edges) : cell[a].edges[i].to = cell[a].edges[k].to => i = k
  BY <1>2 DEF Inv, GraphInv, NoDuplicateEdge
<1>5. cell[a].edges \in Seq(Edge)
  BY OnListFacts DEF Inv, GraphInv
<1> QED BY <1>1, <1>2, <1>3, <1>4, <1>5 DEF IdOf, Finds

LEMMA ChangeEdgeDistanceArcs ==
  ASSUME Inv, NEW src \in Id, NEW dst \in Id, NEW dist \in Dist,
         ChangeEdgeDistance(src, dst, dist)
  PROVE  \E s, d \in OnList :
           /\ IdOf(s) = src /\ IdOf(d) = dst
           /\ OnList' = OnList
           /\ \A a \in OnList : IdOf(a)' = IdOf(a)
           /\ \E w : Arc(s, d, w)
           /\ \A a, b, w : Arc(a, b, w)' <=> IF a = s /\ b = d THEN w = dist ELSE Arc(a, b, w)
<1>0. PICK i \in FirstWith(src) : \E k \in FirstToId(cell[nodes[i]].edges, dst) :
        cell' = [cell EXCEPT ![nodes[i]].edges[k].distance = dist]
  BY DEF ChangeEdgeDistance
<1>1. PICK k \in FirstToId(cell[nodes[i]].edges, dst) :
        cell' = [cell EXCEPT ![nodes[i]].edges[k].distance = dist]
  BY <1>0
<1>found. PICK s, d : Finds(src, dst, i, k, s, d)
  BY EdgeFound
<1>2. /\ s \in OnList /\ d \in OnList
      /\ s = nodes[i] /\ IdOf(s) = src /\ IdOf(d) = dst
      /\ k \in 1 .. Len(cell[s].edges) /\ cell[s].edges[k].to = d
      /\ \A m \in 1 .. Len(cell[s].edges) : cell[s].edges[m].to = d => m = k
      /\ cell[s].edges \in Seq(Edge)
  BY <1>found DEF Finds
<1> DEFINE old == cell[s].edges
           e   == [to |-> d, distance |-> dist]
           es  == [old EXCEPT ![k] = e]
<1>3. old[k] \in Edge /\ d \in Addr /\ e \in Edge
  <2>1. d \in Addr
    BY <1>2, OnListFacts DEF Inv, GraphInv
  <2>2. old[k] \in Edge
    BY <1>2
  <2> QED BY <2>1, <2>2 DEF Edge
<1>4. [old[k] EXCEPT !.distance = dist] = e
  BY <1>2, <1>3 DEF Edge
<1>5. cell' = [cell EXCEPT ![s].edges = [old EXCEPT ![k].distance = dist]] /\ UNCHANGED nodes
  BY <1>1, <1>2 DEF ChangeEdgeDistance
<1>6. cell' = [cell EXCEPT ![s].edges = es]
  BY <1>4, <1>5
<1>7. /\ es \in Seq(Edge) /\ Len(es) = Len(old) /\ es[k] = e
      /\ \A m \in 1 .. Len(old) : m # k => es[m] = old[m]
  <2> HIDE DEF e, old
  <2> QED BY <1>2, <1>3 DEF old
<1>8. /\ OnList' = OnList
      /\ \A a \in OnList : IdOf(a)' = IdOf(a)
      /\ \A a, b, w : Arc(a, b, w)' <=>
           IF a = s THEN Has(es, b, w)
           ELSE Arc(a, b, w)
  <2> HIDE DEF es
  <2> QED BY <1>2, <1>5, <1>6, <1>7, RewriteArcs
<1>9. ASSUME NEW b, NEW w
      PROVE  Has(es, b, w) <=> IF b = d THEN w = dist ELSE Arc(s, b, w)
  <2>1. Arc(s, b, w) <=> Has(old, b, w)
    BY <1>2 DEF Arc
  <2>2. e = [to |-> b, distance |-> w] <=> (b = d /\ w = dist)
    OBVIOUS
  <2>3. [to |-> b, distance |-> w].to = b
    OBVIOUS
  <2>4. /\ \A m \in 1 .. Len(old) : old[m].to = d <=> m = k
        /\ k \in 1 .. Len(old)
    BY <1>2
  <2>5. e.to = d
    OBVIOUS
  <2> HIDE DEF es, old, e
  <2>6. CASE b = d
    <3>1. \A m \in 1 .. Len(old) : es[m] = [to |-> b, distance |-> w] => m = k
      BY <1>7, <2>3, <2>4, <2>6
    <3> QED BY <1>7, <2>2, <2>4, <2>6, <3>1 DEF Has
  <2>7. CASE b # d
    <3>1. \A m \in 1 .. Len(old) : es[m] = [to |-> b, distance |-> w] => m # k
      BY <1>7, <2>2, <2>7
    <3>2. \A m \in 1 .. Len(old) : old[m] = [to |-> b, distance |-> w] => m # k
      BY <2>3, <2>4, <2>7
    <3>3. Has(es, b, w) <=> Has(old, b, w)
      BY <1>7, <3>1, <3>2 DEF Has
    <3> QED BY <2>1, <2>7, <3>3
  <2> QED BY <2>6, <2>7
<1>10. \E w : Arc(s, d, w)
  <2>1. old[k] = [to |-> d, distance |-> old[k].distance]
    BY <1>2, <1>3 DEF Edge
  <2> QED BY <1>2, <2>1 DEF Arc, Has
<1> HIDE DEF es, old, e
<1>11. ASSUME NEW a, NEW b, NEW w
       PROVE  Arc(a, b, w)' <=> IF a = s /\ b = d THEN w = dist ELSE Arc(a, b, w)
  <2>1. CASE a = s
    BY <1>8, <1>9, <2>1
  <2>2. CASE a # s
    BY <1>8, <2>2
  <2> QED BY <2>1, <2>2
<1> QED BY <1>2, <1>8, <1>10, <1>11

LEMMA RemoveEdgeArcs ==
  ASSUME Inv, NEW src \in Id, NEW dst \in Id, RemoveEdge(src, dst)
  PROVE  \E s, d \in OnList :
           /\ IdOf(s) = src /\ IdOf(d) = dst
           /\ OnList' = OnList
           /\ \A a \in OnList : IdOf(a)' = IdOf(a)
           /\ \E w : Arc(s, d, w)
           /\ \A a, b, w : Arc(a, b, w)' <=> Arc(a, b, w) /\ ~(a = s /\ b = d)
<1>0. PICK i \in FirstWith(src) : \E k \in FirstToId(cell[nodes[i]].edges, dst) :
        cell' = [cell EXCEPT ![nodes[i]].edges = Dropped(@, k)]
  BY DEF RemoveEdge
<1>1. PICK k \in FirstToId(cell[nodes[i]].edges, dst) :
        cell' = [cell EXCEPT ![nodes[i]].edges = Dropped(@, k)]
  BY <1>0
<1>found. PICK s, d : Finds(src, dst, i, k, s, d)
  BY EdgeFound
<1>2. /\ s \in OnList /\ d \in OnList
      /\ s = nodes[i] /\ IdOf(s) = src /\ IdOf(d) = dst
      /\ k \in 1 .. Len(cell[s].edges) /\ cell[s].edges[k].to = d
      /\ \A m \in 1 .. Len(cell[s].edges) : cell[s].edges[m].to = d => m = k
      /\ cell[s].edges \in Seq(Edge)
  BY <1>found DEF Finds
<1> DEFINE old == cell[s].edges
           es  == Dropped(old, k)
<1>3. cell' = [cell EXCEPT ![s].edges = es] /\ UNCHANGED nodes
  BY <1>1, <1>2 DEF RemoveEdge
<1>4. /\ es \in Seq(Edge)
      /\ \A m \in 1 .. Len(es) : \E n \in 1 .. Len(old) : n # k /\ es[m] = old[n]
      /\ \A n \in 1 .. Len(old) : n # k => \E m \in 1 .. Len(es) : es[m] = old[n]
  <2> HIDE DEF old
  <2>1. old \in Seq(Edge) /\ k \in 1 .. Len(old)
    BY <1>2 DEF old
  <2>2. Dropped(old, k) \in Seq(Edge)
    BY <2>1, DroppedFacts
  <2> QED BY <2>1, <2>2, DroppedKeeps
<1>5. /\ OnList' = OnList
      /\ \A a \in OnList : IdOf(a)' = IdOf(a)
      /\ \A a, b, w : Arc(a, b, w)' <=>
           IF a = s THEN Has(es, b, w)
           ELSE Arc(a, b, w)
  <2> HIDE DEF es
  <2> QED BY <1>2, <1>3, <1>4, RewriteArcs
<1>6. ASSUME NEW b, NEW w
      PROVE  Has(es, b, w) <=> Arc(s, b, w) /\ b # d
  <2>1. Arc(s, b, w) <=> Has(old, b, w)
    BY <1>2 DEF Arc
  <2>2. [to |-> b, distance |-> w].to = b
    OBVIOUS
  <2>3. \A m \in 1 .. Len(old) : old[m].to = d <=> m = k
    BY <1>2
  <2> HIDE DEF es, old
  <2>4. ASSUME Has(es, b, w) PROVE Has(old, b, w) /\ b # d
    BY <1>4, <2>2, <2>3, <2>4 DEF Has
  <2>5. ASSUME Has(old, b, w), b # d PROVE Has(es, b, w)
    <3>1. PICK n \in 1 .. Len(old) : old[n] = [to |-> b, distance |-> w]
      BY <2>5 DEF Has
    <3>2. n # k
      BY <2>2, <2>3, <2>5, <3>1
    <3> QED BY <1>4, <3>1, <3>2 DEF Has
  <2> QED BY <2>1, <2>4, <2>5
<1>7. \E w : Arc(s, d, w)
  <2>1. old[k] \in Edge
    BY <1>2
  <2>2. old[k] = [to |-> d, distance |-> old[k].distance]
    BY <1>2, <2>1 DEF Edge
  <2> QED BY <1>2, <2>2 DEF Arc, Has
<1> HIDE DEF es, old
<1>8. ASSUME NEW a, NEW b, NEW w
      PROVE  Arc(a, b, w)' <=> Arc(a, b, w) /\ ~(a = s /\ b = d)
  <2>1. CASE a = s
    BY <1>5, <1>6, <2>1
  <2>2. CASE a # s
    BY <1>5, <2>2
  <2> QED BY <2>1, <2>2
<1> QED BY <1>2, <1>5, <1>7, <1>8

LEMMA DestroyArcs ==
  ASSUME Inv, Destroy
  PROVE  OnList' = {} /\ \A a, b, dist : ~Arc(a, b, dist)'
<1>1. OnList' = {}
  BY DEF Destroy, OnList, Positions
<1> QED BY <1>1 DEF Arc
-----------------------------------------------------------------------------
(* No arc leaves or enters id 0. *)
ZeroUnlinked == \A a, b, dist : Arc(a, b, dist) => IdOf(a) # 0 /\ IdOf(b) # 0

LEMMA ArcEnds == ASSUME Inv, NEW a, NEW b, NEW dist, Arc(a, b, dist)
                 PROVE  a \in OnList /\ b \in OnList /\ dist \in Dist
BY ArcsMakeNet DEF NetOfArcs

LEMMA UnlinkedIsIsolated == ASSUME Inv, ZeroUnlinked PROVE ZeroIsolated
<1> SUFFICES ASSUME NEW a \in OnList
             PROVE  /\ cell[a].id = 0 => cell[a].edges = <<>>
                    /\ \A i \in 1 .. Len(cell[a].edges) : cell[cell[a].edges[i].to].id # 0
  BY DEF ZeroIsolated
<1>1. cell[a].edges \in Seq(Edge)
  BY OnListFacts DEF Inv, GraphInv
<1>2. ASSUME NEW i \in 1 .. Len(cell[a].edges)
      PROVE  cell[a].id # 0 /\ cell[cell[a].edges[i].to].id # 0
  <2>0. cell[a].edges[i] \in Edge
    BY <1>1
  <2>1. cell[a].edges[i] = [to |-> cell[a].edges[i].to, distance |-> cell[a].edges[i].distance]
    BY <2>0 DEF Edge
  <2>2. Arc(a, cell[a].edges[i].to, cell[a].edges[i].distance)
    BY <2>1 DEF Arc, Has
  <2> QED BY <2>2 DEF ZeroUnlinked, IdOf
<1>3. ASSUME cell[a].edges # <<>> PROVE cell[a].id # 0
  <2>1. 1 \in 1 .. Len(cell[a].edges)
    BY <1>1, <1>3
  <2> QED BY <1>2, <2>1
<1> QED BY <1>2, <1>3

LEMMA UnlinkedStep ==
  ASSUME Inv, Inv', ZeroUnlinked, [Next]_vars
  PROVE  ZeroUnlinked'
<1>1. CASE UNCHANGED vars
  BY <1>1 DEF vars, ZeroUnlinked, Arc, Has, IdOf, OnList, Positions
<1>2. ASSUME NEW id \in Id, NEW x \in Addr, AddVertex(id, x) PROVE ZeroUnlinked'
  BY <1>2, AddVertexArcs, ArcEnds DEF ZeroUnlinked
<1>3. ASSUME NEW id \in Id, RemoveVertex(id) PROVE ZeroUnlinked'
  BY <1>3, RemoveVertexArcs, ArcEnds DEF ZeroUnlinked
<1>4. ASSUME NEW src \in Id, NEW dst \in Id, NEW dist \in Dist, AddEdge(src, dst, dist)
      PROVE  ZeroUnlinked'
  <2>1. src # 0 /\ dst # 0
    BY <1>4 DEF AddEdge, Valid
  <2> QED BY <1>4, <2>1, AddEdgeArcs, ArcEnds DEF ZeroUnlinked
<1>5. ASSUME NEW src \in Id, NEW dst \in Id, NEW dist \in Dist, ChangeEdgeDistance(src, dst, dist)
      PROVE  ZeroUnlinked'
  BY <1>5, ChangeEdgeDistanceArcs, ArcEnds DEF ZeroUnlinked
<1>6. ASSUME NEW src \in Id, NEW dst \in Id, RemoveEdge(src, dst) PROVE ZeroUnlinked'
  BY <1>6, RemoveEdgeArcs, ArcEnds DEF ZeroUnlinked
<1>7. CASE Destroy
  BY <1>7, DestroyArcs DEF ZeroUnlinked
<1> QED BY <1>1, <1>2, <1>3, <1>4, <1>5, <1>6, <1>7 DEF Next

(* No sequence of graph calls links id 0: graph_add_edge refuses it, and   *)
(* nothing else gives a node an edge (graph.c:325).                        *)
THEOREM ZeroStaysIsolated == Spec => []ZeroIsolated
<1>1. Create => ZeroUnlinked
  BY DEF Create, ZeroUnlinked, Arc, OnList, Positions
<1>2. Inv /\ ZeroUnlinked => ZeroIsolated
  BY UnlinkedIsIsolated
<1>3. Inv /\ Inv' /\ ZeroUnlinked /\ [Next]_vars => ZeroUnlinked'
  BY UnlinkedStep
<1> QED BY <1>1, <1>2, <1>3, InvAlways, PTL DEF Spec
-----------------------------------------------------------------------------
(* The arcs as the ids see them. *)
IdArc(src, dst, dist) == \E a, b : Arc(a, b, dist) /\ IdOf(a) = src /\ IdOf(b) = dst

(* What callers see is determined by the arcs. *)
ArcsAreAll ==
  /\ \A src, dst : <<src, dst>> \in Linked <=> \E dist : IdArc(src, dst, dist)
  /\ \A src, dst, dist : IdArc(src, dst, dist) => Weight[<<src, dst>>] = dist
  /\ \A src, dst, dist : IdArc(src, dst, dist) => src \in Ids /\ dst \in Ids
  /\ \A pair \in Linked : \E src, dst : pair = <<src, dst>>
  /\ DOMAIN Weight = Linked /\ Weight = [pair \in Linked |-> Weight[pair]]

LEMMA NetIs == Inv => ArcsAreAll
<1> SUFFICES ASSUME Inv PROVE ArcsAreAll
  OBVIOUS
<1>1. NetOfArcs
  BY ArcsMakeNet
<1>2. ASSUME NEW pair \in Linked
      PROVE  \E src, dst, dist : pair = <<src, dst>> /\ IdArc(src, dst, dist)
  BY <1>1 DEF NetOfArcs, IdArc
<1>3. ASSUME NEW src, NEW dst, NEW dist, IdArc(src, dst, dist)
      PROVE  /\ <<src, dst>> \in Linked /\ Weight[<<src, dst>>] = dist
             /\ src \in Ids /\ dst \in Ids
  <2>1. PICK a, b : Arc(a, b, dist) /\ IdOf(a) = src /\ IdOf(b) = dst
    BY <1>3 DEF IdArc
  <2> QED BY <1>1, <2>1 DEF NetOfArcs
<1>4. ASSUME NEW src, NEW dst, <<src, dst>> \in Linked PROVE \E dist : IdArc(src, dst, dist)
  <2>1. PICK s, d, dist : <<src, dst>> = <<s, d>> /\ IdArc(s, d, dist)
    BY <1>2, <1>4
  <2>2. src = s /\ dst = d
    BY <2>1
  <2> QED BY <2>1, <2>2
<1>5. DOMAIN Weight = Linked /\ Weight = [pair \in Linked |-> Weight[pair]]
  BY <1>1 DEF NetOfArcs
<1> QED BY <1>2, <1>3, <1>4, <1>5 DEF ArcsAreAll

(* The graph after a step, if its arcs by id are those of F. *)
LEMMA NextWeightIs ==
  ASSUME Inv', NEW S, NEW F, F = [pair \in S |-> F[pair]],
         \A pair \in S : \E src, dst : pair = <<src, dst>>,
         \A src, dst : <<src, dst>> \in S => \E dist : IdArc(src, dst, dist)',
         \A src, dst, dist : IdArc(src, dst, dist)' =>
           <<src, dst>> \in S /\ F[<<src, dst>>] = dist
  PROVE  Weight' = F
<1>0. Inv' => ArcsAreAll'
  BY NetIs, PTL
<1>1. /\ \A src, dst : <<src, dst>> \in Linked' <=> \E dist : IdArc(src, dst, dist)'
      /\ \A src, dst, dist : IdArc(src, dst, dist)' => Weight'[<<src, dst>>] = dist
      /\ \A pair \in Linked' : \E src, dst : pair = <<src, dst>>
      /\ Weight' = [pair \in Linked' |-> Weight'[pair]]
  BY <1>0 DEF ArcsAreAll
<1>2. Linked' = S
  <2>1. \A src, dst : <<src, dst>> \in S <=> <<src, dst>> \in Linked'
    BY <1>1
  <2> QED BY <1>1, <2>1
<1>3. ASSUME NEW pair \in S PROVE Weight'[pair] = F[pair]
  <2>1. PICK src, dst : pair = <<src, dst>>
    OBVIOUS
  <2>2. PICK dist : IdArc(src, dst, dist)'
    BY <2>1
  <2>3. F[pair] = dist
    BY <2>1, <2>2
  <2> QED BY <1>1, <2>1, <2>2, <2>3
<1> QED BY <1>1, <1>2, <1>3
-----------------------------------------------------------------------------
LEMMA IdsAre == Inv => Ids = {IdOf(a) : a \in OnList}
BY ArcsMakeNet DEF NetOfArcs

(* A step that leaves the list and the ids alone leaves the ids callers see. *)
LEMMA NextIdsAre == ASSUME Inv' PROVE Ids' = {IdOf(a)' : a \in OnList'}
<1>1. Inv' => (Ids = {IdOf(a) : a \in OnList})'
  BY IdsAre, PTL
<1> QED BY <1>1

(* Two nodes of one id are one node. *)
LEMMA SameNode ==
  ASSUME Inv, NEW a, NEW b, NEW w, NEW s \in OnList, NEW d \in OnList, Arc(a, b, w)
  PROVE  /\ IdOf(a) = IdOf(s) <=> a = s
         /\ IdOf(b) = IdOf(d) <=> b = d
BY ArcEnds, UniqueOnList

LEMMA AddVertexNet ==
  ASSUME Inv, Inv', NEW id \in Id, NEW x \in Addr, AddVertex(id, x)
  PROVE  Net!Join(id)
<1>1. /\ OnList' = OnList \cup {x} /\ x \notin OnList /\ IdOf(x)' = id
      /\ \A a \in OnList : IdOf(a)' = IdOf(a)
      /\ \A a, b, dist : Arc(a, b, dist)' <=> Arc(a, b, dist)
  BY AddVertexArcs
<1>2. id \notin Ids
  BY DEF AddVertex, Ids
<1>3. Ids' = Ids \cup {id}
  BY <1>1, IdsAre, NextIdsAre
<1>4. ASSUME NEW s, NEW d, NEW w PROVE IdArc(s, d, w)' <=> IdArc(s, d, w)
  BY <1>1, ArcEnds DEF IdArc
<1>5. Weight' = Weight
  BY <1>4, NetIs, NextWeightIs DEF ArcsAreAll
<1> QED BY <1>2, <1>3, <1>5 DEF Net!Join, Weight

LEMMA RemoveVertexNet ==
  ASSUME Inv, Inv', NEW id \in Id, RemoveVertex(id)
  PROVE  Net!Leave(id)
<1>1. PICK gone \in OnList :
        /\ IdOf(gone) = id
        /\ OnList' = OnList \ {gone}
        /\ \A a \in OnList' : IdOf(a)' = IdOf(a)
        /\ \A a, b, dist : Arc(a, b, dist)' <=> Arc(a, b, dist) /\ a # gone /\ b # gone
  BY RemoveVertexArcs
<1>2. id \in Ids
  BY <1>1, IdsAre
<1>3. Ids' = Ids \ {id}
  <2>1. \A a \in OnList : IdOf(a) = id <=> a = gone
    BY <1>1, UniqueOnList
  <2> QED BY <1>1, <2>1, IdsAre, NextIdsAre
<1>4. ASSUME NEW s, NEW d, NEW w PROVE IdArc(s, d, w)' <=> IdArc(s, d, w) /\ s # id /\ d # id
  <2>1. ASSUME NEW a, NEW b, Arc(a, b, w)
        PROVE  /\ a # gone <=> IdOf(a) # id
               /\ b # gone <=> IdOf(b) # id
               /\ a # gone /\ b # gone => IdOf(a)' = IdOf(a) /\ IdOf(b)' = IdOf(b)
    BY <1>1, <2>1, ArcEnds, UniqueOnList
  <2> QED BY <1>1, <2>1 DEF IdArc
<1> DEFINE S == {pair \in Linked : id \notin {pair[1], pair[2]}}
           F == [pair \in S |-> Weight[pair]]
<1>5. /\ \A pair \in S : \E s, d : pair = <<s, d>>
      /\ \A s, d : <<s, d>> \in S <=> <<s, d>> \in Linked /\ s # id /\ d # id
  BY NetIs DEF ArcsAreAll
<1>6. ASSUME NEW s, NEW d, <<s, d>> \in S PROVE \E w : IdArc(s, d, w)'
  BY <1>4, <1>5, <1>6, NetIs DEF ArcsAreAll
<1>7. ASSUME NEW s, NEW d, NEW w, IdArc(s, d, w)'
      PROVE  <<s, d>> \in S /\ F[<<s, d>>] = w
  <2>1. IdArc(s, d, w) /\ s # id /\ d # id
    BY <1>4, <1>7
  <2>2. <<s, d>> \in Linked /\ Weight[<<s, d>>] = w
    BY <2>1, NetIs DEF ArcsAreAll
  <2>3. <<s, d>> \in S
    BY <1>5, <2>1, <2>2
  <2> QED BY <2>2, <2>3
<1>8. Weight' = F
  <2>1. F = [pair \in S |-> F[pair]]
    OBVIOUS
  <2> HIDE DEF F, S
  <2> QED BY <1>5, <1>6, <1>7, <2>1, NextWeightIs
<1>9. DOMAIN Weight = Linked
  BY NetIs DEF ArcsAreAll
<1> QED BY <1>2, <1>3, <1>8, <1>9 DEF Net!Leave, Net!Restricted, Weight

LEMMA AddEdgeNet ==
  ASSUME Inv, Inv', NEW src \in Id, NEW dst \in Id, NEW dist \in Dist, AddEdge(src, dst, dist)
  PROVE  Net!Link(src, dst, dist)
<1>1. PICK s, d \in OnList :
        /\ IdOf(s) = src /\ IdOf(d) = dst
        /\ OnList' = OnList
        /\ \A a \in OnList : IdOf(a)' = IdOf(a)
        /\ \A w : ~Arc(s, d, w)
        /\ \A a, b, w : Arc(a, b, w)' <=> Arc(a, b, w) \/ (a = s /\ b = d /\ w = dist)
  BY AddEdgeArcs
<1>2. {src, dst} \subseteq Ids
  BY <1>1, IdsAre
<1>3. Ids' = Ids
  BY <1>1, IdsAre, NextIdsAre
<1>4. <<src, dst>> \notin Linked
  <2>1. ASSUME NEW w, IdArc(src, dst, w) PROVE FALSE
    BY <1>1, <2>1, SameNode DEF IdArc
  <2> QED BY <2>1, NetIs DEF ArcsAreAll
<1>5. ASSUME NEW x, NEW y, NEW w
      PROVE  IdArc(x, y, w)' <=> IdArc(x, y, w) \/ (x = src /\ y = dst /\ w = dist)
  BY <1>1, ArcEnds DEF IdArc
<1> DEFINE S == Linked \cup {<<src, dst>>}
           F == [pair \in S |-> IF pair = <<src, dst>> THEN dist ELSE Weight[pair]]
<1>6. /\ \A pair \in S : \E x, y : pair = <<x, y>>
      /\ \A x, y : <<x, y>> \in S <=> <<x, y>> \in Linked \/ (x = src /\ y = dst)
  BY NetIs DEF ArcsAreAll
<1>7. ASSUME NEW x, NEW y, <<x, y>> \in S PROVE \E w : IdArc(x, y, w)'
  BY <1>5, <1>6, <1>7, NetIs DEF ArcsAreAll
<1>8. ASSUME NEW x, NEW y, NEW w, IdArc(x, y, w)'
      PROVE  <<x, y>> \in S /\ F[<<x, y>>] = w
  <2>1. CASE x = src /\ y = dst /\ w = dist
    BY <2>1
  <2>2. CASE IdArc(x, y, w)
    <3>1. <<x, y>> \in Linked /\ Weight[<<x, y>>] = w
      BY <2>2, NetIs DEF ArcsAreAll
    <3> QED BY <3>1, <1>4
  <2> QED BY <1>5, <1>8, <2>1, <2>2
<1>9. Weight' = F
  <2>1. F = [pair \in S |-> F[pair]]
    OBVIOUS
  <2> HIDE DEF F, S
  <2> QED BY <1>6, <1>7, <1>8, <2>1, NextWeightIs
<1>10. DOMAIN Weight = Linked
  BY NetIs DEF ArcsAreAll
<1> QED BY <1>2, <1>3, <1>4, <1>9, <1>10 DEF Net!Link, Weight

LEMMA ChangeEdgeDistanceNet ==
  ASSUME Inv, Inv', NEW src \in Id, NEW dst \in Id, NEW dist \in Dist,
         ChangeEdgeDistance(src, dst, dist)
  PROVE  Net!Reweigh(src, dst, dist)
<1>1. PICK s, d \in OnList :
        /\ IdOf(s) = src /\ IdOf(d) = dst
        /\ OnList' = OnList
        /\ \A a \in OnList : IdOf(a)' = IdOf(a)
        /\ \E w : Arc(s, d, w)
        /\ \A a, b, w : Arc(a, b, w)' <=> IF a = s /\ b = d THEN w = dist ELSE Arc(a, b, w)
  BY ChangeEdgeDistanceArcs
<1>2. Ids' = Ids
  BY <1>1, IdsAre, NextIdsAre
<1>3. <<src, dst>> \in Linked
  <2>1. \E w : IdArc(src, dst, w)
    BY <1>1 DEF IdArc
  <2> QED BY <2>1, NetIs DEF ArcsAreAll
<1>4. ASSUME NEW x, NEW y, NEW w
      PROVE  IdArc(x, y, w)' <=> IF x = src /\ y = dst THEN w = dist ELSE IdArc(x, y, w)
  <2>1. \A a, b, v : Arc(a, b, v) => a \in OnList /\ b \in OnList
    BY ArcEnds
  <2>2. \A a, b, v : Arc(a, b, v)' => a \in OnList /\ b \in OnList
    BY <1>1, <2>1
  <2>3. \A a, b \in OnList : IdOf(a) = IdOf(s) /\ IdOf(b) = IdOf(d) => a = s /\ b = d
    BY UniqueOnList
  <2>4. CASE x = src /\ y = dst
    <3>1. ASSUME IdArc(x, y, w)' PROVE w = dist
      BY <1>1, <2>2, <2>3, <2>4, <3>1 DEF IdArc
    <3>2. ASSUME w = dist PROVE IdArc(x, y, w)'
      BY <1>1, <2>4, <3>2 DEF IdArc
    <3> QED BY <2>4, <3>1, <3>2
  <2>5. CASE ~(x = src /\ y = dst)
    BY <1>1, <2>1, <2>2, <2>5 DEF IdArc
  <2> QED BY <2>4, <2>5
<1> DEFINE F == [pair \in Linked |-> IF pair = <<src, dst>> THEN dist ELSE Weight[pair]]
<1>5. \A pair \in Linked : \E x, y : pair = <<x, y>>
  BY NetIs DEF ArcsAreAll
<1>6. ASSUME NEW x, NEW y, <<x, y>> \in Linked PROVE \E w : IdArc(x, y, w)'
  BY <1>4, <1>6, NetIs DEF ArcsAreAll
<1>7. ASSUME NEW x, NEW y, NEW w, IdArc(x, y, w)'
      PROVE  <<x, y>> \in Linked /\ F[<<x, y>>] = w
  <2>1. CASE x = src /\ y = dst
    BY <1>3, <1>4, <1>7, <2>1
  <2>2. CASE ~(x = src /\ y = dst)
    <3>1. <<x, y>> \in Linked /\ Weight[<<x, y>>] = w
      BY <1>4, <1>7, <2>2, NetIs DEF ArcsAreAll
    <3> QED BY <2>2, <3>1
  <2> QED BY <2>1, <2>2
<1>8. Weight' = F
  <2>1. F = [pair \in Linked |-> F[pair]]
    OBVIOUS
  <2> HIDE DEF F
  <2> QED BY <1>5, <1>6, <1>7, <2>1, NextWeightIs
<1>9. DOMAIN Weight = Linked /\ F = [Weight EXCEPT ![<<src, dst>>] = dist]
  <2>1. DOMAIN Weight = Linked /\ Weight = [pair \in Linked |-> Weight[pair]]
    BY NetIs DEF ArcsAreAll
  <2> QED BY <2>1
<1> HIDE DEF F
<1> QED BY <1>2, <1>3, <1>8, <1>9 DEF Net!Reweigh, Weight

LEMMA RemoveEdgeNet ==
  ASSUME Inv, Inv', NEW src \in Id, NEW dst \in Id, RemoveEdge(src, dst)
  PROVE  Net!Unlink(src, dst)
<1>1. PICK s, d \in OnList :
        /\ IdOf(s) = src /\ IdOf(d) = dst
        /\ OnList' = OnList
        /\ \A a \in OnList : IdOf(a)' = IdOf(a)
        /\ \E w : Arc(s, d, w)
        /\ \A a, b, w : Arc(a, b, w)' <=> Arc(a, b, w) /\ ~(a = s /\ b = d)
  BY RemoveEdgeArcs
<1>2. Ids' = Ids
  BY <1>1, IdsAre, NextIdsAre
<1>3. <<src, dst>> \in Linked
  <2>1. \E w : IdArc(src, dst, w)
    BY <1>1 DEF IdArc
  <2> QED BY <2>1, NetIs DEF ArcsAreAll
<1>4. ASSUME NEW x, NEW y, NEW w
      PROVE  IdArc(x, y, w)' <=> IdArc(x, y, w) /\ ~(x = src /\ y = dst)
  <2>1. \A a, b, v : Arc(a, b, v) => a \in OnList /\ b \in OnList
    BY ArcEnds
  <2>2. \A a, b \in OnList : IdOf(a) = IdOf(s) /\ IdOf(b) = IdOf(d) => a = s /\ b = d
    BY UniqueOnList
  <2>3. ASSUME IdArc(x, y, w)' PROVE IdArc(x, y, w) /\ ~(x = src /\ y = dst)
    BY <1>1, <2>1, <2>2, <2>3 DEF IdArc
  <2>4. ASSUME IdArc(x, y, w), ~(x = src /\ y = dst) PROVE IdArc(x, y, w)'
    BY <1>1, <2>1, <2>4 DEF IdArc
  <2> QED BY <2>3, <2>4
<1> DEFINE S == Linked \ {<<src, dst>>}
           F == [pair \in S |-> Weight[pair]]
<1>5. /\ \A pair \in S : \E x, y : pair = <<x, y>>
      /\ \A x, y : <<x, y>> \in S <=> <<x, y>> \in Linked /\ ~(x = src /\ y = dst)
  BY NetIs DEF ArcsAreAll
<1>6. ASSUME NEW x, NEW y, <<x, y>> \in S PROVE \E w : IdArc(x, y, w)'
  BY <1>4, <1>5, <1>6, NetIs DEF ArcsAreAll
<1>7. ASSUME NEW x, NEW y, NEW w, IdArc(x, y, w)'
      PROVE  <<x, y>> \in S /\ F[<<x, y>>] = w
  <2>1. IdArc(x, y, w) /\ ~(x = src /\ y = dst)
    BY <1>4, <1>7
  <2>2. <<x, y>> \in Linked /\ Weight[<<x, y>>] = w
    BY <2>1, NetIs DEF ArcsAreAll
  <2>3. <<x, y>> \in S
    BY <1>5, <2>1, <2>2
  <2> QED BY <2>2, <2>3
<1>8. Weight' = F
  <2>1. F = [pair \in S |-> F[pair]]
    OBVIOUS
  <2> HIDE DEF F, S
  <2> QED BY <1>5, <1>6, <1>7, <2>1, NextWeightIs
<1>9. DOMAIN Weight = Linked
  BY NetIs DEF ArcsAreAll
<1> QED BY <1>2, <1>3, <1>8, <1>9 DEF Net!Unlink, Net!Restricted, Weight

LEMMA EmptyIsNet == nodes = <<>> => Ids = {} /\ Weight = [pair \in {} |-> 0]
<1> SUFFICES ASSUME nodes = <<>> PROVE Ids = {} /\ Weight = [pair \in {} |-> 0]
  OBVIOUS
<1>1. Positions = {}
  BY DEF Positions
<1>2. OnList = {} /\ Ids = {}
  BY <1>1 DEF OnList, Ids
<1>3. Linked = {}
  BY <1>2 DEF Linked
<1> QED BY <1>2, <1>3 DEF Weight

LEMMA StepIsNetStep ==
  ASSUME Inv, Inv', [Next]_vars
  PROVE  [Net!NetNext]_(Net!netvars)
<1>1. CASE UNCHANGED vars
  BY <1>1 DEF vars, Net!netvars, Ids, Positions, IdAt, Linked, OnList, EdgeDistance,
              FirstWith, FirstToId
<1>2. ASSUME NEW id \in Id, NEW a \in Addr, AddVertex(id, a) PROVE Net!NetNext
  BY <1>2, AddVertexNet DEF Net!NetNext
<1>3. ASSUME NEW id \in Id, RemoveVertex(id) PROVE Net!NetNext
  BY <1>3, RemoveVertexNet DEF Net!NetNext
<1>4. ASSUME NEW src \in Id, NEW dst \in Id, NEW dist \in Dist, AddEdge(src, dst, dist)
      PROVE  Net!NetNext
  BY <1>4, AddEdgeNet DEF Net!NetNext
<1>5. ASSUME NEW src \in Id, NEW dst \in Id, NEW dist \in Dist, ChangeEdgeDistance(src, dst, dist)
      PROVE  Net!NetNext
  BY <1>5, ChangeEdgeDistanceNet DEF Net!NetNext
<1>6. ASSUME NEW src \in Id, NEW dst \in Id, RemoveEdge(src, dst) PROVE Net!NetNext
  BY <1>6, RemoveEdgeNet DEF Net!NetNext
<1>7. CASE Destroy
  <2>1. nodes' = <<>>
    BY <1>7 DEF Destroy
  <2>2. (nodes = <<>> => Ids = {} /\ Weight = [pair \in {} |-> 0])'
    BY EmptyIsNet, PTL
  <2>3. Ids' = {} /\ Weight' = [pair \in {} |-> 0]
    BY <2>1, <2>2
  <2> QED BY <2>3 DEF Net!NetNext, Net!Clear, Weight
<1> QED BY <1>1, <1>2, <1>3, <1>4, <1>5, <1>6, <1>7 DEF Next

(* The lists of nodes and edges, with their searches from the head, head   *)
(* insertions and unlinked cells, are to their callers a set of ids with   *)
(* one distance per linked pair (graph.c:80-723).                          *)
THEOREM GraphImplementsNet == Spec => ImplementsNet
<1>1. Create => Net!NetInit
  BY EmptyIsNet DEF Create, Net!NetInit, Weight
<1>2. Inv /\ Inv' /\ [Next]_vars => [Net!NetNext]_(Net!netvars)
  BY StepIsNetStep
<1> QED BY <1>1, <1>2, InvAlways, PTL DEF Spec, ImplementsNet, Net!Spec
=============================================================================
