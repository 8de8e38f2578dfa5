------------------------------- MODULE QuadTree -------------------------------
(***************************************************************************)
(* The tree of quadTree.c beyond the list that Points takes it for:        *)
(* qt_insert one box at a time, quadTree_search one call at a time, and    *)
(* the loop of print_quadTree_points that searches around the points of    *)
(* the root.  A node is named by the way to it from the root.              *)
(* Coordinates are in parts of a degree, so that a box can be halved.      *)
(***************************************************************************)
EXTENDS Points, FiniteSets, SequencesExt

CONSTANTS Caps,       \* sizes of the arrays of points and results (2048)
          Scale,      \* parts of a degree
          Place,      \* the positions points may have, signs dropped
          MaxPoints,  \* bound: points handed to qt_insert
          MaxSame     \* bound: how many, if all are at one place

ASSUME TreeAssumption ==
  Caps \subseteq Nat \ {0} /\ Scale \in Nat \ {0} /\ MaxPoints \in Nat /\ MaxSame \in Nat

(* The code halves boxes without rounding.  With a scale that 4 divides,   *)
(* so does the model the first five times.                                 *)
ASSUME HalvingAssumption == Scale % 4 = 0

VARIABLES cap,        \* root->sz, and the length of every result
          tree,       \* the nodes: their boxes and points
          inserted,   \* the points qt_insert returned true for, in order
          lost,       \* those it returned false for
          p,          \* the point being inserted
          todo,       \* the nodes it is still to be tried on, in order
          i,          \* the root's point that is searched around
          frames,     \* the calls of quadTree_search under way
          result,     \* what the outermost returned
          pc

inserting == <<inserted, lost, p, todo>>
searching == <<i, frames, result>>
treevars  == <<cap, tree, inserting, searching, pc>>

Root == <<>>
Quadrants == <<"NW", "NE", "SW", "SE">>

Node(lat, lon, half) == [centre |-> [lat |-> lat, lon |-> lon], half |-> half, points |-> <<>>]

Covers(node, point) == InBox(tree[node].centre, tree[node].half, point)
Split(node) == Append(node, "NW") \in DOMAIN tree

ChildrenOf(node) == [k \in 1 .. 4 |-> Append(node, Quadrants[k])]

(* Not the code: every child keeps the longitude of its parent's centre. *)
QuarterInColumn(node, quadrant) ==
  LET half == tree[node].half \div 2
      to(sign, centre) == IF sign THEN centre + half ELSE centre - half
  IN  Node(to(quadrant \in {"NE", "SE"}, tree[node].centre.lat), tree[node].centre.lon, half)

(* subdivide: west is a smaller latitude, north a greater longitude. *)
Quarter(node, quadrant) ==
  LET half == tree[node].half \div 2
      to(sign, centre) == IF sign THEN centre + half ELSE centre - half
  IN  Node(to(quadrant \in {"NE", "SE"}, tree[node].centre.lat),
           to(quadrant \in {"NW", "NE"}, tree[node].centre.lon), half)

Subdivided(node) ==
  IF Split(node) THEN tree
  ELSE [m \in DOMAIN tree \cup ToSet(ChildrenOf(node)) |->
         IF m \in DOMAIN tree THEN tree[m] ELSE Quarter(node, Last(m))]

TreeInit ==
  /\ cap \in Caps
  /\ tree = [m \in {Root} |-> Node(0, 0, 1000 * Scale)]
  /\ inserted = <<>> /\ lost = {}
  /\ p = PlainPoint(0) /\ todo = <<>>
  /\ i = 1 /\ frames = <<>> /\ result = <<>>
  /\ pc = "idle"
-----------------------------------------------------------------------------
Handed == Len(inserted) + Cardinality(lost)

Insert(place) ==
  /\ pc = "idle"
  /\ \/ Handed < MaxPoints
     \/ Handed < MaxSame /\ \A q \in ToSet(inserted) : q.at = place
  /\ p' = [zerg_id |-> Handed + 1, at |-> place]
  /\ todo' = <<Root>>
  /\ pc' = "insert"
  /\ UNCHANGED <<cap, tree, inserted, lost, searching>>

Outside ==
  /\ pc = "insert" /\ todo # <<>>
  /\ ~ Covers(Head(todo), p)
  /\ todo' = Tail(todo)
  /\ UNCHANGED <<cap, tree, inserted, lost, p, searching, pc>>

Room(node) == Len(tree[node].points) < cap /\ ~ Split(node)

Store ==
  /\ pc = "insert" /\ todo # <<>>
  /\ Covers(Head(todo), p) /\ Room(Head(todo))
  /\ tree' = [tree EXCEPT ![Head(todo)].points = Append(@, p)]
  /\ inserted' = Append(inserted, p)
  /\ todo' = <<>>
  /\ pc' = "idle"
  /\ UNCHANGED <<cap, lost, p, searching>>

(* Its children are tried in order, before what the callers try next. *)
Descend ==
  /\ pc = "insert" /\ todo # <<>>
  /\ Covers(Head(todo), p) /\ ~ Room(Head(todo))
  /\ tree' = Subdivided(Head(todo))
  /\ todo' = ChildrenOf(Head(todo)) \o Tail(todo)
  /\ UNCHANGED <<cap, inserted, lost, p, searching, pc>>

Lose ==
  /\ pc = "insert" /\ todo = <<>>
  /\ lost' = lost \cup {p}
  /\ pc' = "idle"
  /\ UNCHANGED <<cap, tree, inserted, p, todo, searching>>
-----------------------------------------------------------------------------
StartLinking ==
  /\ pc = "idle"
  /\ pc' = "link"
  /\ UNCHANGED <<cap, tree, inserting, searching>>

Centre == tree[Root].points[i].at

(* Not the code: the last point of a node is never looked at. *)
OwnButLast(node, centre) == Within(Front(tree[node].points), centre, 30 * Scale)

(* The points of the node itself that are in range. *)
Own(node, centre) == Within(tree[node].points, centre, 30 * Scale)

Frame(node) == [node |-> node, result |-> Own(node, Centre), child |-> 1]

SearchAround ==
  /\ pc = "link" /\ i <= Len(tree[Root].points)
  /\ frames' = <<Frame(Root)>>
  /\ pc' = "search"
  /\ UNCHANGED <<cap, tree, inserting, i, result>>

Top == Last(frames)
Finished == ~ Split(Top.node) \/ Top.child > 4

SearchChild ==
  /\ pc = "search" /\ ~ Finished
  /\ frames' = Append(frames, Frame(ChildrenOf(Top.node)[Top.child]))
  /\ UNCHANGED <<cap, tree, inserting, i, result, pc>>

NothingFound ==
  /\ pc = "search" /\ Finished /\ Len(frames) > 1
  /\ Top.result = <<>>
  /\ frames' = [Front(frames) EXCEPT ![Len(frames) - 1].child = @ + 1]
  /\ UNCHANGED <<cap, tree, inserting, i, result, pc>>

Caller == frames[Len(frames) - 1]

(* The index into the child's result is never advanced: its first point is *)
(* copied over and over, until the write is beyond the caller's result.    *)
CopyAgain ==
  /\ pc = "search" /\ Finished /\ Len(frames) > 1
  /\ Top.result # <<>>
  /\ IF Len(Caller.result) < cap
     THEN /\ frames' = [frames EXCEPT ![Len(frames) - 1].result = Append(@, Head(Top.result))]
          /\ UNCHANGED pc
     ELSE pc' = "overrun" /\ UNCHANGED frames
  /\ UNCHANGED <<cap, tree, inserting, i, result>>

SearchDone ==
  /\ pc = "search" /\ Finished /\ Len(frames) = 1
  /\ result' = Top.result /\ frames' = <<>>
  /\ pc' = "found"
  /\ UNCHANGED <<cap, tree, inserting, i>>

(* Not the code: point_add_edges also frees where it returns early. *)
FreedBelow == TRUE

(* point_add_edges (see Points!ResultLinked) frees a result that is full:  *)
(* only a NULL in it makes the function return before.                     *)
FreedInside == Len(result) = cap

FreeResult ==
  /\ pc = "found"
  /\ IF FreedInside
     THEN pc' = "freed twice" /\ UNCHANGED i
     ELSE pc' = "link" /\ i' = i + 1
  /\ result' = <<>>
  /\ UNCHANGED <<cap, tree, inserting, frames>>

LinkingDone ==
  /\ pc = "link" /\ i > Len(tree[Root].points)
  /\ pc' = "linked"
  /\ UNCHANGED <<cap, tree, inserting, searching>>

Inserting == Outside \/ Store \/ Descend \/ Lose
Searching == SearchAround \/ SearchChild \/ NothingFound \/ CopyAgain \/ SearchDone \/ FreeResult \/ LinkingDone

TreeNext == (\E place \in Place : Insert(place)) \/ Inserting \/ StartLinking \/ Searching

(* An insertion and the linking run on to their end: one thread. *)
TreeSpec == TreeInit /\ [][TreeNext]_treevars /\ WF_treevars(Inserting \/ Searching)
-----------------------------------------------------------------------------
(* A search that returns hands back the points in range, each once and in  *)
(* the order of insertion, also from a tree that was subdivided: what      *)
(* Points!Found says of the list (quadTree.c:308-367).                     *)
SearchExact ==
  pc = "found" => result = Within(inserted, Centre, 30 * Scale)

OnEarth(at) == at.lat \in 0 .. 90 * Scale /\ at.lon \in 0 .. 180 * Scale

(* No point of the earth is lost before sixteen nodes are full; positions  *)
(* are not checked, and one off the root's box is lost at once.  From the  *)
(* fifth halving on, the lower bound of the longitude, taken from a        *)
(* latitude, leaves gaps between the four boxes, but until then it makes   *)
(* them overlap, and a point refused in one is tried in the next           *)
(* (quadTree.c:127, 256-305).                                              *)
NoneLostEarly == \A q \in lost : OnEarth(q.at) => Len(inserted) >= 16 * cap

(* As long as the root has room left the linking comes to its end: no      *)
(* search runs on, and no result is freed twice (quadTree.c:346, 397, 455).*)
LinkingEnds == pc = "link" /\ Len(inserted) < cap ~> pc = "linked"
=============================================================================
