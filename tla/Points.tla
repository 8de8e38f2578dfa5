-------------------------------- MODULE Points --------------------------------
(***************************************************************************)
(* quadTree.c: the points zerg were heard at, and the links that           *)
(* print_quadTree_points makes of them.  Up to 2048 points the root never  *)
(* subdivides and the tree is a list in the order of insertion; this       *)
(* module stays below that.                                                *)
(* A position is a cell of one degree, a spot in it, in metres along a     *)
(* line, and an altitude in metres; spots of different cells are far       *)
(* apart.  Distances of links are in thousandths of the code's unit, which *)
(* is a kilometre across and a metre upwards.                              *)
(***************************************************************************)
EXTENDS Integers, Sequences

Abs(x) == IF x > 0 THEN x ELSE -x

Nowhere == [lat |-> 0, lon |-> 0, spot |-> 0, alt |-> 0]

(* create_zerg_point: the signs of a fix are dropped; a zerg without a fix *)
(* is put at 0, 0.                                                         *)
PlainPoint(id) == [zerg_id |-> id, at |-> Nowhere]
ZergPoint(id, fix) == [zerg_id |-> id, at |-> [fix EXCEPT !.lat = Abs(@), !.lon = Abs(@)]]

(* box_contains_point: the lower bound of the longitude is taken from the  *)
(* latitude of the centre.                                                 *)
InBox(centre, half, p) ==
  /\ p.at.lat >= centre.lat - half /\ p.at.lat <= centre.lat + half
  /\ p.at.lon >= centre.lat - half /\ p.at.lon <= centre.lon + half

Inserted(points, p) == IF InBox(Nowhere, 1000, p) THEN Append(points, p) ELSE points

(* The points of a list that are in a box, in the order of the list. *)
Within(points, centre, half) ==
  LET found[k \in 0 .. Len(points)] ==
        IF k = 0 THEN <<>>
        ELSE IF InBox(centre, half, points[k]) THEN Append(found[k - 1], points[k]) ELSE found[k - 1]
  IN  found[Len(points)]

(* The result of the search around a point. *)
Found(points, centre) == Within(points, centre, 30)

SameCell(a, b) == a.lat = b.lat /\ a.lon = b.lon
Metres(a, b)   == Abs(a.spot - b.spot)
AltGap(a, b)   == Abs(a.alt - b.alt)

(* The tests of point_add_edges: more than 0 and at most 15 m across, or   *)
(* the same place and at most 15 m, 0 included, upwards (quadTree.c:422,   *)
(* 431).  Its comment says "greater than 0 and less than 15m" (411-412):   *)
(* code and comment differ at 0 and at exactly 15 m, and this is the code. *)
Across(a, b)  == SameCell(a, b) /\ Metres(a, b) \in 1 .. 15
Upwards(a, b) == SameCell(a, b) /\ Metres(a, b) = 0 /\ AltGap(a, b) <= 15

(* graph_add_edge on lists of edges by id. *)
WithEdge(adj, s, t, distance) ==
  IF s = 0 \/ t = 0 \/ ~ ({s, t} \subseteq DOMAIN adj) \/ (\E i \in DOMAIN adj[s] : adj[s][i].to = t)
  THEN adj
  ELSE [adj EXCEPT ![s] = <<[to |-> t, distance |-> distance]>> \o @]

Distance(a, b) == IF Across(a, b) THEN Metres(a, b) ELSE 1000 * AltGap(a, b)

(* Not the code: only the one direction. *)
PairOneWay(adj, p, q) ==
  IF Across(p.at, q.at) \/ Upwards(p.at, q.at)
  THEN WithEdge(adj, p.zerg_id, q.zerg_id, Distance(p.at, q.at))
  ELSE adj

(* The body of the inner loop of point_add_edges: there and back. *)
PairLinked(adj, p, q) ==
  IF Across(p.at, q.at) \/ Upwards(p.at, q.at)
  THEN WithEdge(WithEdge(adj, p.zerg_id, q.zerg_id, Distance(p.at, q.at)),
                q.zerg_id, p.zerg_id, Distance(p.at, q.at))
  ELSE adj

(* point_add_edges on one search result: the inner loop, which pairs point *)
(* i with those behind it, and the outer one.                              *)
RowLinked(adj, result, i) ==
  LET row[j \in i .. Len(result)] ==
        IF j = i THEN adj ELSE PairLinked(row[j - 1], result[i], result[j])
  IN  row[Len(result)]

ResultLinked(adj, result) ==
  LET rows[i \in 0 .. Len(result)] == IF i = 0 THEN adj ELSE RowLinked(rows[i - 1], result, i)
  IN  rows[Len(result)]

(* print_quadTree_points: a search around every point. *)
AllLinked(adj, points) ==
  LET linked[i \in 0 .. Len(points)] ==
        IF i = 0 THEN adj ELSE ResultLinked(linked[i - 1], Found(points, points[i].at))
  IN  linked[Len(points)]
=============================================================================
