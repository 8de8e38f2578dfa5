-------------------------------- MODULE Paths --------------------------------
(***************************************************************************)
(* The steps of which pathfinding.c makes its paths, an id and the         *)
(* distance of the edge into it, and how suurballe compares paths and      *)
(* changes distances along them.                                           *)
(***************************************************************************)
EXTENDS Integers, Sequences

CONSTANTS ZergId,     \* the ids in play
          Expensive   \* 9999, the distance of an edge a search should avoid

ASSUME PathAssumption == ZergId \subseteq Nat /\ Expensive \in Nat

NoStep == [data |-> 0, distance |-> 0]   \* the NULL kept for the start

DataOf(path, ks) == {path[k].data : k \in ks}
PathNodes(path)  == DataOf(path, 1 .. Len(path))

AllHops(path) == 1 .. Len(path) - 1
-----------------------------------------------------------------------------
(* Not the code: the first inner node forgotten. *)
InternalFrom3(path) == DataOf(path, 3 .. Len(path) - 1)

Internal(path)   == DataOf(path, 2 .. Len(path) - 1)

(* Not the code: no overlap found. *)
NoOverlap(path, other) == {}

(* The hops the overlap loops of suurballe pick: past the first, into an   *)
(* inner node of the other path.                                           *)
OverlapHops(path, other) == {k \in 2 .. Len(path) - 1 : path[k + 1].data \in Internal(other)}

(* change_edge_distance along the chosen hops of a path; dist is what hop  *)
(* k is set to.                                                            *)
Reweighed(adj, path, ks, dist(_)) ==
  LET hop(s, t) == {k \in ks : path[k].data = s /\ path[k + 1].data = t}
  IN  [s \in DOMAIN adj |->
        [i \in 1 .. Len(adj[s]) |->
          LET e == adj[s][i] IN
          IF hop(s, e.to) = {} THEN e
          ELSE [e EXCEPT !.distance = dist(CHOOSE k \in hop(s, e.to) : TRUE)]]]

(* Not the code: each hop gets the distance of the one before. *)
PutBackShifted(adj, path, ks) == Reweighed(adj, path, ks, LAMBDA k : path[k].distance)

(* Not the code: the hops are taken out of the lists. *)
CutOut(adj, path, ks) ==
  [s \in DOMAIN adj |-> SelectSeq(adj[s], LAMBDA e : ~ \E k \in ks : path[k].data = s /\ path[k + 1].data = e.to)]

Avoiding(adj, path, ks) == Reweighed(adj, path, ks, LAMBDA k : Expensive)
PutBack(adj, path, ks)  == Reweighed(adj, path, ks, LAMBDA k : path[k + 1].distance)

(* No inner node of a path is on the other. *)
Apart(path, other) == Internal(path) \cap PathNodes(other) = {}

AvoidingOverlap(adj, P1, P2) ==
  Avoiding(Avoiding(adj, P1, OverlapHops(P1, P2)), P2, OverlapHops(P2, P1))

AllPutBack(adj, P1, P2, P3) ==
  PutBack(PutBack(PutBack(adj, P3, AllHops(P3)), P1, OverlapHops(P1, P2)), P2, OverlapHops(P2, P1))
=============================================================================
