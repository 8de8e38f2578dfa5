-------------------------------- MODULE Mesh --------------------------------
(***************************************************************************)
(* What is true of a network, defined on its edges alone: reachability,    *)
(* bridges, pairs with two disjoint routes and shortest distances.  The    *)
(* properties compare the program's answers with these definitions.        *)
(***************************************************************************)
EXTENDS Integers, Sequences, FiniteSetsExt

Edges(adj) == {e \in (DOMAIN adj) \X (DOMAIN adj) : \E i \in 1 .. Len(adj[e[1]]) : adj[e[1]][i].to = e[2]}

(* The distance of an edge. *)
DistanceOf(adj, s, t) == adj[s][CHOOSE i \in 1 .. Len(adj[s]) : adj[s][i].to = t].distance

(* t can be reached from s through via: no part of via that contains what  *)
(* s reaches is closed under the edges.                                    *)
Reaches(edges, s, t, via) ==
  \A part \in SUBSET via :
    \E u \in part \cup {s}, v \in (via \ part) \cup {t} : <<u, v>> \in edges

(* Two routes with no inner zerg in common: one inside a set of the other  *)
(* zerg, one outside of it.                                                *)
TwoDisjointRoutes(edges, zergs, s, t) ==
  \E one \in SUBSET (zergs \ {s, t}) :
    /\ Reaches(edges, s, t, one)
    /\ Reaches(edges, s, t, zergs \ (one \cup {s, t}))

(* What check_connectivity counts: "immediate neighbors and nodes that     *)
(* have two disjoint paths" (graph.c:547-549).                             *)
LinkedPair(edges, zergs, s, t) == <<s, t>> \in edges \/ TwoDisjointRoutes(edges, zergs, s, t)

FullyLinked(edges, zergs) ==
  \A s, t \in zergs : s # t => LinkedPair(edges, zergs, s, t)

(* An edge without which its ends are cut off from each other. *)
IsBridge(edges, zergs, s, t) == ~ Reaches(edges \ {<<s, t>>}, s, t, zergs \ {s, t})

Unreachable == 1000000

(* The length of a shortest route from s, by the number of hops allowed. *)
ShortestLength(adj, s, t) ==
  LET zergs == DOMAIN adj
      best[hops \in 0 .. Cardinality(zergs), v \in zergs] ==
        IF hops = 0 THEN (IF v = s THEN 0 ELSE Unreachable)
        ELSE Min({best[hops - 1, v]} \cup
                 {best[hops - 1, u] + DistanceOf(adj, u, v) : u \in {x \in zergs : <<x, v>> \in Edges(adj)}})
  IN  best[Cardinality(zergs), t]
=============================================================================
