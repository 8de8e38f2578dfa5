----------------------------- MODULE MCRemoval -----------------------------
(***************************************************************************)
(* Removal on all networks of a few zerg, listed in every order.  Links    *)
(* are mutual; id 0 can have none.                                         *)
(***************************************************************************)
EXTENDS Removal

CONSTANT Sizes   \* bound: how many zerg a network has

Mutual(zergs) == {p \in SUBSET zergs : Cardinality(p) = 2 /\ 0 \notin p}

Adjacency(zergs, links) ==
  [s \in zergs |->
    LET near == {t \in zergs : {s, t} \in links}
    IN  [i \in 1 .. Cardinality(near) |-> [to |-> SetToSortSeq(near, >)[i], distance |-> 1]]]

AllNetworks ==
  UNION {{[nodes |-> order, adj |-> Adjacency(zergs, links)] :
            order \in SetToSeqs(zergs), links \in SUBSET Mutual(zergs)} :
         zergs \in {z \in SUBSET ZergId : Cardinality(z) \in Sizes}}

=============================================================================
