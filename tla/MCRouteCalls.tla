---------------------------- MODULE MCRouteCalls ----------------------------
(***************************************************************************)
(* Networks for RouteCalls.  Links are mutual, as point_add_edges builds   *)
(* them; a larger id was linked later, so it is nearer the list head.      *)
(***************************************************************************)
EXTENDS RouteCalls

CONSTANT Distances   \* the distances of links, 0 for no link

Pairs == {<<s, t>> \in ZergId \X ZergId : s < t}

Network(link) ==
  LET d(s, t) == link[IF s < t THEN <<s, t>> ELSE <<t, s>>]
      neighbours(s) == {t \in ZergId \ {s} : d(s, t) # 0}
      listed(s, near) == [i \in DOMAIN near |-> [to |-> near[i], distance |-> d(s, near[i])]]
  IN  [s \in ZergId |-> listed(s, SetToSortSeq(neighbours(s), >))]

AllNetworks == {Network(link) : link \in [Pairs -> Distances]}

(* Eight links of distance 1 between six zerg (see CompleteAnswer). *)
SixLinks == {<<1, 2>>, <<1, 4>>, <<1, 6>>, <<2, 4>>, <<2, 5>>, <<2, 6>>, <<3, 4>>, <<3, 5>>}
SixNetwork == {Network([p \in Pairs |-> IF p \in SixLinks THEN 1 ELSE 0])}

(* Seven zerg with near and far neighbours.  With this for Networks and    *)
(* seven ids, PathIsShortest is violated.                                  *)
Near == {<<1, 2>>, <<1, 3>>, <<1, 6>>, <<3, 4>>, <<5, 6>>, <<5, 7>>}
Mid  == {<<4, 5>>, <<4, 6>>, <<4, 7>>, <<6, 7>>}
Far  == {<<1, 7>>, <<2, 7>>, <<3, 5>>}
SevenNetwork ==
  {Network([p \in Pairs |-> IF p \in Near THEN 1 ELSE IF p \in Mid THEN 2 ELSE IF p \in Far THEN 3 ELSE 0])}
=============================================================================
