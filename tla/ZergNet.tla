------------------------------- MODULE ZergNet -------------------------------
(***************************************************************************)
(* What graph.c promises its callers: a directed graph over zerg ids, with *)
(* at most one weighted edge from one id to another.                       *)
(***************************************************************************)
EXTENDS Integers

CONSTANTS Id, Dist

VARIABLES zergs,   \* the ids in the graph
          weight   \* the distance of each pair <<src, dst>> that is an edge

netvars == <<zergs, weight>>

NetInit == zergs = {} /\ weight = [pair \in {} |-> 0]

Restricted(pairs) == [pair \in pairs |-> weight[pair]]

Join(id) ==
  /\ id \notin zergs
  /\ zergs' = zergs \cup {id}
  /\ UNCHANGED weight

(* A zerg that leaves takes every edge from it and to it along. *)
Leave(id) ==
  /\ id \in zergs
  /\ zergs' = zergs \ {id}
  /\ weight' = Restricted({pair \in DOMAIN weight : id \notin {pair[1], pair[2]}})

Link(src, dst, dist) ==
  /\ {src, dst} \subseteq zergs
  /\ <<src, dst>> \notin DOMAIN weight
  /\ weight' = [pair \in DOMAIN weight \cup {<<src, dst>>} |->
                  IF pair = <<src, dst>> THEN dist ELSE weight[pair]]
  /\ UNCHANGED zergs

Reweigh(src, dst, dist) ==
  /\ <<src, dst>> \in DOMAIN weight
  /\ weight' = [weight EXCEPT ![<<src, dst>>] = dist]
  /\ UNCHANGED zergs

Unlink(src, dst) ==
  /\ <<src, dst>> \in DOMAIN weight
  /\ weight' = Restricted(DOMAIN weight \ {<<src, dst>>})
  /\ UNCHANGED zergs

Clear == zergs' = {} /\ weight' = [pair \in {} |-> 0]

NetNext ==
  \/ \E id \in Id : Join(id) \/ Leave(id)
  \/ \E src, dst \in Id : Unlink(src, dst) \/ \E dist \in Dist :
       Link(src, dst, dist) \/ Reweigh(src, dst, dist)
  \/ Clear

Spec == NetInit /\ [][NetNext]_netvars
=============================================================================
