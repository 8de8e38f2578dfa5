------------------------------- MODULE MCGraph -------------------------------
(***************************************************************************)
(* Graph on a few addresses; the bound keeps the edge lists short.         *)
(***************************************************************************)
EXTENDS Graph, FiniteSetsExt, TLC

CONSTANT MaxEdges   \* bound: edges in the whole graph

FewEdges == MapThenSumSet(LAMBDA a : Len(cell[a].edges), OnList) <= MaxEdges

AddrSymmetry == Permutations(Addr)
=============================================================================
