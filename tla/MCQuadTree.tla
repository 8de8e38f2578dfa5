------------------------------ MODULE MCQuadTree ------------------------------
(* QuadTree on a few places: the origin, two close to it, two far north. *)
EXTENDS QuadTree

At(lat, lon) == [lat |-> lat * Scale, lon |-> lon * Scale, spot |-> 0, alt |-> 0]

Places == {At(0, 0), At(10, 10), At(10, 100), At(80, 10)}
=============================================================================
