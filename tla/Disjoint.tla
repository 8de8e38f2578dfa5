------------------------------ MODULE Disjoint ------------------------------
(***************************************************************************)
(* suurballe of pathfinding.c: up to four searches (Dijkstra) between the  *)
(* same two zerg, one after the other, with distances changed in between   *)
(* and meant to be put back.  Any sequence of calls on one network;        *)
(* nothing else searches.  Allocations succeed.                            *)
(***************************************************************************)
EXTENDS Dijkstra

VARIABLES built,   \* the network as point_add_edges left it
          call     \* the call under way, or its answer

callvars == <<built, call>>

Zergs == DOMAIN built

(* What is next: a search, what its path is for, or the caller's turn. *)
None == [at |-> "none", start |-> 0, end |-> 0, routes |-> <<>>, before |-> EmptyMap, found |-> FALSE]

DisjointInit ==
  /\ SearchInit
  /\ built = adj
  /\ call = None

P(k) == call.routes[k]   \* P1, P2, P3 and P4 of the code
-----------------------------------------------------------------------------
Ask(s, t) ==
  /\ pc = "idle" /\ call = None
  /\ call' = [None EXCEPT !.at = "search", !.start = s, !.end = t, !.before = adj]
  /\ UNCHANGED <<searchvars, built>>

StartSearch ==
  /\ call.at = "search"
  /\ FindPath(call.start, call.end)
  /\ UNCHANGED callvars

(* NULL is an answer at once, whatever distances were changed.  Edges are  *)
(* made expensive and never taken out, so it can only be P1 that is NULL.  *)
TakePath ==
  /\ Return
  /\ call' = [call EXCEPT !.routes = Append(@, path),
                          !.at = IF path = <<>> THEN "answer" ELSE "path"]
  /\ UNCHANGED built

PathTaken(number) == call.at = "path" /\ Len(call.routes) = number

(* The distances change, and the call goes on. *)
Changed(left, next) ==
  /\ adj' = left
  /\ call' = next
  /\ UNCHANGED <<arguments, to_process, processed, previous, expanding, path, pc, built>>

Searching == [call EXCEPT !.at = "search"]
Answered(found) == [call EXCEPT !.at = "answer", !.found = found]

(* P1 is made expensive while P2 is found. *)
AfterFirst == PathTaken(1) /\ Changed(Avoiding(adj, P(1), AllHops(P(1))), Searching)

(* P1 is put back; where P1 and P2 overlap, both are made expensive while  *)
(* P3 is found.                                                            *)
AfterSecond ==
  /\ PathTaken(2)
  /\ LET restored == PutBack(adj, P(1), AllHops(P(1)))
     IN  \/ Apart(P(1), P(2)) /\ Changed(restored, Answered(TRUE))
         \/ ~ Apart(P(1), P(2)) /\ Changed(AvoidingOverlap(restored, P(1), P(2)), Searching)

(* P3 is made expensive while P4 is found. *)
AfterThird == PathTaken(3) /\ Changed(Avoiding(adj, P(3), AllHops(P(3))), Searching)

AfterFourth ==
  PathTaken(4) /\ Changed(AllPutBack(adj, P(1), P(2), P(3)), Answered(Apart(P(3), P(4))))

UseAnswer ==
  /\ call.at = "answer"
  /\ call' = None
  /\ UNCHANGED <<searchvars, built>>

BetweenSearches == TakePath \/ AfterFirst \/ AfterSecond \/ AfterThird \/ AfterFourth

DisjointNext ==
  \/ \E s, t \in Zergs : s # t /\ Ask(s, t)
  \/ StartSearch
  \/ Search /\ UNCHANGED callvars
  \/ BetweenSearches
  \/ UseAnswer

DisjointSpec == DisjointInit /\ [][DisjointNext]_<<searchvars, callvars>>
-----------------------------------------------------------------------------
(* The answer true is right whatever the calls before did to the distances *)
(* (pathfinding.c:194-201, 319-341).                                       *)
SoundAnswer ==
  call.at = "answer" /\ call.found => LinkedPair(Edges(built), Zergs, call.start, call.end)

(* The calls are a case of what DijkstraProofs shows of single searches:   *)
(* suurballe only ever gives edges other distances, and between searches   *)
(* (pathfinding.c:133-342).                                                *)
CallsFollowSearch == SearchSpec
=============================================================================
