-------------------------------- MODULE ZergMap --------------------------------
(***************************************************************************)
(* A whole run of the program: the files are decoded and the zerg linked   *)
(* (Capture), links are counted and zerg removed (Removal) from the graph  *)
(* that the decoding left, and what is still in the graph is reported.     *)
(* The two components share the edges; Removal's list of nodes is the list *)
(* of Capture's vertices that are left.  MCCapture records what each zerg  *)
(* has sent, to compare the reports with.                                  *)
(***************************************************************************)
EXTENDS MCCapture

CONSTANT Expensive

VARIABLES left,         \* ids still on g->nodes, head first
          pq, zerg_count, n, total, remove, curr, other, count, stage, said,
                        \* see Removal
          low, no_gps,  \* the sets the last two reports print
          shown         \* the reports printed so far

R == INSTANCE Removal WITH ZergId <- Id, Networks <- {}, nodes <- left, pc <- stage

counting    == <<curr, other, count>>
removalvars == <<left, pq, counting, zerg_count, n, total, remove, stage, said>>
reportvars  == <<low, no_gps, shown>>
runvars     == <<mcvars, removalvars, reportvars>>

heard == <<threshold, files_left, stats, headers, zhdr, nodes, points>>

MapInit ==
  /\ MCInit
  /\ left = <<>> /\ pq = R!EmptyQueue /\ curr = 1 /\ other = 1 /\ count = 0
  /\ zerg_count = 0 /\ n = 0 /\ total = 0 /\ remove = {}
  /\ stage = "decode" /\ said = "nothing"
  /\ low = {} /\ no_gps = {} /\ shown = {}

Decode == MCNext /\ UNCHANGED <<removalvars, reportvars>>

(* Not the code: one zerg is not counted. *)
StartRemovalShort ==
  /\ pc = "linked" /\ stage = "decode"
  /\ left' = [k \in 1 .. Len(nodes) |-> nodes[k].id]
  /\ zerg_count' = Len(nodes) - 1
  /\ stage' = "count"
  /\ UNCHANGED <<mcvars, pq, counting, n, total, remove, said, reportvars>>

StartRemoval ==
  /\ pc = "linked" /\ stage = "decode"
  /\ left' = [k \in 1 .. Len(nodes) |-> nodes[k].id]
  /\ zerg_count' = Len(nodes)
  /\ stage' = "count"
  /\ UNCHANGED <<mcvars, pq, counting, n, total, remove, said, reportvars>>

RemovalStep ==
  /\ R!AskPair \/ R!EnqueueCount \/ R!FirstCountDone \/ R!TakeLeastLinked \/ R!RecountDone \/ R!Report
  /\ UNCHANGED <<heard, pc, sent_fix, sent_low, reportvars>>

InGraph == {nodes[k] : k \in {i \in 1 .. Len(nodes) : nodes[i].id \in R!Survivors}}

(* A set cannot hold 0. *)
ShowLowHealth ==
  /\ stage = "done" /\ shown = {}
  /\ low' = {v.id : v \in {u \in InGraph : u.health}} \ {0}
  /\ shown' = {"low health"}
  /\ UNCHANGED <<mcvars, removalvars, no_gps>>

ShowNoGps ==
  /\ shown = {"low health"}
  /\ no_gps' = {v.id : v \in {u \in InGraph : u.fix = NoFix}} \ {0}
  /\ shown' = {"low health", "no gps"}
  /\ UNCHANGED <<mcvars, removalvars, low>>

MapNext == Decode \/ StartRemoval \/ RemovalStep \/ ShowLowHealth \/ ShowNoGps

MapSpec == MapInit /\ [][MapNext]_runvars
-----------------------------------------------------------------------------
(* Zerg that were heard at positions less than 15 m apart, whether at the  *)
(* same time or not.  The point that create_zerg_point puts at 0, 0 for a  *)
(* packet without a position (quadTree.c:65-75) is no place to be heard at.*)
CloseBy ==
  {link \in Ids \X Ids :
     \E i, j \in 1 .. Len(points) :
       /\ link = <<points[i].zerg_id, points[j].zerg_id>>
       /\ Nowhere \notin {points[i].at, points[j].at}
       /\ SameCell(points[i].at, points[j].at) /\ Separation(points[i].at, points[j].at) < 15}

(* A point at 0, 0 that stands for no position makes a link to another     *)
(* zerg.  Such links are the subject of ListedUnconnected.                 *)
PlaceholderLinked ==
  \E i, j \in 1 .. Len(points) :
    /\ points[i].at = Nowhere /\ points[i].zerg_id # points[j].zerg_id
    /\ Across(points[i].at, points[j].at) \/ Upwards(points[i].at, points[j].at)

(* What a run prints is right about where the zerg were heard, not only    *)
(* about the edges it made: if they are called fully connected, or some    *)
(* are to be removed, any two others were heard close by or have two       *)
(* disjoint routes of zerg that were, whatever files, packets and payloads *)
(* told of them (graph.c:592-628; quadTree.c:384-456).  Spared are id 0,   *)
(* which takes no part in links (graph.c:325), and runs in which zerg      *)
(* without a position were linked to each other at 0, 0.                   *)
SurvivorsCloseBy ==
  /\ said \in {"fully connected", "remove these"}
  /\ 0 \notin Ids /\ ~ PlaceholderLinked
  => R!FullyLinked(CloseBy, Ids \ remove)

(* "Displays all Zerg IDs that have no associated GPS data"                *)
(* (zergmap-driver.c:135): a zerg that never sent a position is not lost   *)
(* although the reports are made of what recommend_removal left in the     *)
(* graph.  It is on the list of removals or in the last report, and a zerg *)
(* with a position is not in that report.  Only id 0 and runs that print   *)
(* no list are spared (zergmap-driver.c:125-138; graph.c:609-615, 658-681).*)
(* The comment and the title in graph.c describe another list: see         *)
(* ListedUnconnected.                                                      *)
UnplacedReported ==
  "no gps" \in shown =>
    LET unplaced == {id \in Ids \ {0} : sent_fix[id] = NoFix}
    IN  /\ no_gps \subseteq unplaced
        /\ said # "exceeds half" => unplaced \subseteq no_gps \cup remove

(* "displays zerg that are not connected to other zerg" (graph.c:656), and *)
(* the title printed above the list (graph.c:675): no zerg on it is linked *)
(* to another that is still in the graph.                                  *)
ListedUnconnected ==
  "no gps" \in shown => \A id \in no_gps : \A e \in 1 .. Len(adj[id]) : adj[id][e].to = id
=============================================================================
