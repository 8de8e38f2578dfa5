--------------------------- MODULE DijkstraProofs ---------------------------
(***************************************************************************)
(* path_dijkstra returns a route, on every network and whatever distances  *)
(* its edges are given between calls.  Distances play no part: that stale  *)
(* queue entries overwrite the map of predecessors does no harm because a  *)
(* zerg's predecessor is never replaced once the zerg is expanded, and is  *)
(* expanded before it.  Then the calls of suurballe (Disjoint), which are  *)
(* such searches with changes of distances between them and answer true    *)
(* only of linked pairs, and the same calls on the array heap (RouteCalls),*)
(* which stands for the bag at every step and ends where the operators of  *)
(* Pathfinding say.                                                        *)
(***************************************************************************)
EXTENDS RouteCalls, HeapProofs

Step == [data : ZergId \cup {0}, distance : Nat]

Hop(network, u, v, distance) ==
  /\ u \in DOMAIN network \ {0}
  /\ \E i \in 1 .. Len(network[u]) : network[u][i] = [to |-> v, distance |-> distance]

(* u comes before v in a sequence. *)
Precedes(order, u, v) ==
  \E i, j \in 1 .. Len(order) : i < j /\ order[i] = u /\ order[j] = v

NetworkOK ==
  /\ DOMAIN adj \subseteq ZergId
  /\ \A s \in DOMAIN adj : adj[s] \in Seq([to : DOMAIN adj \ {0}, distance : Nat])

TypeInv ==
  /\ NetworkOK
  /\ start \in ZergId \cup {0} /\ end \in ZergId \cup {0}
  /\ DOMAIN to_process \subseteq [distance : Nat, obj : ZergId]
  /\ processed \in Seq(ZergId \ {0})
  /\ DOMAIN previous \subseteq ZergId \ {0}
  /\ previous \in [DOMAIN previous -> Step]
  /\ curr_distance \in Nat /\ curr_node \in ZergId \cup {0}
  /\ edge \in Nat \ {0}
  /\ path \in Seq(Step)
  /\ pc \in {"idle", "loop", "visit", "walk", "found"}

Idle ==
  pc = "idle" =>
    /\ DOMAIN to_process = {} /\ processed = <<>> /\ DOMAIN previous = {}

(* The zerg whose edges are being visited. *)
Current == IF pc = "visit" THEN {curr_node} ELSE {}

Distinct == \A i, j \in 1 .. Len(processed) : processed[i] = processed[j] => i = j

(* Start is the one zerg without a predecessor; 0 is in nobody's way. *)
StartInv ==
  /\ start = 0 => DOMAIN previous = {}
  /\ start # 0 /\ pc # "idle" => start \in DOMAIN previous /\ previous[start] = NoStep
  /\ 0 \in Queued \cup Current => start = 0
  /\ pc = "loop" => start \in Expanded \/ Queued \subseteq {start}
  /\ pc = "visit" => start \in Expanded \cup {curr_node}

(* The map holds what is expanded, being visited or queued. *)
MapInv ==
  /\ Expanded \subseteq DOMAIN previous
  /\ (Queued \cup Current) \ {0} \subseteq DOMAIN previous
  /\ DOMAIN previous \subseteq Expanded \cup Queued \cup Current

PredecessorInv ==
  \A v \in DOMAIN previous \ {start} :
    /\ Hop(adj, previous[v].data, v, previous[v].distance)
    /\ previous[v].data # v
    /\ previous[v].data \in Expanded \cup Current
    /\ v \in Expanded => Precedes(processed, previous[v].data, v)

(* What an expanded zerg is linked to is in the map. *)
ClosedInv ==
  /\ \A u \in Expanded : \A i \in 1 .. Len(EdgesOf(u)) : EdgesOf(u)[i].to \in DOMAIN previous
  /\ pc = "visit" =>
       \A i \in 1 .. Len(EdgesOf(curr_node)) : i < edge => EdgesOf(curr_node)[i].to \in DOMAIN previous

(* The search ends with its end expanded, or with everything expanded. *)
SettledInv ==
  pc \in {"walk", "found"} =>
    IF end \in DOMAIN previous THEN end \in Expanded ELSE DOMAIN previous \subseteq Expanded

(* The steps walked so far, from the end. *)
Walked ==
  /\ path[Len(path)].data = end
  /\ \A k, l \in 1 .. Len(path) : k < l => Precedes(processed, path[k].data, path[l].data)
  /\ \A k \in AllHops(path) : Hop(adj, path[k].data, path[k + 1].data, path[k + 1].distance)

WalkInv ==
  /\ pc \in {"idle", "loop", "visit"} => path = <<>>
  /\ pc = "walk" =>
       IF path = <<>> THEN curr_node = end
       ELSE /\ Walked
            /\ curr_node \in Expanded
            /\ Hop(adj, curr_node, path[1].data, path[1].distance)
            /\ \A k \in 1 .. Len(path) : Precedes(processed, curr_node, path[k].data)
  /\ pc = "found" =>
       IF path = <<>> THEN end \notin DOMAIN previous
       ELSE Walked /\ path[1] = [data |-> start, distance |-> 0]

SearchInv ==
  /\ TypeInv /\ Idle /\ Distinct
  /\ StartInv /\ MapInv /\ PredecessorInv /\ ClosedInv /\ SettledInv /\ WalkInv
-----------------------------------------------------------------------------
LEMMA BagAddDomain ==
  ASSUME NEW bag, NEW x PROVE DOMAIN BagAdd(bag, x) = DOMAIN bag \cup {x}
BY DEF BagAdd

LEMMA BagRemoveDomain ==
  ASSUME NEW bag, NEW x
  PROVE  DOMAIN bag \ {x} \subseteq DOMAIN BagRemove(bag, x) /\ DOMAIN BagRemove(bag, x) \subseteq DOMAIN bag
BY DEF BagRemove

(* Order among the expanded zerg outlives the next one. *)
LEMMA PrecedesAppend ==
  ASSUME NEW S, NEW order \in Seq(S), NEW x \in S
  PROVE  /\ \A u, v : Precedes(order, u, v) => Precedes(Append(order, x), u, v)
         /\ \A k \in 1 .. Len(order) : Precedes(Append(order, x), order[k], x)
<1> DEFINE longer == Append(order, x)
<1>1. Len(longer) = Len(order) + 1 /\ longer[Len(order) + 1] = x
  OBVIOUS
<1>2. \A k \in 1 .. Len(order) : longer[k] = order[k]
  OBVIOUS
<1> HIDE DEF longer
<1>3. Len(order) \in Nat
  OBVIOUS
<1>4. ASSUME NEW u, NEW v, Precedes(order, u, v) PROVE Precedes(longer, u, v)
  BY <1>1, <1>2, <1>3, <1>4 DEF Precedes
<1>5. ASSUME NEW k \in 1 .. Len(order) PROVE Precedes(longer, order[k], x)
  BY <1>1, <1>2, <1>3 DEF Precedes
<1> QED BY <1>4, <1>5 DEF longer

LEMMA PrecedesTransitive ==
  ASSUME NEW S, NEW order \in Seq(S), \A i, j \in 1 .. Len(order) : order[i] = order[j] => i = j,
         NEW u, NEW v, NEW w, Precedes(order, u, v), Precedes(order, v, w)
  PROVE  Precedes(order, u, w)
<1>1. PICK i, j \in 1 .. Len(order) : i < j /\ order[i] = u /\ order[j] = v
  BY DEF Precedes
<1>2. PICK k, l \in 1 .. Len(order) : k < l /\ order[k] = v /\ order[l] = w
  BY DEF Precedes
<1>3. j = k
  BY <1>1, <1>2
<1>4. i < l
  BY <1>1, <1>2, <1>3
<1> QED BY <1>1, <1>2, <1>4 DEF Precedes

LEMMA NotBeforeItself ==
  ASSUME NEW S, NEW order \in Seq(S), \A i, j \in 1 .. Len(order) : order[i] = order[j] => i = j, NEW u
  PROVE  ~ Precedes(order, u, u)
BY DEF Precedes

(* A step put in front of a path. *)
LEMMA Prepended ==
  ASSUME NEW S, NEW steps \in Seq(S), NEW first \in S
  PROVE  /\ <<first>> \o steps \in Seq(S)
         /\ Len(<<first>> \o steps) = Len(steps) + 1
         /\ (<<first>> \o steps)[1] = first
         /\ \A k \in 1 .. Len(steps) : (<<first>> \o steps)[k + 1] = steps[k]
OBVIOUS
-----------------------------------------------------------------------------
LEMMA InitInv == SearchInit => SearchInv
<1> SUFFICES ASSUME SearchInit PROVE SearchInv
  OBVIOUS
<1> USE DEF SearchInit
<1>1. NetworkOK
  BY NetworkAssumption DEF NetworkOK
<1>2. TypeInv
  BY <1>1 DEF TypeInv, NoEntries, EmptyMap
<1>3. Expanded = {} /\ Queued = {} /\ Current = {} /\ DOMAIN previous = {}
  BY DEF Expanded, Queued, Current, NoEntries, EmptyMap
<1>4. Idle /\ Distinct /\ ClosedInv /\ SettledInv /\ WalkInv
  BY <1>3 DEF Idle, Distinct, ClosedInv, SettledInv, WalkInv, NoEntries
<1>5. StartInv /\ MapInv /\ PredecessorInv
  BY <1>3 DEF StartInv, MapInv, PredecessorInv
<1> QED BY <1>2, <1>4, <1>5 DEF SearchInv

(* The edges that graph_neighbors reads are those of the network. *)
LEMMA EdgesOfFacts ==
  ASSUME NetworkOK
  PROVE  \A u : /\ EdgesOf(u) \in Seq([to : DOMAIN adj \ {0}, distance : Nat])
                /\ \A i \in 1 .. Len(EdgesOf(u)) :
                     /\ EdgesOf(u)[i].to \in ZergId \ {0}
                     /\ EdgesOf(u)[i].distance \in Nat
                     /\ u # 0
                     /\ Hop(adj, u, EdgesOf(u)[i].to, EdgesOf(u)[i].distance)
<1> DEFINE Edge == [to : DOMAIN adj \ {0}, distance : Nat]
<1>1. ASSUME NEW u PROVE EdgesOf(u) \in Seq(Edge)
  <2>1. CASE u \in DOMAIN adj \ {0}
    BY <2>1 DEF NetworkOK, EdgesOf
  <2>2. CASE u \notin DOMAIN adj \ {0}
    <3>1. EdgesOf(u) = <<>>
      BY <2>2 DEF EdgesOf
    <3> HIDE DEF Edge
    <3> QED BY <3>1
  <2> QED BY <2>1, <2>2
<1>2. ASSUME NEW u, NEW i \in 1 .. Len(EdgesOf(u))
      PROVE  /\ EdgesOf(u)[i].to \in ZergId \ {0}
             /\ EdgesOf(u)[i].distance \in Nat
             /\ u # 0
             /\ Hop(adj, u, EdgesOf(u)[i].to, EdgesOf(u)[i].distance)
  <2>1. u \in DOMAIN adj \ {0} /\ EdgesOf(u) = adj[u]
    BY DEF EdgesOf
  <2>2. EdgesOf(u)[i] \in Edge
    <3> HIDE DEF Edge
    <3>1. EdgesOf(u) \in Seq(Edge)
      BY <1>1
    <3> QED BY <3>1
  <2>3. EdgesOf(u)[i] = [to |-> EdgesOf(u)[i].to, distance |-> EdgesOf(u)[i].distance]
    BY <2>2
  <2> QED BY <2>1, <2>2, <2>3 DEF Hop, NetworkOK
<1> QED BY <1>1, <1>2

LEMMA TypeStep == TypeInv /\ [SearchNext]_searchvars => TypeInv'
<1> SUFFICES ASSUME TypeInv, [SearchNext]_searchvars PROVE TypeInv'
  OBVIOUS
<1> USE DEF TypeInv
<1>0. UNCHANGED adj => NetworkOK'
  BY DEF NetworkOK
<1>1. CASE UNCHANGED searchvars
  BY <1>0, <1>1 DEF searchvars, arguments, expanding
<1>2. ASSUME NEW s \in ZergId, NEW t \in ZergId, FindPath(s, t) PROVE TypeInv'
  <2>1. DOMAIN to_process' = DOMAIN to_process \cup {Entry(0, s)}
    BY <1>2, BagAddDomain DEF FindPath
  <2>2. Entry(0, s) \in [distance : Nat, obj : ZergId] /\ NoStep \in Step
    BY DEF Entry, NoStep, Step
  <2> QED BY <1>0, <1>2, <2>1, <2>2 DEF FindPath, expanding
<1>3. ASSUME NEW entry \in DOMAIN to_process, TakeNext(entry) PROVE TypeInv'
  <2>1. DOMAIN to_process' \subseteq DOMAIN to_process
    BY <1>3, BagRemoveDomain DEF TakeNext
  <2> QED BY <1>0, <1>3, <2>1 DEF TakeNext, arguments
<1>4. CASE VisitImproves
  <2>1. /\ Neighbour \in ZergId \ {0}
        /\ EdgesOf(curr_node)[edge].distance \in Nat
    BY <1>4, EdgesOfFacts DEF VisitImproves, Visiting, Neighbour
  <2>2. Through \in Nat
    BY <2>1 DEF Through
  <2>3. DOMAIN to_process' = DOMAIN to_process \cup {Entry(Through, Neighbour)}
    BY <1>4, BagAddDomain DEF VisitImproves
  <2>4. Entry(Through, Neighbour) \in [distance : Nat, obj : ZergId]
    BY <2>1, <2>2 DEF Entry
  <2>5. [data |-> curr_node, distance |-> EdgesOf(curr_node)[edge].distance] \in Step
    BY <2>1 DEF Step
  <2>6. /\ DOMAIN previous' \subseteq ZergId \ {0}
        /\ previous' \in [DOMAIN previous' -> Step]
    BY <1>4, <2>1, <2>5 DEF VisitImproves
  <2>7. edge' = edge + 1 /\ UNCHANGED <<adj, start, end, processed, curr_distance, curr_node, path, pc>>
    BY <1>4 DEF VisitImproves, arguments
  <2> QED BY <1>0, <2>3, <2>4, <2>6, <2>7
<1>5. CASE VisitSkips
  BY <1>0, <1>5 DEF VisitSkips, arguments
<1>6. CASE TurnDone
  BY <1>0, <1>6 DEF TurnDone, arguments, expanding
<1>7. CASE Exhausted
  BY <1>0, <1>7 DEF Exhausted, arguments
<1>8. CASE WalkBack
  <2>1. previous[curr_node] \in Step
    BY <1>8 DEF WalkBack
  <2>2. [data |-> curr_node, distance |-> previous[curr_node].distance] \in Step
    BY <2>1 DEF Step
  <2>3. path' \in Seq(Step)
    BY <1>8, <2>2, Prepended DEF WalkBack
  <2>4. curr_node' \in ZergId \cup {0}
    BY <1>8, <2>1 DEF WalkBack, Step
  <2> QED BY <1>0, <1>8, <2>3, <2>4 DEF WalkBack, arguments
<1>9. CASE ReachStart
  <2>1. [data |-> curr_node, distance |-> 0] \in Step
    BY DEF Step
  <2>2. path' \in Seq(Step)
    BY <1>9, <2>1, Prepended DEF ReachStart
  <2> QED BY <1>0, <1>9, <2>2 DEF ReachStart, arguments, expanding
<1>10. CASE FallOff
  BY <1>0, <1>10 DEF FallOff, arguments, expanding
<1>11. CASE Return
  BY <1>0, <1>11 DEF Return, NoEntries, EmptyMap
<1>12. CASE Reweigh
  <2>1. NetworkOK'
    BY <1>12 DEF Reweigh, NetworkOK
  <2> QED BY <1>12, <2>1 DEF Reweigh, arguments, expanding
<1> QED BY <1>1, <1>2, <1>3, <1>4, <1>5, <1>6, <1>7, <1>8, <1>9, <1>10, <1>11, <1>12 DEF SearchNext, Search

(* What an expansion adds to the expanded zerg. *)
LEMMA Marked ==
  ASSUME TypeInv, TurnDone
  PROVE  Expanded' = Expanded \cup ({curr_node} \ {0})
<1>1. CASE curr_node \in Expanded \cup {0}
  BY <1>1 DEF TurnDone, Expanded
<1>2. CASE curr_node \notin Expanded \cup {0}
  <2>1. processed' = Append(processed, curr_node)
    BY <1>2 DEF TurnDone
  <2>2. processed \in Seq(ZergId \ {0})
    BY DEF TypeInv
  <2>3. /\ Len(processed') = Len(processed) + 1
        /\ processed'[Len(processed) + 1] = curr_node
        /\ \A k \in 1 .. Len(processed) : processed'[k] = processed[k]
        /\ Len(processed) \in Nat
    BY <2>1, <2>2
  <2> QED BY <1>2, <2>3 DEF Expanded
<1> QED BY <1>1, <1>2

(* What an improvement does to the map and to the queue. *)
LEMMA Improved ==
  ASSUME TypeInv, VisitImproves
  PROVE  /\ Neighbour \in ZergId \ ({0, curr_node} \cup Expanded)
         /\ DOMAIN previous' = DOMAIN previous \cup {Neighbour}
         /\ previous'[Neighbour].data = curr_node
         /\ Hop(adj, curr_node, Neighbour, previous'[Neighbour].distance)
         /\ \A v \in DOMAIN previous \ {Neighbour} : previous'[v] = previous[v]
         /\ Queued' = Queued \cup {Neighbour}
         /\ curr_node # 0 /\ edge \in 1 .. Len(EdgesOf(curr_node))
         /\ pc = "visit" /\ edge' = edge + 1
         /\ UNCHANGED <<adj, start, end, processed, curr_node, path, pc>>
<1>1. pc = "visit" /\ edge \in 1 .. Len(EdgesOf(curr_node))
  BY DEF VisitImproves, Visiting
<1>2. /\ Neighbour \in ZergId \ {0} /\ curr_node # 0
      /\ Hop(adj, curr_node, Neighbour, EdgesOf(curr_node)[edge].distance)
  BY <1>1, EdgesOfFacts DEF TypeInv, Neighbour
<1>3. Neighbour \notin Expanded /\ Neighbour # curr_node
  BY DEF VisitImproves, IsShorter
<1>4. DOMAIN to_process' = DOMAIN to_process \cup {Entry(Through, Neighbour)}
  BY BagAddDomain DEF VisitImproves
<1>5. Queued' = Queued \cup {Neighbour}
  <2> DEFINE added == Entry(Through, Neighbour)
  <2>1. added.obj = Neighbour
    BY DEF Entry
  <2> HIDE DEF added
  <2>2. DOMAIN to_process' = DOMAIN to_process \cup {added}
    BY <1>4 DEF added
  <2> QED BY <2>1, <2>2 DEF Queued
<1>6. /\ DOMAIN previous' = DOMAIN previous \cup {Neighbour}
      /\ previous'[Neighbour] = [data |-> curr_node, distance |-> EdgesOf(curr_node)[edge].distance]
      /\ \A v \in DOMAIN previous \ {Neighbour} : previous'[v] = previous[v]
  BY DEF VisitImproves
<1>7. edge' = edge + 1 /\ UNCHANGED <<adj, start, end, processed, curr_node, path, pc>>
  BY DEF VisitImproves, arguments
<1> QED BY <1>1, <1>2, <1>3, <1>5, <1>6, <1>7

(* What is taken from the queue becomes the current zerg. *)
LEMMA Taken ==
  ASSUME NEW entry \in DOMAIN to_process, TakeNext(entry)
  PROVE  /\ entry.obj \in Queued /\ curr_node' = entry.obj
         /\ Queued' \subseteq Queued /\ Queued \subseteq Queued' \cup {entry.obj}
         /\ edge' = 1 /\ pc = "loop" /\ pc' = "visit"
         /\ UNCHANGED <<adj, start, end, processed, previous, path>>
<1>1. DOMAIN to_process \ {entry} \subseteq DOMAIN to_process' /\ DOMAIN to_process' \subseteq DOMAIN to_process
  BY BagRemoveDomain DEF TakeNext
<1>2. Queued' \subseteq Queued /\ Queued \subseteq Queued' \cup {entry.obj} /\ entry.obj \in Queued
  BY <1>1 DEF Queued
<1> QED BY <1>2 DEF TakeNext, arguments

(* What a call starts with. *)
LEMMA Started ==
  ASSUME SearchInv, NEW s \in ZergId, NEW t \in ZergId, FindPath(s, t)
  PROVE  /\ Expanded' = {} /\ processed' = <<>> /\ path' = <<>>
         /\ Queued' = {s} /\ start' = s /\ end' = t
         /\ DOMAIN previous' = {s} \ {0}
         /\ s # 0 => previous'[s] = NoStep
         /\ pc' = "loop"
<1>1. pc = "idle" /\ processed = <<>> /\ path = <<>> /\ DOMAIN to_process = {}
  BY DEF FindPath, SearchInv, Idle, WalkInv
<1>2. DOMAIN to_process' = {Entry(0, s)}
  <2>1. DOMAIN to_process' = DOMAIN to_process \cup {Entry(0, s)}
    BY BagAddDomain DEF FindPath
  <2> QED BY <1>1, <2>1
<1>3. Queued' = {s}
  BY <1>2 DEF Queued, Entry
<1>4. /\ processed' = <<>> /\ path' = <<>> /\ start' = s /\ end' = t /\ pc' = "loop"
      /\ previous' = [id \in {s} \ {0} |-> NoStep]
  BY <1>1 DEF FindPath
<1>5. Expanded' = {}
  BY <1>4 DEF Expanded
<1> QED BY <1>3, <1>4, <1>5

(* What the end of a call leaves. *)
LEMMA Returned ==
  ASSUME Return
  PROVE  /\ Expanded' = {} /\ processed' = <<>> /\ path' = <<>> /\ start' = 0
         /\ DOMAIN to_process' = {} /\ Queued' = {} /\ DOMAIN previous' = {} /\ pc' = "idle"
<1>1. processed' = <<>> /\ path' = <<>> /\ start' = 0 /\ pc' = "idle" /\ to_process' = NoEntries /\ previous' = EmptyMap
  BY DEF Return
<1> QED BY <1>1 DEF Expanded, Queued, NoEntries, EmptyMap

(* The steps that change neither what is expanded nor what is queued. *)
Quiet == VisitSkips \/ Exhausted \/ WalkBack \/ ReachStart \/ FallOff \/ Reweigh \/ UNCHANGED searchvars

LEMMA Kept ==
  ASSUME Quiet
  PROVE  /\ Expanded' = Expanded /\ Queued' = Queued /\ Current' = Current
         /\ UNCHANGED <<start, end, to_process, processed, previous>>
         /\ UNCHANGED adj \/ (pc = "idle" /\ pc' = "idle")
<1>1. UNCHANGED <<start, end, to_process, processed, previous>>
  BY DEF Quiet, VisitSkips, Exhausted, WalkBack, ReachStart, FallOff, Reweigh, searchvars, arguments
<1>2. Current' = Current /\ (UNCHANGED adj \/ (pc = "idle" /\ pc' = "idle"))
  BY DEF Quiet, Current, VisitSkips, Visiting, Exhausted, WalkBack, ReachStart, FallOff, Reweigh, searchvars, expanding
<1> QED BY <1>1, <1>2 DEF Expanded, Queued

(* All steps, by what they do to the search. *)
LEMMA LoopSteps ==
  ASSUME [SearchNext]_searchvars
  PROVE  \/ \E s, t \in ZergId : FindPath(s, t)
         \/ \E entry \in DOMAIN to_process : TakeNext(entry)
         \/ VisitImproves \/ TurnDone \/ Return \/ Quiet
BY DEF SearchNext, Search, Quiet

LEMMA IdleStep == SearchInv /\ [SearchNext]_searchvars => Idle'
<1> SUFFICES ASSUME SearchInv, [SearchNext]_searchvars, pc' = "idle"
             PROVE  DOMAIN to_process' = {} /\ processed' = <<>> /\ DOMAIN previous' = {}
  BY DEF Idle
<1>1. CASE Return
  BY <1>1, Returned
<1>2. CASE Quiet
  <2>1. pc = "idle"
    BY <1>2 DEF Quiet, VisitSkips, Exhausted, WalkBack, ReachStart, FallOff, Reweigh, searchvars, Visiting
  <2> QED BY <1>2, <2>1, Kept DEF SearchInv, Idle
<1>3. CASE VisitImproves \/ TurnDone \/ \E entry \in DOMAIN to_process : TakeNext(entry)
  <2>1. pc' # "idle"
    BY <1>3 DEF VisitImproves, Visiting, TurnDone, TakeNext
  <2> QED BY <2>1
<1>4. CASE \E s, t \in ZergId : FindPath(s, t)
  <2>1. pc' # "idle"
    BY <1>4 DEF FindPath
  <2> QED BY <2>1
<1> QED BY <1>1, <1>2, <1>3, <1>4, LoopSteps

LEMMA DistinctStep == SearchInv /\ [SearchNext]_searchvars => Distinct'
<1> SUFFICES ASSUME SearchInv, [SearchNext]_searchvars PROVE Distinct'
  OBVIOUS
<1>1. CASE processed' = <<>>
  BY <1>1 DEF Distinct
<1>2. CASE processed' = processed
  BY <1>2 DEF SearchInv, Distinct
<1>3. CASE TurnDone
  <2>1. CASE curr_node \in Expanded \cup {0}
    BY <1>2, <1>3, <2>1 DEF TurnDone
  <2>2. CASE curr_node \notin Expanded \cup {0}
    <3>1. processed' = Append(processed, curr_node)
      BY <1>3, <2>2 DEF TurnDone
    <3>2. processed \in Seq(ZergId \ {0})
      BY DEF SearchInv, TypeInv
    <3>3. /\ Len(processed') = Len(processed) + 1
          /\ processed'[Len(processed) + 1] = curr_node
          /\ \A k \in 1 .. Len(processed) : processed'[k] = processed[k]
          /\ Len(processed) \in Nat
      BY <3>1, <3>2
    <3>4. \A k \in 1 .. Len(processed) : processed[k] # curr_node
      BY <2>2 DEF Expanded
    <3> QED BY <3>3, <3>4 DEF Distinct, SearchInv
  <2> QED BY <2>1, <2>2
<1>4. CASE \E s, t \in ZergId : FindPath(s, t)
  BY <1>1, <1>4, Started
<1>5. CASE Return
  BY <1>1, <1>5, Returned
<1>6. CASE Quiet
  BY <1>2, <1>6, Kept
<1>7. CASE VisitImproves
  BY <1>2, <1>7 DEF VisitImproves
<1>8. CASE \E entry \in DOMAIN to_process : TakeNext(entry)
  BY <1>2, <1>8 DEF TakeNext
<1> QED BY <1>3, <1>4, <1>5, <1>6, <1>7, <1>8, LoopSteps

LEMMA StartStep == SearchInv /\ [SearchNext]_searchvars => StartInv'
<1> SUFFICES ASSUME SearchInv, [SearchNext]_searchvars PROVE StartInv'
  OBVIOUS
<1> USE DEF StartInv, Current
<1>1. ASSUME NEW s \in ZergId, NEW t \in ZergId, FindPath(s, t) PROVE StartInv'
  <2>1. s = 0 => DOMAIN previous' = {}
    BY <1>1, Started
  <2>2. s # 0 => s \in DOMAIN previous' /\ previous'[s] = NoStep
    BY <1>1, Started
  <2>3. start' = s /\ Queued' = {s} /\ pc' = "loop"
    BY <1>1, Started
  <2> QED BY <2>1, <2>2, <2>3
<1>2. ASSUME NEW entry \in DOMAIN to_process, TakeNext(entry) PROVE StartInv'
  <2>1. Expanded' = Expanded
    BY <1>2, Taken DEF Expanded
  <2> QED BY <1>2, <2>1, Taken DEF SearchInv
<1>3. CASE VisitImproves
  <2>1. Expanded' = Expanded
    BY <1>3, Improved DEF Expanded, SearchInv
  <2>2. /\ pc = "visit" /\ curr_node # 0 /\ Neighbour \notin Expanded \cup {0, curr_node}
        /\ DOMAIN previous' = DOMAIN previous \cup {Neighbour}
        /\ \A v \in DOMAIN previous \ {Neighbour} : previous'[v] = previous[v]
        /\ Queued' = Queued \cup {Neighbour}
        /\ UNCHANGED <<start, curr_node, pc>>
    BY <1>3, Improved DEF SearchInv
  <2>3. StartInv /\ curr_node \in DOMAIN previous
    BY <2>2 DEF SearchInv, MapInv
  <2>4. start # 0 /\ start # Neighbour
    BY <2>2, <2>3
  <2>5. start \in DOMAIN previous' /\ previous'[start] = NoStep
    BY <2>2, <2>3, <2>4
  <2> QED BY <2>1, <2>2, <2>3, <2>4, <2>5
<1>4. CASE TurnDone
  <2>1. Queued' = Queued /\ UNCHANGED <<start, previous, to_process>> /\ pc' \in {"walk", "loop"} /\ pc = "visit"
    BY <1>4 DEF TurnDone, Queued, arguments
  <2>2. Expanded' = Expanded \cup ({curr_node} \ {0})
    BY <1>4, Marked DEF SearchInv
  <2>3. StartInv
    BY DEF SearchInv
  <2>4. start # 0 => start \in Expanded'
    BY <2>1, <2>2, <2>3
  <2>5. start = 0 => Queued' \subseteq {start'}
    <3>1. start = 0 => DOMAIN previous = {}
      BY <2>3
    <3>2. Queued \ {0} \subseteq DOMAIN previous
      BY DEF SearchInv, MapInv
    <3> QED BY <2>1, <3>1, <3>2
  <2>6. pc' # "visit" /\ pc' # "idle"
    BY <2>1
  <2> QED BY <2>1, <2>3, <2>4, <2>5, <2>6
<1>5. CASE Return
  BY <1>5, Returned
<1>6. CASE Quiet
  <2>1. /\ pc' = "idle" <=> pc = "idle"
        /\ pc' = "loop" => pc = "loop"
        /\ pc' = "visit" => pc = "visit" /\ curr_node' = curr_node
    BY <1>6 DEF Quiet, VisitSkips, Visiting, Exhausted, WalkBack, ReachStart, FallOff, Reweigh, searchvars, expanding
  <2> QED BY <1>6, <2>1, Kept DEF SearchInv
<1> QED BY <1>1, <1>2, <1>3, <1>4, <1>5, <1>6, LoopSteps

LEMMA MapStep == SearchInv /\ [SearchNext]_searchvars => MapInv'
<1> SUFFICES ASSUME SearchInv, [SearchNext]_searchvars PROVE MapInv'
  OBVIOUS
<1> USE DEF MapInv, Current
<1>1. ASSUME NEW s \in ZergId, NEW t \in ZergId, FindPath(s, t) PROVE MapInv'
  BY <1>1, Started
<1>2. ASSUME NEW entry \in DOMAIN to_process, TakeNext(entry) PROVE MapInv'
  <2>1. Expanded' = Expanded
    BY <1>2, Taken DEF Expanded
  <2> QED BY <1>2, <2>1, Taken DEF SearchInv
<1>3. CASE VisitImproves
  <2>1. Expanded' = Expanded
    BY <1>3, Improved DEF Expanded, SearchInv
  <2> QED BY <1>3, <2>1, Improved DEF SearchInv
<1>4. CASE TurnDone
  <2>1. Queued' = Queued /\ UNCHANGED previous /\ pc' # "visit" /\ pc = "visit"
    BY <1>4 DEF TurnDone, Queued
  <2>2. Expanded' = Expanded \cup ({curr_node} \ {0})
    BY <1>4, Marked DEF SearchInv
  <2>3. 0 \notin DOMAIN previous
    BY DEF SearchInv, TypeInv
  <2> QED BY <2>1, <2>2, <2>3 DEF SearchInv
<1>5. CASE Return
  BY <1>5, Returned
<1>6. CASE Quiet
  BY <1>6, Kept DEF SearchInv
<1> QED BY <1>1, <1>2, <1>3, <1>4, <1>5, <1>6, LoopSteps

LEMMA PredecessorStep == SearchInv /\ [SearchNext]_searchvars => PredecessorInv'
<1> SUFFICES ASSUME SearchInv, [SearchNext]_searchvars PROVE PredecessorInv'
  OBVIOUS
<1>0. PredecessorInv
  BY DEF SearchInv
<1>1. CASE \E s, t \in ZergId : FindPath(s, t)
  <2>1. DOMAIN previous' \subseteq {start'}
    BY <1>1, Started
  <2> QED BY <2>1 DEF PredecessorInv
<1>2. ASSUME NEW entry \in DOMAIN to_process, TakeNext(entry) PROVE PredecessorInv'
  <2>1. Expanded' = Expanded /\ Current = {} /\ UNCHANGED <<adj, start, processed, previous>>
    BY <1>2, Taken DEF Expanded, Current
  <2> QED BY <1>0, <2>1 DEF PredecessorInv
<1>3. CASE VisitImproves
  <2>1. Expanded' = Expanded /\ Current' = {curr_node} /\ Current = {curr_node}
    BY <1>3, Improved DEF Expanded, SearchInv, Current
  <2>2. ASSUME NEW v \in DOMAIN previous' \ {start'}
        PROVE  /\ Hop(adj', previous'[v].data, v, previous'[v].distance)
               /\ previous'[v].data # v
               /\ previous'[v].data \in Expanded' \cup Current'
               /\ v \in Expanded' => Precedes(processed', previous'[v].data, v)
    <3>1. CASE v = Neighbour
      BY <1>3, <2>1, <3>1, Improved DEF SearchInv
    <3>2. CASE v # Neighbour
      <4>1. v \in DOMAIN previous \ {start} /\ previous'[v] = previous[v] /\ UNCHANGED <<adj, processed>>
        BY <1>3, <2>2, <3>2, Improved DEF SearchInv
      <4> QED BY <1>0, <2>1, <4>1 DEF PredecessorInv
    <3> QED BY <3>1, <3>2
  <2> QED BY <2>2 DEF PredecessorInv
<1>4. CASE TurnDone
  <2>1. UNCHANGED <<adj, start, previous>> /\ pc = "visit" /\ Current = {curr_node}
    BY <1>4 DEF TurnDone, arguments, Current
  <2>2. Expanded' = Expanded \cup ({curr_node} \ {0})
    BY <1>4, Marked DEF SearchInv
  <2>3. processed \in Seq(ZergId \ {0}) /\ curr_node \in ZergId \cup {0}
    BY DEF SearchInv, TypeInv
  <2>4. \A u, v : Precedes(processed, u, v) => Precedes(processed', u, v)
    BY <1>4, <2>3, PrecedesAppend DEF TurnDone
  <2>5. ASSUME curr_node \notin Expanded \cup {0}, NEW u \in Expanded PROVE Precedes(processed', u, curr_node)
    <3>1. processed' = Append(processed, curr_node) /\ curr_node \in ZergId \ {0}
      BY <1>4, <2>3, <2>5 DEF TurnDone
    <3>2. PICK k \in 1 .. Len(processed) : processed[k] = u
      BY DEF Expanded
    <3> QED BY <2>3, <3>1, <3>2, PrecedesAppend
  <2>6. ASSUME NEW v \in DOMAIN previous \ {start}
        PROVE  /\ previous[v].data \in Expanded'
               /\ v \in Expanded' => Precedes(processed', previous[v].data, v)
    <3>1. /\ previous[v].data # 0 /\ previous[v].data # v /\ v # 0
          /\ previous[v].data \in Expanded \cup {curr_node}
          /\ v \in Expanded => Precedes(processed, previous[v].data, v)
      BY <1>0, <2>1, <2>6 DEF PredecessorInv, Hop, SearchInv, TypeInv
    <3>2. CASE v \in Expanded
      BY <2>2, <2>4, <3>1, <3>2
    <3>3. CASE v \notin Expanded /\ v = curr_node
      BY <2>2, <2>5, <3>1, <3>3
    <3>4. CASE v \notin Expanded /\ v # curr_node
      BY <2>2, <3>1, <3>4
    <3> QED BY <3>2, <3>3, <3>4
  <2> QED BY <1>0, <2>1, <2>6 DEF PredecessorInv
<1>5. CASE Return
  BY <1>5, Returned DEF PredecessorInv
<1>6. CASE Quiet
  <2>1. CASE UNCHANGED adj
    BY <1>0, <1>6, <2>1, Kept DEF PredecessorInv
  <2>2. CASE pc = "idle"
    <3>1. DOMAIN previous' = {}
      BY <1>6, <2>2, Kept DEF SearchInv, Idle
    <3> QED BY <3>1 DEF PredecessorInv
  <2> QED BY <1>6, <2>1, <2>2, Kept
<1> QED BY <1>1, <1>2, <1>3, <1>4, <1>5, <1>6, LoopSteps

LEMMA ClosedStep == SearchInv /\ [SearchNext]_searchvars => ClosedInv'
<1> SUFFICES ASSUME SearchInv, [SearchNext]_searchvars PROVE ClosedInv'
  OBVIOUS
<1>0. ClosedInv
  BY DEF SearchInv
<1>1. CASE \E s, t \in ZergId : FindPath(s, t)
  BY <1>1, Started DEF ClosedInv
<1>2. ASSUME NEW entry \in DOMAIN to_process, TakeNext(entry) PROVE ClosedInv'
  <2>1. Expanded' = Expanded /\ edge' = 1 /\ UNCHANGED <<adj, previous>>
    BY <1>2, Taken DEF Expanded
  <2> QED BY <1>0, <2>1 DEF ClosedInv, EdgesOf
<1>3. CASE VisitImproves
  <2>1. /\ Expanded' = Expanded /\ DOMAIN previous' = DOMAIN previous \cup {Neighbour}
        /\ edge' = edge + 1 /\ edge \in 1 .. Len(EdgesOf(curr_node))
        /\ pc = "visit" /\ UNCHANGED <<adj, curr_node>>
    BY <1>3, Improved DEF Expanded, SearchInv
  <2> QED BY <1>0, <2>1 DEF ClosedInv, EdgesOf, Neighbour
<1>4. CASE TurnDone
  <2>1. /\ pc = "visit" /\ pc' # "visit" /\ edge > Len(EdgesOf(curr_node)) /\ UNCHANGED <<adj, previous>>
    BY <1>4 DEF TurnDone
  <2>2. Expanded' = Expanded \cup ({curr_node} \ {0})
    BY <1>4, Marked DEF SearchInv
  <2>3. edge \in Nat /\ Len(EdgesOf(curr_node)) \in Nat
    BY EdgesOfFacts DEF SearchInv, TypeInv
  <2>4. \A i \in 1 .. Len(EdgesOf(curr_node)) : EdgesOf(curr_node)[i].to \in DOMAIN previous
    BY <1>0, <2>1, <2>3 DEF ClosedInv
  <2> QED BY <1>0, <2>1, <2>2, <2>4 DEF ClosedInv, EdgesOf
<1>5. CASE Return
  BY <1>5, Returned DEF ClosedInv
<1>6. CASE VisitSkips
  <2>1. /\ pc = "visit" /\ edge \in 1 .. Len(EdgesOf(curr_node)) /\ edge' = edge + 1
        /\ Neighbour \in Expanded \/ Neighbour = curr_node \/ Neighbour \in Queued
        /\ UNCHANGED <<adj, processed, previous, curr_node, pc>>
    BY <1>6 DEF VisitSkips, Visiting, Queued
  <2>2. Neighbour \in ZergId \ {0}
    BY <2>1, EdgesOfFacts DEF SearchInv, TypeInv, Neighbour
  <2>3. Neighbour \in DOMAIN previous
    BY <2>1, <2>2 DEF SearchInv, MapInv, Current
  <2> QED BY <1>0, <2>1, <2>3 DEF ClosedInv, EdgesOf, Expanded, Neighbour
<1>7. CASE UNCHANGED searchvars
  BY <1>0, <1>7 DEF ClosedInv, EdgesOf, Expanded, searchvars, expanding
<1>8. CASE Exhausted \/ WalkBack \/ ReachStart \/ FallOff
  <2>1. pc' # "visit" /\ UNCHANGED <<adj, processed, previous>>
    BY <1>8 DEF Exhausted, WalkBack, ReachStart, FallOff
  <2> QED BY <1>0, <2>1 DEF ClosedInv, EdgesOf, Expanded
<1>9. CASE Reweigh
  <2>1. pc' = "idle" /\ processed' = <<>>
    BY <1>9 DEF Reweigh, SearchInv, Idle
  <2> QED BY <2>1 DEF ClosedInv, Expanded
<1> QED BY <1>1, <1>2, <1>3, <1>4, <1>5, <1>6, <1>7, <1>8, <1>9, LoopSteps DEF Quiet

LEMMA SettledStep == SearchInv /\ [SearchNext]_searchvars => SettledInv'
<1> SUFFICES ASSUME SearchInv, [SearchNext]_searchvars PROVE SettledInv'
  OBVIOUS
<1>1. CASE VisitImproves \/ VisitSkips \/ Return \/ Reweigh
           \/ (\E s, t \in ZergId : FindPath(s, t)) \/ (\E entry \in DOMAIN to_process : TakeNext(entry))
  <2>1. pc' \notin {"walk", "found"}
    BY <1>1 DEF VisitImproves, VisitSkips, Visiting, Return, Reweigh, FindPath, TakeNext
  <2> QED BY <2>1 DEF SettledInv
<1>2. CASE TurnDone
  <2>1. pc = "visit" /\ UNCHANGED <<end, previous>> /\ (pc' = "walk" => curr_node = end) /\ pc' # "found"
    BY <1>2 DEF TurnDone, arguments
  <2>2. Expanded' = Expanded \cup ({curr_node} \ {0})
    BY <1>2, Marked DEF SearchInv
  <2>3. curr_node # 0 => curr_node \in DOMAIN previous
    BY <2>1 DEF SearchInv, MapInv, Current
  <2>4. curr_node = 0 => DOMAIN previous = {}
    BY <2>1 DEF SearchInv, StartInv, Current
  <2> QED BY <2>1, <2>2, <2>3, <2>4 DEF SettledInv
<1>3. CASE Exhausted
  <2>1. Queued = {} /\ Current = {} /\ UNCHANGED <<end, processed, previous>>
    BY <1>3 DEF Exhausted, Queued, Current, arguments
  <2>2. DOMAIN previous \subseteq Expanded
    BY <2>1 DEF SearchInv, MapInv
  <2> QED BY <2>1, <2>2 DEF SettledInv, Expanded
<1>4. CASE WalkBack \/ ReachStart \/ FallOff \/ UNCHANGED searchvars
  <2>1. UNCHANGED <<end, processed, previous>> /\ (pc' \in {"walk", "found"} => pc \in {"walk", "found"})
    BY <1>4 DEF WalkBack, ReachStart, FallOff, searchvars, arguments
  <2> QED BY <2>1 DEF SearchInv, SettledInv, Expanded
<1> QED BY <1>1, <1>2, <1>3, <1>4, LoopSteps DEF Quiet

(* Where a walk stands: at a zerg that is expanded. *)
LEMMA WalkStands ==
  ASSUME SearchInv, pc = "walk", curr_node \in DOMAIN previous
  PROVE  curr_node \in Expanded /\ start # 0
<1>1. path = <<>> => curr_node = end
  BY DEF SearchInv, WalkInv
<1>2. path # <<>> => curr_node \in Expanded
  BY DEF SearchInv, WalkInv
<1>3. curr_node = end => end \in Expanded
  BY DEF SearchInv, SettledInv
<1>4. start # 0
  BY DEF SearchInv, StartInv
<1> QED BY <1>1, <1>2, <1>3, <1>4

(* A step put in front of the walk. *)
LEMMA WalkedOn ==
  ASSUME SearchInv, pc = "walk", NEW distance \in Nat,
         path' = <<[data |-> curr_node, distance |-> distance]>> \o path,
         path # <<>> \/ curr_node = end,
         path # <<>> => Hop(adj, curr_node, path[1].data, path[1].distance),
         UNCHANGED <<adj, end, processed>>
  PROVE  Walked' /\ path' # <<>> /\ path'[1] = [data |-> curr_node, distance |-> distance]
<1> DEFINE first == [data |-> curr_node, distance |-> distance]
<1>1. path \in Seq(Step) /\ first \in Step
  BY DEF SearchInv, TypeInv, Step
<1>2. path' = <<first>> \o path /\ first.data = curr_node
  OBVIOUS
<1>3. path # <<>> => Walked /\ \A k \in 1 .. Len(path) : Precedes(processed, curr_node, path[k].data)
  BY DEF SearchInv, WalkInv
<1> HIDE DEF first
<1>4. /\ Len(path') = Len(path) + 1 /\ path'[1] = first
      /\ \A k \in 1 .. Len(path) : path'[k + 1] = path[k]
      /\ Len(path) \in Nat
  BY <1>1, <1>2, Prepended
<1>5. path # <<>> <=> Len(path) > 0
  BY <1>1
<1>6. path'[Len(path')].data = end
  <2>1. CASE path = <<>>
    BY <1>2, <1>4, <1>5, <2>1
  <2>2. CASE path # <<>>
    <3>1. path[Len(path)].data = end
      BY <1>3, <2>2 DEF Walked
    <3> QED BY <1>4, <1>5, <2>2, <3>1
  <2> QED BY <2>1, <2>2
<1>7. ASSUME NEW k \in 1 .. Len(path'), NEW l \in 1 .. Len(path'), k < l
      PROVE  Precedes(processed, path'[k].data, path'[l].data)
  <2>1. path # <<>> /\ l - 1 \in 1 .. Len(path) /\ path'[l] = path[l - 1]
    <3>1. l - 1 \in 1 .. Len(path)
      BY <1>4, <1>7
    <3>2. path'[(l - 1) + 1] = path[l - 1]
      BY <1>4, <3>1
    <3> QED BY <1>4, <1>5, <3>1, <3>2
  <2>2. CASE k = 1
    BY <1>2, <1>3, <1>4, <2>1, <2>2
  <2>3. CASE k # 1
    <3>1. k - 1 \in 1 .. Len(path) /\ k - 1 < l - 1
      BY <1>4, <1>7, <2>3
    <3>2. path'[(k - 1) + 1] = path[k - 1]
      BY <1>4, <3>1
    <3>3. Precedes(processed, path[k - 1].data, path[l - 1].data)
      BY <1>3, <2>1, <3>1 DEF Walked
    <3> QED BY <2>1, <3>2, <3>3
  <2> QED BY <2>2, <2>3
<1>8. ASSUME NEW k \in 1 .. Len(path') - 1
      PROVE  Hop(adj, path'[k].data, path'[k + 1].data, path'[k + 1].distance)
  <2>1. k \in 1 .. Len(path) /\ path'[k + 1] = path[k]
    BY <1>4
  <2>2. CASE k = 1
    BY <1>2, <1>4, <1>5, <2>1, <2>2
  <2>3. CASE k # 1
    <3>1. k - 1 \in 1 .. Len(path) - 1
      BY <1>4, <2>1, <2>3
    <3>2. path'[(k - 1) + 1] = path[k - 1]
      BY <1>4, <3>1
    <3>3. Hop(adj, path[k - 1].data, path[(k - 1) + 1].data, path[(k - 1) + 1].distance)
      BY <1>3, <1>4, <1>5, <3>1 DEF Walked, AllHops
    <3> QED BY <2>1, <3>1, <3>2, <3>3
  <2> QED BY <2>2, <2>3
<1>9. path' # <<>>
  BY <1>4
<1> QED BY <1>4, <1>6, <1>7, <1>8, <1>9 DEF Walked, AllHops, first

LEMMA WalkStep == SearchInv /\ [SearchNext]_searchvars => WalkInv'
<1> SUFFICES ASSUME SearchInv, [SearchNext]_searchvars PROVE WalkInv'
  OBVIOUS
<1>0. WalkInv
  BY DEF SearchInv
<1>1. CASE (\E s, t \in ZergId : FindPath(s, t)) \/ Return
  <2>1. path' = <<>> /\ pc' \notin {"walk", "found"}
    BY <1>1, Started, Returned
  <2> QED BY <2>1 DEF WalkInv
<1>2. CASE VisitImproves \/ VisitSkips \/ Reweigh \/ \E entry \in DOMAIN to_process : TakeNext(entry)
  <2>1. path' = path /\ pc \in {"idle", "loop", "visit"} /\ pc' \in {"idle", "loop", "visit"}
    BY <1>2 DEF VisitImproves, VisitSkips, Visiting, Reweigh, TakeNext
  <2> QED BY <1>0, <2>1 DEF WalkInv
<1>3. CASE TurnDone \/ Exhausted
  <2>1. /\ path' = path /\ pc \in {"loop", "visit"} /\ pc' \in {"loop", "walk"}
        /\ pc' = "walk" => curr_node' = end'
    BY <1>3 DEF TurnDone, Exhausted, arguments, expanding
  <2> QED BY <1>0, <2>1 DEF WalkInv
<1>4. CASE WalkBack
  <2> DEFINE distance == previous[curr_node].distance
             u == previous[curr_node].data
  <2>1. /\ pc = "walk" /\ pc' = "walk" /\ curr_node \in DOMAIN previous /\ previous[curr_node] # NoStep
        /\ curr_node' = u
        /\ path' = <<[data |-> curr_node, distance |-> distance]>> \o path
        /\ UNCHANGED <<adj, end, processed>>
    BY <1>4 DEF WalkBack, arguments
  <2>2. curr_node \in Expanded /\ curr_node # start
    BY <2>1, WalkStands DEF SearchInv, StartInv
  <2>3. Hop(adj, u, curr_node, distance) /\ u \in Expanded /\ Precedes(processed, u, curr_node)
    BY <2>1, <2>2 DEF SearchInv, PredecessorInv, Current
  <2>4. distance \in Nat
    BY <2>1 DEF SearchInv, TypeInv, Step
  <2>5. path # <<>> \/ curr_node = end
    BY <1>0, <2>1 DEF WalkInv
  <2>6. path # <<>> =>
          /\ Hop(adj, curr_node, path[1].data, path[1].distance)
          /\ \A k \in 1 .. Len(path) : Precedes(processed, curr_node, path[k].data)
    BY <1>0, <2>1 DEF WalkInv
  <2>7. Walked' /\ path' # <<>> /\ path'[1] = [data |-> curr_node, distance |-> distance]
    <3> HIDE DEF distance
    <3> QED BY <2>1, <2>4, <2>5, <2>6, WalkedOn
  <2>8. ASSUME NEW k \in 1 .. Len(path') PROVE Precedes(processed, u, path'[k].data)
    <3>1. CASE k = 1
      BY <2>3, <2>7, <3>1
    <3>2. CASE k # 1
      <4> DEFINE first == [data |-> curr_node, distance |-> distance]
      <4>1. path \in Seq(Step) /\ first \in Step /\ path' = <<first>> \o path
        BY <2>1, <2>4 DEF SearchInv, TypeInv, Step
      <4> HIDE DEF first
      <4>2. Len(path') = Len(path) + 1 /\ Len(path) \in Nat
        BY <4>1, Prepended
      <4>3. k - 1 \in 1 .. Len(path) /\ (k - 1) + 1 = k
        BY <3>2, <4>2
      <4>4. path'[(k - 1) + 1] = path[k - 1]
        BY <4>1, <4>3, Prepended
      <4>5. path # <<>>
        BY <4>3
      <4>6. Precedes(processed, curr_node, path[k - 1].data)
        BY <2>6, <4>3, <4>5
      <4>7. Precedes(processed, u, path[k - 1].data)
        <5>1. processed \in Seq(ZergId \ {0}) /\ Distinct
          BY DEF SearchInv, TypeInv
        <5> HIDE DEF u
        <5> QED BY <2>3, <4>6, <5>1, PrecedesTransitive DEF Distinct
      <4> QED BY <4>3, <4>4, <4>7
    <3> QED BY <3>1, <3>2
  <2>9. Expanded' = Expanded
    BY <2>1 DEF Expanded
  <2>10. Hop(adj, u, path'[1].data, path'[1].distance)
    BY <2>3, <2>7
  <2> QED BY <2>1, <2>3, <2>7, <2>8, <2>9, <2>10 DEF WalkInv
<1>5. CASE ReachStart
  <2>1. /\ pc = "walk" /\ pc' = "found" /\ curr_node \in DOMAIN previous /\ previous[curr_node] = NoStep
        /\ path' = <<[data |-> curr_node, distance |-> 0]>> \o path
        /\ UNCHANGED <<adj, start, end, processed>>
    BY <1>5 DEF ReachStart, arguments
  <2>2. curr_node = start
    <3>1. previous[curr_node].data = 0
      BY <2>1 DEF NoStep
    <3>2. curr_node # start => previous[curr_node].data # 0
      BY <2>1 DEF SearchInv, PredecessorInv, Hop
    <3> QED BY <3>1, <3>2
  <2>3. path # <<>> \/ curr_node = end
    BY <1>0, <2>1 DEF WalkInv
  <2>4. path # <<>> => Hop(adj, curr_node, path[1].data, path[1].distance)
    BY <1>0, <2>1 DEF WalkInv
  <2>5. Walked' /\ path' # <<>> /\ path'[1] = [data |-> curr_node, distance |-> 0]
    BY <2>1, <2>3, <2>4, WalkedOn
  <2> QED BY <2>1, <2>2, <2>5 DEF WalkInv
<1>6. CASE FallOff
  <2>1. /\ pc = "walk" /\ pc' = "found" /\ curr_node \notin DOMAIN previous
        /\ UNCHANGED <<end, previous, path>>
    BY <1>6 DEF FallOff, arguments
  <2>2. path = <<>> /\ curr_node = end
    BY <1>0, <2>1 DEF WalkInv, SearchInv, MapInv
  <2> QED BY <2>1, <2>2 DEF WalkInv
<1>7. CASE UNCHANGED searchvars
  BY <1>0, <1>7 DEF WalkInv, Walked, Expanded, searchvars, arguments, expanding
<1> QED BY <1>1, <1>2, <1>3, <1>4, <1>5, <1>6, <1>7, LoopSteps DEF Quiet

LEMMA SearchStep == SearchInv /\ [SearchNext]_searchvars => SearchInv'
BY TypeStep, IdleStep, DistinctStep, StartStep, MapStep, PredecessorStep, ClosedStep, SettledStep, WalkStep
   DEF SearchInv

(* The invariant of path_dijkstra, on every network: what the queue, the   *)
(* set of expanded zerg and the map of predecessors say of each other      *)
(* during the search and during the walk back (pathfinding.c:23-116).      *)
THEOREM SearchInvariant == SearchSpec => []SearchInv
BY InitInv, SearchStep, PTL DEF SearchSpec

(* A zerg that was not found is cut off by the expanded ones. *)
LEMMA NullMeansCutOff ==
  ASSUME SearchInv, pc = "found", path = <<>>, {start, end} \subseteq DOMAIN adj \ {0}
  PROVE  ~ Reaches(Edges(adj), start, end, DOMAIN adj \ {start, end})
<1> DEFINE via  == DOMAIN adj \ {start, end}
           part == DOMAIN previous \ {start}
<1>1. end \notin DOMAIN previous /\ DOMAIN previous \subseteq Expanded
  BY DEF SearchInv, WalkInv, SettledInv
<1>2. start \in DOMAIN previous
  BY DEF SearchInv, StartInv
<1>3. part \subseteq via
  <2>1. ASSUME NEW v \in part PROVE v \in DOMAIN adj
    <3>1. Hop(adj, previous[v].data, v, previous[v].distance)
      BY DEF SearchInv, PredecessorInv
    <3>2. PICK u \in DOMAIN adj : \E i \in 1 .. Len(adj[u]) : adj[u][i].to = v
      BY <3>1 DEF Hop
    <3>3. adj[u] \in Seq([to : DOMAIN adj \ {0}, distance : Nat])
      BY DEF SearchInv, TypeInv, NetworkOK
    <3>4. ASSUME NEW i \in 1 .. Len(adj[u]) PROVE adj[u][i].to \in DOMAIN adj \ {0}
      <4>1. adj[u][i] \in [to : DOMAIN adj \ {0}, distance : Nat]
        <5> DEFINE Edge == [to : DOMAIN adj \ {0}, distance : Nat]
        <5> HIDE DEF Edge
        <5>1. adj[u] \in Seq(Edge)
          BY <3>3 DEF Edge
        <5>2. adj[u][i] \in Edge
          BY <5>1
        <5> QED BY <5>2 DEF Edge
      <4> QED BY <4>1
    <3> QED BY <3>2, <3>4
  <2> QED BY <1>1, <2>1
<1>4. ASSUME NEW u \in part \cup {start}, NEW v \in (via \ part) \cup {end}, <<u, v>> \in Edges(adj)
      PROVE  FALSE
  <2>1. u \in Expanded /\ u # 0
    BY <1>1, <1>2 DEF SearchInv, TypeInv
  <2>2. u \in DOMAIN adj /\ \E i \in 1 .. Len(adj[u]) : adj[u][i].to = v
    BY <1>4 DEF Edges
  <2>3. EdgesOf(u) = adj[u]
    BY <2>1, <2>2 DEF EdgesOf
  <2>4. v \in DOMAIN previous
    BY <2>1, <2>2, <2>3 DEF SearchInv, ClosedInv
  <2> QED BY <1>1, <1>2, <2>4
<1> QED BY <1>3, <1>4 DEF Reaches

(* What is walked back is a route. *)
LEMMA InvariantGivesRoutes == SearchInv => PathIsRoute
<1> SUFFICES ASSUME SearchInv, pc = "found" PROVE PathIsRoute
  BY DEF PathIsRoute
<1>1. CASE path = <<>>
  BY <1>1, NullMeansCutOff DEF PathIsRoute
<1>2. CASE path # <<>>
  <2>1. Walked /\ path[1] = [data |-> start, distance |-> 0]
    BY <1>2 DEF SearchInv, WalkInv
  <2>2. processed \in Seq(ZergId \ {0}) /\ Distinct /\ path \in Seq(Step)
    BY DEF SearchInv, TypeInv
  <2>3. ASSUME NEW i \in 1 .. Len(path), NEW j \in 1 .. Len(path), path[i].data = path[j].data, i < j
        PROVE  FALSE
    <3>1. Precedes(processed, path[i].data, path[i].data)
      BY <2>1, <2>3 DEF Walked
    <3> QED BY <2>2, <3>1, NotBeforeItself DEF Distinct
  <2>4. \A i, j \in 1 .. Len(path) : path[i].data = path[j].data => i = j
    <3>1. SUFFICES ASSUME NEW i \in 1 .. Len(path), NEW j \in 1 .. Len(path), path[i].data = path[j].data, i # j
                   PROVE  FALSE
      OBVIOUS
    <3>2. i < j \/ j < i
      BY <3>1
    <3> QED BY <2>3, <3>1, <3>2
  <2>5. \A k \in AllHops(path) :
          \E i \in 1 .. Len(EdgesOf(path[k].data)) :
            EdgesOf(path[k].data)[i] = [to |-> path[k + 1].data, distance |-> path[k + 1].distance]
    BY <2>1 DEF Walked, Hop, EdgesOf
  <2> QED BY <1>2, <2>1, <2>4, <2>5 DEF PathIsRoute, Walked
<1> QED BY <1>1, <1>2

(* Whatever the network and the distances of its edges: the path handed    *)
(* back is a route from start to end that visits no zerg twice, with the   *)
(* distance of each hop, and NULL only if there is none                    *)
(* (pathfinding.c:23-116).                                                 *)
THEOREM PathsAreRoutes == SearchSpec => []PathIsRoute
BY SearchInvariant, InvariantGivesRoutes, PTL
-----------------------------------------------------------------------------

(* A set of positions with the first and without the last has a last one:  *)
(* else counting up would map it, one to one, into less than itself.       *)
LEMMA StepsOut ==
  ASSUME NEW n \in Nat, NEW A, A \subseteq 1 .. n, 1 \in A, n \notin A
  PROVE  \E k \in A : k + 1 \notin A
<1> SUFFICES ASSUME \A k \in A : k + 1 \in A PROVE FALSE
  OBVIOUS
<1> DEFINE up == [k \in A |-> k + 1]
<1>1. IsFiniteSet(1 .. n)
  BY FS_Interval
<1>2. IsFiniteSet(A)
  BY <1>1, FS_Subset
<1>3. IsFiniteSet(A \ {1}) /\ Cardinality(A \ {1}) = Cardinality(A) - 1
  BY <1>2, FS_RemoveElement
<1>4. Cardinality(A \ {1}) < Cardinality(A)
  BY <1>2, <1>3, FS_CardinalityType
<1>5. up \in [A -> A \ {1}]
  OBVIOUS
<1>6. \E x, y \in A : x # y /\ up[x] = up[y]
  <2> HIDE DEF up
  <2> QED BY <1>2, <1>3, <1>4, <1>5, FS_PigeonHole
<1>7. PICK x \in A : \E y \in A : x # y /\ up[x] = up[y]
  BY <1>6
<1> QED BY <1>7

(* A route from s to t through zerg of via, as Reaches has it.             *)
LEMMA RouteReaches ==
  ASSUME NEW edges, NEW s, NEW t, NEW via, NEW route, Len(route) \in Nat, Len(route) > 0,
         route[1].data = s, route[Len(route)].data = t, s # t, t \notin via,
         \A k \in 1 .. Len(route) - 1 : <<route[k].data, route[k + 1].data>> \in edges,
         \A k \in 2 .. Len(route) - 1 : route[k].data \in via
  PROVE  Reaches(edges, s, t, via)
<1> SUFFICES ASSUME NEW part \in SUBSET via
             PROVE  \E u \in part \cup {s}, v \in (via \ part) \cup {t} : <<u, v>> \in edges
  BY DEF Reaches
<1> DEFINE inside == {k \in 1 .. Len(route) : route[k].data \in part \cup {s}}
<1>1. inside \subseteq 1 .. Len(route) /\ 1 \in inside /\ Len(route) \notin inside
  OBVIOUS
<1>2. PICK k \in inside : k + 1 \notin inside
  <2> HIDE DEF inside
  <2> QED BY <1>1, StepsOut
<1>3. k \in 1 .. Len(route) - 1 /\ k + 1 \in 1 .. Len(route)
  BY <1>1
<1>4. route[k].data \in part \cup {s} /\ route[k + 1].data \notin part \cup {s}
  BY <1>2, <1>3
<1>5. route[k + 1].data \in via \cup {t}
  <2>1. CASE k + 1 = Len(route)
    BY <2>1
  <2>2. CASE k + 1 # Len(route)
    <3>1. k + 1 \in 2 .. Len(route) - 1
      BY <1>3, <2>2
    <3> QED BY <3>1
  <2> QED BY <2>1, <2>2
<1>6. <<route[k].data, route[k + 1].data>> \in edges
  BY <1>3
<1> QED BY <1>4, <1>5, <1>6
-----------------------------------------------------------------------------
(* A path as PathIsRoute has it, whatever the distances of its hops are by *)
(* now.                                                                    *)
RouteOf(network, route, s, t) ==
  /\ route \in Seq(Step) /\ Len(route) > 1
  /\ route[1].data = s /\ route[Len(route)].data = t
  /\ \A i, j \in 1 .. Len(route) : route[i].data = route[j].data => i = j
  /\ \A k \in 1 .. Len(route) - 1 : <<route[k].data, route[k + 1].data>> \in Edges(network)

(* Two routes of which one avoids what is inside the other are what is     *)
(* promised, also when one of them is a single edge.                       *)
LEMMA ApartLinks ==
  ASSUME NEW network, NEW s, NEW t, s # t, NEW one, NEW other,
         RouteOf(network, one, s, t), RouteOf(network, other, s, t), Apart(one, other)
  PROVE  LinkedPair(Edges(network), DOMAIN network, s, t)
<1> DEFINE inside == Internal(one)
           rest   == DOMAIN network \ (inside \cup {s, t})
<1>1. /\ Len(one) \in Nat /\ Len(one) > 1 /\ one[1].data = s /\ one[Len(one)].data = t
      /\ \A i, j \in 1 .. Len(one) : one[i].data = one[j].data => i = j
      /\ \A k \in 1 .. Len(one) - 1 : <<one[k].data, one[k + 1].data>> \in Edges(network)
  BY DEF RouteOf
<1>2. /\ Len(other) \in Nat /\ Len(other) > 1 /\ other[1].data = s /\ other[Len(other)].data = t
      /\ \A i, j \in 1 .. Len(other) : other[i].data = other[j].data => i = j
      /\ \A k \in 1 .. Len(other) - 1 : <<other[k].data, other[k + 1].data>> \in Edges(network)
  BY DEF RouteOf
<1>3. inside \subseteq DOMAIN network \ {s, t}
  <2>1. SUFFICES ASSUME NEW k \in 2 .. Len(one) - 1 PROVE one[k].data \in DOMAIN network \ {s, t}
    BY DEF Internal, DataOf
  <2>2. k \in 1 .. Len(one) - 1 /\ k # 1 /\ k # Len(one) /\ k \in 1 .. Len(one)
        /\ 1 \in 1 .. Len(one) /\ Len(one) \in 1 .. Len(one)
    BY <1>1
  <2>3. one[k].data # s /\ one[k].data # t
    BY <1>1, <2>2
  <2>4. one[k].data \in DOMAIN network
    BY <1>1, <2>2 DEF Edges
  <2> QED BY <2>3, <2>4
<1>4. Reaches(Edges(network), s, t, inside)
  <2>1. \A k \in 2 .. Len(one) - 1 : one[k].data \in inside
    BY DEF Internal, DataOf
  <2>2. t \notin inside
    BY <1>3
  <2> DEFINE edges == Edges(network)
  <2>3. \A k \in 1 .. Len(one) - 1 : <<one[k].data, one[k + 1].data>> \in edges
    BY <1>1
  <2>4. Len(one) \in Nat /\ Len(one) > 0 /\ one[1].data = s /\ one[Len(one)].data = t
    BY <1>1
  <2>5. Reaches(edges, s, t, inside)
    <3> HIDE DEF inside, edges
    <3> QED BY <2>1, <2>2, <2>3, <2>4, RouteReaches
  <2> QED BY <2>5
<1>5. Reaches(Edges(network), s, t, rest)
  <2>1. ASSUME NEW k \in 2 .. Len(other) - 1 PROVE other[k].data \in rest
    <3>1. k \in 1 .. Len(other) - 1 /\ k # 1 /\ k # Len(other) /\ k \in 1 .. Len(other)
          /\ 1 \in 1 .. Len(other) /\ Len(other) \in 1 .. Len(other)
      BY <1>2
    <3>2. other[k].data # s /\ other[k].data # t
      BY <1>2, <3>1
    <3>3. other[k].data \in DOMAIN network
      BY <1>2, <3>1 DEF Edges
    <3>4. other[k].data \in PathNodes(other)
      BY <3>1 DEF PathNodes, DataOf
    <3>5. other[k].data \notin inside
      BY <3>4 DEF Apart
    <3> QED BY <3>2, <3>3, <3>5
  <2>2. t \notin rest
    OBVIOUS
  <2> DEFINE edges == Edges(network)
  <2>3. \A k \in 1 .. Len(other) - 1 : <<other[k].data, other[k + 1].data>> \in edges
    BY <1>2
  <2>4. Len(other) \in Nat /\ Len(other) > 0 /\ other[1].data = s /\ other[Len(other)].data = t
    BY <1>2
  <2>5. Reaches(edges, s, t, rest)
    <3> HIDE DEF rest, edges
    <3> QED BY <2>1, <2>2, <2>3, <2>4, RouteReaches
  <2> QED BY <2>5
<1>6. TwoDisjointRoutes(Edges(network), DOMAIN network, s, t)
  <2> HIDE DEF inside
  <2> QED BY <1>3, <1>4, <1>5 DEF TwoDisjointRoutes
<1> QED BY <1>6 DEF LinkedPair
-----------------------------------------------------------------------------
(* The same edges in the same order, with any distances.                   *)
SameEdges(network, other) ==
  /\ DOMAIN other = DOMAIN network
  /\ \A s \in DOMAIN network :
       /\ other[s] \in Seq([to : DOMAIN network \ {0}, distance : Nat])
       /\ Len(other[s]) = Len(network[s])
       /\ \A i \in 1 .. Len(network[s]) : other[s][i].to = network[s][i].to

LEMMA SameEdgesTransitive ==
  ASSUME NEW a, NEW b, NEW c, SameEdges(a, b), SameEdges(b, c)
  PROVE  SameEdges(a, c)
BY DEF SameEdges

LEMMA SameEdgesEdges ==
  ASSUME NEW a, NEW b, SameEdges(a, b)
  PROVE  Edges(b) = Edges(a)
<1>1. \A s \in DOMAIN a : \A t : (\E i \in 1 .. Len(b[s]) : b[s][i].to = t) <=> \E i \in 1 .. Len(a[s]) : a[s][i].to = t
  BY DEF SameEdges
<1>2. DOMAIN b = DOMAIN a
  BY DEF SameEdges
<1> QED BY <1>1, <1>2 DEF Edges

(* change_edge_distance leaves every edge where it is.                     *)
LEMMA AvoidingFacts ==
  ASSUME NEW network, SameEdges(network, network), NEW route, NEW ks
  PROVE  SameEdges(network, Avoiding(network, route, ks))
<1> DEFINE V == DOMAIN network
           Edge == [to : V \ {0}, distance : Nat]
           hop(s, t) == {k \in ks : route[k].data = s /\ route[k + 1].data = t}
           New(s, i) == IF hop(s, network[s][i].to) = {} THEN network[s][i]
                        ELSE [network[s][i] EXCEPT !.distance = Expensive]
           after == [s \in V |-> [i \in 1 .. Len(network[s]) |-> New(s, i)]]
<1>1. Avoiding(network, route, ks) = after
  BY DEF Avoiding, Reweighed
<1>2. ASSUME NEW s \in V PROVE after[s] \in Seq(Edge) /\ Len(after[s]) = Len(network[s])
                               /\ \A i \in 1 .. Len(network[s]) : after[s][i].to = network[s][i].to
  <2>1. network[s] \in Seq(Edge) /\ Len(network[s]) \in Nat
    <3> HIDE DEF after, New
    <3>1. network[s] \in Seq(Edge)
      BY DEF SameEdges
    <3> HIDE DEF Edge
    <3> QED BY <3>1
  <2>2. \A i \in 1 .. Len(network[s]) : network[s][i] \in Edge
    <3> HIDE DEF after, New, Edge
    <3> QED BY <2>1
  <2>3. \A i \in 1 .. Len(network[s]) : New(s, i) \in Edge /\ New(s, i).to = network[s][i].to
    BY <2>2, PathAssumption
  <2>4. after[s] = [i \in 1 .. Len(network[s]) |-> New(s, i)]
    OBVIOUS
  <2> HIDE DEF after, New, Edge
  <2> QED BY <2>1, <2>3, <2>4
<1>3. SameEdges(network, after)
  <2> HIDE DEF New
  <2> QED BY <1>2 DEF SameEdges
<1> QED BY <1>1, <1>3

LEMMA PutBackFacts ==
  ASSUME NEW network, SameEdges(network, network), NEW route \in Seq(Step),
         NEW ks \in SUBSET (1 .. Len(route) - 1)
  PROVE  SameEdges(network, PutBack(network, route, ks))
<1> DEFINE V == DOMAIN network
           Edge == [to : V \ {0}, distance : Nat]
           hop(s, t) == {k \in ks : route[k].data = s /\ route[k + 1].data = t}
           New(s, i) == IF hop(s, network[s][i].to) = {} THEN network[s][i]
                        ELSE [network[s][i] EXCEPT !.distance = route[(CHOOSE k \in hop(s, network[s][i].to) : TRUE) + 1].distance]
           after == [s \in V |-> [i \in 1 .. Len(network[s]) |-> New(s, i)]]
<1>1. PutBack(network, route, ks) = after
  BY DEF PutBack, Reweighed
<1>2. ASSUME NEW s \in V PROVE after[s] \in Seq(Edge) /\ Len(after[s]) = Len(network[s])
                               /\ \A i \in 1 .. Len(network[s]) : after[s][i].to = network[s][i].to
  <2>1. network[s] \in Seq(Edge) /\ Len(network[s]) \in Nat
    <3> HIDE DEF after, New
    <3>1. network[s] \in Seq(Edge)
      BY DEF SameEdges
    <3> HIDE DEF Edge
    <3> QED BY <3>1
  <2>2. \A i \in 1 .. Len(network[s]) : network[s][i] \in Edge
    <3> HIDE DEF after, New, Edge
    <3> QED BY <2>1
  <2>3. ASSUME NEW i \in 1 .. Len(network[s]) PROVE New(s, i) \in Edge /\ New(s, i).to = network[s][i].to
    <3> DEFINE hops == hop(s, network[s][i].to)
               k    == CHOOSE k \in hops : TRUE
    <3>1. hops \subseteq 1 .. Len(route) - 1
      OBVIOUS
    <3>2. hops # {} => k \in hops
      <4> HIDE DEF hops
      <4> QED BY Zenon
    <3>3. hops # {} => route[k + 1].distance \in Nat
      <4> HIDE DEF hops, k
      <4>1. SUFFICES ASSUME hops # {} PROVE route[k + 1].distance \in Nat
        OBVIOUS
      <4>2. k + 1 \in 1 .. Len(route)
        <5>1. k \in 1 .. Len(route) - 1
          BY <3>1, <3>2, <4>1
        <5>2. Len(route) \in Nat
          OBVIOUS
        <5> QED BY <5>1, <5>2
      <4>3. route[k + 1] \in Step
        <5> HIDE DEF Step
        <5> QED BY <4>2
      <4> QED BY <4>3 DEF Step
    <3>4. network[s][i] \in Edge
      BY <2>2
    <3>5. New(s, i) = IF hops = {} THEN network[s][i] ELSE [network[s][i] EXCEPT !.distance = route[k + 1].distance]
      BY Zenon
    <3> HIDE DEF hops, k, New
    <3> QED BY <3>3, <3>4, <3>5
  <2>4. after[s] = [i \in 1 .. Len(network[s]) |-> New(s, i)]
    OBVIOUS
  <2> HIDE DEF after, New, Edge
  <2> QED BY <2>1, <2>3, <2>4
<1>3. SameEdges(network, after)
  <2> HIDE DEF New
  <2> QED BY <1>2 DEF SameEdges
<1> QED BY <1>1, <1>3

LEMMA SameEdgesSelf ==
  ASSUME NEW a, NEW b, SameEdges(a, b)
  PROVE  SameEdges(b, b)
BY DEF SameEdges

LEMMA AvoidingOverlapFacts ==
  ASSUME NEW network, SameEdges(network, network), NEW one, NEW other
  PROVE  SameEdges(network, AvoidingOverlap(network, one, other))
<1> DEFINE half == Avoiding(network, one, OverlapHops(one, other))
<1>1. SameEdges(network, half)
  BY AvoidingFacts
<1>2. SameEdges(half, half)
  BY <1>1, SameEdgesSelf
<1>3. SameEdges(half, Avoiding(half, other, OverlapHops(other, one)))
  <2> HIDE DEF half
  <2> QED BY <1>2, AvoidingFacts
<1> QED BY <1>1, <1>3, SameEdgesTransitive DEF AvoidingOverlap

LEMMA HopSets ==
  ASSUME NEW one \in Seq(Step), NEW other
  PROVE  AllHops(one) \in SUBSET (1 .. Len(one) - 1) /\ OverlapHops(one, other) \in SUBSET (1 .. Len(one) - 1)
BY DEF AllHops, OverlapHops

LEMMA AllPutBackFacts ==
  ASSUME NEW network, SameEdges(network, network),
         NEW P1 \in Seq(Step), NEW P2 \in Seq(Step), NEW P3 \in Seq(Step)
  PROVE  SameEdges(network, AllPutBack(network, P1, P2, P3))
<1> DEFINE first  == PutBack(network, P3, AllHops(P3))
           second == PutBack(first, P1, OverlapHops(P1, P2))
           third  == PutBack(second, P2, OverlapHops(P2, P1))
<1>1. SameEdges(network, first) /\ SameEdges(first, first)
  BY PutBackFacts, HopSets, SameEdgesSelf
<1>2. SameEdges(first, second) /\ SameEdges(second, second)
  <2> HIDE DEF first
  <2> QED BY <1>1, PutBackFacts, HopSets, SameEdgesSelf
<1>3. SameEdges(second, third)
  <2> HIDE DEF second
  <2> QED BY <1>2, PutBackFacts, HopSets
<1>4. SameEdges(network, third)
  <2> HIDE DEF first, second, third
  <2> QED BY <1>1, <1>2, <1>3, SameEdgesTransitive
<1> QED BY <1>4 DEF AllPutBack
-----------------------------------------------------------------------------
CallShape ==
  /\ call = [at |-> call.at, start |-> call.start, end |-> call.end,
             routes |-> call.routes, before |-> call.before, found |-> call.found]
  /\ call.at \in {"none", "search", "path", "answer"}
  /\ call.routes \in Seq(Seq(Step))

(* What a call asks for, and the paths it has had so far; it answers true  *)
(* at its end at the earliest.                                             *)
Underway ==
  call.at \in {"search", "path", "answer"} =>
    call.start \in Zergs /\ call.end \in Zergs /\ call.start # call.end

RoutesInv ==
  call.at \in {"search", "path"} =>
    /\ ~ call.found
    /\ \A k \in 1 .. Len(call.routes) : RouteOf(built, P(k), call.start, call.end)

SearchesInv ==
  pc # "idle" => call.at = "search" /\ start = call.start /\ end = call.end

CallInv ==
  /\ CallShape /\ SameEdges(built, adj) /\ Underway /\ RoutesInv /\ SearchesInv
  /\ SoundAnswer

LEMMA InitCallInv == DisjointInit => CallInv
<1> SUFFICES ASSUME DisjointInit PROVE CallInv
  OBVIOUS
<1>1. SameEdges(adj, adj)
  BY NetworkAssumption DEF DisjointInit, SearchInit, SameEdges
<1>2. CallShape
  <2>1. call = [at |-> "none", start |-> 0, end |-> 0, routes |-> <<>>, before |-> EmptyMap, found |-> FALSE]
    BY DEF DisjointInit, None
  <2>2. call.routes \in Seq(Seq(Step))
    <3> HIDE DEF Step
    <3> QED BY <2>1
  <2> QED BY <2>1, <2>2 DEF CallShape
<1>3. call.at = "none" /\ pc = "idle" /\ built = adj
  BY DEF DisjointInit, None, SearchInit
<1> QED BY <1>1, <1>2, <1>3 DEF CallInv, Underway, RoutesInv, SearchesInv, SoundAnswer

(* A path that a search hands back is a route of the network as it was     *)
(* built.                                                                  *)
LEMMA PathTakenIsRoute ==
  ASSUME PathIsRoute, TypeInv, pc = "found", path # <<>>, start # end, SameEdges(built, adj)
  PROVE  RouteOf(built, path, start, end)
<1>1. path \in Seq(Step)
  BY DEF TypeInv
<1>2. Len(path) \in Nat /\ Len(path) > 0
  <2> HIDE DEF Step
  <2> QED BY <1>1
<1>3. /\ path[1] = [data |-> start, distance |-> 0]
      /\ path[Len(path)].data = end
      /\ \A i, j \in 1 .. Len(path) : path[i].data = path[j].data => i = j
      /\ \A k \in AllHops(path) :
           \E i \in 1 .. Len(EdgesOf(path[k].data)) :
             EdgesOf(path[k].data)[i] = [to |-> path[k + 1].data, distance |-> path[k + 1].distance]
  BY DEF PathIsRoute
<1>4. path[1].data = start
  BY <1>3
<1>5. Len(path) > 1
  BY <1>2, <1>3, <1>4
<1>6. ASSUME NEW k \in 1 .. Len(path) - 1 PROVE <<path[k].data, path[k + 1].data>> \in Edges(built)
  <2>1. PICK i \in 1 .. Len(EdgesOf(path[k].data)) :
          EdgesOf(path[k].data)[i] = [to |-> path[k + 1].data, distance |-> path[k + 1].distance]
    BY <1>3 DEF AllHops
  <2>2. path[k].data \in DOMAIN adj /\ EdgesOf(path[k].data) = adj[path[k].data]
    BY <2>1 DEF EdgesOf
  <2>3. adj[path[k].data][i].to = path[k + 1].data /\ i \in 1 .. Len(adj[path[k].data])
    BY <2>1, <2>2
  <2>4. adj[path[k].data] \in Seq([to : DOMAIN adj \ {0}, distance : Nat])
    BY <2>2 DEF TypeInv, NetworkOK
  <2>5. adj[path[k].data][i] \in [to : DOMAIN adj \ {0}, distance : Nat]
    <3> DEFINE Edge == [to : DOMAIN adj \ {0}, distance : Nat]
    <3>1. adj[path[k].data] \in Seq(Edge)
      BY <2>4
    <3> HIDE DEF Edge
    <3>2. adj[path[k].data][i] \in Edge
      BY <3>1, <2>3
    <3> QED BY <3>2 DEF Edge
  <2>6. path[k + 1].data \in DOMAIN adj
    BY <2>3, <2>5
  <2>7. <<path[k].data, path[k + 1].data>> \in Edges(adj)
    BY <2>2, <2>3, <2>6 DEF Edges
  <2> QED BY <2>7, SameEdgesEdges
<1> QED BY <1>1, <1>3, <1>4, <1>5, <1>6 DEF RouteOf

(* Between searches the distances change and nothing else does. *)
LEMMA ChangedIsReweigh ==
  ASSUME NEW left, NEW next, Changed(left, next), pc = "idle", SameEdges(adj, left)
  PROVE  Reweigh
BY DEF Changed, Reweigh, SameEdges

(* The routes a call has had, at its next step. *)
LEMMA RouteTypes ==
  ASSUME CallInv, NEW number \in Nat, PathTaken(number)
  PROVE  /\ pc = "idle" /\ SameEdges(adj, adj)
         /\ \A k \in 1 .. number : P(k) \in Seq(Step) /\ RouteOf(built, P(k), call.start, call.end)
<1>1. call.at = "path" /\ Len(call.routes) = number
  BY DEF PathTaken
<1>2. pc = "idle" /\ SameEdges(adj, adj)
  BY <1>1, SameEdgesSelf DEF CallInv, SearchesInv
<1>3. call.routes \in Seq(Seq(Step))
  BY DEF CallInv, CallShape
<1>4. \A k \in 1 .. number : call.routes[k] \in Seq(Step)
  <2> DEFINE paths == Seq(Step)
  <2> HIDE DEF paths
  <2>1. call.routes \in Seq(paths)
    BY <1>3 DEF paths
  <2>2. \A k \in 1 .. number : call.routes[k] \in paths
    BY <2>1, <1>1
  <2> QED BY <2>2 DEF paths
<1>5. \A k \in 1 .. number : RouteOf(built, P(k), call.start, call.end)
  BY <1>1 DEF CallInv, RoutesInv
<1> QED BY <1>2, <1>4, <1>5 DEF P

(* Every step of a call is a step of the search, or changes distances, or  *)
(* nothing that a search sees.                                             *)
LEMMA CallSteps ==
  ASSUME SearchInv, CallInv, [DisjointNext]_<<searchvars, callvars>>
  PROVE  [SearchNext]_searchvars
<1>1. ASSUME NEW s, NEW t, Ask(s, t) PROVE UNCHANGED searchvars
  BY <1>1 DEF Ask
<1>2. ASSUME StartSearch PROVE \E s, t \in ZergId : FindPath(s, t)
  <2>1. call.start \in Zergs /\ call.end \in Zergs
    BY <1>2 DEF StartSearch, CallInv, Underway
  <2>2. Zergs \subseteq ZergId
    BY DEF Zergs, CallInv, SameEdges, SearchInv, TypeInv, NetworkOK
  <2> QED BY <1>2, <2>1, <2>2 DEF StartSearch
<1>3. ASSUME TakePath PROVE Return
  BY <1>3 DEF TakePath
<1>4. ASSUME AfterFirst PROVE Reweigh
  <2>1. SameEdges(adj, Avoiding(adj, P(1), AllHops(P(1)))) /\ pc = "idle"
    BY <1>4, RouteTypes, AvoidingFacts DEF AfterFirst
  <2> QED BY <1>4, <2>1, ChangedIsReweigh DEF AfterFirst
<1>5. ASSUME AfterSecond PROVE Reweigh
  <2> DEFINE restored == PutBack(adj, P(1), AllHops(P(1)))
  <2>1. PathTaken(2) /\ 1 \in 1 .. 2
    BY <1>5 DEF AfterSecond
  <2>2. pc = "idle" /\ SameEdges(adj, adj) /\ P(1) \in Seq(Step)
    BY <2>1, RouteTypes
  <2>3. SameEdges(adj, restored) /\ SameEdges(restored, restored)
    BY <2>2, PutBackFacts, HopSets, SameEdgesSelf
  <2>4. SameEdges(adj, AvoidingOverlap(restored, P(1), P(2)))
    <3> HIDE DEF restored
    <3> QED BY <2>3, AvoidingOverlapFacts, SameEdgesTransitive
  <2>5. \/ Changed(restored, Answered(TRUE))
        \/ Changed(AvoidingOverlap(restored, P(1), P(2)), Searching)
    BY <1>5 DEF AfterSecond
  <2> HIDE DEF restored
  <2> QED BY <2>2, <2>3, <2>4, <2>5, ChangedIsReweigh
<1>6. ASSUME AfterThird PROVE Reweigh
  <2>1. SameEdges(adj, Avoiding(adj, P(3), AllHops(P(3)))) /\ pc = "idle"
    BY <1>6, RouteTypes, AvoidingFacts DEF AfterThird
  <2> QED BY <1>6, <2>1, ChangedIsReweigh DEF AfterThird
<1>7. ASSUME AfterFourth PROVE Reweigh
  <2>1. PathTaken(4) /\ 1 \in 1 .. 4 /\ 2 \in 1 .. 4 /\ 3 \in 1 .. 4
    BY <1>7 DEF AfterFourth
  <2>2. pc = "idle" /\ SameEdges(adj, adj) /\ P(1) \in Seq(Step) /\ P(2) \in Seq(Step) /\ P(3) \in Seq(Step)
    BY <2>1, RouteTypes
  <2>3. SameEdges(adj, AllPutBack(adj, P(1), P(2), P(3)))
    BY <2>2, AllPutBackFacts
  <2> QED BY <1>7, <2>2, <2>3, ChangedIsReweigh DEF AfterFourth
<1>8. ASSUME UseAnswer PROVE UNCHANGED searchvars
  BY <1>8 DEF UseAnswer
<1>9. ASSUME UNCHANGED <<searchvars, callvars>> PROVE UNCHANGED searchvars
  BY <1>9
<1> QED BY <1>1, <1>2, <1>3, <1>4, <1>5, <1>6, <1>7, <1>8, <1>9 DEF DisjointNext, BetweenSearches, SearchNext

(* Distances apart, the network stays. *)
LEMMA SameEdgesStep ==
  ASSUME SearchInv, CallInv, [DisjointNext]_<<searchvars, callvars>>
  PROVE  SameEdges(built, adj)' /\ built' = built
<1>1. built' = built
  BY DEF DisjointNext, BetweenSearches, Ask, StartSearch, TakePath, AfterFirst, AfterSecond, AfterThird,
         AfterFourth, Changed, UseAnswer, callvars
<1>2. SameEdges(built, adj)
  BY DEF CallInv
<1>3. SameEdges(adj, adj')
  <2>1. [SearchNext]_searchvars
    BY CallSteps
  <2>2. CASE Reweigh
    BY <2>2 DEF Reweigh, SameEdges
  <2>3. CASE adj' = adj
    BY <2>3, <1>2, SameEdgesSelf
  <2>4. Reweigh \/ adj' = adj
    BY <2>1 DEF SearchNext, Search, Return, FindPath, TakeNext, VisitImproves, VisitSkips, TurnDone, Exhausted,
                WalkBack, ReachStart, FallOff, searchvars
  <2> QED BY <2>2, <2>3, <2>4
<1>4. SameEdges(built, adj')
  BY <1>2, <1>3, SameEdgesTransitive
<1>5. SameEdges(built', adj')
  BY <1>1, <1>4
<1> QED BY <1>1, <1>5 DEF SameEdges

(* What changes in the record of a call. *)
LEMMA ShapeKept ==
  ASSUME CallShape, NEW at \in {"none", "search", "path", "answer"}, NEW routes \in Seq(Seq(Step)), NEW found,
         \/ call' = [call EXCEPT !.routes = routes, !.at = at] /\ found = call.found
         \/ call' = [call EXCEPT !.at = at, !.found = found] /\ routes = call.routes
         \/ call' = [call EXCEPT !.at = at] /\ routes = call.routes /\ found = call.found
  PROVE  /\ CallShape'
         /\ call'.at = at /\ call'.routes = routes /\ call'.found = found
         /\ call'.start = call.start /\ call'.end = call.end
<1> HIDE DEF Step
<1>1. call = [at |-> call.at, start |-> call.start, end |-> call.end,
              routes |-> call.routes, before |-> call.before, found |-> call.found]
  BY DEF CallShape
<1>2. call' = [at |-> at, start |-> call.start, end |-> call.end,
               routes |-> routes, before |-> call.before, found |-> found]
  BY <1>1
<1> QED BY <1>2 DEF CallShape

(* What an answer, a new search or an awaited path keeps of the invariant. *)
LEMMA Answering ==
  ASSUME CallInv, SearchInv, [DisjointNext]_<<searchvars, callvars>>, pc = "idle", pc' = "idle",
         call.at = "path", NEW found, call' = Answered(found),
         found => LinkedPair(Edges(built), Zergs, call.start, call.end)
  PROVE  CallInv'
<1>1. /\ CallShape'
      /\ call'.at = "answer" /\ call'.found = found
      /\ call'.start = call.start /\ call'.end = call.end
  <2>1. call.routes \in Seq(Seq(Step)) /\ CallShape
    BY DEF CallInv, CallShape
  <2>2. call' = [call EXCEPT !.at = "answer", !.found = found]
    BY DEF Answered
  <2> HIDE DEF Step
  <2> QED BY <2>1, <2>2, ShapeKept
<1>2. built' = built /\ SameEdges(built, adj)'
  BY SameEdgesStep
<1>3. Underway' /\ RoutesInv' /\ SearchesInv'
  BY <1>1, <1>2 DEF CallInv, Underway, RoutesInv, SearchesInv, Zergs
<1>4. SoundAnswer'
  BY <1>1, <1>2 DEF SoundAnswer, Zergs
<1> QED BY <1>1, <1>2, <1>3, <1>4 DEF CallInv

LEMMA GoingOn ==
  ASSUME CallInv, SearchInv, [DisjointNext]_<<searchvars, callvars>>, pc = "idle", pc' = "idle",
         call.at = "path", call' = Searching
  PROVE  CallInv'
<1>1. /\ CallShape'
      /\ call'.at = "search" /\ call'.routes = call.routes /\ call'.found = call.found
      /\ call'.start = call.start /\ call'.end = call.end
  <2>1. call.routes \in Seq(Seq(Step)) /\ CallShape
    BY DEF CallInv, CallShape
  <2>2. call' = [call EXCEPT !.at = "search"]
    BY DEF Searching
  <2> HIDE DEF Step
  <2> QED BY <2>1, <2>2, ShapeKept
<1>2. built' = built /\ SameEdges(built, adj)'
  BY SameEdgesStep
<1>3. Underway' /\ SearchesInv' /\ SoundAnswer'
  BY <1>1, <1>2 DEF CallInv, Underway, SearchesInv, Zergs, SoundAnswer
<1>4. RoutesInv'
  BY <1>1, <1>2 DEF CallInv, RoutesInv, P
<1> QED BY <1>1, <1>2, <1>3, <1>4 DEF CallInv

(* A path that was found is one route more; NULL is the answer false,      *)
(* which a call has from its beginning.                                    *)
LEMMA PathComes ==
  ASSUME CallInv, SearchInv, [DisjointNext]_<<searchvars, callvars>>, TakePath
  PROVE  CallInv'
<1>1. /\ pc = "found" /\ call.at = "search" /\ start = call.start /\ end = call.end /\ pc' = "idle"
      /\ ~ call.found
  BY DEF TakePath, Return, CallInv, SearchesInv, RoutesInv
<1>2. CallShape /\ call.routes \in Seq(Seq(Step)) /\ path \in Seq(Step)
  BY DEF CallInv, CallShape, SearchInv, TypeInv
<1> DEFINE routes == Append(call.routes, path)
           at     == IF path = <<>> THEN "answer" ELSE "path"
<1>3. routes \in Seq(Seq(Step)) /\ Len(routes) = Len(call.routes) + 1 /\ Len(call.routes) \in Nat
      /\ routes[Len(call.routes) + 1] = path
      /\ \A k \in 1 .. Len(call.routes) : routes[k] = call.routes[k]
  <2> DEFINE paths == Seq(Step)
  <2>1. call.routes \in Seq(paths) /\ path \in paths
    BY <1>2
  <2> HIDE DEF paths
  <2>2. routes \in Seq(paths) /\ Len(routes) = Len(call.routes) + 1 /\ Len(call.routes) \in Nat
        /\ routes[Len(call.routes) + 1] = path
        /\ \A k \in 1 .. Len(call.routes) : routes[k] = call.routes[k]
    BY <2>1
  <2> QED BY <2>2 DEF paths
<1>4. /\ CallShape'
      /\ call'.at = at /\ call'.routes = routes /\ call'.found = call.found
      /\ call'.start = call.start /\ call'.end = call.end
  <2>1. call' = [call EXCEPT !.routes = routes, !.at = at]
    BY DEF TakePath
  <2>2. at \in {"none", "search", "path", "answer"}
    OBVIOUS
  <2> HIDE DEF at, routes, Step
  <2> QED BY <1>2, <1>3, <2>1, <2>2, ShapeKept
<1>5. built' = built /\ SameEdges(built, adj)'
  BY SameEdgesStep
<1> HIDE DEF routes
<1>6. Underway' /\ SearchesInv' /\ SoundAnswer'
  BY <1>1, <1>4, <1>5 DEF CallInv, Underway, SearchesInv, Zergs, SoundAnswer
<1>7. RoutesInv'
  <2>1. CASE path = <<>>
    BY <1>4, <2>1 DEF RoutesInv
  <2>2. CASE path # <<>>
    <3>1. PathIsRoute
      BY InvariantGivesRoutes
    <3>2. start # end
      BY <1>1 DEF CallInv, Underway
    <3>3. RouteOf(built, path, call.start, call.end)
      BY <1>1, <2>2, <3>1, <3>2, PathTakenIsRoute DEF CallInv, SearchInv
    <3>4. \A k \in 1 .. Len(call.routes) : RouteOf(built, call.routes[k], call.start, call.end)
      BY <1>1 DEF CallInv, RoutesInv, P
    <3>5. ASSUME NEW k \in 1 .. Len(routes) PROVE RouteOf(built, routes[k], call.start, call.end)
      <4>1. k \in 1 .. Len(call.routes) \/ k = Len(call.routes) + 1
        BY <1>3
      <4> QED BY <1>3, <3>3, <3>4, <4>1
    <3> QED BY <1>1, <1>4, <1>5, <3>5 DEF RoutesInv, P
  <2> QED BY <2>1, <2>2
<1> QED BY <1>4, <1>5, <1>6, <1>7 DEF CallInv

LEMMA CallStep == SearchInv /\ CallInv /\ [DisjointNext]_<<searchvars, callvars>> => CallInv'
<1> SUFFICES ASSUME SearchInv, CallInv, [DisjointNext]_<<searchvars, callvars>> PROVE CallInv'
  OBVIOUS
<1>0. built' = built /\ SameEdges(built, adj)'
  BY SameEdgesStep
<1>1. ASSUME NEW s \in Zergs, NEW t \in Zergs, s # t, Ask(s, t) PROVE CallInv'
  <2>1. call' = [at |-> "search", start |-> s, end |-> t, routes |-> <<>>, before |-> adj, found |-> FALSE]
    BY <1>1 DEF Ask, None
  <2>2. call'.routes = <<>> /\ call'.at = "search" /\ ~ call'.found /\ call'.start = s /\ call'.end = t
    BY <2>1
  <2>3. CallShape'
    <3> HIDE DEF Step
    <3> QED BY <2>1 DEF CallShape
  <2>4. pc' = "idle"
    BY <1>1 DEF Ask, searchvars
  <2> QED BY <1>0, <1>1, <2>2, <2>3, <2>4 DEF CallInv, Underway, RoutesInv, SearchesInv, SoundAnswer, Zergs
<1>2. CASE StartSearch
  <2>1. call' = call /\ call.at = "search" /\ start' = call.start /\ end' = call.end
    BY <1>2 DEF StartSearch, FindPath, callvars
  <2> QED BY <1>0, <2>1 DEF CallInv, CallShape, Underway, RoutesInv, SearchesInv, SoundAnswer, Zergs, P
<1>3. CASE Search /\ UNCHANGED callvars
  <2>1. call' = call /\ pc # "idle" /\ start' = start /\ end' = end
    BY <1>3 DEF Search, TakeNext, VisitImproves, Visiting, VisitSkips, TurnDone, Exhausted, WalkBack, ReachStart,
                FallOff, callvars, arguments
  <2> QED BY <1>0, <2>1 DEF CallInv, CallShape, Underway, RoutesInv, SearchesInv, SoundAnswer, Zergs, P
<1>4. CASE TakePath
  BY <1>4, PathComes
<1>5. CASE AfterFirst
  <2>1. call.at = "path" /\ pc = "idle" /\ pc' = "idle" /\ call' = Searching
    BY <1>5 DEF AfterFirst, PathTaken, Changed, CallInv, SearchesInv
  <2> QED BY <2>1, GoingOn
<1>6. CASE AfterSecond
  <2>0. /\ PathTaken(2)
        /\ \/ \E left : Apart(P(1), P(2)) /\ Changed(left, Answered(TRUE))
           \/ \E left : Changed(left, Searching)
    BY <1>6 DEF AfterSecond
  <2>1. call.at = "path" /\ pc = "idle" /\ pc' = "idle" /\ 1 \in 1 .. 2 /\ 2 \in 1 .. 2
    <3>1. pc' = pc
      BY <2>0 DEF Changed
    <3>2. call.at = "path"
      BY <2>0 DEF PathTaken
    <3>3. pc = "idle"
      BY <3>2 DEF CallInv, SearchesInv
    <3> QED BY <3>1, <3>2, <3>3
  <2>2. \/ call' = Searching
        \/ call' = Answered(TRUE) /\ Apart(P(1), P(2))
    BY <2>0 DEF Changed
  <2>3. RouteOf(built, P(1), call.start, call.end) /\ RouteOf(built, P(2), call.start, call.end)
    BY <2>0, <2>1, RouteTypes
  <2>4. call.start # call.end
    BY <2>1 DEF CallInv, Underway
  <2>5. Apart(P(1), P(2)) => LinkedPair(Edges(built), Zergs, call.start, call.end)
    BY <2>3, <2>4, ApartLinks DEF Zergs
  <2> QED BY <2>1, <2>2, <2>5, GoingOn, Answering
<1>7. CASE AfterThird
  <2>1. call.at = "path" /\ pc = "idle" /\ pc' = "idle" /\ call' = Searching
    BY <1>7 DEF AfterThird, PathTaken, Changed, CallInv, SearchesInv
  <2> QED BY <2>1, GoingOn
<1>8. CASE AfterFourth
  <2>1. call.at = "path" /\ pc = "idle" /\ pc' = "idle" /\ PathTaken(4) /\ 3 \in 1 .. 4 /\ 4 \in 1 .. 4
        /\ call' = Answered(Apart(P(3), P(4)))
    BY <1>8 DEF AfterFourth, PathTaken, Changed, CallInv, SearchesInv
  <2>2. RouteOf(built, P(3), call.start, call.end) /\ RouteOf(built, P(4), call.start, call.end)
    BY <2>1, RouteTypes
  <2>3. call.start # call.end
    BY <2>1 DEF CallInv, Underway
  <2>4. Apart(P(3), P(4)) => LinkedPair(Edges(built), Zergs, call.start, call.end)
    BY <2>2, <2>3, ApartLinks DEF Zergs
  <2> QED BY <2>1, <2>4, Answering
<1>9. CASE UseAnswer
  <2>1. call' = [at |-> "none", start |-> 0, end |-> 0, routes |-> <<>>, before |-> EmptyMap, found |-> FALSE]
        /\ call.at = "answer" /\ pc' = pc
    BY <1>9 DEF UseAnswer, None, searchvars
  <2>2. CallShape'
    <3> HIDE DEF Step
    <3> QED BY <2>1 DEF CallShape
  <2>3. pc = "idle"
    BY <2>1 DEF CallInv, SearchesInv
  <2> QED BY <1>0, <2>1, <2>2, <2>3 DEF CallInv, Underway, RoutesInv, SearchesInv, SoundAnswer
<1>10. CASE UNCHANGED <<searchvars, callvars>>
  <2>1. call' = call /\ pc' = pc /\ start' = start /\ end' = end
    BY <1>10 DEF searchvars, callvars, arguments
  <2> QED BY <1>0, <2>1 DEF CallInv, CallShape, Underway, RoutesInv, SearchesInv, SoundAnswer, Zergs, P
<1> QED BY <1>1, <1>2, <1>3, <1>4, <1>5, <1>6, <1>7, <1>8, <1>9, <1>10 DEF DisjointNext, BetweenSearches

(* Calls of suurballe, and everything between them, are a case of          *)
(* Dijkstra's specification: what is proved of single searches holds of    *)
(* the searches of any sequence of calls (pathfinding.c:133-342).          *)
THEOREM CallsAreSearches == DisjointSpec => CallsFollowSearch
<1>1. DisjointInit => SearchInv /\ CallInv /\ SearchInit
  BY InitInv, InitCallInv DEF DisjointInit
<1>2. SearchInv /\ CallInv /\ [DisjointNext]_<<searchvars, callvars>> => [SearchNext]_searchvars /\ SearchInv' /\ CallInv'
  BY CallSteps, SearchStep, CallStep
<1> QED BY <1>1, <1>2, PTL DEF DisjointSpec, CallsFollowSearch, SearchSpec

(* The answer true of suurballe is right on every network, after any       *)
(* sequence of calls, although their distances may not have been put back: *)
(* the two paths it compares are routes of the network as it was built     *)
(* (pathfinding.c:194-201, 319-341).                                       *)
THEOREM AnswersAreSound == DisjointSpec => []SoundAnswer
<1>1. DisjointInit => SearchInv /\ CallInv
  BY InitInv, InitCallInv DEF DisjointInit
<1>2. SearchInv /\ CallInv /\ [DisjointNext]_<<searchvars, callvars>> => SearchInv' /\ CallInv'
  BY CallSteps, SearchStep, CallStep
<1>3. CallInv => SoundAnswer
  BY DEF CallInv
<1> QED BY <1>1, <1>2, <1>3, PTL DEF DisjointSpec
-----------------------------------------------------------------------------
(***************************************************************************)
(* The calls as the program makes them, with the heap in place of the bag. *)
(***************************************************************************)

ItemOf(entry) == [priority |-> entry.distance, obj |-> entry.obj]
EntryOf(item) == Entry(item.priority, item.obj)

Entries == [distance : Nat, obj : ZergId]

(* How often a bag holds an entry. *)
Amount(bag, entry) == IF entry \in DOMAIN bag THEN bag[entry] ELSE 0

IsBagOfEntries(bag) ==
  /\ DOMAIN bag \subseteq Entries
  /\ \A entry \in DOMAIN bag : bag[entry] \in Nat \ {0}

HoldsEntries(q) ==
  \A k \in 0 .. q.sz - 1 : EntryOf(q.data[k]) \in Entries /\ q.data[k] = ItemOf(EntryOf(q.data[k]))

(* A heap and a bag hold the same, each item as often. *)
StandsFor(q, bag) ==
  /\ IsArray(q.data, q.sz) /\ IsHeap(MIN, q.data, q.sz)
  /\ HoldsEntries(q) /\ IsBagOfEntries(bag)
  /\ \A entry \in Entries : Copies(q.data, q.sz, ItemOf(entry)) = Amount(bag, entry)

LEMMA AmountAdded ==
  ASSUME NEW bag, IsBagOfEntries(bag), NEW x \in Entries
  PROVE  /\ IsBagOfEntries(BagAdd(bag, x))
         /\ \A entry \in Entries :
              Amount(BagAdd(bag, x), entry) = Amount(bag, entry) + (IF entry = x THEN 1 ELSE 0)
BY DEF IsBagOfEntries, Amount, BagAdd

LEMMA AmountRemoved ==
  ASSUME NEW bag, IsBagOfEntries(bag), NEW x \in DOMAIN bag
  PROVE  /\ IsBagOfEntries(BagRemove(bag, x))
         /\ \A entry \in Entries :
              Amount(BagRemove(bag, x), entry) = Amount(bag, entry) - (IF entry = x THEN 1 ELSE 0)
BY DEF IsBagOfEntries, Amount, BagRemove

LEMMA ItemsAreEntries ==
  /\ \A a, b \in Entries : ItemOf(a) = ItemOf(b) => a = b
  /\ \A a \in Entries : EntryOf(ItemOf(a)) = a
BY DEF Entries, ItemOf, EntryOf, Entry

(* What the heap holds the bag holds, and the other way round. *)
LEMMA SameContents ==
  ASSUME NEW q, NEW bag, StandsFor(q, bag)
  PROVE  /\ \A k \in 0 .. q.sz - 1 : EntryOf(q.data[k]) \in DOMAIN bag
         /\ \A entry \in DOMAIN bag : \E k \in 0 .. q.sz - 1 : q.data[k] = ItemOf(entry)
<1>0. /\ q.sz \in Nat /\ HoldsEntries(q) /\ IsBagOfEntries(bag)
      /\ \A entry \in Entries : Copies(q.data, q.sz, ItemOf(entry)) = Amount(bag, entry)
  BY DEF StandsFor, IsArray
<1>1. ASSUME NEW k \in 0 .. q.sz - 1 PROVE EntryOf(q.data[k]) \in DOMAIN bag
  <2> DEFINE entry == EntryOf(q.data[k])
  <2>1. entry \in Entries /\ q.data[k] = ItemOf(entry)
    BY <1>0 DEF HoldsEntries
  <2> HIDE DEF entry
  <2>2. k \in Where(q.data, q.sz, ItemOf(entry))
    BY <2>1 DEF Where
  <2>3. Copies(q.data, q.sz, ItemOf(entry)) # 0
    BY <1>0, <2>2, WhereFinite, FS_EmptySet DEF Copies
  <2> QED BY <1>0, <2>1, <2>3 DEF Amount, entry
<1>2. ASSUME NEW entry \in DOMAIN bag PROVE \E k \in 0 .. q.sz - 1 : q.data[k] = ItemOf(entry)
  <2>1. entry \in Entries /\ Amount(bag, entry) # 0
    BY <1>0 DEF IsBagOfEntries, Amount
  <2>2. Copies(q.data, q.sz, ItemOf(entry)) # 0
    BY <1>0, <2>1
  <2>3. Where(q.data, q.sz, ItemOf(entry)) # {}
    BY <2>2, FS_EmptySet DEF Copies
  <2> QED BY <2>3 DEF Where
<1> QED BY <1>1, <1>2

LEMMA EmptyStands ==
  ASSUME NEW bag, DOMAIN bag = {} PROVE StandsFor(EmptyQueue, bag)
<1>1. EmptyQueue.sz = 0 /\ EmptyQueue.data = <<>>
  BY DEF EmptyQueue
<1>2. IsArray(EmptyQueue.data, EmptyQueue.sz) /\ IsHeap(MIN, EmptyQueue.data, EmptyQueue.sz)
  BY <1>1 DEF IsArray, IsHeap, InOrderBut
<1>3. \A entry : Copies(EmptyQueue.data, EmptyQueue.sz, ItemOf(entry)) = 0
  <2> TAKE entry
  <2>1. Where(EmptyQueue.data, EmptyQueue.sz, ItemOf(entry)) = {}
    BY <1>1 DEF Where
  <2> QED BY <2>1, FS_EmptySet DEF Copies
<1> QED BY <1>1, <1>2, <1>3 DEF StandsFor, HoldsEntries, IsBagOfEntries, Amount

LEMMA EnqueuedStands ==
  ASSUME NEW q, NEW bag, StandsFor(q, bag), NEW distance \in Nat, NEW id \in ZergId
  PROVE  StandsFor(Enqueued(MIN, q, distance, id), BagAdd(bag, Entry(distance, id)))
<1> DEFINE r == Enqueued(MIN, q, distance, id)
           entry == Entry(distance, id)
           x == [priority |-> distance, obj |-> id]
<1>1. entry \in Entries /\ x = ItemOf(entry) /\ EntryOf(x) = entry
  BY DEF Entry, Entries, ItemOf, EntryOf
<1>2. /\ IsArray(q.data, q.sz) /\ IsHeap(MIN, q.data, q.sz) /\ HoldsEntries(q) /\ IsBagOfEntries(bag)
      /\ \A e \in Entries : Copies(q.data, q.sz, ItemOf(e)) = Amount(bag, e)
  BY DEF StandsFor
<1>3. /\ r.sz = q.sz + 1 /\ IsArray(r.data, r.sz) /\ IsHeap(MIN, r.data, r.sz)
      /\ \A y : Copies(r.data, r.sz, y) = Copies(q.data, q.sz, y) + (IF y = x THEN 1 ELSE 0)
      /\ \A k \in 0 .. r.sz - 1 : r.data[k] = x \/ \E j \in 0 .. q.sz - 1 : r.data[k] = q.data[j]
  <2>1. distance \in Int
    OBVIOUS
  <2> QED BY <2>1, <1>2, EnqueuedFacts
<1> HIDE DEF r, x, entry
<1>4. HoldsEntries(r)
  BY <1>1, <1>2, <1>3 DEF HoldsEntries
<1>5. /\ IsBagOfEntries(BagAdd(bag, entry))
      /\ \A e \in Entries : Amount(BagAdd(bag, entry), e) = Amount(bag, e) + (IF e = entry THEN 1 ELSE 0)
  BY <1>1, <1>2, AmountAdded
<1>6. ASSUME NEW e \in Entries
      PROVE  Copies(r.data, r.sz, ItemOf(e)) = Amount(BagAdd(bag, entry), e)
  <2>1. ItemOf(e) = x <=> e = entry
    BY <1>1, ItemsAreEntries
  <2> QED BY <1>2, <1>3, <1>5, <2>1
<1>7. StandsFor(r, BagAdd(bag, entry))
  BY <1>3, <1>4, <1>5, <1>6 DEF StandsFor
<1> QED BY <1>7 DEF r, entry

LEMMA DequeuedStands ==
  ASSUME NEW q, NEW bag, StandsFor(q, bag), q.sz > 0
  PROVE  StandsFor(Dequeued(MIN, q), BagRemove(bag, EntryOf(q.data[0])))
<1> DEFINE r == Dequeued(MIN, q)
           x == q.data[0]
           entry == EntryOf(x)
<1>2. /\ IsArray(q.data, q.sz) /\ IsHeap(MIN, q.data, q.sz) /\ HoldsEntries(q) /\ IsBagOfEntries(bag)
      /\ \A e \in Entries : Copies(q.data, q.sz, ItemOf(e)) = Amount(bag, e)
  BY DEF StandsFor
<1>0. 0 \in 0 .. q.sz - 1
  BY <1>2 DEF IsArray
<1>1. entry \in Entries /\ x = ItemOf(entry) /\ entry \in DOMAIN bag
  BY <1>0, <1>2, SameContents DEF HoldsEntries
<1>3. /\ r.sz = q.sz - 1 /\ IsArray(r.data, r.sz) /\ IsHeap(MIN, r.data, r.sz)
      /\ \A y : Copies(r.data, r.sz, y) = Copies(q.data, q.sz, y) - (IF y = x THEN 1 ELSE 0)
      /\ \A k \in 0 .. r.sz - 1 : \E j \in 0 .. q.sz - 1 : r.data[k] = q.data[j]
  BY <1>2, DequeuedFacts
<1> HIDE DEF r, x, entry
<1>4. HoldsEntries(r)
  BY <1>2, <1>3 DEF HoldsEntries
<1>5. /\ IsBagOfEntries(BagRemove(bag, entry))
      /\ \A e \in Entries : Amount(BagRemove(bag, entry), e) = Amount(bag, e) - (IF e = entry THEN 1 ELSE 0)
  BY <1>1, <1>2, AmountRemoved
<1>6. ASSUME NEW e \in Entries
      PROVE  Copies(r.data, r.sz, ItemOf(e)) = Amount(BagRemove(bag, entry), e)
  <2>1. ItemOf(e) = x <=> e = entry
    BY <1>1, ItemsAreEntries
  <2> QED BY <1>2, <1>3, <1>5, <2>1
<1>7. StandsFor(r, BagRemove(bag, entry))
  BY <1>3, <1>4, <1>5, <1>6 DEF StandsFor
<1> QED BY <1>7 DEF r, entry, x

(* The root of the heap is a best entry of the bag. *)
LEMMA RootStands ==
  ASSUME NEW q, StandsFor(q, to_process), q.sz > 0
  PROVE  Best(EntryOf(q.data[0]))
<1>1. /\ IsArray(q.data, q.sz) /\ IsHeap(MIN, q.data, q.sz) /\ 0 \in 0 .. q.sz - 1
      /\ \A k \in 0 .. q.sz - 1 : q.data[k].priority \in Int
  BY DEF StandsFor, IsArray
<1>2. EntryOf(q.data[0]) \in DOMAIN to_process
  BY <1>1, SameContents
<1>3. ASSUME NEW other \in DOMAIN to_process
      PROVE  EntryOf(q.data[0]).distance <= other.distance
  <2>1. PICK k \in 0 .. q.sz - 1 : q.data[k] = ItemOf(other)
    BY SameContents
  <2>2. ~ Before(MIN, q.data[k].priority, q.data[0].priority)
    BY <1>1, RootIsBest DEF InOrder
  <2>3. q.data[0].priority <= q.data[k].priority
    BY <1>1, <2>2 DEF Before
  <2> QED BY <2>1, <2>3 DEF EntryOf, ItemOf, Entry
<1> QED BY <1>2, <1>3 DEF Best
-----------------------------------------------------------------------------
(* Every step of the calls with the heap is one of the calls with the bag. *)
LEMMA StepsAreCalls == [Next]_vars => [DisjointNext]_<<searchvars, callvars>>
<1> SUFFICES ASSUME [Next]_vars PROVE [DisjointNext]_<<searchvars, callvars>>
  OBVIOUS
<1>1. CASE \E s, t \in Zergs : s # t /\ Ask(s, t)
  BY <1>1 DEF DisjointNext
<1>2. CASE StartWithHeap
  BY <1>2 DEF StartWithHeap, DisjointNext
<1>3. CASE TakeRoot
  <2>1. PICK entry : entry \in DOMAIN to_process /\ TakeNext(entry)
    BY <1>3 DEF TakeRoot, TakeNext, Best
  <2> QED BY <1>3, <2>1 DEF TakeRoot, DisjointNext, Search
<1>4. CASE EdgeImproves \/ EdgeSkipped \/ HeapEmpty \/ RestOfSearch
  <2>1. UNCHANGED callvars
    BY <1>4 DEF EdgeImproves, EdgeSkipped, HeapEmpty, RestOfSearch
  <2>2. Search
    BY <1>4 DEF EdgeImproves, EdgeSkipped, HeapEmpty, RestOfSearch, Search
  <2> QED BY <2>1, <2>2 DEF DisjointNext
<1>5. CASE TakePath \/ AfterFirst \/ AfterSecond \/ AfterThird \/ AfterFourth
  BY <1>5 DEF DisjointNext, BetweenSearches
<1>6. CASE UseAnswer
  BY <1>6 DEF DisjointNext
<1>7. CASE UNCHANGED vars
  BY <1>7 DEF vars
<1> QED BY <1>1, <1>2, <1>3, <1>4, <1>5, <1>6, <1>7 DEF Next, Steps

(* The bag of Dijkstra that the heap stands for. *)
HeapInv == StandsFor(heap, to_process)

LEMMA InitHeapInv == Init => HeapInv
BY EmptyStands DEF Init, DisjointInit, SearchInit, NoEntries, HeapInv

LEMMA HeapStep == SearchInv /\ CallInv /\ HeapInv /\ [Next]_vars => HeapInv'
<1> SUFFICES ASSUME SearchInv, CallInv, HeapInv, [Next]_vars PROVE HeapInv'
  OBVIOUS
<1>1. CASE StartWithHeap
  <2>1. pc = "idle" /\ to_process' = BagAdd(to_process, Entry(0, call.start)) /\ call.start \in ZergId
    <3>1. call.at = "search" /\ pc = "idle" /\ to_process' = BagAdd(to_process, Entry(0, call.start))
      BY <1>1 DEF StartWithHeap, StartSearch, FindPath
    <3>2. call.start \in Zergs /\ DOMAIN built = DOMAIN adj
      BY <3>1 DEF CallInv, Underway, SameEdges
    <3> QED BY <3>1, <3>2 DEF Zergs, SearchInv, TypeInv, NetworkOK
  <2>2. StandsFor(EmptyQueue, to_process)
    BY <2>1, EmptyStands DEF SearchInv, Idle
  <2>3. heap' = Enqueued(MIN, EmptyQueue, 0, call.start)
    BY <1>1 DEF StartWithHeap
  <2> QED BY <2>1, <2>2, <2>3, EnqueuedStands DEF HeapInv
<1>2. CASE TakeRoot
  <2>1. /\ heap.sz > 0 /\ heap' = Dequeued(MIN, heap)
        /\ to_process' = BagRemove(to_process, EntryOf(heap.data[0]))
    BY <1>2 DEF TakeRoot, TakeNext, NextPriority, NextObj, EntryOf
  <2> QED BY <2>1, DequeuedStands DEF HeapInv
<1>3. CASE EdgeImproves
  <2>1. Neighbour \in ZergId /\ Through \in Nat
    <3>1. NetworkOK /\ curr_distance \in Nat
      BY DEF SearchInv, TypeInv
    <3>2. edge \in 1 .. Len(EdgesOf(curr_node))
      BY <1>3 DEF EdgeImproves, VisitImproves, Visiting
    <3> QED BY <3>1, <3>2, EdgesOfFacts DEF Neighbour, Through
  <2>2. heap' = Enqueued(MIN, heap, Through, Neighbour) /\ to_process' = BagAdd(to_process, Entry(Through, Neighbour))
    BY <1>3 DEF EdgeImproves, VisitImproves
  <2> QED BY <2>1, <2>2, EnqueuedStands DEF HeapInv
<1>4. CASE EdgeSkipped \/ HeapEmpty \/ RestOfSearch
  BY <1>4 DEF EdgeSkipped, HeapEmpty, RestOfSearch, VisitSkips, Exhausted, TurnDone, WalkBack, ReachStart, FallOff, HeapInv
<1>5. CASE TakePath /\ heap' = EmptyQueue
  <2>1. DOMAIN to_process' = {}
    BY <1>5 DEF TakePath, Return, NoEntries
  <2> QED BY <1>5, <2>1, EmptyStands DEF HeapInv
<1>6. CASE (AfterFirst \/ AfterSecond \/ AfterThird \/ AfterFourth) /\ UNCHANGED heap
  BY <1>6 DEF AfterFirst, AfterSecond, AfterThird, AfterFourth, Changed, HeapInv
<1>7. CASE UNCHANGED heap /\ ((\E s, t \in Zergs : s # t /\ Ask(s, t)) \/ UseAnswer \/ UNCHANGED vars)
  BY <1>7 DEF Ask, UseAnswer, vars, searchvars, HeapInv
<1>8. CASE UNCHANGED vars
  BY <1>8 DEF vars, searchvars, HeapInv
<1> QED BY <1>1, <1>2, <1>3, <1>4, <1>5, <1>6, <1>7, <1>8 DEF Next, Steps

(* What the heap tells a search is what the bag tells Dijkstra: the item   *)
(* at the root is a best entry; there is none when the heap is empty; and  *)
(* an edge is followed or skipped, by the distance the array gives first,  *)
(* as it may be by that of some entry (pathfinding.c:23-66).               *)
HeapDecides ==
  /\ IF heap.sz = 0 THEN DOMAIN to_process = {} ELSE Best(Entry(NextPriority(heap), NextObj(heap)))
  /\ Visiting /\ Neighbour \notin Expanded \cup {curr_node} =>
       IF \A distance \in Known : distance > Through
       THEN IsShorter
       ELSE \E entry \in DOMAIN to_process : entry.obj = Neighbour /\ entry.distance <= Through

LEMMA HeapInvDecides == SearchInv /\ HeapInv => HeapDecides
<1> SUFFICES ASSUME SearchInv, HeapInv PROVE HeapDecides
  OBVIOUS
<1>1. /\ heap.sz \in Nat /\ IsArray(heap.data, heap.sz)
      /\ \A k \in 0 .. heap.sz - 1 : heap.data[k].priority \in Int
  BY DEF HeapInv, StandsFor, IsArray
<1>2. IF heap.sz = 0 THEN DOMAIN to_process = {} ELSE Best(Entry(NextPriority(heap), NextObj(heap)))
  <2>1. CASE heap.sz = 0
    <3>1. 0 .. heap.sz - 1 = {}
      BY <2>1
    <3>2. DOMAIN to_process = {}
      BY <3>1, SameContents DEF HeapInv
    <3> QED BY <2>1, <3>2
  <2>2. CASE heap.sz # 0
    <3>1. Best(EntryOf(heap.data[0]))
      BY <1>1, <2>2, RootStands DEF HeapInv
    <3> QED BY <2>2, <3>1 DEF EntryOf, NextPriority, NextObj
  <2> QED BY <2>1, <2>2
<1>3. ASSUME Visiting, Neighbour \notin Expanded \cup {curr_node}
      PROVE  IF \A distance \in Known : distance > Through
             THEN IsShorter
             ELSE \E entry \in DOMAIN to_process : entry.obj = Neighbour /\ entry.distance <= Through
  <2>1. Neighbour # 0 /\ Through \in Nat
    <3>1. NetworkOK /\ curr_distance \in Nat
      BY DEF SearchInv, TypeInv
    <3>2. edge \in 1 .. Len(EdgesOf(curr_node))
      BY <1>3 DEF Visiting
    <3> QED BY <3>1, <3>2, EdgesOfFacts DEF Neighbour, Through
  <2>2. /\ \A distance \in Known :
             \E k \in 0 .. heap.sz - 1 : heap.data[k].obj = Neighbour /\ heap.data[k].priority = distance
        /\ Known = {} => \A k \in 0 .. heap.sz - 1 : heap.data[k].obj # Neighbour
    BY <1>1, <2>1, KnownFacts DEF Known
  <2>3. \A distance \in Known :
          distance \in Int /\ \E entry \in DOMAIN to_process : entry.obj = Neighbour /\ entry.distance = distance
    <3> TAKE distance \in Known
    <3>1. PICK k \in 0 .. heap.sz - 1 : heap.data[k].obj = Neighbour /\ heap.data[k].priority = distance
      BY <2>2
    <3>2. EntryOf(heap.data[k]) \in DOMAIN to_process
      BY SameContents DEF HeapInv
    <3>3. EntryOf(heap.data[k]).obj = Neighbour /\ EntryOf(heap.data[k]).distance = distance
      BY <3>1 DEF EntryOf, Entry
    <3> QED BY <1>1, <3>1, <3>2, <3>3
  <2>4. CASE \A distance \in Known : distance > Through
    <3>1. CASE Known = {}
      <4>1. Neighbour \notin Queued
        <5> SUFFICES ASSUME NEW entry \in DOMAIN to_process, entry.obj = Neighbour PROVE FALSE
          BY DEF Queued
        <5>1. PICK k \in 0 .. heap.sz - 1 : heap.data[k] = ItemOf(entry)
          BY SameContents DEF HeapInv
        <5>2. heap.data[k].obj = Neighbour
          BY <5>1 DEF ItemOf
        <5> QED BY <2>2, <3>1, <5>2
      <4> QED BY <1>3, <2>4, <4>1 DEF IsShorter
    <3>2. CASE Known # {}
      <4>1. PICK distance \in Known : TRUE
        BY <3>2
      <4>2. PICK entry \in DOMAIN to_process : entry.obj = Neighbour /\ entry.distance = distance
        BY <2>3
      <4>3. entry.distance > Through
        BY <2>4, <4>2
      <4> QED BY <1>3, <2>4, <4>2, <4>3 DEF IsShorter
    <3> QED BY <3>1, <3>2
  <2>5. CASE ~ \A distance \in Known : distance > Through
    <3>1. PICK distance \in Known : distance <= Through
      BY <2>1, <2>3, <2>5
    <3>2. PICK entry \in DOMAIN to_process : entry.obj = Neighbour /\ entry.distance = distance
      BY <2>3
    <3>3. entry.distance <= Through
      BY <3>1, <3>2
    <3> QED BY <2>5, <3>2, <3>3
  <2> QED BY <2>4, <2>5
<1> QED BY <1>2, <1>3 DEF HeapDecides

RouteInv == SearchInv /\ CallInv /\ HeapInv

LEMMA RouteInvariant == Spec => DisjointSpec /\ []RouteInv
<1>1. Init => DisjointInit /\ RouteInv
  BY InitInv, InitCallInv, InitHeapInv DEF Init, DisjointInit, RouteInv
<1>2. [Next]_vars => [DisjointNext]_<<searchvars, callvars>>
  BY StepsAreCalls
<1>3. RouteInv /\ [Next]_vars => RouteInv'
  BY <1>2, CallSteps, SearchStep, CallStep, HeapStep DEF RouteInv
<1> QED BY <1>1, <1>2, <1>3, PTL DEF Spec, DisjointSpec

(* The heap of the program stands for the bag at every step: nothing that  *)
(* is proved with the bag is void for the heap, whose steps it allows      *)
(* (pathfinding.c:23-66, priority-queue.c:95-199).                         *)
THEOREM HeapStandsForBag == Spec => [](HeapInv /\ HeapDecides)
<1>1. RouteInv => HeapInv /\ HeapDecides
  BY HeapInvDecides DEF RouteInv
<1> QED BY <1>1, RouteInvariant, PTL

(* The calls with the heap make the searches of Dijkstra, and nothing else *)
(* (pathfinding.c:133-342).                                                *)
THEOREM HeapCallsAreSearches == Spec => CallsFollowSearch
BY RouteInvariant, CallsAreSearches

(* Each path of a call is a route, on every network (pathfinding.c:23-116).*)
THEOREM CallPathsAreRoutes == Spec => []PathIsRoute
BY HeapCallsAreSearches, PathsAreRoutes, PTL DEF CallsFollowSearch

(* The answer true is right, on every network and after any calls          *)
(* (pathfinding.c:194-201, 319-341).                                       *)
THEOREM HeapAnswersAreSound == Spec => []SoundAnswer
BY RouteInvariant, AnswersAreSound, PTL
-----------------------------------------------------------------------------
(***************************************************************************)
(* Searches and calls end as Pathfinding foresees them.  Its operators     *)
(* make a search in turns, of which they allow 2 ^ n; the program takes an *)
(* item and visits an edge at a time.  CourseInv relates the two, and      *)
(* counts items to show that the turns suffice.                            *)
(***************************************************************************)

(* The number of subsets, which bounds the turns of a search.              *)
Subsets(S) == Cardinality(SUBSET S)

(* There are finitely many, and a part has no more.                        *)
LEMMA SubsetsFacts ==
  ASSUME NEW S, IsFiniteSet(S)
  PROVE  /\ Subsets(S) \in Nat /\ Subsets(S) = 2 ^ Cardinality(S)
         /\ \A A \in SUBSET S : Subsets(A) \in Nat /\ Subsets(A) > 0 /\ Subsets(A) <= Subsets(S)
<1>1. /\ IsFiniteSet(SUBSET S) /\ Subsets(S) \in Nat
      /\ Subsets(S) = 2 ^ Cardinality(S)
  BY FS_SUBSET, FS_CardinalityType DEF Subsets
<1>2. ASSUME NEW A \in SUBSET S PROVE Subsets(A) \in Nat /\ Subsets(A) > 0 /\ Subsets(A) <= Subsets(S)
  <2>1. IsFiniteSet(SUBSET A) /\ Subsets(A) <= Subsets(S)
    BY <1>1, FS_Subset DEF Subsets
  <2>2. Subsets(A) \in Nat /\ Subsets(A) # 0
    BY <2>1, FS_CardinalityType, FS_EmptySet DEF Subsets
  <2> QED BY <2>1, <2>2
<1> QED BY <1>1, <1>2

(* One element more doubles it, at least.                                  *)
LEMMA SubsetsDouble ==
  ASSUME NEW S, IsFiniteSet(S), NEW v, v \notin S
  PROVE  Subsets(S \cup {v}) >= 2 * Subsets(S)
<1> DEFINE A == SUBSET S
           B == {X \cup {v} : X \in A}
           f == [Y \in B |-> Y \ {v}]
<1>1. A \cup B \subseteq SUBSET (S \cup {v}) /\ A \cap B = {}
  OBVIOUS
<1>2. IsFiniteSet(SUBSET (S \cup {v}))
  BY FS_AddElement, FS_SUBSET
<1>3. IsFiniteSet(A) /\ IsFiniteSet(B) /\ IsFiniteSet(A \cup B)
  BY <1>1, <1>2, FS_Subset
<1>4. f \in Surjection(B, A)
  <2>1. \A Y \in B : Y \ {v} \in A
    OBVIOUS
  <2>2. ASSUME NEW X \in A PROVE \E Y \in B : f[Y] = X
    <3>1. X \cup {v} \in B /\ (X \cup {v}) \ {v} = X
      OBVIOUS
    <3>2. f[X \cup {v}] = X
      BY <3>1
    <3> QED BY <3>1, <3>2
  <2> QED BY <2>1, <2>2 DEF Surjection
<1>5. Cardinality(A) <= Cardinality(B)
  BY <1>3, <1>4, FS_Surjection
<1>6. Cardinality(A \cap B) = 0
  BY <1>1, FS_EmptySet
<1>7. Cardinality(A \cup B) = Cardinality(A) + Cardinality(B) - Cardinality(A \cap B)
  BY <1>3, FS_Union
<1>8. Cardinality(A \cup B) <= Subsets(S \cup {v})
  BY <1>1, <1>2, FS_Subset DEF Subsets
<1>9. /\ Cardinality(A) \in Nat /\ Cardinality(B) \in Nat /\ Subsets(S \cup {v}) \in Nat
      /\ Cardinality(A) = Subsets(S)
  BY <1>2, <1>3, FS_CardinalityType DEF Subsets
<1> HIDE DEF A, B
<1> QED BY <1>5, <1>6, <1>7, <1>8, <1>9
-----------------------------------------------------------------------------
(* The functions by which Pathfinding defines its loops: that of a visit.  *)
Visits(h, n, first, edges) == h = [k \in 0 .. n |-> IF k = 0 THEN first ELSE EdgeVisited(h[k - 1], edges[k])]

(* The functions by which Pathfinding defines its loops exist.             *)
LEMMA VisitsExist ==
  ASSUME NEW n \in Nat, NEW first, NEW edges
  PROVE  \E h : Visits(h, n, first, edges)
<1> DEFINE Value(h, k) == IF k = 0 THEN first ELSE EdgeVisited(h[k - 1], edges[k])
           Lengths == {m \in Nat : \E h : h = [k \in 0 .. m |-> Value(h, k)]}
<1>1. 0 \in Lengths
  <2> DEFINE h == [k \in 0 .. 0 |-> first]
  <2>1. h = [k \in 0 .. 0 |-> Value(h, k)]
    OBVIOUS
  <2> QED BY <2>1
<1>2. ASSUME NEW m \in Nat, m \in Lengths PROVE m + 1 \in Lengths
  <2>1. PICK g : g = [k \in 0 .. m |-> Value(g, k)]
    BY <1>2
  <2> DEFINE h == [k \in 0 .. m + 1 |-> IF k <= m THEN g[k] ELSE EdgeVisited(g[m], edges[m + 1])]
  <2>2. ASSUME NEW k \in 0 .. m + 1 PROVE h[k] = Value(h, k)
    <3>1. CASE k = 0
      <4>1. h[0] = g[0] /\ g[0] = first
        BY <2>1
      <4> QED BY <3>1, <4>1
    <3>2. CASE k \in 1 .. m
      <4>1. h[k] = g[k] /\ h[k - 1] = g[k - 1]
        BY <3>2
      <4>2. g[k] = EdgeVisited(g[k - 1], edges[k])
        BY <2>1, <3>2
      <4> QED BY <3>2, <4>1, <4>2
    <3>3. CASE k = m + 1
      <4>1. h[k] = EdgeVisited(g[m], edges[m + 1]) /\ h[m] = g[m]
        BY <3>3
      <4>2. k - 1 = m /\ k # 0
        BY <3>3
      <4> QED BY <3>3, <4>1, <4>2
    <3> QED BY <3>1, <3>2, <3>3
  <2>3. h = [k \in 0 .. m + 1 |-> Value(h, k)]
    <3>1. h = [k \in 0 .. m + 1 |-> h[k]]
      OBVIOUS
    <3> HIDE DEF h, Value
    <3> QED BY <2>2, <3>1
  <2> HIDE DEF h, Value
  <2> QED BY <2>3
<1>3. n \in Lengths
  <2> HIDE DEF Lengths
  <2> QED BY <1>1, <1>2, SetInduction
<1> QED BY <1>3 DEF Visits

(* The search when an item is taken from the queue.                        *)
LEMMA FirstVisit ==
  ASSUME NEW network, NEW search, NEW next, next = NextObj(search.to_process), Len(network[next]) \in Nat
  PROVE  VisitStates(network, search)[0] =
           [search EXCEPT !.curr_distance = NextPriority(search.to_process),
                          !.curr_node = next,
                          !.to_process = Dequeued(MIN, search.to_process)]
<1> DEFINE n == Len(network[next])
           first == [search EXCEPT !.curr_distance = NextPriority(search.to_process),
                                   !.curr_node = next,
                                   !.to_process = Dequeued(MIN, search.to_process)]
           f == CHOOSE h : Visits(h, n, first, network[next])
<1>1. VisitStates(network, search) = f
  BY DEF VisitStates, Visits
<1> HIDE DEF first
<1>2. Visits(f, n, first, network[next])
  <2>1. \E h : Visits(h, n, first, network[next])
    BY VisitsExist
  <2> QED BY <2>1
<1> HIDE DEF f
<1>3. f[0] = first
  BY <1>2 DEF Visits
<1> QED BY <1>1, <1>3 DEF first

(* And after each of its edges.                                            *)
LEMMA NextVisit ==
  ASSUME NEW network, NEW search, NEW next, next = NextObj(search.to_process), Len(network[next]) \in Nat,
         NEW i \in 1 .. Len(network[next])
  PROVE  VisitStates(network, search)[i] = EdgeVisited(VisitStates(network, search)[i - 1], network[next][i])
<1> DEFINE n == Len(network[next])
           first == [search EXCEPT !.curr_distance = NextPriority(search.to_process),
                                   !.curr_node = next,
                                   !.to_process = Dequeued(MIN, search.to_process)]
           f == CHOOSE h : Visits(h, n, first, network[next])
<1>1. VisitStates(network, search) = f
  BY DEF VisitStates, Visits
<1> HIDE DEF first
<1>2. Visits(f, n, first, network[next])
  <2>1. \E h : Visits(h, n, first, network[next])
    BY VisitsExist
  <2> QED BY <2>1
<1> HIDE DEF f
<1>3. f[i] = EdgeVisited(f[i - 1], network[next][i])
  BY <1>2 DEF Visits
<1> QED BY <1>1, <1>3

(* The search at first, and after each turn.                               *)
LEMMA TurnStatesFacts ==
  ASSUME NEW network, IsFiniteSet(DOMAIN network), NEW search, NEW goal
  PROVE  LET f == TurnStates(network, search, goal)
         IN  /\ f[0] = search
             /\ \A k \in 1 .. Subsets(DOMAIN network) :
                  f[k] = IF f[k - 1].to_process.sz = 0 \/ goal \in f[k - 1].processed
                         THEN f[k - 1] ELSE TurnMade(network, f[k - 1])
<1> DEFINE n == 2 ^ Cardinality(DOMAIN network)
           After(now) == IF now.to_process.sz = 0 \/ goal \in now.processed THEN now ELSE TurnMade(network, now)
           Value(h, k) == IF k = 0 THEN search ELSE After(h[k - 1])
           Lengths == {m \in Nat : \E h : h = [k \in 0 .. m |-> Value(h, k)]}
           f == CHOOSE h : h = [k \in 0 .. n |-> Value(h, k)]
<1>0. n \in Nat /\ n = Subsets(DOMAIN network)
  BY SubsetsFacts
<1>1. 0 \in Lengths
  <2> DEFINE h == [k \in 0 .. 0 |-> search]
  <2>1. h = [k \in 0 .. 0 |-> Value(h, k)]
    OBVIOUS
  <2> QED BY <2>1
<1>2. ASSUME NEW m \in Nat, m \in Lengths PROVE m + 1 \in Lengths
  <2>1. PICK g : g = [k \in 0 .. m |-> Value(g, k)]
    BY <1>2
  <2> HIDE DEF After
  <2> DEFINE h == [k \in 0 .. m + 1 |-> IF k <= m THEN g[k] ELSE After(g[m])]
  <2>2. ASSUME NEW k \in 0 .. m + 1 PROVE h[k] = Value(h, k)
    <3>1. CASE k = 0
      <4>1. h[0] = g[0] /\ g[0] = search
        BY <2>1
      <4> QED BY <3>1, <4>1
    <3>2. CASE k \in 1 .. m
      <4>1. h[k] = g[k] /\ h[k - 1] = g[k - 1]
        BY <3>2
      <4>2. g[k] = After(g[k - 1])
        BY <2>1, <3>2
      <4> QED BY <3>2, <4>1, <4>2
    <3>3. CASE k = m + 1
      <4>1. h[k] = After(g[m]) /\ h[m] = g[m]
        BY <3>3
      <4>2. k - 1 = m /\ k # 0
        BY <3>3
      <4> QED BY <3>3, <4>1, <4>2
    <3> QED BY <3>1, <3>2, <3>3
  <2>3. h = [k \in 0 .. m + 1 |-> Value(h, k)]
    <3>1. h = [k \in 0 .. m + 1 |-> h[k]]
      OBVIOUS
    <3> HIDE DEF h, Value
    <3> QED BY <2>2, <3>1
  <2> HIDE DEF h, Value
  <2> QED BY <2>3
<1>3. n \in Lengths
  <2> HIDE DEF Lengths, n
  <2> QED BY <1>0, <1>1, <1>2, SetInduction
<1>4. f = [k \in 0 .. n |-> Value(f, k)]
  <2> HIDE DEF Value, n
  <2> QED BY <1>3
<1>5. TurnStates(network, search, goal) = f
  BY DEF TurnStates
<1> HIDE DEF f, n
<1>6. f[0] = search /\ \A k \in 1 .. n : f[k] = After(f[k - 1])
  <2> HIDE DEF After
  <2> QED BY <1>0, <1>4
<1> QED BY <1>0, <1>5, <1>6
-----------------------------------------------------------------------------
(* One step of the walk that Pathfinding defines by recursion.             *)
Back(map, walk, at) ==
  IF at \notin DOMAIN map THEN <<>>
  ELSE IF map[at] = NoStep THEN <<[data |-> at, distance |-> 0]>>
  ELSE Append(walk[map[at].data], [data |-> at, distance |-> map[at].distance])

(* A map that leads back in finitely many steps: each comes at a lower     *)
(* rank than the one before.                                               *)
LeadsBack(map, rank, most) ==
  /\ most \in Nat /\ rank \in [ZergId -> 0 .. most]
  /\ \A at \in ZergId \cap DOMAIN map :
       /\ map[at] \in Step
       /\ map[at] # NoStep => map[at].data \in ZergId /\ rank[map[at].data] < rank[at]

(* By rank, the walks back from all zerg are one function.                 *)
LEMMA WalkExists ==
  ASSUME NEW map, NEW rank, NEW most, LeadsBack(map, rank, most)
  PROVE  \E walk : walk = [at \in ZergId |-> Back(map, walk, at)]
<1> DEFINE Upto(g, m) == /\ g = [at \in ZergId |-> g[at]]
                         /\ \A at \in ZergId : rank[at] < m => g[at] = Back(map, g, at)
           Ranks == {m \in Nat : \E g : Upto(g, m)}
<1>0. /\ most \in Nat /\ \A at \in ZergId : rank[at] \in 0 .. most
      /\ \A at \in ZergId \cap DOMAIN map :
           map[at] # NoStep => map[at].data \in ZergId /\ rank[map[at].data] < rank[at]
  BY DEF LeadsBack
<1>1. 0 \in Ranks
  <2> DEFINE g == [at \in ZergId |-> 0]
  <2>1. Upto(g, 0)
    BY <1>0
  <2> QED BY <2>1
<1>2. ASSUME NEW m \in Nat, m \in Ranks PROVE m + 1 \in Ranks
  <2>1. PICK g : Upto(g, m)
    BY <1>2
  <2> DEFINE h == [at \in ZergId |-> Back(map, g, at)]
  <2>2. ASSUME NEW at \in ZergId, rank[at] < m + 1 PROVE h[at] = Back(map, h, at)
    <3>1. h[at] = Back(map, g, at)
      OBVIOUS
    <3>2. CASE at \in DOMAIN map /\ map[at] # NoStep
      <4> DEFINE u == map[at].data
      <4>1. u \in ZergId /\ rank[u] < m
        BY <1>0, <2>2, <3>2
      <4>2. g[u] = Back(map, g, u) /\ h[u] = Back(map, g, u)
        BY <2>1, <4>1
      <4> HIDE DEF h
      <4>3. Back(map, g, at) = Append(g[u], [data |-> at, distance |-> map[at].distance])
        BY <3>2 DEF Back
      <4>4. Back(map, h, at) = Append(h[u], [data |-> at, distance |-> map[at].distance])
        BY <3>2 DEF Back
      <4> QED BY <3>1, <4>2, <4>3, <4>4
    <3>3. CASE ~ (at \in DOMAIN map /\ map[at] # NoStep)
      <4> HIDE DEF h
      <4> QED BY <3>1, <3>3 DEF Back
    <3> QED BY <3>2, <3>3
  <2>3. h = [at \in ZergId |-> h[at]]
    OBVIOUS
  <2> HIDE DEF h
  <2>4. Upto(h, m + 1)
    BY <2>2, <2>3
  <2> HIDE DEF Upto
  <2> QED BY <2>4
<1>3. most + 1 \in Ranks
  <2>1. \A m \in Nat : m \in Ranks
    <3> HIDE DEF Ranks
    <3> QED BY <1>1, <1>2, SetInduction
  <2> HIDE DEF Ranks
  <2> QED BY <1>0, <2>1
<1>4. PICK g : Upto(g, most + 1)
  BY <1>3
<1>5. \A at \in ZergId : g[at] = Back(map, g, at)
  <2>1. ASSUME NEW at \in ZergId PROVE rank[at] < most + 1
    <3>1. rank[at] \in 0 .. most /\ most \in Nat
      BY <1>0
    <3> QED BY <3>1
  <2> QED BY <1>4, <2>1
<1>6. g = [at \in ZergId |-> Back(map, g, at)]
  <2>1. g = [at \in ZergId |-> g[at]]
    BY <1>4
  <2>2. [at \in ZergId |-> g[at]] = [at \in ZergId |-> Back(map, g, at)]
    BY <1>5
  <2> QED BY <2>1, <2>2
<1> QED BY <1>6

(* The walk back from each zerg, by the walk from the one before it.       *)
LEMMA WalkedBackFacts ==
  ASSUME NEW map, NEW rank, NEW most, LeadsBack(map, rank, most)
  PROVE  \A at \in ZergId :
           /\ WalkedBack(map, at) \in Seq(Step)
           /\ at \notin DOMAIN map => WalkedBack(map, at) = <<>>
           /\ at \in DOMAIN map /\ map[at] = NoStep => WalkedBack(map, at) = <<[data |-> at, distance |-> 0]>>
           /\ at \in DOMAIN map /\ map[at] # NoStep =>
                WalkedBack(map, at) = Append(WalkedBack(map, map[at].data), [data |-> at, distance |-> map[at].distance])
<1> DEFINE f == CHOOSE walk : walk = [at \in ZergId |-> Back(map, walk, at)]
<1>0. /\ most \in Nat /\ \A at \in ZergId : rank[at] \in 0 .. most
      /\ \A at \in ZergId \cap DOMAIN map :
           /\ map[at] \in Step
           /\ map[at] # NoStep => map[at].data \in ZergId /\ rank[map[at].data] < rank[at]
  BY DEF LeadsBack
<1>1. f = [at \in ZergId |-> Back(map, f, at)]
  BY WalkExists
<1>2. \A at : WalkedBack(map, at) = f[at]
  BY DEF WalkedBack, Back
<1> HIDE DEF f
<1>3. \A at \in ZergId : f[at] = Back(map, f, at)
  BY <1>1
<1>4. \A at \in ZergId : f[at] \in Seq(Step)
  <2> DEFINE Ranks == {m \in Nat : \A at \in ZergId : rank[at] < m => f[at] \in Seq(Step)}
  <2>1. 0 \in Ranks
    BY <1>0
  <2>2. ASSUME NEW m \in Nat, m \in Ranks PROVE m + 1 \in Ranks
    <3> SUFFICES ASSUME NEW at \in ZergId, rank[at] < m + 1 PROVE f[at] \in Seq(Step)
      OBVIOUS
    <3>1. at \in ZergId \cup {0} /\ 0 \in Nat
      OBVIOUS
    <3>2. CASE at \in DOMAIN map /\ map[at] # NoStep
      <4> DEFINE last == [data |-> at, distance |-> map[at].distance]
      <4>1. f[map[at].data] \in Seq(Step)
        BY <1>0, <2>2, <3>2
      <4>2. last \in Step
        BY <1>0, <3>2 DEF Step
      <4>3. f[at] = Append(f[map[at].data], last)
        BY <1>3, <3>2 DEF Back
      <4> HIDE DEF last
      <4> QED BY <4>1, <4>2, <4>3
    <3>3. CASE at \in DOMAIN map /\ map[at] = NoStep
      <4>1. [data |-> at, distance |-> 0] \in Step
        BY DEF Step
      <4>2. f[at] = <<[data |-> at, distance |-> 0]>>
        BY <1>3, <3>3 DEF Back
      <4> HIDE DEF Step
      <4> QED BY <4>1, <4>2
    <3>4. CASE at \notin DOMAIN map
      <4>1. f[at] = <<>>
        BY <1>3, <3>4 DEF Back
      <4> HIDE DEF Step
      <4> QED BY <4>1
    <3> QED BY <3>2, <3>3, <3>4
  <2>3. \A m \in Nat : m \in Ranks
    <3> HIDE DEF Ranks
    <3> QED BY <2>1, <2>2, SetInduction
  <2>4. most + 1 \in Ranks
    <3> HIDE DEF Ranks
    <3> QED BY <1>0, <2>3
  <2>5. ASSUME NEW at \in ZergId PROVE rank[at] < most + 1
    <3>1. rank[at] \in 0 .. most /\ most \in Nat
      BY <1>0
    <3> QED BY <3>1
  <2> QED BY <2>4, <2>5
<1> QED BY <1>2, <1>3, <1>4 DEF Back

(* The map of a search leads back once the search is over: each zerg's     *)
(* predecessor was expanded before it.                                     *)
LEMMA MapLeadsBack ==
  ASSUME SearchInv, pc \in {"walk", "found"}
  PROVE  \E rank, most : LeadsBack(previous, rank, most)
<1> DEFINE most == Len(processed) + 1
           Places(v) == {i \in 1 .. Len(processed) : processed[i] = v}
           rank == [v \in ZergId |-> IF v \in Expanded THEN CHOOSE i \in Places(v) : TRUE ELSE most]
<1>1. /\ Len(processed) \in Nat /\ most \in Nat
      /\ DOMAIN previous \subseteq ZergId \ {0} /\ previous \in [DOMAIN previous -> Step]
      /\ Expanded \subseteq ZergId
  BY DEF SearchInv, TypeInv, Expanded
<1>2. \A v \in Expanded : \E i \in 1 .. Len(processed) : processed[i] = v
  BY DEF Expanded
<1>3. \A i \in 1 .. Len(processed) : processed[i] \in Expanded /\ processed[i] \in ZergId
  BY <1>1 DEF Expanded
<1>4. ASSUME NEW i \in 1 .. Len(processed) PROVE rank[processed[i]] = i
  <2>1. Places(processed[i]) = {i}
    BY DEF SearchInv, Distinct
  <2>2. rank[processed[i]] = CHOOSE k \in Places(processed[i]) : TRUE
    BY <1>3
  <2> HIDE DEF rank, Places
  <2> QED BY <2>1, <2>2
<1>5. \A v \in ZergId \ Expanded : rank[v] = most
  OBVIOUS
<1>6. rank = [v \in ZergId |-> rank[v]]
  OBVIOUS
<1> HIDE DEF rank
<1>7. ASSUME NEW v \in ZergId PROVE rank[v] \in 0 .. most
  <2>1. CASE v \in Expanded
    <3>1. PICK i \in 1 .. Len(processed) : processed[i] = v
      BY <1>2, <2>1
    <3>2. rank[v] = i
      BY <1>4, <3>1
    <3> QED BY <1>1, <3>2
  <2>2. CASE v \notin Expanded
    BY <1>1, <1>5, <2>2
  <2> QED BY <2>1, <2>2
<1>8. rank \in [ZergId -> 0 .. most]
  <2> HIDE DEF most
  <2> QED BY <1>6, <1>7
<1>9. ASSUME NEW v \in ZergId \cap DOMAIN previous, previous[v] # NoStep
      PROVE  previous[v].data \in ZergId /\ rank[previous[v].data] < rank[v]
  <2>1. v # start
    BY <1>9 DEF SearchInv, StartInv
  <2>2. /\ previous[v].data \in Expanded
        /\ v \in Expanded => Precedes(processed, previous[v].data, v)
    BY <2>1 DEF SearchInv, PredecessorInv, Current
  <2>3. CASE v \in Expanded
    <3>1. PICK i, j \in 1 .. Len(processed) : i < j /\ processed[i] = previous[v].data /\ processed[j] = v
      BY <2>2, <2>3 DEF Precedes
    <3>2. rank[previous[v].data] = i /\ rank[v] = j
      BY <1>4, <3>1
    <3> QED BY <1>1, <2>2, <3>1, <3>2
  <2>4. CASE v \notin Expanded
    <3>1. PICK i \in 1 .. Len(processed) : processed[i] = previous[v].data
      BY <1>2, <2>2
    <3>2. rank[previous[v].data] = i /\ rank[v] = most
      BY <1>4, <1>5, <2>4, <3>1
    <3> QED BY <1>1, <2>2, <3>2
  <2> QED BY <2>3, <2>4
<1>10. LeadsBack(previous, rank, most)
  BY <1>1, <1>8, <1>9 DEF LeadsBack
<1> QED BY <1>10
-----------------------------------------------------------------------------
(* Once the loop is over, nothing changes in what Pathfinding defines.     *)
LEMMA CourseStays ==
  ASSUME NEW network, IsFiniteSet(DOMAIN network), NEW search, NEW goal,
         NEW k \in 0 .. Subsets(DOMAIN network),
         LET now == TurnStates(network, search, goal)[k]
         IN  now.to_process.sz = 0 \/ goal \in now.processed
  PROVE  Searched(network, search, goal) = TurnStates(network, search, goal)[k]
<1> DEFINE f == TurnStates(network, search, goal)
           N == Subsets(DOMAIN network)
           Same == {m \in Nat : k + m <= N => f[k + m] = f[k]}
<1>1. N \in Nat /\ N = 2 ^ Cardinality(DOMAIN network)
  BY SubsetsFacts
<1>2. f[k].to_process.sz = 0 \/ goal \in f[k].processed
  OBVIOUS
<1>3. \A m \in 1 .. N : f[m] = IF f[m - 1].to_process.sz = 0 \/ goal \in f[m - 1].processed
                               THEN f[m - 1] ELSE TurnMade(network, f[m - 1])
  BY TurnStatesFacts
<1>4. Searched(network, search, goal) = f[N]
  BY <1>1 DEF Searched
<1> HIDE DEF f, N
<1>5. k \in Nat /\ k <= N
  BY <1>1 DEF N
<1>6. 0 \in Same
  BY <1>5
<1>7. ASSUME NEW m \in Nat, m \in Same PROVE m + 1 \in Same
  <2> SUFFICES ASSUME k + (m + 1) <= N PROVE f[k + (m + 1)] = f[k]
    OBVIOUS
  <2>1. k + (m + 1) \in 1 .. N /\ (k + (m + 1)) - 1 = k + m /\ k + m <= N
    BY <1>1, <1>5
  <2>2. f[k + m] = f[k]
    BY <1>7, <2>1
  <2>3. f[k + (m + 1)] = IF f[(k + (m + 1)) - 1].to_process.sz = 0 \/ goal \in f[(k + (m + 1)) - 1].processed
                         THEN f[(k + (m + 1)) - 1] ELSE TurnMade(network, f[(k + (m + 1)) - 1])
    BY <1>3, <2>1
  <2> QED BY <1>2, <2>1, <2>2, <2>3
<1>8. \A m \in Nat : m \in Same
  <2> HIDE DEF Same
  <2> QED BY <1>6, <1>7, SetInduction
<1>9. f[N] = f[k]
  <2>1. N - k \in Nat /\ k + (N - k) = N
    BY <1>1, <1>5
  <2> QED BY <1>1, <1>8, <2>1
<1> QED BY <1>4, <1>9 DEF f
-----------------------------------------------------------------------------
(* What the networks of the calls have that those of single searches lack. *)
BuiltInv == built \in Networks

(* Each zerg has its list of edges in the network, no two to the same.     *)
LEMMA Lists ==
  ASSUME SearchInv, CallInv, BuiltInv
  PROVE  /\ IsFiniteSet(DOMAIN adj)
         /\ \A u \in DOMAIN adj :
              /\ EdgesOf(u) = adj[u] /\ Len(adj[u]) \in Nat
              /\ \A i, j \in 1 .. Len(adj[u]) : adj[u][i].to = adj[u][j].to => i = j
              /\ \A i \in 1 .. Len(adj[u]) : adj[u][i].to \in DOMAIN adj \ {0}
<1> DEFINE Edge == [to : DOMAIN adj \ {0}, distance : Nat]
<1>1. /\ DOMAIN adj = DOMAIN built
      /\ \A s \in DOMAIN adj :
           /\ adj[s] \in Seq(Edge)
           /\ Len(adj[s]) = Len(built[s])
           /\ \A i \in 1 .. Len(adj[s]) : adj[s][i].to = built[s][i].to
  BY DEF CallInv, SameEdges
<1>2. /\ IsFiniteSet(DOMAIN built)
      /\ 0 \in DOMAIN built => built[0] = <<>>
      /\ \A s \in DOMAIN built : \A i, j \in 1 .. Len(built[s]) : built[s][i].to = built[s][j].to => i = j
  BY LinkAssumption DEF BuiltInv
<1>3. ASSUME NEW u \in DOMAIN adj
      PROVE  /\ EdgesOf(u) = adj[u] /\ Len(adj[u]) \in Nat
             /\ \A i, j \in 1 .. Len(adj[u]) : adj[u][i].to = adj[u][j].to => i = j
             /\ \A i \in 1 .. Len(adj[u]) : adj[u][i].to \in DOMAIN adj \ {0}
  <2>1. adj[u] \in Seq(Edge)
    BY <1>1
  <2>2. Len(adj[u]) \in Nat /\ \A i \in 1 .. Len(adj[u]) : adj[u][i] \in Edge
    <3> HIDE DEF Edge
    <3> QED BY <2>1
  <2>3. u = 0 => adj[u] = <<>>
    <3>1. u = 0 => Len(adj[u]) = 0
      BY <1>1, <1>2
    <3> HIDE DEF Edge
    <3> QED BY <2>1, <3>1
  <2>4. EdgesOf(u) = adj[u]
    BY <2>3 DEF EdgesOf
  <2> QED BY <1>1, <1>2, <2>2, <2>4
<1> QED BY <1>1, <1>2, <1>3

(* Whatever is queued or expanded is in the network.                       *)
LEMMA QueuedInNetwork ==
  ASSUME SearchInv, CallInv, pc \in {"loop", "visit"}
  PROVE  start \in DOMAIN adj /\ Queued \cup Current \subseteq DOMAIN adj
<1>1. start \in DOMAIN adj
  <2>1. DOMAIN built = DOMAIN adj /\ call.start \in Zergs /\ start = call.start
    BY DEF CallInv, SearchesInv, Underway, SameEdges
  <2> QED BY <2>1 DEF Zergs
<1>2. ASSUME NEW v \in Queued \cup Current, v # start PROVE v \in DOMAIN adj
  <2>1. v # 0
    BY <1>2 DEF SearchInv, StartInv
  <2>2. v \in DOMAIN previous \ {start}
    BY <1>2, <2>1 DEF SearchInv, MapInv
  <2>3. Hop(adj, previous[v].data, v, previous[v].distance)
    BY <2>2 DEF SearchInv, PredecessorInv
  <2> DEFINE u == previous[v].data
             Edge == [to : DOMAIN adj \ {0}, distance : Nat]
  <2>4. PICK i \in 1 .. Len(adj[u]) : adj[u][i] = [to |-> v, distance |-> previous[v].distance]
    BY <2>3 DEF Hop
  <2>5. adj[u] \in Seq(Edge)
    BY <2>3 DEF Hop, SearchInv, TypeInv, NetworkOK
  <2>6. adj[u][i] \in Edge
    <3> HIDE DEF Edge, u
    <3> QED BY <2>5
  <2>7. adj[u][i].to = v /\ adj[u][i].to \in DOMAIN adj
    BY <2>4, <2>6
  <2> QED BY <2>7
<1> QED BY <1>1, <1>2
-----------------------------------------------------------------------------
(* The search as Pathfinding has it, with done for the set of processed,   *)
(* and its states turn by turn.                                            *)
Snapshot(done) ==
  [to_process |-> heap, processed |-> done, previous |-> previous,
   curr_distance |-> curr_distance, curr_node |-> curr_node]

Course == TurnStates(adj, Begun(start), end)

(* Unlike processed, that set holds 0.                                     *)
Covers(done) == done \subseteq DOMAIN adj /\ done \ {0} = Expanded /\ end \notin done

(* There are turns to spare in Subsets for all that is queued: of what is  *)
(* done, there are fewer items and turns than subsets, and of the rest,    *)
(* which would double the subsets, at most one item for every turn.        *)
Spare(turns, done) == turns + Held(heap, done) < Subsets(done)

OneMore(condition) == IF condition THEN 1 ELSE 0

LoopAt(turns, done) ==
  /\ Covers(done) /\ Spare(turns, done)
  /\ \A v : v \notin done => Held(heap, {v}) <= turns + OneMore(turns = 0 /\ v = start)
  /\ Course[turns] = Snapshot(done)

VisitAt(turns, done) ==
  /\ Covers(done) /\ Spare(turns + 1, done \cup {curr_node})
  /\ \A v : v \notin done \cup {curr_node} =>
       Held(heap, {v}) <= turns + OneMore(\E k \in 1 .. edge - 1 : adj[curr_node][k].to = v)
  /\ Course[turns].to_process.sz > 0 /\ Course[turns].processed = done
  /\ NextObj(Course[turns].to_process) = curr_node
  /\ edge - 1 \in 0 .. Len(adj[curr_node])
  /\ VisitStates(adj, Course[turns])[edge - 1] = Snapshot(done)

(* The search ends with the map of its last state in the course, and walks *)
(* back as Pathfinding does.                                               *)
CourseInv ==
  /\ pc = "idle" => curr_distance = 0 /\ curr_node = 0
  /\ pc = "loop" => \E turns \in Nat : \E done : LoopAt(turns, done)
  /\ pc = "visit" => \E turns \in Nat : \E done : VisitAt(turns, done)
  /\ pc \in {"walk", "found"} => Searched(adj, Begun(start), end).previous = previous
  /\ pc = "walk" =>
       WalkedBack(previous, end) = IF path = <<>> THEN WalkedBack(previous, curr_node)
                                   ELSE WalkedBack(previous, curr_node) \o path
  /\ pc = "found" => path = WalkedBack(previous, end)

(* The queue is a heap.                                                    *)
LEMMA HeapFacts ==
  ASSUME HeapInv
  PROVE  heap.sz \in Nat /\ IsArray(heap.data, heap.sz) /\ IsHeap(MIN, heap.data, heap.sz)
BY DEF HeapInv, StandsFor, IsArray

(* What one edge does to a search that is visiting.                        *)
LEMMA VisitedRecord ==
  ASSUME NEW q, NEW done, NEW map, NEW d, NEW u, NEW e, NEW now, NEW longer, NEW more,
         now = [to_process |-> q, processed |-> done, previous |-> map, curr_distance |-> d, curr_node |-> u],
         longer = [id \in DOMAIN map \cup {e.to} |->
                     IF id = e.to THEN [data |-> u, distance |-> e.distance] ELSE map[id]],
         more = Enqueued(MIN, q, d + e.distance, e.to),
         e.to \notin done, e.to # u, \A k \in KnownPriority(q, e.to) : k > d + e.distance
  PROVE  EdgeVisited(now, e) =
           [to_process |-> more, processed |-> done, previous |-> longer, curr_distance |-> d, curr_node |-> u]
<1> DEFINE step == [data |-> u, distance |-> e.distance]
           after == EdgeVisited(now, e)
<1>1. WithStep(map, e.to, step) = longer
  BY DEF WithStep
<1>3. now.to_process = q /\ now.processed = done /\ now.previous = map /\ now.curr_distance = d /\ now.curr_node = u
  OBVIOUS
<1>4. Improves(now, e, d + e.distance)
  BY <1>3 DEF Improves
<1>5. after = [now EXCEPT !.previous = longer, !.to_process = more]
  BY <1>1, <1>3, <1>4 DEF EdgeVisited
<1> HIDE DEF after
<1>6. after = [to_process |-> more, processed |-> done, previous |-> longer, curr_distance |-> d, curr_node |-> u]
  BY <1>5
<1> QED BY <1>6 DEF after

(* And what it does not do.                                                *)
LEMMA SkippedRecord ==
  ASSUME NEW q, NEW done, NEW map, NEW d, NEW u, NEW e, NEW now,
         now = [to_process |-> q, processed |-> done, previous |-> map, curr_distance |-> d, curr_node |-> u],
         \/ e.to \in done \/ e.to = u
         \/ \E k \in KnownPriority(q, e.to) : ~ k > d + e.distance
  PROVE  EdgeVisited(now, e) = now
<1>1. now.to_process = q /\ now.processed = done /\ now.curr_distance = d /\ now.curr_node = u
  OBVIOUS
<1>2. ~ Improves(now, e, d + e.distance)
  BY <1>1 DEF Improves
<1> QED BY <1>1, <1>2 DEF EdgeVisited
-----------------------------------------------------------------------------
(* The search starts where its course does.                                *)
LEMMA StartsCourse ==
  ASSUME SearchInv, CallInv, BuiltInv, CourseInv, StartWithHeap
  PROVE  CourseInv'
<1> DEFINE s == call.start
<1>1. /\ pc = "idle" /\ curr_distance = 0 /\ curr_node = 0 /\ processed = <<>>
      /\ start' = s /\ previous' = [id \in {s} \ {0} |-> NoStep] /\ pc' = "loop"
      /\ heap' = Enqueued(MIN, EmptyQueue, 0, s)
      /\ UNCHANGED <<adj, processed, curr_distance, curr_node, path>>
  BY DEF StartWithHeap, StartSearch, FindPath, SearchInv, Idle, CourseInv, expanding
<1>2. Expanded' = {}
  BY <1>1 DEF Expanded
<1>3. IsFiniteSet(DOMAIN adj)
  BY Lists
<1>4. Course'[0] = Snapshot({})'
  <2>1. Course'[0] = Begun(start)'
    BY <1>1, <1>3, TurnStatesFacts DEF Course
  <2>2. Begun(start)' = Snapshot({})'
    BY <1>1 DEF Begun, Snapshot
  <2> QED BY <2>1, <2>2
<1>5. \A objects : Held(heap', objects) = IF s \in objects THEN 1 ELSE 0
  <2> TAKE objects
  <2>1. IsArray(EmptyQueue.data, EmptyQueue.sz) /\ IsHeap(MIN, EmptyQueue.data, EmptyQueue.sz)
    BY EmptyStands DEF StandsFor, SearchInv, Idle, StartWithHeap, StartSearch, FindPath
  <2>2. Held(EmptyQueue, objects) = 0
    <3>1. HeldBy(EmptyQueue, objects) = {}
      BY DEF HeldBy, EmptyQueue
    <3> QED BY <3>1, FS_EmptySet DEF Held
  <2>3. Held(Enqueued(MIN, EmptyQueue, 0, s), objects) = Held(EmptyQueue, objects) + (IF s \in objects THEN 1 ELSE 0)
    <3>1. 0 \in Int
      OBVIOUS
    <3> QED BY <2>1, <3>1, EnqueuedHeld
  <2> QED BY <1>1, <2>2, <2>3
<1>6. Spare(0, {})'
  <2>1. Subsets({}) \in Nat /\ Subsets({}) > 0
    BY <1>3, SubsetsFacts
  <2>2. Held(heap', {}) = 0
    BY <1>5
  <2> QED BY <2>1, <2>2 DEF Spare
<1>7. LoopAt(0, {})'
  <2>1. Covers({})'
    BY <1>2 DEF Covers
  <2>2. \A v : Held(heap', {v}) <= 0 + OneMore(0 = 0 /\ v = start')
    BY <1>1, <1>5 DEF OneMore
  <2> QED BY <1>4, <1>6, <2>1, <2>2 DEF LoopAt
<1> QED BY <1>1, <1>7 DEF CourseInv
-----------------------------------------------------------------------------
(* There are natural numbers to compare.                                   *)
LEMMA CourseFacts ==
  ASSUME SearchInv, CallInv, BuiltInv, HeapInv
  PROVE  /\ IsFiniteSet(DOMAIN adj)
         /\ heap.sz \in Nat /\ IsArray(heap.data, heap.sz) /\ IsHeap(MIN, heap.data, heap.sz)
         /\ \A objects : Held(heap, objects) \in Nat
         /\ Subsets(DOMAIN adj) \in Nat
         /\ \A A \in SUBSET DOMAIN adj : Subsets(A) \in Nat /\ Subsets(A) > 0 /\ Subsets(A) <= Subsets(DOMAIN adj)
BY Lists, HeapFacts, HeldFacts, SubsetsFacts

(* The root of the heap is in the network.                                 *)
LEMMA RootInNetwork ==
  ASSUME SearchInv, CallInv, HeapInv, TakeRoot
  PROVE  NextObj(heap) \in DOMAIN adj
<1>1. heap.sz \in Nat /\ heap.sz > 0 /\ pc = "loop"
  BY HeapFacts DEF TakeRoot, TakeNext
<1>2. EntryOf(heap.data[0]) \in DOMAIN to_process
  BY <1>1, SameContents DEF HeapInv
<1>3. EntryOf(heap.data[0]).obj = NextObj(heap)
  BY DEF EntryOf, Entry, NextObj
<1>4. NextObj(heap) \in Queued
  BY <1>2, <1>3 DEF Queued
<1> QED BY <1>1, <1>4, QueuedInNetwork

(* An item is taken.  There is a turn to spare for it: if it is of a zerg  *)
(* that was not done, the subsets double, and what the zerg has in the     *)
(* queue is at most an item for every turn.                                *)
LEMMA TakesOnCourse ==
  ASSUME SearchInv, CallInv, BuiltInv, HeapInv, CourseInv, TakeRoot
  PROVE  CourseInv'
<1> DEFINE root == NextObj(heap)
<1>1. /\ heap.sz > 0 /\ pc = "loop" /\ pc' = "visit" /\ edge' = 1
      /\ curr_node' = root /\ curr_distance' = NextPriority(heap)
      /\ heap' = Dequeued(MIN, heap)
      /\ UNCHANGED <<adj, start, end, processed, previous>>
  BY DEF TakeRoot, TakeNext, Entry, arguments
<1>2. /\ IsFiniteSet(DOMAIN adj)
      /\ heap.sz \in Nat /\ IsArray(heap.data, heap.sz) /\ IsHeap(MIN, heap.data, heap.sz)
      /\ \A objects : Held(heap, objects) \in Nat
      /\ \A A \in SUBSET DOMAIN adj : Subsets(A) \in Nat /\ Subsets(A) > 0
  BY CourseFacts
<1>3. root \in DOMAIN adj
  BY RootInNetwork
<1>4. PICK turns \in Nat : \E done : LoopAt(turns, done)
  BY <1>1 DEF CourseInv
<1>5. PICK done : LoopAt(turns, done)
  BY <1>4
<1>6. /\ done \subseteq DOMAIN adj /\ turns + Held(heap, done) < Subsets(done)
      /\ \A v : v \notin done => Held(heap, {v}) <= turns + OneMore(turns = 0 /\ v = start)
      /\ Course[turns] = Snapshot(done)
      /\ Covers(done)
  BY <1>5 DEF LoopAt, Covers, Spare
<1>7. \A objects : /\ Held(heap, objects) = Held(heap', objects) + (IF root \in objects THEN 1 ELSE 0)
                   /\ Held(heap', objects) \in Nat
  <2> TAKE objects
  <2>1. Held(heap, objects) = Held(Dequeued(MIN, heap), objects) + (IF heap.data[0].obj \in objects THEN 1 ELSE 0)
    BY <1>1, <1>2, DequeuedHeld
  <2>2. heap'.sz \in Nat
    <3>1. heap'.sz = heap.sz - 1
      BY <1>1 DEF Dequeued
    <3> QED BY <1>1, <1>2, <3>1
  <2>3. Held(heap', objects) \in Nat
    BY <2>2, HeldFacts
  <2> QED BY <1>1, <2>1, <2>3 DEF NextObj
<1>8. root \notin done /\ turns = 0 => root = start
  <2> SUFFICES ASSUME root \notin done, turns = 0 PROVE root = start
    OBVIOUS
  <2>1. Held(heap, {root}) > 0
    <3>1. Held(heap, {root}) = Held(heap', {root}) + 1 /\ Held(heap', {root}) \in Nat
      BY <1>7
    <3> QED BY <3>1
  <2>2. Held(heap, {root}) <= 0 + OneMore(0 = 0 /\ root = start)
    BY <1>6
  <2> QED BY <1>2, <2>1, <2>2 DEF OneMore
<1>9. turns = 0 => done = {}
  <2> SUFFICES ASSUME turns = 0 PROVE done = {}
    OBVIOUS
  <2>1. Course[0] = Begun(start)
    BY <1>2, TurnStatesFacts DEF Course
  <2>2. Course[0].processed = {}
    BY <2>1 DEF Begun
  <2>3. Course[0].processed = done
    BY <1>6 DEF Snapshot
  <2> QED BY <2>2, <2>3
<1>10. Held(heap', done \cup {root}) + turns + 1 < Subsets(done \cup {root})
  <2>1. CASE root \in done
    <3>1. done \cup {root} = done
      BY <2>1
    <3>2. Held(heap, done) = Held(heap', done) + 1 /\ Held(heap', done) \in Nat /\ Subsets(done) \in Nat
      BY <1>2, <1>6, <1>7, <2>1
    <3> QED BY <1>6, <3>1, <3>2
  <2>2. CASE root \notin done
    <3>1. Held(heap, done \cup {root}) = Held(heap, done) + Held(heap, {root})
      BY <1>2, <2>2, HeldFacts
    <3>2. Held(heap, done \cup {root}) = Held(heap', done \cup {root}) + 1
      BY <1>7
    <3>3. /\ Held(heap, done) \in Nat /\ Held(heap, {root}) \in Nat /\ Held(heap', done \cup {root}) \in Nat
          /\ Subsets(done) \in Nat /\ Subsets(done) > 0 /\ Subsets(done \cup {root}) \in Nat
      BY <1>2, <1>3, <1>6, <1>7
    <3>4. Subsets(done \cup {root}) >= 2 * Subsets(done)
      <4>1. IsFiniteSet(done)
        BY <1>2, <1>6, FS_Subset
      <4> QED BY <2>2, <4>1, SubsetsDouble
    <3>5. Held(heap, {root}) <= Subsets(done)
      <4>1. Held(heap, {root}) <= turns + OneMore(turns = 0 /\ root = start)
        BY <1>6, <2>2
      <4>2. turns < Subsets(done)
        BY <1>6, <3>3
      <4>3. turns = 0 \/ OneMore(turns = 0 /\ root = start) = 0
        BY DEF OneMore
      <4>4. OneMore(turns = 0 /\ root = start) \in 0 .. 1
        BY DEF OneMore
      <4> QED BY <3>3, <4>1, <4>2, <4>3, <4>4
    <3> QED BY <1>6, <3>1, <3>2, <3>3, <3>4, <3>5
  <2> QED BY <2>1, <2>2
<1>11. ASSUME NEW v, v \notin done \cup {root}
       PROVE  Held(heap', {v}) <= turns
  <2>1. Held(heap', {v}) = Held(heap, {v}) /\ Held(heap, {v}) \in Nat
    <3>1. Held(heap, {v}) = Held(heap', {v}) + 0 /\ Held(heap', {v}) \in Nat
      BY <1>7, <1>11
    <3> QED BY <3>1
  <2>2. Held(heap, {v}) <= turns + OneMore(turns = 0 /\ v = start)
    BY <1>6, <1>11
  <2>3. ~ (turns = 0 /\ v = start)
    BY <1>8, <1>9, <1>11
  <2>4. OneMore(turns = 0 /\ v = start) = 0
    BY <2>3 DEF OneMore
  <2> QED BY <2>1, <2>2, <2>4
<1>12. VisitStates(adj, Course[turns])[0] = Snapshot(done)'
  <2> DEFINE now == Snapshot(done)
             first == VisitStates(adj, now)[0]
  <2>1. /\ now.to_process = heap /\ NextObj(now.to_process) = root
        /\ now = [to_process |-> heap, processed |-> done, previous |-> previous,
                  curr_distance |-> curr_distance, curr_node |-> curr_node]
    BY DEF Snapshot
  <2> HIDE DEF now
  <2>2. Len(adj[NextObj(now.to_process)]) \in Nat
    BY <1>3, <2>1, Lists
  <2>3. first = [now EXCEPT !.curr_distance = NextPriority(now.to_process),
                            !.curr_node = NextObj(now.to_process),
                            !.to_process = Dequeued(MIN, now.to_process)]
    BY <2>2, FirstVisit
  <2>4. first = [now EXCEPT !.curr_distance = curr_distance', !.curr_node = curr_node', !.to_process = heap']
    BY <1>1, <2>1, <2>3
  <2> HIDE DEF first
  <2>5. first = [to_process |-> heap', processed |-> done, previous |-> previous,
                 curr_distance |-> curr_distance', curr_node |-> curr_node']
    <3> DEFINE a == curr_distance'
               b == curr_node'
               c == heap'
    <3>1. first = [now EXCEPT !.curr_distance = a, !.curr_node = b, !.to_process = c]
      BY <2>4
    <3>2. now = [to_process |-> heap, processed |-> done, previous |-> previous,
                 curr_distance |-> curr_distance, curr_node |-> curr_node]
      BY <2>1
    <3> HIDE DEF a, b, c
    <3>3. first = [to_process |-> c, processed |-> done, previous |-> previous, curr_distance |-> a, curr_node |-> b]
      BY <3>1, <3>2
    <3> QED BY <3>3 DEF a, b, c
  <2>6. first = Snapshot(done)'
    BY <1>1, <2>5 DEF Snapshot
  <2> QED BY <1>6, <2>6 DEF first, now
<1>13. VisitAt(turns, done)'
  <2>1. Covers(done)'
    BY <1>1, <1>6 DEF Covers, Expanded
  <2>2. Spare(turns + 1, done \cup {curr_node})'
    <3>1. /\ Held(heap', done \cup {root}) \in Nat /\ Subsets(done \cup {root}) \in Nat
      BY <1>2, <1>3, <1>6, <1>7
    <3>2. turns + 1 + Held(heap', done \cup {root}) < Subsets(done \cup {root})
      BY <1>10, <3>1
    <3> QED BY <1>1, <3>2 DEF Spare
  <2>3. \A v : v \notin done \cup {curr_node'} =>
          Held(heap', {v}) <= turns + OneMore(\E k \in 1 .. edge' - 1 : adj'[curr_node'][k].to = v)
    <3> SUFFICES ASSUME NEW v, v \notin done \cup {root}
                 PROVE  Held(heap', {v}) <= turns + OneMore(\E k \in 1 .. edge' - 1 : adj'[curr_node'][k].to = v)
      BY <1>1
    <3> DEFINE more == OneMore(\E k \in 1 .. edge' - 1 : adj'[curr_node'][k].to = v)
    <3>1. more \in 0 .. 1
      BY DEF OneMore
    <3>2. Held(heap', {v}) <= turns /\ Held(heap', {v}) \in Nat
      BY <1>7, <1>11
    <3> HIDE DEF more
    <3>3. Held(heap', {v}) <= turns + more
      BY <3>1, <3>2
    <3> QED BY <3>3 DEF more
  <2>4. Course' = Course
    BY <1>1 DEF Course
  <2>5. /\ Course[turns].to_process.sz > 0 /\ Course[turns].processed = done
        /\ NextObj(Course[turns].to_process) = root
    BY <1>1, <1>6 DEF Snapshot
  <2>6. edge' - 1 = 0 /\ 0 \in 0 .. Len(adj[root])
    BY <1>1, <1>3, Lists
  <2> QED BY <1>1, <1>12, <2>1, <2>2, <2>3, <2>4, <2>5, <2>6 DEF VisitAt
<1> QED BY <1>1, <1>13 DEF CourseInv
-----------------------------------------------------------------------------
(* Where a visit stands: the edge that is next, in the list and in the     *)
(* course.                                                                 *)
LEMMA Visit ==
  ASSUME SearchInv, CallInv, BuiltInv, HeapInv, CourseInv, pc = "visit"
  PROVE  /\ curr_node \in DOMAIN adj /\ EdgesOf(curr_node) = adj[curr_node]
         /\ Len(adj[curr_node]) \in Nat /\ edge \in Nat /\ edge > 0
         /\ \A i, j \in 1 .. Len(adj[curr_node]) : adj[curr_node][i].to = adj[curr_node][j].to => i = j
         /\ \E turns \in Nat : \E done : VisitAt(turns, done)
<1>1. curr_node \in DOMAIN adj
  BY QueuedInNetwork DEF Current
<1> QED BY <1>1, Lists DEF CourseInv, SearchInv, TypeInv

(* What the search after an edge follows from in the course, whether the   *)
(* edge improves a distance or not.                                        *)
LEMMA EdgeOnCourse ==
  ASSUME SearchInv, CallInv, BuiltInv, HeapInv, CourseInv, Visiting,
         edge' = edge + 1, pc' = "visit",
         UNCHANGED <<adj, start, end, processed, curr_distance, curr_node>>,
         NEW x,
         \A objects : Held(heap', objects) = Held(heap, objects) + (IF x /\ Neighbour \in objects THEN 1 ELSE 0),
         x \in BOOLEAN, x => Neighbour \notin Expanded \cup {0, curr_node},
         \A done : done \ {0} = Expanded => EdgeVisited(Snapshot(done), EdgesOf(curr_node)[edge]) = Snapshot(done)'
  PROVE  CourseInv'
<1> DEFINE edges == adj[curr_node]
<1>1. pc = "visit" /\ edge \in 1 .. Len(EdgesOf(curr_node))
  BY DEF Visiting
<1>2. /\ curr_node \in DOMAIN adj /\ EdgesOf(curr_node) = edges /\ Len(edges) \in Nat
      /\ \A i, j \in 1 .. Len(edges) : edges[i].to = edges[j].to => i = j
  BY <1>1, Visit
<1>3. PICK turns \in Nat : \E done : VisitAt(turns, done)
  BY <1>1, Visit
<1>4. PICK done : VisitAt(turns, done)
  BY <1>3
<1> DEFINE now == Course[turns]
           Seen(n, v) == \E k \in 1 .. n - 1 : edges[k].to = v
<1>5. /\ Covers(done) /\ Spare(turns + 1, done \cup {curr_node})
      /\ \A v : v \notin done \cup {curr_node} => Held(heap, {v}) <= turns + OneMore(Seen(edge, v))
      /\ now.to_process.sz > 0 /\ now.processed = done
      /\ NextObj(now.to_process) = curr_node
      /\ VisitStates(adj, now)[edge - 1] = Snapshot(done)
  BY <1>4 DEF VisitAt
<1>6. done \subseteq DOMAIN adj /\ done \ {0} = Expanded
  BY <1>5 DEF Covers
<1>7. edge \in 1 .. Len(edges) /\ edge' - 1 = edge /\ edge' - 1 \in 0 .. Len(edges)
  BY <1>1, <1>2
<1>8. \A objects : Held(heap, objects) \in Nat
  BY CourseFacts
<1>9. x => Neighbour \notin done \cup {curr_node}
  BY <1>6
<1> HIDE DEF edges, now
<1>10. VisitStates(adj, now)[edge] = Snapshot(done)'
  <2>1. VisitStates(adj, now)[edge] = EdgeVisited(VisitStates(adj, now)[edge - 1], edges[edge])
    BY <1>2, <1>5, <1>7, NextVisit DEF edges
  <2> QED BY <1>2, <1>5, <1>6, <2>1
<1>11. Spare(turns + 1, done \cup {curr_node})'
  <2>1. Held(heap', done \cup {curr_node}) = Held(heap, done \cup {curr_node}) + 0
    BY <1>9
  <2>2. Held(heap', done \cup {curr_node}) = Held(heap, done \cup {curr_node})
    BY <1>8, <2>1
  <2> QED BY <1>5, <2>2 DEF Spare
<1>12. ASSUME NEW v, v \notin done \cup {curr_node}
       PROVE  Held(heap', {v}) <= turns + OneMore(Seen(edge + 1, v))
  <2>0. Held(heap, {v}) <= turns + OneMore(Seen(edge, v)) /\ Held(heap, {v}) \in Nat /\ edge \in Nat
    <3>1. Held(heap, {v}) \in Nat /\ edge \in Nat
      BY <1>7, <1>8
    <3> HIDE DEF Seen
    <3> QED BY <1>5, <1>12, <3>1
  <2>1. CASE x /\ v = Neighbour
    <3>1. ~ Seen(edge, v)
      <4> SUFFICES ASSUME NEW k \in 1 .. edge - 1, edges[k].to = v PROVE FALSE
        OBVIOUS
      <4>1. edges[edge].to = v
        BY <1>2, <2>1 DEF Neighbour
      <4>2. k \in 1 .. Len(edges) /\ k # edge
        BY <1>2, <1>7
      <4> QED BY <1>2, <1>7, <4>1, <4>2
    <3>2. OneMore(Seen(edge, v)) = 0
      BY <3>1 DEF OneMore
    <3>3. Seen(edge + 1, v)
      <4>1. edges[edge].to = v /\ edge \in 1 .. (edge + 1) - 1
        BY <1>2, <1>7, <2>1 DEF Neighbour
      <4> QED BY <4>1
    <3>4. OneMore(Seen(edge + 1, v)) = 1
      BY <3>3 DEF OneMore
    <3>5. Held(heap', {v}) = Held(heap, {v}) + 1
      BY <2>1
    <3> HIDE DEF Seen
    <3> QED BY <2>0, <3>2, <3>4, <3>5
  <2>2. CASE ~ (x /\ v = Neighbour)
    <3>1. Held(heap', {v}) = Held(heap, {v}) + 0
      BY <2>2
    <3>2. Seen(edge, v) => Seen(edge + 1, v)
      <4> SUFFICES ASSUME NEW k \in 1 .. edge - 1, edges[k].to = v PROVE Seen(edge + 1, v)
        OBVIOUS
      <4>1. k \in 1 .. (edge + 1) - 1
        BY <2>0
      <4> QED BY <4>1
    <3> HIDE DEF Seen
    <3>3. /\ OneMore(Seen(edge, v)) \in 0 .. 1 /\ OneMore(Seen(edge + 1, v)) \in 0 .. 1
          /\ OneMore(Seen(edge, v)) <= OneMore(Seen(edge + 1, v))
      BY <3>2 DEF OneMore
    <3> QED BY <2>0, <3>1, <3>3
  <2> QED BY <2>1, <2>2
<1>13. VisitAt(turns, done)'
  <2>1. Course' = Course
    BY DEF Course
  <2>2. Covers(done)'
    BY <1>5 DEF Covers, Expanded
  <2>3. adj'[curr_node'] = edges
    BY DEF edges
  <2>4. \A v : v \notin done \cup {curr_node'} =>
          Held(heap', {v}) <= turns + OneMore(\E k \in 1 .. edge' - 1 : adj'[curr_node'][k].to = v)
    BY <1>12, <2>3
  <2> QED BY <1>5, <1>7, <1>10, <1>11, <2>1, <2>2, <2>3, <2>4 DEF VisitAt, now
<1> QED BY <1>13 DEF CourseInv

(* Known, in the course and in the program.                                *)
LEMMA KnownNumbers ==
  ASSUME SearchInv, HeapInv, Visiting
  PROVE  Through \in Nat /\ Neighbour # 0 /\ \A distance \in Known : distance \in Int
<1>1. Neighbour # 0 /\ Through \in Nat
  <2>1. NetworkOK /\ curr_distance \in Nat
    BY DEF SearchInv, TypeInv
  <2>2. edge \in 1 .. Len(EdgesOf(curr_node))
    BY DEF Visiting
  <2> QED BY <2>1, <2>2, EdgesOfFacts DEF Neighbour, Through
<1>2. \A distance \in Known : \E k \in 0 .. heap.sz - 1 : heap.data[k].priority = distance
  BY <1>1, HeapFacts, KnownFacts DEF Known
<1>3. \A k \in 0 .. heap.sz - 1 : heap.data[k].priority \in Int
  BY HeapFacts DEF IsArray
<1> QED BY <1>1, <1>2, <1>3

(* The zerg an edge improves has one item more, and no other edge leads    *)
(* from the current one to it.                                             *)
LEMMA ImprovesOnCourse ==
  ASSUME SearchInv, CallInv, BuiltInv, HeapInv, CourseInv, EdgeImproves
  PROVE  CourseInv'
<1>1. /\ VisitImproves /\ Visiting /\ \A distance \in Known : distance > Through
      /\ heap' = Enqueued(MIN, heap, Through, Neighbour)
      /\ edge' = edge + 1
      /\ UNCHANGED <<adj, start, end, processed, curr_distance, curr_node, pc>>
  BY DEF EdgeImproves, VisitImproves, arguments
<1>2. pc = "visit"
  BY <1>1 DEF Visiting
<1>3. Through \in Nat /\ Neighbour # 0
  BY <1>1, KnownNumbers
<1>4. Neighbour \notin Expanded \cup {0, curr_node}
  BY <1>1, <1>3 DEF VisitImproves, IsShorter
<1>5. \A objects : Held(heap', objects) = Held(heap, objects) + (IF TRUE /\ Neighbour \in objects THEN 1 ELSE 0)
  BY <1>1, <1>3, HeapFacts, EnqueuedHeld
<1>6. ASSUME NEW done, done \ {0} = Expanded
      PROVE  EdgeVisited(Snapshot(done), EdgesOf(curr_node)[edge]) = Snapshot(done)'
  <2> DEFINE e == EdgesOf(curr_node)[edge]
  <2>1. e.to = Neighbour /\ curr_distance + e.distance = Through
    BY DEF Neighbour, Through
  <2>2. previous' = [id \in DOMAIN previous \cup {e.to} |->
                       IF id = e.to THEN [data |-> curr_node, distance |-> e.distance] ELSE previous[id]]
    BY <1>1, <2>1 DEF VisitImproves
  <2> HIDE DEF e
  <2>3. /\ e.to \notin done /\ e.to # curr_node
        /\ \A k \in KnownPriority(heap, e.to) : k > curr_distance + e.distance
    BY <1>1, <1>4, <1>6, <2>1 DEF Known
  <2> DEFINE now == Snapshot(done)
  <2>4. now = [to_process |-> heap, processed |-> done, previous |-> previous,
               curr_distance |-> curr_distance, curr_node |-> curr_node]
    BY DEF Snapshot
  <2> HIDE DEF now
  <2>5. EdgeVisited(now, e) =
          [to_process |-> heap', processed |-> done, previous |-> previous',
           curr_distance |-> curr_distance, curr_node |-> curr_node]
    BY <1>1, <2>1, <2>2, <2>3, <2>4, VisitedRecord
  <2> QED BY <1>1, <2>5 DEF Snapshot, e, now
<1> QED BY <1>1, <1>2, <1>4, <1>5, <1>6, EdgeOnCourse

(* An edge that is skipped changes nothing.                                *)
LEMMA SkipsOnCourse ==
  ASSUME SearchInv, CallInv, BuiltInv, HeapInv, CourseInv, EdgeSkipped
  PROVE  CourseInv'
<1>1. /\ VisitSkips /\ Visiting /\ heap' = heap /\ edge' = edge + 1
      /\ Neighbour \notin Expanded \cup {curr_node} => \E distance \in Known : distance <= Through
      /\ UNCHANGED <<adj, start, end, processed, previous, curr_distance, curr_node, pc>>
  BY DEF EdgeSkipped, VisitSkips, arguments
<1>2. pc = "visit"
  BY <1>1 DEF Visiting
<1>3. Through \in Nat /\ Neighbour # 0 /\ \A distance \in Known : distance \in Int
  BY <1>1, KnownNumbers
<1>4. \A objects : Held(heap', objects) = Held(heap, objects) + (IF FALSE /\ Neighbour \in objects THEN 1 ELSE 0)
  <2> TAKE objects
  <2>1. Held(heap, objects) \in Nat
    BY CourseFacts
  <2> QED BY <1>1, <2>1
<1>5. ASSUME NEW done, done \ {0} = Expanded
      PROVE  EdgeVisited(Snapshot(done), EdgesOf(curr_node)[edge]) = Snapshot(done)'
  <2> DEFINE e == EdgesOf(curr_node)[edge]
  <2>1. e.to = Neighbour /\ curr_distance + e.distance = Through
    BY DEF Neighbour, Through
  <2> HIDE DEF e
  <2>2. \/ e.to \in done \/ e.to = curr_node
        \/ \E k \in KnownPriority(heap, e.to) : ~ k > curr_distance + e.distance
    <3>1. CASE Neighbour \in Expanded \cup {curr_node}
      BY <1>5, <2>1, <3>1
    <3>2. CASE Neighbour \notin Expanded \cup {curr_node}
      <4>1. PICK distance \in Known : distance <= Through
        BY <1>1, <3>2
      <4>2. ~ distance > Through
        BY <1>3, <4>1
      <4> QED BY <2>1, <4>2 DEF Known
    <3> QED BY <3>1, <3>2
  <2> DEFINE now == Snapshot(done)
  <2>3. now = [to_process |-> heap, processed |-> done, previous |-> previous,
               curr_distance |-> curr_distance, curr_node |-> curr_node]
    BY DEF Snapshot
  <2> HIDE DEF now
  <2>4. EdgeVisited(now, e) = now
    BY <2>2, <2>3, SkippedRecord
  <2> QED BY <1>1, <2>4 DEF Snapshot, e, now
<1> QED BY <1>1, <1>2, <1>4, <1>5, EdgeOnCourse
-----------------------------------------------------------------------------
(* A turn of the program is one of the course.                             *)
LEMMA TurnOnCourse ==
  ASSUME SearchInv, CallInv, BuiltInv, HeapInv, CourseInv, TurnDone, UNCHANGED heap
  PROVE  CourseInv'
<1>1. /\ pc = "visit" /\ edge > Len(EdgesOf(curr_node)) /\ path = <<>> /\ path' = path
      /\ pc' = IF curr_node = end THEN "walk" ELSE "loop"
      /\ UNCHANGED <<adj, start, end, previous, curr_distance, curr_node, heap>>
  BY DEF TurnDone, arguments, expanding, SearchInv, WalkInv
<1>2. /\ curr_node \in DOMAIN adj /\ EdgesOf(curr_node) = adj[curr_node] /\ Len(adj[curr_node]) \in Nat
      /\ edge \in Nat
  BY <1>1, Visit
<1>3. PICK turns \in Nat : \E done : VisitAt(turns, done)
  BY <1>1, Visit
<1>4. PICK done : VisitAt(turns, done)
  BY <1>3
<1> DEFINE now == Course[turns]
           more == done \cup {curr_node}
<1>5. /\ Covers(done) /\ Spare(turns + 1, more)
      /\ \A v : v \notin more => Held(heap, {v}) <= turns + OneMore(\E k \in 1 .. edge - 1 : adj[curr_node][k].to = v)
      /\ now.to_process.sz > 0 /\ now.processed = done
      /\ NextObj(now.to_process) = curr_node
      /\ edge - 1 \in 0 .. Len(adj[curr_node])
      /\ VisitStates(adj, now)[edge - 1] = Snapshot(done)
  BY <1>4 DEF VisitAt
<1>6. /\ IsFiniteSet(DOMAIN adj)
      /\ \A objects : Held(heap, objects) \in Nat
      /\ Subsets(DOMAIN adj) \in Nat
      /\ \A A \in SUBSET DOMAIN adj : Subsets(A) \in Nat /\ Subsets(A) <= Subsets(DOMAIN adj)
  BY CourseFacts
<1>7. done \subseteq DOMAIN adj /\ done \ {0} = Expanded /\ end \notin done /\ more \subseteq DOMAIN adj
  BY <1>2, <1>5 DEF Covers
<1> HIDE DEF now, more
<1>8. turns + 1 \in 1 .. Subsets(DOMAIN adj) /\ turns \in 0 .. Subsets(DOMAIN adj) /\ (turns + 1) - 1 = turns
  <2>1. turns + 1 + Held(heap, more) < Subsets(more)
    BY <1>5 DEF Spare
  <2> QED BY <1>6, <1>7, <2>1
<1>9. Course[turns + 1] = Snapshot(more)'
  <2>1. Course[turns + 1] = IF now.to_process.sz = 0 \/ end \in now.processed THEN now ELSE TurnMade(adj, now)
    <3>1. Course[turns + 1] = IF Course[(turns + 1) - 1].to_process.sz = 0 \/ end \in Course[(turns + 1) - 1].processed
                              THEN Course[(turns + 1) - 1] ELSE TurnMade(adj, Course[(turns + 1) - 1])
      BY <1>6, <1>8, TurnStatesFacts DEF Course
    <3> QED BY <1>8, <3>1 DEF now
  <2>2. ~ now.to_process.sz = 0 /\ end \notin now.processed
    BY <1>5, <1>7
  <2>3. TurnMade(adj, now) = [VisitStates(adj, now)[Len(adj[curr_node])] EXCEPT !.processed = @ \cup {curr_node}]
    BY <1>5 DEF TurnMade
  <2>4. Len(adj[curr_node]) = edge - 1
    BY <1>1, <1>2, <1>5
  <2>5. TurnMade(adj, now) = [Snapshot(done) EXCEPT !.processed = done \cup {curr_node}]
    <3>1. Snapshot(done).processed = done
      BY DEF Snapshot
    <3> QED BY <1>5, <2>3, <2>4, <3>1
  <2>6. TurnMade(adj, now) = Snapshot(more)
    BY <2>5 DEF Snapshot, more
  <2>7. Snapshot(more)' = Snapshot(more)
    BY <1>1 DEF Snapshot, more
  <2> QED BY <2>1, <2>2, <2>6, <2>7
<1>10. Expanded' = Expanded \cup ({curr_node} \ {0})
  BY Marked DEF SearchInv
<1>11. CASE curr_node = end
  <2>1. Searched(adj, Begun(start), end) = Course[turns + 1]
    <3>1. end \in Course[turns + 1].processed
      BY <1>1, <1>9, <1>11 DEF Snapshot, more
    <3>2. turns + 1 \in 0 .. Subsets(DOMAIN adj)
      BY <1>8
    <3> QED BY <1>6, <3>1, <3>2, CourseStays DEF Course
  <2>2. Searched(adj, Begun(start), end)'.previous = previous'
    BY <1>1, <1>9, <2>1 DEF Snapshot
  <2> QED BY <1>1, <1>11, <2>2 DEF CourseInv
<1>12. CASE curr_node # end
  <2>1. Covers(more)'
    BY <1>1, <1>7, <1>10, <1>12 DEF Covers, more
  <2>2. Spare(turns + 1, more)'
    BY <1>1, <1>5 DEF Spare, more
  <2>3. \A v : v \notin more => Held(heap', {v}) <= turns + 1 + OneMore(turns + 1 = 0 /\ v = start)
    <3> SUFFICES ASSUME NEW v, v \notin more
                 PROVE  Held(heap', {v}) <= turns + 1 + OneMore(turns + 1 = 0 /\ v = start)
      OBVIOUS
    <3> DEFINE one == OneMore(\E k \in 1 .. edge - 1 : adj[curr_node][k].to = v)
               other == OneMore(turns + 1 = 0 /\ v = start)
    <3>1. one \in 0 .. 1 /\ other \in 0 .. 1
      BY DEF OneMore
    <3>2. Held(heap, {v}) <= turns + one /\ Held(heap, {v}) \in Nat
      BY <1>5, <1>6
    <3> HIDE DEF one, other
    <3>3. Held(heap, {v}) <= turns + 1 + other
      BY <3>1, <3>2
    <3> QED BY <1>1, <3>3 DEF other
  <2>4. Course' = Course
    BY <1>1 DEF Course
  <2>5. LoopAt(turns + 1, more)'
    BY <1>1, <1>9, <2>1, <2>2, <2>3, <2>4 DEF LoopAt, more
  <2>6. turns + 1 \in Nat
    OBVIOUS
  <2> QED BY <1>1, <1>12, <2>5, <2>6 DEF CourseInv
<1> QED BY <1>11, <1>12

(* An empty queue ends the course as well.                                 *)
LEMMA EmptyEndsCourse ==
  ASSUME SearchInv, CallInv, BuiltInv, HeapInv, CourseInv, HeapEmpty
  PROVE  CourseInv'
<1>1. /\ heap.sz = 0 /\ pc = "loop" /\ pc' = "walk" /\ path = <<>> /\ path' = path /\ curr_node' = end
      /\ UNCHANGED <<adj, start, end, previous>>
  BY DEF HeapEmpty, Exhausted, arguments, SearchInv, WalkInv
<1>2. PICK turns \in Nat : \E done : LoopAt(turns, done)
  BY <1>1 DEF CourseInv
<1>3. PICK done : LoopAt(turns, done)
  BY <1>2
<1>4. /\ done \subseteq DOMAIN adj /\ turns + Held(heap, done) < Subsets(done)
      /\ Course[turns] = Snapshot(done)
  BY <1>3 DEF LoopAt, Covers, Spare
<1>5. IsFiniteSet(DOMAIN adj) /\ turns \in 0 .. Subsets(DOMAIN adj)
  <2>1. /\ IsFiniteSet(DOMAIN adj) /\ Held(heap, done) \in Nat /\ Subsets(DOMAIN adj) \in Nat
        /\ Subsets(done) \in Nat /\ Subsets(done) <= Subsets(DOMAIN adj)
    BY <1>4, CourseFacts
  <2> QED BY <1>4, <2>1
<1>6. Searched(adj, Begun(start), end) = Course[turns]
  <2>1. Course[turns].to_process.sz = 0
    BY <1>1, <1>4 DEF Snapshot
  <2> QED BY <1>5, <2>1, CourseStays DEF Course
<1>7. Searched(adj, Begun(start), end)'.previous = previous'
  BY <1>1, <1>4, <1>6 DEF Snapshot
<1> QED BY <1>1, <1>7 DEF CourseInv

(* The walk back is the one Pathfinding defines, a step at a time.         *)
LEMMA WalksOnCourse ==
  ASSUME SearchInv, CallInv, CourseInv, WalkBack \/ ReachStart \/ FallOff
  PROVE  CourseInv'
<1> DEFINE W(at) == WalkedBack(previous, at)
<1>1. /\ pc = "walk" /\ pc' \in {"walk", "found"}
      /\ UNCHANGED <<adj, start, end, previous>>
  BY DEF WalkBack, ReachStart, FallOff, arguments
<1>2. /\ Searched(adj, Begun(start), end).previous = previous
      /\ W(end) = IF path = <<>> THEN W(curr_node) ELSE W(curr_node) \o path
  BY <1>1 DEF CourseInv
<1>3. Searched(adj, Begun(start), end)'.previous = previous'
  BY <1>1, <1>2
<1>4. curr_node \in ZergId /\ path \in Seq(Step)
  <2>1. path \in Seq(Step) /\ Expanded \subseteq ZergId
    BY DEF SearchInv, TypeInv, Expanded
  <2>2. end \in ZergId
    <3>1. DOMAIN built = DOMAIN adj /\ call.end \in Zergs /\ end = call.end
      BY <1>1 DEF CallInv, SearchesInv, Underway, SameEdges
    <3> QED BY <3>1 DEF Zergs, SearchInv, TypeInv, NetworkOK
  <2>3. curr_node = end \/ curr_node \in Expanded
    BY <1>1 DEF SearchInv, WalkInv
  <2> QED BY <2>1, <2>2, <2>3
<1>5. PICK rank : \E most : LeadsBack(previous, rank, most)
  BY <1>1, MapLeadsBack
<1>6. PICK most : LeadsBack(previous, rank, most)
  BY <1>5
<1>7. /\ \A at \in ZergId : W(at) \in Seq(Step)
      /\ curr_node \notin DOMAIN previous => W(curr_node) = <<>>
      /\ curr_node \in DOMAIN previous /\ previous[curr_node] = NoStep =>
           W(curr_node) = <<[data |-> curr_node, distance |-> 0]>>
      /\ curr_node \in DOMAIN previous /\ previous[curr_node] # NoStep =>
           /\ previous[curr_node].data \in ZergId
           /\ W(curr_node) = Append(W(previous[curr_node].data),
                                    [data |-> curr_node, distance |-> previous[curr_node].distance])
  BY <1>4, <1>6, WalkedBackFacts DEF LeadsBack
<1> HIDE DEF W
<1>8. CASE WalkBack
  <2> DEFINE last == [data |-> curr_node, distance |-> previous[curr_node].distance]
             u == previous[curr_node].data
  <2>1. /\ curr_node \in DOMAIN previous /\ previous[curr_node] # NoStep
        /\ path' = <<last>> \o path /\ curr_node' = u /\ pc' = "walk"
    BY <1>1, <1>8 DEF WalkBack
  <2>2. W(curr_node) = Append(W(u), last) /\ W(u) \in Seq(Step) /\ u \in ZergId
    BY <1>7, <2>1
  <2>3. last \in Step
    BY <1>4, <2>1 DEF Step, SearchInv, TypeInv
  <2> HIDE DEF last, u, Step
  <2>4. W(end) = W(u) \o path' /\ path' # <<>>
    <3>1. CASE path = <<>>
      BY <1>2, <2>1, <2>2, <2>3, <3>1
    <3>2. CASE path # <<>>
      BY <1>2, <1>4, <2>1, <2>2, <2>3, <3>2
    <3> QED BY <3>1, <3>2
  <2>5. WalkedBack(previous, end)' = WalkedBack(previous, curr_node)' \o path'
    BY <1>1, <2>1, <2>4 DEF W
  <2> QED BY <1>3, <2>1, <2>4, <2>5 DEF CourseInv
<1>9. CASE ReachStart
  <2> DEFINE last == [data |-> curr_node, distance |-> 0]
  <2>1. /\ curr_node \in DOMAIN previous /\ previous[curr_node] = NoStep
        /\ path' = <<last>> \o path /\ pc' = "found"
    BY <1>9 DEF ReachStart
  <2>2. W(curr_node) = <<last>>
    BY <1>7, <2>1
  <2> HIDE DEF last, Step
  <2>3. W(end) = path'
    BY <1>2, <1>4, <2>1, <2>2
  <2> QED BY <1>1, <1>3, <2>1, <2>3 DEF CourseInv, W
<1>10. CASE FallOff
  <2>1. curr_node \notin DOMAIN previous /\ path' = path /\ pc' = "found"
    BY <1>10 DEF FallOff
  <2>2. W(curr_node) = <<>>
    BY <1>7, <2>1
  <2> HIDE DEF Step
  <2>3. W(end) = path'
    BY <1>2, <1>4, <2>1, <2>2
  <2> QED BY <1>1, <1>3, <2>1, <2>3 DEF CourseInv, W
<1> QED BY <1>8, <1>9, <1>10
-----------------------------------------------------------------------------
(* At first nothing is under way.                                          *)
LEMMA InitCourse == Init => BuiltInv /\ CourseInv
BY DEF Init, DisjointInit, SearchInit, BuiltInv, CourseInv

(* The network stays as it was built.                                      *)
LEMMA BuiltStays == BuiltInv /\ [Next]_vars => BuiltInv' /\ built' = built
<1> SUFFICES ASSUME BuiltInv, [Next]_vars PROVE built' = built
  BY DEF BuiltInv
<1> QED BY StepsAreCalls DEF DisjointNext, BetweenSearches, Ask, StartSearch, TakePath, AfterFirst, AfterSecond,
          AfterThird, AfterFourth, Changed, UseAnswer, callvars

(* Every step keeps to the course.                                         *)
LEMMA CourseStep == RouteInv /\ BuiltInv /\ CourseInv /\ [Next]_vars => CourseInv'
<1> SUFFICES ASSUME RouteInv, BuiltInv, CourseInv, [Next]_vars PROVE CourseInv'
  OBVIOUS
<1> USE DEF RouteInv
<1>1. CASE StartWithHeap
  BY <1>1, StartsCourse
<1>2. CASE TakeRoot
  BY <1>2, TakesOnCourse
<1>3. CASE EdgeImproves
  BY <1>3, ImprovesOnCourse
<1>4. CASE EdgeSkipped
  BY <1>4, SkipsOnCourse
<1>5. CASE HeapEmpty
  BY <1>5, EmptyEndsCourse
<1>6. CASE RestOfSearch
  BY <1>6, TurnOnCourse, WalksOnCourse DEF RestOfSearch
<1>7. CASE TakePath /\ heap' = EmptyQueue
  BY <1>7 DEF TakePath, Return, CourseInv
<1>8. CASE AfterFirst \/ AfterSecond \/ AfterThird \/ AfterFourth
  <2>1. /\ pc = "idle" /\ UNCHANGED <<pc, curr_distance, curr_node>>
    BY <1>8 DEF AfterFirst, AfterSecond, AfterThird, AfterFourth, PathTaken, Changed, CallInv, SearchesInv, expanding
  <2> QED BY <2>1 DEF CourseInv
<1>9. CASE UNCHANGED <<searchvars, heap>>
  <2>1. UNCHANGED <<adj, start, end, previous, processed, curr_distance, curr_node, edge, path, pc, heap>>
    BY <1>9 DEF searchvars, arguments, expanding
  <2>2. /\ Expanded' = Expanded /\ Course' = Course
        /\ \A done : Snapshot(done)' = Snapshot(done)
    BY <2>1 DEF Expanded, Course, Snapshot
  <2>3. \A turns, done : (LoopAt(turns, done) => LoopAt(turns, done)') /\ (VisitAt(turns, done) => VisitAt(turns, done)')
    BY <2>1, <2>2 DEF LoopAt, VisitAt, Covers, Spare
  <2> QED BY <2>1, <2>3 DEF CourseInv
<1>10. CASE UNCHANGED heap /\ ((\E s, t \in Zergs : s # t /\ Ask(s, t)) \/ UseAnswer)
  BY <1>9, <1>10 DEF Ask, UseAnswer
<1>11. CASE UNCHANGED vars
  BY <1>9, <1>11 DEF vars
<1> QED BY <1>1, <1>2, <1>3, <1>4, <1>5, <1>6, <1>7, <1>8, <1>10, <1>11 DEF Next, Steps

(* Every path that is found is the one foreseen.                           *)
LEMMA FoundAsForeseen ==
  ASSUME CourseInv, pc = "found"
  PROVE  path = PathDijkstra(adj, start, end)
BY DEF CourseInv, PathDijkstra
-----------------------------------------------------------------------------
(* What Pathfinding foresees of a call, from the start and from each path  *)
(* on.                                                                     *)
Foreseen == Suurballe(call.before, call.start, call.end)

Sofar(number) ==
  \/ number = 0 /\ adj = call.before
  \/ /\ number = 1
     /\ adj = Avoiding(call.before, P(1), AllHops(P(1)))
     /\ Foreseen = SecondSearch(call.before, P(1), call.start, call.end)
  \/ /\ number = 2
     /\ \E network : /\ adj = AvoidingOverlap(network, P(1), P(2))
                     /\ Foreseen = ThirdSearch(network, P(1), P(2), call.start, call.end)
  \/ /\ number = 3
     /\ \E network : /\ adj = Avoiding(network, P(3), AllHops(P(3)))
                     /\ Foreseen = FourthSearch(network, P(1), P(2), P(3), call.start, call.end)

CallForeseen ==
  /\ call.at = "search" => Sofar(Len(call.routes))
  /\ call.at = "path" =>
       /\ Sofar(Len(call.routes) - 1)
       /\ P(Len(call.routes)) = PathDijkstra(adj, call.start, call.end)
       /\ P(Len(call.routes)) # <<>>
  /\ call.at = "answer" => Answer(call.found, adj) = Foreseen

(* No call is under way at first.                                          *)
LEMMA InitForeseen == Init => CallForeseen
BY DEF Init, DisjointInit, None, CallForeseen

(* A path is taken: NULL ends the call, as it does what is foreseen.       *)
LEMMA TakenAsForeseen ==
  ASSUME RouteInv, CourseInv, CallForeseen, TakePath
  PROVE  CallForeseen'
<1> DEFINE at == IF path = <<>> THEN "answer" ELSE "path"
<1>1. /\ call.at = "search" /\ start = call.start /\ end = call.end /\ pc = "found"
      /\ ~ call.found /\ call.routes \in Seq(Seq(Step)) /\ path \in Seq(Step)
      /\ adj' = adj
  BY DEF TakePath, Return, RouteInv, CallInv, SearchesInv, RoutesInv, CallShape, SearchInv, TypeInv
<1>2. path = PathDijkstra(adj, call.start, call.end)
  BY <1>1, FoundAsForeseen
<1>3. /\ call'.at = at /\ call'.routes = Append(call.routes, path) /\ call'.found = call.found
      /\ call'.start = call.start /\ call'.end = call.end /\ call'.before = call.before
  <2>1. call = [at |-> call.at, start |-> call.start, end |-> call.end,
                routes |-> call.routes, before |-> call.before, found |-> call.found]
    BY DEF RouteInv, CallInv, CallShape
  <2>2. call' = [call EXCEPT !.routes = Append(call.routes, path), !.at = at]
    BY DEF TakePath
  <2> HIDE DEF at
  <2> QED BY <2>1, <2>2
<1>0. PICK n \in Nat : n = Len(call.routes)
  BY <1>1
<1>4. /\ n \in Nat /\ Len(call'.routes) = n + 1 /\ call'.routes[n + 1] = path
      /\ \A k \in 1 .. n : call'.routes[k] = call.routes[k]
  BY <1>0, <1>1, <1>3
<1>5. Sofar(n)
  BY <1>0, <1>1 DEF CallForeseen
<1>6. Foreseen' = Foreseen
  BY <1>3 DEF Foreseen
<1>7. call.found = FALSE
  BY <1>1 DEF RouteInv, CallInv, CallShape
<1>8. CASE path = <<>>
  <2>1. Answer(FALSE, adj) = Foreseen
    <3>1. CASE n = 0 /\ adj = call.before
      BY <1>2, <1>8, <3>1 DEF Foreseen, Suurballe
    <3>2. CASE /\ adj = Avoiding(call.before, P(1), AllHops(P(1)))
               /\ Foreseen = SecondSearch(call.before, P(1), call.start, call.end)
      BY <1>2, <1>8, <3>2 DEF SecondSearch
    <3>3. CASE \E network : /\ adj = AvoidingOverlap(network, P(1), P(2))
                            /\ Foreseen = ThirdSearch(network, P(1), P(2), call.start, call.end)
      BY <1>2, <1>8, <3>3 DEF ThirdSearch
    <3>4. CASE \E network : /\ adj = Avoiding(network, P(3), AllHops(P(3)))
                            /\ Foreseen = FourthSearch(network, P(1), P(2), P(3), call.start, call.end)
      BY <1>2, <1>8, <3>4 DEF FourthSearch
    <3> QED BY <1>5, <3>1, <3>2, <3>3, <3>4 DEF Sofar
  <2> QED BY <1>1, <1>3, <1>6, <1>7, <1>8, <2>1 DEF CallForeseen
<1>9. CASE path # <<>>
  <2>1. call'.at = "path"
    BY <1>3, <1>9
  <2>2. Sofar(n)'
    <3>1. CASE n = 0
      BY <1>1, <1>3, <1>5, <3>1 DEF Sofar
    <3>2. CASE n = 1
      <4>1. P(1)' = P(1)
        BY <1>4, <3>2 DEF P
      <4> QED BY <1>1, <1>3, <1>5, <1>6, <3>2, <4>1 DEF Sofar
    <3>3. CASE n = 2
      <4>1. P(1)' = P(1) /\ P(2)' = P(2)
        BY <1>4, <3>3 DEF P
      <4> QED BY <1>1, <1>3, <1>5, <1>6, <3>3, <4>1 DEF Sofar
    <3>4. CASE n = 3
      <4>1. P(1)' = P(1) /\ P(2)' = P(2) /\ P(3)' = P(3)
        BY <1>4, <3>4 DEF P
      <4> QED BY <1>1, <1>3, <1>5, <1>6, <3>4, <4>1 DEF Sofar
    <3> QED BY <1>5, <3>1, <3>2, <3>3, <3>4 DEF Sofar
  <2>3. Len(call'.routes) - 1 = n
    BY <1>4
  <2>4. P(Len(call.routes))' = path
    BY <1>4 DEF P
  <2> QED BY <1>0, <1>1, <1>2, <1>3, <1>9, <2>1, <2>2, <2>3, <2>4 DEF CallForeseen
<1> QED BY <1>8, <1>9

(* What each step between two searches makes of what is foreseen.          *)
LEMMA ChangedAsForeseen ==
  ASSUME RouteInv, CallForeseen, AfterFirst \/ AfterSecond \/ AfterThird \/ AfterFourth
  PROVE  CallForeseen'
<1> DEFINE n == Len(call.routes)
<1>1. /\ call.at = "path"
      /\ call = [at |-> call.at, start |-> call.start, end |-> call.end,
                 routes |-> call.routes, before |-> call.before, found |-> call.found]
  BY DEF AfterFirst, AfterSecond, AfterThird, AfterFourth, PathTaken, RouteInv, CallInv, CallShape
<1>2. Sofar(n - 1) /\ P(n) = PathDijkstra(adj, call.start, call.end) /\ P(n) # <<>>
  BY <1>1 DEF CallForeseen
<1>3. ASSUME NEW left, Changed(left, Searching)
      PROVE  /\ adj' = left /\ call'.at = "search" /\ call'.routes = call.routes
             /\ call'.before = call.before /\ call'.start = call.start /\ call'.end = call.end
             /\ Foreseen' = Foreseen /\ \A k : P(k)' = P(k)
  <2>1. adj' = left /\ call' = [call EXCEPT !.at = "search"]
    BY <1>3 DEF Changed, Searching
  <2>2. /\ call'.at = "search" /\ call'.routes = call.routes
        /\ call'.before = call.before /\ call'.start = call.start /\ call'.end = call.end
    BY <1>1, <2>1
  <2> QED BY <2>1, <2>2 DEF Foreseen, P
<1>4. ASSUME NEW left, NEW found, Changed(left, Answered(found))
      PROVE  /\ adj' = left /\ call'.at = "answer" /\ call'.found = found
             /\ Foreseen' = Foreseen
  <2>1. adj' = left /\ call' = [call EXCEPT !.at = "answer", !.found = found]
    BY <1>4 DEF Changed, Answered
  <2>2. /\ call'.at = "answer" /\ call'.found = found
        /\ call'.before = call.before /\ call'.start = call.start /\ call'.end = call.end
    BY <1>1, <2>1
  <2> QED BY <2>1, <2>2 DEF Foreseen
<1>5. CASE AfterFirst
  <2>1. n = 1 /\ Changed(Avoiding(adj, P(1), AllHops(P(1))), Searching)
    BY <1>5 DEF AfterFirst, PathTaken
  <2>2. adj = call.before
    BY <1>2, <2>1 DEF Sofar
  <2>3. Foreseen = SecondSearch(call.before, P(1), call.start, call.end)
    BY <1>2, <2>1, <2>2 DEF Foreseen, Suurballe
  <2>4. Sofar(1)'
    BY <1>3, <2>1, <2>2, <2>3 DEF Sofar
  <2> QED BY <1>3, <2>1, <2>4 DEF CallForeseen
<1>6. CASE AfterSecond
  <2> DEFINE restored == PutBack(adj, P(1), AllHops(P(1)))
  <2>1. /\ n = 2
        /\ \/ Apart(P(1), P(2)) /\ Changed(restored, Answered(TRUE))
           \/ ~ Apart(P(1), P(2)) /\ Changed(AvoidingOverlap(restored, P(1), P(2)), Searching)
    BY <1>6 DEF AfterSecond, PathTaken
  <2>2. /\ adj = Avoiding(call.before, P(1), AllHops(P(1)))
        /\ Foreseen = SecondSearch(call.before, P(1), call.start, call.end)
    BY <1>2, <2>1 DEF Sofar
  <2>3. Foreseen = IF Apart(P(1), P(2)) THEN Answer(TRUE, restored)
                   ELSE ThirdSearch(restored, P(1), P(2), call.start, call.end)
    BY <1>2, <2>1, <2>2 DEF SecondSearch
  <2> HIDE DEF restored
  <2>4. CASE Apart(P(1), P(2))
    BY <1>4, <2>1, <2>3, <2>4 DEF CallForeseen
  <2>5. CASE ~ Apart(P(1), P(2))
    <3>1. Changed(AvoidingOverlap(restored, P(1), P(2)), Searching)
      BY <2>1, <2>5
    <3>2. adj' = AvoidingOverlap(restored, P(1)', P(2)')
      BY <1>3, <3>1
    <3>3. Foreseen' = ThirdSearch(restored, P(1)', P(2)', call'.start, call'.end)
      BY <1>3, <2>3, <2>5, <3>1
    <3>4. Sofar(2)'
      BY <3>2, <3>3 DEF Sofar
    <3> QED BY <1>3, <2>1, <3>1, <3>4 DEF CallForeseen
  <2> QED BY <2>4, <2>5
<1>7. CASE AfterThird
  <2>1. n = 3 /\ Changed(Avoiding(adj, P(3), AllHops(P(3))), Searching)
    BY <1>7 DEF AfterThird, PathTaken
  <2>2. PICK network : /\ adj = AvoidingOverlap(network, P(1), P(2))
                       /\ Foreseen = ThirdSearch(network, P(1), P(2), call.start, call.end)
    BY <1>2, <2>1 DEF Sofar
  <2>3. Foreseen = FourthSearch(adj, P(1), P(2), P(3), call.start, call.end)
    BY <1>2, <2>1, <2>2 DEF ThirdSearch
  <2>4. Sofar(3)'
    <3>1. adj' = Avoiding(adj, P(3)', AllHops(P(3)'))
      BY <1>3, <2>1
    <3>2. Foreseen' = FourthSearch(adj, P(1)', P(2)', P(3)', call'.start, call'.end)
      BY <1>3, <2>1, <2>3
    <3> QED BY <3>1, <3>2 DEF Sofar
  <2> QED BY <1>3, <2>1, <2>4 DEF CallForeseen
<1>8. CASE AfterFourth
  <2>1. n = 4 /\ Changed(AllPutBack(adj, P(1), P(2), P(3)), Answered(Apart(P(3), P(4))))
    BY <1>8 DEF AfterFourth, PathTaken
  <2>2. PICK network : /\ adj = Avoiding(network, P(3), AllHops(P(3)))
                       /\ Foreseen = FourthSearch(network, P(1), P(2), P(3), call.start, call.end)
    BY <1>2, <2>1 DEF Sofar
  <2>3. Foreseen = Answer(Apart(P(3), P(4)), AllPutBack(adj, P(1), P(2), P(3)))
    BY <1>2, <2>1, <2>2 DEF FourthSearch
  <2> QED BY <1>4, <2>1, <2>3 DEF CallForeseen
<1> QED BY <1>5, <1>6, <1>7, <1>8

(* Every step of a call keeps to what is foreseen.                         *)
LEMMA ForeseenStep == RouteInv /\ CourseInv /\ CallForeseen /\ [Next]_vars => CallForeseen'
<1> SUFFICES ASSUME RouteInv, CourseInv, CallForeseen, [Next]_vars PROVE CallForeseen'
  OBVIOUS
<1>1. CASE \E s, t \in Zergs : s # t /\ Ask(s, t)
  <2>1. PICK s, t \in Zergs : Ask(s, t)
    BY <1>1
  <2>2. call' = [at |-> "search", start |-> s, end |-> t, routes |-> <<>>, before |-> adj, found |-> FALSE] /\ adj' = adj
    BY <2>1 DEF Ask, None, searchvars
  <2>3. call'.at = "search" /\ Len(call'.routes) = 0 /\ call'.before = adj'
    BY <2>2
  <2> QED BY <2>3 DEF CallForeseen, Sofar
<1>2. CASE TakePath
  BY <1>2, TakenAsForeseen
<1>3. CASE AfterFirst \/ AfterSecond \/ AfterThird \/ AfterFourth
  BY <1>3, ChangedAsForeseen
<1>4. CASE UseAnswer
  BY <1>4 DEF UseAnswer, None, CallForeseen
<1>5. CASE UNCHANGED <<adj, call>>
  BY <1>5 DEF CallForeseen, Sofar, Foreseen, P
<1>6. CASE UNCHANGED vars
  BY <1>5, <1>6 DEF vars, searchvars, callvars
<1>7. CASE StartWithHeap \/ TakeRoot \/ EdgeImproves \/ EdgeSkipped \/ HeapEmpty \/ RestOfSearch
  <2>1. UNCHANGED <<adj, call>>
    BY <1>7 DEF StartWithHeap, StartSearch, FindPath, TakeRoot, TakeNext, EdgeImproves, VisitImproves,
         EdgeSkipped, VisitSkips, HeapEmpty, Exhausted, RestOfSearch, TurnDone, WalkBack, ReachStart, FallOff, callvars
  <2> QED BY <1>5, <2>1
<1> QED BY <1>1, <1>2, <1>3, <1>4, <1>6, <1>7 DEF Next, Steps

(* The searches and calls of the program, step by step, end at the path    *)
(* and the answer that Pathfinding's operators compute, and leave the      *)
(* distances those leave, on every network and after any calls             *)
(* (pathfinding.c:47-116, 133-342).                                        *)
THEOREM CallsEndAsForeseen == Spec => []EndsAsForeseen
<1>1. Init => RouteInv /\ BuiltInv /\ CourseInv /\ CallForeseen
  BY InitInv, InitCallInv, InitHeapInv, InitCourse, InitForeseen DEF Init, DisjointInit, RouteInv
<1>2. RouteInv /\ BuiltInv /\ CourseInv /\ CallForeseen /\ [Next]_vars => (BuiltInv /\ CourseInv /\ CallForeseen)'
  BY BuiltStays, CourseStep, ForeseenStep
<1>3. CourseInv /\ CallForeseen => EndsAsForeseen
  BY FoundAsForeseen DEF CallForeseen, Foreseen, EndsAsForeseen
<1> QED BY <1>1, <1>2, <1>3, RouteInvariant, PTL DEF Spec
=============================================================================
