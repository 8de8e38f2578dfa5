# Verification of zergmap

zergmap reads packet captures of zerg traffic, puts every zerg it hears into a
graph, links zerg that are close to each other, and recommends which ones to
remove so that the survivors form a fully linked network: any two are adjacent
or have two routes that share no zerg in between. This directory holds TLA+
models of that program, the TLC runs that check them on small instances, and
TLAPS proofs of some of their properties for every size.

Line numbers are those of the C files beside the repository's README. The
file `PROJECT.json` maps every definition to the lines it models.

## The system

The program is one sequential process: no threads, no signals, nothing
persistent. What is hard about it is not concurrency but long sequences of
calls on pointer structures, state that one call leaves behind for the next,
early returns, limits, and searches whose correctness depends on the whole
network.

| Component | State | Operations | Used by |
|---|---|---|---|
| `zergmap-driver.c` | options, the shared headers, graph, tree | `main`: file loop, linking, removal, reports | - |
| `zergmap.c` | packet headers, **one** zerg header for all packets, counters | one parser per header, one handler per payload | driver |
| `quadTree.c` | points in a tree of nodes of 2048 points | insert, search, `print_quadTree_points` (makes the links) | `zergmap.c`, driver |
| `graph.c` | list of nodes, each with a list of edges (pointers) | add/remove vertex, add/change/remove edge, update position, `check_connectivity`, `recommend_removal` | all |
| `pathfinding.c` | none of its own; changes edge distances of the graph | `path_dijkstra`, `suurballe` | `graph.c` |
| `priority-queue.c` | growing array, `sz`, `cap` | enqueue, dequeue, look-ups | `pathfinding.c`, `graph.c` |
| `map.c`, `set.c` | growing open-addressing tables of ids, 0 = free | put/add, get, contains | `pathfinding.c`, `graph.c` |

A run: for each file, for each packet, `zergmap.c` decodes the headers; a zerg
that is heard becomes a vertex (`graph_add_vertex`) and, unless the packet is a
status, a point of the tree. After the last file `print_quadTree_points` links
zerg that are within 15 m. `check_connectivity` calls `suurballe` on every
ordered pair and queues each zerg by its number of links; `recommend_removal`
takes the zerg with the fewest, removes it, counts again, and so on, once per
zerg of the first count. `suurballe` makes edges of the graph itself expensive
(9999) while it searches and puts the distances back.

What makes each component correct, and what can go wrong unnoticed by the
tests, is listed under `hazards` in `PROJECT.json`. In short:

* **priority queue** - the heap order under any mix of calls, no write outside
  the allocation, the best item is handed out, sift loops end;
* **graph** - no edge to a freed node, no duplicate edge or id, no leak;
* **pathfinding** - paths are routes, and shortest; the answer about disjoint
  routes is right in both directions, whatever earlier calls left behind;
* **removal** - the survivors are fully linked when the list is printed, the
  list is what is gone, no zerg linked to all others goes, it ends;
* **map, set** - probing never passes a gap, a free slot always remains (or a
  lookup never returns), growth loses nothing, 0 is never an entry;
* **decoding** - no header outlives its packet, one zerg's payload is never
  taken for another's, every point has a vertex;
* **points** - links are mutual and exist for every pair that is close; a
  search finds exactly the points in range, and no point is lost;
* **the whole run** - what is printed fits what was heard, and where.

## Modules

| Module | Models | Abstract specification |
|---|---|---|
| `BinaryHeap` | items, `parent`/`left`/`right`, `swap`, array operations | |
| `PQueue` | `priority-queue.c`, one swap at a time | `PriorityBag` |
| `HeapOps` | the same calls as one-step operators, for callers | (the calls of `PQueue` end there: `EndsAsForeseen`, proved) |
| `Graph` | `graph.c` nodes and edges with heap addresses | `ZergNet` |
| `Paths` | steps of a path and the hops between them | |
| `Dijkstra` | `path_dijkstra`, one queue item, one edge and one step back at a time, on a bag | |
| `Disjoint` | `suurballe` as a sequence of searches of `Dijkstra` with changes of distances between them | |
| `Pathfinding` | `path_dijkstra`, `suurballe` as operators on edge lists | |
| `Mesh` | routes, shortest lengths, disjoint routes, full linkage: the reference definitions | |
| `RouteCalls` | the steps of `Disjoint` on the array heap | `Dijkstra`, `Mesh` |
| `Removal` | `check_connectivity`, `recommend_removal` | `Mesh` |
| `ProbeTable` | the open addressing that `map.c` and `set.c` share | |
| `HashMap` | `map.c` | `KeyMap` |
| `HashSet` | `set.c` | `KeySet` |
| `MCTables` | either table, behind one set of variables | `KeyMap`, `KeySet` |
| `Points` | `quadTree.c` while the root has room: points, boxes, search, link making | |
| `QuadTree` | `quadTree.c` for any number of points: subdivision, search over children, frees of results | (`SearchExact` compares it with `Points`) |
| `Capture` | `zergmap.c` and the file loop of the driver | |
| `ZergMap` | `main`: `Capture`, then `Removal` on the graph it left, then both reports | |
| `MC*` | instances for TLC | |
| `PQueueProofs`, `GraphProofs`, `DijkstraProofs`, `RemovalProofs`, `MapProofs`, `CaptureProofs`, `QuadTreeProofs` | theorems | |
| `HeapProofs` | lemmas about `BinaryHeap` and `HeapOps` that the proofs of the queue and its callers share | |

### Correspondence

**PQueue.** `data`, `sz`, `cap`, `type` are the fields of `struct pqueue_`.
`Enqueue` and `Dequeue` are the code up to the loop; `BubbleUp` and
`BubbleDown` are one turn of it; `EnqueueReturn`, `OneChildReturn` and
`DequeueReturn` are its exits. `pc` and `idx` are the local state.
`pqueue_enqueue`'s comparisons are strict and go against the *new* priority;
`pqueue_dequeue` favours the right child on ties: both are as in the code, and
matter, because the queue is not stable and `path_dijkstra` depends on its order.

**Graph.** A node is an address; a cell holds a node or is free; edges hold
addresses. A dangling edge is therefore a state the model can reach. Refused
calls return before they write and are stuttering steps. `AddEdge` and the
removals follow the code's order of edges (prepend) because `Pathfinding`
depends on it.

**Dijkstra.** One action per item taken from the queue (`TakeNext`), per edge
visited (`VisitImproves`, `VisitSkips`, the two ends of `visit_node`), per end of
a turn, and per step of the walk back over the map. The variables are the
locals of `path_dijkstra` by their names in the code. The queue is a bag with
its stale entries: any best item may come next, and `pqueue_get_priority` may
answer with any entry of the zerg. This is more than the code does, so what is
proved here holds for it. `Reweigh` lets callers change distances between calls.

**Disjoint.** `call` is the call of `suurballe` under way: its arguments, the
paths found so far, the distances before it. Each search is one of `Dijkstra`;
`AfterFirst` to `AfterFourth` are what happens between two searches: the early
returns, the edges made expensive, the loops that put distances back. The returns
for a missing second, third or fourth path (170, 240, 272) are in the model and are
never taken: edges get other distances and stay, so once there is a route there is one.

**RouteCalls.** The same steps with the array heap of `HeapOps`, which decides
which best item is taken and which of several entries answers. Every step is a
step of `Dijkstra` or a change of distances between searches (`CallsFollowSearch`).

**Pathfinding.** `adj` is a function from ids to edge lists in list order.
`PathDijkstra` is `path_dijkstra` as a whole call and `Suurballe` is `suurballe`
with the operators it continues with, one per search; it returns the answer and
the edge lists it leaves behind. The steps of `RouteCalls` end at the same path,
answer and distances (`EndsAsForeseen`, proved), so what is shown of the steps holds
of the calls `Removal` makes. `VisitStates` and `TurnStates` are the states after each
edge of a turn and after each turn of the loop, as recursive functions; a function
needs a domain, and that of `TurnStates` ends at 2 to the number of zerg, which the
proof shows to be enough. An earlier form of `Suurballe`, all in one operator,
was compared with the compiled C functions on 360 random networks, with equal
results; the runs reach the same states since.

**Removal.** One action per pair asked about, per zerg queued and per turn of
the loop. A counting pass starts from the distances the previous one left. A run
may begin with any network of `Networks`; `RemovalAssumption` says that the list
has every vertex, and once, which is what `GraphProofs` shows of `g->nodes`
(`ListOwnsNodes`, `UniqueIds`).

**ProbeTable, HashMap, HashSet.** One action per slot probed and per key moved
by a growth. `Stop(k)` is where the inner `map_put` of a growth ends, the one
place where a loop is taken as one step. `KeyMap` and `KeySet` separate the
call from its answer, so the answer is tied to the argument of the call.
`MCTables` has both tables on the same variables, with `kind` saying which one
it is; the two never meet in a behaviour.

**Points and Capture.** A position is a one-degree cell, a spot in metres in
it and an altitude; `Across` and `Upwards` are the results of the comparisons
made of `haversine` and `return_alt`. Cells of different degrees are too far
apart to be linked. Signs are dropped and the box test is the code's,
with the latitude on both sides of line 127. `Capture` has one action per
header and payload; which header comes next, whether it is refused, and the
payload's content are the environment's choice. `zhdr` is the one zerg header;
`Destroyed` is `destroy_zerg`. `Conflict` is the exit when a second position
is too far from the first: the comparison itself (haversine with its
arguments in another order, the accuracy as raw bits) is nondeterministic. For a zerg
that has a vertex but no position the first fix is accepted, since comparing
with NaN is false.

**QuadTree.** A node is named by the way to it from the root. `todo` is the
recursion of `qt_insert` flattened: the nodes still to be tried, in the order of
the calls. `frames` is the stack of `quadTree_search`, one record per call with
the child it is at. `CopyAgain` is the loop over a child's result whose index
never moves: it can only end by writing past the caller's result (`overrun`).
`FreeResult` is the free that follows one made inside `point_add_edges` when the
result is full (`freed twice`).

**ZergMap.** `main` from the first file to the last report. `stage` is the state
of `Removal`, `left` its list of nodes, and the edges are those `Capture` made:
nothing is copied but the ids. `low` and `no_gps` are the two sets that the
reports print, of the zerg still in the graph. `sent_fix` (of `MCCapture`) is what was
sent, to compare them with.

## Runs

| Run | Instance | Shows |
|---|---|---|
| `pqueue` | 2 objects, 3 priorities, up to 6 items, initial capacity 2 | heap order, capacity, termination, agreement with `HeapOps`, refinement of `PriorityBag` |
| `graph` | 4 ids with 0, 3 addresses, at most 3 edges | pointer invariants, refinement of `ZergNet` |
| `route_calls` | every network of 4 zerg with link distances 1 and 3 | routes, shortest paths, the search returns, sound and complete answers after any earlier calls, every step a step of `Dijkstra` |
| `removal` | every network of up to 4 zerg with unit distances, every list order | survivors fully linked, list exact, termination |
| `hash_tables` | 6 keys with 0, three with one home slot, capacity 5 | probing invariants through a growth, every call returns, refinement of `KeyMap` and `KeySet` |
| `zergmap` | 1 or 2 files, up to 3 packets, 4 ids with 0, 3 positions in a line | no stale header, no foreign position, every point has its vertex, mutual links, removals that fit where zerg were heard, no zerg without a position lost between the list and the last report |
| `quadtree` | nodes of 1 or 2 points; 5 points at 4 places, 34 at one | searches that return are exact, no point is lost early, linking ends while the root has room |

Five runs end in a violation, each a place where the code does not do what a
comment or the man page says (`findings` in `PROJECT.json`):

| Run | Property | The code |
|---|---|---|
| `zero_stays` | `SurvivorsFullyLinked` | a zerg with id 0 cannot be removed and is counted as removed |
| `complete_six` | `CompleteAnswer` | with six zerg `suurballe` denies a pair that has two disjoint routes |
| `sticky_health` | `LowHealthIsOwn` | the low-health mark is never reset between packets |
| `far_north` | `NearLinked` | the search box is wrong where latitude and longitude differ much |
| `not_connected` | `ListedUnconnected` | zerg without a position are linked to each other at 0, 0 and printed as "not connected to other Zerg" |

The code has two readings of its last list: the driver's, zerg "that have no associated
GPS data" (zergmap-driver.c:135), and that of `graph.c`, zerg "not connected to other
zerg" (656, and the title printed at 675). What the function does is the first, and
`UnplacedReported` follows it; `not_connected` shows that it is not the second. A message or
command leaves a point at 0, 0, so zerg that sent nothing else are linked there
and may be called fully connected without having been heard anywhere.
`SurvivorsCloseBy` speaks of positions that were sent, and leaves out the runs in
which such a point made a link (`PlaceholderLinked`).

`CompleteAnswer` and `SurvivorsFullyLinked` hold in `route_calls` and `removal` and
fail in the violation runs: they are true of small networks without id 0 and false
of others. The same definition is checked in both. `PathIsShortest` is of this kind
too: it holds of four zerg, and with seven, on the network `SevenNetwork` of
`MCRouteCalls`, a stale entry of the queue gives a P1 that is not shortest. No run is
listed for that; `SixZerg.cfg` with this network, seven ids and this invariant shows
it. `suurballe` may also leave 9999 on an edge; `OnlyBridgesSpoiled` says when
that happens and that, on these networks, it does no harm.

The links themselves differ from their comment, "greater than 0 and less than 15m"
(quadTree.c:411-412), at both ends: the code tests `<= 15.00` (422, 437), and for one
place `<= 15.00` upwards, 0 included (431, 446). The models follow the code. `NearLinked`
asks for links inside the comment's range only; `CloseBy` counts zerg at one place as
close by; and no positions in a run are exactly 15 m apart.

### Bounds

* **pqueue** - six items give a heap of three levels, with nodes of two, one
  and no children, and two growths (2 to 4 to 8).
* **graph** - three addresses for four ids: addresses are used again after
  `free`, removal at the head, the middle and the end. `FewEdges` bounds the
  edges; self-loops and pairs in both directions are within it.
* **route_calls** - four zerg are the fewest for which routes can share zerg and
  be disjoint; distances 1 and 3 make one hop longer than two. A search outside
  the listed runs found no wrong answer with five zerg; six is the first size at
  which `suurballe` denies a pair wrongly.
* **removal** - distances do not matter for links but for the order of search;
  unit distances and every order of the list. From six zerg on the count inherits
  the incompleteness of `suurballe`; what `removal` shows is bounded to four.
* **hash_tables** - `DefaultCap` is 5 instead of 8: growth after
  the fourth key. `TableAssumption` says why it must exceed 4: at 4 or less
  a table would fill up. Keys 1, 6 and 11 collide with each other and 4 and 9
  wrap around the end of the array. One value and NULL are enough to tell a
  value that was put from one that was not; `MapIsAMap` is proved for any.
* **zergmap** - `MaxPackets` counts what the code counts, so a message uses two,
  and is the number for the first file; each later file has one less. Three
  packets of three zerg other than 0 and one of id 0 make every kind of graph
  that the reports can follow: three in a line 12 m apart (the outer two are not
  linked), unplaced zerg linked at 0, 0, and a removal. No two of the positions are
  exactly 15 m apart. Id 0 is spared in `SurvivorsCloseBy`, where `zero_stays` shows
  it goes wrong. `sticky_health` uses `-h 50` as well as no `-h`, `far_north` two
  positions at latitude 60, and `not_connected` has room for two messages in one file.
* **quadtree** - `Caps` stands for 2048: the code treats the number only as a
  limit. Sixteen full nodes of two points, and one more, are within `MaxSame`, so
  `NoneLostEarly` is checked up to its bound and beyond. `Scale` is 32 parts of a
  degree, so five halvings stay exact. The four places differ in latitude, in
  longitude or in both, so that a wrong quarter takes one of them for another's.
  Positions in a packet are not checked and may be off the earth; `NoneLostEarly`
  speaks of those on it (`OnEarth`), and so are the four places.

`CHECK_DEADLOCK FALSE` is set for `Capture`, `ZergMap` and `QuadTree`: the
program really ends there (`linked`, `failed`, `conflict`, the last report;
`overrun` and `freed twice` in the tree). The other models never stop; `Removal`
has a stuttering action `Returned` for the end of the call.

### Fairness

One thread runs each call to its return and nothing can preempt it, so a loop
that can take a step takes one: weak fairness on the steps *within* a call,
and none on starting calls. In `RouteCalls` these are `Steps`, in `MCTables`
`Running`, in `QuadTree` `Inserting` and `Searching`. `Removal` states this as
`Progress` (it is not done only if it keeps taking steps), which is the same thing
since a step is always enabled, and spares TLC the ENABLED of a whole search.

## Proofs

Every theorem holds for all values of the constants, under the named assumptions
of the modules that declare them; bounds that TLC needs (`MaxSize`, `MaxPoints`,
`MaxSame`) are arbitrary in what is proved.

**The queue** (`PQueueProofs`, any objects, any set of integer priorities, any
positive initial capacity):

* `TypeCorrect`, from the invariant `TypeInv` (types and the index of the sift
  loops in range);
* `WritesFit`: `sz < cap`, inductive relative to `TypeInv`;
* `HeapCorrect`: `HeapInv`, which is inductive: every item except the one on
  its way is ordered with its parent (`OrderedPairs`), and the children of
  the gap are ordered with the gap's parent (`GapOrdered`). The heap order
  alone is not inductive: it does not hold during a sift, and without
  `GapOrdered` a swap could not restore it;
* `NextIsBestAlways`: between calls no item precedes the root. The step from
  parent order to root order is by induction on the index with the
  parent smaller than the child, done as a minimal counterexample;
* `QueueIsABag`, the refinement of `PriorityBag`: the copies of an item are
  counted as the indices that hold it, a swap takes one index out of that set and
  puts another in, an enqueue adds one and a dequeue takes one of the root's item;
* `EndsAreForeseen`, which ties the calls, taken swap by swap, to the one-step
  operators of `HeapOps` that the callers' models use. The invariant `OnCourse` says
  that what the call still has to do leads to the array that was foreseen when it
  began. Each turn of a sift loop keeps it, because a turn is one unfolding of
  the recursive function that `HeapOps` uses.

`HeapProofs` has the lemmas on arrays, heap order and the operators of `HeapOps`
that the proofs of the queue, of the search and of removal cite.

**The graph** (`GraphProofs`, any ids, addresses and distances):

* the conjunction of `ListOwnsNodes`, `UniqueIds`, `NoDuplicateEdge` and
  `NoDanglingEdge` with the types is inductive. The conjuncts need each other:
  removal frees a node after taking out one edge per source, which leaves no
  dangling edge only because there is no duplicate edge; and the node that is
  found by id is the one only because ids are unique. `TypeCorrect`,
  `NeverDangling`, `NeverDuplicateEdge`, `IdsStayUnique` and `NothingLeaks` follow;
* `ZeroStaysIsolated`: that a node with id 0 has no edge at either end is
  inductive by itself, since only `graph_add_edge` makes edges;
* `GraphImplementsNet`: every step of `Graph` is a step of `ZergNet` on ids and
  distances, or changes nothing that callers see. The lists are first taken to
  *arcs* (address, address, distance), without positions, and each action is said
  to add, change or drop arcs; because ids are unique, arcs and pairs of ids match
  one to one. It needs all of the pointer invariant.

**The search** (`DijkstraProofs`, every network whose edges end at vertices
other than 0: `NetworkAssumption`, which is what `NoDanglingEdge` and
`ZeroIsolated` say of the lists `graph.c` builds). Five layers, each resting on
the one before:

* `PathsAreRoutes`, about `Dijkstra`: after any earlier calls and with whatever
  distances they left, the path handed back is a route from start to end without
  repetition and with the distances of its hops, and NULL only if there is no
  route. The invariant `SearchInv` says that the predecessor of a zerg has been
  expanded (or is being), that once the zerg is expanded itself its predecessor was
  expanded *before* it and is never replaced, and that everything an expanded zerg
  links to is in the map. So the walk back goes strictly down the order of
  expansion, which excludes cycles, and a search that ends elsewhere has closed the
  set of what can be reached. Distances play no part in it, which is why the stale
  entries that spoil `PathIsShortest` cannot spoil this.
* `CallsAreSearches` and `AnswersAreSound`, about `Disjoint`: every step of a call of
  `suurballe` is a step of `Dijkstra` or a change of distances between two searches,
  and when it answers true its ends are linked or have two disjoint routes *in the
  network as it was built*. `CallInv` says that the distances may have changed but
  the edges have not (`SameEdges`), that the paths kept so far are routes from the
  call's start to its end, and that a search under way has the call's arguments.
  The code asks only that no inner zerg of one path is on the other; that this is
  what is promised, also when one of them is a single edge, is the lemma `ApartLinks`.
* `HeapStandsForBag`, about `RouteCalls`: the search above is proved with a bag from
  which any best entry may come. `StandsFor` says that the array heap has the heap
  order and holds each entry as often as the bag; so its root is a best entry of the
  bag and the entry it answers with is one of the bag's.
* `HeapCallsAreSearches`, `CallPathsAreRoutes` and `HeapAnswersAreSound` carry the
  results to the heap, which is what the runs check and what the code does.
* `CallsEndAsForeseen`: the steps on the heap and the operators of `Pathfinding`, which
  `Removal` uses as single steps, end at the same path, answer and distances. Here
  `LinkAssumption` is needed too: finitely many zerg, no two edges from one zerg to
  another, none from id 0, which is what `GraphProofs` shows of the lists
  (`NeverDuplicateEdge`, `ZeroStaysIsolated`). `CourseInv` places every state of the
  search in `TurnStates` and `VisitStates`, and has the bound on the turns: a zerg
  that was not expanded has at most one item for each turn made, so its first expansion
  leaves at most as many of its stale items behind as turns were made; turns and
  stale items together stay below the number of subsets of what is expanded, which
  each first expansion doubles. So the loop is over within 2 to the number of
  zerg turns, and the recursion of `TurnStates` goes far enough. That the walk back is
  well defined as a recursive function (`MapLeadsBack`) is again the order of expansion.
  `CallForeseen` then says of each of the four searches of a call that what the call
  will return is what the operators of the remaining searches give from here.

**Removal** (`RemovalProofs`, any networks whose lists have every vertex once:
`RemovalAssumption`; the theorem speaks of those without id 0): `ListsAreRight`. A list that
is printed names exactly the zerg that are gone, each counted once, and at most half
of them. `RemovalInv` has four parts: the list has no repetition (`ListInv`); the
list of removals is what is missing from the survivors and the count is its size
(`GoneInv`); the loop goes on while at most half are gone (`HalfInv`); and the queue
is a heap with one item for each survivor counted so far, none of a zerg that
is gone (`QueueInv`). Whatever `suurballe` answers, right or wrong, this holds.
Id 0 must be excluded because a zerg with id 0 is counted as removed and stays
(`zero_stays`).

**The tables** (`MapProofs`, any ids, any initial capacity above four, any number
of growths): `TableInv` is inductive: types; every key in the table once, also
across the two arrays of a growth (`KeyOnce`); `NoGap`; the count; the load bound
`Roomy`, which leaves room for one insertion and one free slot because growth is
decided *before* the insertion; and that the slots already probed are taken by
other keys. That probing comes by every slot once rests on the uniqueness of
division with remainder. `ProbesReach`, `CountIsRight`, `FreeSlotStays` and
`TypeCorrect` follow, then `SetIsASet` and `MapIsAMap`, the refinements of `KeySet`
and `KeyMap`. For the map they need that the value of a key is the one beside it,
in the larger array if it was moved and in the smaller one if not (`ValuesBeside`,
from `KeyOnce`), and the types of the values (`ValuesInv`).

**Decoding, links and the whole run** (`CaptureProofs`, any ids, positions,
health values and percentages, any number of files and packets:
`CaptureAssumption`):

* `TypeCorrect`, `NoHeaderLeft` and `PointsAreKnown`, from the conjunction of the
  types; `InStep` (a file is opened only while one is left, a payload is read only
  after the source id); `HeadersFreed`; `PointsHaveNodes`; and `GpsFreed`, which
  says that the one zerg header all packets share holds no position except while
  two positions of one zerg are compared;
* `FixesAreOwn`, about `MCSpec`, which adds the record of what each zerg sent: it
  needs `GpsFreed`, since a status or message that makes a new vertex copies
  whatever position the header holds, and `SilentSentNone`, that a zerg without a
  vertex has sent none;
* `LinksAreMutual`: the loops over the points and over the result of each search
  keep every link there and back with one distance (`MutualLinks`), however many
  points a zerg has. It holds of the loop because the second `graph_add_edge` of a
  pair is refused exactly when the first is;
* `UnplacedAreReported`, about `MapSpec`, the program from the first file to
  the last report: a zerg that never sent a position is on the list of removals or
  in the last report, and none that sent one is in that report. `RunInv` joins what
  is known of decoding with `KeptInv` (every vertex is a survivor or on the list of
  removals, in every turn of the removal loop) and `ReportInv`.

**The tree** (`QuadTreeProofs`, any capacity, places and number of points):
`SearchIsExact`. A search that returns hands back the points in range, each once and
in the order of insertion, also from a subdivided tree. `TreeInv` says what nodes
there are (`Shape`), that the root holds the first points inserted and nodes below it
the others (`Content`), and of the stack of a search that each call is at a child of the one
below (`Nested`), that the children it has left behind had nothing to give
(`LeftClean`) and that results hold a node's own points only (`OwnOnly`). That a
search which returns is exact rests on this: a child with points in range leads to
`overrun` and never to a return.

`PointsAreLostLate`: whatever the places, a point of the earth is lost only when
sixteen nodes are full (`HalvingAssumption`: four divides `Scale`, so that the first
five halvings of 1000 degrees are exact, as in the code). Three invariants carry it:
every box is what `subdivide` gave it (`BoxInv`), the slots in use are as many as the
points inserted and only full nodes are divided (`FillInv`), and an insertion has been
at every node whose box, and all boxes around it, hold the point, but for those below
what it still has to try (`TriedInv`). So a point that is lost has been refused by all
such nodes. There are sixteen of them for any point of the earth (`SixteenReached`):
the wrong lower bound makes the boxes of one column, those at the lowest latitudes,
begin at longitude 0 each, so that 1, 1, 2 and 4 of them, one halving after another,
hold all of the earth; of the next eight one ends at 125 degrees east (`WestQuarters`),
and a point beyond it is in a quarter of another.

The type invariants of `PQueue`, `Graph`, `Dijkstra`, `HashMap` and `Capture` are
proved and are not in the runs.

Only model-checked:

* liveness, which is out of the provers' reach (`CallsReturn`, `SearchReturns`,
  `Reports`, `LinkingEnds` and the termination of removal);
* `PathIsShortest`, `CompleteAnswer`, `OnlyBridgesSpoiled`, `TrueLeavesNoTrace`,
  `SurvivorsFullyLinked`, `SurvivorsCloseBy` and `NeverTakesLinked`. They rest on
  `suurballe` finding routes whenever there are some, which is true of small networks
  only (`complete_six`, `SevenNetwork`): there is no theorem for all.

## Not modelled

* Numeric code: `haversine`, byte swaps, fathoms to metres, NaN arithmetic.
* Failing `malloc`: the error paths return or leak; every model lets it succeed,
  except that `Graph` takes a failed allocation as a refused call.
* `graph_clone`, `low_health` (graph.c:48-81, 243-262): no caller in the program.
* What follows an overrun or a second free in `quadTree.c` (346-364, 397, 455):
  `QuadTree` stops there. `ZergMap` stays where the root has room.
* Signs of positions: the points drop them (quadTree.c:80-81), so zerg on
  opposite sides of the equator are linked; the model does the same.
* A status of fewer than 12 bytes: `destroy_zerg` reads the name pointer of a
  payload that was never written (zergmap.c:488-490, 672).
* Exact statistics: `total_packet_count` adds the running number of each packet,
  and messages count twice. The model has the counters as the code changes them.
* Debug output: it formats state and changes none.

## Plan

Built, in this order: the queue, the graph, the searches on top of both, the
removal on top of the searches, the tables, the decoding with the points; then
the step-level search, the tree beyond its root, and the whole run of the
program; and the proofs of the queue, the graph and its refinement, the search,
the tables and their refinements, and the decoder.

Then, on top of these: the one-step operators of the queue, `suurballe`'s answers on
the bag and on the array heap, the lists of removals, mutual links, exact searches
and the last report; and that the calls of the search, taken step by step, end where the
operators say, and how full the tree is when a point of the earth is lost.

What is left:

* Larger networks in `removal`, which grow with every order of the list.
* Conditions on a network under which `suurballe` finds two disjoint routes whenever
  there are some: the runs show that six zerg are enough for it to fail, not which
  shapes of network are safe.
