---------------------------- MODULE QuadTreeProofs ----------------------------
(***************************************************************************)
(* What a search in the quadtree hands back, and when a point is lost, for *)
(* every capacity, scale and set of places, and however many points are    *)
(* inserted.                                                               *)
(***************************************************************************)
EXTENDS QuadTree, TLAPS, NaturalsInduction, WellFoundedInduction, SequenceTheorems, FunctionTheorems, FiniteSetTheorems

(* Induction over the natural numbers, for a set instead of a predicate.   *)
LEMMA SetInduction ==
  ASSUME NEW S, 0 \in S, \A n \in Nat : n \in S => n + 1 \in S
  PROVE  Nat \subseteq S
<1> DEFINE Missing == Nat \ S
<1> SUFFICES ASSUME Missing # {} PROVE FALSE
  OBVIOUS
<1>1. PICK m \in Missing : \A k \in Missing : ~ (<<k, m>> \in OpToRel(<, Nat))
  BY NatLessThanWellFounded, WFMin
<1>2. m # 0 /\ m - 1 \in Nat /\ m - 1 < m
  OBVIOUS
<1>3. m - 1 \notin Missing
  BY <1>1, <1>2 DEF OpToRel
<1>4. m - 1 + 1 \in S
  BY <1>2, <1>3
<1> QED BY <1>2, <1>4

(* The loop over the points of a node is well defined: the points found so *)
(* far are a function of the points looked at (quadTree.c:325-331).        *)
LEMMA WithinLoop ==
  ASSUME NEW s, NEW centre, NEW half, Len(s) \in Nat
  PROVE  \E found :
           /\ found[0] = <<>>
           /\ \A k \in 1 .. Len(s) :
                found[k] = IF InBox(centre, half, s[k]) THEN Append(found[k - 1], s[k]) ELSE found[k - 1]
           /\ Within(s, centre, half) = found[Len(s)]
<1> DEFINE Loop(f, n) ==
      /\ f[0] = <<>>
      /\ \A k \in 1 .. n :
           f[k] = IF InBox(centre, half, s[k]) THEN Append(f[k - 1], s[k]) ELSE f[k - 1]
           Lengths == {n \in Nat : \E f : Loop(f, n)}
<1>1. 0 \in Lengths
  <2> DEFINE f == [k \in 0 .. 0 |-> <<>>]
  <2>1. Loop(f, 0)
    OBVIOUS
  <2> QED BY <2>1
<1>2. ASSUME NEW n \in Nat, n \in Lengths PROVE n + 1 \in Lengths
  <2>1. PICK f : Loop(f, n)
    BY <1>2
  <2> DEFINE g == [k \in 0 .. n + 1 |->
                    IF k <= n THEN f[k]
                    ELSE IF InBox(centre, half, s[k]) THEN Append(f[n], s[k]) ELSE f[n]]
  <2>2. g[0] = <<>>
    BY <2>1
  <2>3. ASSUME NEW k \in 1 .. n + 1
        PROVE g[k] = IF InBox(centre, half, s[k]) THEN Append(g[k - 1], s[k]) ELSE g[k - 1]
    <3>1. CASE k <= n
      BY <2>1, <3>1
    <3>2. CASE k = n + 1
      <4>1. k - 1 = n /\ g[k - 1] = f[n] /\ k # 0 /\ ~ (k <= n)
        BY <3>2
      <4> QED BY <4>1
    <3> QED BY <3>1, <3>2
  <2> HIDE DEF g
  <2>4. Loop(g, n + 1)
    BY <2>2, <2>3
  <2> QED BY <2>4
<1>3. Len(s) \in Lengths
  <2> HIDE DEF Lengths
  <2> QED BY <1>1, <1>2, SetInduction
<1> DEFINE Next(f, k) ==
      IF k = 0 THEN <<>>
      ELSE IF InBox(centre, half, s[k]) THEN Append(f[k - 1], s[k]) ELSE f[k - 1]
<1>4. \E f : f = [k \in 0 .. Len(s) |-> Next(f, k)]
  <2>1. PICK f : Loop(f, Len(s))
    BY <1>3
  <2> DEFINE h == [k \in 0 .. Len(s) |-> f[k]]
  <2>2. ASSUME NEW k \in 0 .. Len(s) PROVE h[k] = Next(h, k)
    BY <2>1
  <2>3. DOMAIN h = 0 .. Len(s) /\ h = [k \in DOMAIN h |-> h[k]]
    OBVIOUS
  <2> HIDE DEF h, Next
  <2>4. h = [k \in 0 .. Len(s) |-> Next(h, k)]
    BY <2>2, <2>3
  <2> QED BY <2>4
<1> DEFINE found == CHOOSE f : f = [k \in 0 .. Len(s) |-> Next(f, k)]
<1>5. found = [k \in 0 .. Len(s) |-> Next(found, k)]
  <2> HIDE DEF Next
  <2> QED BY <1>4, Zenon
<1>6. Within(s, centre, half) = found[Len(s)]
  BY DEF Within
<1> HIDE DEF found
<1>7. \A k \in 0 .. Len(s) : found[k] = Next(found, k)
  <2> HIDE DEF Next
  <2> QED BY <1>5
<1>8. found[0] = <<>>
  BY <1>7
<1>9. ASSUME NEW k \in 1 .. Len(s)
      PROVE found[k] = IF InBox(centre, half, s[k]) THEN Append(found[k - 1], s[k]) ELSE found[k - 1]
  <2>1. k \in 0 .. Len(s) /\ k # 0
    OBVIOUS
  <2> QED BY <1>7, <2>1
<1> QED BY <1>6, <1>8, <1>9

(* What is not in range at the end of a list changes nothing in what is    *)
(* found (quadTree.c:326-330).                                             *)
LEMMA WithinPrefix ==
  ASSUME NEW s, NEW t, NEW centre, NEW half, Len(s) \in Nat, Len(t) \in Nat, Len(s) <= Len(t),
         \A k \in 1 .. Len(s) : t[k] = s[k],
         \A k \in Len(s) + 1 .. Len(t) : ~ InBox(centre, half, t[k])
  PROVE  Within(t, centre, half) = Within(s, centre, half)
<1>1. PICK f : /\ f[0] = <<>>
               /\ \A k \in 1 .. Len(s) :
                    f[k] = IF InBox(centre, half, s[k]) THEN Append(f[k - 1], s[k]) ELSE f[k - 1]
               /\ Within(s, centre, half) = f[Len(s)]
  BY WithinLoop
<1>2. PICK g : /\ g[0] = <<>>
               /\ \A k \in 1 .. Len(t) :
                    g[k] = IF InBox(centre, half, t[k]) THEN Append(g[k - 1], t[k]) ELSE g[k - 1]
               /\ Within(t, centre, half) = g[Len(t)]
  BY WithinLoop
<1> DEFINE Same == {k \in Nat : k <= Len(t) => g[k] = IF k <= Len(s) THEN f[k] ELSE f[Len(s)]}
<1>3. 0 \in Same
  BY <1>1, <1>2
<1>4. ASSUME NEW k \in Nat, k \in Same PROVE k + 1 \in Same
  <2> SUFFICES ASSUME k + 1 <= Len(t)
               PROVE g[k + 1] = IF k + 1 <= Len(s) THEN f[k + 1] ELSE f[Len(s)]
    OBVIOUS
  <2>1. g[k + 1] = IF InBox(centre, half, t[k + 1]) THEN Append(g[k], t[k + 1]) ELSE g[k]
    <3>1. k + 1 \in 1 .. Len(t) /\ k + 1 - 1 = k
      OBVIOUS
    <3> QED BY <1>2, <3>1
  <2>2. CASE k + 1 <= Len(s)
    <3>1. k + 1 \in 1 .. Len(s) /\ k + 1 - 1 = k
      BY <2>2
    <3>2. f[k + 1] = IF InBox(centre, half, s[k + 1]) THEN Append(f[k], s[k + 1]) ELSE f[k]
      BY <1>1, <3>1
    <3>3. t[k + 1] = s[k + 1] /\ g[k] = f[k]
      BY <1>4, <2>2
    <3> QED BY <2>1, <2>2, <3>2, <3>3
  <2>3. CASE ~ (k + 1 <= Len(s))
    <3>1. ~ InBox(centre, half, t[k + 1])
      BY <2>3
    <3>2. g[k] = f[Len(s)]
      BY <1>4, <2>3
    <3> QED BY <2>1, <2>3, <3>1, <3>2
  <2> QED BY <2>2, <2>3
<1>5. Len(t) \in Same
  <2> HIDE DEF Same
  <2> QED BY <1>3, <1>4, SetInduction
<1>6. g[Len(t)] = f[Len(s)]
  BY <1>5
<1> QED BY <1>1, <1>2, <1>6

(* The result is a list of points of the node, and empty only if none of   *)
(* them is in range.                                                       *)
LEMMA WithinFacts ==
  ASSUME NEW S, NEW s \in Seq(S), NEW centre, NEW half
  PROVE  /\ Within(s, centre, half) \in Seq(S)
         /\ Within(s, centre, half) = <<>> =>
              \A k \in 1 .. Len(s) : ~ InBox(centre, half, s[k])
<1>1. PICK f : /\ f[0] = <<>>
               /\ \A k \in 1 .. Len(s) :
                    f[k] = IF InBox(centre, half, s[k]) THEN Append(f[k - 1], s[k]) ELSE f[k - 1]
               /\ Within(s, centre, half) = f[Len(s)]
  BY WithinLoop
<1> DEFINE Good == {k \in Nat : k <= Len(s) =>
                     /\ f[k] \in Seq(S)
                     /\ f[k] = <<>> => \A j \in 1 .. k : ~ InBox(centre, half, s[j])}
<1>2. 0 \in Good
  <2>1. f[0] \in Seq(S) /\ \A j \in 1 .. 0 : ~ InBox(centre, half, s[j])
    BY <1>1, EmptySeq
  <2> QED BY <2>1
<1>3. ASSUME NEW k \in Nat, k \in Good PROVE k + 1 \in Good
  <2> SUFFICES ASSUME k + 1 <= Len(s)
               PROVE /\ f[k + 1] \in Seq(S)
                     /\ f[k + 1] = <<>> => \A j \in 1 .. k + 1 : ~ InBox(centre, half, s[j])
    OBVIOUS
  <2>1. k + 1 \in 1 .. Len(s) /\ k + 1 - 1 = k /\ s[k + 1] \in S
    OBVIOUS
  <2>2. f[k + 1] = IF InBox(centre, half, s[k + 1]) THEN Append(f[k], s[k + 1]) ELSE f[k]
    BY <1>1, <2>1
  <2>3. f[k] \in Seq(S) /\ (f[k] = <<>> => \A j \in 1 .. k : ~ InBox(centre, half, s[j]))
    BY <1>3
  <2>4. CASE InBox(centre, half, s[k + 1])
    <3>1. f[k + 1] \in Seq(S) /\ f[k + 1] # <<>>
      BY <2>1, <2>2, <2>3, <2>4, AppendProperties
    <3> QED BY <3>1
  <2>5. CASE ~ InBox(centre, half, s[k + 1])
    BY <2>2, <2>3, <2>5
  <2> QED BY <2>4, <2>5
<1>4. Len(s) \in Good
  <2> HIDE DEF Good
  <2> QED BY <1>2, <1>3, SetInduction
<1> QED BY <1>1, <1>4
-----------------------------------------------------------------------------

-----------------------------------------------------------------------------
QuadrantName == {"NW", "NE", "SW", "SE"}

TreePoint == [zerg_id : Nat, at : Place \cup {Nowhere}]
TreeNode  == [centre : [lat : Int, lon : Int], half : Int, points : Seq(TreePoint)]
Call      == [node : DOMAIN tree, result : Seq(TreePoint), child : 1 .. 5]

TypeOK ==
  /\ cap \in Nat
  /\ DOMAIN tree \subseteq Seq(QuadrantName)
  /\ tree \in [DOMAIN tree -> TreeNode]
  /\ inserted \in Seq(TreePoint) /\ p \in TreePoint
  /\ IsFiniteSet(lost)
  /\ todo \in Seq(DOMAIN tree)
  /\ i \in Nat \ {0}
  /\ frames \in Seq(Call)
  /\ pc \in {"idle", "insert", "link", "search", "found", "overrun", "freed twice", "linked"}

(* The nodes are a tree: every node but the root hangs from a node that    *)
(* has all four children.                                                  *)
Shape ==
  /\ Root \in DOMAIN tree
  /\ \A m \in DOMAIN tree : \A k \in 0 .. Len(m) : SubSeq(m, 1, k) \in DOMAIN tree
  /\ \A m \in DOMAIN tree : \A a, b \in QuadrantName :
       Append(m, a) \in DOMAIN tree => Append(m, b) \in DOMAIN tree

(* The root holds the first points that were inserted, all of them as long *)
(* as it has no children, and its children hold the rest.                  *)
Content ==
  LET own == tree[Root].points
  IN  /\ Len(own) <= Len(inserted)
      /\ \A j \in 1 .. Len(own) : own[j] = inserted[j]
      /\ ~ Split(Root) => Len(own) = Len(inserted)
      /\ \A j \in Len(own) + 1 .. Len(inserted) :
           \E m \in DOMAIN tree \ {Root} : \E k \in 1 .. Len(tree[m].points) :
             tree[m].points[k] = inserted[j]

(* m is n, or below it. *)
Below(n, m) == Len(n) <= Len(m) /\ \A k \in 1 .. Len(n) : m[k] = n[k]

(* Nothing in range of centre at node n or below it. *)
Clean(nodes, centre, n) ==
  \A m \in DOMAIN nodes : Below(n, m) =>
    \A k \in 1 .. Len(nodes[m].points) : ~ InBox(centre, 30 * Scale, nodes[m].points[k])

(* The calls under way are the way from the root to a node; what a call    *)
(* has left behind holds nothing in range, and a call has collected the    *)
(* points of its own node only, unless it is caught in copying.            *)
Nested(nodes, calls) ==
  /\ calls # <<>> /\ calls[1].node = Root
  /\ \A k \in 1 .. Len(calls) - 1 :
       /\ Append(calls[k].node, "NW") \in DOMAIN nodes /\ calls[k].child \in 1 .. 4
       /\ calls[k + 1].node = ChildrenOf(calls[k].node)[calls[k].child]

LeftClean(nodes, centre, calls) ==
  \A k \in 1 .. Len(calls) : \A c \in 1 .. calls[k].child - 1 :
    Clean(nodes, centre, ChildrenOf(calls[k].node)[c])

Ended(nodes, call) == ~ (Append(call.node, "NW") \in DOMAIN nodes) \/ call.child > 4

Collected(nodes, centre, call) == call.result = Within(nodes[call.node].points, centre, 30 * Scale)

OwnOnly(nodes, centre, calls) ==
  \A k \in 1 .. Len(calls) :
    \/ Collected(nodes, centre, calls[k])
    \/ k = Len(calls) - 1 /\ Ended(nodes, calls[k + 1]) /\ calls[k + 1].result # <<>>

SearchInv ==
  pc = "search" => /\ Nested(tree, frames)
                   /\ LeftClean(tree, Centre, frames)
                   /\ OwnOnly(tree, Centre, frames)

TreeInv == TypeOK /\ Shape /\ Content /\ SearchInv

-----------------------------------------------------------------------------
(* A name and the longer names that begin with it. *)
LEMMA BelowFacts ==
  ASSUME NEW n \in Seq(QuadrantName), NEW m \in Seq(QuadrantName), Below(n, m), n # m
  PROVE  /\ Len(n) + 1 \in 0 .. Len(m)
         /\ m[Len(n) + 1] \in QuadrantName
         /\ SubSeq(m, 1, Len(n) + 1) = Append(n, m[Len(n) + 1])
         /\ Below(Append(n, m[Len(n) + 1]), m)
<1> DEFINE a == m[Len(n) + 1]
<1>1. Len(n) # Len(m)
  BY SeqEqual DEF Below
<1>2. Len(n) + 1 \in 1 .. Len(m) /\ a \in QuadrantName
  BY <1>1, ElementOfSeq DEF Below
<1>3. /\ Append(n, a) \in Seq(QuadrantName)
      /\ Len(Append(n, a)) = Len(n) + 1
      /\ \A k \in 1 .. Len(n) + 1 : Append(n, a)[k] = m[k]
  BY <1>2, AppendProperties DEF Below
<1>4. \A k \in 1 .. Len(n) + 1 : m[k] \in QuadrantName
  BY <1>2, ElementOfSeq
<1> DEFINE sub == SubSeq(m, 1, Len(n) + 1)
<1>5. /\ sub \in Seq(QuadrantName) /\ Len(sub) = Len(n) + 1
      /\ \A k \in 1 .. Len(n) + 1 : sub[k] = m[k]
  BY <1>2, <1>4, SubSeqProperties
<1> HIDE DEF sub
<1>6. sub = Append(n, a)
  BY <1>3, <1>5, SeqEqual
<1> QED BY <1>2, <1>3, <1>6 DEF sub, Below

LEMMA ChildFacts ==
  ASSUME NEW n \in Seq(QuadrantName)
  PROVE  /\ \A c \in 1 .. 4 : /\ ChildrenOf(n)[c] = Append(n, Quadrants[c])
                              /\ Quadrants[c] \in QuadrantName
                              /\ ChildrenOf(n)[c] \in Seq(QuadrantName)
                              /\ Len(ChildrenOf(n)[c]) = Len(n) + 1
         /\ \A a \in QuadrantName : \E c \in 1 .. 4 : Quadrants[c] = a
         /\ Len(ChildrenOf(n)) = 4
         /\ ToSet(ChildrenOf(n)) = {Append(n, a) : a \in QuadrantName}
<1>1. /\ Quadrants[1] = "NW" /\ Quadrants[2] = "NE" /\ Quadrants[3] = "SW" /\ Quadrants[4] = "SE"
  BY DEF Quadrants
<1>2. \A c \in 1 .. 4 : c = 1 \/ c = 2 \/ c = 3 \/ c = 4
  OBVIOUS
<1>3. \A c \in 1 .. 4 : ChildrenOf(n)[c] = Append(n, Quadrants[c]) /\ Quadrants[c] \in QuadrantName
  BY <1>1, <1>2 DEF ChildrenOf, QuadrantName
<1>4. \A a \in QuadrantName : \E c \in 1 .. 4 : Quadrants[c] = a
  BY <1>1 DEF QuadrantName
<1>5. \A a \in QuadrantName : Append(n, a) \in Seq(QuadrantName) /\ Len(Append(n, a)) = Len(n) + 1
  BY AppendProperties
<1>6. Len(ChildrenOf(n)) = 4 /\ DOMAIN ChildrenOf(n) = 1 .. 4
  BY DEF ChildrenOf
<1>7. ToSet(ChildrenOf(n)) = {ChildrenOf(n)[c] : c \in 1 .. 4}
  BY <1>6 DEF ToSet
<1>8. {ChildrenOf(n)[c] : c \in 1 .. 4} = {Append(n, a) : a \in QuadrantName}
  <2>1. ASSUME NEW c \in 1 .. 4 PROVE ChildrenOf(n)[c] \in {Append(n, a) : a \in QuadrantName}
    BY <1>3
  <2>2. ASSUME NEW a \in QuadrantName PROVE Append(n, a) \in {ChildrenOf(n)[c] : c \in 1 .. 4}
    <3>1. PICK c \in 1 .. 4 : Quadrants[c] = a
      BY <1>4
    <3>2. ChildrenOf(n)[c] = Append(n, a)
      BY <1>3, <3>1
    <3> QED BY <3>2
  <2> QED BY <2>1, <2>2
<1>9. \A c \in 1 .. 4 : ChildrenOf(n)[c] \in Seq(QuadrantName) /\ Len(ChildrenOf(n)[c]) = Len(n) + 1
  BY <1>3, <1>5
<1> QED BY <1>3, <1>4, <1>6, <1>7, <1>8, <1>9

(* What lies strictly below a node lies below one of its children. *)
LEMMA SubtreeFacts ==
  ASSUME TypeOK, Shape, NEW n \in DOMAIN tree, NEW m \in DOMAIN tree, Below(n, m), n # m
  PROVE  Split(n) /\ \E c \in 1 .. 4 : Below(ChildrenOf(n)[c], m)
<1>1. n \in Seq(QuadrantName) /\ m \in Seq(QuadrantName)
  BY DEF TypeOK
<1> DEFINE a == m[Len(n) + 1]
<1>2. a \in QuadrantName /\ Append(n, a) = SubSeq(m, 1, Len(n) + 1) /\ Len(n) + 1 \in 0 .. Len(m)
      /\ Below(Append(n, a), m)
  BY <1>1, BelowFacts
<1>3. Append(n, a) \in DOMAIN tree
  BY <1>2 DEF Shape
<1>4. Split(n)
  BY <1>2, <1>3 DEF Shape, Split, QuadrantName
<1>5. PICK c \in 1 .. 4 : Quadrants[c] = a
  BY <1>1, <1>2, ChildFacts
<1>6. ChildrenOf(n)[c] = Append(n, a)
  BY <1>1, <1>5, ChildFacts
<1> QED BY <1>2, <1>4, <1>6

LEMMA RootAboveAll == ASSUME TypeOK, NEW m \in DOMAIN tree PROVE Below(Root, m) /\ Root \in Seq(QuadrantName)
<1>1. m \in Seq(QuadrantName) /\ Root \in Seq(QuadrantName) /\ Len(Root) = 0
  BY EmptySeq DEF TypeOK, Root
<1>2. Len(m) \in Nat
  BY <1>1, LenProperties
<1> QED BY <1>1, <1>2 DEF Below

(* A node is clean if its own points are out of range and its children,    *)
(* where it has any, are clean.                                            *)
LEMMA CleanFromChildren ==
  ASSUME TypeOK, Shape, NEW n \in DOMAIN tree, NEW centre,
         \A k \in 1 .. Len(tree[n].points) : ~ InBox(centre, 30 * Scale, tree[n].points[k]),
         Split(n) => \A c \in 1 .. 4 : Clean(tree, centre, ChildrenOf(n)[c])
  PROVE  Clean(tree, centre, n)
<1> SUFFICES ASSUME NEW m \in DOMAIN tree, Below(n, m), NEW k \in 1 .. Len(tree[m].points)
             PROVE ~ InBox(centre, 30 * Scale, tree[m].points[k])
  BY DEF Clean
<1>1. CASE m = n
  BY <1>1
<1>2. CASE m # n
  <2>1. PICK c \in 1 .. 4 : Below(ChildrenOf(n)[c], m) /\ Split(n)
    BY <1>2, SubtreeFacts
  <2> QED BY <2>1 DEF Clean
<1> QED BY <1>1, <1>2
-----------------------------------------------------------------------------
(* subdivide adds the four children of a node that has none, and changes   *)
(* nothing else (quadTree.c:194-254).                                      *)
LEMMA SubdividedFacts ==
  ASSUME TypeOK, Shape, NEW n \in DOMAIN tree, tree' = Subdivided(n)
  PROVE  /\ DOMAIN tree' \subseteq Seq(QuadrantName)
         /\ tree' \in [DOMAIN tree' -> TreeNode]
         /\ DOMAIN tree \subseteq DOMAIN tree'
         /\ \A m \in DOMAIN tree : tree'[m] = tree[m]
         /\ \A c \in 1 .. 4 : ChildrenOf(n)[c] \in DOMAIN tree'
         /\ Shape'
<1> DEFINE new == {Append(n, a) : a \in QuadrantName}
<1>1. n \in Seq(QuadrantName) /\ ToSet(ChildrenOf(n)) = new /\ new \subseteq Seq(QuadrantName)
  <2>1. n \in Seq(QuadrantName)
    BY DEF TypeOK
  <2> QED BY <2>1, ChildFacts, AppendProperties
<1>2. CASE Split(n)
  <2>1. tree' = tree
    BY <1>2 DEF Subdivided
  <2>2. \A a \in QuadrantName : Append(n, a) \in DOMAIN tree
    BY <1>2 DEF Split, Shape, QuadrantName
  <2>3. \A c \in 1 .. 4 : ChildrenOf(n)[c] \in DOMAIN tree
    BY <1>1, <2>2, ChildFacts
  <2> QED BY <2>1, <2>3 DEF TypeOK, Shape
<1>3. CASE ~ Split(n)
  <2>1. tree' = [m \in DOMAIN tree \cup new |-> IF m \in DOMAIN tree THEN tree[m] ELSE Quarter(n, Last(m))]
    BY <1>1, <1>3 DEF Subdivided
  <2>2. DOMAIN tree' = DOMAIN tree \cup new /\ \A m \in DOMAIN tree : tree'[m] = tree[m]
    BY <2>1
  <2>3. ASSUME NEW q PROVE Quarter(n, q) \in TreeNode
    <3>1. /\ tree[n].half \in Int /\ tree[n].centre.lat \in Int /\ tree[n].centre.lon \in Int
      BY DEF TypeOK, TreeNode
    <3>2. tree[n].half \div 2 \in Int
      BY <3>1
    <3>3. <<>> \in Seq(TreePoint)
      BY EmptySeq
    <3> QED BY <3>1, <3>2, <3>3 DEF Quarter, Node, TreeNode
  <2>4. tree' \in [DOMAIN tree' -> TreeNode]
    <3>1. \A m \in DOMAIN tree \cup new : (IF m \in DOMAIN tree THEN tree[m] ELSE Quarter(n, Last(m))) \in TreeNode
      BY <2>3 DEF TypeOK
    <3> HIDE DEF new
    <3> QED BY <2>1, <3>1
  <2>5. \A c \in 1 .. 4 : ChildrenOf(n)[c] \in DOMAIN tree'
    BY <1>1, <2>2, ChildFacts
  <2>6. ASSUME NEW m \in DOMAIN tree', NEW k \in 0 .. Len(m) PROVE SubSeq(m, 1, k) \in DOMAIN tree'
    <3>1. CASE m \in DOMAIN tree
      BY <2>2, <3>1 DEF Shape
    <3>2. CASE m \in new
      <4>1. PICK a \in QuadrantName : m = Append(n, a)
        BY <3>2
      <4>2. m \in Seq(QuadrantName) /\ Len(m) = Len(n) + 1 /\ Len(n) \in Nat
        BY <1>1, <4>1, AppendProperties, LenProperties
      <4>3. CASE k = Len(m)
        BY <4>2, <4>3, SubSeqFull
      <4>4. CASE k < Len(m)
        <5>1. SubSeq(m, 1, k) = SubSeq(n, 1, k)
          BY <1>1, <4>1, <4>2, <4>4, AppendProperties
        <5>2. k \in 0 .. Len(n)
          BY <4>2, <4>4
        <5>3. SubSeq(n, 1, k) \in DOMAIN tree
          BY <5>2 DEF Shape
        <5> QED BY <2>2, <5>1, <5>3
      <4> QED BY <4>2, <4>3, <4>4
    <3> QED BY <2>2, <3>1, <3>2
  <2>7. ASSUME NEW m \in DOMAIN tree', NEW a \in QuadrantName, NEW b \in QuadrantName,
               Append(m, a) \in DOMAIN tree'
        PROVE Append(m, b) \in DOMAIN tree'
    <3>1. m \in Seq(QuadrantName)
      BY <1>1, <2>2 DEF TypeOK
    <3>2. CASE Append(m, a) \in new
      <4>1. PICK c \in QuadrantName : Append(m, a) = Append(n, c)
        BY <3>2
      <4>2. m = n
        BY <1>1, <3>1, <4>1, AppendInjective
      <4> QED BY <2>2, <4>2
    <3>3. CASE Append(m, a) \in DOMAIN tree
      <4>1. /\ Len(Append(m, a)) = Len(m) + 1 /\ Len(m) \in Nat
            /\ SubSeq(Append(m, a), 1, Len(m)) = m
        <5>1. Append(m, a) \in Seq(QuadrantName) /\ Len(Append(m, a)) = Len(m) + 1 /\ Len(m) \in Nat
          BY <3>1, AppendProperties, LenProperties
        <5>2. SubSeq(Append(m, a), 1, Len(m)) = SubSeq(m, 1, Len(m))
          BY <3>1, <5>1, AppendProperties
        <5> QED BY <3>1, <5>1, <5>2, SubSeqFull
      <4>2. Len(m) \in 0 .. Len(Append(m, a))
        BY <4>1
      <4>3. SubSeq(Append(m, a), 1, Len(m)) \in DOMAIN tree
        BY <3>3, <4>2 DEF Shape
      <4>4. m \in DOMAIN tree
        BY <4>1, <4>3
      <4> QED BY <2>2, <3>3, <4>4 DEF Shape
    <3> HIDE DEF new
    <3> QED BY <2>2, <2>7, <3>2, <3>3
  <2>8. Root \in DOMAIN tree'
    BY <2>2 DEF Shape, Root
  <2>9. Shape'
    BY <2>6, <2>7, <2>8 DEF Shape, Root
  <2> QED BY <1>1, <2>2, <2>4, <2>5, <2>9 DEF TypeOK
<1> QED BY <1>2, <1>3

-----------------------------------------------------------------------------
LEMMA OwnType == ASSUME TypeOK, NEW n \in DOMAIN tree, NEW centre PROVE Own(n, centre) \in Seq(TreePoint)
BY WithinFacts DEF TypeOK, TreeNode, Own

LEMMA FrameType == ASSUME TypeOK, NEW n \in DOMAIN tree PROVE Frame(n) \in Call /\ Frame(n).child = 1
BY OwnType DEF Frame, Call

(* Putting a call on the list, and taking the last one off. *)
LEMMA TopFacts ==
  ASSUME TypeOK, frames # <<>>
  PROVE  /\ Len(frames) \in Nat \ {0} /\ Top = frames[Len(frames)]
         /\ \A k \in 1 .. Len(frames) : frames[k] \in Call
         /\ Front(frames) \in Seq(Call) /\ Len(Front(frames)) = Len(frames) - 1
         /\ \A k \in 1 .. Len(frames) - 1 : Front(frames)[k] = frames[k]
<1>1. frames \in Seq(Call)
  BY DEF TypeOK
<1>2. Len(frames) \in Nat \ {0} /\ \A k \in 1 .. Len(frames) : frames[k] \in Call
  BY <1>1, EmptySeq, ElementOfSeq
<1>3. /\ Front(frames) \in Seq(Call) /\ Len(Front(frames)) = Len(frames) - 1
      /\ \A k \in 1 .. Len(frames) - 1 : Front(frames)[k] = frames[k]
  <2>1. \A k \in 1 .. Len(frames) - 1 : frames[k] \in Call
    BY <1>2
  <2> DEFINE m == Len(frames) - 1
  <2>2. m \in Int /\ m - 1 + 1 = m /\ m >= 0
    BY <1>2
  <2>3. /\ SubSeq(frames, 1, m) \in Seq(Call)
        /\ Len(SubSeq(frames, 1, m)) = IF 1 <= m THEN m - 1 + 1 ELSE 0
        /\ \A k \in 1 .. m - 1 + 1 : SubSeq(frames, 1, m)[k] = frames[1 + k - 1]
    BY <2>1, <2>2, SubSeqProperties
  <2>4. \A k \in 1 .. m : SubSeq(frames, 1, m)[k] = frames[k]
    BY <2>2, <2>3
  <2> QED BY <2>2, <2>3, <2>4 DEF Front
<1> QED BY <1>2, <1>3 DEF Top, Last

LEMMA TypeInit == TreeInit => TypeOK /\ Shape /\ Content /\ SearchInv
<1> SUFFICES ASSUME TreeInit PROVE TypeOK /\ Shape /\ Content /\ SearchInv
  OBVIOUS
<1> USE DEF TreeInit
<1>1. DOMAIN tree = {Root} /\ tree[Root].points = <<>> /\ tree[Root] \in TreeNode
  BY TreeAssumption, EmptySeq DEF Node, TreeNode
<1>2. Root \in Seq(QuadrantName) /\ Len(Root) = 0
  BY EmptySeq DEF Root
<1>3. TypeOK
  <2>1. tree \in [DOMAIN tree -> TreeNode] /\ DOMAIN tree \subseteq Seq(QuadrantName)
    BY <1>1, <1>2
  <2>2. inserted \in Seq(TreePoint) /\ p \in TreePoint /\ todo \in Seq(DOMAIN tree) /\ frames \in Seq(Call)
    BY EmptySeq DEF PlainPoint, TreePoint
  <2> QED BY <2>1, <2>2, FS_EmptySet, TreeAssumption DEF TypeOK
<1>4. Shape
  <2>1. \A k \in 0 .. Len(Root) : SubSeq(Root, 1, k) = Root
    BY <1>2, SubSeqEmpty DEF Root
  <2>2. \A a \in QuadrantName : Append(Root, a) # Root
    BY <1>2, AppendProperties DEF Root
  <2> QED BY <1>1, <2>1, <2>2 DEF Shape
<1>5. Content
  BY <1>1 DEF Content
<1> QED BY <1>3, <1>4, <1>5 DEF SearchInv

(* What the calls of quadTree_search and the loop around them leave alone. *)
LEMMA TypeSearching ==
  ASSUME TypeOK, SearchInv, Searching, Shape PROVE TypeOK'
<1>0. /\ frames \in Seq(Call) /\ i \in Nat \ {0}
      /\ <<>> \in Seq(Call)
      /\ pc = "search" => Nested(tree, frames)
  BY EmptySeq DEF TypeOK, SearchInv
<1>1. CASE SearchAround
  <2>1. Frame(Root) \in Call
    BY FrameType DEF Shape
  <2>2. frames' \in Seq(Call)
    BY <1>1, <2>1 DEF SearchAround
  <2> QED BY <1>1, <2>2 DEF SearchAround, TypeOK, inserting, Call
<1>2. CASE SearchChild
  <2>1. pc = "search" /\ ~ Finished /\ frames # <<>>
    BY <1>0, <1>2 DEF SearchChild, Nested
  <2>2. Top \in Call
    BY <2>1, TopFacts
  <2>3. Top.child \in 1 .. 4 /\ Split(Top.node) /\ Top.node \in DOMAIN tree
    BY <2>1, <2>2 DEF Finished, Call
  <2>4. Top.node \in Seq(QuadrantName)
    BY <2>3 DEF TypeOK
  <2>5. \A a \in QuadrantName : Append(Top.node, a) \in DOMAIN tree
    BY <2>3 DEF Shape, Split, QuadrantName
  <2>6. ChildrenOf(Top.node)[Top.child] \in DOMAIN tree
    BY <2>3, <2>4, <2>5, ChildFacts
  <2>7. frames' \in Seq(Call)
    BY <1>0, <1>2, <2>6, FrameType, AppendProperties DEF SearchChild
  <2> QED BY <1>2, <2>7 DEF SearchChild, TypeOK, inserting, Call
<1>3. CASE NothingFound
  <2>1. pc = "search" /\ frames # <<>> /\ Len(frames) > 1
    BY <1>0, <1>3 DEF NothingFound, Nested
  <2> DEFINE n == Len(frames) - 1
             e == [frames[n] EXCEPT !.child = @ + 1]
  <2>2. n \in 1 .. Len(frames) - 1 /\ frames[n] \in Call /\ Front(frames)[n] = frames[n]
    BY <2>1, TopFacts
  <2>3. frames[n].child + 1 \in 1 .. 5
    BY <1>0, <2>1, <2>2 DEF Nested
  <2>4. e \in Call
    BY <2>2, <2>3 DEF Call
  <2>5. frames' = [Front(frames) EXCEPT ![n] = e]
    BY <1>3, <2>2 DEF NothingFound
  <2>6. Front(frames) \in Seq(Call) /\ n \in 1 .. Len(Front(frames))
    BY <2>1, <2>2, TopFacts
  <2>7. frames' \in Seq(Call)
    <3> HIDE DEF e, n
    <3> QED BY <2>4, <2>5, <2>6, ExceptSeq
  <2> QED BY <1>3, <2>7 DEF NothingFound, TypeOK, inserting, Call
<1>4. CASE CopyAgain
  <2>1. pc = "search" /\ frames # <<>> /\ Len(frames) > 1 /\ Top.result # <<>>
    BY <1>0, <1>4 DEF CopyAgain, Nested
  <2> DEFINE n == Len(frames) - 1
             e == [frames[n] EXCEPT !.result = Append(@, Head(Top.result))]
  <2>2. n \in 1 .. Len(frames) /\ frames[n] \in Call /\ Top \in Call
    BY <2>1, TopFacts
  <2>3. frames' = frames \/ frames' = [frames EXCEPT ![n] = e]
    BY <1>4, <2>2 DEF CopyAgain
  <2>4. Top.result \in Seq(TreePoint) /\ frames[n].result \in Seq(TreePoint)
    BY <2>2 DEF Call
  <2>5. Append(frames[n].result, Head(Top.result)) \in Seq(TreePoint)
    BY <2>1, <2>4, HeadTailProperties, AppendProperties
  <2>6. e \in Call
    BY <2>2, <2>5 DEF Call
  <2>7. frames' \in Seq(Call)
    <3> HIDE DEF e, n
    <3> QED BY <1>0, <2>2, <2>3, <2>6, ExceptSeq
  <2>8. pc' \in {pc, "overrun"} /\ UNCHANGED <<cap, tree, inserting, i>>
    BY <1>4 DEF CopyAgain
  <2> QED BY <2>7, <2>8 DEF TypeOK, inserting, Call
<1>5. CASE SearchDone
  BY <1>0, <1>5 DEF SearchDone, TypeOK, inserting, Call
<1>6. CASE FreeResult
  <2>1. (pc' = "freed twice" /\ i' = i) \/ (pc' = "link" /\ i' = i + 1)
    BY <1>6 DEF FreeResult
  <2>2. i' \in Nat \ {0} /\ pc' \in {"freed twice", "link"}
    <3>1. i \in Nat \ {0}
      BY <1>0
    <3>2. CASE i' = i
      BY <2>1, <3>1, <3>2
    <3>3. CASE i' = i + 1
      <4>1. i + 1 \in Nat \ {0}
        BY <3>1
      <4> QED BY <2>1, <3>3, <4>1
    <3> QED BY <2>1, <3>2, <3>3
  <2> QED BY <1>6, <2>2 DEF FreeResult, TypeOK, inserting, Call
<1>7. CASE LinkingDone
  BY <1>7 DEF LinkingDone, searching, TypeOK, inserting, Call
<1> QED BY <1>1, <1>2, <1>3, <1>4, <1>5, <1>6, <1>7 DEF Searching

LEMMA HandedType == ASSUME TypeOK PROVE Handed \in Nat
<1>1. Cardinality(lost) \in Nat
  BY FS_CardinalityType DEF TypeOK
<1>2. Len(inserted) \in Nat
  BY LenProperties DEF TypeOK
<1> QED BY <1>1, <1>2 DEF Handed

LEMMA TypeInserting ==
  ASSUME TypeOK, Shape, Inserting PROVE TypeOK'
<1>0. /\ todo \in Seq(DOMAIN tree) /\ inserted \in Seq(TreePoint) /\ p \in TreePoint
      /\ frames \in Seq(Call) /\ IsFiniteSet(lost)
      /\ tree \in [DOMAIN tree -> TreeNode]
  BY DEF TypeOK
<1>1. CASE Outside
  <2>1. todo' \in Seq(DOMAIN tree)
    BY <1>0, <1>1, HeadTailProperties DEF Outside
  <2> QED BY <1>1, <2>1 DEF Outside, TypeOK, searching, Call
<1>2. CASE Store
  <2>1. Head(todo) \in DOMAIN tree
    BY <1>0, <1>2, HeadTailProperties DEF Store
  <2> DEFINE e == [tree[Head(todo)] EXCEPT !.points = Append(@, p)]
  <2>2. tree[Head(todo)] \in TreeNode /\ Append(tree[Head(todo)].points, p) \in Seq(TreePoint)
    BY <1>0, <2>1, AppendProperties DEF TreeNode
  <2>3. e \in TreeNode
    BY <2>2 DEF TreeNode
  <2>4. tree' = [tree EXCEPT ![Head(todo)] = e]
    BY <1>2, <2>1 DEF Store
  <2>5. DOMAIN tree' = DOMAIN tree /\ tree' \in [DOMAIN tree' -> TreeNode]
    <3> HIDE DEF e
    <3> QED BY <1>0, <2>1, <2>3, <2>4
  <2>6. inserted' \in Seq(TreePoint) /\ todo' \in Seq(DOMAIN tree')
    BY <1>0, <1>2, AppendProperties, EmptySeq DEF Store
  <2>7. /\ pc' = "idle" /\ UNCHANGED <<cap, lost, p, searching>>
    BY <1>2 DEF Store
  <2> QED BY <2>5, <2>6, <2>7 DEF TypeOK, searching, Call
<1>3. CASE Descend
  <2>1. Head(todo) \in DOMAIN tree /\ tree' = Subdivided(Head(todo)) /\ Tail(todo) \in Seq(DOMAIN tree)
    BY <1>0, <1>3, HeadTailProperties DEF Descend
  <2>2. /\ DOMAIN tree' \subseteq Seq(QuadrantName)
        /\ tree' \in [DOMAIN tree' -> TreeNode]
        /\ DOMAIN tree \subseteq DOMAIN tree'
        /\ \A c \in 1 .. 4 : ChildrenOf(Head(todo))[c] \in DOMAIN tree'
    BY <2>1, SubdividedFacts
  <2>3. ChildrenOf(Head(todo)) \in Seq(DOMAIN tree')
    <3>1. ChildrenOf(Head(todo)) \in [1 .. 4 -> DOMAIN tree']
      BY <2>2 DEF ChildrenOf
    <3> DEFINE D == DOMAIN tree'
    <3> HIDE DEF D
    <3>2. 4 \in Nat /\ ChildrenOf(Head(todo)) \in [1 .. 4 -> D]
      BY <3>1 DEF D
    <3>3. ChildrenOf(Head(todo)) \in UNION {[1 .. n -> D] : n \in Nat}
      BY <3>2
    <3>4. ChildrenOf(Head(todo)) \in Seq(D)
      BY <3>3, SeqDef
    <3> QED BY <3>4 DEF D
  <2>4. Tail(todo) \in Seq(DOMAIN tree')
    BY <2>1, <2>2, SeqMonotonic
  <2>5. todo' \in Seq(DOMAIN tree')
    BY <1>3, <2>3, <2>4, ConcatProperties DEF Descend
  <2>6. frames' \in Seq(Call')
    <3>1. Call \subseteq Call'
      BY <2>2 DEF Call
    <3>2. frames \in Seq(Call')
      <4> DEFINE C == Call'
      <4> HIDE DEF C
      <4>1. Call \subseteq C
        BY <3>1 DEF C
      <4>2. frames \in Seq(C)
        BY <1>0, <4>1, SeqMonotonic
      <4> QED BY <4>2 DEF C
    <3> QED BY <1>3, <3>2 DEF Descend, searching
  <2> QED BY <1>3, <2>2, <2>5, <2>6 DEF Descend, TypeOK, searching
<1>4. CASE Lose
  BY <1>4, FS_AddElement DEF Lose, TypeOK, searching, Call
<1> QED BY <1>1, <1>2, <1>3, <1>4 DEF Inserting

LEMMA TypeStep ==
  ASSUME TypeOK, Shape, SearchInv, [TreeNext]_treevars PROVE TypeOK'
<1>1. ASSUME NEW place \in Place, Insert(place) PROVE TypeOK'
  <2>1. p' \in TreePoint
    BY <1>1, HandedType DEF Insert, TreePoint
  <2>2. todo' \in Seq(DOMAIN tree)
    BY <1>1 DEF Insert, Shape
  <2> QED BY <1>1, <2>1, <2>2 DEF Insert, TypeOK, searching, Call
<1>2. CASE StartLinking
  BY <1>2 DEF StartLinking, TypeOK, searching, inserting, Call
<1>3. CASE UNCHANGED treevars
  BY <1>3 DEF treevars, TypeOK, searching, inserting, Call
<1> QED BY <1>1, <1>2, <1>3, TypeInserting, TypeSearching DEF TreeNext

LEMMA ShapeStep ==
  ASSUME TypeOK, Shape, [TreeNext]_treevars PROVE Shape'
<1>1. CASE Store
  <2>1. DOMAIN tree' = DOMAIN tree
    BY <1>1 DEF Store
  <2> QED BY <2>1 DEF Shape, Root
<1>2. CASE Descend
  <2>1. Head(todo) \in DOMAIN tree /\ tree' = Subdivided(Head(todo))
    BY <1>2, HeadTailProperties DEF Descend, TypeOK
  <2> QED BY <2>1, SubdividedFacts
<1>3. CASE UNCHANGED tree
  BY <1>3 DEF Shape, Root
<1>4. Store \/ Descend \/ UNCHANGED tree
  BY DEF TreeNext, treevars, Inserting, Searching, Insert, Outside, Lose, StartLinking, SearchAround,
         SearchChild, NothingFound, CopyAgain, SearchDone, FreeResult, LinkingDone, inserting, searching
<1> QED BY <1>1, <1>2, <1>3, <1>4

(* A point is stored at the root as long as it has no children, else in a  *)
(* node below it.                                                          *)
LEMMA ContentStep ==
  ASSUME TypeOK, Shape, Content, [TreeNext]_treevars PROVE Content'
<1> DEFINE own == tree[Root].points
           later == Len(inserted) + 1
<1>0. /\ own \in Seq(TreePoint) /\ inserted \in Seq(TreePoint) /\ p \in TreePoint
      /\ Len(own) \in Nat /\ Len(inserted) \in Nat
      /\ tree \in [DOMAIN tree -> TreeNode]
  BY LenProperties DEF TypeOK, TreeNode, Shape
<1>1. CASE Store
  <2> DEFINE h == Head(todo)
  <2>1. h \in DOMAIN tree /\ Room(h)
    BY <1>1, HeadTailProperties DEF Store, TypeOK
  <2>2. /\ DOMAIN tree' = DOMAIN tree
        /\ tree'[h].points = Append(tree[h].points, p)
        /\ \A m \in DOMAIN tree \ {h} : tree'[m] = tree[m]
        /\ inserted' = Append(inserted, p)
    BY <1>0, <1>1, <2>1 DEF Store, TreeNode
  <2>3. /\ Len(inserted') = Len(inserted) + 1 /\ inserted'[Len(inserted) + 1] = p
        /\ \A k \in 1 .. Len(inserted) : inserted'[k] = inserted[k]
    BY <1>0, <2>2, AppendProperties
  <2>4. tree[h].points \in Seq(TreePoint) /\ Len(tree[h].points) \in Nat
    BY <2>1, LenProperties DEF TypeOK, TreeNode
  <2>5. /\ Len(tree'[h].points) = Len(tree[h].points) + 1
        /\ tree'[h].points[Len(tree[h].points) + 1] = p
        /\ \A k \in 1 .. Len(tree[h].points) : tree'[h].points[k] = tree[h].points[k]
    BY <1>0, <2>2, <2>4, AppendProperties
  <2>6. CASE h = Root
    <3>1. ~ Split(Root) /\ Len(own) = Len(inserted)
      BY <2>1, <2>6 DEF Room, Content
    <3>2. /\ Len(tree'[Root].points) = Len(inserted')
          /\ \A j \in 1 .. Len(inserted') : tree'[Root].points[j] = inserted'[j]
      <4>1. Len(tree'[Root].points) = Len(own) + 1 /\ Len(inserted') = Len(own) + 1
        BY <2>3, <2>5, <2>6, <3>1
      <4>2. ASSUME NEW j \in 1 .. Len(own) PROVE tree'[Root].points[j] = inserted'[j]
        BY <2>3, <2>5, <2>6, <3>1 DEF Content
      <4>3. tree'[Root].points[Len(own) + 1] = p /\ inserted'[Len(own) + 1] = p
        BY <2>3, <2>5, <2>6, <3>1
      <4> QED BY <1>0, <4>1, <4>2, <4>3
    <3> QED BY <1>0, <2>3, <3>2 DEF Content, Root
  <2>7. CASE h # Root
    <3>1. tree'[Root] = tree[Root] /\ Root' = Root
      BY <2>2, <2>7 DEF Shape, Root
    <3>2. Split(Root)
      BY <2>1, <2>7, RootAboveAll, SubtreeFacts DEF Shape
    <3>3. Split(Root)'
      BY <2>2, <3>2 DEF Split, Root
    <3>4. ASSUME NEW j \in Len(own) + 1 .. Len(inserted')
          PROVE \E m \in DOMAIN tree' \ {Root} : \E k \in 1 .. Len(tree'[m].points) :
                  tree'[m].points[k] = inserted'[j]
      <4>1. CASE j = Len(inserted) + 1
        <5>1. Len(tree[h].points) + 1 \in 1 .. Len(tree'[h].points)
          BY <2>4, <2>5
        <5> QED BY <2>1, <2>2, <2>3, <2>5, <2>7, <4>1, <5>1
      <4>2. CASE j # Len(inserted) + 1
        <5>1. j \in Len(own) + 1 .. Len(inserted) /\ inserted'[j] = inserted[j]
          BY <1>0, <2>3, <4>2
        <5>2. PICK m \in DOMAIN tree \ {Root} : \E k \in 1 .. Len(tree[m].points) : tree[m].points[k] = inserted[j]
          BY <5>1 DEF Content
        <5>3. \A k \in 1 .. Len(tree[m].points) :
                k \in 1 .. Len(tree'[m].points) /\ tree'[m].points[k] = tree[m].points[k]
          <6>1. CASE m = h
            BY <2>4, <2>5, <6>1
          <6>2. CASE m # h
            BY <2>2, <5>2, <6>2
          <6> QED BY <6>1, <6>2
        <5> QED BY <2>2, <5>1, <5>2, <5>3
      <4> QED BY <4>1, <4>2
    <3>5. \A j \in 1 .. Len(own) : own[j] = inserted'[j] /\ Len(own) <= Len(inserted')
      BY <1>0, <2>3 DEF Content
    <3>6. Len(own) <= Len(inserted')
      BY <1>0, <2>3 DEF Content
    <3> QED BY <3>1, <3>3, <3>4, <3>5, <3>6 DEF Content
  <2> QED BY <2>6, <2>7
<1>2. CASE Descend
  <2>1. Head(todo) \in DOMAIN tree /\ tree' = Subdivided(Head(todo)) /\ inserted' = inserted
    BY <1>2, HeadTailProperties DEF Descend, TypeOK
  <2>2. DOMAIN tree \subseteq DOMAIN tree' /\ \A m \in DOMAIN tree : tree'[m] = tree[m]
    BY <2>1, SubdividedFacts
  <2>3. tree'[Root] = tree[Root] /\ Root' = Root
    BY <2>2 DEF Shape, Root
  <2>4. Split(Root) => Split(Root)'
    BY <2>2 DEF Split, Root
  <2>5. ASSUME NEW j \in Len(own) + 1 .. Len(inserted)
        PROVE \E m \in DOMAIN tree' \ {Root} : \E k \in 1 .. Len(tree'[m].points) :
                tree'[m].points[k] = inserted[j]
    <3>1. PICK m \in DOMAIN tree \ {Root} : \E k \in 1 .. Len(tree[m].points) : tree[m].points[k] = inserted[j]
      BY DEF Content
    <3> QED BY <2>2, <3>1
  <2> QED BY <2>1, <2>3, <2>4, <2>5 DEF Content
<1>3. CASE UNCHANGED <<tree, inserted>>
  BY <1>3 DEF Content, Root, Split
<1>4. Store \/ Descend \/ UNCHANGED <<tree, inserted>>
  BY DEF TreeNext, treevars, Inserting, Searching, Insert, Outside, Lose, StartLinking, SearchAround,
         SearchChild, NothingFound, CopyAgain, SearchDone, FreeResult, LinkingDone, inserting, searching
<1> QED BY <1>1, <1>2, <1>3, <1>4

-----------------------------------------------------------------------------
(* Nothing a search does moves the point it searches around.               *)
LEMMA SameView ==
  ASSUME UNCHANGED <<tree, i>>,
         Nested(tree, frames') /\ LeftClean(tree, Centre, frames') /\ OwnOnly(tree, Centre, frames')
  PROVE  SearchInv'
BY DEF Centre, Root, SearchInv

LEMMA SearchAroundKeeps == ASSUME TypeOK, Shape, SearchAround PROVE SearchInv'
<1>1. frames' = <<Frame(Root)>> /\ Len(frames') = 1 /\ frames'[1] = Frame(Root) /\ UNCHANGED <<tree, i>>
  BY DEF SearchAround
<1>2. Frame(Root).child = 1 /\ Frame(Root).node = Root /\ Collected(tree, Centre, Frame(Root))
  BY DEF Frame, Own, Collected
<1> HIDE DEF Frame
<1>3. Nested(tree, frames')
  BY <1>1, <1>2 DEF Nested
<1>4. LeftClean(tree, Centre, frames')
  BY <1>1, <1>2 DEF LeftClean
<1>5. OwnOnly(tree, Centre, frames')
  BY <1>1, <1>2 DEF OwnOnly
<1> QED BY <1>1, <1>3, <1>4, <1>5, SameView

LEMMA SearchChildKeeps == ASSUME TypeOK, Shape, SearchInv, SearchChild PROVE SearchInv'
<1> DEFINE n == Len(frames)
           node == ChildrenOf(Top.node)[Top.child]
<1>1. /\ Nested(tree, frames) /\ LeftClean(tree, Centre, frames) /\ OwnOnly(tree, Centre, frames)
      /\ ~ Finished /\ frames # <<>>
      /\ frames' = Append(frames, Frame(node)) /\ UNCHANGED <<tree, i>>
  BY DEF SearchChild, SearchInv, Nested
<1>2. n \in Nat \ {0} /\ Top = frames[n] /\ frames \in Seq(Call) /\ Top \in Call
  <2>1. frames \in Seq(Call)
    BY DEF TypeOK
  <2> QED BY <1>1, <2>1, TopFacts
<1>3. Top.child \in 1 .. 4 /\ Split(Top.node) /\ Top.node \in DOMAIN tree
  BY <1>1, <1>2 DEF Finished, Call
<1>4. node \in DOMAIN tree
  <2>1. Top.node \in Seq(QuadrantName) /\ \A a \in QuadrantName : Append(Top.node, a) \in DOMAIN tree
    BY <1>3 DEF TypeOK, Shape, Split, QuadrantName
  <2> QED BY <1>3, <2>1, ChildFacts
<1> HIDE DEF node
<1>5. Frame(node) \in Call /\ Frame(node).child = 1 /\ Frame(node).node = node
      /\ Collected(tree, Centre, Frame(node))
  BY <1>4, FrameType DEF Frame, Own, Collected
<1>6. /\ Len(frames') = n + 1 /\ frames'[n + 1] = Frame(node)
      /\ \A k \in 1 .. n : frames'[k] = frames[k]
  BY <1>1, <1>2, <1>5, AppendProperties
<1>7. Nested(tree, frames')
  <2>1. frames'[1].node = Root /\ frames' # <<>>
    BY <1>1, <1>2, <1>6, EmptySeq DEF Nested
  <2>2. ASSUME NEW k \in 1 .. Len(frames') - 1
        PROVE /\ Append(frames'[k].node, "NW") \in DOMAIN tree /\ frames'[k].child \in 1 .. 4
              /\ frames'[k + 1].node = ChildrenOf(frames'[k].node)[frames'[k].child]
    <3>1. CASE k = n
      <4>1. frames'[k] = Top /\ frames'[k + 1].node = node
        BY <1>2, <1>5, <1>6, <3>1
      <4> QED BY <1>3, <4>1 DEF node, Split
    <3>2. CASE k # n
      <4>1. k \in 1 .. n - 1 /\ frames'[k] = frames[k] /\ frames'[k + 1] = frames[k + 1]
        BY <1>2, <1>6, <3>2
      <4> QED BY <1>1, <4>1 DEF Nested
    <3> QED BY <3>1, <3>2
  <2> QED BY <2>1, <2>2 DEF Nested
<1>8. LeftClean(tree, Centre, frames')
  <2> SUFFICES ASSUME NEW k \in 1 .. Len(frames'), NEW c \in 1 .. frames'[k].child - 1
               PROVE Clean(tree, Centre, ChildrenOf(frames'[k].node)[c])
    BY DEF LeftClean
  <2>1. k # n + 1
    BY <1>5, <1>6
  <2>2. k \in 1 .. n /\ frames'[k] = frames[k]
    BY <1>2, <1>6, <2>1
  <2> QED BY <1>1, <2>2 DEF LeftClean
<1>9. OwnOnly(tree, Centre, frames')
  <2> SUFFICES ASSUME NEW k \in 1 .. Len(frames')
               PROVE Collected(tree, Centre, frames'[k])
    BY DEF OwnOnly
  <2>1. CASE k = n + 1
    BY <1>5, <1>6, <2>1
  <2>2. CASE k # n + 1
    <3>1. k \in 1 .. n /\ frames'[k] = frames[k]
      BY <1>2, <1>6, <2>2
    <3>2. ~ Ended(tree, frames[n])
      BY <1>1, <1>2 DEF Finished, Split, Ended
    <3> QED BY <1>1, <1>2, <3>1, <3>2 DEF OwnOnly
  <2> QED BY <2>1, <2>2
<1> QED BY <1>1, <1>7, <1>8, <1>9, SameView

(* A call that ends with nothing leaves its whole subtree clean.           *)
LEMMA NothingFoundClean ==
  ASSUME TypeOK, Shape, frames # <<>>, LeftClean(tree, Centre, frames), Finished,
         Collected(tree, Centre, Top), Top.result = <<>>
  PROVE  Clean(tree, Centre, Top.node)
<1>1. Top = frames[Len(frames)] /\ Len(frames) \in 1 .. Len(frames) /\ Top \in Call
  BY TopFacts
<1>2. Top.node \in DOMAIN tree /\ Top.child \in 1 .. 5
  BY <1>1 DEF Call
<1>3. \A k \in 1 .. Len(tree[Top.node].points) : ~ InBox(Centre, 30 * Scale, tree[Top.node].points[k])
  <2>1. tree[Top.node].points \in Seq(TreePoint)
    BY <1>2 DEF TypeOK, TreeNode
  <2> QED BY <2>1, WithinFacts DEF Collected
<1>4. Split(Top.node) => \A c \in 1 .. 4 : Clean(tree, Centre, ChildrenOf(Top.node)[c])
  <2> SUFFICES ASSUME Split(Top.node), NEW c \in 1 .. 4 PROVE Clean(tree, Centre, ChildrenOf(Top.node)[c])
    OBVIOUS
  <2>1. Top.child = 5
    BY <1>2 DEF Finished
  <2> QED BY <1>1, <2>1 DEF LeftClean
<1> QED BY <1>2, <1>3, <1>4, CleanFromChildren

LEMMA NothingFoundKeeps == ASSUME TypeOK, Shape, SearchInv, NothingFound PROVE SearchInv'
<1> DEFINE n == Len(frames) - 1
           e == [frames[n] EXCEPT !.child = @ + 1]
<1>1. /\ Nested(tree, frames) /\ LeftClean(tree, Centre, frames) /\ OwnOnly(tree, Centre, frames)
      /\ Finished /\ frames # <<>>
      /\ Top.result = <<>> /\ Len(frames) > 1
      /\ frames' = [Front(frames) EXCEPT ![n].child = @ + 1] /\ UNCHANGED <<tree, i>>
  BY DEF NothingFound, SearchInv, Nested
<1>2. /\ n \in Nat \ {0} /\ Len(frames) = n + 1
      /\ Top = frames[n + 1] /\ frames[n] \in Call
      /\ Front(frames) \in Seq(Call) /\ Len(Front(frames)) = n
      /\ \A k \in 1 .. n : Front(frames)[k] = frames[k]
  BY <1>1, TopFacts
<1>3. frames[n].child \in 1 .. 4 /\ Top.node = ChildrenOf(frames[n].node)[frames[n].child]
  BY <1>1, <1>2 DEF Nested
<1>4. e \in Call /\ e.child = frames[n].child + 1 /\ e.node = frames[n].node /\ e.result = frames[n].result
  <2>1. frames[n].child + 1 \in 1 .. 5
    BY <1>3
  <2> QED BY <1>2, <2>1 DEF Call
<1>5. frames' = [Front(frames) EXCEPT ![n] = e]
  <2>1. Front(frames)[n] = frames[n]
    BY <1>2
  <2> QED BY <1>1, <2>1
<1> HIDE DEF e, n
<1>6. /\ Len(frames') = n /\ frames'[n] = e
      /\ \A k \in 1 .. n - 1 : frames'[k] = frames[k]
  <2>1. n \in 1 .. Len(Front(frames))
    BY <1>2
  <2>2. /\ Len(frames') = n
        /\ \A k \in 1 .. n : frames'[k] = IF k = n THEN e ELSE Front(frames)[k]
    BY <1>2, <1>4, <1>5, <2>1, ExceptSeq
  <2> QED BY <1>2, <2>2
<1>7. Clean(tree, Centre, ChildrenOf(frames[n].node)[frames[n].child])
  <2>1. Collected(tree, Centre, Top)
    BY <1>1, <1>2 DEF OwnOnly
  <2> QED BY <1>1, <1>3, <2>1, NothingFoundClean
<1>8. \A k \in 1 .. n : frames'[k].node = frames[k].node /\ frames'[k].result = frames[k].result
  BY <1>2, <1>4, <1>6
<1>9. Nested(tree, frames')
  <2>1. frames'[1].node = Root /\ frames' # <<>>
    BY <1>1, <1>2, <1>6, <1>8, EmptySeq DEF Nested
  <2>2. ASSUME NEW k \in 1 .. Len(frames') - 1
        PROVE /\ Append(frames'[k].node, "NW") \in DOMAIN tree /\ frames'[k].child \in 1 .. 4
              /\ frames'[k + 1].node = ChildrenOf(frames'[k].node)[frames'[k].child]
    <3>1. k \in 1 .. n - 1 /\ frames'[k] = frames[k] /\ frames'[k + 1].node = frames[k + 1].node
      BY <1>2, <1>6, <1>8
    <3> QED BY <1>1, <1>2, <3>1 DEF Nested
  <2> QED BY <2>1, <2>2 DEF Nested
<1>10. LeftClean(tree, Centre, frames')
  <2> SUFFICES ASSUME NEW k \in 1 .. Len(frames'), NEW c \in 1 .. frames'[k].child - 1
               PROVE Clean(tree, Centre, ChildrenOf(frames'[k].node)[c])
    BY DEF LeftClean
  <2>1. CASE k = n
    <3>1. c \in 1 .. frames[n].child
      BY <1>2, <1>3, <1>4, <1>6, <2>1
    <3>2. Clean(tree, Centre, ChildrenOf(frames[n].node)[c])
      <4>1. CASE c = frames[n].child
        BY <1>7, <4>1
      <4>2. CASE c # frames[n].child
        <5>1. c \in 1 .. frames[n].child - 1 /\ n \in 1 .. Len(frames)
          BY <1>2, <1>3, <3>1, <4>2
        <5> QED BY <1>1, <5>1 DEF LeftClean
      <4> QED BY <4>1, <4>2
    <3> QED BY <1>4, <1>6, <2>1, <3>2
  <2>2. CASE k # n
    <3>1. k \in 1 .. Len(frames) /\ frames'[k] = frames[k]
      BY <1>2, <1>6, <2>2
    <3> QED BY <1>1, <3>1 DEF LeftClean
  <2> QED BY <2>1, <2>2
<1>11. OwnOnly(tree, Centre, frames')
  <2> SUFFICES ASSUME NEW k \in 1 .. Len(frames') PROVE Collected(tree, Centre, frames'[k])
    BY DEF OwnOnly
  <2>1. k \in 1 .. Len(frames) /\ k \in 1 .. n
    BY <1>2, <1>6
  <2>2. Collected(tree, Centre, frames[k])
    BY <1>1, <1>2, <2>1 DEF OwnOnly
  <2> QED BY <1>8, <2>1, <2>2 DEF Collected
<1> QED BY <1>1, <1>9, <1>10, <1>11, SameView

LEMMA CopyAgainKeeps == ASSUME TypeOK, Shape, SearchInv, CopyAgain PROVE SearchInv'
<1> SUFFICES ASSUME pc' = "search" PROVE SearchInv'
  BY DEF SearchInv
<1> DEFINE n == Len(frames) - 1
           e == [frames[n] EXCEPT !.result = Append(@, Head(Top.result))]
<1>1. /\ Nested(tree, frames) /\ LeftClean(tree, Centre, frames) /\ OwnOnly(tree, Centre, frames)
      /\ Finished /\ frames # <<>>
      /\ Top.result # <<>> /\ Len(frames) > 1
      /\ frames' = [frames EXCEPT ![n].result = Append(@, Head(Top.result))] /\ UNCHANGED <<tree, i>>
  BY DEF CopyAgain, SearchInv, Nested
<1>2. /\ n \in Nat \ {0} /\ Len(frames) = n + 1 /\ frames \in Seq(Call)
      /\ Top = frames[n + 1] /\ frames[n] \in Call /\ Top \in Call
  <2>1. frames \in Seq(Call)
    BY DEF TypeOK
  <2> QED BY <1>1, <2>1, TopFacts
<1>3. e \in Call /\ e.child = frames[n].child /\ e.node = frames[n].node
  <2>1. Top.result \in Seq(TreePoint) /\ frames[n].result \in Seq(TreePoint)
    BY <1>2 DEF Call
  <2>2. Append(frames[n].result, Head(Top.result)) \in Seq(TreePoint)
    BY <1>1, <2>1, HeadTailProperties, AppendProperties
  <2> QED BY <1>2, <2>2 DEF Call
<1>4. frames' = [frames EXCEPT ![n] = e]
  BY <1>1, <1>2
<1> HIDE DEF e, n
<1>5. /\ Len(frames') = n + 1 /\ frames'[n] = e
      /\ \A k \in 1 .. n + 1 : k # n => frames'[k] = frames[k]
  <2>1. n \in 1 .. Len(frames)
    BY <1>2
  <2>2. /\ Len(frames') = n + 1
        /\ \A k \in 1 .. n + 1 : frames'[k] = IF k = n THEN e ELSE frames[k]
    BY <1>2, <1>3, <1>4, <2>1, ExceptSeq
  <2> QED BY <1>2, <2>2
<1>6. \A k \in 1 .. n + 1 : frames'[k].node = frames[k].node /\ frames'[k].child = frames[k].child
  BY <1>2, <1>3, <1>5
<1>7. Nested(tree, frames')
  <2>1. frames'[1].node = Root /\ frames' # <<>>
    BY <1>1, <1>2, <1>5, <1>6, EmptySeq DEF Nested
  <2>2. ASSUME NEW k \in 1 .. Len(frames') - 1
        PROVE /\ Append(frames'[k].node, "NW") \in DOMAIN tree /\ frames'[k].child \in 1 .. 4
              /\ frames'[k + 1].node = ChildrenOf(frames'[k].node)[frames'[k].child]
    <3>1. k \in 1 .. n + 1 /\ k + 1 \in 1 .. n + 1 /\ k \in 1 .. Len(frames) - 1
      BY <1>2, <1>5
    <3> QED BY <1>1, <1>6, <3>1 DEF Nested
  <2> QED BY <2>1, <2>2 DEF Nested
<1>8. LeftClean(tree, Centre, frames')
  BY <1>1, <1>2, <1>5, <1>6 DEF LeftClean
<1>9. OwnOnly(tree, Centre, frames')
  <2>1. Ended(tree, frames'[n + 1]) /\ frames'[n + 1].result # <<>>
    BY <1>1, <1>2, <1>5 DEF Ended, Finished, Split
  <2> SUFFICES ASSUME NEW k \in 1 .. Len(frames'), k # n
               PROVE Collected(tree, Centre, frames'[k])
    BY <1>2, <1>5, <2>1 DEF OwnOnly
  <2>2. frames'[k] = frames[k] /\ Collected(tree, Centre, frames[k])
    BY <1>1, <1>2, <1>5 DEF OwnOnly
  <2> QED BY <2>2
<1> QED BY <1>1, <1>7, <1>8, <1>9, SameView

LEMMA SearchStep ==
  ASSUME TypeOK, Shape, SearchInv, [TreeNext]_treevars PROVE SearchInv'
<1>1. CASE UNCHANGED <<tree, i, frames, pc>>
  BY <1>1 DEF SearchInv, Centre, Root
<1>2. CASE pc' # "search"
  BY <1>2 DEF SearchInv
<1>3. \/ UNCHANGED <<tree, i, frames, pc>> \/ pc' # "search"
      \/ SearchAround \/ SearchChild \/ NothingFound \/ CopyAgain
  BY DEF TreeNext, treevars, Inserting, Searching, Insert, Outside, Store, Descend, Lose, StartLinking,
         SearchDone, FreeResult, LinkingDone, inserting, searching
<1> QED BY <1>1, <1>2, <1>3, SearchAroundKeeps, SearchChildKeeps, NothingFoundKeeps, CopyAgainKeeps

-----------------------------------------------------------------------------
LEMMA TreeInvAlways == TreeSpec => []TreeInv
<1>1. TreeInit => TreeInv
  BY TypeInit DEF TreeInv
<1>2. TreeInv /\ [TreeNext]_treevars => TreeInv'
  <2> SUFFICES ASSUME TreeInv, [TreeNext]_treevars PROVE TreeInv'
    OBVIOUS
  <2>1. TypeOK /\ Shape /\ Content /\ SearchInv
    BY DEF TreeInv
  <2>2. TypeOK'
    BY <2>1, TypeStep
  <2>3. Shape'
    BY <2>1, ShapeStep
  <2>4. Content'
    BY <2>1, ContentStep
  <2>5. SearchInv'
    BY <2>1, SearchStep
  <2> QED BY <2>2, <2>3, <2>4, <2>5 DEF TreeInv
<1> QED BY <1>1, <1>2, PTL DEF TreeSpec

(* When the outermost call returns, everything but the points of the root  *)
(* has been found out of range, and the root's are the first inserted.     *)
LEMMA SearchDoneExact == ASSUME TreeInv, SearchDone PROVE SearchExact'
<1> DEFINE own == tree[Root].points
           inBox(point) == InBox(Centre, 30 * Scale, point)
<1>1. /\ TypeOK /\ Shape /\ Content
      /\ Nested(tree, frames) /\ LeftClean(tree, Centre, frames) /\ OwnOnly(tree, Centre, frames)
      /\ Finished /\ Len(frames) = 1 /\ frames # <<>>
      /\ result' = Top.result /\ UNCHANGED <<tree, i, inserted>>
  BY DEF TreeInv, SearchInv, SearchDone, Nested, inserting
<1>2. Top = frames[1] /\ Top \in Call /\ Top.node = Root
  BY <1>1, TopFacts DEF Nested
<1>3. Collected(tree, Centre, frames[1])
  BY <1>1 DEF OwnOnly
<1>4. result' = Within(own, Centre, 30 * Scale)
  BY <1>1, <1>2, <1>3 DEF Collected
<1>5. ASSUME NEW m \in DOMAIN tree \ {Root}, NEW k \in 1 .. Len(tree[m].points)
      PROVE ~ inBox(tree[m].points[k])
  <2>1. Root \in DOMAIN tree /\ Below(Root, m)
    BY <1>1, RootAboveAll DEF Shape
  <2>2. PICK c \in 1 .. 4 : Below(ChildrenOf(Root)[c], m) /\ Split(Root)
    BY <1>1, <2>1, SubtreeFacts
  <2>3. Top.child = 5
    BY <1>1, <1>2, <2>2 DEF Finished, Call
  <2>4. Clean(tree, Centre, ChildrenOf(Root)[c])
    BY <1>1, <1>2, <2>3 DEF LeftClean
  <2> QED BY <2>2, <2>4 DEF Clean
<1>6. /\ own \in Seq(TreePoint) /\ Len(own) \in Nat /\ Len(inserted) \in Nat
      /\ Len(own) <= Len(inserted)
      /\ \A k \in 1 .. Len(own) : inserted[k] = own[k]
  BY <1>1, LenProperties DEF TypeOK, TreeNode, Shape, Content
<1>7. ASSUME NEW j \in Len(own) + 1 .. Len(inserted) PROVE ~ inBox(inserted[j])
  <2>1. PICK m \in DOMAIN tree \ {Root} : \E k \in 1 .. Len(tree[m].points) : tree[m].points[k] = inserted[j]
    BY <1>1 DEF Content
  <2> QED BY <1>5, <2>1
<1>8. Within(inserted, Centre, 30 * Scale) = Within(own, Centre, 30 * Scale)
  <2> HIDE DEF own
  <2> QED BY <1>6, <1>7, WithinPrefix
<1>9. Centre' = Centre
  BY <1>1 DEF Centre, Root
<1> QED BY <1>1, <1>4, <1>8, <1>9 DEF SearchExact

(* A search that comes back from a tree with nodes below the root has      *)
(* missed nothing and doubled nothing: it hands back the points in range   *)
(* in the order of insertion, whatever the capacity, the places and the    *)
(* number of points (quadTree.c:308-367).                                  *)
THEOREM SearchIsExact == TreeSpec => []SearchExact
<1>1. TreeInit => SearchExact
  BY DEF TreeInit, SearchExact
<1>2. TreeInv /\ SearchExact /\ [TreeNext]_treevars => SearchExact'
  <2> SUFFICES ASSUME TreeInv, SearchExact, [TreeNext]_treevars PROVE SearchExact'
    OBVIOUS
  <2>1. CASE SearchDone
    BY <2>1, SearchDoneExact
  <2>2. CASE UNCHANGED treevars
    BY <2>2 DEF treevars, inserting, searching, SearchExact, Centre, Root
  <2>3. CASE pc' # "found"
    BY <2>3 DEF SearchExact
  <2>4. SearchDone \/ UNCHANGED treevars \/ pc' # "found"
    BY DEF TreeNext, Inserting, Searching, Insert, Outside, Store, Descend, Lose, StartLinking,
           SearchAround, SearchChild, NothingFound, CopyAgain, FreeResult, LinkingDone, treevars
  <2> QED BY <2>1, <2>2, <2>3, <2>4
<1> QED BY <1>1, <1>2, TreeInvAlways, PTL DEF TreeSpec
-----------------------------------------------------------------------------
(* The box of a node is what subdivide gave it.                            *)
BoxInv ==
  /\ tree[Root].half = 1000 * Scale
  /\ tree[Root].centre = [lat |-> 0, lon |-> 0]
  /\ \A m \in DOMAIN tree : \A a \in QuadrantName : Append(m, a) \in DOMAIN tree =>
       /\ tree[Append(m, a)].half = Quarter(m, a).half
       /\ tree[Append(m, a)].centre = Quarter(m, a).centre

(* Where points are: a node and the place in its array. *)
Slots == {slot \in (DOMAIN tree) \X Nat : slot[2] \in 1 .. Len(tree[slot[1]].points)}

(* Every point inserted has one, and a node is divided when it is full.    *)
FillInv ==
  /\ IsFiniteSet(Slots) /\ Cardinality(Slots) = Len(inserted)
  /\ \A m \in DOMAIN tree : Split(m) => Len(tree[m].points) >= cap

(* The point is in the box of the node and in all those around it.         *)
Reached(m) == \A n \in DOMAIN tree : Below(n, m) => Covers(n, p)

(* An insertion has been at all such nodes, but for those still to try and *)
(* what is below them.                                                     *)
TriedInv ==
  pc = "insert" => \A m \in DOMAIN tree : Reached(m) =>
                     Split(m) \/ \E j \in 1 .. Len(todo) : Below(todo[j], m)

LostInv == p \in TreePoint /\ BoxInv /\ FillInv /\ TriedInv

(* What subdivide adds. *)
LEMMA NewNodes ==
  ASSUME TypeOK, Shape, NEW n \in DOMAIN tree, tree' = Subdivided(n),
         NEW m \in DOMAIN tree', m \notin DOMAIN tree
  PROVE  \E a \in QuadrantName : m = Append(n, a) /\ tree'[m] = Quarter(n, a)
<1>1. n \in Seq(QuadrantName) /\ ToSet(ChildrenOf(n)) = {Append(n, a) : a \in QuadrantName}
  BY ChildFacts DEF TypeOK
<1>2. /\ DOMAIN tree' = DOMAIN tree \cup ToSet(ChildrenOf(n))
      /\ tree' = [k \in DOMAIN tree \cup ToSet(ChildrenOf(n)) |->
                   IF k \in DOMAIN tree THEN tree[k] ELSE Quarter(n, Last(k))]
  BY DEF Subdivided
<1>3. PICK a \in QuadrantName : m = Append(n, a)
  BY <1>1, <1>2
<1>4. Last(m) = a
  <2>1. Len(m) = Len(n) + 1 /\ m[Len(n) + 1] = a
    BY <1>1, <1>3, AppendProperties
  <2> QED BY <2>1 DEF Last
<1>5. tree'[m] = Quarter(n, Last(m))
  BY <1>2
<1> QED BY <1>3, <1>4, <1>5

(* A node hangs from a node. *)
LEMMA ParentIn ==
  ASSUME TypeOK, Shape, NEW m \in Seq(QuadrantName), NEW a \in QuadrantName, Append(m, a) \in DOMAIN tree
  PROVE  m \in DOMAIN tree
<1>1. Append(m, a) \in Seq(QuadrantName) /\ Len(Append(m, a)) = Len(m) + 1 /\ Len(m) \in Nat
  BY AppendProperties, LenProperties
<1>2. SubSeq(Append(m, a), 1, Len(m)) = m
  <2>1. SubSeq(Append(m, a), 1, Len(m)) = SubSeq(m, 1, Len(m))
    BY <1>1, AppendProperties
  <2> QED BY <1>1, <2>1, SubSeqFull
<1>3. Len(m) \in 0 .. Len(Append(m, a))
  BY <1>1
<1> QED BY <1>2, <1>3 DEF Shape

LEMMA BoxStep ==
  ASSUME TypeOK, Shape, BoxInv, [TreeNext]_treevars PROVE BoxInv'
<1>1. CASE Store
  <2>1. DOMAIN tree' = DOMAIN tree /\ Head(todo) \in DOMAIN tree
    BY <1>1, HeadTailProperties DEF Store, TypeOK
  <2>2. \A m \in DOMAIN tree : tree'[m].half = tree[m].half /\ tree'[m].centre = tree[m].centre
    BY <1>1, <2>1 DEF Store, TypeOK, TreeNode
  <2>3. \A m \in DOMAIN tree, a \in QuadrantName : Quarter(m, a)' = Quarter(m, a)
    BY <2>2 DEF Quarter, Node
  <2> QED BY <2>1, <2>2, <2>3 DEF BoxInv, Root, Shape
<1>2. CASE Descend
  <2> DEFINE n == Head(todo)
  <2>1. n \in DOMAIN tree /\ tree' = Subdivided(n)
    BY <1>2, HeadTailProperties DEF Descend, TypeOK
  <2>2. /\ DOMAIN tree' \subseteq Seq(QuadrantName) /\ DOMAIN tree \subseteq DOMAIN tree'
        /\ \A m \in DOMAIN tree : tree'[m] = tree[m]
    BY <2>1, SubdividedFacts
  <2>3. \A m \in DOMAIN tree, a \in QuadrantName : Quarter(m, a)' = Quarter(m, a)
    BY <2>2 DEF Quarter
  <2>4. ASSUME NEW m \in DOMAIN tree', NEW a \in QuadrantName, Append(m, a) \in DOMAIN tree'
        PROVE /\ tree'[Append(m, a)].half = Quarter(m, a)'.half
              /\ tree'[Append(m, a)].centre = Quarter(m, a)'.centre
    <3>1. m \in Seq(QuadrantName)
      BY <2>2
    <3>2. CASE Append(m, a) \in DOMAIN tree
      <4>1. m \in DOMAIN tree
        BY <3>1, <3>2, ParentIn
      <4> QED BY <2>2, <2>3, <3>2, <4>1 DEF BoxInv
    <3>3. CASE Append(m, a) \notin DOMAIN tree
      <4>1. PICK b \in QuadrantName : Append(m, a) = Append(n, b) /\ tree'[Append(m, a)] = Quarter(n, b)
        BY <2>1, <2>4, <3>3, NewNodes
      <4>2. m = n /\ a = b
        <5>1. n \in Seq(QuadrantName)
          BY <2>1 DEF TypeOK
        <5> QED BY <3>1, <4>1, <5>1, AppendInjective
      <4> QED BY <2>1, <2>3, <4>1, <4>2
    <3> QED BY <3>2, <3>3
  <2> QED BY <2>2, <2>4 DEF BoxInv, Root, Shape
<1>3. CASE UNCHANGED tree
  BY <1>3 DEF BoxInv, Root, Quarter
<1>4. Store \/ Descend \/ UNCHANGED tree
  BY DEF TreeNext, treevars, Inserting, Searching, Insert, Outside, Lose, StartLinking, SearchAround,
         SearchChild, NothingFound, CopyAgain, SearchDone, FreeResult, LinkingDone, inserting, searching
<1> QED BY <1>1, <1>2, <1>3, <1>4

(* A point that is stored takes one slot more, and a node that is divided  *)
(* was full or divided before.                                             *)
LEMMA FillStep ==
  ASSUME TypeOK, Shape, FillInv, [TreeNext]_treevars PROVE FillInv'
<1>0. cap \in Nat /\ \A m \in DOMAIN tree : tree[m].points \in Seq(TreePoint) /\ Len(tree[m].points) \in Nat
  BY LenProperties DEF TypeOK, TreeNode
<1>1. CASE Store
  <2> DEFINE h == Head(todo)
             next == <<h, Len(tree[h].points) + 1>>
  <2>1. h \in DOMAIN tree /\ Room(h) /\ p \in TreePoint /\ inserted \in Seq(TreePoint)
    BY <1>1, HeadTailProperties DEF Store, TypeOK
  <2>2. /\ DOMAIN tree' = DOMAIN tree /\ cap' = cap
        /\ tree'[h].points = Append(tree[h].points, p)
        /\ \A m \in DOMAIN tree \ {h} : tree'[m] = tree[m]
        /\ inserted' = Append(inserted, p)
    BY <1>1, <2>1 DEF Store, TypeOK, TreeNode
  <2>3. Len(tree'[h].points) = Len(tree[h].points) + 1 /\ Len(inserted') = Len(inserted) + 1
    BY <1>0, <2>1, <2>2, AppendProperties
  <2>4. Slots' = Slots \cup {next}
    <3>1. ASSUME NEW slot \in (DOMAIN tree) \X Nat
          PROVE slot[2] \in 1 .. Len(tree'[slot[1]].points)
                  <=> slot[2] \in 1 .. Len(tree[slot[1]].points) \/ slot = next
      <4>1. CASE slot[1] = h
        <5>1. slot = <<h, slot[2]>>
          BY <4>1
        <5>2. slot = next <=> slot[2] = Len(tree[h].points) + 1
          BY <5>1
        <5> QED BY <1>0, <2>1, <2>3, <4>1, <5>2
      <4>2. CASE slot[1] # h
        BY <2>2, <4>2
      <4> QED BY <4>1, <4>2
    <3>2. next \in (DOMAIN tree) \X Nat
      BY <1>0, <2>1
    <3> HIDE DEF next
    <3> QED BY <2>2, <3>1, <3>2 DEF Slots
  <2>5. next \notin Slots
    <3>1. ~ (Len(tree[h].points) + 1 \in 1 .. Len(tree[h].points))
      BY <1>0, <2>1
    <3> QED BY <3>1 DEF Slots
  <2>6. IsFiniteSet(Slots') /\ Cardinality(Slots') = Len(inserted')
    <3> HIDE DEF next
    <3> QED BY <2>3, <2>4, <2>5, FS_AddElement DEF FillInv
  <2>7. ASSUME NEW m \in DOMAIN tree', Split(m)' PROVE Len(tree'[m].points) >= cap'
    <3>1. Split(m)
      BY <2>2, <2>7 DEF Split
    <3>2. Len(tree[m].points) >= cap /\ m # h
      BY <2>1, <2>2, <3>1 DEF FillInv, Room
    <3> QED BY <2>2, <3>2
  <2> QED BY <2>6, <2>7 DEF FillInv
<1>2. CASE Descend
  <2> DEFINE n == Head(todo)
  <2>1. n \in DOMAIN tree /\ tree' = Subdivided(n) /\ ~ Room(n) /\ cap' = cap /\ inserted' = inserted
    BY <1>2, HeadTailProperties DEF Descend, TypeOK
  <2>2. /\ DOMAIN tree' \subseteq Seq(QuadrantName) /\ DOMAIN tree \subseteq DOMAIN tree'
        /\ \A m \in DOMAIN tree : tree'[m] = tree[m]
    BY <2>1, SubdividedFacts
  <2>3. \A m \in DOMAIN tree' \ DOMAIN tree : tree'[m].points = <<>>
    <3> SUFFICES ASSUME NEW m \in DOMAIN tree' \ DOMAIN tree PROVE tree'[m].points = <<>>
      OBVIOUS
    <3>1. PICK a \in QuadrantName : tree'[m] = Quarter(n, a)
      BY <2>1, NewNodes
    <3>2. Quarter(n, a).points = <<>>
      BY DEF Quarter, Node
    <3> QED BY <3>1, <3>2
  <2>4. Slots' = Slots
    <3>1. ASSUME NEW slot \in Slots' PROVE slot \in Slots
      <4>1. slot[1] \in DOMAIN tree
        BY <2>3 DEF Slots
      <4> QED BY <2>2, <4>1 DEF Slots
    <3>2. ASSUME NEW slot \in Slots PROVE slot \in Slots'
      BY <2>2 DEF Slots
    <3> QED BY <3>1, <3>2
  <2>5. ASSUME NEW m \in DOMAIN tree', Split(m)' PROVE Len(tree'[m].points) >= cap
    <3>1. m \in Seq(QuadrantName) /\ n \in Seq(QuadrantName) /\ "NW" \in QuadrantName
      BY <2>1, <2>2 DEF TypeOK, QuadrantName
    <3>2. CASE Append(m, "NW") \in DOMAIN tree
      <4>1. m \in DOMAIN tree
        BY <3>1, <3>2, ParentIn
      <4> QED BY <2>2, <3>2, <4>1 DEF FillInv, Split
    <3>3. CASE Append(m, "NW") \notin DOMAIN tree
      <4>1. PICK b \in QuadrantName : Append(m, "NW") = Append(n, b)
        BY <2>1, <2>5, <3>3, NewNodes DEF Split
      <4>2. m = n /\ ~ Split(n)
        BY <3>1, <3>3, <4>1, AppendInjective DEF Split
      <4> QED BY <1>0, <2>1, <2>2, <4>2 DEF Room
    <3> QED BY <3>2, <3>3
  <2> QED BY <2>1, <2>4, <2>5 DEF FillInv
<1>3. CASE UNCHANGED <<tree, cap, inserted>>
  BY <1>3 DEF FillInv, Slots, Split
<1>4. Store \/ Descend \/ UNCHANGED <<tree, cap, inserted>>
  BY DEF TreeNext, treevars, Inserting, Searching, Insert, Outside, Lose, StartLinking, SearchAround,
         SearchChild, NothingFound, CopyAgain, SearchDone, FreeResult, LinkingDone, inserting, searching
<1> QED BY <1>1, <1>2, <1>3, <1>4

(* Each turn of an insertion takes one node off the list, for good or to   *)
(* put its children there instead.                                         *)
LEMMA TriedStep ==
  ASSUME TypeOK, Shape, TriedInv, [TreeNext]_treevars PROVE TriedInv'
<1>0. /\ todo \in Seq(DOMAIN tree) /\ Len(todo) \in Nat
      /\ \A j \in 1 .. Len(todo) : todo[j] \in DOMAIN tree
  BY LenProperties, ElementOfSeq DEF TypeOK
<1>1. ASSUME NEW place \in Place, Insert(place) PROVE TriedInv'
  <2>1. todo' = <<Root>> /\ tree' = tree /\ Root' = Root
    BY <1>1 DEF Insert, Root
  <2>2. Len(todo') = 1 /\ todo'[1] = Root
    BY <2>1
  <2>3. \A m \in DOMAIN tree : Below(todo'[1], m)
    BY <2>2, RootAboveAll
  <2> QED BY <2>1, <2>2, <2>3 DEF TriedInv
<1>2. CASE Outside
  <2>1. /\ todo' = Tail(todo) /\ tree' = tree /\ p' = p /\ pc = "insert" /\ todo # <<>>
        /\ ~ Covers(todo[1], p)
    BY <1>2 DEF Outside
  <2>2. Len(todo) >= 1 /\ Len(todo') = Len(todo) - 1 /\ \A j \in 1 .. Len(todo) - 1 : todo'[j] = todo[j + 1]
    BY <1>0, <2>1, HeadTailProperties
  <2>3. ASSUME NEW m \in DOMAIN tree, Reached(m)
        PROVE Split(m) \/ \E j \in 1 .. Len(todo') : Below(todo'[j], m)
    <3>1. CASE Split(m)
      BY <3>1
    <3>2. CASE ~ Split(m)
      <4>1. PICK j \in 1 .. Len(todo) : Below(todo[j], m)
        BY <2>1, <2>3, <3>2 DEF TriedInv
      <4>2. j # 1
        BY <1>0, <2>1, <2>3, <4>1 DEF Reached
      <4>3. j - 1 \in 1 .. Len(todo') /\ j - 1 + 1 = j
        BY <1>0, <2>2, <4>2
      <4>4. todo'[j - 1] = todo[j]
        BY <2>2, <4>3
      <4> QED BY <4>1, <4>3, <4>4
    <3> QED BY <3>1, <3>2
  <2>4. \A m : Reached(m)' = Reached(m) /\ Split(m)' = Split(m)
    BY <2>1 DEF Reached, Covers, Split
  <2> QED BY <2>1, <2>3, <2>4 DEF TriedInv
<1>3. CASE Descend
  <2> DEFINE h == Head(todo)
             rest == Tail(todo)
             children == ChildrenOf(h)
  <2>1. /\ h \in DOMAIN tree /\ h = todo[1] /\ tree' = Subdivided(h) /\ p' = p /\ pc = "insert" /\ todo # <<>>
        /\ todo' = children \o rest
    BY <1>0, <1>3, HeadTailProperties DEF Descend
  <2>2. /\ DOMAIN tree' \subseteq Seq(QuadrantName) /\ DOMAIN tree \subseteq DOMAIN tree'
        /\ \A m \in DOMAIN tree : tree'[m] = tree[m]
        /\ \A c \in 1 .. 4 : children[c] \in DOMAIN tree'
    BY <2>1, SubdividedFacts
  <2>3. h \in Seq(QuadrantName)
    BY <2>1 DEF TypeOK
  <2>4. /\ Len(children) = 4 /\ children \in Seq(Seq(QuadrantName))
        /\ rest \in Seq(DOMAIN tree) /\ Len(rest) = Len(todo) - 1 /\ Len(todo) >= 1
        /\ \A j \in 1 .. Len(todo) - 1 : rest[j] = todo[j + 1]
    <3>1. Len(children) = 4
      BY <2>3, ChildFacts
    <3>2. children \in Seq(Seq(QuadrantName))
      <4>1. children \in [1 .. 4 -> Seq(QuadrantName)]
        BY <2>3, ChildFacts DEF ChildrenOf
      <4> DEFINE S == Seq(QuadrantName)
      <4> HIDE DEF S, children
      <4>2. 4 \in Nat /\ children \in [1 .. 4 -> S]
        BY <4>1 DEF S
      <4>3. children \in UNION {[1 .. n -> S] : n \in Nat}
        BY <4>2
      <4>4. children \in Seq(S)
        BY <4>3, SeqDef
      <4> QED BY <4>4 DEF S
    <3> QED BY <1>0, <2>1, <3>1, <3>2, HeadTailProperties
  <2>5. /\ Len(todo') = 3 + Len(todo)
        /\ \A c \in 1 .. 4 : todo'[c] = children[c]
        /\ \A j \in 2 .. Len(todo) : todo'[j + 3] = todo[j]
    <3>1. rest \in Seq(Seq(QuadrantName))
      BY <2>4, SeqMonotonic DEF TypeOK
    <3> HIDE DEF rest, children
    <3>2. /\ Len(todo') = Len(children) + Len(rest)
          /\ \A j \in 1 .. Len(children) + Len(rest) :
               todo'[j] = IF j <= Len(children) THEN children[j] ELSE rest[j - Len(children)]
      BY <2>1, <2>4, <3>1, ConcatProperties
    <3>3. ASSUME NEW j \in 2 .. Len(todo) PROVE todo'[j + 3] = todo[j]
      <4>1. /\ j + 3 \in 1 .. Len(children) + Len(rest) /\ ~ (j + 3 <= Len(children))
            /\ j + 3 - Len(children) = j - 1 /\ j - 1 \in 1 .. Len(todo) - 1 /\ j - 1 + 1 = j
        BY <1>0, <2>4
      <4>2. todo'[j + 3] = rest[j - 1]
        BY <3>2, <4>1
      <4>3. rest[j - 1] = todo[j]
        BY <2>4, <4>1
      <4> QED BY <4>2, <4>3
    <3> QED BY <1>0, <2>4, <3>2, <3>3
  <2>6. ASSUME NEW m \in DOMAIN tree', Reached(m)'
        PROVE Split(m)' \/ \E j \in 1 .. Len(todo') : Below(todo'[j], m)
    <3>1. CASE m \notin DOMAIN tree
      <4>1. PICK a \in QuadrantName : m = Append(h, a)
        BY <2>1, <3>1, NewNodes
      <4>2. PICK c \in 1 .. 4 : children[c] = m
        <5>1. PICK c \in 1 .. 4 : Quadrants[c] = a
          BY <2>3, ChildFacts
        <5>2. children[c] = Append(h, Quadrants[c])
          BY <2>3, ChildFacts
        <5> QED BY <4>1, <5>1, <5>2
      <4>3. Below(m, m)
        BY <2>2, LenProperties DEF Below
      <4>4. c \in 1 .. Len(todo')
        BY <1>0, <2>4, <2>5
      <4> QED BY <2>5, <4>2, <4>3, <4>4
    <3>2. CASE m \in DOMAIN tree
      <4>1. Reached(m)
        BY <2>1, <2>2, <2>6 DEF Reached, Covers
      <4>2. CASE Split(m)
        BY <2>2, <4>2 DEF Split
      <4>3. CASE ~ Split(m)
        <5>1. PICK j \in 1 .. Len(todo) : Below(todo[j], m)
          BY <2>1, <3>2, <4>1, <4>3 DEF TriedInv
        <5>2. CASE j = 1 /\ m = h
          <6>1. children[1] = Append(h, "NW") /\ 1 \in 1 .. 4
            BY DEF ChildrenOf, Quadrants
          <6>2. children[1] \in DOMAIN tree'
            BY <2>2, <6>1
          <6> QED BY <5>2, <6>1, <6>2 DEF Split
        <5>3. CASE j = 1 /\ m # h
          <6>1. PICK c \in 1 .. 4 : Below(children[c], m)
            BY <2>1, <3>2, <5>1, <5>3, SubtreeFacts
          <6>2. c \in 1 .. Len(todo')
            BY <1>0, <2>4, <2>5
          <6> QED BY <2>5, <6>1, <6>2
        <5>4. CASE j # 1
          <6>1. j \in 2 .. Len(todo) /\ j + 3 \in 1 .. Len(todo')
            BY <1>0, <2>5, <5>4
          <6> QED BY <2>5, <5>1, <6>1
        <5> QED BY <5>2, <5>3, <5>4
      <4> QED BY <4>2, <4>3
    <3> QED BY <3>1, <3>2
  <2> QED BY <2>6 DEF TriedInv
<1>4. CASE pc' # "insert"
  BY <1>4 DEF TriedInv
<1>5. CASE UNCHANGED <<tree, todo, p, pc>>
  BY <1>5 DEF TriedInv, Reached, Covers, Split
<1>6. \/ \E place \in Place : Insert(place)
      \/ Outside \/ Descend \/ pc' # "insert" \/ UNCHANGED <<tree, todo, p, pc>>
  BY DEF TreeNext, treevars, Inserting, Searching, Store, Lose, StartLinking, SearchAround,
         SearchChild, NothingFound, CopyAgain, SearchDone, FreeResult, LinkingDone, inserting, searching
<1> QED BY <1>1, <1>2, <1>3, <1>4, <1>5, <1>6

-----------------------------------------------------------------------------
(* When nothing is left to try, every node reached has been divided.       *)
Tried == \A m \in DOMAIN tree : Reached(m) => Split(m)

OnGrid == p.at.lat \in Int /\ p.at.lon \in Int

(* From a node that was reached to its children whose boxes hold the point. *)
LEMMA ReachedChild ==
  ASSUME TypeOK, Shape, NEW m \in DOMAIN tree, Reached(m), Split(m),
         NEW a \in QuadrantName, Covers(Append(m, a), p)
  PROVE  Append(m, a) \in DOMAIN tree /\ Reached(Append(m, a))
<1> DEFINE c == Append(m, a)
<1>1. m \in Seq(QuadrantName) /\ c \in DOMAIN tree
  BY DEF TypeOK, Shape, Split, QuadrantName
<1>2. /\ c \in Seq(QuadrantName) /\ Len(c) = Len(m) + 1 /\ Len(m) \in Nat
      /\ \A k \in 1 .. Len(m) : c[k] = m[k]
  BY <1>1, AppendProperties, LenProperties
<1>3. ASSUME NEW n \in DOMAIN tree, Below(n, c) PROVE Covers(n, p)
  <2>1. n \in Seq(QuadrantName) /\ Len(n) \in Nat
    BY LenProperties DEF TypeOK
  <2>2. CASE Len(n) <= Len(m)
    <3>1. Below(n, m)
      BY <1>2, <1>3, <2>1, <2>2 DEF Below
    <3> QED BY <3>1 DEF Reached
  <2>3. CASE ~ (Len(n) <= Len(m))
    <3>1. Len(n) = Len(c) /\ \A k \in 1 .. Len(n) : n[k] = c[k]
      BY <1>2, <1>3, <2>1, <2>3 DEF Below
    <3>2. n = c
      <4> HIDE DEF c
      <4> QED BY <1>2, <2>1, <3>1, SeqEqual
    <3> QED BY <3>2
  <2> QED BY <2>2, <2>3
<1> QED BY <1>1, <1>3 DEF Reached

(* A node in the column along latitude 0: its box begins at 0 both ways    *)
(* and ends at east; the point has come to it.                             *)
West(m, half, east) ==
  /\ m \in DOMAIN tree /\ Reached(m)
  /\ tree[m].half = half /\ tree[m].centre.lat = half /\ tree[m].centre.lon + half = east

(* The western quarters have a common latitude: the northern one goes as   *)
(* far as the whole, the southern one falls half a box short of it.        *)
LEMMA WestQuarters ==
  ASSUME TypeOK, Shape, BoxInv, Tried, OnGrid, NEW m, NEW g \in Nat, NEW east \in Int,
         West(m, 2 * g, east), p.at.lat \in 0 .. 2 * g, p.at.lon \in 0 .. east
  PROVE  /\ West(Append(m, "NW"), g, east)
         /\ p.at.lon <= east - 2 * g => West(Append(m, "SW"), g, east - 2 * g)
<1> DEFINE box == tree[m]
<1>1. m \in DOMAIN tree /\ Split(m) /\ box.half = 2 * g /\ box.centre.lat = 2 * g /\ box.centre.lon \in Int
      /\ box.centre.lon + 2 * g = east
  BY DEF West, Tried, TypeOK, TreeNode
<1>2. box.half \div 2 = g
  BY <1>1
<1>3. \A a \in QuadrantName : Append(m, a) \in DOMAIN tree
  BY <1>1 DEF Shape, Split, QuadrantName
<1>4. /\ Quarter(m, "NW").half = g
      /\ Quarter(m, "NW").centre.lat = box.centre.lat - g /\ Quarter(m, "NW").centre.lon = box.centre.lon + g
      /\ Quarter(m, "SW").half = g
      /\ Quarter(m, "SW").centre.lat = box.centre.lat - g /\ Quarter(m, "SW").centre.lon = box.centre.lon - g
  BY <1>2 DEF Quarter, Node
<1>5. \A a \in {"NW", "SW"} :
        /\ a \in QuadrantName /\ Append(m, a) \in DOMAIN tree
        /\ tree[Append(m, a)].half = Quarter(m, a).half
        /\ tree[Append(m, a)].centre = Quarter(m, a).centre
  BY <1>1, <1>3 DEF BoxInv, QuadrantName
<1>6. /\ tree[Append(m, "NW")].half = g /\ tree[Append(m, "NW")].centre.lat = g
      /\ tree[Append(m, "NW")].centre.lon + g = east
  <2>1. /\ tree[Append(m, "NW")].half = Quarter(m, "NW").half
        /\ tree[Append(m, "NW")].centre = Quarter(m, "NW").centre
    BY <1>5
  <2>2. /\ tree[Append(m, "NW")].centre.lat = 2 * g - g
        /\ tree[Append(m, "NW")].centre.lon = box.centre.lon + g
    BY <1>1, <1>4, <2>1
  <2> QED BY <1>1, <1>4, <2>1, <2>2
<1>7. /\ tree[Append(m, "SW")].half = g /\ tree[Append(m, "SW")].centre.lat = g
      /\ tree[Append(m, "SW")].centre.lon + g = east - 2 * g
  <2>1. /\ tree[Append(m, "SW")].half = Quarter(m, "SW").half
        /\ tree[Append(m, "SW")].centre = Quarter(m, "SW").centre
    BY <1>5
  <2>2. /\ tree[Append(m, "SW")].centre.lat = 2 * g - g
        /\ tree[Append(m, "SW")].centre.lon = box.centre.lon - g
    BY <1>1, <1>4, <2>1
  <2>3. tree[Append(m, "SW")].half = g
    BY <1>4, <2>1
  <2>4. \A lon \in Int : lon + 2 * g = east => lon - g + g = east - 2 * g
    OBVIOUS
  <2>5. box.centre.lon - g + g = east - 2 * g
    BY <1>1, <2>4
  <2>6. 2 * g - g = g
    OBVIOUS
  <2> QED BY <2>2, <2>3, <2>5, <2>6
<1>8. West(Append(m, "NW"), g, east)
  <2>1. Covers(Append(m, "NW"), p)
    BY <1>1, <1>6 DEF Covers, InBox, OnGrid
  <2> QED BY <1>1, <1>5, <1>6, <2>1, ReachedChild DEF West
<1>9. ASSUME p.at.lon <= east - 2 * g PROVE West(Append(m, "SW"), g, east - 2 * g)
  <2>1. Covers(Append(m, "SW"), p)
    BY <1>1, <1>7, <1>9 DEF Covers, InBox, OnGrid
  <2> QED BY <1>1, <1>5, <1>7, <2>1, ReachedChild DEF West
<1> QED BY <1>8, <1>9

(* The other way north from such a node: its box begins half a box east.   *)
LEMMA EastQuarter ==
  ASSUME TypeOK, Shape, BoxInv, Tried, OnGrid, NEW m, NEW g \in Nat, NEW east \in Int,
         West(m, 2 * g, east), p.at.lat \in 2 * g .. 4 * g, p.at.lon \in 2 * g .. east
  PROVE  Append(m, "NE") \in DOMAIN tree /\ Reached(Append(m, "NE"))
<1> DEFINE box == tree[m]
<1>1. m \in DOMAIN tree /\ Reached(m) /\ Split(m) /\ box.half = 2 * g /\ box.centre.lat = 2 * g
      /\ box.centre.lon \in Int /\ box.centre.lon + 2 * g = east
  BY DEF West, Tried, TypeOK, TreeNode
<1>2. box.half \div 2 = g
  BY <1>1
<1>3. /\ Quarter(m, "NE").half = g
      /\ Quarter(m, "NE").centre.lat = box.centre.lat + g /\ Quarter(m, "NE").centre.lon = box.centre.lon + g
  BY <1>2 DEF Quarter, Node
<1>4. "NE" \in QuadrantName /\ Append(m, "NE") \in DOMAIN tree
  BY <1>1 DEF Shape, Split, QuadrantName
<1>5. /\ tree[Append(m, "NE")].half = Quarter(m, "NE").half
      /\ tree[Append(m, "NE")].centre = Quarter(m, "NE").centre
  BY <1>1, <1>4 DEF BoxInv
<1>6. Covers(Append(m, "NE"), p)
  BY <1>1, <1>3, <1>5 DEF Covers, InBox, OnGrid
<1> QED BY <1>1, <1>4, <1>6, ReachedChild

(* The way to that column. *)
LEMMA RootQuarter ==
  ASSUME TypeOK, Shape, BoxInv, Tried, OnGrid, NEW g \in Nat, 1000 * Scale = 2 * g,
         p.at.lat \in 0 .. 2 * g, p.at.lon \in 0 .. 2 * g
  PROVE  Root \in DOMAIN tree /\ Reached(Root) /\ West(Append(Root, "NE"), g, 2 * g)
<1>1. /\ Root \in DOMAIN tree /\ tree[Root].half = 2 * g
      /\ tree[Root].centre.lat = 0 /\ tree[Root].centre.lon = 0
  BY DEF Shape, BoxInv
<1>2. Reached(Root)
  <2>1. ASSUME NEW n \in DOMAIN tree, Below(n, Root) PROVE n = Root
    <3>1. n \in Seq(QuadrantName) /\ Len(n) \in Nat /\ Len(Root) = 0
      BY LenProperties DEF TypeOK, Root
    <3>2. Len(n) = 0
      BY <2>1, <3>1 DEF Below
    <3> QED BY <3>1, <3>2, EmptySeq DEF Root
  <2>2. Covers(Root, p)
    BY <1>1 DEF Covers, InBox, OnGrid
  <2> QED BY <2>1, <2>2 DEF Reached
<1>3. Split(Root) /\ tree[Root].half \div 2 = g
  BY <1>1, <1>2 DEF Tried
<1>4. Quarter(Root, "NE").half = g /\ Quarter(Root, "NE").centre.lat = g /\ Quarter(Root, "NE").centre.lon = g
  BY <1>1, <1>3 DEF Quarter, Node
<1>5. "NE" \in QuadrantName /\ Append(Root, "NE") \in DOMAIN tree
  BY <1>1, <1>3 DEF Shape, Split, QuadrantName
<1>6. /\ tree[Append(Root, "NE")].half = g
      /\ tree[Append(Root, "NE")].centre.lat = g /\ tree[Append(Root, "NE")].centre.lon = g
  BY <1>1, <1>4, <1>5 DEF BoxInv
<1>7. Covers(Append(Root, "NE"), p)
  BY <1>6 DEF Covers, InBox, OnGrid
<1> QED BY <1>1, <1>2, <1>3, <1>5, <1>6, <1>7, ReachedChild DEF West

-----------------------------------------------------------------------------
(* So many names, of one length or below a length. *)
Names(S, length, count) ==
  /\ IsFiniteSet(S) /\ Cardinality(S) = count
  /\ \A n \in S : n \in Seq(QuadrantName) /\ Len(n) = length

ShorterNames(S, length, count) ==
  /\ IsFiniteSet(S) /\ Cardinality(S) = count
  /\ \A n \in S : n \in Seq(QuadrantName) /\ Len(n) < length

(* Children of one kind are as many as their parents. *)
LEMMA ChildNames ==
  ASSUME NEW length \in Nat, NEW count \in Nat, NEW S, Names(S, length, count), NEW a \in QuadrantName,
         NEW T, T = {Append(n, a) : n \in S}
  PROVE  Names(T, length + 1, count)
<1> DEFINE f == [n \in S |-> Append(n, a)]
<1>1. f \in [S -> T] /\ \A t \in T : \E n \in S : f[n] = t
  OBVIOUS
<1>2. \A n, m \in S : f[n] = f[m] => n = m
  BY AppendInjective DEF Names
<1>3. f \in Bijection(S, T)
  <2> HIDE DEF f
  <2> QED BY <1>1, <1>2, Fun_IsBij
<1>4. ExistsBijection(S, T)
  BY <1>3 DEF ExistsBijection
<1>5. IsFiniteSet(T) /\ Cardinality(T) = count
  BY <1>4, FS_Bijection DEF Names
<1>6. ASSUME NEW n \in S PROVE Append(n, a) \in Seq(QuadrantName) /\ Len(Append(n, a)) = length + 1
  BY AppendProperties DEF Names
<1> QED BY <1>5, <1>6 DEF Names

LEMMA BothChildren ==
  ASSUME NEW length \in Nat, NEW count \in Nat, NEW more \in Nat,
         NEW S, Names(S, length, count), NEW T, Names(T, length, more),
         NEW U, U = {Append(n, "NW") : n \in S} \cup {Append(n, "SW") : n \in T}
  PROVE  Names(U, length + 1, count + more)
<1> DEFINE north == {Append(n, "NW") : n \in S}
           south == {Append(n, "SW") : n \in T}
<1>0. "NW" \in QuadrantName /\ "SW" \in QuadrantName /\ "NW" # "SW"
  BY DEF QuadrantName
<1>1. north \cap south = {}
  BY <1>0, AppendInjective DEF Names
<1>2. Names(north, length + 1, count) /\ Names(south, length + 1, more)
  BY <1>0, ChildNames
<1>3. U = north \cup south
  OBVIOUS
<1> HIDE DEF north, south
<1>4. IsFiniteSet(U) /\ Cardinality(U) = count + more - Cardinality(north \cap south)
  BY <1>2, <1>3, FS_Union DEF Names
<1>5. Cardinality(north \cap south) = 0
  BY <1>1, FS_EmptySet
<1> QED BY <1>2, <1>3, <1>4, <1>5 DEF Names

(* Longer names come on top. *)
LEMMA LongerNames ==
  ASSUME NEW length \in Nat, NEW count \in Nat, NEW more \in Nat,
         NEW S, ShorterNames(S, length, count), NEW T, Names(T, length, more)
  PROVE  ShorterNames(S \cup T, length + 1, count + more)
<1>1. S \cap T = {}
  BY DEF Names, ShorterNames
<1>2. ASSUME NEW n \in S \cup T PROVE n \in Seq(QuadrantName) /\ Len(n) < length + 1
  <2>1. n \in Seq(QuadrantName) /\ Len(n) \in Nat /\ (Len(n) < length \/ Len(n) = length)
    BY LenProperties DEF Names, ShorterNames
  <2> QED BY <2>1
<1>3. /\ IsFiniteSet(S \cup T)
      /\ Cardinality(S \cup T) = count + more - Cardinality(S \cap T)
  BY FS_Union DEF Names, ShorterNames
<1>4. Cardinality(S \cap T) = 0
  BY <1>1, FS_EmptySet
<1> QED BY <1>2, <1>3, <1>4 DEF ShorterNames

LEMMA OneName == ASSUME NEW n \in Seq(QuadrantName) PROVE Names({n}, Len(n), 1)
<1>1. IsFiniteSet({n}) /\ Cardinality({n}) = 1
  BY FS_Singleton
<1> QED BY <1>1 DEF Names
-----------------------------------------------------------------------------
(* The ways along the column. *)
West1 == Append(Root, "NE")
West2 == {Append(n, "NW") : n \in {West1}} \cup {Append(n, "SW") : n \in {West1}}
West3 == {Append(n, "NW") : n \in West2} \cup {Append(n, "SW") : n \in West2}
North(n) == Append(n, "NW")
South(n) == Append(n, "SW")

(* Three halvings on, all of the column is reached by every point of the   *)
(* earth, in seven nodes besides the root, of which the last four reach    *)
(* 250 degrees east at least, and all but one of them 500.                 *)
LEMMA ColumnReached ==
  ASSUME TypeOK, Shape, BoxInv, Tried, OnEarth(p.at), NEW u \in Nat, Scale = 4 * u
  PROVE  /\ Root \in DOMAIN tree /\ Reached(Root)
         /\ West1 \in DOMAIN tree /\ Reached(West1)
         /\ \A n \in West2 : n \in DOMAIN tree /\ Reached(n)
         /\ West(North(North(West1)), 500 * u, 4000 * u)
         /\ West(South(North(West1)), 500 * u, 3000 * u)
         /\ West(North(South(West1)), 500 * u, 2000 * u)
         /\ West(South(South(West1)), 500 * u, 1000 * u)
<1> USE DEF North, South
<1>1. OnGrid /\ p.at.lat \in 0 .. 360 * u /\ p.at.lon \in 0 .. 720 * u
  <2>1. p.at.lat \in 0 .. 90 * (4 * u) /\ p.at.lon \in 0 .. 180 * (4 * u)
    BY DEF OnEarth
  <2> QED BY <2>1 DEF OnGrid
<1>2. \A k \in {500, 1000, 2000, 3000, 4000} :
        /\ k * u \in Nat
        /\ p.at.lat \in 0 .. k * u /\ (k >= 1000 => p.at.lon \in 0 .. k * u)
  BY <1>1
<1>3. 2000 * u \in Nat /\ 1000 * Scale = 2 * (2000 * u) /\ 2 * (2000 * u) = 4000 * u
  OBVIOUS
<1>4. Root \in DOMAIN tree /\ Reached(Root) /\ West(West1, 2000 * u, 4000 * u)
  BY <1>1, <1>2, <1>3, RootQuarter DEF West1
<1>5. West(North(West1), 1000 * u, 4000 * u) /\ West(South(West1), 1000 * u, 2000 * u)
  <2>1. 1000 * u \in Nat /\ 2 * (1000 * u) = 2000 * u /\ 4000 * u \in Int /\ 4000 * u - 2000 * u = 2000 * u
    OBVIOUS
  <2>2. /\ West(West1, 2 * (1000 * u), 4000 * u)
        /\ p.at.lat \in 0 .. 2 * (1000 * u) /\ p.at.lon \in 0 .. 4000 * u
        /\ p.at.lon <= 4000 * u - 2 * (1000 * u)
    BY <1>1, <1>2, <1>4, <2>1 DEF OnGrid
  <2> QED BY <1>1, <2>1, <2>2, WestQuarters
<1>6. West(North(North(West1)), 500 * u, 4000 * u) /\ West(South(North(West1)), 500 * u, 3000 * u)
  <2>1. 500 * u \in Nat /\ 2 * (500 * u) = 1000 * u /\ 4000 * u \in Int /\ 4000 * u - 1000 * u = 3000 * u
    OBVIOUS
  <2>2. /\ West(North(West1), 2 * (500 * u), 4000 * u)
        /\ p.at.lat \in 0 .. 2 * (500 * u) /\ p.at.lon \in 0 .. 4000 * u
        /\ p.at.lon <= 4000 * u - 2 * (500 * u)
    BY <1>1, <1>2, <1>5, <2>1 DEF OnGrid
  <2> QED BY <1>1, <2>1, <2>2, WestQuarters
<1>7. West(North(South(West1)), 500 * u, 2000 * u) /\ West(South(South(West1)), 500 * u, 1000 * u)
  <2>1. 500 * u \in Nat /\ 2 * (500 * u) = 1000 * u /\ 2000 * u \in Int /\ 2000 * u - 1000 * u = 1000 * u
    OBVIOUS
  <2>2. /\ West(South(West1), 2 * (500 * u), 2000 * u)
        /\ p.at.lat \in 0 .. 2 * (500 * u) /\ p.at.lon \in 0 .. 2000 * u
        /\ p.at.lon <= 2000 * u - 2 * (500 * u)
    BY <1>1, <1>2, <1>5, <2>1 DEF OnGrid
  <2> QED BY <1>1, <2>1, <2>2, WestQuarters
<1>8. West1 \in DOMAIN tree /\ Reached(West1) /\ \A n \in West2 : n \in DOMAIN tree /\ Reached(n)
  <2>1. West2 = {North(West1), South(West1)}
    BY DEF West2
  <2>2. /\ West1 \in DOMAIN tree /\ Reached(West1)
        /\ North(West1) \in DOMAIN tree /\ Reached(North(West1))
        /\ South(West1) \in DOMAIN tree /\ Reached(South(West1))
    BY <1>4, <1>5 DEF West
  <2> QED BY <2>1, <2>2
<1> QED BY <1>4, <1>6, <1>7, <1>8

(* The fourth halving: the southernmost of the eight boxes ends at 125     *)
(* degrees east.  Where it does not hold the point, one of the quarters of *)
(* the northernmost does, according to the latitude.                       *)
LEMMA FourthReached ==
  ASSUME TypeOK, Shape, BoxInv, Tried, OnEarth(p.at), NEW u \in Nat, Scale = 4 * u
  PROVE  /\ \A n \in West3 : n \in DOMAIN tree /\ Reached(n)
         /\ \A n \in West3 : North(n) \in DOMAIN tree /\ Reached(North(n))
         /\ \A n \in West3 : n # South(South(West1)) => South(n) \in DOMAIN tree /\ Reached(South(n))
         /\ LET last == South(South(South(West1)))
                first == North(North(North(West1)))
            IN  \/ last \in DOMAIN tree /\ Reached(last)
                \/ \E a \in QuadrantName : Append(first, a) \in DOMAIN tree /\ Reached(Append(first, a))
<1>1. OnGrid /\ p.at.lat \in 0 .. 360 * u /\ p.at.lon \in 0 .. 720 * u
  <2>1. p.at.lat \in 0 .. 90 * (4 * u) /\ p.at.lon \in 0 .. 180 * (4 * u)
    BY DEF OnEarth
  <2> QED BY <2>1 DEF OnGrid
<1>2. /\ West(North(North(West1)), 500 * u, 4000 * u)
      /\ West(South(North(West1)), 500 * u, 3000 * u)
      /\ West(North(South(West1)), 500 * u, 2000 * u)
      /\ West(South(South(West1)), 500 * u, 1000 * u)
  BY ColumnReached
<1>3. \A n \in West3 : n \in {North(North(West1)), South(North(West1)), North(South(West1)), South(South(West1))}
  BY DEF West3, West2, North, South
<1>4. ASSUME NEW n, NEW east \in Int, West(n, 500 * u, east), 1000 * u <= east
      PROVE  /\ West(North(n), 250 * u, east)
             /\ p.at.lon <= east - 500 * u => West(South(n), 250 * u, east - 500 * u)
  <2>1. 250 * u \in Nat /\ 2 * (250 * u) = 500 * u /\ east - 2 * (250 * u) = east - 500 * u
    OBVIOUS
  <2>2. p.at.lat \in 0 .. 2 * (250 * u) /\ p.at.lon \in 0 .. east
    BY <1>1, <1>4 DEF OnGrid
  <2>3. West(n, 2 * (250 * u), east)
    BY <1>4, <2>1
  <2>4. /\ West(Append(n, "NW"), 250 * u, east)
        /\ p.at.lon <= east - 2 * (250 * u) => West(Append(n, "SW"), 250 * u, east - 2 * (250 * u))
    BY <1>1, <2>1, <2>2, <2>3, WestQuarters
  <2> QED BY <2>1, <2>4 DEF North, South
<1>5. ASSUME NEW n \in West3
      PROVE  /\ n \in DOMAIN tree /\ Reached(n) /\ North(n) \in DOMAIN tree /\ Reached(North(n))
             /\ n # South(South(West1)) => South(n) \in DOMAIN tree /\ Reached(South(n))
  <2>1. PICK east \in Int : /\ West(n, 500 * u, east) /\ 1000 * u <= east
                            /\ n # South(South(West1)) => 2000 * u <= east
    <3>1. 1000 * u \in Int /\ 2000 * u \in Int /\ 3000 * u \in Int /\ 4000 * u \in Int
          /\ 1000 * u <= 2000 * u /\ 2000 * u <= 3000 * u /\ 1000 * u <= 3000 * u
          /\ 2000 * u <= 4000 * u /\ 1000 * u <= 4000 * u /\ 1000 * u <= 1000 * u /\ 2000 * u <= 2000 * u
      OBVIOUS
    <3> QED BY <1>2, <1>3, <3>1
  <2>2. n # South(South(West1)) => p.at.lon <= east - 500 * u
    BY <1>1, <2>1 DEF OnGrid
  <2> QED BY <1>4, <2>1, <2>2 DEF West
<1>6. CASE p.at.lon <= 500 * u
  <2>1. 1000 * u \in Int /\ 1000 * u - 500 * u = 500 * u
    OBVIOUS
  <2>2. West(South(South(South(West1))), 250 * u, 500 * u)
    BY <1>2, <1>4, <1>6, <2>1
  <2> QED BY <1>5, <2>2 DEF West
<1>7. CASE p.at.lon > 500 * u
  <2> DEFINE first == North(North(North(West1)))
             g == 125 * u
  <2>1. West(first, 2 * g, 4000 * u) /\ g \in Nat /\ 4000 * u \in Int
    <3>1. 4000 * u \in Int /\ 1000 * u <= 4000 * u /\ 2 * g = 250 * u
      OBVIOUS
    <3> QED BY <1>2, <1>4, <3>1
  <2>2. p.at.lon \in 0 .. 4000 * u /\ p.at.lon \in 2 * g .. 4000 * u
    BY <1>1, <1>7 DEF OnGrid
  <2>3. p.at.lat \in 0 .. 2 * g \/ p.at.lat \in 2 * g .. 4 * g
    BY <1>1 DEF OnGrid
  <2> HIDE DEF first, g
  <2>4. CASE p.at.lat \in 0 .. 2 * g
    <3>1. West(Append(first, "NW"), g, 4000 * u)
      BY <1>1, <2>1, <2>2, <2>4, WestQuarters
    <3>2. "NW" \in QuadrantName /\ Append(first, "NW") \in DOMAIN tree /\ Reached(Append(first, "NW"))
      BY <3>1 DEF West, QuadrantName
    <3> QED BY <1>5, <3>2 DEF first
  <2>5. CASE p.at.lat \in 2 * g .. 4 * g
    <3>1. Append(first, "NE") \in DOMAIN tree /\ Reached(Append(first, "NE"))
      BY <1>1, <2>1, <2>2, <2>5, EastQuarter
    <3>2. "NE" \in QuadrantName
      BY DEF QuadrantName
    <3> QED BY <1>5, <3>1, <3>2 DEF first
  <2> QED BY <2>3, <2>4, <2>5
<1> QED BY <1>1, <1>5, <1>6, <1>7 DEF OnGrid

(* One, one, two, four and eight, or seven and one of the next. *)
LEMMA SixteenReached ==
  ASSUME TypeOK, Shape, BoxInv, Tried, OnEarth(p.at)
  PROVE  \E nodes \in SUBSET DOMAIN tree : /\ IsFiniteSet(nodes) /\ Cardinality(nodes) = 16
                                           /\ \A n \in nodes : Reached(n)
<1>1. PICK u \in Nat : Scale = 4 * u
  <2>1. Scale \div 4 \in Nat /\ Scale = 4 * (Scale \div 4)
    BY TreeAssumption, HalvingAssumption
  <2> QED BY <2>1
<1> DEFINE S1 == {West1}
           lastOf3 == South(South(West1))
           last == South(lastOf3)
           first == North(North(North(West1)))
           four(T) == {Append(n, "NW") : n \in West3} \cup {Append(n, "SW") : n \in T}
<1>2. /\ Root \in Seq(QuadrantName) /\ Len(Root) = 0
      /\ West1 \in Seq(QuadrantName) /\ Len(West1) = 1
  <2>1. Root \in Seq(QuadrantName) /\ Len(Root) = 0 /\ "NE" \in QuadrantName
    BY EmptySeq DEF Root, QuadrantName
  <2> QED BY <2>1, AppendProperties DEF West1
<1>3. Names(S1, 1, 1)
  BY <1>2, OneName
<1>4. Names(West2, 1 + 1, 1 + 1)
  <2>1. West2 = {Append(n, "NW") : n \in S1} \cup {Append(n, "SW") : n \in S1}
    BY DEF West2
  <2> HIDE DEF S1
  <2> QED BY <1>3, <2>1, BothChildren
<1>5. Names(West2, 2, 2) /\ Names(West3, 3, 4)
  <2>1. Names(West2, 2, 2)
    BY <1>4
  <2>2. Names(West3, 2 + 1, 2 + 2)
    BY <2>1, BothChildren DEF West3
  <2> QED BY <2>1, <2>2
<1> DEFINE S2 == {Root} \cup S1
           S4 == S2 \cup West2
           S8 == S4 \cup West3
<1>6. ShorterNames(S8, 4, 8)
  <2>1. ShorterNames({Root}, 1, 1)
    <3>1. Names({Root}, Len(Root), 1)
      BY <1>2, OneName
    <3> QED BY <1>2, <3>1 DEF Names, ShorterNames
  <2>2. ShorterNames(S2, 1 + 1, 1 + 1)
    <3> HIDE DEF S1
    <3> QED BY <1>3, <2>1, LongerNames
  <2> HIDE DEF S2
  <2>3. ShorterNames(S2, 2, 2)
    BY <2>2
  <2>4. ShorterNames(S4, 2 + 1, 2 + 2)
    BY <1>5, <2>3, LongerNames
  <2> HIDE DEF S4
  <2>5. ShorterNames(S4, 3, 4)
    BY <2>4
  <2>6. ShorterNames(S8, 3 + 1, 4 + 4)
    BY <1>5, <2>5, LongerNames
  <2> HIDE DEF S8
  <2> QED BY <2>6
<1>7. \A n \in S8 : n \in DOMAIN tree /\ Reached(n)
  BY <1>1, ColumnReached, FourthReached
<1>8. lastOf3 \in West3
  BY DEF West3, West2, South
<1> HIDE DEF S8, S1
<1>9. CASE last \in DOMAIN tree /\ Reached(last)
  <2> DEFINE U == four(West3)
  <2>1. Names(U, 3 + 1, 4 + 4)
    BY <1>5, BothChildren
  <2>2. \A n \in U : n \in DOMAIN tree /\ Reached(n)
    BY <1>1, <1>9, FourthReached DEF North, South
  <2> HIDE DEF U
  <2>3. IsFiniteSet(S8 \cup U) /\ Cardinality(S8 \cup U) = 16
    <3>1. Names(U, 4, 8)
      BY <2>1
    <3>2. ShorterNames(S8 \cup U, 4 + 1, 8 + 8)
      BY <1>6, <3>1, LongerNames
    <3> QED BY <3>2 DEF ShorterNames
  <2>4. S8 \cup U \in SUBSET DOMAIN tree /\ \A n \in S8 \cup U : Reached(n)
    BY <1>7, <2>2
  <2> QED BY <2>3, <2>4
<1>10. CASE \E a \in QuadrantName : Append(first, a) \in DOMAIN tree /\ Reached(Append(first, a))
  <2>1. PICK a \in QuadrantName : Append(first, a) \in DOMAIN tree /\ Reached(Append(first, a))
    BY <1>10
  <2> DEFINE T == West3 \ {lastOf3}
             U == four(T)
             next == Append(first, a)
             V == {next}
             S15 == S8 \cup U
  <2>2. Names(T, 3, 3)
    BY <1>5, <1>8, FS_RemoveElement DEF Names
  <2>3. \A n \in U : n \in DOMAIN tree /\ Reached(n)
    BY <1>1, FourthReached DEF North, South
  <2>4. first \in U
    BY DEF North, South, West3, West2
  <2>5. Names(U, 4, 7)
    <3>1. Names(U, 3 + 1, 4 + 3)
      <4> HIDE DEF T
      <4> QED BY <1>5, <2>2, BothChildren
    <3> HIDE DEF U
    <3> QED BY <3>1
  <2> HIDE DEF U, first
  <2>6. ShorterNames(S15, 5, 15)
    <3>1. ShorterNames(S15, 4 + 1, 8 + 7)
      BY <1>6, <2>5, LongerNames
    <3> HIDE DEF S15
    <3> QED BY <3>1
  <2>7. Names(V, 5, 1)
    <3>1. first \in Seq(QuadrantName) /\ Len(first) = 4
      BY <2>4, <2>5 DEF Names
    <3>2. next \in Seq(QuadrantName) /\ Len(next) = Len(first) + 1
      BY <2>1, <3>1, AppendProperties
    <3> HIDE DEF next
    <3>3. Names(V, Len(next), 1)
      BY <3>2, OneName
    <3>4. Len(next) = 5
      BY <3>1, <3>2
    <3> QED BY <3>3, <3>4
  <2>8. S15 \cup V \in SUBSET DOMAIN tree /\ \A n \in S15 \cup V : Reached(n)
    BY <1>7, <2>1, <2>3
  <2> HIDE DEF S15, V
  <2>9. IsFiniteSet(S15 \cup V) /\ Cardinality(S15 \cup V) = 16
    <3>1. ShorterNames(S15 \cup V, 5 + 1, 15 + 1)
      BY <2>6, <2>7, LongerNames
    <3> QED BY <3>1 DEF ShorterNames
  <2> QED BY <2>8, <2>9
<1> QED BY <1>1, <1>9, <1>10, FourthReached
-----------------------------------------------------------------------------
(* Sixteen full nodes take sixteen times their capacity.                   *)
LEMMA LostLate ==
  ASSUME TypeOK, Shape, BoxInv, FillInv, TriedInv, Lose, OnEarth(p.at)
  PROVE  Len(inserted) >= 16 * cap
<1>1. Tried
  <2>1. pc = "insert" /\ Len(todo) = 0
    BY DEF Lose
  <2> QED BY <2>1 DEF Tried, TriedInv
<1>2. PICK nodes \in SUBSET DOMAIN tree : /\ IsFiniteSet(nodes) /\ Cardinality(nodes) = 16
                                          /\ \A n \in nodes : Reached(n)
  BY <1>1, SixteenReached
<1>3. cap \in Nat /\ \A n \in nodes : Len(tree[n].points) >= cap /\ Len(tree[n].points) \in Nat
  BY <1>1, <1>2, LenProperties DEF Tried, FillInv, TypeOK, TreeNode
<1>4. IsFiniteSet(nodes \X (1 .. cap)) /\ Cardinality(nodes \X (1 .. cap)) = 16 * cap
  <2>1. IsFiniteSet(1 .. cap) /\ Cardinality(1 .. cap) = cap
    BY <1>3, FS_Interval
  <2> QED BY <1>2, <2>1, FS_Product
<1>5. nodes \X (1 .. cap) \subseteq Slots
  BY <1>2, <1>3 DEF Slots
<1>6. Cardinality(nodes \X (1 .. cap)) <= Cardinality(Slots) /\ Cardinality(Slots) = Len(inserted)
  BY <1>5, FS_Subset DEF FillInv
<1> QED BY <1>4, <1>6

LEMMA LostInvAlways == TreeSpec => []LostInv
<1>1. TreeInit => LostInv
  <2> SUFFICES ASSUME TreeInit PROVE LostInv
    OBVIOUS
  <2>1. TypeOK /\ DOMAIN tree = {Root} /\ tree[Root] = Node(0, 0, 1000 * Scale) /\ Len(inserted) = 0
        /\ Root \in Seq(QuadrantName) /\ Len(Root) = 0
    BY TypeInit, EmptySeq DEF TreeInit, Root
  <2>2. \A a \in QuadrantName : Append(Root, a) \notin DOMAIN tree
    BY <2>1, AppendProperties DEF Root
  <2>3. BoxInv
    BY <2>1, <2>2 DEF BoxInv, Node
  <2>4. FillInv
    <3>1. Slots = {}
      BY <2>1 DEF Slots, Node
    <3>2. ~ Split(Root)
      BY <2>2 DEF Split, QuadrantName
    <3> QED BY <2>1, <3>1, <3>2, FS_EmptySet DEF FillInv
  <2> QED BY <2>1, <2>3, <2>4 DEF LostInv, TypeOK, TriedInv, TreeInit
<1>2. TreeInv /\ TreeInv' /\ LostInv /\ [TreeNext]_treevars => LostInv'
  BY BoxStep, FillStep, TriedStep DEF TreeInv, LostInv, TypeOK
<1> QED BY <1>1, <1>2, TreeInvAlways, PTL DEF TreeSpec

(* A point of the earth that no quarter takes was refused by sixteen full  *)
(* nodes at least, whatever the capacity and wherever the others are       *)
(* (quadTree.c:127, 256-305).                                              *)
THEOREM PointsAreLostLate == TreeSpec => []NoneLostEarly
<1>1. TreeInit => NoneLostEarly
  BY DEF TreeInit, NoneLostEarly
<1>2. TreeInv /\ LostInv /\ NoneLostEarly /\ [TreeNext]_treevars => NoneLostEarly'
  <2> SUFFICES ASSUME TreeInv, LostInv, NoneLostEarly, [TreeNext]_treevars PROVE NoneLostEarly'
    OBVIOUS
  <2>1. CASE Lose
    <3>1. lost' = lost \cup {p} /\ inserted' = inserted /\ cap' = cap
      BY <2>1 DEF Lose
    <3>2. OnEarth(p.at) => Len(inserted) >= 16 * cap
      BY <2>1, LostLate DEF TreeInv, LostInv
    <3> QED BY <3>1, <3>2 DEF NoneLostEarly, OnEarth
  <2>2. CASE Store
    <3>1. lost' = lost /\ cap' = cap /\ inserted' = Append(inserted, p)
      BY <2>2 DEF Store
    <3>2. Len(inserted') = Len(inserted) + 1 /\ Len(inserted) \in Nat /\ cap \in Nat
      BY <3>1, AppendProperties, LenProperties DEF TreeInv, TypeOK
    <3> QED BY <3>1, <3>2 DEF NoneLostEarly, OnEarth
  <2>3. CASE UNCHANGED <<lost, inserted, cap>>
    BY <2>3 DEF NoneLostEarly, OnEarth
  <2>4. Lose \/ Store \/ UNCHANGED <<lost, inserted, cap>>
    BY DEF TreeNext, treevars, Inserting, Searching, Insert, Outside, Descend, StartLinking, SearchAround,
           SearchChild, NothingFound, CopyAgain, SearchDone, FreeResult, LinkingDone, inserting, searching
  <2> QED BY <2>1, <2>2, <2>3, <2>4
<1> QED BY <1>1, <1>2, TreeInvAlways, LostInvAlways, PTL DEF TreeSpec
=============================================================================
