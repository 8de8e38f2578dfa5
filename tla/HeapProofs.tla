----------------------------- MODULE HeapProofs -----------------------------
(***************************************************************************)
(* Facts about the arrays of priority-queue.c and the operators that make  *)
(* its whole calls, for any set of items with integer priorities and any   *)
(* length: what a swap of the loops does to the order and the contents,    *)
(* and what a call leaves of them.                                         *)
(***************************************************************************)
EXTENDS HeapOps, TLAPS, NaturalsInduction, WellFoundedInduction, FiniteSetTheorems

(* An array of n items whose priorities are integers. *)
IsArray(d, n) ==
  /\ n \in Nat
  /\ DOMAIN d = 0 .. n - 1
  /\ \A k \in 0 .. n - 1 : d[k].priority \in Int

(* The index arithmetic of priority-queue.c:23-36: a parent lies before    *)
(* its child, and the children of an index are the two indices it names.   *)
LEMMA ParentFacts ==
  ASSUME NEW i \in Nat \ {0}
  PROVE  /\ Parent(i) \in Nat
         /\ Parent(i) < i
         /\ i = Left(Parent(i)) \/ i = Right(Parent(i))
BY DEF Parent, Left, Right

(* The children of an index have it as their parent. *)
LEMMA ChildFacts ==
  ASSUME NEW i \in Nat
  PROVE  /\ Left(i) \in Nat \ {0} /\ Right(i) \in Nat \ {0}
         /\ Left(i) = 2 * i + 1 /\ Right(i) = 2 * i + 2
         /\ Parent(Left(i)) = i
         /\ Parent(Right(i)) = i
BY DEF Parent, Left, Right

(* Where the parents of an array of n items are. *)
LEMMA Parents ==
  ASSUME NEW n \in Nat
  PROVE  \A k \in 1 .. n - 1 : /\ Parent(k) \in 0 .. n - 1
                               /\ Parent(k) < k
                               /\ k \in {Left(Parent(k)), Right(Parent(k))}
BY ParentFacts

(* The comparison of both queue types is a strict total preorder. *)
LEMMA BeforeFacts ==
  ASSUME NEW t, NEW p \in Int, NEW q \in Int, NEW r \in Int
  PROVE  /\ ~ Before(t, p, p)
         /\ Before(t, p, q) => ~ Before(t, q, p)
         /\ ~ Before(t, p, q) /\ ~ Before(t, q, r) => ~ Before(t, p, r)
BY DEF Before
-----------------------------------------------------------------------------
(***************************************************************************)
(* The heap order, with an item on its way up or down.                     *)
(***************************************************************************)

InOrder(t, d, a, b) == ~ Before(t, d[b].priority, d[a].priority)

(* Every item but those of the gap is in order with its parent. *)
InOrderBut(t, d, n, gap) == \A k \in 1 .. n - 1 : k \notin gap => InOrder(t, d, Parent(k), k)

(* The item on its way does not separate its children from its parent. *)
AcrossGap(t, d, n, i) ==
  i > 0 => \A k \in 1 .. n - 1 : Parent(k) = i => InOrder(t, d, Parent(i), k)

Rising(t, d, n, i)  == i \in 0 .. n - 1 /\ InOrderBut(t, d, n, {i}) /\ AcrossGap(t, d, n, i)
Sinking(t, d, n, i) == /\ i \in Nat
                       /\ i < n \/ i = 0
                       /\ InOrderBut(t, d, n, {Left(i), Right(i)})
                       /\ AcrossGap(t, d, n, i)
IsHeap(t, d, n)     == InOrderBut(t, d, n, {})

(* pqueue_enqueue stores at the end and disturbs no pair but the new one. *)
LEMMA ExtendedRises ==
  ASSUME NEW t, NEW d, NEW n \in Nat, NEW x, IsHeap(t, d, n)
  PROVE  Rising(t, Extended(d, n, x), n + 1, n)
<1> DEFINE e == Extended(d, n, x)
<1>1. \A k \in 0 .. n - 1 : e[k] = d[k]
  BY DEF Extended
<1> HIDE DEF e
<1>2. \A k \in 1 .. n : Parent(k) \in 0 .. n - 1
  BY ParentFacts
<1>3. InOrderBut(t, e, n + 1, {n})
  <2> SUFFICES ASSUME NEW k \in 1 .. n, k # n PROVE InOrder(t, e, Parent(k), k)
    BY DEF InOrderBut
  <2> QED BY <1>1, <1>2 DEF IsHeap, InOrderBut, InOrder
<1>4. AcrossGap(t, e, n + 1, n)
  BY <1>2 DEF AcrossGap
<1> QED BY <1>3, <1>4 DEF Rising, e

(* pqueue_dequeue moves the last item to the root: only pairs below the    *)
(* root can now be out of order.                                           *)
LEMMA ShrunkSinks ==
  ASSUME NEW t, NEW d, NEW n \in Nat \ {0}, IsHeap(t, d, n)
  PROVE  Sinking(t, Shrunk(d, n), n - 1, 0)
<1> DEFINE e == Shrunk(d, n)
<1>1. \A k \in 1 .. n - 2 : e[k] = d[k]
  BY DEF Shrunk
<1> HIDE DEF e
<1>2. InOrderBut(t, e, n - 1, {Left(0), Right(0)})
  <2> SUFFICES ASSUME NEW k \in 1 .. n - 2, k \notin {Left(0), Right(0)} PROVE InOrder(t, e, Parent(k), k)
    BY DEF InOrderBut
  <2>1. Parent(k) \in 1 .. n - 2
    BY ParentFacts
  <2> QED BY <1>1, <2>1 DEF IsHeap, InOrderBut, InOrder
<1> QED BY <1>2 DEF Sinking, AcrossGap, e

(* One swap of the loop that bubbles up moves the gap to the parent. *)
LEMMA SwapRises ==
  ASSUME NEW t, NEW d, NEW n, IsArray(d, n), NEW i, Rising(t, d, n, i), i > 0,
         Before(t, d[i].priority, d[Parent(i)].priority)
  PROVE  Rising(t, Swap(d, i, Parent(i)), n, Parent(i))
<1> DEFINE par == Parent(i)
           e == Swap(d, i, par)
<1>1. /\ n \in Nat /\ DOMAIN d = 0 .. n - 1
      /\ i \in 1 .. n - 1 /\ par \in 0 .. n - 1 /\ par < i
      /\ \A k \in 0 .. n - 1 : d[k].priority \in Int
  BY ParentFacts DEF Rising, IsArray
<1>2. /\ e[par] = d[i] /\ e[i] = d[par]
      /\ \A k \in 0 .. n - 1 : k # par /\ k # i => e[k] = d[k]
  BY <1>1 DEF Swap
<1> HIDE DEF e
<1>3. \A k \in 1 .. n - 1 : /\ Parent(k) \in 0 .. n - 1
                            /\ Parent(k) < k
                            /\ k # i => InOrder(t, d, Parent(k), k)
  BY <1>1, Parents DEF Rising, InOrderBut
<1>4. \A k \in 1 .. n - 1 : Parent(k) = i => InOrder(t, d, par, k)
  BY <1>1 DEF Rising, AcrossGap
<1>5. Before(t, d[i].priority, d[par].priority)
  OBVIOUS
<1> HIDE DEF par
<1>6. InOrderBut(t, e, n, {par})
  <2> SUFFICES ASSUME NEW k \in 1 .. n - 1, k # par PROVE InOrder(t, e, Parent(k), k)
    BY DEF InOrderBut
  <2>1. CASE k = i
    BY <2>1, <1>1, <1>2, <1>5 DEF InOrder, Before, par
  <2>2. CASE k # i /\ Parent(k) = par
    BY <2>2, <1>1, <1>2, <1>3, <1>5 DEF InOrder, Before
  <2>3. CASE k # i /\ Parent(k) = i
    BY <2>3, <1>1, <1>2, <1>3, <1>4 DEF InOrder, Before
  <2>4. CASE k # i /\ Parent(k) # par /\ Parent(k) # i
    BY <2>4, <1>1, <1>2, <1>3 DEF InOrder
  <2> QED BY <2>1, <2>2, <2>3, <2>4
<1>7. AcrossGap(t, e, n, par)
  <2> SUFFICES ASSUME par > 0, NEW k \in 1 .. n - 1, Parent(k) = par
               PROVE  InOrder(t, e, Parent(par), k)
    BY DEF AcrossGap
  <2>1. /\ Parent(par) \in 0 .. n - 1 /\ Parent(par) # par /\ Parent(par) # i
        /\ InOrder(t, d, Parent(par), par) /\ k # par
    BY <1>1, <1>3
  <2>2. CASE k = i
    BY <2>1, <2>2, <1>1, <1>2 DEF InOrder
  <2>3. CASE k # i
    <3>1. InOrder(t, d, par, k)
      BY <2>1, <2>3, <1>1, <1>3
    <3>2. e[k] = d[k] /\ e[Parent(par)] = d[Parent(par)]
      BY <2>1, <2>3, <1>1, <1>2
    <3> QED BY <2>1, <3>1, <3>2, <1>1 DEF InOrder, Before
  <2> QED BY <2>2, <2>3
<1> QED BY <1>1, <1>6, <1>7 DEF Rising, par, e

(* An item that does not precede its parent has arrived. *)
LEMMA RisenIsHeap ==
  ASSUME NEW t, NEW d, NEW n, NEW i, Rising(t, d, n, i), n \in Nat,
         i > 0 => ~ Before(t, d[i].priority, d[Parent(i)].priority)
  PROVE  IsHeap(t, d, n)
BY DEF Rising, IsHeap, InOrderBut, InOrder

(* The child an item with two children changes places with. *)
FavouriteOf(t, d, i) ==
  IF Before(t, d[Left(i)].priority, d[Right(i)].priority) THEN Left(i) ELSE Right(i)

(* Neither child precedes the item, or is as good as it. *)
BeforeBoth(t, d, i) ==
  /\ Before(t, d[i].priority, d[Left(i)].priority)
  /\ Before(t, d[i].priority, d[Right(i)].priority)

(* One swap of the loop that bubbles down moves the gap to a child, which  *)
(* precedes or equals the item it is swapped with and its sibling.         *)
LEMMA SwapSinks ==
  ASSUME NEW t, NEW d, NEW n, IsArray(d, n), NEW i, Sinking(t, d, n, i),
         Right(i) < n, ~ BeforeBoth(t, d, i)
  PROVE  /\ FavouriteOf(t, d, i) \in 0 .. n - 1
         /\ i < FavouriteOf(t, d, i)
         /\ Sinking(t, Swap(d, i, FavouriteOf(t, d, i)), n, FavouriteOf(t, d, i))
<1> DEFINE fav == FavouriteOf(t, d, i)
           e == Swap(d, i, fav)
<1>1. /\ n \in Nat /\ DOMAIN d = 0 .. n - 1
      /\ \A k \in 0 .. n - 1 : d[k].priority \in Int
      /\ i \in Nat /\ Left(i) = 2 * i + 1 /\ Right(i) = 2 * i + 2
      /\ i \in 0 .. n - 1 /\ Left(i) \in 1 .. n - 1 /\ Right(i) \in 1 .. n - 1
      /\ Parent(Left(i)) = i /\ Parent(Right(i)) = i
  BY ChildFacts DEF Sinking, IsArray
<1>2. fav \in {Left(i), Right(i)}
  BY DEF FavouriteOf
<1>3. /\ d[i].priority \in Int /\ d[Left(i)].priority \in Int /\ d[Right(i)].priority \in Int
  BY <1>1
<1>4. InOrder(t, d, fav, i) /\ \A k \in {Left(i), Right(i)} : InOrder(t, d, fav, k)
  <2>1. CASE Before(t, d[Left(i)].priority, d[Right(i)].priority)
    BY <1>3, <2>1 DEF FavouriteOf, BeforeBoth, InOrder, Before
  <2>2. CASE ~ Before(t, d[Left(i)].priority, d[Right(i)].priority)
    BY <1>3, <2>2 DEF FavouriteOf, BeforeBoth, InOrder, Before
  <2> QED BY <2>1, <2>2
<1> HIDE DEF fav
<1>5. fav \in 1 .. n - 1 /\ i < fav /\ Parent(fav) = i
  BY <1>1, <1>2
<1>6. /\ e[fav] = d[i] /\ e[i] = d[fav]
      /\ \A k \in 0 .. n - 1 : k # fav /\ k # i => e[k] = d[k]
  <2>1. fav \in 0 .. n - 1
    BY <1>1, <1>5
    <2> QED BY <1>1, <2>1 DEF Swap
<1> HIDE DEF e
<1>7. \A k \in 1 .. n - 1 : /\ Parent(k) \in 0 .. n - 1
                            /\ Parent(k) < k
                            /\ k \in {Left(Parent(k)), Right(Parent(k))}
                            /\ k \notin {Left(i), Right(i)} => InOrder(t, d, Parent(k), k)
  BY <1>1, Parents DEF Sinking, InOrderBut
<1>8. i > 0 => InOrder(t, d, Parent(i), fav)
  BY <1>5 DEF Sinking, AcrossGap
<1>9. InOrderBut(t, e, n, {Left(fav), Right(fav)})
  <2> SUFFICES ASSUME NEW k \in 1 .. n - 1, k \notin {Left(fav), Right(fav)}
               PROVE  InOrder(t, e, Parent(k), k)
    BY DEF InOrderBut
  <2>0. Parent(k) # fav
    BY <1>7
  <2>1. CASE k = fav
    BY <2>1, <1>4, <1>5, <1>6 DEF InOrder
  <2>2. CASE k # fav /\ Parent(k) = i
    <3>1. InOrder(t, d, fav, k) /\ e[k] = d[k]
      BY <2>2, <1>1, <1>4, <1>6, <1>7
    <3> QED BY <2>2, <3>1, <1>6 DEF InOrder
  <2>3. CASE k = i
    <3>1. e[Parent(i)] = d[Parent(i)]
      BY <2>3, <1>5, <1>6, <1>7
    <3> QED BY <2>3, <3>1, <1>1, <1>6, <1>8 DEF InOrder
  <2>4. CASE k # fav /\ k # i /\ Parent(k) # i
    <3>1. e[k] = d[k] /\ e[Parent(k)] = d[Parent(k)]
      BY <2>0, <2>4, <1>6, <1>7
    <3>2. k \notin {Left(i), Right(i)}
      BY <2>4, <1>1
    <3> QED BY <3>1, <3>2, <1>7 DEF InOrder
  <2> QED BY <2>1, <2>2, <2>3, <2>4
<1>10. AcrossGap(t, e, n, fav)
  <2> SUFFICES ASSUME NEW k \in 1 .. n - 1, Parent(k) = fav PROVE InOrder(t, e, Parent(fav), k)
    BY DEF AcrossGap
  <2>1. k # fav /\ k # i /\ k \notin {Left(i), Right(i)}
    BY <1>1, <1>5, <1>7
  <2>2. InOrder(t, d, fav, k)
    BY <2>1, <1>7
  <2>3. e[k] = d[k] /\ e[Parent(fav)] = d[fav]
    BY <2>1, <1>1, <1>5, <1>6
  <2> QED BY <2>2, <2>3 DEF InOrder
<1>11. fav \in Nat /\ fav < n
  BY <1>1, <1>5
<1> QED BY <1>5, <1>9, <1>10, <1>11 DEF Sinking, fav, e

(* The last step down, past an only child, closes the gap. *)
LEMMA OnlyChildIsHeap ==
  ASSUME NEW t, NEW d, NEW n, IsArray(d, n), NEW i, Sinking(t, d, n, i),
         Left(i) < n, Right(i) >= n
  PROVE  /\ Left(i) \in 0 .. n - 1 /\ i \in 0 .. n - 1
         /\ IsHeap(t, IF Before(t, d[Left(i)].priority, d[i].priority) THEN Swap(d, i, Left(i)) ELSE d, n)
<1> DEFINE l == Left(i)
           e == Swap(d, i, l)
<1>1. /\ n \in Nat /\ DOMAIN d = 0 .. n - 1
      /\ \A k \in 0 .. n - 1 : d[k].priority \in Int
      /\ i \in Nat /\ l = 2 * i + 1 /\ Right(i) = 2 * i + 2
      /\ l = n - 1 /\ i \in 0 .. n - 1 /\ l \in 1 .. n - 1 /\ i < l /\ Parent(l) = i
  <2>1. /\ n \in Nat /\ DOMAIN d = 0 .. n - 1 /\ i \in Nat
        /\ \A k \in 0 .. n - 1 : d[k].priority \in Int
    BY DEF Sinking, IsArray
  <2>2. l = 2 * i + 1 /\ Right(i) = 2 * i + 2 /\ Parent(l) = i
    BY <2>1, ChildFacts
  <2>3. l < n /\ Right(i) >= n
    OBVIOUS
  <2> HIDE DEF l
  <2> QED BY <2>1, <2>2, <2>3
<1> HIDE DEF l
<1>2. \A k \in 1 .. n - 1 : /\ Parent(k) \in 0 .. n - 1
                            /\ Parent(k) < k
                            /\ Parent(k) # l
                            /\ k # l => Parent(k) # i /\ InOrder(t, d, Parent(k), k)
  <2> SUFFICES ASSUME NEW k \in 1 .. n - 1
               PROVE  /\ Parent(k) \in 0 .. n - 1
                      /\ Parent(k) < k
                      /\ Parent(k) # l
                      /\ k # l => Parent(k) # i /\ InOrder(t, d, Parent(k), k)
    OBVIOUS
  <2>1. /\ Parent(k) \in 0 .. n - 1 /\ Parent(k) < k
        /\ k \in {Left(Parent(k)), Right(Parent(k))}
    BY <1>1, Parents
  <2>2. k # Right(i) /\ Parent(k) # l
    BY <1>1, <2>1
  <2>3. k # l => k \notin {Left(i), Right(i)}
    BY <2>2 DEF l
  <2> QED BY <2>1, <2>2, <2>3 DEF Sinking, InOrderBut
<1>3. i > 0 => InOrder(t, d, Parent(i), l)
  BY <1>1 DEF Sinking, AcrossGap
<1>4. CASE Before(t, d[l].priority, d[i].priority)
  <2>1. /\ e[l] = d[i] /\ e[i] = d[l]
        /\ \A k \in 0 .. n - 1 : k # l /\ k # i => e[k] = d[k]
    BY <1>1 DEF Swap
  <2> HIDE DEF e
  <2>2. ASSUME NEW k \in 1 .. n - 1 PROVE InOrder(t, e, Parent(k), k)
    <3>1. CASE k = l
      BY <3>1, <2>1, <1>1, <1>4 DEF InOrder, Before
    <3>2. CASE k = i
      <4>1. e[Parent(i)] = d[Parent(i)]
        BY <3>2, <2>1, <1>1, <1>2
      <4> QED BY <3>2, <4>1, <2>1, <1>1, <1>3 DEF InOrder
    <3>3. CASE k # l /\ k # i
      <4>1. e[k] = d[k] /\ e[Parent(k)] = d[Parent(k)]
        BY <3>3, <2>1, <1>2
      <4> QED BY <3>3, <4>1, <1>1, <1>2 DEF InOrder
    <3> QED BY <3>1, <3>2, <3>3
  <2>3. IsHeap(t, e, n)
    BY <2>2 DEF IsHeap, InOrderBut
  <2> QED BY <1>1, <1>4, <2>3 DEF l, e
<1>5. CASE ~ Before(t, d[l].priority, d[i].priority)
  <2>1. IsHeap(t, d, n)
    BY <1>1, <1>2, <1>5 DEF IsHeap, InOrderBut, InOrder
  <2> QED BY <1>1, <1>5, <2>1 DEF l
<1> QED BY <1>4, <1>5

(* An item with no child in the way has arrived. *)
LEMMA SunkIsHeap ==
  ASSUME NEW t, NEW d, NEW n, IsArray(d, n), NEW i, Sinking(t, d, n, i),
         Left(i) < n => Right(i) < n /\ BeforeBoth(t, d, i)
  PROVE  IsHeap(t, d, n)
<1>1. /\ n \in Nat /\ \A k \in 0 .. n - 1 : d[k].priority \in Int
      /\ i \in Nat /\ Left(i) = 2 * i + 1 /\ Right(i) = 2 * i + 2
      /\ Parent(Left(i)) = i /\ Parent(Right(i)) = i
  BY ChildFacts DEF Sinking, IsArray
<1> SUFFICES ASSUME NEW k \in 1 .. n - 1, k \in {Left(i), Right(i)} PROVE InOrder(t, d, i, k)
  BY <1>1 DEF Sinking, IsHeap, InOrderBut
<1>2. Left(i) < n /\ i \in 0 .. n - 1 /\ k \in 0 .. n - 1
  BY <1>1
<1>3. Before(t, d[i].priority, d[k].priority)
  BY <1>2 DEF BeforeBoth
<1>4. d[i].priority \in Int /\ d[k].priority \in Int
  BY <1>1, <1>2
<1> QED BY <1>3, <1>4 DEF InOrder, Before

(* The first of some indices, of which pqueue_get_priority takes the       *)
(* priority.                                                               *)
LEMMA FirstOf ==
  ASSUME NEW S, S \subseteq Nat, S # {}
  PROVE  \E j \in S : \A k \in S : ~ k < j
<1>1. PICK m \in S : \A k \in S : ~ (<<k, m>> \in OpToRel(<, Nat))
  BY NatLessThanWellFounded, WFMin
<1> QED BY <1>1 DEF OpToRel

(* In a heap no item precedes the root: otherwise the first index of such  *)
(* an item has a parent that precedes the root too, and lies before it.    *)
LEMMA RootIsBest ==
  ASSUME NEW t, NEW d, NEW n, IsArray(d, n), IsHeap(t, d, n), NEW i \in 0 .. n - 1
  PROVE  InOrder(t, d, 0, i)
<1> DEFINE Worse == {j \in 0 .. n - 1 : Before(t, d[j].priority, d[0].priority)}
<1> SUFFICES ASSUME Worse # {} PROVE FALSE
  BY DEF InOrder
<1>0. n \in Nat /\ \A k \in 0 .. n - 1 : d[k].priority \in Int
  BY DEF IsArray
<1>1. Worse \subseteq Nat
  BY <1>0
<1>2. PICK j \in Worse : \A k \in Worse : ~ k < j
  <2> HIDE DEF Worse
  <2> QED BY <1>1, FirstOf
<1>3. j # 0
  BY <1>0 DEF Before
<1>4. j \in 1 .. n - 1 /\ 0 \in 0 .. n - 1 /\ Before(t, d[j].priority, d[0].priority)
  BY <1>0, <1>1, <1>3
<1>5. Parent(j) \in 0 .. n - 1 /\ Parent(j) < j /\ InOrder(t, d, Parent(j), j)
  BY <1>0, <1>4, Parents DEF IsHeap, InOrderBut
<1>6. Before(t, d[Parent(j)].priority, d[0].priority)
  <2>1. d[j].priority \in Int /\ d[Parent(j)].priority \in Int /\ d[0].priority \in Int
    BY <1>0, <1>4, <1>5
  <2> QED BY <2>1, <1>4, <1>5 DEF InOrder, Before
<1> QED BY <1>2, <1>5, <1>6
-----------------------------------------------------------------------------
(***************************************************************************)
(* The contents of an array: what the loops exchange they neither lose nor *)
(* double.                                                                 *)
(***************************************************************************)

(* Where an array holds an item, and how often. *)
Where(d, n, item)  == {i \in 0 .. n - 1 : d[i] = item}
Copies(d, n, item) == Cardinality(Where(d, n, item))

LEMMA WhereFinite ==
  ASSUME NEW n \in Nat, NEW d, NEW item
  PROVE  IsFiniteSet(Where(d, n, item)) /\ Copies(d, n, item) \in Nat
<1>1. IsFiniteSet(0 .. n - 1)
  BY FS_Interval
<1>2. Where(d, n, item) \subseteq 0 .. n - 1
  BY DEF Where
<1> QED BY <1>1, <1>2, FS_Subset, FS_CardinalityType DEF Copies

(* Exchanging two items loses and copies none. *)
LEMMA SwapCopies ==
  ASSUME NEW n \in Nat, NEW d, DOMAIN d = 0 .. n - 1,
         NEW a \in 0 .. n - 1, NEW b \in 0 .. n - 1, NEW item
  PROVE  Copies(Swap(d, a, b), n, item) = Copies(d, n, item)
<1> DEFINE W == Where(d, n, item)
           V == Where(Swap(d, a, b), n, item)
<1>1. /\ Swap(d, a, b)[a] = d[b] /\ Swap(d, a, b)[b] = d[a]
      /\ \A i \in 0 .. n - 1 : i # a /\ i # b => Swap(d, a, b)[i] = d[i]
  BY DEF Swap
<1>2. ASSUME NEW x, x \in W, NEW y, y \notin W, V = (W \ {x}) \cup {y}
      PROVE  Cardinality(V) = Cardinality(W)
  <2>1. IsFiniteSet(W) /\ Cardinality(W) \in Nat
    BY WhereFinite DEF Copies
  <2> HIDE DEF W, V
  <2>2. IsFiniteSet(W \ {x}) /\ Cardinality(W \ {x}) = Cardinality(W) - 1
    BY <1>2, <2>1, FS_RemoveElement
  <2>3. Cardinality((W \ {x}) \cup {y}) = Cardinality(W \ {x}) + 1
    BY <1>2, <2>2, FS_AddElement
  <2> QED BY <1>2, <2>1, <2>2, <2>3
<1>3. CASE d[a] = item /\ d[b] # item
  <2>1. a \in W /\ b \notin W /\ V = (W \ {a}) \cup {b}
    BY <1>1, <1>3 DEF Where
  <2> QED BY <1>2, <2>1 DEF Copies
<1>4. CASE d[b] = item /\ d[a] # item
  <2>1. b \in W /\ a \notin W /\ V = (W \ {b}) \cup {a}
    BY <1>1, <1>4 DEF Where
  <2> QED BY <1>2, <2>1 DEF Copies
<1>5. CASE d[a] = item <=> d[b] = item
  <2>1. \A i \in 0 .. n - 1 : Swap(d, a, b)[i] = item <=> d[i] = item
    BY <1>1, <1>5
  <2>2. V = W
    BY <2>1 DEF Where
  <2> QED BY <2>2 DEF Copies
<1> QED BY <1>3, <1>4, <1>5

LEMMA ExtendedCopies ==
  ASSUME NEW n \in Nat, NEW d, NEW item, NEW x
  PROVE  Copies(Extended(d, n, x), n + 1, item) = Copies(d, n, item) + (IF item = x THEN 1 ELSE 0)
<1> DEFINE W == Where(d, n, item)
<1>1. IsFiniteSet(W) /\ n \notin W /\ Cardinality(W) \in Nat
  <2>1. IsFiniteSet(W) /\ Cardinality(W) \in Nat
    BY WhereFinite DEF Copies
  <2>2. n \notin W
    BY DEF Where
  <2> QED BY <2>1, <2>2
<1>2. Where(Extended(d, n, x), n + 1, item) = IF item = x THEN W \cup {n} ELSE W
  BY DEF Where, Extended
<1> HIDE DEF W
<1>3. Cardinality(W \cup {n}) = Cardinality(W) + 1
  BY <1>1, FS_AddElement
<1> QED BY <1>1, <1>2, <1>3 DEF Copies, W

LEMMA ShrunkCopies ==
  ASSUME NEW n \in Nat \ {0}, NEW d, NEW item
  PROVE  Copies(Shrunk(d, n), n - 1, item) = Copies(d, n, item) - (IF item = d[0] THEN 1 ELSE 0)
<1> DEFINE e == Shrunk(d, n)
           m == n - 1
           W == Where(d, n, item)
<1>1. CASE n = 1
  <2>1. Where(e, m, item) = {} /\ W = IF item = d[0] THEN {0} ELSE {}
    BY <1>1 DEF Where
  <2>2. Cardinality({0}) = 1 /\ Cardinality({}) = 0
    BY FS_Singleton, FS_EmptySet
  <2> QED BY <2>1, <2>2 DEF Copies
<1>2. CASE n # 1
  <2> DEFINE M == {i \in 1 .. n - 2 : d[i] = item}
  <2>1. m \in Nat \ {0} /\ m \notin M /\ 0 \notin M /\ 0 # m
    BY <1>2
  <2>2. M \subseteq W
    BY <1>2 DEF Where
  <2>3. IsFiniteSet(M) /\ Cardinality(M) \in Nat
    BY <2>2, WhereFinite, FS_Subset, FS_CardinalityType
  <2>4. Where(e, m, item) = IF d[m] = item THEN M \cup {0} ELSE M
    BY <1>2 DEF Where, Shrunk
  <2> DEFINE R == IF d[0] = item THEN M \cup {0} ELSE M
  <2>5. W = IF d[m] = item THEN R \cup {m} ELSE R
    BY <1>2 DEF Where
  <2>6. m \notin R
    BY <2>1
  <2> HIDE DEF M, W, e
  <2>7. IsFiniteSet(M \cup {0}) /\ Cardinality(M \cup {0}) = Cardinality(M) + 1
    BY <2>1, <2>3, FS_AddElement
  <2>8. IsFiniteSet(R) /\ Cardinality(R) = Cardinality(M) + (IF d[0] = item THEN 1 ELSE 0)
    BY <2>3, <2>7
  <2> HIDE DEF R, m
  <2>9. Cardinality(R \cup {m}) = Cardinality(R) + 1
    BY <2>6, <2>8, FS_AddElement
  <2>10. Cardinality(W) = Cardinality(R) + (IF d[m] = item THEN 1 ELSE 0)
    <3>1. Cardinality(R) \in Nat
      BY <2>3, <2>8
    <3> QED BY <2>5, <2>9, <3>1
  <2>11. Cardinality(Where(e, m, item)) = Cardinality(M) + (IF d[m] = item THEN 1 ELSE 0)
    BY <2>3, <2>4, <2>7
  <2> QED BY <2>3, <2>8, <2>10, <2>11 DEF Copies, W, e, m
<1> QED BY <1>1, <1>2
-----------------------------------------------------------------------------
(***************************************************************************)
(* The operators of HeapOps make a whole call at once, the program one     *)
(* turn of a loop at a time.                                               *)
(***************************************************************************)

(* Induction over the natural numbers, for a set instead of a predicate.   *)
LEMMA SetInduction ==
  ASSUME NEW S, 0 \in S, \A n \in Nat : n \in S => n + 1 \in S
  PROVE  Nat \subseteq S
<1> DEFINE Missing == Nat \ S
<1> SUFFICES ASSUME Missing # {} PROVE FALSE
  OBVIOUS
<1>1. PICK m \in Missing : \A k \in Missing : ~ (<<k, m>> \in OpToRel(<, Nat))
  BY NatLessThanWellFounded, WFMin
<1>2. m # 0 /\ m - 1 \in Nat /\ m - 1 < m
  OBVIOUS
<1>3. m - 1 \notin Missing
  BY <1>1, <1>2 DEF OpToRel
<1>4. m - 1 + 1 \in S
  BY <1>2, <1>3
<1> QED BY <1>2, <1>4

(* One turn of the loop that HeapOps foresees, on an array and the index   *)
(* the loop is at.                                                         *)
Turn(loop, t, n, heap) == IF loop = "up" THEN Risen(t, heap) ELSE Sunk(t, n, heap)

(* f is a function on 0 .. n. *)
Indexed(f, n) == f = [k \in 0 .. n |-> f[k]]

Turns(f, loop, t, n, heap, turns) ==
  f[0] = heap /\ \A k \in 1 .. turns : f[k] = Turn(loop, t, n, f[k - 1])

(* The turns end at an array, and change nothing there. *)
Leads(loop, t, n, heap, goal) ==
  \E turns \in Nat : \E f : /\ Turns(f, loop, t, n, heap, turns)
                            /\ f[turns].data = goal
                            /\ Turn(loop, t, n, f[turns]) = f[turns]

(* The turns of a loop, as the function that HeapOps would define. *)
LEMMA TurnsExist ==
  ASSUME NEW loop, NEW t, NEW n, NEW heap, NEW turns \in Nat
  PROVE  \E f : Turns(f, loop, t, n, heap, turns) /\ Indexed(f, turns)
<1> DEFINE Lengths == {m \in Nat : \E f : Turns(f, loop, t, n, heap, m)}
<1>1. 0 \in Lengths
  <2> DEFINE f == [k \in 0 .. 0 |-> heap]
  <2>1. Turns(f, loop, t, n, heap, 0)
    BY DEF Turns
  <2> QED BY <2>1
<1>2. ASSUME NEW m \in Nat, m \in Lengths PROVE m + 1 \in Lengths
  <2>1. PICK f : Turns(f, loop, t, n, heap, m)
    BY <1>2
  <2> DEFINE g == [k \in 0 .. m + 1 |-> IF k <= m THEN f[k] ELSE Turn(loop, t, n, f[m])]
  <2>2. g[0] = heap
    BY <2>1 DEF Turns
  <2>3. ASSUME NEW k \in 1 .. m + 1 PROVE g[k] = Turn(loop, t, n, g[k - 1])
    <3>1. CASE k <= m
      BY <2>1, <3>1 DEF Turns
    <3>2. CASE k = m + 1
      <4>1. k - 1 = m /\ g[k - 1] = f[m] /\ ~ (k <= m)
        BY <3>2
      <4> QED BY <4>1
    <3> QED BY <3>1, <3>2
  <2> HIDE DEF g
  <2>4. Turns(g, loop, t, n, heap, m + 1)
    BY <2>2, <2>3 DEF Turns
  <2> QED BY <2>4
<1>3. turns \in Lengths
  <2> HIDE DEF Lengths
  <2> QED BY <1>1, <1>2, SetInduction
<1>4. PICK h : Turns(h, loop, t, n, heap, turns)
  BY <1>3
<1> DEFINE g == [k \in 0 .. turns |-> h[k]]
<1>5. Turns(g, loop, t, n, heap, turns)
  <2>1. \A k \in 1 .. turns : k \in 0 .. turns /\ k - 1 \in 0 .. turns
    OBVIOUS
  <2>2. 0 \in 0 .. turns
    OBVIOUS
  <2> QED BY <1>4, <2>1, <2>2 DEF Turns
<1>6. Indexed(g, turns)
  BY DEF Indexed
<1> QED BY <1>5, <1>6

(* What the turns of a loop are, when they are the values of a function    *)
(* defined as HeapOps defines its own.                                     *)
LEMMA UpTurns ==
  ASSUME NEW t, NEW n, NEW d, NEW i \in Nat
  PROVE  \E f : Turns(f, "up", t, n, [data |-> d, idx |-> i], i) /\ BubbledUp(t, d, i) = f[i].data
<1> DEFINE heap == [data |-> d, idx |-> i]
           Next2(h, k) == IF k = 0 THEN heap ELSE Risen(t, h[k - 1])
           after == CHOOSE f : f = [k \in 0 .. i |-> Next2(f, k)]
<1>1. \E f : f = [k \in 0 .. i |-> Next2(f, k)]
  <2>1. PICK f : Turns(f, "up", t, n, heap, i) /\ Indexed(f, i)
    <3> HIDE DEF heap
    <3> QED BY TurnsExist
  <2>2. ASSUME NEW k \in 0 .. i PROVE f[k] = Next2(f, k)
    <3>1. CASE k = 0
      BY <2>1, <3>1 DEF Turns
    <3>2. CASE k # 0
      <4>1. k \in 1 .. i
        BY <3>2
      <4> QED BY <2>1, <3>2, <4>1 DEF Turns, Turn
    <3> QED BY <3>1, <3>2
  <2>3. f = [k \in 0 .. i |-> Next2(f, k)]
    <3> HIDE DEF Next2
    <3> QED BY <2>1, <2>2 DEF Indexed
  <2> QED BY <2>3
<1>2. after = [k \in 0 .. i |-> Next2(after, k)]
  <2> HIDE DEF Next2
  <2> QED BY <1>1, Zenon
<1>3. BubbledUp(t, d, i) = after[i].data
  BY DEF BubbledUp
<1> HIDE DEF after
<1>4. \A k \in 0 .. i : after[k] = Next2(after, k)
  <2> HIDE DEF Next2
  <2> QED BY <1>2
<1>5. Turns(after, "up", t, n, heap, i)
  <2>1. after[0] = heap
    BY <1>4
  <2>2. ASSUME NEW k \in 1 .. i PROVE after[k] = Turn("up", t, n, after[k - 1])
    <3>1. k \in 0 .. i /\ k # 0
      OBVIOUS
    <3> QED BY <1>4, <3>1 DEF Turn
  <2> QED BY <2>1, <2>2 DEF Turns
<1> QED BY <1>3, <1>5

LEMMA DownTurns ==
  ASSUME NEW t, NEW n \in Nat, NEW d, NEW i
  PROVE  \E f : Turns(f, "down", t, n, [data |-> d, idx |-> i], n) /\ BubbledDown(t, d, n, i) = f[n].data
<1> DEFINE heap == [data |-> d, idx |-> i]
           Next2(h, k) == IF k = 0 THEN heap ELSE Sunk(t, n, h[k - 1])
           after == CHOOSE f : f = [k \in 0 .. n |-> Next2(f, k)]
<1>1. \E f : f = [k \in 0 .. n |-> Next2(f, k)]
  <2>1. PICK f : Turns(f, "down", t, n, heap, n) /\ Indexed(f, n)
    <3> HIDE DEF heap
    <3> QED BY TurnsExist
  <2>2. ASSUME NEW k \in 0 .. n PROVE f[k] = Next2(f, k)
    <3>1. CASE k = 0
      BY <2>1, <3>1 DEF Turns
    <3>2. CASE k # 0
      <4>1. k \in 1 .. n
        BY <3>2
      <4> QED BY <2>1, <3>2, <4>1 DEF Turns, Turn
    <3> QED BY <3>1, <3>2
  <2>3. f = [k \in 0 .. n |-> Next2(f, k)]
    <3> HIDE DEF Next2
    <3> QED BY <2>1, <2>2 DEF Indexed
  <2> QED BY <2>3
<1>2. after = [k \in 0 .. n |-> Next2(after, k)]
  <2> HIDE DEF Next2
  <2> QED BY <1>1, Zenon
<1>3. BubbledDown(t, d, n, i) = after[n].data
  BY DEF BubbledDown
<1> HIDE DEF after
<1>4. \A k \in 0 .. n : after[k] = Next2(after, k)
  <2> HIDE DEF Next2
  <2> QED BY <1>2
<1>5. Turns(after, "down", t, n, heap, n)
  <2>1. after[0] = heap
    BY <1>4
  <2>2. ASSUME NEW k \in 1 .. n PROVE after[k] = Turn("down", t, n, after[k - 1])
    <3>1. k \in 0 .. n /\ k # 0
      OBVIOUS
    <3> QED BY <1>4, <3>1 DEF Turn
  <2> QED BY <2>1, <2>2 DEF Turns
<1> QED BY <1>3, <1>5

(* A turn that changes nothing is followed by turns that change nothing. *)
LEMMA Fixed ==
  ASSUME NEW loop, NEW t, NEW n, NEW heap, NEW turns \in Nat, NEW f, NEW k \in 0 .. turns,
         Turns(f, loop, t, n, heap, turns),
         Turn(loop, t, n, f[k]) = f[k]
  PROVE  f[turns] = f[k]
<1> DEFINE Same == {j \in Nat : k + j <= turns => f[k + j] = f[k]}
<1>1. 0 \in Same
  OBVIOUS
<1>2. ASSUME NEW j \in Nat, j \in Same PROVE j + 1 \in Same
  <2> SUFFICES ASSUME k + (j + 1) <= turns PROVE f[k + (j + 1)] = f[k]
    OBVIOUS
  <2>1. f[k + j] = f[k]
    BY <1>2
  <2>2. k + (j + 1) \in 1 .. turns /\ (k + (j + 1)) - 1 = k + j
    OBVIOUS
  <2>3. f[k + (j + 1)] = Turn(loop, t, n, f[k + j])
    BY <2>2 DEF Turns
  <2> QED BY <2>1, <2>3
<1>3. turns - k \in Same
  <2>1. turns - k \in Nat
    OBVIOUS
  <2> HIDE DEF Same
  <2> QED BY <1>1, <1>2, <2>1, SetInduction
<1>4. k + (turns - k) = turns
  OBVIOUS
<1> QED BY <1>3, <1>4

(* One turn made: the rest of the turns lead to the same array. *)
LEMMA LeadsOn ==
  ASSUME NEW loop, NEW t, NEW n, NEW heap, NEW goal, Leads(loop, t, n, heap, goal)
  PROVE  Leads(loop, t, n, Turn(loop, t, n, heap), goal)
<1>0. PICK turns \in Nat : \E f : /\ Turns(f, loop, t, n, heap, turns)
                                  /\ f[turns].data = goal
                                  /\ Turn(loop, t, n, f[turns]) = f[turns]
  BY DEF Leads
<1>1. PICK f : /\ Turns(f, loop, t, n, heap, turns)
               /\ f[turns].data = goal
               /\ Turn(loop, t, n, f[turns]) = f[turns]
  BY <1>0
<1>2. f[0] = heap
  BY <1>1 DEF Turns
<1>3. CASE turns = 0
  BY <1>1, <1>2, <1>3
<1>4. CASE turns # 0
  <2> DEFINE g == [k \in 0 .. turns - 1 |-> f[k + 1]]
  <2>1. turns - 1 \in Nat /\ 0 \in 0 .. turns - 1 /\ turns - 1 \in 0 .. turns - 1
    BY <1>4
  <2>2. 1 \in 1 .. turns /\ 0 + 1 = 1 /\ 1 - 1 = 0 /\ (turns - 1) + 1 = turns
    BY <1>4
  <2>3. g[0] = Turn(loop, t, n, heap)
    BY <1>1, <1>2, <2>1, <2>2 DEF Turns
  <2>4. g[turns - 1] = f[turns]
    BY <2>1, <2>2
  <2>5. ASSUME NEW k \in 1 .. turns - 1 PROVE g[k] = Turn(loop, t, n, g[k - 1])
    <3>1. k \in 0 .. turns - 1 /\ k - 1 \in 0 .. turns - 1 /\ (k - 1) + 1 = k
      OBVIOUS
    <3>2. k + 1 \in 1 .. turns /\ (k + 1) - 1 = k
      OBVIOUS
    <3>3. f[k + 1] = Turn(loop, t, n, f[k])
      BY <1>1, <3>2 DEF Turns
    <3> QED BY <3>1, <3>3
  <2> HIDE DEF g
  <2>6. Turns(g, loop, t, n, Turn(loop, t, n, heap), turns - 1)
    BY <2>3, <2>5 DEF Turns
  <2> QED BY <1>1, <2>1, <2>4, <2>6 DEF Leads
<1> QED BY <1>3, <1>4

(* No turn is left: the array is the one they lead to. *)
LEMMA LeadsHere ==
  ASSUME NEW loop, NEW t, NEW n, NEW heap, NEW goal, Leads(loop, t, n, heap, goal),
         Turn(loop, t, n, heap) = heap
  PROVE  heap.data = goal
<1>0. PICK turns \in Nat : \E f : Turns(f, loop, t, n, heap, turns) /\ f[turns].data = goal
  BY DEF Leads
<1>1. PICK f : Turns(f, loop, t, n, heap, turns) /\ f[turns].data = goal
  BY <1>0
<1>2. f[0] = heap /\ 0 \in 0 .. turns
  BY <1>1 DEF Turns
<1>3. f[turns] = f[0]
  BY <1>1, <1>2, Fixed
<1> QED BY <1>1, <1>2, <1>3

(* A turn of the enqueue loop moves towards the root or changes nothing. *)
LEMMA Rises ==
  ASSUME NEW t, NEW n, NEW heap, heap.idx \in Nat
  PROVE  \/ Turn("up", t, n, heap) = heap
         \/ /\ heap.idx > 0
            /\ Turn("up", t, n, heap).idx = Parent(heap.idx)
<1>1. Turn("up", t, n, heap) = Risen(t, heap)
  BY DEF Turn
<1> QED BY <1>1 DEF Risen, Parent

(* A turn of the dequeue loop moves away from the root or changes nothing. *)
LEMMA Sinks ==
  ASSUME NEW t, NEW n \in Nat, NEW heap, "idx" \in DOMAIN heap, heap.idx \in Nat
  PROVE  \/ Turn("down", t, n, heap) = heap
         \/ /\ heap.idx < n
            /\ "idx" \in DOMAIN Turn("down", t, n, heap)
            /\ Turn("down", t, n, heap).idx \in {n, Left(heap.idx), Right(heap.idx)}
<1>1. Turn("down", t, n, heap) = Sunk(t, n, heap)
  BY DEF Turn
<1>2. Left(heap.idx) = 2 * heap.idx + 1 /\ Right(heap.idx) = 2 * heap.idx + 2
  BY DEF Left, Right
<1>3. CASE n <= Left(heap.idx)
  BY <1>1, <1>2, <1>3 DEF Sunk, Left, Right
<1>4. CASE Left(heap.idx) < n /\ n <= Right(heap.idx)
  <2>1. "idx" \in DOMAIN Turn("down", t, n, heap) /\ Turn("down", t, n, heap).idx = n
    BY <1>1, <1>2, <1>4 DEF Sunk, Left, Right
  <2> QED BY <1>2, <1>4, <2>1
<1>5. CASE Right(heap.idx) < n
  <2>1. /\ "idx" \in DOMAIN Turn("down", t, n, heap)
        /\ Turn("down", t, n, heap).idx \in {n, Left(heap.idx), Right(heap.idx)}
    <3>1. ~ n <= Left(heap.idx) /\ ~ n <= Right(heap.idx)
      BY <1>2, <1>5
    <3>2. \/ Turn("down", t, n, heap) = [heap EXCEPT !.idx = n]
          \/ \E d : Turn("down", t, n, heap) = [data |-> d, idx |-> Left(heap.idx)]
          \/ \E d : Turn("down", t, n, heap) = [data |-> d, idx |-> Right(heap.idx)]
      BY <1>1, <1>5, <3>1 DEF Sunk
    <3> QED BY <3>2
  <2> QED BY <1>2, <1>5, <2>1
<1> QED BY <1>2, <1>3, <1>4, <1>5

(* pqueue_enqueue: as many turns as the new item's index reach an array    *)
(* that another turn leaves alone.                                         *)
LEMMA UpLeads ==
  ASSUME NEW t, NEW n, NEW d, NEW i \in Nat
  PROVE  Leads("up", t, n, [data |-> d, idx |-> i], BubbledUp(t, d, i))
<1>1. PICK f : /\ Turns(f, "up", t, n, [data |-> d, idx |-> i], i)
               /\ BubbledUp(t, d, i) = f[i].data
  BY UpTurns
<1> DEFINE Left2Go == {k \in Nat : k <= i => /\ f[k].idx \in Nat
                                          /\ \/ f[k].idx + k <= i
                                             \/ Turn("up", t, n, f[k]) = f[k]}
<1>2. 0 \in Left2Go
  BY <1>1 DEF Turns
<1>3. ASSUME NEW k \in Nat, k \in Left2Go PROVE k + 1 \in Left2Go
  <2> SUFFICES ASSUME k + 1 <= i
               PROVE  /\ f[k + 1].idx \in Nat
                      /\ \/ f[k + 1].idx + (k + 1) <= i
                         \/ Turn("up", t, n, f[k + 1]) = f[k + 1]
    OBVIOUS
  <2>1. k + 1 \in 1 .. i /\ (k + 1) - 1 = k
    OBVIOUS
  <2>2. f[k + 1] = Turn("up", t, n, f[k])
    BY <1>1, <2>1 DEF Turns
  <2>3. f[k].idx \in Nat /\ (f[k].idx + k <= i \/ Turn("up", t, n, f[k]) = f[k])
    BY <1>3
  <2>4. CASE Turn("up", t, n, f[k]) = f[k]
    BY <2>2, <2>3, <2>4
  <2>5. CASE Turn("up", t, n, f[k]) # f[k]
    <3>1. f[k].idx > 0 /\ f[k + 1].idx = Parent(f[k].idx)
      BY <2>2, <2>3, <2>5, Rises
    <3>2. f[k + 1].idx \in Nat /\ f[k + 1].idx < f[k].idx
      BY <2>3, <3>1 DEF Parent
    <3> QED BY <2>3, <2>5, <3>2
  <2> QED BY <2>4, <2>5
<1>4. i \in Left2Go
  <2> HIDE DEF Left2Go
  <2> QED BY <1>2, <1>3, SetInduction
<1>5. Turn("up", t, n, f[i]) = f[i]
  <2>1. f[i].idx \in Nat /\ (f[i].idx + i <= i \/ Turn("up", t, n, f[i]) = f[i])
    BY <1>4
  <2>2. CASE f[i].idx = 0
    BY <2>1, <2>2, Rises
  <2> QED BY <2>1, <2>2
<1> QED BY <1>1, <1>5 DEF Leads

(* pqueue_dequeue: every turn moves further from the root, and past the    *)
(* last parent a turn changes nothing.                                     *)
LEMMA DownLeads ==
  ASSUME NEW t, NEW n \in Nat, NEW d, NEW i \in Nat
  PROVE  Leads("down", t, n, [data |-> d, idx |-> i], BubbledDown(t, d, n, i))
<1>1. PICK f : /\ Turns(f, "down", t, n, [data |-> d, idx |-> i], n)
               /\ BubbledDown(t, d, n, i) = f[n].data
  BY DownTurns
<1> DEFINE Gone == {k \in Nat : k <= n => /\ "idx" \in DOMAIN f[k]
                                       /\ f[k].idx \in Nat
                                       /\ \/ f[k].idx >= k
                                          \/ Turn("down", t, n, f[k]) = f[k]}
<1>2. 0 \in Gone
  BY <1>1 DEF Turns
<1>3. ASSUME NEW k \in Nat, k \in Gone PROVE k + 1 \in Gone
  <2> SUFFICES ASSUME k + 1 <= n
               PROVE  /\ "idx" \in DOMAIN f[k + 1]
                      /\ f[k + 1].idx \in Nat
                      /\ \/ f[k + 1].idx >= k + 1
                         \/ Turn("down", t, n, f[k + 1]) = f[k + 1]
    OBVIOUS
  <2>1. k + 1 \in 1 .. n /\ (k + 1) - 1 = k
    OBVIOUS
  <2>2. f[k + 1] = Turn("down", t, n, f[k])
    BY <1>1, <2>1 DEF Turns
  <2>3. "idx" \in DOMAIN f[k] /\ f[k].idx \in Nat /\ (f[k].idx >= k \/ Turn("down", t, n, f[k]) = f[k])
    BY <1>3
  <2>4. CASE Turn("down", t, n, f[k]) = f[k]
    BY <2>2, <2>3, <2>4
  <2>5. CASE Turn("down", t, n, f[k]) # f[k]
    <3>1. f[k].idx < n /\ "idx" \in DOMAIN f[k + 1] /\ f[k + 1].idx \in {n, Left(f[k].idx), Right(f[k].idx)}
      BY <2>2, <2>3, <2>5, Sinks
    <3>2. f[k + 1].idx \in Nat /\ f[k + 1].idx > f[k].idx
      BY <2>3, <3>1 DEF Left, Right
    <3> QED BY <2>3, <2>5, <3>1, <3>2
  <2> QED BY <2>4, <2>5
<1>4. n \in Gone
  <2> HIDE DEF Gone
  <2> QED BY <1>2, <1>3, SetInduction
<1>5. Turn("down", t, n, f[n]) = f[n]
  <2>1. "idx" \in DOMAIN f[n] /\ f[n].idx \in Nat /\ (f[n].idx >= n \/ Turn("down", t, n, f[n]) = f[n])
    BY <1>4
  <2>2. CASE f[n].idx >= n
    BY <2>1, <2>2, Sinks
  <2> QED BY <2>1, <2>2
<1> QED BY <1>1, <1>5 DEF Leads

(* What every turn keeps is true where the turns end. *)
LEMMA LeadsKeeps ==
  ASSUME NEW loop, NEW t, NEW n, NEW heap, NEW goal, Leads(loop, t, n, heap, goal),
         NEW G, heap \in G, \A h \in G : Turn(loop, t, n, h) \in G
  PROVE  \E h \in G : h.data = goal /\ Turn(loop, t, n, h) = h
<1>1. PICK turns \in Nat : \E f : /\ Turns(f, loop, t, n, heap, turns)
                                  /\ f[turns].data = goal
                                  /\ Turn(loop, t, n, f[turns]) = f[turns]
  BY DEF Leads
<1>2. PICK f : /\ Turns(f, loop, t, n, heap, turns)
               /\ f[turns].data = goal
               /\ Turn(loop, t, n, f[turns]) = f[turns]
  BY <1>1
<1> DEFINE In == {k \in Nat : k <= turns => f[k] \in G}
<1>3. 0 \in In
  BY <1>2 DEF Turns
<1>4. ASSUME NEW k \in Nat, k \in In PROVE k + 1 \in In
  <2> SUFFICES ASSUME k + 1 <= turns PROVE f[k + 1] \in G
    OBVIOUS
  <2>1. k + 1 \in 1 .. turns /\ (k + 1) - 1 = k /\ k <= turns
    OBVIOUS
  <2>2. f[k + 1] = Turn(loop, t, n, f[k])
    BY <1>2, <2>1 DEF Turns
  <2> QED BY <1>4, <2>1, <2>2
<1>5. turns \in In
  <2> HIDE DEF In
  <2> QED BY <1>3, <1>4, SetInduction
<1> QED BY <1>2, <1>5

(* The arrays with the items of d. *)
Permuted(d, n) ==
  {e \in [0 .. n - 1 -> {d[k] : k \in 0 .. n - 1}] : \A x : Copies(e, n, x) = Copies(d, n, x)}

LEMMA PermutedFacts ==
  ASSUME NEW d, NEW n, IsArray(d, n), NEW e \in Permuted(d, n)
  PROVE  /\ IsArray(e, n)
         /\ \A x : Copies(e, n, x) = Copies(d, n, x)
         /\ \A k \in 0 .. n - 1 : \E j \in 0 .. n - 1 : e[k] = d[j]
BY DEF Permuted, IsArray

LEMMA PermutedSelf ==
  ASSUME NEW d, NEW n, IsArray(d, n), d = [k \in 0 .. n - 1 |-> d[k]]
  PROVE  d \in Permuted(d, n)
BY DEF Permuted

LEMMA SwapPermuted ==
  ASSUME NEW d, NEW n, IsArray(d, n), NEW e \in Permuted(d, n), NEW a \in 0 .. n - 1, NEW b \in 0 .. n - 1
  PROVE  Swap(e, a, b) \in Permuted(d, n)
<1> DEFINE S == {d[k] : k \in 0 .. n - 1}
<1>1. e \in [0 .. n - 1 -> S] /\ n \in Nat
  BY DEF Permuted, IsArray
<1>2. Swap(e, a, b) \in [0 .. n - 1 -> S]
  <2> HIDE DEF S
  <2> QED BY <1>1 DEF Swap
<1>3. \A x : Copies(Swap(e, a, b), n, x) = Copies(e, n, x)
  BY <1>1, SwapCopies
<1> QED BY <1>2, <1>3 DEF Permuted

(* The states of the loop of pqueue_enqueue. *)
Ups(t, d, n) ==
  {h \in [data : Permuted(d, n), idx : 0 .. n - 1] : Rising(t, h.data, n, h.idx)}

LEMMA TurnUp ==
  ASSUME NEW t, NEW d, NEW n, IsArray(d, n), NEW h \in Ups(t, d, n)
  PROVE  /\ Turn("up", t, n, h) \in Ups(t, d, n)
         /\ Turn("up", t, n, h) = h => IsHeap(t, h.data, n)
<1> DEFINE e == h.data
           i == h.idx
<1>1. /\ e \in Permuted(d, n) /\ i \in 0 .. n - 1 /\ Rising(t, e, n, i)
      /\ h = [data |-> e, idx |-> i] /\ n \in Nat
  BY DEF Ups, IsArray
<1>2. IsArray(e, n)
  BY <1>1, PermutedFacts
<1>3. Turn("up", t, n, h) = Risen(t, h)
  BY DEF Turn
<1>4. CASE i > 0 /\ Before(t, e[i].priority, e[Parent(i)].priority)
  <2>1. Turn("up", t, n, h) = [data |-> Swap(e, i, Parent(i)), idx |-> Parent(i)]
    BY <1>3, <1>4 DEF Risen
  <2>2. Parent(i) \in 0 .. n - 1 /\ Parent(i) < i
    BY <1>1, <1>4, ParentFacts
  <2> HIDE DEF e, i
  <2>3. Swap(e, i, Parent(i)) \in Permuted(d, n)
    BY <1>1, <2>2, SwapPermuted
  <2>4. Rising(t, Swap(e, i, Parent(i)), n, Parent(i))
    BY <1>1, <1>2, <1>4, SwapRises
  <2>5. Turn("up", t, n, h).idx = Parent(i) /\ h.idx = i
    BY <2>1 DEF i
  <2> QED BY <2>1, <2>2, <2>3, <2>4, <2>5, <1>1 DEF Ups
<1>5. CASE ~ (i > 0 /\ Before(t, e[i].priority, e[Parent(i)].priority))
  <2>1. Turn("up", t, n, h) = h
    BY <1>3, <1>5 DEF Risen
  <2>2. IsHeap(t, e, n)
    BY <1>1, <1>5, RisenIsHeap
  <2> QED BY <2>1, <2>2
<1> QED BY <1>4, <1>5

(* The states of the loop of pqueue_dequeue. *)
Downs(t, d, n) ==
  {h \in [data : Permuted(d, n), idx : Nat] :
     IF h.idx < n THEN Sinking(t, h.data, n, h.idx) ELSE IsHeap(t, h.data, n)}

LEMMA TurnDown ==
  ASSUME NEW t, NEW d, NEW n, IsArray(d, n), NEW h \in Downs(t, d, n)
  PROVE  /\ Turn("down", t, n, h) \in Downs(t, d, n)
         /\ Turn("down", t, n, h) = h => IsHeap(t, h.data, n)
<1> DEFINE e == h.data
           i == h.idx
<1>1. /\ e \in Permuted(d, n) /\ i \in Nat /\ n \in Nat
      /\ i < n => Sinking(t, e, n, i)
      /\ i >= n => IsHeap(t, e, n)
      /\ h = [data |-> e, idx |-> i]
  BY DEF Downs, IsArray
<1>2. IsArray(e, n)
  BY <1>1, PermutedFacts
<1>3. Turn("down", t, n, h) = Sunk(t, n, h)
  BY DEF Turn
<1>4. Left(i) = 2 * i + 1 /\ Right(i) = 2 * i + 2
  BY DEF Left, Right
<1> HIDE DEF e, i
<1>5. CASE n <= Left(i)
  <2>1. Turn("down", t, n, h) = h
    <3>1. ~ Left(i) < n /\ ~ Right(i) < n
      BY <1>1, <1>4, <1>5
    <3> QED BY <1>3, <1>5, <3>1 DEF Sunk, i
  <2>2. i < n => IsHeap(t, e, n)
    <3>1. ~ Left(i) < n
      BY <1>1, <1>4, <1>5
    <3> QED BY <1>1, <1>2, <3>1, SunkIsHeap
  <2> QED BY <1>1, <2>1, <2>2 DEF e
<1>6. CASE Left(i) < n /\ n <= Right(i)
  <2> DEFINE after == IF Before(t, e[Left(i)].priority, e[i].priority) THEN Swap(e, i, Left(i)) ELSE e
  <2>1. Turn("down", t, n, h) = [data |-> after, idx |-> n]
    <3>1. ~ n <= Left(i) /\ ~ Right(i) < n
      BY <1>1, <1>4, <1>6
    <3> QED BY <1>3, <1>6, <3>1 DEF Sunk, i, e
  <2>2. /\ Left(i) \in 0 .. n - 1 /\ i \in 0 .. n - 1 /\ IsHeap(t, after, n)
    <3>1. i < n /\ Left(i) < n /\ Right(i) >= n
      BY <1>1, <1>4, <1>6
    <3> QED BY <1>1, <1>2, <3>1, OnlyChildIsHeap
  <2>3. after \in Permuted(d, n)
    BY <1>1, <2>2, SwapPermuted
  <2>4. Turn("down", t, n, h).idx = n /\ h.idx = i /\ i < n
    BY <2>1, <1>1, <1>4, <1>6 DEF i
  <2> HIDE DEF after
  <2> QED BY <2>1, <2>2, <2>3, <2>4, <1>1 DEF Downs
<1>7. CASE Right(i) < n
  <2>1. ~ n <= Left(i) /\ ~ n <= Right(i) /\ i < n
    BY <1>1, <1>4, <1>7
  <2>2. CASE BeforeBoth(t, e, i)
    <3>1. Turn("down", t, n, h) = [h EXCEPT !.idx = n]
      BY <1>3, <1>7, <2>1, <2>2 DEF Sunk, BeforeBoth, i, e
    <3>2. Turn("down", t, n, h) = [data |-> e, idx |-> n]
      BY <1>1, <3>1
    <3>3. IsHeap(t, e, n)
      BY <1>1, <1>2, <1>7, <2>1, <2>2, SunkIsHeap
    <3>4. Turn("down", t, n, h).idx = n /\ h.idx = i
      BY <3>2 DEF i
    <3> QED BY <1>1, <2>1, <3>2, <3>3, <3>4 DEF Downs
  <2>3. CASE ~ BeforeBoth(t, e, i)
    <3> DEFINE fav == FavouriteOf(t, e, i)
    <3>1. Turn("down", t, n, h) = [data |-> Swap(e, i, fav), idx |-> fav]
      BY <1>3, <1>7, <2>1, <2>3 DEF Sunk, BeforeBoth, FavouriteOf, i, e
    <3>2. fav \in 0 .. n - 1 /\ i < fav /\ Sinking(t, Swap(e, i, fav), n, fav)
      BY <1>1, <1>2, <1>7, <2>1, <2>3, SwapSinks
    <3> HIDE DEF fav
    <3>3. i \in 0 .. n - 1
      BY <1>1, <2>1
    <3>4. Swap(e, i, fav) \in Permuted(d, n)
      BY <1>1, <3>2, <3>3, SwapPermuted
    <3>5. Turn("down", t, n, h).idx = fav /\ h.idx = i /\ fav # i /\ fav \in Nat /\ fav < n
      BY <3>1, <3>2, <1>1 DEF i
    <3> QED BY <3>1, <3>2, <3>4, <3>5 DEF Downs
  <2> QED BY <2>2, <2>3
<1> QED BY <1>1, <1>4, <1>5, <1>6, <1>7

(* What pqueue_enqueue leaves: a heap with one item more. *)
LEMMA EnqueuedFacts ==
  ASSUME NEW t, NEW q, NEW p, NEW o, IsArray(q.data, q.sz), IsHeap(t, q.data, q.sz), p \in Int
  PROVE  LET r == Enqueued(t, q, p, o)
             new(y) == IF y = [priority |-> p, obj |-> o] THEN 1 ELSE 0
         IN  /\ r.sz = q.sz + 1 /\ IsArray(r.data, r.sz) /\ IsHeap(t, r.data, r.sz)
             /\ \A y : Copies(r.data, r.sz, y) = Copies(q.data, q.sz, y) + new(y)
             /\ \A k \in 0 .. r.sz - 1 : \/ r.data[k] = [priority |-> p, obj |-> o]
                                       \/ \E j \in 0 .. q.sz - 1 : r.data[k] = q.data[j]
<1> DEFINE n == q.sz
           x == [priority |-> p, obj |-> o]
           d == Extended(q.data, n, x)
           r == Enqueued(t, q, p, o)
<1>1. n \in Nat /\ n + 1 \in Nat /\ n \in 0 .. (n + 1) - 1 /\ r.sz = n + 1 /\ r.data = BubbledUp(t, d, n)
  BY DEF IsArray, Enqueued
<1>2. /\ \A k \in 0 .. n : d[k] = IF k = n THEN x ELSE q.data[k]
      /\ d = [k \in 0 .. (n + 1) - 1 |-> d[k]]
  BY <1>1 DEF Extended
<1>3. IsArray(d, n + 1)
  BY <1>1, <1>2 DEF IsArray
<1>4. Rising(t, d, n + 1, n)
  BY <1>1, ExtendedRises
<1>5. \A y : Copies(d, n + 1, y) = Copies(q.data, n, y) + (IF y = x THEN 1 ELSE 0)
  BY <1>1, ExtendedCopies
<1> HIDE DEF n, x, d, r
<1>6. d \in Permuted(d, n + 1)
  BY <1>2, <1>3, PermutedSelf
<1>7. Leads("up", t, n + 1, [data |-> d, idx |-> n], r.data)
  BY <1>1, UpLeads
<1>8. [data |-> d, idx |-> n] \in Ups(t, d, n + 1)
  BY <1>1, <1>4, <1>6 DEF Ups
<1>9. PICK h \in Ups(t, d, n + 1) : h.data = r.data /\ Turn("up", t, n + 1, h) = h
  <2>1. \A h \in Ups(t, d, n + 1) : Turn("up", t, n + 1, h) \in Ups(t, d, n + 1)
    BY <1>3, TurnUp
  <2> QED BY <1>7, <1>8, <2>1, LeadsKeeps
<1>10. r.data \in Permuted(d, n + 1) /\ IsHeap(t, r.data, n + 1)
  <2>1. h.data \in Permuted(d, n + 1)
    BY DEF Ups
  <2> QED BY <1>3, <1>9, <2>1, TurnUp
<1>11. /\ IsArray(r.data, n + 1)
       /\ \A y : Copies(r.data, n + 1, y) = Copies(d, n + 1, y)
       /\ \A k \in 0 .. n : \E j \in 0 .. n : r.data[k] = d[j]
  <2>1. (n + 1) - 1 = n
    BY <1>1
  <2> QED BY <1>3, <1>10, <2>1, PermutedFacts
<1>12. \A k \in 0 .. n : r.data[k] = x \/ \E j \in 0 .. n - 1 : r.data[k] = q.data[j]
  <2> TAKE k \in 0 .. n
  <2>1. PICK j \in 0 .. n : r.data[k] = d[j]
    BY <1>11
  <2>2. d[j] = IF j = n THEN x ELSE q.data[j]
    BY <1>2
  <2>3. j = n \/ j \in 0 .. n - 1
    BY <1>1
  <2> QED BY <2>1, <2>2, <2>3
<1>13. r.sz - 1 = n
  BY <1>1
<1> QED BY <1>1, <1>5, <1>10, <1>11, <1>12, <1>13 DEF n, x, r

(* What pqueue_dequeue leaves: a heap without the item that was the root.  *)
LEMMA DequeuedFacts ==
  ASSUME NEW t, NEW q, IsArray(q.data, q.sz), IsHeap(t, q.data, q.sz), q.sz > 0
  PROVE  LET r == Dequeued(t, q)
         IN  /\ r.sz = q.sz - 1 /\ IsArray(r.data, r.sz) /\ IsHeap(t, r.data, r.sz)
             /\ \A y : Copies(r.data, r.sz, y) = Copies(q.data, q.sz, y) - (IF y = q.data[0] THEN 1 ELSE 0)
             /\ \A k \in 0 .. r.sz - 1 : \E j \in 0 .. q.sz - 1 : r.data[k] = q.data[j]
<1> DEFINE n == q.sz
           m == n - 1
           d == Shrunk(q.data, n)
           r == Dequeued(t, q)
<1>1. n \in Nat \ {0} /\ m \in Nat /\ r.sz = m /\ r.data = BubbledDown(t, d, m, 0) /\ m - 1 = n - 2
  BY DEF IsArray, Dequeued
<1>2. /\ \A k \in 0 .. m - 1 : d[k] = IF k = 0 THEN q.data[n - 1] ELSE q.data[k]
      /\ d = [k \in 0 .. m - 1 |-> d[k]]
  BY <1>1 DEF Shrunk
<1>3. ASSUME NEW k \in 0 .. m - 1 PROVE \E j \in 0 .. n - 1 : d[k] = q.data[j]
  <2>1. n - 1 \in 0 .. n - 1 /\ k \in 0 .. n - 1
    BY <1>1
  <2>2. d[k] = q.data[n - 1] \/ d[k] = q.data[k]
    BY <1>2
  <2> HIDE DEF d, n
  <2> QED BY <2>1, <2>2
<1>4. IsArray(d, m)
  <2>1. \A j \in 0 .. n - 1 : q.data[j].priority \in Int
    BY DEF IsArray
  <2> HIDE DEF d, n, m
  <2> QED BY <1>1, <1>2, <1>3, <2>1 DEF IsArray
<1>5. Sinking(t, d, m, 0)
  BY <1>1, ShrunkSinks
<1>6. \A y : Copies(d, m, y) = Copies(q.data, n, y) - (IF y = q.data[0] THEN 1 ELSE 0)
  BY <1>1, ShrunkCopies
<1> HIDE DEF n, m, d, r
<1>7. d \in Permuted(d, m)
  BY <1>2, <1>4, PermutedSelf
<1>8. Leads("down", t, m, [data |-> d, idx |-> 0], r.data)
  BY <1>1, DownLeads
<1>9. [data |-> d, idx |-> 0] \in Downs(t, d, m)
  <2>1. ~ 0 < m => IsHeap(t, d, m)
    BY <1>1 DEF IsHeap, InOrderBut
  <2> QED BY <1>1, <1>5, <1>7, <2>1 DEF Downs
<1>10. PICK h \in Downs(t, d, m) : h.data = r.data /\ Turn("down", t, m, h) = h
  <2>1. \A h \in Downs(t, d, m) : Turn("down", t, m, h) \in Downs(t, d, m)
    BY <1>4, TurnDown
  <2> QED BY <1>8, <1>9, <2>1, LeadsKeeps
<1>11. r.data \in Permuted(d, m) /\ IsHeap(t, r.data, m)
  <2>1. h.data \in Permuted(d, m)
    BY DEF Downs
  <2> QED BY <1>4, <1>10, <2>1, TurnDown
<1>12. /\ IsArray(r.data, m)
       /\ \A y : Copies(r.data, m, y) = Copies(d, m, y)
       /\ \A k \in 0 .. m - 1 : \E j \in 0 .. m - 1 : r.data[k] = d[j]
  BY <1>4, <1>11, PermutedFacts
<1> QED BY <1>1, <1>3, <1>6, <1>11, <1>12 DEF n, r

(* pqueue_get_priority knows a priority of an object that has items, and   *)
(* it is that of one of them.                                              *)
LEMMA KnownFacts ==
  ASSUME NEW q, IsArray(q.data, q.sz), NEW o, o # 0
  PROVE  /\ \A p \in KnownPriority(q, o) :
              \E k \in 0 .. q.sz - 1 : q.data[k].obj = o /\ q.data[k].priority = p
         /\ KnownPriority(q, o) = {} => \A k \in 0 .. q.sz - 1 : q.data[k].obj # o
<1> DEFINE Holders == {k \in 0 .. q.sz - 1 : q.data[k].obj = o}
<1>1. \A p \in KnownPriority(q, o) : \E k \in 0 .. q.sz - 1 : q.data[k].obj = o /\ q.data[k].priority = p
  BY DEF KnownPriority
<1>2. ASSUME Holders # {} PROVE KnownPriority(q, o) # {}
  <2>1. Holders \subseteq Nat /\ q.sz \in Nat
    BY DEF IsArray
  <2>2. PICK j \in Holders : \A k \in Holders : ~ k < j
    <3> HIDE DEF Holders
    <3> QED BY <1>2, <2>1, FirstOf
  <2>3. j \in 0 .. q.sz - 1 /\ q.data[j].obj = o
    OBVIOUS
  <2>4. \A k \in 0 .. j - 1 : q.data[k].obj # o
    BY <2>1, <2>2, <2>3
  <2> QED BY <2>3, <2>4 DEF KnownPriority
<1> QED BY <1>1, <1>2
-----------------------------------------------------------------------------
(***************************************************************************)
(* How many items of some objects a queue holds.                           *)
(***************************************************************************)

(* The indices of an array that hold one of some items, and the number of  *)
(* those that hold an item of one of some objects.                         *)
WhereAny(d, n, items) == {k \in 0 .. n - 1 : d[k] \in items}
HeldBy(q, objects) == {k \in 0 .. q.sz - 1 : q.data[k].obj \in objects}
Held(q, objects) == Cardinality(HeldBy(q, objects))

LEMMA WhereAnyFinite ==
  ASSUME NEW n \in Nat, NEW d, NEW items
  PROVE  IsFiniteSet(WhereAny(d, n, items)) /\ Cardinality(WhereAny(d, n, items)) \in Nat
<1>1. IsFiniteSet(0 .. n - 1)
  BY FS_Interval
<1>2. WhereAny(d, n, items) \subseteq 0 .. n - 1
  BY DEF WhereAny
<1> QED BY <1>1, <1>2, FS_Subset, FS_CardinalityType

(* Counting by items: one item more among those counted.                   *)
LEMMA OneItemMore ==
  ASSUME NEW n \in Nat, NEW d, NEW items, NEW z, z \notin items
  PROVE  Cardinality(WhereAny(d, n, items \cup {z})) = Cardinality(WhereAny(d, n, items)) + Copies(d, n, z)
<1> DEFINE A == WhereAny(d, n, items)
           B == Where(d, n, z)
<1>1. WhereAny(d, n, items \cup {z}) = A \cup B /\ A \cap B = {}
  BY DEF WhereAny, Where
<1>2. IsFiniteSet(A) /\ IsFiniteSet(B) /\ Cardinality(A) \in Nat /\ Cardinality(B) \in Nat
  BY WhereAnyFinite, WhereFinite DEF Copies
<1>3. Copies(d, n, z) = Cardinality(B)
  BY DEF Copies
<1> HIDE DEF A, B
<1>4. Cardinality(A \cap B) = 0
  BY <1>1, FS_EmptySet
<1>5. Cardinality(A \cup B) = Cardinality(A) + Cardinality(B) - Cardinality(A \cap B)
  BY <1>2, FS_Union
<1>6. Cardinality(A \cup B) = Cardinality(A) + Cardinality(B)
  BY <1>2, <1>4, <1>5
<1> QED BY <1>1, <1>3, <1>6 DEF A

(* Arrays that hold each item as often, but for one item more, hold as     *)
(* many of any finite set of items, but for that one.                      *)
LEMMA SameCounts ==
  ASSUME NEW n \in Nat, NEW d, NEW m \in Nat, NEW e, NEW x,
         \A y : Copies(e, m, y) = Copies(d, n, y) + (IF y = x THEN 1 ELSE 0),
         NEW items, IsFiniteSet(items)
  PROVE  Cardinality(WhereAny(e, m, items)) =
           Cardinality(WhereAny(d, n, items)) + (IF x \in items THEN 1 ELSE 0)
<1> DEFINE Same(X) == Cardinality(WhereAny(e, m, X)) =
                        Cardinality(WhereAny(d, n, X)) + (IF x \in X THEN 1 ELSE 0)
           Sizes == {c \in Nat : \A X : IsFiniteSet(X) /\ Cardinality(X) = c => Same(X)}
<1>1. 0 \in Sizes
  <2> SUFFICES ASSUME NEW X, IsFiniteSet(X), Cardinality(X) = 0 PROVE Same(X)
    OBVIOUS
  <2>1. X = {}
    BY FS_EmptySet
  <2>2. WhereAny(e, m, X) = {} /\ WhereAny(d, n, X) = {}
    BY <2>1 DEF WhereAny
  <2> QED BY <2>1, <2>2, FS_EmptySet
<1>2. ASSUME NEW c \in Nat, c \in Sizes PROVE c + 1 \in Sizes
  <2> SUFFICES ASSUME NEW X, IsFiniteSet(X), Cardinality(X) = c + 1 PROVE Same(X)
    OBVIOUS
  <2>1. X # {}
    BY FS_EmptySet
  <2>2. PICK z \in X : TRUE
    BY <2>1
  <2> DEFINE Y == X \ {z}
  <2>3. IsFiniteSet(Y) /\ Cardinality(Y) = c /\ X = Y \cup {z} /\ z \notin Y
    <3>1. IsFiniteSet(Y) /\ Cardinality(Y) = Cardinality(X) - 1
      BY <2>2, FS_RemoveElement
    <3> QED BY <2>2, <3>1
  <2>4. Same(Y)
    BY <1>2, <2>3
  <2> HIDE DEF Y
  <2>5. /\ Cardinality(WhereAny(e, m, X)) = Cardinality(WhereAny(e, m, Y)) + Copies(e, m, z)
        /\ Cardinality(WhereAny(d, n, X)) = Cardinality(WhereAny(d, n, Y)) + Copies(d, n, z)
    BY <2>3, OneItemMore
  <2>6. /\ Cardinality(WhereAny(d, n, Y)) \in Nat /\ Copies(d, n, z) \in Nat
    BY WhereAnyFinite, WhereFinite
  <2>7. Copies(e, m, z) = Copies(d, n, z) + (IF z = x THEN 1 ELSE 0)
    OBVIOUS
  <2>8. x \in X <=> x \in Y \/ z = x
    BY <2>3
  <2> QED BY <2>3, <2>4, <2>5, <2>6, <2>7, <2>8
<1>3. Cardinality(items) \in Sizes
  <2>1. Cardinality(items) \in Nat
    BY FS_CardinalityType
  <2> HIDE DEF Sizes
  <2> QED BY <1>1, <1>2, <2>1, SetInduction
<1> QED BY <1>3

LEMMA RangeFinite ==
  ASSUME NEW n \in Nat, NEW d
  PROVE  IsFiniteSet({d[k] : k \in 0 .. n - 1})
<1> DEFINE f == [k \in 0 .. n - 1 |-> d[k]]
           R == {d[k] : k \in 0 .. n - 1}
<1>1. IsFiniteSet(0 .. n - 1)
  BY FS_Interval
<1>2. f \in Surjection(0 .. n - 1, R)
  BY DEF Surjection
<1> QED BY <1>1, <1>2, FS_Surjection

LEMMA HeldCounts ==
  ASSUME NEW q, NEW r, q.sz \in Nat, r.sz \in Nat, NEW x,
         \A y : Copies(r.data, r.sz, y) = Copies(q.data, q.sz, y) + (IF y = x THEN 1 ELSE 0),
         NEW objects
  PROVE  Held(r, objects) = Held(q, objects) + (IF x.obj \in objects THEN 1 ELSE 0)
<1> DEFINE All == {q.data[k] : k \in 0 .. q.sz - 1} \cup {r.data[k] : k \in 0 .. r.sz - 1} \cup {x}
           items == {y \in All : y.obj \in objects}
<1>1. IsFiniteSet(items)
  <2>1. IsFiniteSet({q.data[k] : k \in 0 .. q.sz - 1}) /\ IsFiniteSet({r.data[k] : k \in 0 .. r.sz - 1})
    BY RangeFinite
  <2>2. IsFiniteSet(All)
    BY <2>1, FS_Union, FS_AddElement
  <2> QED BY <2>2, FS_Subset
<1>2. HeldBy(q, objects) = WhereAny(q.data, q.sz, items)
  BY DEF HeldBy, WhereAny
<1>3. HeldBy(r, objects) = WhereAny(r.data, r.sz, items)
  BY DEF HeldBy, WhereAny
<1>4. x \in items <=> x.obj \in objects
  OBVIOUS
<1> HIDE DEF items
<1> QED BY <1>1, <1>2, <1>3, <1>4, SameCounts DEF Held

LEMMA EnqueuedHeld ==
  ASSUME NEW t, NEW q, NEW p, NEW o, IsArray(q.data, q.sz), IsHeap(t, q.data, q.sz), p \in Int, NEW objects
  PROVE  Held(Enqueued(t, q, p, o), objects) = Held(q, objects) + (IF o \in objects THEN 1 ELSE 0)
<1> DEFINE r == Enqueued(t, q, p, o)
           x == [priority |-> p, obj |-> o]
<1>1. /\ r.sz = q.sz + 1
      /\ \A y : Copies(r.data, r.sz, y) = Copies(q.data, q.sz, y) + (IF y = x THEN 1 ELSE 0)
  <2>1. /\ r.sz = q.sz + 1 /\ IsArray(r.data, r.sz) /\ IsHeap(t, r.data, r.sz)
        /\ \A y : Copies(r.data, r.sz, y) = Copies(q.data, q.sz, y) + (IF y = x THEN 1 ELSE 0)
        /\ \A k \in 0 .. r.sz - 1 : r.data[k] = x \/ \E j \in 0 .. q.sz - 1 : r.data[k] = q.data[j]
    BY EnqueuedFacts
  <2> QED BY <2>1
<1>2. q.sz \in Nat /\ r.sz \in Nat /\ x.obj = o
  BY <1>1 DEF IsArray
<1> HIDE DEF r, x
<1>3. Held(r, objects) = Held(q, objects) + (IF x.obj \in objects THEN 1 ELSE 0)
  BY <1>1, <1>2, HeldCounts
<1> QED BY <1>2, <1>3 DEF r

LEMMA DequeuedHeld ==
  ASSUME NEW t, NEW q, IsArray(q.data, q.sz), IsHeap(t, q.data, q.sz), q.sz > 0, NEW objects
  PROVE  Held(q, objects) = Held(Dequeued(t, q), objects) + (IF q.data[0].obj \in objects THEN 1 ELSE 0)
<1> DEFINE r == Dequeued(t, q)
           x == q.data[0]
<1>1. /\ r.sz = q.sz - 1 /\ q.sz \in Nat /\ r.sz \in Nat
      /\ \A y : Copies(r.data, r.sz, y) = Copies(q.data, q.sz, y) - (IF y = x THEN 1 ELSE 0)
  <2>1. /\ r.sz = q.sz - 1 /\ IsArray(r.data, r.sz) /\ IsHeap(t, r.data, r.sz)
        /\ \A y : Copies(r.data, r.sz, y) = Copies(q.data, q.sz, y) - (IF y = x THEN 1 ELSE 0)
        /\ \A k \in 0 .. r.sz - 1 : \E j \in 0 .. q.sz - 1 : r.data[k] = q.data[j]
    BY DequeuedFacts
  <2>2. q.sz \in Nat
    BY DEF IsArray
  <2> QED BY <2>1, <2>2
<1> HIDE DEF r, x
<1>2. \A y : Copies(q.data, q.sz, y) = Copies(r.data, r.sz, y) + (IF y = x THEN 1 ELSE 0)
  <2> TAKE y
  <2>1. Copies(q.data, q.sz, y) \in Nat /\ Copies(r.data, r.sz, y) \in Nat
    BY <1>1, WhereFinite
  <2> QED BY <1>1, <2>1
<1>3. Held(q, objects) = Held(r, objects) + (IF x.obj \in objects THEN 1 ELSE 0)
  BY <1>1, <1>2, HeldCounts
<1> QED BY <1>3 DEF r, x

LEMMA HeldFacts ==
  ASSUME NEW q, q.sz \in Nat
  PROVE  /\ \A A : Held(q, A) \in Nat
         /\ \A A, v : v \notin A => Held(q, A \cup {v}) = Held(q, A) + Held(q, {v})
         /\ \A A : \A k \in 0 .. q.sz - 1 : q.data[k].obj \in A => Held(q, A) > 0
<1>1. \A A : IsFiniteSet(HeldBy(q, A)) /\ Held(q, A) \in Nat
  <2> TAKE A
  <2>1. IsFiniteSet(0 .. q.sz - 1)
    BY FS_Interval
  <2>2. HeldBy(q, A) \subseteq 0 .. q.sz - 1
    BY DEF HeldBy
  <2> QED BY <2>1, <2>2, FS_Subset, FS_CardinalityType DEF Held
<1>2. ASSUME NEW A, NEW v, v \notin A PROVE Held(q, A \cup {v}) = Held(q, A) + Held(q, {v})
  <2>1. HeldBy(q, A \cup {v}) = HeldBy(q, A) \cup HeldBy(q, {v}) /\ HeldBy(q, A) \cap HeldBy(q, {v}) = {}
    BY <1>2 DEF HeldBy
  <2>2. IsFiniteSet(HeldBy(q, A)) /\ IsFiniteSet(HeldBy(q, {v}))
    BY <1>1
  <2>3. Cardinality(HeldBy(q, A) \cap HeldBy(q, {v})) = 0
    BY <2>1, FS_EmptySet
  <2>4. Cardinality(HeldBy(q, A) \cup HeldBy(q, {v})) =
          Cardinality(HeldBy(q, A)) + Cardinality(HeldBy(q, {v})) - Cardinality(HeldBy(q, A) \cap HeldBy(q, {v}))
    BY <2>2, FS_Union
  <2>5. Held(q, A \cup {v}) = Held(q, A) + Held(q, {v}) - 0
    BY <2>1, <2>3, <2>4 DEF Held
  <2>6. Held(q, A) \in Nat /\ Held(q, {v}) \in Nat
    BY <1>1
  <2> QED BY <2>5, <2>6
<1>3. ASSUME NEW k \in 0 .. q.sz - 1, NEW A, q.data[k].obj \in A PROVE Held(q, A) > 0
  <2>1. k \in HeldBy(q, A)
    BY <1>3 DEF HeldBy
  <2>2. Held(q, A) # 0
    BY <1>1, <2>1, FS_EmptySet DEF Held
  <2> QED BY <1>1, <2>2
<1> QED BY <1>1, <1>2, <1>3
=============================================================================
