------------------------------ MODULE MapProofs -----------------------------
(***************************************************************************)
(* The table map.c and set.c probe, for any ids, any initial capacity      *)
(* above four and any number of keys and growths.                          *)
(***************************************************************************)
EXTENDS MCTables, TLAPS, FiniteSetTheorems, NaturalsInduction, WellFoundedInduction

-----------------------------------------------------------------------------
(* Division with remainder, and that it is unique.                         *)
LEMMA DivMod ==
  ASSUME NEW a \in Int, NEW c \in Nat, c > 0
  PROVE  /\ a % c \in 0 .. c - 1 /\ (a \div c) \in Int
         /\ a = (c * (a \div c)) + (a % c)
OBVIOUS

LEMMA DivModUnique ==
  ASSUME NEW c \in Nat, c > 0, NEW q \in Int, NEW p \in Int,
         NEW r \in 0 .. c - 1, NEW s \in 0 .. c - 1, (c * q) + r = (c * p) + s
  PROVE  q = p /\ r = s
OBVIOUS

LEMMA ModIs ==
  ASSUME NEW c \in Nat, c > 0, NEW a \in Int, NEW q \in Int, NEW r \in 0 .. c - 1,
         a = (c * q) + r
  PROVE  a % c = r
BY DivMod, DivModUnique

(* The steps from a home slot number the slots: one slot each, 0 at home,  *)
(* one more at the next slot until the way is around.                      *)
LEMMA StepsFacts ==
  ASSUME cap \in Nat, cap > 0, NEW k \in Nat
  PROVE  /\ \A i \in Slots : Steps(k, i) \in 0 .. cap - 1
         /\ \A i, j \in Slots : Steps(k, i) = Steps(k, j) => i = j
<1>1. ASSUME NEW i \in Slots PROVE Steps(k, i) \in 0 .. cap - 1
  BY DivMod DEF Steps, Slots
<1>2. ASSUME NEW i \in Slots, NEW j \in Slots, Steps(k, i) = Steps(k, j) PROVE i = j
  <2> DEFINE q == (i - k) \div cap
             p == (j - k) \div cap
             r == (i - k) % cap
  <2>1. r = (j - k) % cap
    BY <1>2 DEF Steps
  <2>2. /\ q \in Int /\ p \in Int /\ r \in Int
        /\ i - k = (cap * q) + r /\ j - k = (cap * p) + r
    BY <2>1, DivMod DEF Slots
  <2> HIDE DEF q, p, r
  <2>3. cap * (q - p) = (cap * q) - (cap * p) /\ cap * 0 = 0
    BY <2>2
  <2>4. (cap * 0) + i = (cap * (q - p)) + j
    BY <2>2, <2>3 DEF Slots
  <2> QED BY <2>2, <2>4, DivModUnique DEF Slots
<1> QED BY <1>1, <1>2

LEMMA HomeFacts ==
  ASSUME cap \in Nat, cap > 0, NEW k \in Nat
  PROVE  k % cap \in Slots /\ Steps(k, k % cap) = 0
<1> DEFINE m == k % cap
           d == k \div cap
<1>1. m \in 0 .. cap - 1 /\ d \in Int /\ k = (cap * d) + m
  BY DivMod
<1> HIDE DEF m, d
<1>2. cap * (0 - d) = 0 - (cap * d)
  BY <1>1
<1>3. m - k = (cap * (0 - d)) + 0
  BY <1>1, <1>2
<1>4. (m - k) % cap = 0
  BY <1>1, <1>3, ModIs
<1> QED BY <1>1, <1>4 DEF Steps, Slots, m

LEMMA NextSlotFacts ==
  ASSUME cap \in Nat, cap > 0, NEW k \in Nat, NEW i \in Slots
  PROVE  /\ (i + 1) % cap \in Slots
         /\ Steps(k, (i + 1) % cap) =
              IF Steps(k, i) + 1 < cap THEN Steps(k, i) + 1 ELSE 0
<1> DEFINE m == (i + 1) % cap
           d == (i + 1) \div cap
           r == (i - k) % cap
           q == (i - k) \div cap
<1>1. i \in Int /\ i + 1 \in Int /\ i - k \in Int
  BY DEF Slots
<1>2. m \in 0 .. cap - 1 /\ d \in Int /\ i + 1 = (cap * d) + m
  BY <1>1, DivMod
<1>3. r \in 0 .. cap - 1 /\ q \in Int /\ i - k = (cap * q) + r
  BY <1>1, DivMod
<1> HIDE DEF m, d, r, q
<1>4. /\ cap * (q - d) = (cap * q) - (cap * d)
      /\ cap * ((q + 1) - d) = ((cap * q) + cap) - (cap * d)
  BY <1>2, <1>3
<1>5. CASE r + 1 < cap
  <2>1. m - k = (cap * (q - d)) + (r + 1)
    BY <1>1, <1>2, <1>3, <1>4
  <2>2. (m - k) % cap = r + 1
    BY <1>2, <1>3, <1>5, <2>1, ModIs
  <2> QED BY <1>2, <1>5, <2>2 DEF Steps, Slots, m, r
<1>6. CASE ~(r + 1 < cap)
  <2>1. m - k = (cap * ((q + 1) - d)) + 0
    BY <1>1, <1>2, <1>3, <1>4, <1>6
  <2>2. (m - k) % cap = 0
    BY <1>2, <1>3, <2>1, ModIs
  <2> QED BY <1>2, <1>6, <2>2 DEF Steps, Slots, m, r
<1> QED BY <1>5, <1>6
-----------------------------------------------------------------------------
(* A key is in the table once, and is not both moved and still to move.    *)
KeyOnce ==
  /\ \A i, j \in Taken : keys[i] = keys[j] => i = j
  /\ \A i, j \in Left : old[i] = old[j] => i = j
  /\ \A i \in Taken, j \in Left : keys[i] # old[j]

(* Room for the insertion of the call under way and for one free slot.     *)
Roomy == 4 * sz <= IF pc \in {MOVE, PUT} THEN 3 * cap ELSE (3 * cap) + 4

(* What probing has passed by is taken by other keys.                      *)
Probed == pc \in {PUT, FIND} => Passes(key, idx)

Halves == pc = MOVE => cap = 2 * (cap \div 2)

Counted ==
  /\ IsFiniteSet(Stored) /\ sz = Cardinality(Stored)
  /\ sz = Cardinality(Taken) + Cardinality(Left)

TableInv == TableOK /\ KeyOnce /\ NoGap /\ Roomy /\ Probed /\ Halves /\ Counted

(* What the calls of both tables do to the variables of the table.         *)
Returned == pc \in {PUT, FIND} /\ ReturnUnchanged

TableStep ==
  \/ \E k \in Key : StartPut(k) \/ StartFind(k)
  \/ Move \/ MoveDone \/ Probe \/ Insert \/ Returned

LEMMA FiniteParts ==
  ASSUME TableOK
  PROVE  /\ Taken \subseteq Slots /\ IsFiniteSet(Taken) /\ IsFiniteSet(Left)
         /\ Cardinality(Slots) = cap /\ IsFiniteSet(Slots)
<1>1. IsFiniteSet(Slots) /\ Cardinality(Slots) = cap
  BY FS_Interval DEF TableOK, Slots
<1>2. Taken \subseteq Slots /\ IsFiniteSet(Taken)
  BY <1>1, FS_Subset DEF Taken
<1>3. \E b \in Int : DOMAIN old \subseteq 0 .. b
  <2>1. DOMAIN old \subseteq 0 .. (cap \div 2) - 1 /\ (cap \div 2) - 1 \in Int
    BY DEF TableOK
  <2> QED BY <2>1
<1>4. IsFiniteSet(Left)
  <2>1. PICK b \in Int : DOMAIN old \subseteq 0 .. b
    BY <1>3
  <2>2. Left \in SUBSET (0 .. b)
    BY <2>1 DEF Left
  <2>3. IsFiniteSet(0 .. b)
    BY <2>1, FS_Interval
  <2> QED BY <2>2, <2>3, FS_Subset
<1> QED BY <1>1, <1>2, <1>4

(* A table that is not too crowded has a free slot: fewer keys than slots. *)
LEMMA FreeSlot == TableInv => SomeFree
<1> SUFFICES ASSUME TableInv PROVE SomeFree
  OBVIOUS
<1>1. /\ IsFiniteSet(Taken) /\ IsFiniteSet(Left) /\ Taken \in SUBSET Slots
      /\ IsFiniteSet(Slots) /\ Cardinality(Slots) = cap
  BY FiniteParts DEF TableInv
<1>2. Cardinality(Taken) \in Nat /\ Cardinality(Left) \in Nat
  BY <1>1, FS_CardinalityType
<1>3. Cardinality(Taken) <= sz /\ sz < cap
  BY <1>2 DEF TableInv, Counted, Roomy, TableOK
<1>4. Taken # Slots
  BY <1>1, <1>2, <1>3 DEF TableInv, TableOK
<1> QED BY <1>1, <1>4 DEF SomeFree, Taken

(* The slot where probing for a key stops.                                 *)
LEMMA StopFacts ==
  ASSUME TableInv, NEW k \in Nat
  PROVE  Stop(k) \in Slots /\ keys[Stop(k)] \in {0, k} /\ Passes(k, Stop(k))
<1>1. cap \in Nat /\ cap > 0
  BY DEF TableInv, TableOK
<1> DEFINE Ends == {i \in Slots : keys[i] \in {0, k}}
           Ways == {Steps(k, i) : i \in Ends}
<1>2. Ways \subseteq Nat
  BY <1>1, StepsFacts
<1>3. Ways # {}
  BY FreeSlot DEF SomeFree
<1>4. PICK w \in Ways : \A v \in Ways : ~(v < w)
  <2>1. PICK m \in Ways : \A v \in Ways : ~(<<v, m>> \in OpToRel(<, Nat))
    BY <1>2, <1>3, NatLessThanWellFounded, WFMin
  <2> QED BY <1>2, <2>1 DEF OpToRel
<1>5. PICK i \in Ends : w = Steps(k, i)
  OBVIOUS
<1>6. Passes(k, i)
  BY <1>4, <1>5 DEF Passes
<1> QED BY <1>5, <1>6 DEF Stop

(* Probing for a key that is in the table does not stop at a free slot.    *)
LEMMA FreeMeansAbsent ==
  ASSUME TableInv, NEW k \in Nat, NEW i \in Slots, Passes(k, i), keys[i] = 0
  PROVE  \A j \in Taken : keys[j] # k
<1> SUFFICES ASSUME NEW j \in Taken, keys[j] = k PROVE FALSE
  OBVIOUS
<1>1. cap \in Nat /\ cap > 0 /\ j \in Slots /\ keys[j] # 0
  BY DEF TableInv, TableOK, Taken
<1>2. /\ Steps(k, i) \in 0 .. cap - 1 /\ Steps(k, j) \in 0 .. cap - 1
      /\ Steps(k, i) # Steps(k, j)
  BY <1>1, StepsFacts
<1>3. CASE Steps(k, j) < Steps(k, i)
  BY <1>1, <1>3 DEF Passes
<1>4. CASE Steps(k, i) < Steps(k, j)
  <2>1. Passes(k, j)
    BY DEF TableInv, NoGap
  <2> QED BY <1>4, <2>1 DEF Passes
<1> QED BY <1>2, <1>3, <1>4

LEMMA SmallFacts ==
  ASSUME TableOK
  PROVE  /\ cap \in Nat /\ cap > 4 /\ cap > 0 /\ key \in Nat
         /\ \A i \in Slots : keys[i] \in Nat /\ keys[i] \in Key \cup {0}
         /\ \A i \in DOMAIN old : old[i] \in Nat /\ old[i] \in Key \cup {0}
<1>1. Key \cup {0} \subseteq Nat
  BY TableAssumption
<1>2. \E D : old \in [D -> Key \cup {0}]
  BY DEF TableOK
<1>3. \A i \in DOMAIN old : old[i] \in Key \cup {0}
  BY <1>2
<1> QED BY <1>1, <1>3 DEF TableOK

(* A key written to the free slot where probing for it ends.               *)
LEMMA PlacedFacts ==
  ASSUME TableInv, NEW k \in (Key \cup {0}) \ {0}, NEW i \in Slots, keys[i] = 0, Passes(k, i),
         keys' = [keys EXCEPT ![i] = k], cap' = cap
  PROVE  /\ Slots' = Slots /\ keys' \in [Slots -> Key \cup {0}]
         /\ Taken' = Taken \cup {i} /\ i \notin Taken
         /\ keys'[i] = k /\ \A j \in Taken : keys'[j] = keys[j] /\ keys[j] # k
         /\ \A a, b \in Taken' : keys'[a] = keys'[b] => a = b
         /\ NoGap'
<1>1. k \in Nat /\ k # 0 /\ keys \in [Slots -> Key \cup {0}]
  BY TableAssumption DEF TableInv, TableOK
<1>2. Slots' = Slots /\ keys' \in [Slots -> Key \cup {0}]
  BY <1>1 DEF Slots
<1>3. keys'[i] = k /\ \A j \in Slots : j # i => keys'[j] = keys[j]
  BY <1>1
<1>4. Taken' = Taken \cup {i} /\ i \notin Taken /\ Taken \subseteq Slots
  BY <1>1, <1>2, <1>3 DEF Taken
<1>5. \A j \in Taken : keys'[j] = keys[j] /\ keys[j] # k
  BY <1>1, <1>3, <1>4, FreeMeansAbsent
<1>6. \A a, b \in Taken' : keys'[a] = keys'[b] => a = b
  BY <1>3, <1>4, <1>5 DEF TableInv, KeyOnce
<1>7. NoGap'
  <2> SUFFICES ASSUME NEW t \in Taken', NEW j \in Slots,
                      ((j - keys'[t]) % cap) < ((t - keys'[t]) % cap)
               PROVE  keys'[j] \notin {0, keys'[t]}
    BY <1>2 DEF NoGap, Passes, Steps
  <2>1. CASE t = i
    <3>1. keys[j] \notin {0, k}
      BY <1>3, <2>1 DEF Passes, Steps
    <3> QED BY <1>1, <1>3, <2>1, <3>1
  <2>2. CASE t # i
    <3>1. t \in Taken /\ keys'[t] = keys[t] /\ keys[t] # k
      BY <1>4, <1>5, <2>2
    <3>2. keys[j] \notin {0, keys[t]}
      BY <3>1 DEF TableInv, NoGap, Passes, Steps
    <3> QED BY <1>1, <1>3, <3>1, <3>2
  <2> QED BY <2>1, <2>2
<1> QED BY <1>2, <1>3, <1>4, <1>5, <1>6, <1>7

LEMMA CreateInv == Create => TableInv
<1> SUFFICES ASSUME Create PROVE TableInv
  OBVIOUS
<1>1. /\ cap \in Nat /\ cap > 4 /\ sz = 0 /\ pc = "idle" /\ key = 0 /\ idx = 0 /\ n = 0
      /\ keys = [i \in Slots |-> 0] /\ DOMAIN old = {} /\ old = [i \in {} |-> 0]
  <2>1. 0 .. 0 - 1 = {}
    OBVIOUS
  <2> QED BY <2>1, TableAssumption DEF Create, Blank, Slots, IDLE
<1>2. TableOK
  <2>1. keys \in [Slots -> Key \cup {0}] /\ old \in [{} -> Key \cup {0}] /\ idx \in Slots
    BY <1>1 DEF Slots
  <2> QED BY <1>1, <2>1 DEF TableOK, IDLE, MOVE, PUT, FIND
<1>3. Taken = {} /\ Left = {}
  BY <1>1 DEF Taken, Left
<1>4. Stored = {}
  BY <1>3 DEF Stored
<1> QED BY <1>1, <1>2, <1>3, <1>4, FS_EmptySet
        DEF TableInv, KeyOnce, NoGap, Roomy, Probed, Halves, Counted, MOVE, PUT, FIND

(* A step that leaves keys, count and capacity alone.                      *)
LEMMA SameTable ==
  ASSUME TableInv, keys' = keys, sz' = sz, cap' = cap, old' = old, n' = n
  PROVE  /\ Slots' = Slots /\ Taken' = Taken /\ Left' = Left /\ Stored' = Stored
         /\ KeyOnce' /\ NoGap' /\ Counted'
         /\ \A k, i : Passes(k, i)' <=> Passes(k, i)
<1>1. Slots' = Slots /\ Taken' = Taken /\ Left' = Left /\ Stored' = Stored
  BY DEF Slots, Taken, Left, Stored
<1>2. \A k, i : Passes(k, i)' <=> Passes(k, i)
  BY <1>1 DEF Passes, Steps
<1> QED BY <1>1, <1>2 DEF TableInv, KeyOnce, NoGap, Counted

LEMMA StartFindKeeps == ASSUME TableInv, NEW k \in Key, StartFind(k) PROVE TableInv'
<1>1. /\ keys' = keys /\ sz' = sz /\ cap' = cap /\ old' = old /\ n' = n
      /\ pc = IDLE /\ pc' = FIND /\ key' = k /\ idx' = k % cap
  BY DEF StartFind
<1>2. cap \in Nat /\ cap > 0 /\ k \in Nat
  BY SmallFacts, TableAssumption DEF TableInv
<1>3. k % cap \in Slots /\ Steps(k, k % cap) = 0
  BY <1>2, HomeFacts
<1>4. Passes(k, k % cap)
  BY <1>2, <1>3, StepsFacts DEF Passes
<1>5. /\ Slots' = Slots /\ KeyOnce' /\ NoGap' /\ Counted'
      /\ (Passes(k, k % cap)' <=> Passes(k, k % cap))
  BY <1>1, SameTable
<1>6. TableOK'
  BY <1>1, <1>3, <1>5 DEF TableInv, TableOK, IDLE, MOVE, PUT, FIND
<1>7. Probed'
  <2>1. Passes(key, idx)'
    BY <1>1, <1>4, <1>5 DEF Passes, Steps
  <2> QED BY <2>1 DEF Probed
<1> QED BY <1>1, <1>5, <1>6, <1>7 DEF TableInv, Roomy, Halves, IDLE, MOVE, PUT, FIND

LEMMA StartPutKeeps == ASSUME TableInv, NEW k \in Key, StartPut(k) PROVE TableInv'
<1>0. cap \in Nat /\ cap > 4 /\ cap > 0 /\ k \in Nat /\ sz \in Nat /\ pc = "idle"
  BY SmallFacts, TableAssumption DEF TableInv, TableOK, StartPut, IDLE
<1>1. CASE ~Crowded
  <2>1. /\ keys' = keys /\ sz' = sz /\ cap' = cap /\ old' = old /\ n' = n
        /\ pc = IDLE /\ pc' = PUT /\ key' = k /\ idx' = k % cap
    BY <1>1 DEF StartPut
  <2>2. k % cap \in Slots /\ Steps(k, k % cap) = 0
    BY <1>0, HomeFacts
  <2>3. Passes(k, k % cap)
    BY <1>0, <2>2, StepsFacts DEF Passes
  <2>4. Slots' = Slots /\ KeyOnce' /\ NoGap' /\ Counted'
    BY <2>1, SameTable
  <2>5. TableOK'
    BY <2>1, <2>2, <2>4 DEF TableInv, TableOK, IDLE, MOVE, PUT, FIND
  <2>6. Probed'
    <3>1. Passes(key, idx)'
      BY <2>1, <2>3, <2>4 DEF Passes, Steps
    <3> QED BY <3>1 DEF Probed
  <2>7. Roomy' /\ Halves'
    BY <1>0, <1>1, <2>1 DEF Crowded, Roomy, Halves, MOVE, PUT
  <2> QED BY <2>4, <2>5, <2>6, <2>7 DEF TableInv
<1>2. CASE Crowded
  <2>1. /\ old' = keys /\ n' = 0 /\ cap' = 2 * cap /\ keys' = Blank(2 * cap)
        /\ pc' = MOVE /\ idx' = 0 /\ sz' = sz /\ key' = k
    BY <1>2 DEF StartPut
  <2>2. /\ Slots' = 0 .. (2 * cap) - 1 /\ (2 * cap) \div 2 = cap /\ 2 * cap \in Nat
        /\ keys' = [i \in Slots' |-> 0]
    BY <1>0, <2>1 DEF Slots, Blank
  <2>3. keys \in [Slots -> Key \cup {0}] /\ DOMAIN old = {}
    BY <1>0 DEF TableInv, TableOK, MOVE
  <2>4. Taken' = {} /\ Left' = Taken /\ Left = {}
    BY <1>0, <2>1, <2>2, <2>3 DEF Taken, Left, Slots
  <2>5. Stored' = Stored
    BY <2>1, <2>4 DEF Stored
  <2>6. TableOK'
    <3>1. old' \in [0 .. ((2 * cap) \div 2) - 1 -> Key \cup {0}]
      BY <2>1, <2>2, <2>3 DEF Slots
    <3>2. keys' \in [Slots' -> Key \cup {0}] /\ idx' \in Slots'
      BY <1>0, <2>1, <2>2
    <3> QED BY <1>0, <2>1, <3>1, <3>2 DEF TableOK, IDLE, MOVE, PUT, FIND
  <2>7. KeyOnce' /\ NoGap'
    BY <2>1, <2>4 DEF TableInv, KeyOnce, NoGap
  <2>8. Counted'
    <3>1. Cardinality(Taken) \in Nat
      BY FiniteParts, FS_CardinalityType DEF TableInv
    <3>2. Cardinality({}) = 0
      BY FS_EmptySet
    <3>3. IsFiniteSet(Stored) /\ sz = Cardinality(Stored) /\ sz = Cardinality(Taken) + 0
      BY <2>4, <3>2 DEF TableInv, Counted
    <3>4. sz' = Cardinality(Taken') + Cardinality(Left')
      BY <2>1, <2>4, <3>1, <3>2, <3>3
    <3> QED BY <2>1, <2>5, <3>3, <3>4 DEF Counted
  <2>9. Roomy' /\ Halves' /\ Probed'
    BY <1>0, <2>1, <2>2 DEF TableInv, Roomy, Halves, Probed, IDLE, MOVE, PUT, FIND
  <2> QED BY <2>6, <2>7, <2>8, <2>9 DEF TableInv
<1> QED BY <1>1, <1>2

LEMMA ProbeKeeps == ASSUME TableInv, Probe PROVE TableInv'
<1>1. /\ keys' = keys /\ sz' = sz /\ cap' = cap /\ old' = old /\ n' = n
      /\ pc' = pc /\ key' = key /\ pc \in {PUT, FIND}
      /\ keys[idx] \notin {0, key} /\ idx' = (idx + 1) % cap
  BY DEF Probe
<1>2. cap \in Nat /\ cap > 0 /\ key \in Nat /\ idx \in Slots
  BY SmallFacts DEF TableInv, TableOK
<1>3. /\ idx' \in Slots
      /\ Steps(key, idx') = IF Steps(key, idx) + 1 < cap THEN Steps(key, idx) + 1 ELSE 0
  BY <1>1, <1>2, NextSlotFacts
<1>4. Passes(key, idx')
  <2> SUFFICES ASSUME NEW j \in Slots, Steps(key, j) < Steps(key, idx')
               PROVE  keys[j] \notin {0, key}
    BY DEF Passes
  <2>1. /\ Steps(key, j) \in 0 .. cap - 1 /\ Steps(key, idx) \in 0 .. cap - 1
        /\ Steps(key, j) = Steps(key, idx) => j = idx
    BY <1>2, StepsFacts
  <2>2. Steps(key, j) < Steps(key, idx) \/ j = idx
    BY <1>3, <2>1
  <2>3. Passes(key, idx)
    BY <1>1 DEF TableInv, Probed
  <2> QED BY <1>1, <2>2, <2>3 DEF Passes
<1>5. Slots' = Slots /\ KeyOnce' /\ NoGap' /\ Counted'
  BY <1>1, SameTable
<1>6. TableOK'
  BY <1>1, <1>3, <1>5 DEF TableInv, TableOK
<1>7. Probed'
  <2>1. Passes(key, idx)'
    BY <1>1, <1>4, <1>5 DEF Passes, Steps
  <2> QED BY <2>1 DEF Probed
<1> QED BY <1>1, <1>5, <1>6, <1>7 DEF TableInv, Roomy, Halves

LEMMA ReturnedKeeps == ASSUME TableInv, Returned PROVE TableInv'
<1>1. /\ keys' = keys /\ sz' = sz /\ cap' = cap /\ old' = old /\ n' = n
      /\ pc' = IDLE /\ key' = 0 /\ idx' = 0 /\ pc \in {PUT, FIND}
  BY DEF Returned, ReturnUnchanged, Return
<1>2. Slots' = Slots /\ KeyOnce' /\ NoGap' /\ Counted'
  BY <1>1, SameTable
<1>3. cap \in Nat /\ cap > 0 /\ sz \in Nat
  BY DEF TableInv, TableOK
<1>4. TableOK'
  BY <1>1, <1>2, <1>3 DEF TableInv, TableOK, Slots, IDLE, MOVE, PUT, FIND
<1>5. Roomy' /\ Halves' /\ Probed'
  BY <1>1, <1>3 DEF TableInv, Roomy, Halves, Probed, IDLE, MOVE, PUT, FIND
<1> QED BY <1>2, <1>4, <1>5 DEF TableInv

LEMMA InsertKeeps == ASSUME TableInv, Insert PROVE TableInv'
<1>1. /\ pc = PUT /\ keys[idx] = 0 /\ keys' = [keys EXCEPT ![idx] = key]
      /\ sz' = IF key = 0 THEN sz ELSE sz + 1
      /\ pc' = IDLE /\ key' = 0 /\ idx' = 0
      /\ cap' = cap /\ old' = old /\ n' = n
  BY DEF Insert, AtFree, Return
<1>2. /\ cap \in Nat /\ cap > 0 /\ key \in Nat /\ idx \in Slots /\ sz \in Nat
      /\ key \in Key \cup {0} /\ keys \in [Slots -> Key \cup {0}] /\ DOMAIN old = {}
      /\ old \in [{} -> Key \cup {0}]
  BY <1>1, SmallFacts DEF TableInv, TableOK, MOVE, PUT
<1>3. CASE key = 0
  <2>1. keys' = keys
    BY <1>1, <1>2, <1>3
  <2>2. Slots' = Slots /\ KeyOnce' /\ NoGap' /\ Counted'
    BY <1>1, <1>3, <2>1, SameTable
  <2>3. TableOK'
    BY <1>1, <1>2, <1>3, <2>1, <2>2 DEF TableInv, TableOK, Slots, IDLE, MOVE, PUT, FIND
  <2>4. Roomy' /\ Halves' /\ Probed'
    BY <1>1, <1>2, <1>3 DEF TableInv, Roomy, Halves, Probed, IDLE, MOVE, PUT, FIND
  <2> QED BY <2>2, <2>3, <2>4 DEF TableInv
<1>4. CASE key # 0
  <2>1. Passes(key, idx)
    BY <1>1 DEF TableInv, Probed
  <2>2. /\ Slots' = Slots /\ keys' \in [Slots -> Key \cup {0}]
        /\ Taken' = Taken \cup {idx} /\ idx \notin Taken
        /\ keys'[idx] = key /\ \A j \in Taken : keys'[j] = keys[j] /\ keys[j] # key
        /\ \A a, b \in Taken' : keys'[a] = keys'[b] => a = b
        /\ NoGap'
    BY <1>1, <1>2, <1>4, <2>1, PlacedFacts
  <2>3. Left = {} /\ Left' = {}
    BY <1>1, <1>2 DEF Left
  <2>4. KeyOnce'
    BY <2>2, <2>3 DEF KeyOnce
  <2>5. Counted'
    <3>1. Stored' = Stored \cup {key} /\ key \notin Stored
      BY <2>2, <2>3 DEF Stored
    <3>2. IsFiniteSet(Taken) /\ IsFiniteSet(Stored) /\ Cardinality(Left) = 0
      BY <2>3, FiniteParts, FS_EmptySet DEF TableInv, Counted
    <3>3. Cardinality(Taken) \in Nat
      BY <3>2, FS_CardinalityType
    <3>4. Cardinality(Taken') = Cardinality(Taken) + 1
      BY <2>2, <3>2, FS_AddElement
    <3>5. IsFiniteSet(Stored') /\ Cardinality(Stored') = Cardinality(Stored) + 1
      BY <3>1, <3>2, FS_AddElement
    <3>6. sz = Cardinality(Stored) /\ sz = Cardinality(Taken) + Cardinality(Left)
      BY DEF TableInv, Counted
    <3>7. sz' = sz + 1 /\ Cardinality(Left') = 0
      BY <1>1, <1>4, <2>3, <3>2
    <3> QED BY <3>2, <3>3, <3>4, <3>5, <3>6, <3>7 DEF Counted
  <2>6. TableOK'
    BY <1>1, <1>2, <1>4, <2>2 DEF TableInv, TableOK, Slots, IDLE, MOVE, PUT, FIND
  <2>7. Roomy' /\ Halves' /\ Probed'
    BY <1>1, <1>2, <1>4 DEF TableInv, Roomy, Halves, Probed, IDLE, MOVE, PUT, FIND
  <2> QED BY <2>2, <2>4, <2>5, <2>6, <2>7 DEF TableInv
<1> QED BY <1>3, <1>4

(* A key moved to the larger array: from the slots left to those taken.    *)
LEMMA MoveFacts ==
  ASSUME TableInv, Move, old[n] # 0
  PROVE  /\ keys' = [keys EXCEPT ![Stop(old[n])] = old[n]]
         /\ Stop(old[n]) \in Slots /\ Slots' = Slots /\ keys' \in [Slots -> Key \cup {0}]
         /\ Taken' = Taken \cup {Stop(old[n])} /\ Stop(old[n]) \notin Taken
         /\ keys'[Stop(old[n])] = old[n]
         /\ \A j \in Taken : keys'[j] = keys[j] /\ keys[j] # old[n]
         /\ \A a, b \in Taken' : keys'[a] = keys'[b] => a = b
         /\ NoGap'
         /\ n \in Left /\ Left' = Left \ {n} /\ Left = Left' \cup {n} /\ old' = old
<1> DEFINE k == old[n]
           i == Stop(k)
<1>1. /\ pc = MOVE /\ 2 * n < cap /\ n' = n + 1 /\ cap' = cap /\ old' = old
      /\ keys' = [keys EXCEPT ![i] = k]
  BY DEF Move
<1>2. n \in Nat /\ DOMAIN old = 0 .. (cap \div 2) - 1 /\ cap = 2 * (cap \div 2)
  BY <1>1 DEF TableInv, TableOK, Halves, MOVE
<1>3. n \in Left /\ Left' = Left \ {n} /\ Left = Left' \cup {n}
  BY <1>1, <1>2 DEF Left, TableInv, TableOK
<1>4. k \in (Key \cup {0}) \ {0} /\ k \in Nat
  BY <1>3, SmallFacts DEF TableInv, Left
<1>5. i \in Slots /\ keys[i] \in {0, k} /\ Passes(k, i)
  BY <1>4, StopFacts
<1>6. keys[i] = 0
  <2>1. \A j \in Taken : keys[j] # k
    BY <1>3 DEF TableInv, KeyOnce
  <2> QED BY <1>5, <2>1 DEF Taken
<1> HIDE DEF i, k
<1>7. /\ Slots' = Slots /\ keys' \in [Slots -> Key \cup {0}]
      /\ Taken' = Taken \cup {i} /\ i \notin Taken
      /\ keys'[i] = k /\ \A j \in Taken : keys'[j] = keys[j] /\ keys[j] # k
      /\ \A a, b \in Taken' : keys'[a] = keys'[b] => a = b
      /\ NoGap'
  BY <1>1, <1>4, <1>5, <1>6, PlacedFacts
<1> QED BY <1>1, <1>3, <1>5, <1>7 DEF i, k

LEMMA MoveKeeps == ASSUME TableInv, Move PROVE TableInv'
<1>1. /\ pc = MOVE /\ 2 * n < cap /\ n' = n + 1
      /\ sz' = sz /\ cap' = cap /\ pc' = pc /\ key' = key /\ idx' = idx /\ old' = old
      /\ keys' = IF old[n] = 0 THEN keys ELSE [keys EXCEPT ![Stop(old[n])] = old[n]]
  BY DEF Move
<1>2. /\ cap \in Nat /\ cap > 0 /\ idx \in Slots /\ sz \in Nat /\ n \in Nat
      /\ keys \in [Slots -> Key \cup {0}]
      /\ DOMAIN old = 0 .. (cap \div 2) - 1
      /\ cap = 2 * (cap \div 2) /\ cap \div 2 \in Nat
  BY <1>1 DEF TableInv, TableOK, Halves, MOVE
<1>3. n \in DOMAIN old
  BY <1>1, <1>2
<1>4. Left = Left' \cup (IF old[n] = 0 THEN {} ELSE {n}) /\ n \notin Left'
  BY <1>1, <1>2, <1>3 DEF Left
<1>5. CASE old[n] = 0
  <2>1. keys' = keys /\ Left' = Left
    BY <1>1, <1>4, <1>5
  <2>2. Slots' = Slots /\ Taken' = Taken /\ Stored' = Stored
    BY <1>1, <2>1 DEF Slots, Taken, Stored
  <2>3. KeyOnce' /\ NoGap' /\ Counted'
    <3>1. KeyOnce'
      BY <1>1, <2>1, <2>2 DEF TableInv, KeyOnce
    <3>2. NoGap'
      BY <1>1, <2>1, <2>2 DEF TableInv, NoGap, Passes, Steps
    <3>3. Counted'
      BY <1>1, <2>1, <2>2 DEF TableInv, Counted
    <3> QED BY <3>1, <3>2, <3>3
  <2>4. TableOK'
    <3>1. n' \in Nat /\ MOVE # PUT
      BY <1>1, <1>2 DEF MOVE, PUT
    <3> QED BY <1>1, <2>1, <2>2, <3>1 DEF TableInv, TableOK
  <2> QED BY <1>1, <2>3, <2>4 DEF TableInv, Roomy, Halves, Probed, MOVE, PUT, FIND
<1>6. CASE old[n] # 0
  <2> DEFINE k == old[n]
             i == Stop(k)
  <2>1. n \in Left /\ Left' = Left \ {n} /\ Left = Left' \cup {n}
    BY <1>6, MoveFacts
  <2>2. /\ Slots' = Slots /\ keys' \in [Slots -> Key \cup {0}]
        /\ Taken' = Taken \cup {i} /\ i \notin Taken
        /\ keys'[i] = k /\ \A j \in Taken : keys'[j] = keys[j] /\ keys[j] # k
        /\ \A a, b \in Taken' : keys'[a] = keys'[b] => a = b
        /\ NoGap'
    BY <1>6, MoveFacts
  <2> HIDE DEF i
  <2>3. KeyOnce'
    <3>1. \A a, b \in Left' : old'[a] = old'[b] => a = b
      BY <1>1, <2>1 DEF TableInv, KeyOnce
    <3>2. ASSUME NEW a \in Taken', NEW b \in Left' PROVE keys'[a] # old'[b]
      <4>1. b \in Left /\ b # n /\ old'[b] = old[b] /\ old[b] # k
        BY <1>1, <2>1, <3>2 DEF TableInv, KeyOnce
      <4>2. CASE a = i
        BY <2>2, <4>1, <4>2
      <4>3. CASE a # i
        BY <2>2, <3>2, <4>1, <4>3 DEF TableInv, KeyOnce
      <4> QED BY <4>2, <4>3
    <3> QED BY <2>2, <3>1, <3>2 DEF KeyOnce
  <2>4. Counted'
    <3>1. Stored' = Stored
      <4>1. Stored = {keys[a] : a \in Taken} \cup {old[b] : b \in Left' \cup {n}}
        BY <2>1 DEF Stored
      <4>2. Stored' = {keys'[a] : a \in Taken \cup {i}} \cup {old[b] : b \in Left'}
        BY <1>1, <2>2 DEF Stored
      <4>3. {keys'[a] : a \in Taken \cup {i}} = {keys[a] : a \in Taken} \cup {k}
        BY <2>2
      <4>4. {old[b] : b \in Left' \cup {n}} = {old[b] : b \in Left'} \cup {k}
        OBVIOUS
      <4> QED BY <4>1, <4>2, <4>3, <4>4
    <3>2. IsFiniteSet(Taken) /\ IsFiniteSet(Left)
      BY FiniteParts DEF TableInv
    <3>3. Cardinality(Taken) \in Nat /\ Cardinality(Left) \in Nat
      BY <3>2, FS_CardinalityType
    <3>4. Cardinality(Taken') = Cardinality(Taken) + 1
      BY <2>2, <3>2, FS_AddElement
    <3>5. Cardinality(Left') = Cardinality(Left) - 1
      BY <2>1, <3>2, FS_RemoveElement
    <3>6. IsFiniteSet(Stored) /\ sz = Cardinality(Stored) /\ sz = Cardinality(Taken) + Cardinality(Left)
      BY DEF TableInv, Counted
    <3>7. Cardinality(Taken') + Cardinality(Left') = Cardinality(Taken) + Cardinality(Left)
      BY <3>3, <3>4, <3>5
    <3> QED BY <1>1, <3>1, <3>6, <3>7 DEF Counted
  <2>5. TableOK'
    BY <1>1, <1>2, <2>2 DEF TableInv, TableOK
  <2> QED BY <1>1, <2>2, <2>3, <2>4, <2>5 DEF TableInv, Roomy, Halves, Probed, MOVE, PUT, FIND
<1> QED BY <1>5, <1>6

LEMMA MoveDoneKeeps == ASSUME TableInv, MoveDone PROVE TableInv'
<1>1. /\ pc = MOVE /\ 2 * n >= cap /\ old' = Blank(0) /\ n' = 0 /\ pc' = PUT
      /\ idx' = key % cap /\ keys' = keys /\ sz' = sz /\ cap' = cap /\ key' = key
  BY DEF MoveDone
<1>2. /\ cap \in Nat /\ cap > 0 /\ key \in Nat /\ sz \in Nat /\ n \in Nat
      /\ DOMAIN old = 0 .. (cap \div 2) - 1 /\ cap = 2 * (cap \div 2)
  BY <1>1, SmallFacts DEF TableInv, TableOK, Halves, MOVE
<1>3. old' = [i \in {} |-> 0] /\ DOMAIN old' = {}
  <2>1. 0 .. 0 - 1 = {}
    OBVIOUS
  <2> QED BY <1>1, <2>1 DEF Blank
<1>4. Left = {} /\ Left' = {}
  BY <1>1, <1>2, <1>3 DEF Left
<1>5. Slots' = Slots /\ Taken' = Taken
  BY <1>1 DEF Slots, Taken
<1>6. Stored' = Stored
  BY <1>1, <1>4, <1>5 DEF Stored
<1>7. KeyOnce' /\ NoGap' /\ Counted'
  BY <1>1, <1>4, <1>5, <1>6 DEF TableInv, KeyOnce, NoGap, Counted, Passes, Steps
<1>8. key % cap \in Slots /\ Steps(key, key % cap) = 0
  BY <1>2, HomeFacts
<1>9. Passes(key, key % cap)
  BY <1>2, <1>8, StepsFacts DEF Passes
<1>10. Probed'
  <2>1. Passes(key, idx)'
    BY <1>1, <1>5, <1>9 DEF Passes, Steps
  <2> QED BY <2>1 DEF Probed
<1>11. TableOK'
  <2>1. old' \in [{} -> Key \cup {0}]
    BY <1>3
  <2> QED BY <1>1, <1>5, <1>8, <2>1 DEF TableInv, TableOK, IDLE, MOVE, PUT, FIND
<1>12. Roomy' /\ Halves'
  BY <1>1 DEF TableInv, Roomy, Halves, MOVE, PUT
<1> QED BY <1>7, <1>10, <1>11, <1>12 DEF TableInv

LEMMA TableInvStep == TableInv /\ [TableStep]_tablevars => TableInv'
<1> SUFFICES ASSUME TableInv, [TableStep]_tablevars PROVE TableInv'
  OBVIOUS
<1>1. CASE UNCHANGED tablevars
  BY <1>1 DEF tablevars, TableInv, TableOK, KeyOnce, NoGap, Roomy, Probed, Halves, Counted,
              Taken, Left, Stored, Slots, Passes, Steps
<1> QED BY <1>1, StartPutKeeps, StartFindKeeps, MoveKeeps, MoveDoneKeeps, ProbeKeeps,
           InsertKeeps, ReturnedKeeps DEF TableStep
-----------------------------------------------------------------------------
(* What the steps do to the keys that are stored.                          *)
LEMMA NothingLeft == ASSUME TableOK, pc # MOVE PROVE Left = {}
BY DEF TableOK, Left

LEMMA AtKeyFacts ==
  ASSUME TableInv, AtKey PROVE key \in Stored /\ key # 0 /\ idx \in Taken /\ keys[idx] = key
BY DEF TableInv, TableOK, AtKey, Taken, Stored

LEMMA AtFreeFacts ==
  ASSUME TableInv, AtFree PROVE key \notin Stored /\ idx \in Slots /\ keys[idx] = 0
<1>1. /\ pc \in {PUT, FIND} /\ keys[idx] = 0 /\ Passes(key, idx) /\ pc # MOVE
      /\ idx \in Slots /\ key \in Nat /\ Left = {}
  BY SmallFacts, NothingLeft DEF TableInv, TableOK, AtFree, Probed, MOVE, PUT, FIND
<1>2. \A j \in Taken : keys[j] # key
  BY <1>1, FreeMeansAbsent
<1> QED BY <1>1, <1>2 DEF Stored

LEMMA StartPutStores ==
  ASSUME TableInv, NEW k \in Key, StartPut(k)
  PROVE  /\ Stored' = Stored /\ Left = {}
         /\ ~Crowded => keys' = keys /\ Taken' = Taken /\ Left' = {} /\ cap' = cap /\ old' = old
         /\ Crowded => keys' = Blank(2 * cap) /\ Taken' = {} /\ Left' = Taken /\ old' = keys
                       /\ cap' = 2 * cap
<1>1. pc = IDLE /\ pc # MOVE /\ cap \in Nat /\ DOMAIN keys = Slots
  BY DEF StartPut, IDLE, MOVE, TableInv, TableOK
<1>2. Left = {}
  BY <1>1, NothingLeft DEF TableInv
<1>3. CASE ~Crowded
  <2>1. keys' = keys /\ cap' = cap /\ old' = old /\ n' = n
    BY <1>3 DEF StartPut
  <2>2. Taken' = Taken /\ Left' = Left /\ Stored' = Stored
    BY <2>1 DEF Taken, Left, Slots, Stored
  <2> QED BY <1>2, <1>3, <2>1, <2>2
<1>4. CASE Crowded
  <2>1. keys' = Blank(2 * cap) /\ cap' = 2 * cap /\ old' = keys /\ n' = 0
    BY <1>4 DEF StartPut
  <2>2. Taken' = {}
    BY <2>1 DEF Taken, Slots, Blank
  <2>3. Left' = Taken
    BY <1>1, <2>1 DEF Left, Taken, Slots
  <2>4. Stored' = Stored
    BY <1>2, <2>1, <2>2, <2>3 DEF Stored
  <2> QED BY <1>2, <1>4, <2>1, <2>2, <2>3, <2>4
<1> QED BY <1>3, <1>4

LEMMA InsertStores ==
  ASSUME TableInv, Insert
  PROVE  /\ Stored' = Stored \cup ({key} \ {0}) /\ Left = {} /\ Left' = {} /\ old' = old
         /\ key = 0 => keys' = keys /\ Taken' = Taken
         /\ key # 0 => /\ Taken' = Taken \cup {idx} /\ idx \notin Taken /\ keys'[idx] = key
                       /\ \A j \in Taken : keys'[j] = keys[j]
<1>1. /\ pc = PUT /\ pc # MOVE /\ keys[idx] = 0 /\ keys' = [keys EXCEPT ![idx] = key]
      /\ cap' = cap /\ old' = old /\ n' = n /\ idx \in Slots /\ key \in Key \cup {0}
      /\ keys \in [Slots -> Key \cup {0}]
  BY DEF Insert, AtFree, MOVE, PUT, TableInv, TableOK
<1>2. Left = {} /\ Left' = {}
  <2>1. Left = {}
    BY <1>1, NothingLeft DEF TableInv
  <2>2. Left' = Left
    BY <1>1 DEF Left
  <2> QED BY <2>1, <2>2
<1>3. CASE key = 0
  <2>1. keys' = keys
    BY <1>1, <1>3
  <2>2. Taken' = Taken
    BY <1>1, <2>1 DEF Taken, Slots
  <2> QED BY <1>1, <1>2, <1>3, <2>1, <2>2 DEF Stored
<1>4. CASE key # 0
  <2>1. Passes(key, idx)
    BY <1>1 DEF TableInv, Probed
  <2>2. /\ Taken' = Taken \cup {idx} /\ idx \notin Taken /\ keys'[idx] = key
        /\ \A j \in Taken : keys'[j] = keys[j]
    BY <1>1, <1>4, <2>1, PlacedFacts
  <2>3. Stored' = Stored \cup {key}
    BY <1>2, <2>2 DEF Stored
  <2> QED BY <1>1, <1>2, <1>4, <2>2, <2>3
<1> QED BY <1>3, <1>4

LEMMA MoveStores ==
  ASSUME TableInv, Move
  PROVE  /\ Stored' = Stored /\ old' = old
         /\ old[n] = 0 => keys' = keys /\ Taken' = Taken /\ Left' = Left
<1>1. /\ old' = old /\ n' = n + 1 /\ cap' = cap /\ n \in Nat /\ DOMAIN old \subseteq Int
      /\ keys' = IF old[n] = 0 THEN keys ELSE [keys EXCEPT ![Stop(old[n])] = old[n]]
  BY DEF Move, TableInv, TableOK
<1>2. CASE old[n] = 0
  <2>1. keys' = keys /\ Taken' = Taken
    BY <1>1, <1>2 DEF Taken, Slots
  <2>2. Left' = Left
    BY <1>1, <1>2 DEF Left
  <2> QED BY <1>1, <2>1, <2>2 DEF Stored
<1>3. CASE old[n] # 0
  <2> DEFINE i == Stop(old[n])
  <2>1. /\ Taken' = Taken \cup {i} /\ i \notin Taken /\ keys'[i] = old[n]
        /\ \A j \in Taken : keys'[j] = keys[j]
        /\ Left = Left' \cup {n}
    BY <1>3, MoveFacts
  <2> HIDE DEF i
  <2>2. {keys'[a] : a \in Taken \cup {i}} = {keys[a] : a \in Taken} \cup {old[n]}
    BY <2>1
  <2>3. {old[b] : b \in Left' \cup {n}} = {old[b] : b \in Left'} \cup {old[n]}
    OBVIOUS
  <2> QED BY <1>1, <1>3, <2>1, <2>2, <2>3 DEF Stored
<1> QED BY <1>2, <1>3

LEMMA MoveDoneStores ==
  ASSUME TableInv, MoveDone
  PROVE  Stored' = Stored /\ keys' = keys /\ Taken' = Taken /\ Left = {} /\ Left' = {}
<1>1. /\ pc = MOVE /\ 2 * n >= cap /\ old' = Blank(0) /\ keys' = keys /\ cap' = cap
  BY DEF MoveDone
<1>2. /\ cap \in Nat /\ n \in Nat /\ DOMAIN old = 0 .. (cap \div 2) - 1 /\ cap = 2 * (cap \div 2)
  BY <1>1 DEF TableInv, TableOK, Halves, MOVE
<1>3. DOMAIN old' = {}
  <2>1. 0 .. 0 - 1 = {}
    OBVIOUS
  <2> QED BY <1>1, <2>1 DEF Blank
<1>4. Left = {} /\ Left' = {}
  BY <1>1, <1>2, <1>3 DEF Left
<1>5. Taken' = Taken
  BY <1>1 DEF Taken, Slots
<1> QED BY <1>1, <1>4, <1>5 DEF Stored
-----------------------------------------------------------------------------
(***************************************************************************)
(* map.c and set.c implement a map and a set of ids, for any ids, values   *)
(* and initial capacity above four, through any number of growths.         *)
(***************************************************************************)

(* The set works on the same table as the map.                             *)
LEMMA OneTable ==
  /\ \A k : (S!StartPut(k) <=> StartPut(k)) /\ (S!StartFind(k) <=> StartFind(k))
  /\ (S!Move <=> Move) /\ (S!MoveDone <=> MoveDone) /\ (S!Probe <=> Probe) /\ (S!Insert <=> Insert)
  /\ (S!AtKey <=> AtKey) /\ (S!AtFree <=> AtFree) /\ (S!ReturnUnchanged <=> ReturnUnchanged)
  /\ S!Stored = Stored /\ S!CallName = CallName /\ (S!Create <=> Create)
<1> USE DEF S!IDLE, S!MOVE, S!PUT, S!FIND, IDLE, MOVE, PUT, FIND
<1>1. \A k : (S!StartPut(k) <=> StartPut(k)) /\ (S!StartFind(k) <=> StartFind(k))
  BY DEF S!StartPut, S!StartFind, StartPut, StartFind, S!Crowded, Crowded, S!Blank, Blank
<1>2. \A k : S!Stop(k) = Stop(k)
  BY DEF S!Stop, Stop, S!Slots, Slots, S!Passes, Passes, S!Steps, Steps
<1>3. S!Move <=> Move
  BY <1>2 DEF S!Move, Move
<1>4. (S!MoveDone <=> MoveDone) /\ (S!Probe <=> Probe)
  BY DEF S!MoveDone, MoveDone, S!Probe, Probe, S!Blank, Blank
<1>5. /\ (S!AtKey <=> AtKey) /\ (S!AtFree <=> AtFree) /\ (S!ReturnUnchanged <=> ReturnUnchanged)
      /\ (S!Insert <=> Insert)
  BY DEF S!AtKey, AtKey, S!AtFree, AtFree, S!ReturnUnchanged, ReturnUnchanged, S!Return, Return,
         S!Insert, Insert
<1>6. S!Stored = Stored
  BY DEF S!Stored, Stored, S!Taken, Taken, S!Left, Left, S!Slots, Slots
<1>7. S!CallName = CallName
  BY DEF S!CallName, CallName
<1>8. S!Create <=> Create
  BY DEF S!Create, Create, S!Blank, Blank
<1> QED BY <1>1, <1>3, <1>4, <1>5, <1>6, <1>7, <1>8

LEMMA NextOneTable == S!Stored' = Stored' /\ S!CallName' = CallName'
<1>1. S!Stored = Stored /\ S!CallName = CallName
  BY OneTable
<1>2. (S!Stored = Stored /\ S!CallName = CallName)'
  BY <1>1, PTL
<1> QED BY <1>2

(* What both tables do is what TableProofs is about.                       *)
LEMMA StepIsTableStep == [MCNext]_tables => [TableStep]_tablevars
<1> SUFFICES ASSUME [MCNext]_tables PROVE [TableStep]_tablevars
  OBVIOUS
<1>0. CASE UNCHANGED tables
  BY <1>0 DEF tables, mapvars
<1>1. ASSUME NEW k \in Key, Get(k) \/ \E v \in Stores : Put(k, v) PROVE [TableStep]_tablevars
  BY <1>1 DEF Get, Put, TableStep
<1>2. CASE Run
  BY <1>2 DEF Run, MovePair, MovedAll, ProbeOn, PutNew, Overwrite, Found, Missing, TableStep,
              Returned, PUT, FIND
<1>3. ASSUME NEW k \in Key, S!Add(k) \/ S!Contains(k) PROVE [TableStep]_tablevars
  BY <1>3, OneTable DEF S!Add, S!Contains, TableStep
<1>4. CASE S!Run
  <2>1. S!PUT = PUT /\ S!FIND = FIND
    BY DEF S!PUT, S!FIND, PUT, FIND
  <2> QED BY <1>4, <2>1, OneTable DEF S!Run, S!MoveKey, S!MovedAll, S!ProbeOn, S!AddNew, S!AddKnown,
              S!Found, S!Missing, TableStep, Returned
<1> QED BY <1>0, <1>1, <1>2, <1>3, <1>4 DEF MCNext, Calling, Running

LEMMA TableInvInit == MCInit => TableInv
BY CreateInv, OneTable DEF MCInit, Init, S!Init

LEMMA TableInvAlways == MCSpec => []TableInv
<1>1. TableInv /\ [MCNext]_tables => TableInv'
  BY StepIsTableStep, TableInvStep
<1> QED BY <1>1, TableInvInit, PTL DEF MCSpec

(* Every key stays where probing for it gets to, also while a growth moves *)
(* the keys over (map.c:72-81, 99-108; set.c:63-76, 92-101).               *)
THEOREM ProbesReach == MCSpec => []NoGap
<1>1. TableInv => NoGap
  BY DEF TableInv
<1> QED BY <1>1, TableInvAlways, PTL

(* The count that decides on growth is the number of keys at every step of *)
(* every call (map.c:48-86; set.c:41-81).                                  *)
THEOREM CountIsRight == MCSpec => []CountsKeys
<1>1. TableInv => CountsKeys
  BY DEF TableInv, Counted, CountsKeys
<1> QED BY <1>1, TableInvAlways, PTL

(* Whatever is put in, a free slot remains, so probing for a key that is   *)
(* not there comes to an end (map.c:48, 101; set.c:41, 94).                *)
THEOREM FreeSlotStays == MCSpec => []SomeFree
BY FreeSlot, TableInvAlways, PTL
-----------------------------------------------------------------------------
(* Between calls nothing is asked.                                         *)
Quiet == pc = IDLE => key = 0

LEMMA QuietStep == Quiet /\ [TableStep]_tablevars => Quiet'
BY DEF Quiet, TableStep, tablevars, StartPut, StartFind, Move, MoveDone, Probe, Insert, Returned,
       ReturnUnchanged, Return, IDLE, MOVE, PUT, FIND

(* What a call of the table means for the call that is asked.              *)
LEMMA NameFacts ==
  /\ pc = IDLE => CallName = "none"
  /\ pc \in {MOVE, PUT} => CallName = "put"
  /\ pc = FIND => CallName = "get"
BY DEF CallName, IDLE, MOVE, PUT, FIND

LEMMA SetInitMaps == MCInit => (SetKind => S!Abstract!SetInit)
<1> SUFFICES ASSUME MCInit, SetKind PROVE S!Abstract!SetInit
  OBVIOUS
<1>1. Create /\ result = FALSE
  BY OneTable DEF MCInit, SetKind, S!Init
<1>2. pc = "idle" /\ key = 0 /\ Stored = {}
  <2>1. Taken = {} /\ Left = {}
    BY <1>1 DEF Create, Blank, Taken, Left, Slots
  <2> QED BY <1>1, <2>1 DEF Create, IDLE, Stored
<1>3. S!CallName = "none" /\ S!Stored = {}
  <2>1. CallName = "none"
    BY <1>2, NameFacts DEF IDLE
  <2> QED BY <1>2, <2>1, OneTable
<1> QED BY <1>1, <1>2, <1>3 DEF S!Abstract!SetInit, S!Abstract!NoCall, S!Abstract!Call

LEMMA NextNameFacts ==
  /\ pc' = IDLE => CallName' = "none"
  /\ pc' \in {MOVE, PUT} => CallName' = "put"
  /\ pc' = FIND => CallName' = "get"
BY DEF CallName, IDLE, MOVE, PUT, FIND

LEMMA SetStepMaps ==
  ASSUME TableInv, Quiet, SetKind, [MCNext]_tables
  PROVE  S!Abstract!SetNext \/ UNCHANGED <<S!Abstract!membervars, kind>>
<1> USE NameFacts, NextNameFacts
<1> DEFINE Asks(name, k) ==
      /\ CallName = "none" /\ key = 0 /\ CallName' = name /\ key' = k
      /\ Stored' = Stored /\ result' = result
<1>1. ASSUME NEW k \in Key, NEW name \in {"put", "get"}, Asks(name, k)
      PROVE  S!Abstract!SetNext
  <2>1. S!Stored' = S!Stored /\ S!CallName = "none" /\ S!CallName' = name
    BY <1>1, OneTable, NextOneTable
  <2> QED BY <1>1, <2>1 DEF S!Abstract!SetNext, S!Abstract!Ask, S!Abstract!Call, S!Abstract!NoCall
<1> HIDE DEF Asks
<1>2. ASSUME Stored' = Stored, CallName' = CallName, key' = key, result' = result, kind' = kind
      PROVE  UNCHANGED <<S!Abstract!membervars, kind>>
  BY <1>2, OneTable, NextOneTable DEF S!Abstract!membervars
<1>3. CASE UNCHANGED tables
  BY <1>2, <1>3 DEF tables, mapvars, tablevars, Stored, Taken, Left, Slots, CallName
<1>4. ASSUME NEW k \in Key, S!Add(k) PROVE S!Abstract!SetNext
  <2>1. StartPut(k) /\ result' = result
    BY <1>4, OneTable DEF S!Add
  <2>2. pc = IDLE /\ pc' \in {MOVE, PUT} /\ key' = k
    BY <2>1 DEF StartPut
  <2>3. Asks("put", k)
    BY <2>1, <2>2, StartPutStores DEF Asks, Quiet
  <2> QED BY <1>1, <2>3
<1>5. ASSUME NEW k \in Key, S!Contains(k) PROVE S!Abstract!SetNext
  <2>1. StartFind(k) /\ result' = result
    BY <1>5, OneTable DEF S!Contains
  <2>2. pc = IDLE /\ pc' = FIND /\ key' = k
    BY <2>1 DEF StartFind
  <2>3. Stored' = Stored
    BY <2>1 DEF StartFind, Stored, Taken, Left, Slots
  <2>4. Asks("get", k)
    BY <2>1, <2>2, <2>3 DEF Asks, Quiet
  <2> QED BY <1>1, <2>4
<1>6. ASSUME S!MoveKey \/ S!MovedAll \/ S!ProbeOn, kind' = kind
      PROVE  UNCHANGED <<S!Abstract!membervars, kind>>
  <2>1. (Move \/ MoveDone \/ Probe) /\ result' = result
    BY <1>6, OneTable DEF S!MoveKey, S!MovedAll, S!ProbeOn
  <2>2. Stored' = Stored
    <3>1. CASE Probe
      BY <3>1 DEF Probe, Stored, Taken, Left, Slots
    <3> QED BY <2>1, <3>1, MoveStores, MoveDoneStores
  <2>3. key' = key /\ CallName' = CallName
    BY <2>1 DEF Move, MoveDone, Probe, CallName, IDLE, MOVE, PUT, FIND
  <2> QED BY <1>2, <1>6, <2>1, <2>2, <2>3
<1> DEFINE Answers(name, S2, a) ==
      /\ CallName = name /\ CallName' = "none" /\ key' = 0
      /\ Stored' = S2 /\ result' = a
<1>7. ASSUME Answers("put", Stored \cup ({key} \ {0}), key \notin Stored \cup {0})
      PROVE  S!Abstract!SetNext
  <2>1. S!Stored' = Stored' /\ S!Stored = Stored /\ S!CallName = CallName /\ S!CallName' = CallName'
    BY OneTable, NextOneTable
  <2> QED BY <1>7, <2>1 DEF S!Abstract!SetNext, S!Abstract!AnswerAdd, S!Abstract!Call, S!Abstract!NoCall
<1>8. ASSUME Answers("get", Stored, key \in Stored) PROVE S!Abstract!SetNext
  <2>1. S!Stored' = Stored' /\ S!Stored = Stored /\ S!CallName = CallName /\ S!CallName' = CallName'
    BY OneTable, NextOneTable
  <2> QED BY <1>8, <2>1 DEF S!Abstract!SetNext, S!Abstract!AnswerContains, S!Abstract!Call, S!Abstract!NoCall
<1>9. ASSUME S!AddNew PROVE S!Abstract!SetNext
  <2>1. Insert /\ result' = (key # 0)
    BY <1>9, OneTable DEF S!AddNew
  <2>2. pc = PUT /\ pc' = IDLE /\ key' = 0 /\ AtFree
    BY <2>1 DEF Insert, Return
  <2>3. key \notin Stored
    BY <2>2, AtFreeFacts
  <2>4. (key # 0) = (key \notin Stored \cup {0})
    BY <2>3
  <2>5. Stored' = Stored \cup ({key} \ {0})
    BY <2>1, InsertStores
  <2> QED BY <1>7, <2>1, <2>2, <2>4, <2>5
<1>10. ASSUME S!AddKnown \/ S!Found \/ S!Missing PROVE S!Abstract!SetNext
  <2>1. /\ ReturnUnchanged
        /\ \/ pc = PUT /\ AtKey /\ result' = FALSE
           \/ pc = FIND /\ AtKey /\ result' = TRUE
           \/ pc = FIND /\ AtFree /\ result' = FALSE
    BY <1>10, OneTable DEF S!AddKnown, S!Found, S!Missing, S!PUT, PUT, S!FIND, FIND
  <2>2. pc' = IDLE /\ key' = 0 /\ Stored' = Stored
    BY <2>1 DEF ReturnUnchanged, Return, Stored, Taken, Left, Slots
  <2>3. CASE pc = PUT /\ AtKey /\ result' = FALSE
    <3>1. FALSE = (key \notin Stored \cup {0}) /\ Stored = Stored \cup ({key} \ {0})
      BY <2>3, AtKeyFacts
    <3> QED BY <1>7, <2>2, <2>3, <3>1
  <2>4. CASE pc = FIND /\ AtKey /\ result' = TRUE
    <3>1. TRUE = (key \in Stored)
      BY <2>4, AtKeyFacts
    <3> QED BY <1>8, <2>2, <2>4, <3>1
  <2>5. CASE pc = FIND /\ AtFree /\ result' = FALSE
    <3>1. FALSE = (key \in Stored)
      BY <2>5, AtFreeFacts
    <3> QED BY <1>8, <2>2, <2>5, <3>1
  <2> QED BY <2>1, <2>3, <2>4, <2>5
<1>11. MCNext => SetKind /\ ~MapKind /\ kind' = kind
  BY DEF MCNext, Calling, Running, SetKind, MapKind
<1> QED BY <1>3, <1>4, <1>5, <1>6, <1>9, <1>10, <1>11 DEF MCNext, Calling, Running, S!Run

(* set.c implements a set of ids other than 0, whatever the ids, however   *)
(* many are added and however often the table grows (set.c:35-104).        *)
THEOREM SetIsASet == MCSpec => ImplementsSet
<1>1. MCInit => Quiet
  BY OneTable DEF MCInit, Init, S!Init, Create, Quiet
<1>2. Quiet /\ [MCNext]_tables => Quiet'
  BY StepIsTableStep, QuietStep
<1>3. TableInv /\ Quiet /\ [MCNext]_tables
        => [SetKind => S!Abstract!SetNext]_<<S!Abstract!membervars, kind>>
  BY SetStepMaps
<1>4. MCInit => (SetKind => S!Abstract!SetInit)
  BY SetInitMaps
<1> QED BY <1>1, <1>2, <1>3, <1>4, TableInvAlways, PTL DEF MCSpec, ImplementsSet
-----------------------------------------------------------------------------
(* The values beside the keys of a map.                                    *)
ValuesInv ==
  MapKind =>
    /\ values \in [Slots -> Stores] /\ oldvalues \in [DOMAIN old -> Stores]
    /\ value \in Stores /\ result \in [ok : BOOLEAN, value : Stores]
    /\ pc \in {IDLE, FIND} => value = NULL
    /\ pc = FIND => key # 0

(* The value of a key is the one beside it.                                *)
ValuesBeside ==
  \A k : /\ \A i \in Taken : keys[i] = k => ValueOf(k) = values[i]
         /\ \A i \in Left : old[i] = k => ValueOf(k) = oldvalues[i]

LEMMA BesideAlways == TableInv => ValuesBeside
<1> SUFFICES ASSUME TableInv, NEW k
             PROVE  /\ \A i \in Taken : keys[i] = k => ValueOf(k) = values[i]
                    /\ \A i \in Left : old[i] = k => ValueOf(k) = oldvalues[i]
  BY DEF ValuesBeside
<1>1. ASSUME NEW i \in Taken, keys[i] = k PROVE ValueOf(k) = values[i]
  <2> DEFINE c == CHOOSE j \in Taken : keys[j] = k
  <2>1. c \in Taken /\ keys[c] = k
    BY <1>1
  <2>2. c = i
    BY <1>1, <2>1 DEF TableInv, KeyOnce
  <2> QED BY <1>1, <2>2 DEF ValueOf
<1>2. ASSUME NEW i \in Left, old[i] = k PROVE ValueOf(k) = oldvalues[i]
  <2> DEFINE c == CHOOSE j \in Left : old[j] = k
  <2>1. c \in Left /\ old[c] = k
    BY <1>2
  <2>2. c = i
    BY <1>2, <2>1 DEF TableInv, KeyOnce
  <2>3. ~\E j \in Taken : keys[j] = k
    BY <1>2 DEF TableInv, KeyOnce
  <2> QED BY <2>2, <2>3 DEF ValueOf
<1> QED BY <1>1, <1>2

LEMMA NextBeside ==
  ASSUME TableInv', NEW k
  PROVE  /\ \A i \in Taken' : keys'[i] = k => ValueOf(k)' = values'[i]
         /\ \A i \in Left' : old'[i] = k => ValueOf(k)' = oldvalues'[i]
<1>1. TableInv' => ValuesBeside'
  BY BesideAlways, PTL
<1> QED BY <1>1 DEF ValuesBeside

LEMMA StoredIs == \A k : k \in Stored <=> \/ \E i \in Taken : keys[i] = k
                                         \/ \E i \in Left : old[i] = k
BY DEF Stored

Content == [k \in Stored |-> ValueOf(k)]

(* A step that leaves the stored keys and the value beside each of them.   *)
LEMMA SameContent ==
  ASSUME Stored' = Stored, \A k \in Stored : ValueOf(k)' = ValueOf(k)
  PROVE  Content' = Content
BY DEF Content

(* A step that leaves the table and its values alone.                      *)
LEMMA SameValues ==
  ASSUME UNCHANGED <<keys, cap, old, n, values, oldvalues>>
  PROVE  Content' = Content
BY DEF Content, Stored, Taken, Left, Slots, ValueOf

LEMMA PutContent ==
  ASSUME TableInv, TableInv', NEW k \in Key, NEW v \in Stores, Put(k, v)
  PROVE  Content' = Content
<1>1. StartPut(k)
  BY DEF Put
<1>2. CASE ~Crowded
  <2>1. UNCHANGED <<keys, cap, old, n, values, oldvalues>>
    BY <1>1, <1>2 DEF Put, StartPut
  <2> QED BY <2>1, SameValues
<1>3. CASE Crowded
  <2>1. oldvalues' = values
    BY <1>3 DEF Put
  <2>2. Stored' = Stored /\ Left = {} /\ Left' = Taken /\ old' = keys
    BY <1>1, <1>3, StartPutStores
  <2>3. ASSUME NEW x \in Stored PROVE ValueOf(x)' = ValueOf(x)
    <3>1. PICK i \in Taken : keys[i] = x
      BY <2>2, <2>3, StoredIs
    <3>2. ValueOf(x) = values[i]
      BY <3>1, BesideAlways DEF ValuesBeside
    <3>3. ValueOf(x)' = oldvalues'[i]
      BY <2>2, <3>1, NextBeside
    <3> QED BY <2>1, <3>2, <3>3
  <2> QED BY <2>2, <2>3, SameContent
<1> QED BY <1>2, <1>3

LEMMA MoveContent ==
  ASSUME TableInv, TableInv', ValuesInv, MapKind, MovePair
  PROVE  Content' = Content /\ values' \in [Slots' -> Stores]
<1>1. Move /\ oldvalues' = oldvalues
  BY DEF MovePair
<1>2. values \in [Slots -> Stores] /\ oldvalues \in [DOMAIN old -> Stores]
  BY DEF ValuesInv
<1>3. Stored' = Stored /\ old' = old
  BY <1>1, MoveStores
<1>4. CASE old[n] = 0
  <2>1. values' = values /\ keys' = keys /\ Taken' = Taken /\ Left' = Left /\ Slots' = Slots
    BY <1>1, <1>4, MoveStores DEF MovePair, Move, Slots
  <2>2. ASSUME NEW x \in Stored PROVE ValueOf(x)' = ValueOf(x)
    <3>1. CASE \E i \in Taken : keys[i] = x
      BY <2>1, <3>1, BesideAlways, NextBeside DEF ValuesBeside
    <3>2. CASE \E i \in Left : old[i] = x
      BY <1>1, <1>3, <2>1, <3>2, BesideAlways, NextBeside DEF ValuesBeside
    <3> QED BY <3>1, <3>2, StoredIs
  <2> QED BY <1>2, <1>3, <2>1, <2>2, SameContent
<1>5. CASE old[n] # 0
  <2> DEFINE i == Stop(old[n])
  <2>1. values' = [values EXCEPT ![i] = oldvalues[n]]
    BY <1>5 DEF MovePair
  <2>2. /\ i \in Slots /\ Slots' = Slots /\ Taken' = Taken \cup {i} /\ i \notin Taken
        /\ keys'[i] = old[n] /\ \A j \in Taken : keys'[j] = keys[j]
        /\ n \in Left /\ Left = Left' \cup {n} /\ Taken \subseteq Slots
    BY <1>1, <1>5, MoveFacts, FiniteParts DEF TableInv
  <2> HIDE DEF i
  <2>3. oldvalues[n] \in Stores
    BY <1>2, <2>2 DEF Left
  <2>4. /\ values' \in [Slots' -> Stores] /\ values'[i] = oldvalues[n]
        /\ \A j \in Taken : values'[j] = values[j]
    BY <1>2, <2>1, <2>2, <2>3
  <2>5. ASSUME NEW x \in Stored PROVE ValueOf(x)' = ValueOf(x)
    <3>1. CASE \E j \in Taken : keys[j] = x
      <4>1. PICK j \in Taken : keys[j] = x
        BY <3>1
      <4>2. ValueOf(x) = values[j] /\ ValueOf(x)' = values'[j]
        BY <2>2, <4>1, BesideAlways, NextBeside DEF ValuesBeside
      <4> QED BY <2>4, <4>1, <4>2
    <3>2. CASE \E j \in Left : old[j] = x
      <4>1. PICK j \in Left : old[j] = x
        BY <3>2
      <4>2. ValueOf(x) = oldvalues[j]
        BY <4>1, BesideAlways DEF ValuesBeside
      <4>3. CASE j = n
        <5>1. ValueOf(x)' = values'[i]
          BY <2>2, <4>1, <4>3, NextBeside
        <5> QED BY <2>4, <4>2, <4>3, <5>1
      <4>4. CASE j # n
        <5>1. ValueOf(x)' = oldvalues'[j]
          BY <1>3, <2>2, <4>1, <4>4, NextBeside
        <5> QED BY <1>1, <4>2, <5>1
      <4> QED BY <4>3, <4>4
    <3> QED BY <3>1, <3>2, StoredIs
  <2> QED BY <1>3, <2>4, <2>5, SameContent
<1> QED BY <1>4, <1>5

LEMMA MovedContent ==
  ASSUME TableInv, TableInv', MovedAll PROVE Content' = Content
<1>1. MoveDone /\ values' = values
  BY DEF MovedAll
<1>2. Stored' = Stored /\ keys' = keys /\ Taken' = Taken /\ Left = {}
  BY <1>1, MoveDoneStores
<1>3. ASSUME NEW x \in Stored PROVE ValueOf(x)' = ValueOf(x)
  <2>1. PICK i \in Taken : keys[i] = x
    BY <1>2, <1>3, StoredIs
  <2> QED BY <1>1, <1>2, <2>1, BesideAlways, NextBeside DEF ValuesBeside
<1> QED BY <1>2, <1>3, SameContent

(* A put of a key other than 0 maps it to its value and nothing else.      *)
Updated == [j \in Stored \cup {key} |-> IF j = key THEN value ELSE ValueOf(j)]

LEMMA PutNewContent ==
  ASSUME TableInv, TableInv', ValuesInv, MapKind, PutNew
  PROVE  /\ Content' = IF key = 0 THEN Content ELSE Updated
         /\ values' \in [Slots' -> Stores]
<1>1. /\ Insert /\ Slots' = Slots /\ Taken \subseteq Slots /\ idx \in Slots /\ value \in Stores
      /\ values \in [Slots -> Stores] /\ values' = IF key = 0 THEN values ELSE [values EXCEPT ![idx] = value]
  BY FiniteParts DEF PutNew, Insert, ValuesInv, TableInv, TableOK, Slots
<1>2. CASE key = 0
  <2>1. Stored' = Stored /\ keys' = keys /\ Taken' = Taken /\ Left = {} /\ values' = values
    BY <1>1, <1>2, InsertStores
  <2>2. ASSUME NEW x \in Stored PROVE ValueOf(x)' = ValueOf(x)
    <3>1. PICK i \in Taken : keys[i] = x
      BY <2>1, <2>2, StoredIs
    <3> QED BY <2>1, <3>1, BesideAlways, NextBeside DEF ValuesBeside
  <2> QED BY <1>1, <1>2, <2>1, <2>2, SameContent
<1>3. CASE key # 0
  <2>1. /\ Stored' = Stored \cup {key} /\ Left = {} /\ Taken' = Taken \cup {idx}
        /\ idx \notin Taken /\ keys'[idx] = key /\ \A j \in Taken : keys'[j] = keys[j]
    BY <1>1, <1>3, InsertStores
  <2>2. key \notin Stored
    BY <1>1, AtFreeFacts DEF Insert
  <2>3. /\ values' \in [Slots' -> Stores] /\ values'[idx] = value
        /\ \A j \in Taken : values'[j] = values[j]
    BY <1>1, <1>3, <2>1
  <2>4. ASSUME NEW x, x = key PROVE ValueOf(x)' = value
    <3>1. idx \in Taken' /\ keys'[idx] = x
      BY <2>1, <2>4
    <3>2. ValueOf(x)' = values'[idx]
      BY <3>1, NextBeside
    <3> QED BY <2>3, <3>2
  <2>5. ASSUME NEW x \in Stored PROVE ValueOf(x)' = ValueOf(x)
    <3>1. PICK i \in Taken : keys[i] = x
      BY <2>1, <2>5, StoredIs
    <3>2. ValueOf(x) = values[i] /\ ValueOf(x)' = values'[i]
      BY <2>1, <3>1, BesideAlways, NextBeside DEF ValuesBeside
    <3> QED BY <2>3, <3>1, <3>2
  <2> QED BY <1>3, <2>1, <2>2, <2>3, <2>4, <2>5 DEF Content, Updated
<1> QED BY <1>2, <1>3

LEMMA OverwriteContent ==
  ASSUME TableInv, TableInv', ValuesInv, MapKind, Overwrite
  PROVE  Content' = Updated /\ values' \in [Slots' -> Stores] /\ key \in Stored /\ key # 0
<1>1. /\ AtKey /\ UNCHANGED <<keys, cap, old, n>> /\ values' = [values EXCEPT ![idx] = value]
      /\ values \in [Slots -> Stores] /\ value \in Stores /\ Taken \subseteq Slots
      /\ oldvalues' = oldvalues /\ pc # MOVE
  BY FiniteParts DEF Overwrite, ReturnUnchanged, Answered, ValuesInv, TableInv, MOVE, PUT
<1>2. key \in Stored /\ key # 0 /\ idx \in Taken /\ keys[idx] = key
  BY <1>1, AtKeyFacts
<1>3. Slots' = Slots /\ Taken' = Taken /\ Stored' = Stored /\ Left = {}
  BY <1>1, NothingLeft DEF Slots, Taken, Left, Stored, TableInv
<1>4. /\ values' \in [Slots' -> Stores] /\ values'[idx] = value
      /\ \A j \in Taken : j # idx => values'[j] = values[j]
  BY <1>1, <1>2, <1>3
<1>5. ASSUME NEW x \in Stored PROVE ValueOf(x)' = IF x = key THEN value ELSE ValueOf(x)
  <2>1. PICK i \in Taken : keys[i] = x
    BY <1>3, <1>5, StoredIs
  <2>2. ValueOf(x) = values[i] /\ ValueOf(x)' = values'[i]
    BY <1>1, <1>3, <2>1, BesideAlways, NextBeside DEF ValuesBeside
  <2>3. i = idx <=> x = key
    BY <1>2, <2>1 DEF TableInv, KeyOnce
  <2> QED BY <1>4, <2>1, <2>2, <2>3
<1>6. Stored \cup {key} = Stored
  BY <1>2
<1> QED BY <1>2, <1>3, <1>4, <1>5, <1>6 DEF Content, Updated

LEMMA ValuesInit == MCInit => ValuesInv
<1> SUFFICES ASSUME MCInit, MapKind PROVE
      /\ values \in [Slots -> Stores] /\ oldvalues \in [DOMAIN old -> Stores]
      /\ value \in Stores /\ result \in [ok : BOOLEAN, value : Stores]
      /\ pc \in {IDLE, FIND} => value = NULL
      /\ pc = FIND => key # 0
  BY DEF ValuesInv
<1>1. Init
  BY DEF MCInit, MapKind
<1>2. /\ values = [i \in 0 .. DefaultCap - 1 |-> NULL] /\ oldvalues = [i \in 0 .. 0 - 1 |-> NULL]
      /\ value = NULL /\ result = [ok |-> FALSE, value |-> NULL]
      /\ cap = DefaultCap /\ DOMAIN old = 0 .. 0 - 1 /\ pc = "idle"
  BY <1>1 DEF Init, Create, NoValues, Blank, Answer, IDLE
<1> QED BY <1>2 DEF Stores, Slots, IDLE, FIND

LEMMA ValuesStep ==
  ASSUME TableInv, TableInv', ValuesInv, [MCNext]_tables
  PROVE  ValuesInv'
<1> USE DEF Stores
<1> SUFFICES ASSUME MapKind' PROVE
      /\ values' \in [Slots' -> Stores] /\ oldvalues' \in [DOMAIN old' -> Stores]
      /\ value' \in Stores /\ result' \in [ok : BOOLEAN, value : Stores]
      /\ pc' \in {IDLE, FIND} => value' = NULL
      /\ pc' = FIND => key' # 0
  BY DEF ValuesInv
<1>1. MapKind
  BY DEF MCNext, Calling, Running, MapKind, tables
<1>2. /\ values \in [Slots -> Stores] /\ oldvalues \in [DOMAIN old -> Stores]
      /\ value \in Stores /\ result \in [ok : BOOLEAN, value : Stores]
      /\ pc \in {IDLE, FIND} => value = NULL
      /\ pc = FIND => key # 0
  BY <1>1 DEF ValuesInv
<1>3. CASE UNCHANGED tables
  BY <1>2, <1>3 DEF tables, mapvars, tablevars, Slots
<1>4. ASSUME NEW k \in Key, Get(k) PROVE ValuesInv'
  <2>1. UNCHANGED <<values, oldvalues, value, cap, old>>
    BY <1>4 DEF Get, StartFind, tablevars
  <2>2. pc = IDLE
    BY <1>4 DEF Get, StartFind
  <2>3. result' = result \/ result' = Answer(FALSE, NULL)
    BY <1>4 DEF Get
  <2>4. result' \in [ok : BOOLEAN, value : Stores]
    <3>1. Answer(FALSE, NULL) \in [ok : BOOLEAN, value : Stores]
      BY DEF Answer
    <3> QED BY <1>2, <2>3, <3>1
  <2>5. pc' = FIND => key' # 0
    BY <1>4, <2>2 DEF Get, StartFind, tablevars, IDLE, FIND
  <2> QED BY <1>2, <2>1, <2>2, <2>4, <2>5 DEF ValuesInv, Slots
<1>5. ASSUME NEW k \in Key, NEW v \in Stores, Put(k, v) PROVE ValuesInv'
  <2>1. StartPut(k) /\ value' = v /\ result' = result /\ pc' \in {MOVE, PUT}
    BY <1>5 DEF Put, StartPut
  <2>2. cap \in Nat /\ DOMAIN keys = Slots
    BY DEF TableInv, TableOK
  <2>3. CASE Crowded
    <3>1. values' = [i \in 0 .. (2 * cap) - 1 |-> NULL] /\ oldvalues' = values
      BY <1>5, <2>3 DEF Put, NoValues
    <3>2. cap' = 2 * cap /\ old' = keys
      BY <2>1, <2>3 DEF StartPut
    <3> QED BY <1>2, <2>1, <2>2, <3>1, <3>2 DEF ValuesInv, Slots, IDLE, MOVE, PUT, FIND
  <2>4. CASE ~Crowded
    <3>1. values' = values /\ oldvalues' = oldvalues
      BY <1>5, <2>4 DEF Put
    <3>2. cap' = cap /\ old' = old
      BY <2>1, <2>4 DEF StartPut
    <3> QED BY <1>2, <2>1, <3>1, <3>2 DEF ValuesInv, Slots, IDLE, MOVE, PUT, FIND
  <2> QED BY <2>3, <2>4
<1>6. CASE MovePair
  <2>1. values' \in [Slots' -> Stores]
    BY <1>1, <1>6, MoveContent
  <2>2. UNCHANGED <<oldvalues, value, result, old, pc>> /\ pc = MOVE
    BY <1>6 DEF MovePair, Move
  <2> QED BY <1>2, <2>1, <2>2 DEF ValuesInv, IDLE, MOVE, FIND
<1>7. CASE MovedAll
  <2>1. /\ UNCHANGED <<values, value, result, cap>> /\ pc' = PUT
        /\ old' = [i \in 0 .. 0 - 1 |-> 0] /\ oldvalues' = [i \in 0 .. 0 - 1 |-> NULL]
    BY <1>7 DEF MovedAll, MoveDone, Blank, NoValues
  <2> QED BY <1>2, <2>1 DEF ValuesInv, Slots, IDLE, PUT, FIND
<1>8. CASE ProbeOn
  BY <1>2, <1>8 DEF ProbeOn, Probe, ValuesInv, Slots
<1>9. CASE PutNew
  <2>1. values' \in [Slots' -> Stores]
    BY <1>1, <1>9, PutNewContent
  <2>2. UNCHANGED <<oldvalues, old>> /\ value' = NULL /\ pc' = IDLE /\ result' = Answer(key # 0, NULL)
    BY <1>9 DEF PutNew, Insert, Return, Answered
  <2> QED BY <1>2, <2>1, <2>2 DEF ValuesInv, Answer, IDLE, FIND
<1>10. CASE Overwrite
  <2>1. values' \in [Slots' -> Stores]
    BY <1>1, <1>10, OverwriteContent
  <2>2. UNCHANGED <<oldvalues, old>> /\ value' = NULL /\ pc' = IDLE /\ result' = Answer(TRUE, NULL)
    BY <1>10 DEF Overwrite, ReturnUnchanged, Return, Answered
  <2> QED BY <1>2, <2>1, <2>2 DEF ValuesInv, Answer, IDLE, FIND
<1>11. CASE Found \/ Missing
  <2>1. /\ UNCHANGED <<oldvalues, old, values, cap>> /\ value' = NULL /\ pc' = IDLE
        /\ result' \in {Answer(TRUE, values[idx]), Answer(FALSE, NULL)}
    BY <1>11 DEF Found, Missing, ReturnUnchanged, Return, Answered
  <2>2. values[idx] \in Stores
    BY <1>2 DEF TableInv, TableOK
  <2>3. Answer(TRUE, values[idx]) \in [ok : BOOLEAN, value : Stores]
    BY <2>2 DEF Answer
  <2>4. Answer(FALSE, NULL) \in [ok : BOOLEAN, value : Stores]
    BY DEF Answer
  <2>5. result' \in [ok : BOOLEAN, value : Stores]
    BY <2>1, <2>3, <2>4
  <2> QED BY <1>2, <2>1, <2>5 DEF ValuesInv, Slots, IDLE, FIND
<1>12. ~SetKind
  BY <1>1 DEF SetKind, MapKind
<1>13. ASSUME ValuesInv' PROVE
      /\ values' \in [Slots' -> Stores] /\ oldvalues' \in [DOMAIN old' -> Stores]
      /\ value' \in Stores /\ result' \in [ok : BOOLEAN, value : Stores]
      /\ pc' \in {IDLE, FIND} => value' = NULL
      /\ pc' = FIND => key' # 0
  BY <1>13 DEF ValuesInv
<1> QED BY <1>3, <1>4, <1>5, <1>6, <1>7, <1>8, <1>9, <1>10, <1>11, <1>12, <1>13
        DEF MCNext, Calling, Running, Run
-----------------------------------------------------------------------------
LEMMA MapInitMaps == MCInit => (MapKind => Abstract!MapInit)
<1> SUFFICES ASSUME MCInit, MapKind PROVE Abstract!MapInit
  OBVIOUS
<1>1. Create /\ result = Answer(FALSE, NULL) /\ value = NULL
  BY DEF MCInit, MapKind, Init
<1>2. pc = IDLE /\ key = 0 /\ Stored = {}
  <2>1. Taken = {} /\ Left = {}
    BY <1>1 DEF Create, Blank, Taken, Left, Slots
  <2> QED BY <1>1, <2>1 DEF Create, Stored
<1>3. CallName = "none"
  BY <1>2, NameFacts
<1>4. [k \in Stored |-> ValueOf(k)] = [k \in {} |-> NULL]
  BY <1>2
<1> QED BY <1>1, <1>2, <1>3, <1>4
        DEF Abstract!MapInit, Abstract!NoCall, Abstract!Call, Abstract!Reply, Answer

LEMMA MapStepMaps ==
  ASSUME TableInv, TableInv', Quiet, ValuesInv, MapKind, [MCNext]_tables
  PROVE  Abstract!MapNext \/ UNCHANGED <<Abstract!contentvars, kind>>
<1> USE NameFacts, NextNameFacts
<1>0. /\ value \in Stores /\ (pc \in {IDLE, FIND} => value = NULL) /\ (pc = FIND => key # 0)
  BY DEF ValuesInv
<1>1. ASSUME Content' = Content, CallName' = CallName, key' = key, value' = value,
             result' = result, kind' = kind
      PROVE  UNCHANGED <<Abstract!contentvars, kind>>
  BY <1>1 DEF Abstract!contentvars, Content
<1>2. CASE UNCHANGED tables
  <2>1. Content' = Content
    BY <1>2, SameValues DEF tables, mapvars, tablevars
  <2> QED BY <1>1, <1>2, <2>1 DEF tables, mapvars, tablevars, CallName
<1>3. ASSUME NEW k \in Key, Get(k) PROVE Abstract!MapNext
  <2>1. Content' = Content /\ value' = value /\ pc = IDLE
    BY <1>3, SameValues DEF Get, StartFind, tablevars
  <2>2. CASE k = 0
    <3>1. result' = Answer(FALSE, NULL) /\ UNCHANGED <<pc, key>>
      BY <1>3, <2>2 DEF Get, tablevars
    <3> QED BY <1>0, <2>1, <3>1 DEF Abstract!MapNext, Abstract!RefuseGet, Abstract!NoCall,
            Abstract!Call, Abstract!Reply, Answer, Content, Quiet
  <2>3. CASE k # 0
    <3>1. result' = result /\ pc' = FIND /\ key' = k
      BY <1>3, <2>3 DEF Get, StartFind
    <3> QED BY <1>0, <2>1, <3>1 DEF Abstract!MapNext, Abstract!Ask, Abstract!NoCall, Abstract!Call,
            Content, Quiet
  <2> QED BY <2>2, <2>3
<1>4. ASSUME NEW k \in Key, NEW v \in Stores, Put(k, v) PROVE Abstract!MapNext
  <2>1. Content' = Content
    BY <1>4, PutContent
  <2>2. pc = IDLE /\ pc' \in {MOVE, PUT} /\ key' = k /\ value' = v /\ result' = result
    BY <1>4 DEF Put, StartPut
  <2> QED BY <1>0, <2>1, <2>2 DEF Abstract!MapNext, Abstract!Ask, Abstract!NoCall, Abstract!Call,
          Content, Quiet, Stores
<1>5. ASSUME MovePair \/ MovedAll \/ ProbeOn, kind' = kind
      PROVE  UNCHANGED <<Abstract!contentvars, kind>>
  <2>1. Content' = Content
    <3>1. CASE ProbeOn
      BY <3>1, SameValues DEF ProbeOn, Probe
    <3> QED BY <1>5, <3>1, MoveContent, MovedContent
  <2>2. key' = key /\ value' = value /\ result' = result /\ CallName' = CallName
    BY <1>5 DEF MovePair, MovedAll, ProbeOn, Move, MoveDone, Probe, CallName, IDLE, MOVE, PUT, FIND
  <2> QED BY <1>1, <1>5, <2>1, <2>2
<1>6. ASSUME pc = PUT, pc' = IDLE, key' = 0, value' = NULL,
             Content' = IF key = 0 THEN Content ELSE Updated, result' = Answer(key # 0, NULL)
      PROVE  Abstract!MapNext
  <2>1. DOMAIN Content = Stored /\ \A j \in Stored : Content[j] = ValueOf(j)
    BY DEF Content
  <2>2. Updated = [j \in DOMAIN Content \cup {key} |-> IF j = key THEN value ELSE Content[j]]
    BY <2>1 DEF Updated
  <2> QED BY <1>6, <2>2 DEF Abstract!MapNext, Abstract!AnswerPut, Abstract!Call, Abstract!NoCall,
          Abstract!Reply, Answer, Content
<1>7. CASE PutNew
  <2>1. Content' = IF key = 0 THEN Content ELSE Updated
    BY <1>7, PutNewContent
  <2> QED BY <1>6, <1>7, <2>1 DEF PutNew, Insert, Return, Answered
<1>8. CASE Overwrite
  <2>1. Content' = Updated /\ key # 0
    BY <1>8, OverwriteContent
  <2>2. (key # 0) = TRUE
    BY <2>1
  <2> QED BY <1>6, <1>8, <2>1, <2>2 DEF Overwrite, ReturnUnchanged, Return, Answered
<1>9. CASE Found \/ Missing
  <2>1. /\ pc = FIND /\ pc' = IDLE /\ key' = 0 /\ value' = NULL
        /\ UNCHANGED <<keys, cap, old, n, values, oldvalues>>
    BY <1>9 DEF Found, Missing, ReturnUnchanged, Return, Answered
  <2>2. Content' = Content
    BY <2>1, SameValues
  <2>3. result' = Answer(key \in Stored, IF key \in Stored THEN ValueOf(key) ELSE NULL)
    <3>1. CASE Found
      <4>1. AtKey /\ result' = Answer(TRUE, values[idx])
        BY <3>1 DEF Found, Answered
      <4>2. key \in Stored /\ idx \in Taken /\ keys[idx] = key
        BY <4>1, AtKeyFacts
      <4>3. ValueOf(key) = values[idx]
        BY <4>2, BesideAlways DEF ValuesBeside
      <4>4. (key \in Stored) = TRUE
        BY <4>2
      <4> QED BY <4>1, <4>3, <4>4
    <3>2. CASE Missing
      <4>1. AtFree /\ result' = Answer(FALSE, NULL)
        BY <3>2 DEF Missing, Answered
      <4>2. (key \in Stored) = FALSE
        BY <4>1, AtFreeFacts
      <4> QED BY <4>1, <4>2
    <3> QED BY <1>9, <3>1, <3>2
  <2>4. DOMAIN Content = Stored /\ (key \in Stored => Content[key] = ValueOf(key))
    BY DEF Content
  <2> QED BY <2>1, <2>2, <2>3, <2>4 DEF Abstract!MapNext, Abstract!AnswerGet, Abstract!Holds,
          Abstract!Call, Abstract!NoCall, Abstract!Reply, Answer, Content
<1>10. MCNext => MapKind /\ ~SetKind /\ kind' = kind
  BY DEF MCNext, Calling, Running, SetKind, MapKind
<1> QED BY <1>2, <1>3, <1>4, <1>5, <1>7, <1>8, <1>9, <1>10 DEF MCNext, Calling, Running, Run

LEMMA ValuesAlways == MCSpec => []ValuesInv
<1>1. TableInv /\ TableInv' /\ ValuesInv /\ [MCNext]_tables => ValuesInv'
  BY ValuesStep
<1> QED BY <1>1, ValuesInit, TableInvAlways, PTL DEF MCSpec

(* The table and its values have their types, and the smaller array holds  *)
(* slots only while a growth runs (map.h; map.c:42-118).                   *)
THEOREM TypeCorrect == MCSpec => [](MapKind => TypeOK)
<1>1. TableInv /\ ValuesInv => (MapKind => TypeOK)
  BY DEF TableInv, ValuesInv, TypeOK
<1> QED BY <1>1, TableInvAlways, ValuesAlways, PTL

(* map.c implements a map from ids other than 0 to pointers, whatever the  *)
(* ids and pointers and however often the table grows (map.c:42-118).      *)
THEOREM MapIsAMap == MCSpec => ImplementsMap
<1>1. MCInit => Quiet
  BY OneTable DEF MCInit, Init, S!Init, Create, Quiet
<1>2. Quiet /\ [MCNext]_tables => Quiet'
  BY StepIsTableStep, QuietStep
<1>3. TableInv /\ TableInv' /\ Quiet /\ ValuesInv /\ [MCNext]_tables
        => [MapKind => Abstract!MapNext]_<<Abstract!contentvars, kind>>
  BY MapStepMaps
<1>4. MCInit => (MapKind => Abstract!MapInit)
  BY MapInitMaps
<1> QED BY <1>1, <1>2, <1>3, <1>4, TableInvAlways, ValuesAlways, PTL DEF MCSpec, ImplementsMap
=============================================================================
