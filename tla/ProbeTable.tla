------------------------------ MODULE ProbeTable ------------------------------
(***************************************************************************)
(* The open-addressing table that map.c and set.c each implement: an array *)
(* of ids in which 0 marks a free slot, linear probing from id % cap, and  *)
(* growth to twice the capacity at a load above three quarters.  One       *)
(* action per call, per slot moved to a larger array and per slot probed;  *)
(* HashMap and HashSet add the values and the answers.  Allocations        *)
(* succeed.                                                                *)
(***************************************************************************)
EXTENDS Integers, FiniteSets

CONSTANTS Key,         \* the ids callers pass, 0 among them (uint16_t)
          DefaultCap   \* DEFAULT_MAP_CAPACITY, DEFAULT_HASH_CAPACITY

(* From five slots on, a table that is not above three quarters keeps a    *)
(* free slot after one more insertion.                                     *)
ASSUME TableAssumption == Key \subseteq Nat /\ DefaultCap \in Nat /\ DefaultCap > 4

VARIABLES keys,   \* the key of each slot
          sz,     \* keys stored
          cap,    \* slots
          pc,     \* no call under way, or the loop it is in
          key,    \* the key of the call under way
          idx,    \* the slot its probing is at
          old,    \* the smaller array while its keys are moved over
          n       \* the slot of it to move next

tablevars == <<keys, sz, cap, pc, key, idx, old, n>>

IDLE == "idle"
MOVE == "move"
PUT  == "put"
FIND == "find"

Blank(c) == [i \in 0 .. c - 1 |-> 0]

Create ==
  /\ cap = DefaultCap /\ keys = Blank(DefaultCap) /\ sz = 0
  /\ pc = IDLE /\ key = 0 /\ idx = 0
  /\ old = Blank(0) /\ n = 0

Slots == 0 .. cap - 1

(* How many slots probing for k looks at before slot i. *)
Steps(k, i) == (i - k) % cap

(* Every slot that probing for k looks at before slot i is taken by others. *)
Passes(k, i) == \A j \in Slots : Steps(k, j) < Steps(k, i) => keys[j] \notin {0, k}

(* The slot at which probing for k stops: k's own or a free one. *)
Stop(k) == CHOOSE i \in Slots : keys[i] \in {0, k} /\ Passes(k, i)

(* Not the code: growth only when the table is full. *)
CrowdedLate == sz >= cap

Crowded == 4 * sz > 3 * cap

Return == pc' = IDLE /\ key' = 0 /\ idx' = 0
-----------------------------------------------------------------------------
StartPut(k) ==
  /\ pc = IDLE
  /\ key' = k
  /\ IF Crowded
     THEN /\ old' = keys /\ n' = 0
          /\ cap' = 2 * cap /\ keys' = Blank(2 * cap)
          /\ pc' = MOVE /\ idx' = 0
     ELSE /\ pc' = PUT /\ idx' = k % cap
          /\ UNCHANGED <<old, n, cap, keys>>
  /\ UNCHANGED sz

(* Not the code: each slot is copied to the same place. *)
MoveInPlace ==
  /\ pc = MOVE
  /\ 2 * n < cap
  /\ keys' = [keys EXCEPT ![n] = old[n]]
  /\ n' = n + 1
  /\ UNCHANGED <<sz, cap, pc, key, idx, old>>

(* The put that the growth makes for each slot never grows again: the new  *)
(* table counts from 0 and is twice as large.                              *)
Move ==
  /\ pc = MOVE
  /\ 2 * n < cap
  /\ keys' = IF old[n] = 0 THEN keys ELSE [keys EXCEPT ![Stop(old[n])] = old[n]]
  /\ n' = n + 1
  /\ UNCHANGED <<sz, cap, pc, key, idx, old>>

MoveDone ==
  /\ pc = MOVE
  /\ 2 * n >= cap
  /\ old' = Blank(0) /\ n' = 0
  /\ pc' = PUT /\ idx' = key % cap
  /\ UNCHANGED <<keys, sz, cap, key>>

StartFind(k) ==
  /\ pc = IDLE
  /\ pc' = FIND /\ key' = k /\ idx' = k % cap
  /\ UNCHANGED <<keys, sz, cap, old, n>>

(* Not the code: the index is not taken back to the start of the array. *)
ProbeToEnd ==
  /\ pc \in {PUT, FIND}
  /\ keys[idx] \notin {0, key}
  /\ idx' = IF idx + 1 < cap THEN idx + 1 ELSE idx
  /\ UNCHANGED <<keys, sz, cap, pc, key, old, n>>

Probe ==
  /\ pc \in {PUT, FIND}
  /\ keys[idx] \notin {0, key}
  /\ idx' = (idx + 1) % cap
  /\ UNCHANGED <<keys, sz, cap, pc, key, old, n>>

(* Probing has come to a free slot, or to the key itself. *)
AtFree  == pc \in {PUT, FIND} /\ keys[idx] = 0
AtKey   == pc \in {PUT, FIND} /\ keys[idx] = key /\ key # 0

(* Not the code: a put of key 0 is counted. *)
InsertCounted ==
  /\ pc = PUT /\ AtFree
  /\ keys' = [keys EXCEPT ![idx] = key]
  /\ sz' = sz + 1
  /\ Return
  /\ UNCHANGED <<cap, old, n>>

(* Key 0 is written like any other and leaves the slot free. *)
Insert ==
  /\ pc = PUT /\ AtFree
  /\ keys' = [keys EXCEPT ![idx] = key]
  /\ sz' = IF key = 0 THEN sz ELSE sz + 1
  /\ Return
  /\ UNCHANGED <<cap, old, n>>

ReturnUnchanged == Return /\ UNCHANGED <<keys, sz, cap, old, n>>
-----------------------------------------------------------------------------
TableOK ==
  /\ cap \in Nat /\ cap > 4
  /\ sz \in Nat
  /\ keys \in [Slots -> Key \cup {0}]
  /\ pc \in {IDLE, MOVE, PUT, FIND}
  /\ key \in Key \cup {0}
  /\ idx \in Slots
  /\ n \in Nat
  /\ old \in [(IF pc = MOVE THEN 0 .. (cap \div 2) - 1 ELSE {}) -> Key \cup {0}]

Taken == {i \in Slots : keys[i] # 0}
Left  == {i \in DOMAIN old : i >= n /\ old[i] # 0}

(* The call under way: a growth is part of a put. *)
CallName == CASE pc = IDLE -> "none" [] pc = FIND -> "get" [] OTHER -> "put"

Stored == {keys[i] : i \in Taken} \cup {old[i] : i \in Left}

(* Every key lies where probing for it gets to: no free slot and no copy   *)
(* of it on the way from its home slot, also while a growth is moving keys *)
(* (map.c:72-81, 99-108; set.c:63-76, 92-101).                             *)
NoGap == \A i \in Taken : Passes(keys[i], i)

(* The count that decides on growth is the number of keys, although the    *)
(* growth leaves it alone and counts in the table it throws away           *)
(* (map.c:48-70, 86; set.c:41-61, 79-81).                                  *)
CountsKeys == sz = Cardinality(Stored) /\ sz = Cardinality(Taken) + Cardinality(Left)

(* A free slot always remains: what ends the probing of a key that is not  *)
(* in the table (map.c:48, 73, 101, 120; set.c:41, 66, 94).                *)
SomeFree == \E i \in Slots : keys[i] = 0
=============================================================================
