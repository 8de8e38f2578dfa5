-------------------------------- MODULE HashSet --------------------------------
(***************************************************************************)
(* set.c: the table of ProbeTable, and what its calls answer.              *)
(***************************************************************************)
EXTENDS ProbeTable

VARIABLE result   \* what the last call returns

setvars == <<tablevars, result>>

Init == Create /\ result = FALSE
-----------------------------------------------------------------------------
Add(k) == StartPut(k) /\ UNCHANGED result

(* Unlike map_contains, set_contains looks for 0 too. *)
Contains(k) == StartFind(k) /\ UNCHANGED result

MoveKey  == Move /\ UNCHANGED result
MovedAll == MoveDone /\ UNCHANGED result
ProbeOn  == Probe /\ UNCHANGED result

AddNew == Insert /\ result' = (key # 0)

(* Not the code: the answer of set_add does not tell new from known. *)
AddKnownNew == pc = PUT /\ AtKey /\ ReturnUnchanged /\ result' = TRUE

AddKnown ==
  /\ pc = PUT /\ AtKey
  /\ ReturnUnchanged
  /\ result' = FALSE

Found ==
  /\ pc = FIND /\ AtKey
  /\ ReturnUnchanged
  /\ result' = TRUE

Missing ==
  /\ pc = FIND /\ AtFree
  /\ ReturnUnchanged
  /\ result' = FALSE
-----------------------------------------------------------------------------
Run == MoveKey \/ MovedAll \/ ProbeOn \/ AddNew \/ AddKnown \/ Found \/ Missing

Next == (\E k \in Key : Add(k) \/ Contains(k)) \/ Run

Spec == Init /\ [][Next]_setvars
-----------------------------------------------------------------------------
Abstract == INSTANCE KeySet WITH
  members <- Stored, asked <- [call |-> CallName, key |-> key], answer <- result
=============================================================================
