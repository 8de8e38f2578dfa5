-------------------------------- MODULE HashMap --------------------------------
(***************************************************************************)
(* map.c: the table of ProbeTable with a value beside each key.            *)
(***************************************************************************)
EXTENDS ProbeTable

CONSTANTS Value,   \* the pointers callers store
          NULL     \* no value; a key may be stored with it

VARIABLES values,      \* the value of each slot
          oldvalues,   \* the values of the smaller array during a growth
          value,       \* the value of the call under way
          result       \* what the last call returns

mapvars == <<tablevars, values, oldvalues, value, result>>

Stores == Value \cup {NULL}

NoValues(c) == [i \in 0 .. c - 1 |-> NULL]

(* map_put answers true or false, map_get the value and map_contains       *)
(* whether there is one; a lookup stands for both.                         *)
Answer(ok, v) == [ok |-> ok, value |-> v]

Init ==
  /\ Create
  /\ values = NoValues(DefaultCap) /\ oldvalues = NoValues(0)
  /\ value = NULL /\ result = Answer(FALSE, NULL)
-----------------------------------------------------------------------------
Put(k, v) ==
  /\ StartPut(k)
  /\ value' = v
  /\ IF Crowded
     THEN values' = NoValues(2 * cap) /\ oldvalues' = values
     ELSE UNCHANGED <<values, oldvalues>>
  /\ UNCHANGED result

(* Not the code: the keys move, their values do not. *)
MoveKeyOnly == Move /\ UNCHANGED <<values, oldvalues, value, result>>

MovePair ==
  /\ Move
  /\ values' = IF old[n] = 0 THEN values ELSE [values EXCEPT ![Stop(old[n])] = oldvalues[n]]
  /\ UNCHANGED <<oldvalues, value, result>>

MovedAll == MoveDone /\ oldvalues' = NoValues(0) /\ UNCHANGED <<values, value, result>>

ProbeOn == Probe /\ UNCHANGED <<values, oldvalues, value, result>>

Answered(ok, v) == result' = Answer(ok, v) /\ value' = NULL /\ UNCHANGED oldvalues

PutNew ==
  /\ Insert
  /\ values' = IF key = 0 THEN values ELSE [values EXCEPT ![idx] = value]
  /\ Answered(key # 0, NULL)

Overwrite ==
  /\ pc = PUT /\ AtKey
  /\ ReturnUnchanged
  /\ values' = [values EXCEPT ![idx] = value]
  /\ Answered(TRUE, NULL)

(* map_get and map_contains refuse key 0 before they look. *)
Get(k) ==
  /\ IF k = 0
     THEN /\ pc = IDLE
          /\ result' = Answer(FALSE, NULL)
          /\ UNCHANGED tablevars
     ELSE StartFind(k) /\ UNCHANGED result
  /\ UNCHANGED <<values, oldvalues, value>>

Found ==
  /\ pc = FIND /\ AtKey
  /\ ReturnUnchanged
  /\ Answered(TRUE, values[idx])
  /\ UNCHANGED values

Missing ==
  /\ pc = FIND /\ AtFree
  /\ ReturnUnchanged
  /\ Answered(FALSE, NULL)
  /\ UNCHANGED values
-----------------------------------------------------------------------------
Run == MovePair \/ MovedAll \/ ProbeOn \/ PutNew \/ Overwrite \/ Found \/ Missing

Next ==
  \/ \E k \in Key : Get(k) \/ \E v \in Stores : Put(k, v)
  \/ Run

Spec == Init /\ [][Next]_mapvars
-----------------------------------------------------------------------------
TypeOK ==
  /\ TableOK
  /\ values \in [Slots -> Stores]
  /\ oldvalues \in [DOMAIN old -> Stores]
  /\ value \in Stores
  /\ result \in [ok : BOOLEAN, value : Stores]

(* Every call returns, also a put or a lookup of 0, which no slot matches, *)
(* and a lookup of a key that is not there: only a free slot ends their    *)
(* probing (map.c:72-81, 99-108; set.c:63-76, 92-101).                     *)
CallsReturn == pc # IDLE ~> pc = IDLE

ValueOf(k) ==
  IF \E i \in Taken : keys[i] = k
  THEN values[CHOOSE i \in Taken : keys[i] = k]
  ELSE oldvalues[CHOOSE i \in Left : old[i] = k]

Abstract == INSTANCE KeyMap WITH
  content <- [k \in Stored |-> ValueOf(k)],
  asked <- [call |-> CallName, key |-> key, value |-> value],
  answer <- result
=============================================================================
