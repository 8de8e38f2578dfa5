------------------------------- MODULE MCTables -------------------------------
(***************************************************************************)
(* Any calls of one table, the map of map.c or the set of set.c: both work *)
(* on the variables of ProbeTable, and the set leaves the values alone.    *)
(***************************************************************************)
EXTENDS HashMap

VARIABLE kind   \* which of the two the table is

S == INSTANCE HashSet

tables == <<mapvars, kind>>

MapKind == kind = "map"
SetKind == kind = "set"

MCInit ==
  \/ kind = "map" /\ Init
  \/ kind = "set" /\ S!Init /\ values = NoValues(DefaultCap) /\ oldvalues = NoValues(0) /\ value = NULL

NoneStored == values' = NoValues(cap') /\ UNCHANGED <<oldvalues, value>>

Running ==
  /\ \/ MapKind /\ Run
     \/ SetKind /\ S!Run /\ NoneStored
  /\ UNCHANGED kind

Calling ==
  /\ \E k \in Key :
       \/ MapKind /\ (Get(k) \/ \E v \in Stores : Put(k, v))
       \/ SetKind /\ (S!Add(k) \/ S!Contains(k)) /\ NoneStored
  /\ UNCHANGED kind

MCNext == Calling \/ Running

(* A call runs to its return: nothing preempts the single thread. *)
MCSpec == MCInit /\ [][MCNext]_tables /\ WF_tables(Running)
-----------------------------------------------------------------------------
(* Probing, growth and the marker 0 of map.c implement a map from ids to   *)
(* values: a key is found with the value last put, and a growth loses none *)
(* (map.c:42-118).                                                         *)
ImplementsMap ==
  /\ MapKind => Abstract!MapInit
  /\ [][MapKind => Abstract!MapNext]_<<Abstract!contentvars, kind>>

(* set.c implements a set of ids other than 0: an id is found exactly if   *)
(* it was added, and set_add answers whether it was new (set.c:35-104).    *)
ImplementsSet ==
  /\ SetKind => S!Abstract!SetInit
  /\ [][SetKind => S!Abstract!SetNext]_<<S!Abstract!membervars, kind>>
=============================================================================
