-------------------------------- MODULE KeySet --------------------------------
(***************************************************************************)
(* What set.c promises its callers: a set of ids other than 0.  A call is  *)
(* made in one step and answered in another.                               *)
(***************************************************************************)
EXTENDS Integers

CONSTANT Key

VARIABLES members,   \* the set
          asked,     \* the call under way
          answer     \* what the last call returned

membervars == <<members, asked, answer>>

Call(name, k) == [call |-> name, key |-> k]
NoCall        == Call("none", 0)

SetInit == members = {} /\ asked = NoCall /\ answer = FALSE

Ask(call) == asked = NoCall /\ asked' = call /\ UNCHANGED <<members, answer>>

(* The answer is whether the id was put in: not if it was there, and 0     *)
(* never.                                                                  *)
AnswerAdd ==
  /\ asked.call = "put"
  /\ members' = members \cup ({asked.key} \ {0})
  /\ answer' = (asked.key \notin members \cup {0})
  /\ asked' = NoCall

AnswerContains ==
  /\ asked.call = "get"
  /\ answer' = (asked.key \in members)
  /\ asked' = NoCall
  /\ UNCHANGED members

SetNext ==
  \/ \E k \in Key, name \in {"put", "get"} : Ask(Call(name, k))
  \/ AnswerAdd \/ AnswerContains

Spec == SetInit /\ [][SetNext]_membervars
=============================================================================
