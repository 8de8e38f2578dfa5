-------------------------------- MODULE KeyMap --------------------------------
(***************************************************************************)
(* What map.c promises its callers: a map from ids other than 0 to values. *)
(* A call is made in one step and answered in another; nothing is seen of  *)
(* what it does in between.                                                *)
(***************************************************************************)
EXTENDS Integers

CONSTANTS Key, Value, NULL

VARIABLES content,   \* the map
          asked,     \* the call under way
          answer     \* what the last call returned

contentvars == <<content, asked, answer>>

Call(name, k, v) == [call |-> name, key |-> k, value |-> v]
NoCall           == Call("none", 0, NULL)
Reply(ok, v)     == [ok |-> ok, value |-> v]

Holds(k) == k \in DOMAIN content

MapInit == content = [k \in {} |-> NULL] /\ asked = NoCall /\ answer = Reply(FALSE, NULL)

Ask(call) == asked = NoCall /\ asked' = call /\ UNCHANGED <<content, answer>>

AnswerPut ==
  /\ asked.call = "put"
  /\ content' = IF asked.key = 0 THEN content
                ELSE [j \in DOMAIN content \cup {asked.key} |->
                        IF j = asked.key THEN asked.value ELSE content[j]]
  /\ answer' = Reply(asked.key # 0, NULL)
  /\ asked' = NoCall

AnswerGet ==
  /\ asked.call = "get"
  /\ answer' = Reply(Holds(asked.key), IF Holds(asked.key) THEN content[asked.key] ELSE NULL)
  /\ asked' = NoCall
  /\ UNCHANGED content

(* A lookup of 0 is refused at once. *)
RefuseGet == asked = NoCall /\ answer' = Reply(FALSE, NULL) /\ UNCHANGED <<content, asked>>

MapNext ==
  \/ \E k \in Key : Ask(Call("get", k, NULL)) \/ \E v \in Value \cup {NULL} : Ask(Call("put", k, v))
  \/ AnswerPut \/ AnswerGet \/ RefuseGet

Spec == MapInit /\ [][MapNext]_contentvars
=============================================================================
