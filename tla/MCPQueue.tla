------------------------------ MODULE MCPQueue ------------------------------
(***************************************************************************)
(* PQueue with a history variable: the array the whole-call operators of   *)
(* HeapOps foresee for the call under way.                                 *)
(***************************************************************************)
EXTENDS PQueue, HeapOps

VARIABLE foreseen

mcvars == <<vars, foreseen>>

Now == [data |-> data, sz |-> sz]

MCInit == Create /\ foreseen = data

MCNext ==
  \/ \E priority \in Priority, obj \in Obj :
       /\ Enqueue(priority, obj)
       /\ foreseen' = Enqueued(type, Now, priority, obj).data
  \/ Dequeue /\ foreseen' = Dequeued(type, Now).data
  \/ DequeueEmpty /\ UNCHANGED foreseen
  \/ Sift /\ UNCHANGED foreseen

MCSpec == MCInit /\ [][MCNext]_mcvars /\ WF_vars(Sift)

(* A call that has returned left exactly the array that HeapOps computes,  *)
(* item by item: the order of equal priorities is the code's too.          *)
EndsAsForeseen == pc = IDLE => data = foreseen
=============================================================================
