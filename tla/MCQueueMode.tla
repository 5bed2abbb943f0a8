----------------------------- MODULE MCQueueMode -----------------------------
(***************************************************************************)
(* Executions of one main, with another main that can lead as well.        *)
(***************************************************************************)
EXTENDS QueueMode

CONSTANT m1

MCHomeOf == [e \in Executions |-> m1]
=============================================================================
