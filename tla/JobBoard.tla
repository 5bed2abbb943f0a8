------------------------------- MODULE JobBoard -------------------------------
(***************************************************************************)
(* What queue mode promises, whatever fails: an execution is put on the    *)
(* board once, one worker at most ever takes it off, its nodes are started *)
(* at most once, by that worker, and never after it was withdrawn.         *)
(***************************************************************************)
CONSTANTS Executions, Workers, Nobody

VARIABLES
  offer,   \* where each execution stands on the board
  taker,   \* the worker that took it
  run      \* whether its nodes run

boardVars == <<offer, taker, run>>

BoardInit ==
  /\ offer = [e \in Executions |-> "absent"]
  /\ taker = [e \in Executions |-> Nobody]
  /\ run = [e \in Executions |-> "no"]

Post(e) ==
  /\ offer[e] = "absent"
  /\ offer' = [offer EXCEPT ![e] = "offered"]
  /\ UNCHANGED <<taker, run>>

Withdraw(e) ==
  /\ offer[e] = "offered"
  /\ offer' = [offer EXCEPT ![e] = "withdrawn"]
  /\ UNCHANGED <<taker, run>>

Take(w, e) ==
  /\ offer[e] = "offered"
  /\ offer' = [offer EXCEPT ![e] = "taken"]
  /\ taker' = [taker EXCEPT ![e] = w]
  /\ UNCHANGED run

Begin(e) ==
  /\ offer[e] = "taken"
  /\ run[e] = "no"
  /\ run' = [run EXCEPT ![e] = "going"]
  /\ UNCHANGED <<offer, taker>>

\* Nodes end, or never start.  A worker that crashes ends all that it runs.
Finish(S) ==
  /\ \A e \in S : offer[e] = "taken"
  /\ run' = [e \in Executions |-> IF e \in S THEN "over" ELSE run[e]]
  /\ UNCHANGED <<offer, taker>>

BoardNext ==
  \/ \E e \in Executions : Post(e) \/ Withdraw(e) \/ Begin(e)
  \/ \E e \in Executions, w \in Workers : Take(w, e)
  \/ \E S \in SUBSET Executions : Finish(S)

BoardSpec == BoardInit /\ [][BoardNext]_boardVars
=============================================================================
