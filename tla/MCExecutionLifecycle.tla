------------------------ MODULE MCExecutionLifecycle ------------------------
(***************************************************************************)
(* One execution that two calls may resume (Race), or two executions, one  *)
(* of which a second call may resume (Pair).  All are of production modes  *)
(* and the limit is one.                                                   *)
(***************************************************************************)
EXTENDS ExecutionLifecycle, TLC

CONSTANTS x1, x2, x3, y1

MCRace == {x1, x2, x3}

MCPair == {x1, x2, y1}

MCIdOf == [c \in Calls |-> IF c = y1 THEN "y" ELSE "x"]

MCKindOf == [c \in Calls |-> IF c \in {x1, y1} THEN "new" ELSE "resume"]

MCModeOf == [c \in Calls |-> IF c = y1 THEN "trigger" ELSE "webhook"]

MCUnlimited == -1
=============================================================================
