-------------------------- MODULE MCProcessRestart --------------------------
(***************************************************************************)
(* One execution of a production mode: a call that starts it, two that     *)
(* resume it, and the one the next process makes when it finds it "new".   *)
(***************************************************************************)
EXTENDS ProcessRestart, TLC

CONSTANTS x1, x2, x3, xr

MCCalls == {x1, x2, x3, xr}

MCIdOf == [c \in MCCalls |-> "x"]

MCKindOf == (x1 :> "new") @@ (x2 :> "resume") @@ (x3 :> "resume") @@ (xr :> "restart")

MCModeOf == [c \in MCCalls |-> "webhook"]

MCUnlimited == -1
=============================================================================
