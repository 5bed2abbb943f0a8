------------------------ MODULE MCConcurrencyControl ------------------------
(***************************************************************************)
(* Six calls: four of production modes, two of which resume the same       *)
(* execution, one evaluation and one manual run that no queue throttles.   *)
(***************************************************************************)
EXTENDS ConcurrencyControl, TLC

CONSTANTS a1, a2, b, c, e, m

MCCalls == {a1, a2, b, c, e, m}

MCIdOf == (a1 :> "a") @@ (a2 :> "a") @@ (b :> "b") @@ (c :> "c") @@ (e :> "e") @@ (m :> "m")

MCModeOf == (a1 :> "webhook") @@ (a2 :> "webhook") @@ (b :> "trigger") @@ (c :> "chat")
              @@ (e :> "evaluation") @@ (m :> "manual")

\* An evaluation limit nobody set: the constructor reads it as unlimited.
MCUnlimited == -2
=============================================================================
