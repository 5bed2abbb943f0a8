------------------------ MODULE MCWorkflowActivation ------------------------
(***************************************************************************)
(* Two mains, and two upsets.                                              *)
(***************************************************************************)
EXTENDS WorkflowActivation
=============================================================================
