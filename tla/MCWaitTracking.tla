--------------------------- MODULE MCWaitTracking ---------------------------
(***************************************************************************)
(* Two mains.                                                              *)
(***************************************************************************)
EXTENDS WaitTracking
=============================================================================
