---------------------------- MODULE MCTaskBroker ----------------------------
(***************************************************************************)
(* Two requests of one type, a runner and a launcher.                      *)
(***************************************************************************)
EXTENDS TaskBroker

MCTypeOf == [x \in Requests \cup Runners \cup Launchers |-> "javascript"]
=============================================================================
