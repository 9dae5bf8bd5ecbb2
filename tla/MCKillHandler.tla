----------------------------- MODULE MCKillHandler -----------------------------
(***************************************************************************)
(* Instances of ProgramExecutor, with threads that answer, for TLC.        *)
(***************************************************************************)
EXTENDS KillHandler
===============================================================================
