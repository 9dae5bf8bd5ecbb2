--------------------------- MODULE MCProgramExecutor ---------------------------
(***************************************************************************)
(* Instances of ProgramExecutor for TLC.                                   *)
(***************************************************************************)
EXTENDS ProgramExecutor
===============================================================================
