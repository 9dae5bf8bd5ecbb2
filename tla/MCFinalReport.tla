----------------------------- MODULE MCFinalReport -----------------------------
(***************************************************************************)
(* Instances of FinalReport, with threads that answer, for TLC.            *)
(***************************************************************************)
EXTENDS FinalReport
===============================================================================
