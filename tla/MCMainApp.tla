------------------------------- MODULE MCMainApp -------------------------------
(***************************************************************************)
(* Instances of MainApp for TLC.                                           *)
(***************************************************************************)
EXTENDS MainApp
===============================================================================
