---------------------------- MODULE MCIOController ----------------------------
(***************************************************************************)
(* Instances of IOController for TLC.                                      *)
(***************************************************************************)
EXTENDS IOController
===============================================================================
