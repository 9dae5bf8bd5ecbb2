----------------------------- MODULE MCOutputPoll -----------------------------
(***************************************************************************)
(* Instances of OutputPoll for TLC.                                        *)
(***************************************************************************)
EXTENDS OutputPoll
===============================================================================
