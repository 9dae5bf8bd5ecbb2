---------------------------- MODULE MCOutputBuffer ----------------------------
(***************************************************************************)
(* Instances of OutputBuffer for TLC.                                      *)
(***************************************************************************)
EXTENDS OutputBuffer, TLC

Symmetry == Permutations(Reads)

\* Positions on both sides of the capacity, and negative ones.
MCBegins == {-2, 0, 2, 3, 5}
===============================================================================
