------------------------- MODULE MCPersistAndCallback -------------------------
(***************************************************************************)
(* Instances of PersistAndCallback for TLC.                                *)
(***************************************************************************)
EXTENDS PersistAndCallback
===============================================================================
