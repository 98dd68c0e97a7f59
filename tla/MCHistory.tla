----------------------------- MODULE MCHistory -----------------------------
(***************************************************************************)
(* An instance of History for TLC: its cfg gives three snapshots and a     *)
(* stack of three.                                                         *)
(***************************************************************************)
EXTENDS History
=============================================================================
