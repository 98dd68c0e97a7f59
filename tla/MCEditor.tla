------------------------------ MODULE MCEditor ------------------------------
(***************************************************************************)
(* Instances of CharacterEditor for TLC.                                   *)
(***************************************************************************)
EXTENDS CharacterEditor

CONSTANTS i1, i2, i3

MCVal1 == 0 .. 1

MCVal2 == 0 .. 2

\* Two leaves of one field: a body carries both.
OneField == [l \in {"x", "y"} |-> "f"]

\* A field of one leaf each.
TwoFlat == [l \in {"x", "y"} |-> l]

OneLeaf == [l \in {"x"} |-> "f"]

=============================================================================
