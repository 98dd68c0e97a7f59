----------------------------- MODULE MCHandshake ----------------------------
(***************************************************************************)
(* Instances of DatasetHandshake for TLC: one folder with two directories  *)
(* enabled, and with one whose name spells the same; and a folder that was *)
(* never loaded.  Another visitor has the same pack, and one of the two    *)
(* directories.                                                            *)
(***************************************************************************)
EXTENDS DatasetHandshake

CONSTANTS h, a, b, c

MCRuleset ==
  { << h, << <<a>>, <<b>> >> >>, << h, << <<a, b>> >> >>, << NoHash, << <<c>> >> >> }

MCForeign == { << h, << <<a>> >> >> }

=============================================================================
