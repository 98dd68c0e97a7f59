----------------------------- MODULE MCRuleset ------------------------------
(***************************************************************************)
(* An instance of Ruleset for TLC: a file in two versions that names       *)
(* custom data in both, one that changes nothing but names other           *)
(* directories, one preset that moves a number and one that does not.      *)
(***************************************************************************)
EXTENDS Ruleset

CONSTANTS g1, g2

House  == [name |-> "house", knob |-> 2, dirs |-> "a", dataset |-> None]
Edited == [name |-> "house", knob |-> Printed, dirs |-> "ab", dataset |-> None]
Plain  == [name |-> "plain", knob |-> Printed, dirs |-> NoDirs, dataset |-> None]

MCFile   == {House, Edited, Plain}
MCPreset == {[name |-> "Standard", knob |-> Printed], [name |-> "Prime Runner", knob |-> 3]}
MCPicks  ==
  {[settings |-> << House >>, folder |-> g1], [settings |-> << Edited >>, folder |-> None],
   [settings |-> << Plain, House >>, folder |-> g2], [settings |-> << >>, folder |-> g2]}
=============================================================================
