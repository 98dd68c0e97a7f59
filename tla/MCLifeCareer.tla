----------------------------- MODULE MCLifeCareer -----------------------------
(***************************************************************************)
(* A group of two skills and a skill of its own.  The other catalog has    *)
(* lost the lone skill and taken a member out of the group.                *)
(***************************************************************************)
EXTENDS LifeCareer

Levels(a, b, c) == [s \in Skills |-> CASE s = "con" -> a [] s = "etiquette" -> b [] OTHER -> c]
MCSkill == {"con", "etiquette", "diving"}
MCCatalogs ==
  {[s \in MCSkill |-> IF s = "diving" THEN NoGroup ELSE "influence"],
   [s \in MCSkill |-> IF s = "diving" THEN Absent ELSE IF s = "con" THEN NoGroup ELSE "influence"]}
MCFrees == {Levels(1, 1, 0), Levels(1, 0, 2)}
MCBonuses == {Levels(0, 0, 0), Levels(0, 0, 1)}
MCBars == {{}, {"diving"}}
MCPurchases == {[skills |-> s, groups |-> [g \in Group |-> 1]] : s \in {Levels(0, 0, 1), Levels(1, 0, 0)}}
=============================================================================
