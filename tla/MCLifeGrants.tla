----------------------------- MODULE MCLifeGrants -----------------------------
(***************************************************************************)
(* Three active skills and an exotic one on Agility, two on Logic, and two *)
(* knowledge skills and a language; caps of 3 and 2.  Up to three modules  *)
(* are acquired (two of Real Life), and up to two transfers are saved.     *)
(***************************************************************************)
EXTENDS LifeSkillGrants

\* Skills, in the order their ids sort.
Blades == "blades"       Clubs == "clubs"        Exo == "exotic"
Palming == "palming"     Computer == "computer"  Software == "software"
History == "history"     Law == "law"            Or == "orzet"

MCActive == {Blades, Clubs, Exo, Palming, Computer, Software}
MCKnowledge == {History, Law, Or}
MCOrder == <<Blades, Clubs, Computer, Exo, Palming, Software, History, Law, Or>>
MCAttr == [s \in MCActive |-> IF s \in {Computer, Software} THEN "LOG" ELSE "AGI"]

MCModule == {"nation", "teen", "tour", "corp", "ghost"}
MCStage == [nation |-> 1, teen |-> 3, tour |-> 5, corp |-> 5, ghost |-> 99]
MCFamily == [m \in MCModule |-> IF m = "ghost" THEN "corp" ELSE m]
Only(f) == [s \in MCActive \cup MCKnowledge |-> IF s \in DOMAIN f THEN f[s] ELSE 0]
MCGives ==
  [nation |-> Only([blades |-> 2, history |-> 1]),
   teen   |-> Only([blades |-> 2, palming |-> 2, software |-> 2, history |-> 2]),
   tour   |-> Only([blades |-> 3, palming |-> 2]),
   corp   |-> Only([clubs |-> 2, computer |-> 5]),
   ghost  |-> Only([blades |-> 1])]
MCOptions == [m \in MCModule |-> IF m = "corp" THEN {{Blades}, {Clubs, Palming}} ELSE {}]
MCOptionGives == [m \in MCModule |-> IF m = "corp" THEN 1 ELSE 0]
MCNativeOf == [m \in MCModule |-> IF m = "nation" THEN {Or} ELSE {}]
MCMisnamed == {"ghost"}

Entry(n, m, a) == [entry |-> n, module |-> m, answer |-> a]
Answers(m) == MCOptions[m] \cup {Unanswered}
Lists == {<<>>} \cup UNION {{<<Entry(1, m, a), Entry(2, n, b), Entry(3, o, c)>> :
  a \in Answers(m), b \in Answers(n), c \in Answers(o)} :
    m \in {"nation", "corp"}, n \in {"teen", "tour"}, o \in {"tour", "corp", "ghost"}}

\* Rows the player may have saved: to a skill, to none, or made for an older grant.
Row(i, n, s, d, k, m, g) ==
  [id |-> i, entry |-> n, source |-> s, dest |-> d, ranks |-> k,
   print |-> [module |-> m, amount |-> g]]
Rows == {Row(1, 2, Blades, d, k, "tour", g) : d \in {Clubs, Exo, Computer, NoSkill}, k \in 1..2, g \in {2, 3}}
   \cup {Row(i, 3, Blades, d, k, "tour", 3) : i \in 1..2, d \in {Clubs, Exo, Palming}, k \in 2..3}
   \cup {Row(1, 3, Computer, Software, k, "corp", 5) : k \in 1..2}
   \cup {Row(2, 3, Blades, Clubs, 1, "corp", 1)}
   \cup {Row(2, 2, History, d, 1, "teen", 2) : d \in {Law, Or}}
MCTransferSets == {{}} \cup {{r, s} : r \in Rows, s \in Rows}
=============================================================================
