------------------------------ MODULE MCTalent ------------------------------
(***************************************************************************)
(* Five talents (a sixth, Blood Mage, only in a folder), three letters and *)
(* five species: one with a metavariant, a shapeshifter, the A.I., and one *)
(* only the folder has.  The folder has other forms than the vendored data *)
(* for the two that have any.                                              *)
(***************************************************************************)
EXTENDS TalentPatch

MCOrder == <<"A.I.", "Adept", "Blood Mage", "Magician", "Mundane", "Technomancer">>
MCKeyOf == [t \in NamesIn(MCOrder) |->
  IF t = "A.I." THEN "DEP" ELSE IF t = "Technomancer" THEN "RES" ELSE
  IF t = "Mundane" THEN "none" ELSE "MAG"]

Core == [A |-> <<"Magician", "Technomancer", "A.I.">>,
         C |-> <<"Adept", "Technomancer", "A.I.">>, E |-> <<"A.I.">>]
\* The folder adds a talent and starts every talent one higher.
MCTalentsAt == [core |-> Core, house |-> [Core EXCEPT !.C = @ \o <<"Blood Mage">>]]
Starts(more) == [l \in {"A", "C", "E"} |-> [t \in NamesIn(MCOrder) |->
  IF t = "Mundane" THEN 0 ELSE (IF l = "A" THEN 2 ELSE 1) + more]]
MCStartAt == [core |-> Starts(0), house |-> Starts(1)]

All == {"Human", "Elf", "Fox", "A.I.", "Naga"}
MCSpecies == [core |-> All \ {"Naga"}, house |-> All]
Variants(elf, fox) == [m \in All |-> IF m = "Elf" THEN elf ELSE IF m = "Fox" THEN fox ELSE {}]
MCForms == [core |-> Variants({"Nocturna"}, {"Human", "Elf"}),
            house |-> Variants({"Dryad"}, {"Human", "Wolf"})]
\* The folder opens the technomancer to the shapeshifter.
Allowed(techno) == [t \in NamesIn(MCOrder) |->
  IF t = "A.I." THEN {"A.I."} ELSE IF t = "Technomancer" THEN techno ELSE All \ {"A.I."}]
MCAllowed == [core |-> Allowed({"Human", "Elf"}), house |-> Allowed({"Human", "Elf", "Fox"})]
Enable(m, r, d) == [MAG |-> m, RES |-> r, DEP |-> d]
Bodies == All \X {NoForm, "Nocturna", "Dryad", "Human", "Elf", "Wolf"}
MCFloor == [w \in {"core", "house"} |-> [p \in Bodies |->
  IF p[1] = "Fox" /\ p[2] # NoForm THEN Enable(1, 0, 0) ELSE
  IF p[1] = "A.I." THEN Enable(0, 0, 1) ELSE
  IF p[2] = "Dryad" THEN Enable(0, 1, 0) ELSE Enable(0, 0, 0)]]
MCLeast == [p \in Bodies |-> IF p[1] = "A.I." THEN Enable(0, 0, 1) ELSE Enable(1, 1, 0)]

Fresh == [world |-> "core", method |-> "Priority", letter |-> "E", talent |-> "Mundane",
          metatype |-> "Human", form |-> NoForm, special |-> Enable(1, 1, 0), holds |-> {}]
\* A new character, and what a file may say: a species only the folder has; a
\* talent only the folder has, without it; a talent its letter does not offer, with
\* rows; rows its talent cannot use; a form of another species, of the other data,
\* and its own species' name for one; and a species no data in hand has.
MCStarting == {Fresh,
  [Fresh EXCEPT !.world = "house", !.letter = "A", !.talent = "Magician",
                !.metatype = "Naga", !.special = Enable(3, 0, 0), !.holds = {"spells"}],
  [Fresh EXCEPT !.letter = "C", !.talent = "Blood Mage", !.holds = {"powers", "spells"}],
  [Fresh EXCEPT !.letter = "C", !.talent = "Magician", !.metatype = "Fox", !.form = "Wolf",
                !.holds = {"spells", "foci"}],
  [Fresh EXCEPT !.holds = {"powers", "sprites"}, !.form = "Human"],
  [Fresh EXCEPT !.metatype = "Elf", !.form = "Human"],
  [Fresh EXCEPT !.metatype = "Naga"]}

\* The folder of this instance is one the proofs speak of.
ASSUME FolderAdds == FoldersOnlyAdd /\ RowsOffer /\ EveryoneIsServed /\ StartsOnlyGrow
=============================================================================
