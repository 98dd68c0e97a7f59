------------------------------ MODULE MCLedger ------------------------------
(***************************************************************************)
(* Instances of CareerLedger for TLC.                                      *)
(***************************************************************************)
EXTENDS CareerLedger, TLC

MCFloor == ("AGI" :> 1 @@ "MAG" :> 1)
MCMaximum == ("AGI" :> 3 @@ "MAG" :> 3)
MCQualityKarma == ("catlike" :> 7 @@ "uncouth" :> -14)
MCGradeKarma == (1 :> 13)

Mage ==
  [career |-> FALSE, rating |-> ("AGI" :> 2 @@ "MAG" :> 3), levels |-> ("AGI" :> 0 @@ "MAG" :> 0),
   spirits |-> ("s1" :> 2), foci |-> ("f1" :> 2), spells |-> <<"p1", "p2">>,
   contacts |-> 1, grade |-> 0, qualities |-> {"uncouth"}, loss |-> 0, baseline |-> NoBaseline]

\* Karma bought the last level of both ratings.
Split == [Mage EXCEPT !.levels = ("AGI" :> 1 @@ "MAG" :> 1)]

\* An initiate from the first, whose Magic is over the metatype's maximum.
Initiated == [Mage EXCEPT !.grade = 1, !.rating = ("AGI" :> 3 @@ "MAG" :> 4), !.qualities = {"catlike"}]

\* What an importer hands to compute: a career character with no baseline.
Imported == [Mage EXCEPT !.career = TRUE]

\* A save from before the records: Magic raised over its baseline, ware since.
OldSave ==
  [Mage EXCEPT
     !.career = TRUE, !.loss = 1,
     !.baseline = [rating |-> ("AGI" :> 2 @@ "MAG" :> 2), qualities |-> None, items |-> None,
                   drop |-> None, drops |-> None, kept |-> << >>]]

LedgerSheets == {Mage, Split, Initiated, Imported, OldSave}
=============================================================================
