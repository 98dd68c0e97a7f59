SPECIFICATION Spec
CONSTANTS
  None = None
  Attributes = {"AGI", "MAG"}
  Magic = "MAG"
  Floor <- MCFloor
  Maximum <- MCMaximum
  Spirits = {"s1"}
  Foci = {"f1"}
  Spells = {"p1", "p2"}
  Qualities = {"catlike", "uncouth"}
  QualityKarma <- MCQualityKarma
  FreeSpells = 1
  KarmaAttribute = 5
  KarmaSpirit = 1
  KarmaFocus = 2
  KarmaSpell = 5
  GradeKarma <- MCGradeKarma
  Sheets <- LedgerSheets
  MaxServices = 1
  MaxForce = 2
  MaxContacts = 1
  MaxGrade = 1
  MaxLoss = 1
  MaxPatches = 5
INVARIANTS
  TypeOK
  FloorsHold
  LedgerBalances
  QualitiesBalance
  ReopeningIsFree
PROPERTIES
  EnteringIsFree
  RecordIsKept
  RaisesArePriced
