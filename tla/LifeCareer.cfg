SPECIFICATION CareerSpec
CONSTANTS
  Skills <- MCSkill
  Group = {"influence"}
  Catalogs <- MCCatalogs
  Frees <- MCFrees
  Bonuses <- MCBonuses
  Rates = {1, 2}
  Bars <- MCBars
  CreationCap = 2
  CareerCap = 3
  Purchases <- MCPurchases
  MaxRaises = 2
  MaxLevels = 2
  NoGroup = NoGroup
  Absent = Absent
  NoSnapshot = NoSnapshot
INVARIANTS
  RowsOK
  LevelsAreEarned
PROPERTIES
  RatingsAreKept
CHECK_DEADLOCK FALSE
