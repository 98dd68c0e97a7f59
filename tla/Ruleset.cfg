SPECIFICATION Spec
CONSTANTS
  g1 = g1
  g2 = g2
  None = None
  Printed = Printed
  Unnamed = Unnamed
  NoDirs = NoDirs
  File <- MCFile
  Preset <- MCPreset
  Folder = {g1, g2}
  Picks <- MCPicks
  MAX = 2
  Slot = {1, 2}
  MaxActs = 3
INVARIANTS
  RulesOK
  CarriesItsMerge
PROPERTIES
  FolderIsNotAskedTwice
CHECK_DEADLOCK FALSE
