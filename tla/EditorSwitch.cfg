SPECIFICATION Spec
CONSTANTS
  i1 = i1
  i2 = i2
  i3 = i3
  None = None
  Unused = Unused
  Missing = Missing
  Deleted = Deleted
  Id = {i1, i2, i3}
  Stored0 = {i1, i2}
  Leaf = {"x"}
  Val <- MCVal1
  FieldOf <- OneLeaf
  Zero = 0
  Slot = {1, 2}
  Ops = {"edit", "updater", "open", "new", "import", "dup", "delete"}
  MaxActs = 4
  MaxUpdaters = 1
  MAX_DEPTH = 2
  CustomData = TRUE
  PutMayFail = TRUE
INVARIANTS
  OneCharacterAtATime
PROPERTIES
  SwitchesEndUnlessUnanswered
  ShownNeverOlder
  LandsOnTheLiving
CHECK_DEADLOCK FALSE
