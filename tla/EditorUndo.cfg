SPECIFICATION Spec
CONSTANTS
  i1 = i1
  i2 = i2
  i3 = i3
  None = None
  Unused = Unused
  Missing = Missing
  Deleted = Deleted
  Id = {i1, i2}
  Stored0 = {i1}
  Leaf = {"x", "y"}
  Val <- MCVal1
  FieldOf <- TwoFlat
  Zero = 0
  Slot = {1}
  Ops = {"edit", "draft", "file", "undo", "reload"}
  MaxActs = 5
  MaxUpdaters = 1
  MAX_DEPTH = 2
  CustomData = TRUE
  PutMayFail = FALSE
INVARIANTS
  CommittedIsStored
PROPERTIES
  LandingIsAsMeant
  MovesHistory
CHECK_DEADLOCK FALSE
