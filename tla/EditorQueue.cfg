SPECIFICATION Spec
CONSTANTS
  i1 = i1
  i2 = i2
  i3 = i3
  None = None
  Unused = Unused
  Missing = Missing
  Deleted = Deleted
  Id = {i1}
  Stored0 = {i1}
  Leaf = {"x", "y"}
  Val <- MCVal2
  FieldOf <- OneField
  Zero = 0
  Slot = {1}
  Ops = {"edit", "updater"}
  MaxActs = 5
  MaxUpdaters = 2
  MAX_DEPTH = 2
  CustomData = TRUE
  PutMayFail = FALSE
INVARIANTS
  UpdatersWaitTheirTurn
PROPERTIES
  LandingIsAsMeant
  HeldEditsAreSent
  EditorComesFreeUnlessUploading
CHECK_DEADLOCK FALSE
