SPECIFICATION Spec
CONSTANTS
  Active <- MCActive
  Knowledge <- MCKnowledge
  Order <- MCOrder
  Exotic = {"exotic"}
  Grouped = {"palming"}
  Unavailable = {}
  AttrOf <- MCAttr
  KnownNative = {}
  ActiveCap = 3
  KnowledgeCap = 2
  Module <- MCModule
  StageOf <- MCStage
  FamilyOf <- MCFamily
  Gives <- MCGives
  Options <- MCOptions
  OptionGives <- MCOptionGives
  NativeOf <- MCNativeOf
  Misnamed <- MCMisnamed
  Acquisitions <- Lists
  TransferSets <- MCTransferSets
  Unanswered = Unanswered
  NoSkill = NoSkill
INVARIANTS
  FreeLevelsOK
  LevelsConserved
  CompleteIsFinal
CHECK_DEADLOCK FALSE
