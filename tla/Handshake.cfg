SPECIFICATION Spec
CONSTANTS
  h = h
  a = a
  b = b
  c = c
  Part = {a, b, c}
  NoHash = NoHash
  Vendored = Vendored
  Slot = {1, 2}
  Ruleset <- MCRuleset
  Foreign <- MCForeign
  MAX_SETS = 2
  MAX_CACHED_CUSTOM_CATALOGS = 1
  Kinds = {"compute", "settings", "catalog", "load"}
  MaxAsks = 3
  MaxOthers = 1
  MaxRestarts = 1
INVARIANTS
  TypeOK
  StoreIsRecent
  NeverAnotherSet
  CalmIsServed
PROPERTIES
  ComputeEndsUnlessUploading
CHECK_DEADLOCK FALSE
