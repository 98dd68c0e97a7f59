SPECIFICATION Spec
CONSTANTS
  MAX_DEPTH = 3
  Snapshot = {s1, s2, s3}
  None = none
INVARIANTS
  DepthBound
PROPERTIES
  IsTimeline
