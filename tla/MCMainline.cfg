SPECIFICATION Spec
CONSTANTS
  INT64_MAX = 9999
  Releases <- MainlineReleases
  Bounds <- Mainline
INVARIANTS
  CompareOpposite
CHECK_DEADLOCK FALSE
