SPECIFICATION Spec
CONSTANTS
  INT64_MAX = 9999
  Releases <- MCReleases
  Bounds <- MCBounds
INVARIANTS
  WindowExact
  GoneForGood
PROPERTIES
  UpgradeKeepsFeature
CHECK_DEADLOCK FALSE
