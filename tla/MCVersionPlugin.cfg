SPECIFICATION FairSpec
CONSTANTS
  INT64_MAX = 9999
  Argvs <- MCArgvs
  Hosts <- MCHosts
INVARIANTS
  TypeOK
  EveryCheckDecided
  OsReleaseRules
  FixturesPass
PROPERTIES
  PrintsWanted
  RunEnds
CHECK_DEADLOCK FALSE
