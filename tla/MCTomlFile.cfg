SPECIFICATION FairSpec
CONSTANTS
  Files <- MCFiles
  Argvs <- MCArgvs
  CHUNK = 3
  INT_MAX = 20
INVARIANT FileExact
PROPERTY EndsWithStatus
CHECK_DEADLOCK FALSE
