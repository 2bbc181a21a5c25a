SPECIFICATION FairSpec
CONSTANTS
  Argvs <- MCArgvs
  Hosts <- MCHosts
  Fds = {0, 3}
INVARIANTS
  TypeOK
  DescriptorUse
  LeakOnlyWithoutMsrs
  FetchWithinBuffer
  MsrsExact
  ScanExact
PROPERTIES
  PublishesAllOrNothing
  Terminates
CHECK_DEADLOCK FALSE
