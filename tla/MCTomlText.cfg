SPECIFICATION Spec
CONSTANTS
  LLONG_MAX = 9999
  OutOfRange <- MCOutOfRange
  Codes <- MCCodes
  Tasks <- AllTasks
INVARIANTS
  Utf8Inverse
  LinesKept
  QuotesReadable
  LinesJoined
  EscapesReturn
  NumbersExact
  TimestampsExact
CHECK_DEADLOCK FALSE
