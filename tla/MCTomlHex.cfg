SPECIFICATION Spec
CONSTANTS
  LLONG_MAX = 9999
  OutOfRange <- MCOutOfRange
  Codes <- MCCodes
  Tasks <- NumberTask
INVARIANTS
  NoHexadecimal
CHECK_DEADLOCK FALSE
