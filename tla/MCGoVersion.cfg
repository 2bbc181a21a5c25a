SPECIFICATION Spec
CONSTANTS
  INT64_MAX = 99
  Bytes <- MCBytes
  MaxLen = 6
INVARIANTS
  RegexAgrees
  TagsIgnored
CHECK_DEADLOCK FALSE
