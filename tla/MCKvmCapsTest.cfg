SPECIFICATION Spec
CONSTANTS
  Argvs <- MCArgvs
  Trees <- MCTrees
INVARIANTS
  FixturesPass
  MockFaithful
  MistakesExact
  TableReleased
CHECK_DEADLOCK FALSE
