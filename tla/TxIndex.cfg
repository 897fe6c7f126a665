CONSTANTS
  Blocks = {"g", "a1", "b1", "b2"}
  Genesis = "g"
  NoBlock = "none"
  Parent <- MCParent
  StartTips = {"none", "a1"}
  MaxMoves = 3
  MaxQueue = 4
  MaxRestarts = 1
SPECIFICATION FairSpec
CHECK_DEADLOCK FALSE
INVARIANTS
  LocatorBacked
  DrainedIndexHasChain
  MigrationLosesNothing
PROPERTIES
  CatchesUp
