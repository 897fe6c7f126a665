CONSTANTS
  Blocks = {"g", "a1", "a2", "b1", "x2", "y1"}
  Genesis = "g"
  NoBlock = "none"
  Parent <- MCParent
  Txs = {"t1", "t2"}
  TxsOf <- MCTxsOf
  BadLate = {"y1"}
  BadRoots = {"x2"}
  Maturity = 0
  Recipients = 1
  MaxFaults = 1
  MaxRestarts = 1
SPECIFICATION Spec
CHECK_DEADLOCK FALSE
INVARIANTS
  RootsFollowTip
  ReceiptsFollowChain
  StakersFollowChain
  AssertionsHold
PROPERTIES
  OnlyBadBlocksFail
