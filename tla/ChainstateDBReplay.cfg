CONSTANTS
  Blocks = {"g", "a1", "a2", "b1"}
  Genesis = "g"
  NoBlock = "none"
  Parent <- MCParent
  Txs <- MCTxs
  Outpoints = {"p", "x", "y", "z", "w"}
  MaxFile = 1
  MaxCrashes = 2
SPECIFICATION Spec
INVARIANT ReplaySurvivesRollback
