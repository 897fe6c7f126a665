CONSTANTS
  Txs = {"p", "c", "d", "r", "s", "k", "e"}
  Coins = {"c0", "c1", "c2", "c3", "c4", "c5", "c6"}
  NoTx = "none"
  Spends <- MCSpends
  Maker <- MCMaker
  Fee <- MCFee
  Coinstakes = {"s"}
  Replaceable = {"c"}
  Candidates <- MCCandidates
  LimitAncestors = 4
  LimitDescendants = 4
  MaxMempool = 4
  MaxDisconnected = 3
  Deltas = {3}
  MaxHeight = 2
  MaxPriorities = 1
SPECIFICATION Spec
INVARIANTS
  InputsAvailable
  LinksExact
  TotalsExact
