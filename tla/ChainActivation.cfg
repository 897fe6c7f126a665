CONSTANTS
  Blocks = {"g", "a1", "a2", "b1", "b2", "b3", "b4", "c3"}
  Genesis = "g"
  NoBlock = "none"
  Parent <- MCParent
  Proof <- MCProof
  Address <- MCAddress
  BadBody = {"c3"}
  BadConnect = {"b2"}
  CheckpointSpan = 5
  Requests = {"restart"}
  Targets = {}
  MaxPrecious = 2
  MaxSequence = 9
SPECIFICATION FairSpec
CHECK_DEADLOCK FALSE
INVARIANTS
  CandidatesExact
  AncestryExact
  SettledOnBest
PROPERTIES
  ForwardProgress
  Settles
