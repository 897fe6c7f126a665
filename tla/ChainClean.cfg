CONSTANTS
  Blocks = {"g", "a1", "a2", "a3", "b1", "b2", "b3"}
  Genesis = "g"
  NoBlock = "none"
  Parent <- MCParent
  Proof <- MCProof
  Address <- MCAddress
  BadBody = {}
  BadConnect = {}
  CheckpointSpan = 1
  Requests = {"clean"}
  Targets = {}
  MaxPrecious = 2
  MaxSequence = 9
SPECIFICATION Spec
CHECK_DEADLOCK FALSE
INVARIANT NoDanglingPointers
