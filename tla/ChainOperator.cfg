CONSTANTS
  Blocks = {"g", "a1", "b1", "b2"}
  Genesis = "g"
  NoBlock = "none"
  Parent <- MCParent
  Proof <- MCProof
  Address <- MCAddress
  BadBody = {}
  BadConnect = {}
  CheckpointSpan = 0
  Requests = {"invalidate", "reconsider", "precious", "clean"}
  Targets = {"a1", "b1", "b2"}
  MaxPrecious = 1
  MaxSequence = 5
SPECIFICATION Spec
CHECK_DEADLOCK FALSE
INVARIANTS
  SettledUnlessForgotten
  NoCandidateLeft
