CONSTANTS
  Blocks = {"g", "a1", "a2", "a3", "a4", "b2", "b3"}
  Genesis = "g"
  NoBlock = "none"
  Parent <- MCParent
  Bad = {"b3"}
  Announces <- MCAnnounces
  Peers = {"honest", "slow"}
  Honest = {"honest"}
  NoPeer = NoPeer
  MaxInTransit = 1
  Window = 2
  MinBlocksToKeep = 2
  CheckpointSpan = 1
SPECIFICATION Spec
CHECK_DEADLOCK FALSE
INVARIANTS
  DownloadsExact
  PeersPointToIndex
PROPERTY
  Fetches
