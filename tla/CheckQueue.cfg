CONSTANTS
  Masters = {import, net}
  Workers = {w1, w2}
  NoThread = none
  Interruptible = {import, w1, w2}
  BatchSize = 2
  MaxChecks = 4
  Bad = {3}
SPECIFICATION FairSpec
INVARIANTS VerdictExact NothingLeftBehind
PROPERTIES BlockEnds WorkersJoin
