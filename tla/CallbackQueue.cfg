CONSTANTS
  Workers = {w1, w2}
  Activators = {net}
  Importers = {import}
  Stakers = {stake}
  Cleaners = {clean}
  Main = main
  NoThread = none
  QueueLimit = 0
  MaxCalls = 2
  MaxCallbacks = 1
SPECIFICATION FairSpec
PROPERTIES FlushedCompletely ImplementsSerialCallbacks EveryCallbackRuns ActivatorsReturn ShutdownEnds
CHECK_DEADLOCK FALSE
