SPECIFICATION Spec
CONSTANTS
  o1 = o1
  o2 = o2
  c1 = c1
  c2 = c2
  c3 = c3
  b1 = b1
  b2 = b2
  NoCoin = NoCoin
  NoEntry = NoEntry
  NullHash = NullHash
  Outpoints <- MCOutpoints
  Coins <- MCCoins
  Unspendable <- MCUnspendable
  Blocks <- MCBlocks
INVARIANTS
  FlagContract
  NoLogicError
PROPERTIES
  ImplementsUtxoStack
