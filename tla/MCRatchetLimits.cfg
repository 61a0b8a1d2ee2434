SPECIFICATION RestoredSpec
CONSTANTS
  Alice = Alice
  Bob = Bob
  MaxReceiverChains = 1
  MaxSkippedMessageKeys = 1
  MaxMessageGap = 2
  MaxSent = 4
  MaxKeyPairs = 2
  MaxUnsaved = 2
INVARIANTS
  SessionInv
  Openable
  GoneForGood
