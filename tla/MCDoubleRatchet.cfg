SPECIFICATION Spec
CONSTANTS
  Alice = Alice
  Bob = Bob
  MaxReceiverChains = 2
  MaxSkippedMessageKeys = 2
  MaxMessageGap = 2
  MaxSent = 4
INVARIANTS
  NoReplay
  KeysErased
  NoKeyReuse
  RootsInStep
  ReceiverBehindSender
  PeerKeyKnown
  Openable
PROPERTIES
  PreKeyUntilAnswered
  ChannelSpec
