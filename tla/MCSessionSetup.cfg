SPECIFICATION Spec
CONSTANTS
  Alice = Alice
  Bob = Bob
  MaxReceiverChains = 1
  MaxSkippedMessageKeys = 2
  MaxMessageGap = 2
  MaxOneTimeKeys = 1
  KeysEach = 1
  MaxStarted = 2
  MaxSessions = 2
  MaxSent = 3
INVARIANTS
  EndsAgree
  RoutedRight
  PreKeyReadable
PROPERTIES
  ChannelSpec
CHECK_DEADLOCK FALSE
