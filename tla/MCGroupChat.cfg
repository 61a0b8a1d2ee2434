SPECIFICATION Spec
CONSTANTS
  Radix = 2
  Readers = {r1}
  MaxMessages = 3
  MaxKeys = 2
  Damages <- MCDamages
INVARIANTS
  HistoryReadable
  HistoryExportable
  VerifiedOnEvidence
PROPERTIES
  HistorySpec
