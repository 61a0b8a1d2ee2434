SPECIFICATION Spec
CONSTANTS
  MaxOneTimeKeys = 2
  MaxGenerated = 4
  MaxBatch = 3
INVARIANTS
  ServableUnlessCrowdedOut
  NewestKept
  UsedKeysGone
  UploadedIdsDistinct
  PublishedWereUploaded
  UploadInv
