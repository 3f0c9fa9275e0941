CONSTANTS
  kSectorSizeBytes = 32
  OffsetModulus = 4096
  kDWordsBytes = 4
  Disc <- SearchDisc
  RootSectors = {1, 4, 5}
  Volumes <- SearchVolumes
  Listings <- SearchListings
  EmptyName <- Blank
SPECIFICATION PrintFairSpec
INVARIANTS
  PrintTypeOK
  PrintAbortHasCause
  PrintsTree
PROPERTY
  PrintEnds
CHECK_DEADLOCK FALSE
