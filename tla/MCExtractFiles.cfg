CONSTANTS
  kSectorSizeBytes = 32
  OffsetModulus = 4096
  kDWordsBytes = 4
  Disc <- SearchDisc
  RootSectors = {1, 4, 5}
  Volumes <- SearchVolumes
  Listings <- SearchListings
  EmptyName <- Blank
  SizeBytes <- SearchSizes
  buffer_size = 2
  MaxRuns = 2
SPECIFICATION FairSpec
INVARIANTS
  TypeOK
  AbortHasCause
  DoneIsComplete
PROPERTIES
  RerunTouchesNoFile
  ExtractEnds
CHECK_DEADLOCK FALSE
