CONSTANTS
  kSectorSizeBytes = 32
  OffsetModulus = 4096
  kDWordsBytes = 4
  Disc <- SmallDisc
  RootSectors = {1}
  Dirs = {"root", "sub", "sub again", "empty"}
  attributes_ <- OpenDirs
  NoDir = NoDir
SPECIFICATION FairSpec
INVARIANT IInv
PROPERTIES
  IsListing
  ScanShrinks
  ReadEntriesEnds
CHECK_DEADLOCK FALSE
