CONSTANTS
  kSectorSizeBytes = 32
  OffsetModulus = 4096
  kDWordsBytes = 4
  Disc <- SmallDisc
  RootSectors = {1}
  RootSector = 1
  Paths <- SomePaths
  Slash = slash
  sl = slash
  EmptyName <- Nameless
  RootName <- SlashName
  NoEntry = NoEntry
  kVolumeDescriptorOffsetBytes = 20
SPECIFICATION FairSpec
INVARIANTS
  IInv
  OpensWhatPathNames
  NotFoundIsAbsent
  SplitsPath
PROPERTIES
  LookupShrinks
  OpenEnds
CHECK_DEADLOCK FALSE
