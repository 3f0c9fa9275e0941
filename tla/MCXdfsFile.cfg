CONSTANTS
  Files = {"long", "last", "high"}
  attributes_ <- WithHigh
  kSectorSizeBytes = 3
  OffsetModulus = 15
  ImageBytes = 14
  ReadSizes = {2, 4}
  SeekOffsets = {0, 4, 9}
  OtherOffsets = {0}
  NoFile = NoFile
SPECIFICATION FairSpec
INVARIANTS
  TypeOK
  CheckNeverFails
  IInv
PROPERTIES
  IsStream
  ReadEnds
CHECK_DEADLOCK FALSE
