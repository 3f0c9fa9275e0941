CONSTANTS
  Xbes <- SmallXbes
  ImageHeader <- SmallImageHeader
  EhdrSize = 3
  PhdrSize = 2
  ShdrSize = 3
  page_size = 8
  FalseOffset = 64
  Modulus = 64
  HalfModulus = 4
  OwnNameSize = 1
  buffer_size = 2
SPECIFICATION FairSpec
INVARIANTS
  WInv
  Loadable
  NamesIndexed
  ThrowHasCause
PROPERTIES
  ConvertAdvances
  ConvertEnds
CHECK_DEADLOCK FALSE
