CONSTANTS
  Places = {p1, p2, p3}
  Handles = {h}
  Numbers = {3, 4}
  Nowhere = nowhere
  MaxOpens = 3
SPECIFICATION Spec
INVARIANTS
  TypeOK
  OwnsItsNumber
  NothingLeaks
  HandleReadsImage
CHECK_DEADLOCK FALSE
