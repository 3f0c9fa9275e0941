CONSTANT
  MaxSteps = 6
SPECIFICATION FairSpec
INVARIANTS
  TypeOK
  IInv
  StoppedAtPrompt
  OneStepPerCommand
  NoOrphanUnlessQuit
PROPERTY
  WaitReturns
CHECK_DEADLOCK FALSE
