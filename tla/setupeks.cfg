CONSTANTS
  Setups <- SomeSetups
  MaxId = 24
  MaxFaults = 1
SPECIFICATION FairSpec
INVARIANTS
  TypeOK
  NothingLost
  ReadyIsComplete
PROPERTIES
  NothingDeletedUnasked
  NothingForgotten
  DeletionCompletes
  EventuallyReady
CHECK_DEADLOCK FALSE
