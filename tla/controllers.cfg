CONSTANTS
  Kinds <- AllKinds
  Controller <- Reconcilers
  Service <- Services
  Objects <- AllObjects
  MaxId = 4
SPECIFICATION FairSpec
INVARIANTS
  TypeOK
  NothingMadeTwice
  ReadyIsComplete
PROPERTIES
  NothingDeletedUnasked
  NothingMadeUnguarded
  NothingForgotten
  KeepsPromise
  DeletionCompletes
  EventuallyReady
CHECK_DEADLOCK FALSE
