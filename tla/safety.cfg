SPECIFICATION Spec
CONSTANTS
  MaxId = 18
  Preexisting <- Nothing
  Configs <- Various
  MaxFaults = 2
INVARIANTS TypeOK IInv RecordedIsLive ReadyIsEarned NothingLostWithoutFault CompleteWithoutFault
PROPERTIES NoLiveResourceForgotten DeletingIsFinal DeletionIsAsked KeepsPromise
