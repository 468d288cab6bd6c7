SPECIFICATION FairSpec
CONSTANTS
  MaxId = 18
  Preexisting <- OwnNetwork
  Configs <- OnOwnNetwork
  MaxFaults = 1
INVARIANTS IInv ForeignIntact
PROPERTIES NoLiveResourceForgotten DeletionCompletes CreationRecovers
