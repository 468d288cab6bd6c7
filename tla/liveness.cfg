SPECIFICATION FairSpec
CONSTANTS
  MaxId = 14
  Preexisting <- Nothing
  Configs <- Troubled
  MaxFaults = 1
PROPERTIES DeletionCompletes CreationRecovers
