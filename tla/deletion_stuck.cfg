SPECIFICATION FairSpec
CONSTANTS
  MaxId = 10
  Preexisting <- Nothing
  Configs <- OnlyBastion
  MaxFaults = 0
PROPERTIES DeletionFinishes
