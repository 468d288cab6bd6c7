SPECIFICATION FairSpec
CONSTANTS
  MaxId = 14
  Preexisting <- Nothing
  Configs <- OnlyNAT
  MaxFaults = 1
PROPERTIES CreatedBecomesReady
