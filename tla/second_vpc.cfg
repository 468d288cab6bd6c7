SPECIFICATION Spec
CONSTANTS
  MaxId = 10
  Preexisting <- Nothing
  Configs <- OnlyBastion
  MaxFaults = 1
INVARIANTS OneVpc
