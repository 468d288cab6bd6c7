SPECIFICATION Spec
CONSTANTS
  MaxId = 14
  Preexisting <- Nothing
  Configs <- OnlyNAT
  MaxFaults = 1
INVARIANTS ReadyIsComplete
