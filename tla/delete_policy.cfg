CONSTANTS
  Kinds <- AllKinds
  Controller <- Reconcilers
  Service <- Services
  Objects <- RetainedDatabases
  MaxId = 4
SPECIFICATION FairSpec
PROPERTY RetainHonoured
CHECK_DEADLOCK FALSE
