CONSTANTS
  Processes = {"cli", "server"}
  Aborting = {"cli"}
  Manifests <- SomeManifests
  MaxId = 6
  MaxFaults = 1
SPECIFICATION FairSpec
INVARIANTS
  TypeOK
  NothingLost
  WhatIsRecordedIsComplete
  NothingShared
PROPERTIES
  ForgottenWhenGone
  TornStopsAll
  DeletesInTheEnd
CHECK_DEADLOCK FALSE
