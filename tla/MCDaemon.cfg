SPECIFICATION FairDaemonSpec
CONSTANTS
  AppLists = {browser}
  NoApps = none
  Faults = {"dns"}
  StoreFaults <- AllStoreFaults
  MaxCrashes = 1
INVARIANTS ConnectedIsRecorded BlockingIsHeld
PROPERTIES  ShutdownLeavesNothing 
