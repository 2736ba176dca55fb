CONSTANTS
  Release <- Releases
  BridgeVersion <- Bridge05
  Factory <- Dial04
  Parts = 2
  MaxStatus = 1
SPECIFICATION FairSpec
INVARIANTS OneUpdateAtATime
PROPERTIES SuccessIsInstalled NeverNewerThanBridge UpdatesEnd
