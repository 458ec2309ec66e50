SPECIFICATION FairSpec
CONSTANTS
  Fitted <- MCFitted
  LiveMarkers = {"LIVE", "AUTO"}
  Files = 3
  Runner = 2
  MaxLosses = 2
INVARIANTS
  NoSweepLost
  CompleteUnlessCut
PROPERTIES
  InstalledInTheEnd
  TestedInTheEnd
