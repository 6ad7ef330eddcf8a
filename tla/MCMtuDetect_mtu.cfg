CONSTANTS
  Mtu = 16
  MaxTries = 10
  MaxResends = 5
  MaxUnexpected = 1
SPECIFICATION FairSpec
INVARIANTS DetectedIsCarried NothingForgotten
PROPERTIES DetectionEnds
