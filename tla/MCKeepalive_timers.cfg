SPECIFICATION Spec
CONSTANTS
  Dpd = 4
  Keepalive = 3
  RekeyMethod <- MCRekeyMethod
  Rekey = 7
  MaxSleep = 30
  MaxTime = 14
INVARIANTS TypeOK DeadPeerFound ProbedInTime ProbeLimit KeepaliveInTime
