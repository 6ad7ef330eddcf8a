CONSTANTS
  Handshake = 4
  Period = 6
  Rekey = 5
  RekeyMethods = {"NONE", "SSL", "TUNNEL"}
  SslWake = 8
SPECIFICATION Spec
INVARIANTS TypeOK TunWaits HandshakeBounded SleepBounded KeyAge
