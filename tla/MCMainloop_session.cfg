SPECIFICATION Spec
CONSTANTS
  MaxQlen = 2
  DtlsPsk = FALSE
  SslRekey = "SSL"
  DtlsRekey = "SSL"
  SslKa = {"NONE", "REKEY", "DPD_DEAD"}
  DtlsKa = {"NONE", "REKEY", "DPD_DEAD", "DPD"}
  ServerCompr = {"DEFLATE"}
  ServerDtlsCompr = {TRUE}
  BufSizes = {1}
  ReconnectTimeout = 1
  ReconnectInterval = 1
  ReconnectIntervalMax = 2
  Commands = {"DETACH", "PAUSE"}
  ScriptTun = TRUE
  MaxTx = 1
  MaxRx = 2
  MaxSess = 2
  MaxCmds = 2
INVARIANTS DtlsResources DtlsSessionFresh PauseClosesConnections DetachKeepsCookie RxInOrder
PROPERTIES NoStaleDtlsSend
