SPECIFICATION Spec
CONSTANTS
  MaxQlen = 2
  DtlsPsk = TRUE
  SslRekey = "NONE"
  DtlsRekey = "TUNNEL"
  SslKa = {"NONE", "DPD", "DPD_DEAD"}
  DtlsKa = {"NONE", "REKEY", "DPD_DEAD"}
  ServerCompr = {"STATELESS"}
  ServerDtlsCompr = {TRUE}
  BufSizes = {1}
  ReconnectTimeout = 0
  ReconnectInterval = 1
  ReconnectIntervalMax = 2
  Commands = {"CANCEL", "PAUSE"}
  ScriptTun = FALSE
  MaxTx = 3
  MaxRx = 0
  MaxSess = 1
  MaxCmds = 1
INVARIANTS TypeOK TxConserved RecordIntact ChannelOrder QueueLimit Backpressure CstpWakeup
PROPERTIES TunnelSpec
