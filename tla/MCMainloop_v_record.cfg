SPECIFICATION Spec
CONSTANTS
  MaxQlen = 1
  DtlsPsk = FALSE
  SslRekey = "NONE"
  DtlsRekey = "NONE"
  SslKa = {"NONE"}
  DtlsKa = {"NONE"}
  ServerCompr = {"STATELESS"}
  ServerDtlsCompr = {FALSE}
  BufSizes = {1, 2}
  ReconnectTimeout = 0
  ReconnectInterval = 1
  ReconnectIntervalMax = 2
  Commands = {"PAUSE"}
  ScriptTun = FALSE
  MaxTx = 1
  MaxRx = 0
  MaxSess = 1
  MaxCmds = 1
INVARIANTS RecordIntact
