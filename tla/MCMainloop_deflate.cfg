SPECIFICATION Spec
CONSTANTS
  MaxQlen = 2
  DtlsPsk = FALSE
  SslRekey = "NONE"
  DtlsRekey = "NONE"
  SslKa = {"NONE", "KEEPALIVE"}
  DtlsKa = {"NONE", "KEEPALIVE"}
  ServerCompr = {"NONE", "STATELESS", "DEFLATE"}
  ServerDtlsCompr = {FALSE, TRUE}
  BufSizes = {1, 2}
  ReconnectTimeout = 1
  ReconnectInterval = 1
  ReconnectIntervalMax = 2
  Commands = {"PAUSE"}
  ScriptTun = FALSE
  MaxTx = 2
  MaxRx = 0
  MaxSess = 1
  MaxCmds = 1
INVARIANTS TxConserved CompressorHasBuffer
