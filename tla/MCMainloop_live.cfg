SPECIFICATION FairSpec
CONSTANTS
  MaxQlen = 1
  DtlsPsk = FALSE
  SslRekey = "NONE"
  DtlsRekey = "NONE"
  SslKa = {"NONE", "DPD"}
  DtlsKa = {"NONE"}
  ServerCompr = {"NONE"}
  ServerDtlsCompr = {FALSE}
  BufSizes = {1}
  ReconnectTimeout = 1
  ReconnectInterval = 1
  ReconnectIntervalMax = 2
  Commands = {"CANCEL", "PAUSE"}
  ScriptTun = FALSE
  MaxTx = 1
  MaxRx = 0
  MaxSess = 1
  MaxCmds = 2
PROPERTIES CancelEnds PauseObeyed
