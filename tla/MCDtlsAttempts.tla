--------------------------- MODULE MCDtlsAttempts ---------------------------
EXTENDS DtlsAttempts
=============================================================================
