---------------------------- MODULE MCMtuDetect ----------------------------
EXTENDS MtuDetect
=============================================================================
