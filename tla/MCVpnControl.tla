---------------------------- MODULE MCVpnControl ----------------------------
EXTENDS VpnControl
=============================================================================
