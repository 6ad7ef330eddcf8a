----------------------------- MODULE MCMainloop -----------------------------
EXTENDS MainloopProperties
=============================================================================
