---------------------------- MODULE MCKeepalive -----------------------------
EXTENDS Keepalive
\* CSTP rehandshakes, and DTLS is told to make a new tunnel.
MCRekeyMethod == [c \in Channels |-> IF c = "CSTP" THEN "SSL" ELSE "TUNNEL"]
=============================================================================
