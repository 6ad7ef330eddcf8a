--------------------------- MODULE MCHttpRequest ---------------------------
EXTENDS HttpRequest
\* The method sets given to openconnect_set_proxy_auth: all, and without NTLM.
MCSettings == {Methods, Methods \ {"NTLM"}}
MCProxyOffers == SUBSET Methods \ {{}}
\* For a server Digest and Basic have no user name: one of them is enough.
MCServerOffers == {{}, {"NTLM"}, {"NTLM", "Basic"}}
=============================================================================
