---------------------------- MODULE HttpRequest -----------------------------
(***************************************************************************)
(* do_https_request and process_http_proxy of http.c, with the loop of     *)
(* connect_https_socket (ssl.c): one request to a server behind an HTTP    *)
(* proxy.  Both the proxy and the server may demand authentication, close  *)
(* the connection in the middle of it, and redirect; the client keeps what *)
(* it has tried in proxy_auth and http_auth.                               *)
(*                                                                         *)
(* pc: "redirected" and "retry" are the labels of do_https_request; "dial" *)
(* is reconnect: of connect_https_socket; "connect" is retry: of           *)
(* process_http_proxy; "proxy" and "server" await a response.              *)
(***************************************************************************)
EXTENDS HttpAuth

CONSTANTS
  ProxyPass,      \* proxy_user and proxy_pass are set
  ProxySettings,  \* the method sets openconnect_set_proxy_auth may be given
  ProxyDefault,   \* or it was not called
  ProxyOffers,    \* the sets of methods a proxy may name in a response
  ServerOffers,   \* and the server
  FetchRedirect,  \* the fetch_redirect argument is not 0
  NtlmAgain,      \* a proxy sends a new NTLM challenge after a wrong answer
  MaxRedirects    \* max_redirects, 10 in the code

ASSUME RequestAssumption ==
  /\ ProxyPass \in BOOLEAN /\ ProxyDefault \in BOOLEAN
  /\ ProxySettings \subseteq SUBSET Methods
  /\ ProxyOffers \subseteq SUBSET Methods /\ ServerOffers \subseteq SUBSET Methods
  /\ FetchRedirect \in BOOLEAN
  /\ NtlmAgain \in BOOLEAN
  /\ MaxRedirects \in Nat

VARIABLES
  pc,
  proxy_auth, http_auth,
  proxy_close_during_auth,
  proxy_tries_auth,    \* auth of process_http_proxy
  auth,                \* auth of do_https_request
  try_http_auth, retry_on_auth_fail,
  max_redirects,
  redirect_url,        \* "NULL", "local", "newhost" or "bad"
  connected,           \* https_sess
  rq_retry,
  used,                \* history: the challenge the last header answered
  logins               \* history: passwords sent to the proxy since the label retry

proxyVars == <<proxy_auth, proxy_close_during_auth, proxy_tries_auth, logins>>
serverVars == <<http_auth, auth, try_http_auth, retry_on_auth_fail,
                max_redirects, redirect_url>>
vars == <<pc, proxyVars, serverVars, connected, rq_retry, used>>

RedirectURLs == {"NULL", "local", "newhost", "bad"}

\* A request finds what an earlier one has left: Basic refused for good, the
\* target of a redirect that was never followed, a proxy that closed in the middle
\* of the authentication, an open connection.
Init ==
  /\ pc = "redirected"
  /\ \/ ProxyDefault /\ proxy_auth = default_methods
     \/ \E ms \in ProxySettings : proxy_auth = set_authmethods(ms)
  /\ http_auth \in { default_methods, clear_auth_states([default_methods EXCEPT
                                        !["Basic"].state = FAILED], TRUE) }
  /\ proxy_close_during_auth \in BOOLEAN /\ proxy_tries_auth = FALSE
  /\ auth = FALSE /\ try_http_auth = TRUE /\ retry_on_auth_fail = FALSE
  /\ max_redirects = MaxRedirects
  /\ redirect_url \in RedirectURLs
  /\ connected \in BOOLEAN /\ rq_retry = FALSE
  /\ used = "NULL" /\ logins = 0
-----------------------------------------------------------------------------
\* out:, on success and on failure
Out ==
  /\ http_auth' = clear_auth_states(http_auth, TRUE)
  /\ pc' = "done"
  /\ UNCHANGED <<auth, try_http_auth, max_redirects>>

\* mutant: one redirect too many
Request_OffByOne ==
  /\ pc = "redirected" /\ max_redirects >= 0
  /\ max_redirects' = max_redirects - 1
  /\ retry_on_auth_fail' = FALSE
  /\ pc' = "retry"
  /\ UNCHANGED <<proxyVars, connected, rq_retry, redirect_url, http_auth, auth,
                 try_http_auth, used>>

\* redirected: up to retry:
Request ==
  /\ pc = "redirected"
  /\ UNCHANGED <<proxyVars, connected, rq_retry, redirect_url>>
  /\ \/ /\ max_redirects = 0
        /\ Out /\ UNCHANGED <<retry_on_auth_fail, used>>
     \/ /\ max_redirects > 0 /\ ~auth
        /\ max_redirects' = max_redirects - 1
        /\ retry_on_auth_fail' = FALSE
        /\ pc' = "retry"
        /\ UNCHANGED <<http_auth, auth, try_http_auth, used>>
     \/ /\ max_redirects > 0 /\ auth
        /\ \E o \in gen_authorization_hdr(http_auth, FALSE) :
             \/ /\ o.ret = "0" \/ (o.ret = "none" /\ retry_on_auth_fail)
                /\ http_auth' = clear_auth_states(o.auth, FALSE)
                /\ try_http_auth' = (try_http_auth /\ o.ret = "0")
                /\ max_redirects' = max_redirects - 1
                /\ retry_on_auth_fail' = FALSE
                /\ used' = o.used
                /\ pc' = "retry"
                /\ UNCHANGED auth
             \/ /\ o.ret # "0" /\ ~(o.ret = "none" /\ retry_on_auth_fail)
                /\ http_auth' = clear_auth_states(o.auth, TRUE)
                /\ pc' = "done"
                /\ UNCHANGED <<auth, try_http_auth, max_redirects,
                               retry_on_auth_fail, used>>

\* retry:, up to the request having been written
Retry ==
  /\ pc = "retry"
  /\ rq_retry' = connected
  /\ pc' = IF connected THEN "send" ELSE "dial"
  /\ logins' = 0
  /\ UNCHANGED <<proxy_auth, proxy_close_during_auth, proxy_tries_auth, serverVars,
                 connected, used>>

\* mutant: retries on the new connection too
Send_Always ==
  /\ pc = "send"
  /\ UNCHANGED <<proxyVars, rq_retry, used, retry_on_auth_fail, redirect_url>>
  /\ \/ pc' = "server" /\ UNCHANGED <<serverVars, connected>>
     \/ connected' = FALSE /\ pc' = "retry" /\ UNCHANGED serverVars

Send ==
  /\ pc = "send"
  /\ UNCHANGED <<proxyVars, rq_retry, used, retry_on_auth_fail, redirect_url>>
  /\ \/ pc' = "server" /\ UNCHANGED <<serverVars, connected>>
     \/ rq_retry /\ connected' = FALSE /\ pc' = "retry" /\ UNCHANGED serverVars
     \/ ~rq_retry /\ Out /\ UNCHANGED connected
-----------------------------------------------------------------------------
\* mutant: a dial that fails does not clean up
DialFailed_NoClear ==
  /\ Out
  /\ UNCHANGED <<proxy_auth, redirect_url, retry_on_auth_fail, connected, used>>

\* The end of connect_https_socket without a connection, and what
\* do_https_request makes of it
DialFailed ==
  /\ proxy_auth' = clear_auth_states(proxy_auth, TRUE)
  /\ Out
  /\ UNCHANGED <<redirect_url, retry_on_auth_fail, connected, used>>

\* connect() to the proxy, and the head of process_http_proxy
Dial ==
  /\ pc = "dial"
  /\ UNCHANGED <<logins, rq_retry>>
  /\ \/ DialFailed /\ UNCHANGED <<proxy_close_during_auth, proxy_tries_auth>>
     \/ /\ proxy_tries_auth' = proxy_close_during_auth
        /\ proxy_close_during_auth' = FALSE
        /\ pc' = "connect"
        /\ UNCHANGED <<proxy_auth, serverVars, connected, used>>

\* process_proxy and connect_https_socket after process_http_proxy has failed
\* with states pa and proxy_close_during_auth close
ProxyFailed(pa, close, again) ==
  LET left == IF close THEN pa ELSE clear_auth_states(pa, TRUE)
  IN  /\ proxy_close_during_auth' = close
      /\ \/ /\ again
            /\ proxy_auth' = left
            /\ pc' = "dial"
            /\ UNCHANGED <<serverVars, connected>>
         \/ /\ ~again
            /\ proxy_auth' = clear_auth_states(left, TRUE)
            /\ Out
            /\ UNCHANGED <<redirect_url, retry_on_auth_fail, connected>>

\* retry: of process_http_proxy: the CONNECT request is written, or not
ProxyConnect ==
  /\ pc = "connect"
  /\ UNCHANGED <<proxy_tries_auth, rq_retry>>
  /\ \/ /\ ~proxy_tries_auth
        /\ pc' = "proxy"
        /\ UNCHANGED <<proxy_auth, proxy_close_during_auth, logins, serverVars,
                       connected, used>>
     \/ /\ ~proxy_tries_auth
        /\ ProxyFailed(proxy_auth, proxy_close_during_auth, FALSE)
        /\ UNCHANGED <<logins, used>>
     \/ /\ proxy_tries_auth
        /\ \E o \in gen_authorization_hdr(proxy_auth, ProxyPass) :
             \/ /\ o.ret = "0"
                /\ proxy_auth' = clear_auth_states(o.auth, FALSE)
                /\ used' = o.used
                /\ logins' = IF ProxyPass THEN logins + 1 ELSE logins
                /\ pc' = "proxy"
                /\ UNCHANGED <<proxy_close_during_auth, serverVars, connected>>
             \/ /\ o.ret = "spin"
                /\ pc' = "spin"
                /\ UNCHANGED <<proxy_auth, used, logins, proxy_close_during_auth,
                               serverVars, connected>>
             \/ /\ o.ret \notin {"0", "spin"}
                /\ ProxyFailed(o.auth, proxy_close_during_auth \/ o.close,
                               o.ret = "EAGAIN")
                /\ UNCHANGED <<logins, used>>
-----------------------------------------------------------------------------
\* What a response may say of authentication.  A proxy that keeps to NTLM sends
\* its challenge once for a message that announces it, which is what
\* ntlm_authorization counts on.
Answered(auth_states) == auth_states["NTLM"].state = NTLM_MANUAL_REQ /\ used # "NULL"
Challenged(auth_states, offers) ==
  { cs \in SUBSET offers : /\ cs \ {"NTLM"} = offers \intersect {"Digest", "Basic"}
                           /\ "NTLM" \in cs => NtlmAgain \/ ~Answered(auth_states) }
Read(auth_states, Offers) ==
  UNION { { handle_auth_proto(Age(auth_states, "stale"), offers, challenged) :
              challenged \in Challenged(auth_states, offers) } : offers \in Offers }

\* process_http_response for CONNECT, and what follows it up to the handshake
ProxyResponse ==
  /\ pc = "proxy"
  /\ UNCHANGED <<rq_retry, used, logins>>
  /\ \E pa \in Read(proxy_auth, ProxyOffers), close \in BOOLEAN :
       LET closing == proxy_close_during_auth \/ close
       IN  \/ \* 407
              /\ closing
              /\ ProxyFailed(pa, TRUE, TRUE)
              /\ UNCHANGED proxy_tries_auth
           \/ /\ ~closing
              /\ proxy_auth' = pa
              /\ proxy_tries_auth' = TRUE
              /\ pc' = "connect"
              /\ UNCHANGED <<proxy_close_during_auth, serverVars, connected>>
           \/ \* 200, and the TLS handshake with the server succeeds or not
              /\ proxy_close_during_auth' = closing
              /\ proxy_auth' = clear_auth_states(pa, TRUE)
              /\ \/ /\ connected' = TRUE /\ pc' = "send"
                    /\ UNCHANGED serverVars
                 \/ /\ Out
                    /\ UNCHANGED <<connected, redirect_url, retry_on_auth_fail>>
              /\ UNCHANGED proxy_tries_auth
           \/ \* another result, or none
              /\ ProxyFailed(pa, closing, FALSE)
              /\ UNCHANGED proxy_tries_auth

\* process_http_response for the request, and handle_redirect
ServerResponse ==
  /\ pc = "server"
  /\ UNCHANGED <<proxyVars, rq_retry, used>>
  /\ \E ha \in Read(http_auth, ServerOffers), url \in RedirectURLs,
        fallback \in BOOLEAN, close \in BOOLEAN :
       LET location == IF url = "NULL" THEN redirect_url ELSE url
       IN  /\ retry_on_auth_fail' = (retry_on_auth_fail \/ fallback)
           /\ \/ \* no response, or 200 without a redirect
                 /\ http_auth' = clear_auth_states(ha, TRUE)
                 /\ pc' = "done"
                 /\ connected' = ~close
                 /\ redirect_url' = location
                 /\ UNCHANGED <<auth, try_http_auth, max_redirects>>
              \/ \* 401
                 /\ try_http_auth
                 /\ auth' = TRUE
                 /\ http_auth' = ha
                 /\ pc' = "redirected"
                 /\ connected' = ~close
                 /\ redirect_url' = location
                 /\ UNCHANGED <<try_http_auth, max_redirects>>
              \/ \* another result: a redirect, if it or an earlier one names a target
                 /\ location # "NULL"
                 /\ redirect_url' = "NULL"
                 /\ connected' = (~close /\ location # "newhost")
                 /\ UNCHANGED <<auth, try_http_auth, max_redirects>>
                 /\ \/ /\ location = "bad" \/ ~FetchRedirect
                       /\ http_auth' = clear_auth_states(ha, TRUE)
                       /\ pc' = "done"
                    \/ /\ location # "bad" /\ FetchRedirect
                       /\ http_auth' = IF location = "newhost"
                                        THEN clear_auth_states(Age(ha, "foreign"), TRUE)
                                        ELSE ha
                       /\ pc' = "redirected"

\* do_https_request has returned, or digest_authorization never will.
Done == pc \in {"done", "spin"} /\ UNCHANGED vars

Next == \/ Request \/ Retry \/ Send \/ Dial \/ ProxyConnect \/ ProxyResponse
        \/ ServerResponse \/ Done

Spec == Init /\ [][Next]_vars

\* The thread that obtains the cookie runs; the peers answer or the socket fails.
FairSpec == Spec /\ WF_vars(Next)
-----------------------------------------------------------------------------
AuthStates(lo, hi) == [Methods -> [state : lo..hi, challenge : Challenges]]

TypeOK ==
  /\ pc \in {"redirected", "retry", "send", "dial", "connect", "proxy", "server",
             "spin", "done"}
  /\ proxy_auth \in AuthStates(DEFAULT_DISABLED, NTLM_MANUAL_REQ)
  /\ http_auth \in AuthStates(DEFAULT_DISABLED, NTLM_MANUAL_REQ)
  /\ proxy_close_during_auth \in BOOLEAN /\ proxy_tries_auth \in BOOLEAN
  /\ auth \in BOOLEAN /\ try_http_auth \in BOOLEAN /\ retry_on_auth_fail \in BOOLEAN
  /\ max_redirects \in 0..MaxRedirects
  /\ redirect_url \in RedirectURLs
  /\ connected \in BOOLEAN /\ rq_retry \in BOOLEAN
  /\ used \in Challenges
  /\ logins \in Nat

\* "If it failed don't try it again even next time" (clear_auth_states): a method
\* that was refused or switched off stays so, over every
\* new connection, new challenge and redirect.
FailedIsFinal ==
  [][ \A m \in Methods :
        /\ proxy_auth[m].state <= FAILED => proxy_auth'[m].state <= FAILED
        /\ http_auth[m].state <= FAILED => http_auth'[m].state <= FAILED ]_vars

\* A header never answers a challenge of an earlier response or of another host
\* ("Forget existing challenges" in both loops).
ChallengeIsFresh == used \in {"NULL", "fresh"}

\* After the request nothing is left of an exchange with the proxy or the server:
\* no challenge, no method half way, no ntlm_auth helper; the next connection
\* starts over with the methods that have not failed.
ClearedAtEnd ==
  pc = "done" => \A m \in Methods : \A a \in {proxy_auth[m], http_auth[m]} :
                   a.challenge = "NULL" /\ a.state <= UNSEEN

\* While one connection is being made the password goes to the proxy at most seven
\* times, whatever the proxy offers and whenever it closes: a method that failed
\* is not tried again, though those tried before it are.
LoginLimit == logins <= 7

\* Every request returns or meets the loop of digest_authorization: redirects and
\* 401s are counted, each new connection to the proxy costs a method, a write is
\* retried once.
RequestEnds == <>(pc = "done") \/ <>(pc = "spin")

\* "Eat and discard a quoted-string" (digest.c:158): a parameter that the client does
\* not know is skipped, and the request returns.
RequestReturns == <>(pc = "done")
=============================================================================
