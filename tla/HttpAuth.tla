------------------------------ MODULE HttpAuth ------------------------------
(***************************************************************************)
(* http-auth.c, with the methods of ntlm.c and digest.c: how the client    *)
(* answers a proxy or a server that asks for authentication.  The state of *)
(* all methods towards one peer is a function from methods to records; the *)
(* operators of this module say what it may become.  Which bytes an        *)
(* Authorization header has does not matter here, only whose challenge it  *)
(* answers: a challenge is "fresh" when it came with the last response,    *)
(* "stale" when with an earlier one, "foreign" when from another host.     *)
(***************************************************************************)
EXTENDS Integers

Methods == {"NTLM", "Digest", "Basic", "Negotiate"}
Challenges == {"NULL", "fresh", "stale", "foreign"}

\* enum of openconnect-internal.h, and the states of ntlm.c beyond it
DEFAULT_DISABLED == -3
DISABLED         == -2
FAILED           == -1
UNSEEN           == 0
AVAILABLE        == 1
IN_PROGRESS      == 2
NTLM_SSO_REQ     == 2
NTLM_MANUAL      == 3
NTLM_MANUAL_REQ  == 4

\* auth_methods: the order in which they are tried, without GSSAPI
Index == [m \in Methods |-> CASE m = "NTLM" -> 1 [] m = "Digest" -> 2
                              [] m = "Basic" -> 3 [] m = "Negotiate" -> 4]

\* openconnect_vpninfo_new
default_methods ==
  [m \in Methods |-> [state |-> IF m = "Basic" THEN DEFAULT_DISABLED ELSE UNSEEN,
                      challenge |-> "NULL"]]

set_authmethods(ms) ==
  [m \in Methods |-> [state |-> IF m \in ms THEN UNSEEN ELSE DISABLED,
                      challenge |-> "NULL"]]
-----------------------------------------------------------------------------
\* What a method answers: its new state, "0" (a header was added), "EAGAIN"
\* (start over on a new connection), "next" (another error: try the next
\* method) or "spin"; close is what it does to proxy_close_during_auth; used
\* is the challenge the header answers.
Answer(st, r, ch) == [state |-> st, ret |-> r, close |-> FALSE, used |-> ch]
Failed == Answer(FAILED, "EAGAIN", "NULL")

\* pass: a user name and a password are known (never for a server).  The
\* helper is asked only without a password, and may be missing or fail.
ntlm_authorization(a, pass) ==
  LET manual == IF pass THEN Answer(NTLM_MANUAL_REQ, "0", "NULL") ELSE Failed
  IN  CASE a.state = AVAILABLE ->
             IF pass THEN {manual}
             ELSE {Answer(NTLM_SSO_REQ, "0", "NULL"), manual}
        [] a.state = NTLM_SSO_REQ ->
             {[Answer(NTLM_MANUAL, "EAGAIN", "NULL") EXCEPT !.close = TRUE]}
               \union IF a.challenge = "NULL" THEN {}
                      ELSE {Answer(NTLM_MANUAL, "0", a.challenge)}
        [] a.state = NTLM_MANUAL -> {manual}
        [] OTHER ->
             {Failed} \union IF a.challenge = "NULL" \/ ~pass THEN {}
                             ELSE {Answer(NTLM_MANUAL_REQ, "0", a.challenge)}

\* mutant: tries the same password again
digest_authorization_Again(a, pass) ==
  IF ~pass \/ a.challenge = "NULL" THEN {Answer(a.state, "next", "NULL")}
  ELSE {Answer(IN_PROGRESS, "0", a.challenge)}

\* A challenge with a quoted parameter that the client does not know makes the
\* loop that skips it spin.
digest_authorization(a, pass) ==
  LET next == Answer(a.state, "next", "NULL")
  IN  IF ~pass THEN {next}
      ELSE IF a.state = IN_PROGRESS THEN {Failed}
      ELSE IF a.challenge = "NULL" THEN {next}
      ELSE {next, Answer(IN_PROGRESS, "0", a.challenge), Answer(a.state, "spin", "NULL")}

basic_authorization(a, pass) ==
  IF ~pass THEN {Answer(a.state, "next", "NULL")}
  ELSE IF a.state = IN_PROGRESS THEN {Failed}
  ELSE {Answer(IN_PROGRESS, "0", "NULL")}

no_gssapi_authorization == {Answer(FAILED, "next", "NULL")}

\* One round of the loop in gen_authorization_hdr; "EINVAL" ends it.
Attempt(m, a, pass) ==
  IF a.state = DEFAULT_DISABLED THEN {Answer(FAILED, "EINVAL", "NULL")}
  ELSE IF a.state <= UNSEEN THEN {Answer(a.state, "next", "NULL")}
  ELSE CASE m = "NTLM" -> ntlm_authorization(a, pass)
         [] m = "Digest" -> digest_authorization(a, pass)
         [] m = "Basic" -> basic_authorization(a, pass)
         [] m = "Negotiate" -> no_gssapi_authorization

\* The methods before the deciding one have passed without changing state.
gen_authorization_hdr(auth, pass) ==
  LET Passes(m) == \E o \in Attempt(m, auth[m], pass) : o.ret = "next"
      Before(m) == {k \in Methods : Index[k] < Index[m]}
      Result(m, o) == [auth |-> [auth EXCEPT ![m].state = o.state], ret |-> o.ret,
                       close |-> o.close, used |-> o.used]
  IN  (UNION { { Result(m, o) : o \in { p \in Attempt(m, auth[m], pass) :
                                          p.ret # "next" } } :
               m \in {k \in Methods : \A j \in Before(k) : Passes(j)} })
      \union
      IF \A m \in Methods : Passes(m)
        THEN { [Result("Negotiate", o) EXCEPT !.ret = "none"] :
                 o \in Attempt("Negotiate", auth["Negotiate"], pass) }
        ELSE {}
-----------------------------------------------------------------------------
\* handle_auth_proto for every challenge of one response: offers is the set of
\* methods it names, challenged those of them that come with a challenge.
handle_auth_proto(auth, offers, challenged) ==
  [m \in Methods |->
     IF auth[m].state <= FAILED \/ m \notin offers THEN auth[m]
     ELSE [state |-> IF auth[m].state = UNSEEN THEN AVAILABLE ELSE auth[m].state,
           challenge |-> IF m \in challenged THEN "fresh" ELSE "NULL"]]

\* What was fresh before a response is stale after it.
Age(auth, kind) ==
  [m \in Methods |-> IF auth[m].challenge = "NULL" THEN auth[m]
                     ELSE [auth[m] EXCEPT !.challenge = kind]]

\* mutant: leaves the challenge that was just answered
clear_auth_states_Keep(auth, reset) ==
  [m \in Methods |->
     IF auth[m].state > FAILED /\ (reset \/ auth[m].state = AVAILABLE)
       THEN [auth[m] EXCEPT !.state = UNSEEN] ELSE auth[m]]

\* mutant: offers a method that failed again to the next connection
clear_auth_states_Revive(auth, reset) ==
  [m \in Methods |->
     [challenge |-> "NULL",
      state |-> IF (reset /\ auth[m].state # DISABLED) \/ auth[m].state = AVAILABLE
                  THEN UNSEEN ELSE auth[m].state]]

clear_auth_states(auth, reset) ==
  [m \in Methods |->
     [challenge |-> "NULL",
      state |-> IF auth[m].state > FAILED /\ (reset \/ auth[m].state = AVAILABLE)
                  THEN UNSEEN ELSE auth[m].state]]
=============================================================================
