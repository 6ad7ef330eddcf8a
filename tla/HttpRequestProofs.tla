------------------------- MODULE HttpRequestProofs --------------------------
(***************************************************************************)
(* What module HttpRequest promises holds for every proxy and every        *)
(* server, and any number of redirects: TLAPS proofs.  The lemmas about    *)
(* the operators of HttpAuth come first; then one invariant for the states *)
(* kept towards the proxy, one for those kept towards the server, and one  *)
(* that counts the passwords a connection still may cost.                  *)
(***************************************************************************)
EXTENDS HttpRequest, TLAPS

AuthRec == [state : DEFAULT_DISABLED..NTLM_MANUAL_REQ, challenge : Challenges]
AuthFcn == [Methods -> AuthRec]

\* What may become of the states kept towards one peer: a method that has failed, or
\* is switched off, is so for good.
Onwards(a) ==
  { b \in AuthFcn : \A m \in Methods : a[m].state <= FAILED => b[m].state <= FAILED }

\* No challenge is kept; none but that of the last response is; and no method is half
\* way either.
Silent(a) == \A m \in Methods : a[m].challenge = "NULL"
Fresh(a) == \A m \in Methods : a[m].challenge \in {"NULL", "fresh"}
Cleared(a) == \A m \in Methods : a[m].challenge = "NULL" /\ a[m].state <= UNSEEN

\* proxy_auth keeps something only between a response of the proxy and the header
\* that answers it, or while a connection that the proxy closed is made again.
ProxyInv ==
  /\ pc \in {"redirected", "retry", "send", "server", "done"} => Cleared(proxy_auth)
  /\ pc = "proxy" => Silent(proxy_auth)
  /\ pc = "dial" => Fresh(proxy_auth) /\ (~proxy_close_during_auth => Silent(proxy_auth))
  /\ pc = "connect" => Fresh(proxy_auth) /\ (~proxy_tries_auth => Silent(proxy_auth))

\* http_auth may keep an old challenge, but only for a method that is still to start,
\* and NTLM starts without one.
ServerInv ==
  /\ ~auth => \A m \in Methods : http_auth[m].state <= AVAILABLE
  /\ pc = "redirected" =>
       \A m \in Methods : \/ http_auth[m].state <= AVAILABLE
                          \/ http_auth[m].challenge \in {"NULL", "fresh"}
  /\ auth /\ pc \notin {"redirected", "done", "spin"} => Silent(http_auth)
  /\ pc = "done" => Cleared(http_auth)

StateInv == TypeOK /\ ProxyInv /\ ServerInv /\ ChallengeIsFresh
-----------------------------------------------------------------------------
\* The passwords that a connection may still cost, from the states of NTLM, Digest and
\* Basic and whether NTLM's challenge has been answered.  NTLM takes two messages;
\* each method before it that can still fail lets a later one start anew.
Alive(s) == IF s > FAILED THEN 1 ELSE 0
Untried(s) == IF s <= AVAILABLE THEN 1 ELSE 0

NtlmLeft(n, answered) ==
  IF n <= FAILED THEN 0
  ELSE IF n <= AVAILABLE THEN 2 ELSE IF answered THEN 0 ELSE 1
DigestLeft(n, d) == IF d <= FAILED THEN 0 ELSE Untried(d) + Alive(n)
BasicLeft(n, d, b) == IF b <= FAILED THEN 0 ELSE Untried(b) + Alive(n) + Alive(d)

Left(n, d, b, answered) == NtlmLeft(n, answered) + DigestLeft(n, d) + BasicLeft(n, d, b)

LoginsLeft(a, u) ==
  Left(a["NTLM"].state, a["Digest"].state, a["Basic"].state, u # "NULL")

\* With a password NTLM skips the helper; the others have fewer states.
Usual(a) ==
  /\ a["NTLM"].state \notin {NTLM_SSO_REQ, NTLM_MANUAL}
  /\ a["Digest"].state <= IN_PROGRESS /\ a["Basic"].state <= IN_PROGRESS

LoginInv ==
  /\ logins \in 0..7
  /\ ~ProxyPass => logins = 0
  /\ ProxyPass =>
       /\ Usual(proxy_auth)
       /\ pc \in {"dial", "connect", "proxy"} => logins + LoginsLeft(proxy_auth, used) <= 7
       /\ pc \in {"dial", "connect"} /\ Answered(proxy_auth)
            => proxy_auth["NTLM"].challenge = "NULL"
-----------------------------------------------------------------------------
USE DEF DEFAULT_DISABLED, DISABLED, FAILED, UNSEEN, AVAILABLE, IN_PROGRESS,
        NTLM_SSO_REQ, NTLM_MANUAL, NTLM_MANUAL_REQ

\* The methods and the challenges by name
LEMMA MethodFact ==
  /\ "NTLM" \in Methods /\ "Digest" \in Methods /\ "Basic" \in Methods
  /\ "Negotiate" \in Methods
  /\ "NULL" \in Challenges /\ "fresh" \in Challenges
  /\ "stale" \in Challenges /\ "foreign" \in Challenges
BY Zenon DEF Methods, Challenges

LEMMA MethodCases ==
  ASSUME NEW m \in Methods
  PROVE  m = "NTLM" \/ m = "Digest" \/ m = "Basic" \/ m = "Negotiate"
BY Zenon DEF Methods

\* The order in which they are tried
LEMMA IndexFact ==
  /\ Index["NTLM"] = 1 /\ Index["Digest"] = 2
  /\ Index["Basic"] = 3 /\ Index["Negotiate"] = 4
BY DEF Index, Methods

\* The fields of a method's record
LEMMA RecFact ==
  ASSUME NEW a \in AuthFcn, NEW m \in Methods
  PROVE  /\ a[m] \in AuthRec
         /\ a[m].state \in -3..4 /\ a[m].challenge \in Challenges
BY DEF AuthFcn, AuthRec

\* One step after another
LEMMA OnwardsTrans ==
  ASSUME NEW a \in AuthFcn, NEW b \in Onwards(a), NEW c \in Onwards(b)
  PROVE  c \in Onwards(a)
BY DEF Onwards

LEMMA OnwardsSame ==
  ASSUME NEW a \in AuthFcn
  PROVE  a \in Onwards(a)
BY DEF Onwards

\* clear_auth_states forgets every challenge, and with reset every method half way.
LEMMA ClearFact ==
  ASSUME NEW a \in AuthFcn, NEW reset \in BOOLEAN
  PROVE  LET c == clear_auth_states(a, reset)
         IN  /\ c \in Onwards(a)
             /\ Silent(c)
             /\ reset => Cleared(c)
             /\ \A m \in Methods : c[m].state = IF a[m].state > FAILED
                                                   /\ (reset \/ a[m].state = AVAILABLE)
                                                  THEN UNSEEN ELSE a[m].state
<1> DEFINE c == clear_auth_states(a, reset)
           st(m) == IF a[m].state > FAILED /\ (reset \/ a[m].state = AVAILABLE)
                      THEN UNSEEN ELSE a[m].state
<1>1. c = [m \in Methods |-> [challenge |-> "NULL", state |-> st(m)]]
  BY DEF clear_auth_states
<1>2. ASSUME NEW m \in Methods
      PROVE  /\ st(m) \in -3..4
             /\ a[m].state <= FAILED => st(m) <= FAILED
             /\ reset => st(m) <= UNSEEN
  BY RecFact
<1> HIDE DEF st
<1>3. ASSUME NEW m \in Methods
      PROVE  c[m] \in AuthRec /\ c[m].challenge = "NULL" /\ c[m].state = st(m)
  BY <1>1, <1>2, MethodFact DEF AuthRec
<1>4. c \in AuthFcn
  BY <1>1, <1>3 DEF AuthFcn
<1> HIDE DEF c
<1>5. c \in Onwards(a)
  BY <1>2, <1>3, <1>4 DEF Onwards
<1>6. Silent(c) /\ (reset => Cleared(c))
  BY <1>2, <1>3 DEF Silent, Cleared
<1> QED
  BY <1>3, <1>5, <1>6 DEF c, st

\* A response makes the challenges that are kept old ones.
LEMMA AgeFact ==
  ASSUME NEW a \in AuthFcn, NEW kind \in Challenges
  PROVE  /\ Age(a, kind) \in AuthFcn
         /\ \A m \in Methods : /\ Age(a, kind)[m].state = a[m].state
                               /\ a[m].challenge = "NULL" => Age(a, kind)[m] = a[m]
<1>1. ASSUME NEW m \in Methods
      PROVE  /\ Age(a, kind)[m] \in AuthRec /\ Age(a, kind)[m].state = a[m].state
             /\ a[m].challenge = "NULL" => Age(a, kind)[m] = a[m]
  BY RecFact DEF Age, AuthRec
<1> QED
  BY <1>1 DEF Age, AuthFcn

\* What a response says of the methods: the challenges it brings, and methods that
\* become available.
LEMMA ProtoFact ==
  ASSUME NEW a \in AuthFcn, NEW offers \in SUBSET Methods, NEW cs \in SUBSET offers
  PROVE  LET h == handle_auth_proto(a, offers, cs)
         IN  /\ h \in AuthFcn
             /\ \A m \in Methods :
                  /\ h[m].state = IF m \in offers /\ a[m].state = UNSEEN
                                    THEN AVAILABLE ELSE a[m].state
                  /\ h[m].challenge \in {"NULL", "fresh", a[m].challenge}
                  /\ m \notin cs => h[m].challenge \in {"NULL", a[m].challenge}
<1> DEFINE h == handle_auth_proto(a, offers, cs)
           new(m) == [state |-> IF a[m].state = UNSEEN THEN AVAILABLE ELSE a[m].state,
                      challenge |-> IF m \in cs THEN "fresh" ELSE "NULL"]
<1>1. h = [m \in Methods |-> IF a[m].state <= FAILED \/ m \notin offers
                               THEN a[m] ELSE new(m)]
  BY DEF handle_auth_proto
<1>2. ASSUME NEW m \in Methods
      PROVE  /\ new(m) \in AuthRec
             /\ new(m).state = IF a[m].state = UNSEEN THEN AVAILABLE ELSE a[m].state
             /\ new(m).challenge = IF m \in cs THEN "fresh" ELSE "NULL"
  BY RecFact, MethodFact DEF AuthRec
<1> HIDE DEF new
<1>3. ASSUME NEW m \in Methods
      PROVE  /\ h[m] \in AuthRec
             /\ h[m].state = IF m \in offers /\ a[m].state = UNSEEN
                               THEN AVAILABLE ELSE a[m].state
             /\ h[m].challenge \in {"NULL", "fresh", a[m].challenge}
             /\ m \notin cs => h[m].challenge \in {"NULL", a[m].challenge}
  <2>1. CASE a[m].state <= FAILED \/ m \notin offers
    BY <1>1, <2>1, RecFact
  <2>2. CASE ~(a[m].state <= FAILED \/ m \notin offers)
    BY <1>1, <1>2, <2>2, RecFact
  <2> QED
    BY <2>1, <2>2
<1> QED
  BY <1>1, <1>3 DEF AuthFcn

\* A response: challenges that it does not bring are old, and a proxy that keeps to
\* NTLM does not bring NTLM's again once it was answered.
LEMMA ReadFact ==
  ASSUME NEW a \in AuthFcn, NEW Offers \in SUBSET SUBSET Methods, NEW r \in Read(a, Offers)
  PROVE  /\ r \in Onwards(a)
         /\ Silent(a) => Fresh(r)
         /\ \A m \in Methods : r[m].state = a[m].state \/ (a[m].state = UNSEEN
                                                           /\ r[m].state = AVAILABLE)
         /\ Silent(a) /\ ~NtlmAgain /\ Answered(a) => r["NTLM"].challenge = "NULL"
<1>0. PICK offers \in Offers : \E cs \in Challenged(a, offers) :
        r = handle_auth_proto(Age(a, "stale"), offers, cs)
  BY Zenon DEF Read
<1>1. PICK cs \in Challenged(a, offers) :
        r = handle_auth_proto(Age(a, "stale"), offers, cs)
  BY <1>0
<1>2. /\ offers \in SUBSET Methods /\ cs \in SUBSET offers
      /\ ~NtlmAgain /\ Answered(a) => "NTLM" \notin cs
  BY DEF Challenged
<1> DEFINE g == Age(a, "stale")
<1>3. g \in AuthFcn /\ \A m \in Methods : /\ g[m].state = a[m].state
                                          /\ a[m].challenge = "NULL" => g[m] = a[m]
  BY AgeFact, MethodFact
<1> HIDE DEF g
<1>4. /\ r \in AuthFcn
      /\ \A m \in Methods :
           /\ r[m].state = IF m \in offers /\ g[m].state = UNSEEN
                             THEN AVAILABLE ELSE g[m].state
           /\ r[m].challenge \in {"NULL", "fresh", g[m].challenge}
           /\ m \notin cs => r[m].challenge \in {"NULL", g[m].challenge}
  BY <1>1, <1>2, <1>3, ProtoFact DEF g
<1>5. \A m \in Methods : r[m].state = a[m].state \/ (a[m].state = UNSEEN
                                                     /\ r[m].state = AVAILABLE)
  BY <1>3, <1>4
<1>6. r \in Onwards(a)
  <2>1. \A m \in Methods : a[m].state <= FAILED => r[m].state <= FAILED
    BY <1>5
  <2> QED
    BY <1>4, <2>1, Zenon DEF Onwards
<1>7. Silent(a) => Fresh(r)
  <2> SUFFICES ASSUME Silent(a), NEW m \in Methods
               PROVE  r[m].challenge \in {"NULL", "fresh"}
    BY DEF Fresh
  <2>1. g[m].challenge = "NULL"
    BY <1>3 DEF Silent
  <2> QED
    BY <1>4, <2>1
<1>8. Silent(a) /\ ~NtlmAgain /\ Answered(a) => r["NTLM"].challenge = "NULL"
  BY <1>2, <1>3, <1>4, MethodFact DEF Silent
<1> QED
  BY <1>5, <1>6, <1>7, <1>8
-----------------------------------------------------------------------------
\* What an answer may be: a failed method stays failed, a header answers no challenge
\* but the method's own, and without a password none unless NTLM is half way.
Sound(a, pass, t) ==
  /\ t.state \in DEFAULT_DISABLED..NTLM_MANUAL_REQ
  /\ a.state <= FAILED => t.state <= FAILED
  /\ t.used \in {"NULL", a.challenge}
  /\ ~pass /\ a.state <= AVAILABLE => t.used = "NULL"

\* The fields of an answer
LEMMA AnswerFact ==
  ASSUME NEW st, NEW r, NEW ch
  PROVE  /\ Answer(st, r, ch).state = st /\ Answer(st, r, ch).ret = r
         /\ Answer(st, r, ch).used = ch
         /\ [Answer(st, r, ch) EXCEPT !.close = TRUE].state = st
         /\ [Answer(st, r, ch) EXCEPT !.close = TRUE].ret = r
         /\ [Answer(st, r, ch) EXCEPT !.close = TRUE].used = ch
BY DEF Answer

LEMMA NtlmAnswer ==
  ASSUME NEW a \in AuthRec, NEW pass \in BOOLEAN, a.state > UNSEEN,
         NEW t \in ntlm_authorization(a, pass)
  PROVE  Sound(a, pass, t)
<1>0. a.state \in 1..4
  BY DEF AuthRec
<1>1. \/ \E st \in {FAILED, NTLM_SSO_REQ, NTLM_MANUAL_REQ}, r \in {"0", "EAGAIN"} :
           t = Answer(st, r, "NULL")
      \/ t = [Answer(NTLM_MANUAL, "EAGAIN", "NULL") EXCEPT !.close = TRUE]
      \/ /\ a.state > AVAILABLE
         /\ \E st \in {NTLM_MANUAL, NTLM_MANUAL_REQ} : t = Answer(st, "0", a.challenge)
  BY <1>0 DEF ntlm_authorization, Failed
<1>2. CASE \E st \in {FAILED, NTLM_SSO_REQ, NTLM_MANUAL_REQ}, r \in {"0", "EAGAIN"} :
             t = Answer(st, r, "NULL")
  BY <1>0, <1>2, AnswerFact DEF Sound
<1>3. CASE t = [Answer(NTLM_MANUAL, "EAGAIN", "NULL") EXCEPT !.close = TRUE]
  <2>1. t.state = NTLM_MANUAL /\ t.used = "NULL"
    BY <1>3, AnswerFact
  <2> QED
    BY <1>0, <2>1 DEF Sound
<1>4. CASE /\ a.state > AVAILABLE
           /\ \E st \in {NTLM_MANUAL, NTLM_MANUAL_REQ} : t = Answer(st, "0", a.challenge)
  BY <1>0, <1>4, AnswerFact DEF Sound
<1> QED
  BY <1>1, <1>2, <1>3, <1>4

LEMMA DigestAnswer ==
  ASSUME NEW a \in AuthRec, NEW pass \in BOOLEAN, a.state > UNSEEN,
         NEW t \in digest_authorization(a, pass)
  PROVE  Sound(a, pass, t)
<1>0. a.state \in 1..4
  BY DEF AuthRec
<1>1. \/ \E st \in {FAILED, a.state}, r \in {"next", "EAGAIN", "spin"} :
           t = Answer(st, r, "NULL")
      \/ pass /\ t = Answer(IN_PROGRESS, "0", a.challenge)
  BY DEF digest_authorization, Failed
<1> QED
  BY <1>0, <1>1, AnswerFact DEF Sound

LEMMA BasicAnswer ==
  ASSUME NEW a \in AuthRec, NEW pass \in BOOLEAN, a.state > UNSEEN,
         NEW t \in basic_authorization(a, pass)
  PROVE  Sound(a, pass, t)
<1>0. a.state \in 1..4
  BY DEF AuthRec
<1>1. \E st \in {FAILED, a.state, IN_PROGRESS}, r \in {"next", "EAGAIN", "0"} :
        t = Answer(st, r, "NULL")
  BY DEF basic_authorization, Failed
<1> QED
  BY <1>0, <1>1, AnswerFact DEF Sound

\* One round of the loop
LEMMA AttemptFact ==
  ASSUME NEW m \in Methods, NEW a \in AuthRec, NEW pass \in BOOLEAN,
         NEW t \in Attempt(m, a, pass)
  PROVE  Sound(a, pass, t)
<1>0. a.state \in -3..4
  BY DEF AuthRec
<1>1. CASE a.state = DEFAULT_DISABLED
  <2>1. t = Answer(FAILED, "EINVAL", "NULL")
    BY <1>1 DEF Attempt
  <2> QED
    BY <1>0, <2>1, AnswerFact DEF Sound
<1>2. CASE a.state # DEFAULT_DISABLED /\ a.state <= UNSEEN
  <2>1. t = Answer(a.state, "next", "NULL")
    BY <1>2 DEF Attempt
  <2> QED
    BY <1>0, <2>1, AnswerFact DEF Sound
<1>3. CASE a.state > UNSEEN
  <2>0. ~(a.state = DEFAULT_DISABLED) /\ ~(a.state <= UNSEEN)
    BY <1>0, <1>3
  <2>1. CASE m = "NTLM"
    BY <1>3, <2>0, <2>1, NtlmAnswer DEF Attempt
  <2>2. CASE m = "Digest"
    BY <1>3, <2>0, <2>2, DigestAnswer DEF Attempt
  <2>3. CASE m = "Basic"
    BY <1>3, <2>0, <2>3, BasicAnswer DEF Attempt
  <2>4. CASE m = "Negotiate"
    <3>1. t = Answer(FAILED, "next", "NULL")
      BY <2>0, <2>4 DEF Attempt, no_gssapi_authorization
    <3> QED
      BY <1>0, <3>1, AnswerFact DEF Sound
  <2> QED
    BY <2>1, <2>2, <2>3, <2>4, MethodCases
<1> QED
  BY <1>0, <1>1, <1>2, <1>3

\* The method that decides a header: those before it pass.
Passes(m, a, pass) == \E o \in Attempt(m, a, pass) : o.ret = "next"

Decides(a, pass, o, m, t) ==
  /\ t \in Attempt(m, a[m], pass)
  /\ o.auth = [a EXCEPT ![m].state = t.state]
  /\ o.used = t.used
  /\ o.ret = t.ret \/ (o.ret = "none" /\ m = "Negotiate")
  /\ \A k \in Methods : Index[k] < Index[m] => Passes(k, a[k], pass)

LEMMA HeaderFact ==
  ASSUME NEW a, NEW pass, NEW o \in gen_authorization_hdr(a, pass)
  PROVE  \E m \in Methods : \E t \in Attempt(m, a[m], pass) : Decides(a, pass, o, m, t)
<1> DEFINE P(m) == \E p \in Attempt(m, a[m], pass) : p.ret = "next"
           Before(m) == {k \in Methods : Index[k] < Index[m]}
           Res(m, t) == [auth |-> [a EXCEPT ![m].state = t.state], ret |-> t.ret,
                         close |-> t.close, used |-> t.used]
<1>1. CASE \E m \in Methods : /\ \A k \in Before(m) : P(k)
                              /\ \E t \in Attempt(m, a[m], pass) : o = Res(m, t)
  <2>1. PICK m \in Methods : /\ \A k \in Before(m) : P(k)
                             /\ \E t \in Attempt(m, a[m], pass) : o = Res(m, t)
    BY <1>1
  <2>2. PICK t \in Attempt(m, a[m], pass) : o = Res(m, t)
    BY <2>1
  <2> QED
    BY <2>1, <2>2 DEF Decides, Passes
<1>2. CASE /\ \A m \in Methods : P(m)
           /\ \E t \in Attempt("Negotiate", a["Negotiate"], pass) :
                o = [Res("Negotiate", t) EXCEPT !.ret = "none"]
  <2>1. PICK t \in Attempt("Negotiate", a["Negotiate"], pass) :
          o = [Res("Negotiate", t) EXCEPT !.ret = "none"]
    BY <1>2
  <2> QED
    BY <1>2, <2>1, MethodFact DEF Decides, Passes
<1> HIDE DEF Res
<1>3. \/ \E m \in Methods : /\ \A k \in Before(m) : P(k)
                            /\ \E t \in Attempt(m, a[m], pass) : o = Res(m, t)
      \/ /\ \A m \in Methods : P(m)
         /\ \E t \in Attempt("Negotiate", a["Negotiate"], pass) :
              o = [Res("Negotiate", t) EXCEPT !.ret = "none"]
  <2> DEFINE S(m) == { Res(m, t) : t \in { p \in Attempt(m, a[m], pass) : p.ret # "next" } }
             D == { k \in Methods : \A j \in Before(k) : P(j) }
             N == { [Res("Negotiate", t) EXCEPT !.ret = "none"] :
                      t \in Attempt("Negotiate", a["Negotiate"], pass) }
  <2>0. o \in (UNION { S(m) : m \in D }) \union
              IF \A m \in Methods : P(m) THEN N ELSE {}
    BY DEF gen_authorization_hdr, Res
  <2>1. o \in UNION { S(m) : m \in D } \/ ((\A m \in Methods : P(m)) /\ o \in N)
    <3> HIDE DEF S, D, N, P
    <3>1. CASE \A m \in Methods : P(m)
      BY <2>0, <3>1
    <3>2. CASE ~(\A m \in Methods : P(m))
      BY <2>0, <3>2
    <3> QED
      BY <3>1, <3>2
  <2>2. CASE o \in UNION { S(m) : m \in D }
    <3>1. PICK m \in D : o \in S(m)
      BY <2>2, Zenon
    <3> QED
      BY <3>1, Zenon
  <2>3. CASE (\A m \in Methods : P(m)) /\ o \in N
    BY <2>3, Zenon
  <2> QED
    BY <2>1, <2>2, <2>3, Zenon
<1> QED
  BY <1>1, <1>2, <1>3

\* gen_authorization_hdr on all the states
LEMMA HeaderKeeps ==
  ASSUME NEW a \in AuthFcn, NEW pass \in BOOLEAN, NEW o \in gen_authorization_hdr(a, pass)
  PROVE  /\ o.auth \in Onwards(a)
         /\ Fresh(a) => Fresh(o.auth) /\ o.used \in {"NULL", "fresh"}
         /\ o.used \in Challenges
         /\ ~pass /\ (\A m \in Methods : \/ a[m].state <= AVAILABLE
                                         \/ a[m].challenge \in {"NULL", "fresh"})
              => o.used \in {"NULL", "fresh"}
<1>0. PICK m \in Methods : \E t \in Attempt(m, a[m], pass) : Decides(a, pass, o, m, t)
  BY HeaderFact
<1>1. PICK t \in Attempt(m, a[m], pass) : Decides(a, pass, o, m, t)
  BY <1>0
<1>2. a[m] \in AuthRec /\ a[m].challenge \in Challenges /\ Sound(a[m], pass, t)
  BY <1>1, RecFact, AttemptFact
<1>3. [a[m] EXCEPT !.state = t.state] \in AuthRec
  BY <1>2 DEF AuthRec, Sound
<1>4. /\ o.auth \in AuthFcn
      /\ \A k \in Methods : k # m => o.auth[k] = a[k]
      /\ o.auth[m].state = t.state /\ o.auth[m].challenge = a[m].challenge
  <2>1. o.auth = [a EXCEPT ![m] = [a[m] EXCEPT !.state = t.state]]
    BY <1>1 DEF Decides
  <2>2. /\ [a[m] EXCEPT !.state = t.state].state = t.state
        /\ [a[m] EXCEPT !.state = t.state].challenge = a[m].challenge
    BY <1>2 DEF AuthRec
  <2> QED
    BY <1>3, <2>1, <2>2 DEF AuthFcn
<1>5. o.auth \in Onwards(a)
  BY <1>2, <1>4 DEF Onwards, Sound
<1>6. o.used = t.used /\ t.used \in {"NULL", a[m].challenge}
  BY <1>1, <1>2 DEF Decides, Sound
<1>7. Fresh(a) => Fresh(o.auth) /\ o.used \in {"NULL", "fresh"}
  BY <1>4, <1>6 DEF Fresh
<1>8. o.used \in Challenges
  BY <1>2, <1>6, MethodFact
<1> QED
  BY <1>1, <1>2, <1>5, <1>6, <1>7, <1>8 DEF Sound
-----------------------------------------------------------------------------
\* The states kept towards the peers start as states of methods, with none half way.
LEMMA InitStates ==
  Init => /\ proxy_auth \in AuthFcn /\ http_auth \in AuthFcn
          /\ Cleared(proxy_auth) /\ Cleared(http_auth)
<1> SUFFICES ASSUME Init
             PROVE  /\ proxy_auth \in AuthFcn /\ http_auth \in AuthFcn
                    /\ Cleared(proxy_auth) /\ Cleared(http_auth)
  OBVIOUS
<1>1. default_methods \in AuthFcn /\ Cleared(default_methods)
  <2>1. \A m \in Methods : /\ default_methods[m] \in AuthRec
                           /\ default_methods[m].challenge = "NULL"
                           /\ default_methods[m].state <= UNSEEN
    BY MethodFact DEF default_methods, AuthRec
  <2> QED
    BY <2>1 DEF default_methods, AuthFcn, Cleared
<1>2. ASSUME NEW ms PROVE set_authmethods(ms) \in AuthFcn /\ Cleared(set_authmethods(ms))
  <2>1. \A m \in Methods : /\ set_authmethods(ms)[m] \in AuthRec
                           /\ set_authmethods(ms)[m].challenge = "NULL"
                           /\ set_authmethods(ms)[m].state <= UNSEEN
    BY MethodFact DEF set_authmethods, AuthRec
  <2> QED
    BY <2>1 DEF set_authmethods, AuthFcn, Cleared
<1>3. proxy_auth \in AuthFcn /\ Cleared(proxy_auth)
  BY <1>1, <1>2 DEF Init
<1>4. http_auth \in AuthFcn /\ Cleared(http_auth)
  <2> DEFINE d == [default_methods EXCEPT !["Basic"].state = FAILED]
  <2>1. d \in AuthFcn
    <3>1. default_methods["Basic"] \in AuthRec
      BY <1>1, RecFact, MethodFact
    <3>2. [default_methods["Basic"] EXCEPT !.state = FAILED] \in AuthRec
      BY <3>1 DEF AuthRec
    <3> QED
      BY <1>1, <3>2 DEF AuthFcn
  <2>2. clear_auth_states(d, TRUE) \in AuthFcn /\ Cleared(clear_auth_states(d, TRUE))
    BY <2>1, ClearFact DEF Onwards
  <2> QED
    BY <1>1, <2>2 DEF Init
<1> QED
  BY <1>3, <1>4

\* What do_https_request ends with
LEMMA OutFact ==
  ASSUME http_auth \in AuthFcn, Out
  PROVE  http_auth' \in Onwards(http_auth) /\ Cleared(http_auth') /\ pc' = "done"
BY ClearFact DEF Out

\* What a failed dial leaves
LEMMA DialFailedFact ==
  ASSUME proxy_auth \in AuthFcn, http_auth \in AuthFcn, DialFailed
  PROVE  /\ proxy_auth' \in Onwards(proxy_auth) /\ Cleared(proxy_auth')
         /\ http_auth' \in Onwards(http_auth) /\ Cleared(http_auth')
         /\ pc' = "done"
BY ClearFact, OutFact DEF DialFailed

\* What a failed CONNECT leaves: another dial with what the proxy asked for, if it is
\* the proxy that closes the connection, or nothing.
LEMMA ProxyFailedFact ==
  ASSUME proxy_auth \in AuthFcn, http_auth \in AuthFcn,
         NEW pa \in Onwards(proxy_auth), NEW close \in BOOLEAN, NEW again \in BOOLEAN,
         ProxyFailed(pa, close, again)
  PROVE  /\ proxy_auth' \in Onwards(proxy_auth)
         /\ http_auth' \in Onwards(http_auth)
         /\ proxy_close_during_auth' = close
         /\ \/ /\ pc' = "dial" /\ again /\ UNCHANGED <<http_auth, auth>>
               /\ close /\ proxy_auth' = pa
            \/ /\ pc' = "dial" /\ again /\ UNCHANGED <<http_auth, auth>>
               /\ ~close /\ proxy_auth' = clear_auth_states(pa, TRUE)
               /\ Cleared(proxy_auth')
            \/ pc' = "done" /\ ~again /\ Cleared(proxy_auth') /\ Cleared(http_auth')
<1>0. pa \in AuthFcn
  BY DEF Onwards
<1>1. /\ clear_auth_states(pa, TRUE) \in Onwards(pa)
      /\ Cleared(clear_auth_states(pa, TRUE))
      /\ clear_auth_states(pa, TRUE) \in AuthFcn
  BY <1>0, ClearFact DEF Onwards
<1>2. clear_auth_states(pa, TRUE) \in Onwards(proxy_auth)
  BY <1>1, OnwardsTrans
<1>3. /\ clear_auth_states(clear_auth_states(pa, TRUE), TRUE) \in Onwards(proxy_auth)
      /\ Cleared(clear_auth_states(clear_auth_states(pa, TRUE), TRUE))
  BY <1>1, <1>2, ClearFact, OnwardsTrans
<1>4. CASE again
  BY <1>1, <1>2, <1>4, OnwardsSame DEF ProxyFailed, serverVars
<1>5. CASE ~again
  BY <1>1, <1>2, <1>3, <1>5, OutFact DEF ProxyFailed
<1> QED
  BY <1>4, <1>5
-----------------------------------------------------------------------------
\* What every step keeps, apart from the types of the simple variables
Kept ==
  /\ proxy_auth' \in Onwards(proxy_auth) /\ http_auth' \in Onwards(http_auth)
  /\ ProxyInv' /\ ServerInv' /\ ChallengeIsFresh'

\* The states are functions from methods to records.
LEMMA StatesFact ==
  TypeOK => proxy_auth \in AuthFcn /\ http_auth \in AuthFcn
BY DEF TypeOK, AuthStates, AuthFcn, AuthRec

\* redirected:
LEMMA RequestStep ==
  ASSUME StateInv, Request
  PROVE  Kept
<1>0. /\ proxy_auth \in AuthFcn /\ http_auth \in AuthFcn
      /\ pc = "redirected" /\ proxy_auth' = proxy_auth /\ Cleared(proxy_auth)
  BY StatesFact DEF StateInv, ProxyInv, Request, proxyVars
<1>1. proxy_auth' \in Onwards(proxy_auth) /\ Cleared(proxy_auth')
  BY <1>0, OnwardsSame
<1>2. pc' \in {"retry", "done"} => ProxyInv'
  BY <1>1 DEF ProxyInv
<1>3. CASE max_redirects = 0 /\ Out /\ UNCHANGED <<retry_on_auth_fail, used>>
  <2>1. http_auth' \in Onwards(http_auth) /\ Cleared(http_auth') /\ pc' = "done"
    BY <1>0, <1>3, OutFact
  <2>2. \A m \in Methods : http_auth'[m].state <= AVAILABLE
    BY <2>1, RecFact DEF Cleared, Onwards
  <2>3. ServerInv'
    BY <2>1, <2>2 DEF ServerInv
  <2>4. used' = used
    BY <1>3
  <2> QED
    BY <1>1, <1>2, <2>1, <2>3, <2>4 DEF Kept, StateInv, ChallengeIsFresh
<1>4. CASE ~auth /\ pc' = "retry" /\ UNCHANGED <<http_auth, auth, used>>
  <2>1. http_auth' \in Onwards(http_auth)
    BY <1>0, <1>4, OnwardsSame
  <2>2. ServerInv'
    BY <1>4 DEF StateInv, ServerInv
  <2> QED
    BY <1>1, <1>2, <1>4, <2>1, <2>2 DEF Kept, StateInv, ChallengeIsFresh
<1>5. CASE auth /\ \E o \in gen_authorization_hdr(http_auth, FALSE) :
             \/ /\ http_auth' = clear_auth_states(o.auth, FALSE)
                /\ used' = o.used /\ pc' = "retry" /\ UNCHANGED auth
             \/ /\ http_auth' = clear_auth_states(o.auth, TRUE)
                /\ pc' = "done" /\ UNCHANGED <<auth, used>>
  <2>1. PICK o \in gen_authorization_hdr(http_auth, FALSE) :
             \/ /\ http_auth' = clear_auth_states(o.auth, FALSE)
                /\ used' = o.used /\ pc' = "retry" /\ UNCHANGED auth
             \/ /\ http_auth' = clear_auth_states(o.auth, TRUE)
                /\ pc' = "done" /\ UNCHANGED <<auth, used>>
    BY <1>5
  <2>2. o.auth \in Onwards(http_auth) /\ o.used \in {"NULL", "fresh"}
    <3>1. \A m \in Methods : \/ http_auth[m].state <= AVAILABLE
                             \/ http_auth[m].challenge \in {"NULL", "fresh"}
      BY <1>0 DEF StateInv, ServerInv
    <3> QED
      BY <1>0, <3>1, HeaderKeeps
  <2>3. o.auth \in AuthFcn
    BY <2>2 DEF Onwards
  <2>4. \A r \in BOOLEAN : /\ clear_auth_states(o.auth, r) \in Onwards(o.auth)
                           /\ Silent(clear_auth_states(o.auth, r))
                           /\ r => Cleared(clear_auth_states(o.auth, r))
    BY <2>3, ClearFact
  <2>5. http_auth' \in Onwards(http_auth) /\ Silent(http_auth')
    BY <1>0, <2>1, <2>2, <2>4, OnwardsTrans
  <2>6. pc' = "done" => Cleared(http_auth')
    BY <2>1, <2>4
  <2>7. ServerInv'
    BY <1>5, <2>1, <2>5, <2>6 DEF ServerInv
  <2>8. ChallengeIsFresh'
    BY <2>1, <2>2 DEF StateInv, ChallengeIsFresh
  <2>9. pc' \in {"retry", "done"}
    BY <2>1
  <2> QED
    BY <1>1, <1>2, <2>5, <2>7, <2>8, <2>9 DEF Kept
<1>6. \/ max_redirects = 0 /\ Out /\ UNCHANGED <<retry_on_auth_fail, used>>
      \/ ~auth /\ pc' = "retry" /\ UNCHANGED <<http_auth, auth, used>>
      \/ auth /\ \E o \in gen_authorization_hdr(http_auth, FALSE) :
             \/ /\ http_auth' = clear_auth_states(o.auth, FALSE)
                /\ used' = o.used /\ pc' = "retry" /\ UNCHANGED auth
             \/ /\ http_auth' = clear_auth_states(o.auth, TRUE)
                /\ pc' = "done" /\ UNCHANGED <<auth, used>>
  BY Zenon DEF Request
<1> QED
  BY <1>3, <1>4, <1>5, <1>6

\* A failure ends the request with everything cleared.
LEMMA EndKept ==
  ASSUME StateInv,
         proxy_auth' \in Onwards(proxy_auth), Cleared(proxy_auth'),
         http_auth' \in Onwards(http_auth), Cleared(http_auth'),
         pc' = "done", used' \in {"NULL", "fresh"}
  PROVE  Kept
<1>1. \A m \in Methods : http_auth'[m].state <= AVAILABLE
  BY RecFact DEF Cleared, Onwards
<1> QED
  BY <1>1 DEF Kept, ProxyInv, ServerInv, ChallengeIsFresh

\* Between redirected: and the server's answer http_auth does not change.
LEMMA ServerKept ==
  ASSUME StateInv, UNCHANGED <<http_auth, auth>>,
         pc \notin {"redirected", "done", "spin"}, pc' \notin {"redirected", "done"}
  PROVE  http_auth' \in Onwards(http_auth) /\ ServerInv'
<1>1. http_auth' \in Onwards(http_auth)
  BY StatesFact, OnwardsSame DEF StateInv
<1> QED
  BY <1>1 DEF StateInv, ServerInv

\* retry: and the request being written
LEMMA RetryStep ==
  ASSUME StateInv, Retry
  PROVE  Kept
<1>0. /\ pc = "retry" /\ pc' \in {"send", "dial"} /\ Cleared(proxy_auth)
      /\ UNCHANGED <<proxy_auth, http_auth, auth, used>>
  BY DEF StateInv, ProxyInv, Retry, serverVars
<1>1. proxy_auth' \in Onwards(proxy_auth)
  BY <1>0, StatesFact, OnwardsSame DEF StateInv
<1>2. Cleared(proxy_auth') /\ Silent(proxy_auth') /\ Fresh(proxy_auth')
  BY <1>0 DEF Cleared, Silent, Fresh
<1>3. ProxyInv'
  BY <1>0, <1>2 DEF ProxyInv
<1>4. http_auth' \in Onwards(http_auth) /\ ServerInv'
  BY <1>0, ServerKept
<1> QED
  BY <1>0, <1>1, <1>3, <1>4 DEF Kept, StateInv, ChallengeIsFresh

LEMMA SendStep ==
  ASSUME StateInv, Send
  PROVE  Kept
<1>0. /\ pc = "send" /\ Cleared(proxy_auth) /\ UNCHANGED <<proxy_auth, used>>
      /\ proxy_auth \in AuthFcn /\ http_auth \in AuthFcn
  BY StatesFact DEF StateInv, ProxyInv, Send, proxyVars
<1>1. proxy_auth' \in Onwards(proxy_auth) /\ Cleared(proxy_auth')
  BY <1>0, OnwardsSame
<1>2. CASE pc' \in {"server", "retry"} /\ UNCHANGED <<http_auth, auth>>
  <2>1. ProxyInv'
    BY <1>1, <1>2 DEF ProxyInv
  <2>2. http_auth' \in Onwards(http_auth) /\ ServerInv'
    BY <1>0, <1>2, ServerKept
  <2> QED
    BY <1>0, <1>1, <2>1, <2>2 DEF Kept, StateInv, ChallengeIsFresh
<1>3. CASE Out
  <2>1. used' \in {"NULL", "fresh"}
    BY <1>0 DEF StateInv, ChallengeIsFresh
  <2> QED
    BY <1>0, <1>1, <1>3, <2>1, OutFact, EndKept
<1> QED
  BY <1>2, <1>3 DEF Send, serverVars

\* The connection to the proxy is dialled.
LEMMA DialStep ==
  ASSUME StateInv, Dial
  PROVE  Kept
<1>0. /\ pc = "dial" /\ used' = used
      /\ proxy_auth \in AuthFcn /\ http_auth \in AuthFcn
      /\ Fresh(proxy_auth) /\ (~proxy_close_during_auth => Silent(proxy_auth))
  BY StatesFact DEF StateInv, ProxyInv, Dial, DialFailed
<1>1. CASE DialFailed
  <2>1. used' \in {"NULL", "fresh"}
    BY <1>0 DEF StateInv, ChallengeIsFresh
  <2> QED
    BY <1>0, <1>1, <2>1, DialFailedFact, EndKept
<1>2. CASE /\ proxy_tries_auth' = proxy_close_during_auth /\ pc' = "connect"
           /\ UNCHANGED <<proxy_auth, http_auth, auth>>
  <2>1. proxy_auth' \in Onwards(proxy_auth)
    BY <1>0, <1>2, OnwardsSame
  <2>2. Fresh(proxy_auth') /\ (~proxy_tries_auth' => Silent(proxy_auth'))
    BY <1>0, <1>2 DEF Fresh, Silent
  <2>3. ProxyInv'
    BY <1>2, <2>2 DEF ProxyInv
  <2>4. http_auth' \in Onwards(http_auth) /\ ServerInv'
    BY <1>0, <1>2, ServerKept
  <2> QED
    BY <1>0, <2>1, <2>3, <2>4 DEF Kept, StateInv, ChallengeIsFresh
<1> QED
  BY <1>1, <1>2 DEF Dial, serverVars

\* A failed CONNECT, at whatever place
LEMMA ProxyFailedKept ==
  ASSUME StateInv, pc \in {"connect", "proxy"},
         NEW pa \in Onwards(proxy_auth), NEW close \in BOOLEAN, NEW again \in BOOLEAN,
         Fresh(pa), ProxyFailed(pa, close, again), used' = used
  PROVE  Kept
<1>0. proxy_auth \in AuthFcn /\ http_auth \in AuthFcn
  BY StatesFact DEF StateInv
<1>1. /\ proxy_auth' \in Onwards(proxy_auth)
      /\ http_auth' \in Onwards(http_auth)
      /\ proxy_close_during_auth' = close
      /\ \/ /\ pc' = "dial" /\ UNCHANGED <<http_auth, auth>>
            /\ close /\ proxy_auth' = pa
         \/ /\ pc' = "dial" /\ UNCHANGED <<http_auth, auth>>
            /\ Cleared(proxy_auth')
         \/ pc' = "done" /\ Cleared(proxy_auth') /\ Cleared(http_auth')
  BY <1>0, ProxyFailedFact
<1>2. used' \in {"NULL", "fresh"}
  BY DEF StateInv, ChallengeIsFresh
<1>3. CASE pc' = "dial" /\ UNCHANGED <<http_auth, auth>>
           /\ ((close /\ proxy_auth' = pa) \/ Cleared(proxy_auth'))
  <2>1. Fresh(proxy_auth') /\ (~proxy_close_during_auth' => Silent(proxy_auth'))
    BY <1>1, <1>3 DEF Cleared, Fresh, Silent
  <2>2. ProxyInv'
    BY <1>3, <2>1 DEF ProxyInv
  <2>3. ServerInv'
    BY <1>3, ServerKept
  <2> QED
    BY <1>1, <1>2, <2>2, <2>3 DEF Kept, ChallengeIsFresh
<1>4. CASE pc' = "done" /\ Cleared(proxy_auth') /\ Cleared(http_auth')
  BY <1>1, <1>2, <1>4, EndKept
<1> QED
  BY <1>1, <1>3, <1>4

\* The CONNECT request
LEMMA ConnectStep ==
  ASSUME StateInv, ProxyConnect
  PROVE  Kept
<1>0. /\ pc = "connect" /\ proxy_auth \in AuthFcn /\ http_auth \in AuthFcn
      /\ Fresh(proxy_auth) /\ (~proxy_tries_auth => Silent(proxy_auth))
      /\ proxy_close_during_auth \in BOOLEAN
  BY StatesFact DEF StateInv, TypeOK, ProxyInv, ProxyConnect
<1>1. CASE /\ pc' = "proxy" /\ used' \in {"NULL", "fresh"} /\ Silent(proxy_auth')
           /\ proxy_auth' \in Onwards(proxy_auth) /\ UNCHANGED <<http_auth, auth>>
  <2>1. ProxyInv'
    BY <1>1 DEF ProxyInv
  <2>2. http_auth' \in Onwards(http_auth) /\ ServerInv'
    BY <1>0, <1>1, ServerKept
  <2> QED
    BY <1>1, <2>1, <2>2 DEF Kept, ChallengeIsFresh
<1>2. used \in {"NULL", "fresh"} /\ proxy_auth \in Onwards(proxy_auth)
  BY <1>0, OnwardsSame DEF StateInv, ChallengeIsFresh
<1>3. CASE ~proxy_tries_auth
  <2>1. CASE pc' = "proxy" /\ UNCHANGED <<proxy_auth, http_auth, auth, used>>
    <3>1. Silent(proxy_auth')
      BY <1>0, <1>3, <2>1
    <3> QED
      BY <1>1, <1>2, <2>1, <3>1
  <2>2. CASE /\ ProxyFailed(proxy_auth, proxy_close_during_auth, FALSE)
             /\ used' = used
    BY <1>0, <1>2, <2>2, ProxyFailedKept
  <2> QED
    BY <1>3, <2>1, <2>2 DEF ProxyConnect, serverVars
<1>4. CASE proxy_tries_auth
  <2>1. PICK o \in gen_authorization_hdr(proxy_auth, ProxyPass) :
          \/ /\ proxy_auth' = clear_auth_states(o.auth, FALSE)
             /\ used' = o.used /\ pc' = "proxy" /\ UNCHANGED <<http_auth, auth>>
          \/ pc' = "spin" /\ UNCHANGED <<proxy_auth, used, http_auth, auth>>
          \/ /\ ProxyFailed(o.auth, proxy_close_during_auth \/ o.close, o.ret = "EAGAIN")
             /\ used' = used
    BY <1>4 DEF ProxyConnect, serverVars
  <2>2. /\ o.auth \in Onwards(proxy_auth) /\ Fresh(o.auth)
        /\ o.used \in {"NULL", "fresh"} /\ o.auth \in AuthFcn
    BY <1>0, HeaderKeeps, RequestAssumption DEF Onwards
  <2>3. CASE /\ proxy_auth' = clear_auth_states(o.auth, FALSE)
             /\ used' = o.used /\ pc' = "proxy" /\ UNCHANGED <<http_auth, auth>>
    <3>1. /\ clear_auth_states(o.auth, FALSE) \in Onwards(o.auth)
          /\ Silent(clear_auth_states(o.auth, FALSE))
      BY <2>2, ClearFact
    <3>2. proxy_auth' \in Onwards(proxy_auth)
      BY <1>0, <2>2, <2>3, <3>1, OnwardsTrans
    <3> QED
      BY <1>1, <2>2, <2>3, <3>1, <3>2
  <2>4. CASE pc' = "spin" /\ UNCHANGED <<proxy_auth, used, http_auth, auth>>
    <3>1. ProxyInv'
      BY <2>4 DEF ProxyInv
    <3>2. http_auth' \in Onwards(http_auth) /\ ServerInv'
      BY <1>0, <2>4, ServerKept
    <3> QED
      BY <1>2, <2>4, <3>1, <3>2 DEF Kept, ChallengeIsFresh
  <2>5. CASE /\ ProxyFailed(o.auth, proxy_close_during_auth \/ o.close, o.ret = "EAGAIN")
             /\ used' = used
    <3>1. (proxy_close_during_auth \/ o.close) \in BOOLEAN /\ (o.ret = "EAGAIN") \in BOOLEAN
      BY Zenon
    <3> QED
      BY <1>0, <2>2, <2>5, <3>1, ProxyFailedKept
  <2> QED
    BY <2>1, <2>3, <2>4, <2>5
<1> QED
  BY <1>3, <1>4

\* What the proxy answers, up to the connection to the server
LEMMA ProxyResponseStep ==
  ASSUME StateInv, ProxyResponse
  PROVE  Kept
<1>0. /\ pc = "proxy" /\ used' = used /\ Silent(proxy_auth)
      /\ proxy_auth \in AuthFcn /\ http_auth \in AuthFcn
      /\ proxy_close_during_auth \in BOOLEAN
      /\ used' \in {"NULL", "fresh"}
  BY StatesFact DEF StateInv, TypeOK, ProxyInv, ChallengeIsFresh, ProxyResponse
<1>1. PICK pa \in Read(proxy_auth, ProxyOffers), closing \in BOOLEAN :
        \/ ProxyFailed(pa, TRUE, TRUE)
        \/ /\ proxy_auth' = pa /\ proxy_tries_auth' = TRUE /\ pc' = "connect"
           /\ UNCHANGED <<http_auth, auth>>
        \/ /\ proxy_auth' = clear_auth_states(pa, TRUE)
           /\ (pc' = "send" /\ UNCHANGED <<http_auth, auth>>) \/ Out
        \/ ProxyFailed(pa, closing, FALSE)
  <2>1. PICK pa \in Read(proxy_auth, ProxyOffers), close \in BOOLEAN :
          LET closing == proxy_close_during_auth \/ close
          IN  \/ ProxyFailed(pa, TRUE, TRUE)
              \/ /\ proxy_auth' = pa /\ proxy_tries_auth' = TRUE /\ pc' = "connect"
                 /\ UNCHANGED <<http_auth, auth>>
              \/ /\ proxy_auth' = clear_auth_states(pa, TRUE)
                 /\ (pc' = "send" /\ UNCHANGED <<http_auth, auth>>) \/ Out
              \/ ProxyFailed(pa, closing, FALSE)
    BY DEF ProxyResponse, serverVars
  <2>2. (proxy_close_during_auth \/ close) \in BOOLEAN
    BY Zenon
  <2> QED
    BY <2>1, <2>2
<1>2. pa \in Onwards(proxy_auth) /\ Fresh(pa) /\ pa \in AuthFcn
  BY <1>0, ReadFact, RequestAssumption DEF Onwards
<1>3. CASE ProxyFailed(pa, TRUE, TRUE) \/ ProxyFailed(pa, closing, FALSE)
  BY <1>0, <1>2, <1>3, ProxyFailedKept
<1>4. CASE /\ proxy_auth' = pa /\ proxy_tries_auth' = TRUE /\ pc' = "connect"
           /\ UNCHANGED <<http_auth, auth>>
  <2>1. ProxyInv'
    BY <1>2, <1>4 DEF ProxyInv
  <2>2. http_auth' \in Onwards(http_auth) /\ ServerInv'
    BY <1>0, <1>4, ServerKept
  <2> QED
    BY <1>0, <1>2, <1>4, <2>1, <2>2 DEF Kept, ChallengeIsFresh
<1>5. CASE /\ proxy_auth' = clear_auth_states(pa, TRUE)
           /\ (pc' = "send" /\ UNCHANGED <<http_auth, auth>>) \/ Out
  <2>1. clear_auth_states(pa, TRUE) \in Onwards(pa) /\ Cleared(clear_auth_states(pa, TRUE))
    BY <1>2, ClearFact
  <2>2. proxy_auth' \in Onwards(proxy_auth) /\ Cleared(proxy_auth')
    BY <1>0, <1>2, <1>5, <2>1, OnwardsTrans
  <2>3. CASE pc' = "send" /\ UNCHANGED <<http_auth, auth>>
    <3>1. ProxyInv'
      BY <2>2, <2>3 DEF ProxyInv
    <3>2. http_auth' \in Onwards(http_auth) /\ ServerInv'
      BY <1>0, <2>3, ServerKept
    <3> QED
      BY <1>0, <2>2, <3>1, <3>2 DEF Kept, ChallengeIsFresh
  <2>4. CASE Out
    BY <1>0, <2>2, <2>4, OutFact, EndKept
  <2> QED
    BY <1>5, <2>3, <2>4
<1> QED
  BY <1>1, <1>3, <1>4, <1>5

\* What the server answers
LEMMA ServerResponseStep ==
  ASSUME StateInv, ServerResponse
  PROVE  Kept
<1>0. /\ pc = "server" /\ Cleared(proxy_auth) /\ UNCHANGED <<proxy_auth, used>>
      /\ proxy_auth \in AuthFcn /\ http_auth \in AuthFcn
      /\ auth => Silent(http_auth)
      /\ ~auth => \A m \in Methods : http_auth[m].state <= AVAILABLE
      /\ used' \in {"NULL", "fresh"}
  BY StatesFact
     DEF StateInv, TypeOK, ProxyInv, ServerInv, ChallengeIsFresh, ServerResponse, proxyVars
<1>1. proxy_auth' \in Onwards(proxy_auth) /\ Cleared(proxy_auth')
  BY <1>0, OnwardsSame
<1>2. PICK ha \in Read(http_auth, ServerOffers) :
        \/ http_auth' = clear_auth_states(ha, TRUE) /\ pc' = "done"
        \/ auth' = TRUE /\ http_auth' = ha /\ pc' = "redirected"
        \/ /\ http_auth' \in {clear_auth_states(Age(ha, "foreign"), TRUE), ha}
           /\ auth' = auth /\ pc' = "redirected"
  BY DEF ServerResponse
<1>3. /\ ha \in Onwards(http_auth) /\ ha \in AuthFcn
      /\ Silent(http_auth) => Fresh(ha)
      /\ \A m \in Methods : ha[m].state = http_auth[m].state \/ ha[m].state = AVAILABLE
  BY <1>0, ReadFact, RequestAssumption DEF Onwards
<1>4. pc' \in {"redirected", "done"} => ProxyInv'
  BY <1>1 DEF ProxyInv
<1>5. CASE http_auth' = clear_auth_states(ha, TRUE) /\ pc' = "done"
  <2>1. clear_auth_states(ha, TRUE) \in Onwards(ha) /\ Cleared(clear_auth_states(ha, TRUE))
    BY <1>3, ClearFact
  <2>2. http_auth' \in Onwards(http_auth) /\ Cleared(http_auth')
    BY <1>0, <1>3, <1>5, <2>1, OnwardsTrans
  <2> QED
    BY <1>0, <1>1, <1>5, <2>2, EndKept
<1>6. CASE http_auth' = ha /\ pc' = "redirected" /\ auth' \in {TRUE, auth}
  <2>1. \/ Fresh(ha)
        \/ \A m \in Methods : ha[m].state <= AVAILABLE
    <3>1. CASE auth
      BY <1>0, <1>3, <3>1
    <3>2. CASE ~auth
      BY <1>0, <1>3, <3>2
    <3> QED
      BY <3>1, <3>2
  <2>2. ~auth' => \A m \in Methods : ha[m].state <= AVAILABLE
    <3>1. ~auth' => ~auth
      BY <1>6
    <3> QED
      BY <1>0, <1>3, <3>1
  <2>3. ServerInv'
    BY <1>6, <2>1, <2>2 DEF ServerInv, Fresh
  <2> QED
    BY <1>0, <1>1, <1>3, <1>4, <1>6, <2>3 DEF Kept, ChallengeIsFresh
<1>7. CASE /\ http_auth' = clear_auth_states(Age(ha, "foreign"), TRUE)
           /\ auth' = auth /\ pc' = "redirected"
  <2> DEFINE g == Age(ha, "foreign")
  <2>1. g \in AuthFcn /\ \A m \in Methods : g[m].state = ha[m].state
    BY <1>3, AgeFact, MethodFact
  <2>2. g \in Onwards(ha)
    BY <2>1 DEF Onwards
  <2> HIDE DEF g
  <2>3. clear_auth_states(g, TRUE) \in Onwards(g) /\ Cleared(clear_auth_states(g, TRUE))
    BY <2>1, ClearFact
  <2>4. g \in Onwards(http_auth)
    BY <1>0, <1>3, <2>2, OnwardsTrans
  <2>5. clear_auth_states(g, TRUE) \in Onwards(http_auth)
    BY <1>0, <2>3, <2>4, OnwardsTrans
  <2>6. http_auth' \in Onwards(http_auth) /\ Cleared(http_auth')
    BY <1>7, <2>3, <2>5 DEF g
  <2>7. \A m \in Methods : /\ http_auth'[m].state <= AVAILABLE
                           /\ http_auth'[m].challenge = "NULL"
    BY <2>6, RecFact DEF Cleared, Onwards
  <2>8. ServerInv'
    BY <1>7, <2>7 DEF ServerInv
  <2> QED
    BY <1>0, <1>1, <1>4, <1>7, <2>6, <2>8 DEF Kept, ChallengeIsFresh
<1> QED
  BY <1>2, <1>5, <1>6, <1>7

\* Any step of the program
LEMMA AnyStep ==
  ASSUME StateInv, Next
  PROVE  Kept \/ UNCHANGED vars
BY RequestStep, RetryStep, SendStep, DialStep, ConnectStep, ProxyResponseStep,
   ServerResponseStep DEF Next, Done
-----------------------------------------------------------------------------
\* The simple variables have their types after every step, one conjunct at a time.
LEMMA PcStep ==
  ASSUME TypeOK, Next
  PROVE  pc' \in {"redirected", "retry", "send", "dial", "connect", "proxy", "server",
                  "spin", "done"}
<1> USE DEF Out
<1>1. CASE Request
  BY <1>1, Zenon DEF Request
<1>2. CASE Retry
  BY <1>2 DEF Retry
<1>3. CASE Send
  BY <1>3, Zenon DEF Send
<1>4. CASE Dial
  BY <1>4, Zenon DEF Dial, DialFailed
<1>5. CASE ProxyConnect
  BY <1>5, Zenon DEF ProxyConnect, ProxyFailed
<1>6. CASE ProxyResponse
  BY <1>6, Zenon DEF ProxyResponse, ProxyFailed
<1>7. CASE ServerResponse
  BY <1>7, Zenon DEF ServerResponse
<1>8. CASE Done
  BY <1>8, Zenon DEF Done, vars, TypeOK
<1> QED
  BY <1>1, <1>2, <1>3, <1>4, <1>5, <1>6, <1>7, <1>8 DEF Next

LEMMA ProxyFlagsStep ==
  ASSUME TypeOK, Next
  PROVE  proxy_close_during_auth' \in BOOLEAN /\ proxy_tries_auth' \in BOOLEAN
<1>0. proxy_close_during_auth \in BOOLEAN /\ proxy_tries_auth \in BOOLEAN
  BY DEF TypeOK
<1>1. CASE UNCHANGED <<proxy_close_during_auth, proxy_tries_auth>>
  BY <1>0, <1>1
<1>2. CASE Dial
  BY <1>0, <1>2, Zenon DEF Dial
<1>3. CASE ProxyConnect
  BY <1>0, <1>3, Zenon DEF ProxyConnect, ProxyFailed
<1>4. CASE ProxyResponse
  BY <1>0, <1>4, Zenon DEF ProxyResponse, ProxyFailed
<1> QED
  BY <1>1, <1>2, <1>3, <1>4
     DEF Next, Request, Retry, Send, ServerResponse, Done, proxyVars, vars

LEMMA ServerFlagsStep ==
  ASSUME TypeOK, Next
  PROVE  auth' \in BOOLEAN /\ try_http_auth' \in BOOLEAN /\ retry_on_auth_fail' \in BOOLEAN
<1>0. auth \in BOOLEAN /\ try_http_auth \in BOOLEAN /\ retry_on_auth_fail \in BOOLEAN
  BY DEF TypeOK
<1>1. CASE UNCHANGED <<auth, try_http_auth, retry_on_auth_fail>>
  BY <1>0, <1>1
<1>2. CASE Request
  BY <1>0, <1>2, Zenon DEF Request, Out
<1>3. CASE ServerResponse
  BY <1>0, <1>3, Zenon DEF ServerResponse
<1> QED
  BY <1>1, <1>2, <1>3
     DEF Next, Retry, Send, Dial, DialFailed, ProxyConnect, ProxyFailed, ProxyResponse,
         Done, Out, serverVars, vars

LEMMA ConnectionStep ==
  ASSUME TypeOK, Next
  PROVE  connected' \in BOOLEAN /\ rq_retry' \in BOOLEAN
<1>0. connected \in BOOLEAN /\ rq_retry \in BOOLEAN
  BY DEF TypeOK
<1>1. CASE UNCHANGED <<connected, rq_retry>>
  BY <1>0, <1>1
<1>2. CASE Retry
  BY <1>0, <1>2, Zenon DEF Retry
<1>3. CASE Send
  BY <1>0, <1>3, Zenon DEF Send
<1>4. CASE ProxyResponse
  BY <1>0, <1>4, Zenon DEF ProxyResponse, ProxyFailed
<1>5. CASE ServerResponse
  BY <1>0, <1>5, Zenon DEF ServerResponse
<1> QED
  BY <1>1, <1>2, <1>3, <1>4, <1>5
     DEF Next, Request, Dial, DialFailed, ProxyConnect, ProxyFailed, Done, vars

LEMMA RedirectStep ==
  ASSUME TypeOK, Next
  PROVE  redirect_url' \in RedirectURLs /\ max_redirects' \in 0..MaxRedirects
<1>0. redirect_url \in RedirectURLs /\ max_redirects \in 0..MaxRedirects
  BY DEF TypeOK
<1>1. CASE UNCHANGED <<redirect_url, max_redirects>>
  BY <1>0, <1>1
<1>2. CASE Request
  <2>1. \/ max_redirects' = max_redirects
        \/ max_redirects > 0 /\ max_redirects' = max_redirects - 1
    BY <1>2 DEF Request, Out
  <2>2. redirect_url' = redirect_url
    BY <1>2 DEF Request
  <2> QED
    BY <1>0, <2>1, <2>2, RequestAssumption
<1>3. CASE ServerResponse
  <2>1. max_redirects' = max_redirects
    BY <1>3 DEF ServerResponse
  <2>2. redirect_url' \in RedirectURLs \union {redirect_url, "NULL"}
    BY <1>3, Zenon DEF ServerResponse
  <2>3. "NULL" \in RedirectURLs
    BY Zenon DEF RedirectURLs
  <2> QED
    BY <1>0, <2>1, <2>2, <2>3
<1> QED
  BY <1>1, <1>2, <1>3
     DEF Next, Retry, Send, Dial, DialFailed, ProxyConnect, ProxyFailed, ProxyResponse,
         Done, Out, serverVars, vars

LEMMA LoginsStep ==
  ASSUME TypeOK, Next
  PROVE  logins' \in Nat
<1>0. logins \in Nat
  BY DEF TypeOK
<1>1. logins' \in {logins, logins + 1, 0}
  BY DEF Next, Request, Retry, Send, Dial, ProxyConnect, ProxyResponse, ServerResponse,
         Done, proxyVars, vars
<1> QED
  BY <1>0, <1>1
-----------------------------------------------------------------------------
LEMMA InitStateInv == Init => StateInv
<1> SUFFICES ASSUME Init PROVE StateInv
  OBVIOUS
<1>1. /\ proxy_auth \in AuthFcn /\ http_auth \in AuthFcn
      /\ Cleared(proxy_auth) /\ Cleared(http_auth)
  BY InitStates
<1>2. /\ proxy_auth \in AuthStates(DEFAULT_DISABLED, NTLM_MANUAL_REQ)
      /\ http_auth \in AuthStates(DEFAULT_DISABLED, NTLM_MANUAL_REQ)
  BY <1>1 DEF AuthStates, AuthFcn, AuthRec
<1>3. max_redirects \in 0..MaxRedirects /\ logins \in Nat /\ redirect_url \in RedirectURLs
  BY RequestAssumption DEF Init
<1>4. used \in Challenges /\ used \in {"NULL", "fresh"}
  BY MethodFact DEF Init
<1>5. TypeOK
  BY <1>2, <1>3, <1>4, Zenon DEF Init, TypeOK
<1>6. ASSUME NEW m \in Methods
      PROVE  http_auth[m].state <= AVAILABLE /\ http_auth[m].challenge = "NULL"
  <2>1. http_auth[m].state \in -3..4
    BY <1>1, RecFact
  <2>2. http_auth[m].state <= UNSEEN /\ http_auth[m].challenge = "NULL"
    BY <1>1 DEF Cleared
  <2> QED
    BY <2>1, <2>2
<1>7. ProxyInv /\ ServerInv
  BY <1>1, <1>6 DEF Init, ProxyInv, ServerInv
<1> QED
  BY <1>4, <1>5, <1>7 DEF StateInv, ChallengeIsFresh

LEMMA NextStateInv == StateInv /\ [Next]_vars => StateInv'
<1> SUFFICES ASSUME StateInv, [Next]_vars PROVE StateInv'
  OBVIOUS
<1>1. CASE UNCHANGED vars
  BY <1>1 DEF StateInv, TypeOK, ProxyInv, ServerInv, ChallengeIsFresh, Cleared, Silent,
              Fresh, vars, proxyVars, serverVars
<1>2. CASE Next /\ Kept
  <2>1. /\ proxy_auth' \in AuthStates(DEFAULT_DISABLED, NTLM_MANUAL_REQ)
        /\ http_auth' \in AuthStates(DEFAULT_DISABLED, NTLM_MANUAL_REQ)
    BY <1>2 DEF Kept, Onwards, AuthStates, AuthFcn, AuthRec
  <2>2. used' \in Challenges
    BY <1>2, MethodFact DEF Kept, ChallengeIsFresh
  <2>3. TypeOK
    BY DEF StateInv
  <2>4. TypeOK'
    BY <1>2, <2>1, <2>2, <2>3, PcStep, ProxyFlagsStep, ServerFlagsStep, ConnectionStep,
       RedirectStep, LoginsStep DEF TypeOK
  <2> QED
    BY <1>2, <2>4 DEF Kept, StateInv
<1> QED
  BY <1>1, <1>2, AnyStep

\* The invariant of the states kept towards both peers
THEOREM StateInvariance == Spec => []StateInv
BY InitStateInv, NextStateInv, PTL DEF Spec

\* Types: every variable holds what its C counterpart can, whatever the peers answer
\* (do_https_request and process_http_proxy of http.c).
THEOREM TypeCorrect == Spec => []TypeOK
<1>1. StateInv => TypeOK
  BY DEF StateInv
<1> QED
  BY <1>1, StateInvariance, PTL

\* A header never answers a challenge of an earlier response or of another host: the
\* "Forget existing challenges" of both loops of http.c is enough.
THEOREM NoStaleChallenge == Spec => []ChallengeIsFresh
<1>1. StateInv => ChallengeIsFresh
  BY DEF StateInv
<1> QED
  BY <1>1, StateInvariance, PTL

\* However the request ends, no challenge and no method half way is left over
\* (clear_auth_states at out: and at the end of connect_https_socket).
THEOREM NothingLeftOver == Spec => []ClearedAtEnd
<1>1. StateInv => ClearedAtEnd
  BY DEF StateInv, ProxyInv, ServerInv, ClearedAtEnd, Cleared
<1> QED
  BY <1>1, StateInvariance, PTL

\* A method that failed or is switched off towards a peer stays so, over every new
\* connection, challenge and redirect (clear_auth_states, handle_auth_proto).
THEOREM FailedStaysFailed == Spec => FailedIsFinal
<1> DEFINE A == \A m \in Methods :
                  /\ proxy_auth[m].state <= FAILED => proxy_auth'[m].state <= FAILED
                  /\ http_auth[m].state <= FAILED => http_auth'[m].state <= FAILED
<1>1. StateInv /\ [Next]_vars => [A]_vars
  <2> SUFFICES ASSUME StateInv, Next PROVE A \/ UNCHANGED vars
    BY DEF A
  <2>1. CASE Kept
    BY <2>1 DEF Kept, Onwards
  <2> QED
    BY <2>1, AnyStep
<1> QED
  BY <1>1, StateInvariance, PTL DEF Spec, FailedIsFinal
-----------------------------------------------------------------------------
\* How many passwords are left, before and after what may happen to the states: a
\* method becomes available or not,
LEMMA LeftBounds ==
  ASSUME NEW n \in -3..4, NEW d \in -3..4, NEW b \in -3..4, NEW u
  PROVE  /\ Left(n, d, b, u) \in 0..9
         /\ n <= UNSEEN /\ d <= UNSEEN /\ b <= UNSEEN => Left(n, d, b, u) <= 7
BY DEF Left, NtlmLeft, DigestLeft, BasicLeft, Alive, Untried

Nudged(s, t) == t = s \/ (s = UNSEEN /\ t = AVAILABLE) \/ (s = AVAILABLE /\ t = UNSEEN)

LEMMA LeftNudged ==
  ASSUME NEW n \in -3..4, NEW d \in -3..4, NEW b \in -3..4, NEW u,
         NEW n1, NEW d1, NEW b1, Nudged(n, n1), Nudged(d, d1), Nudged(b, b1)
  PROVE  Left(n1, d1, b1, u) = Left(n, d, b, u)
BY DEF Left, NtlmLeft, DigestLeft, BasicLeft, Alive, Untried, Nudged

\* and a method fails, the first that had anything to try, and those that have not
\* failed may start anew.
Anew(s) == IF s > FAILED THEN UNSEEN ELSE s

LEMMA LeftFailed ==
  ASSUME NEW n \in -3..4, NEW d \in -3..4, NEW b \in -3..4, NEW u,
         NEW n1, NEW d1, NEW b1,
         \/ n > FAILED /\ n1 = FAILED /\ d1 = d /\ b1 = b
         \/ n <= UNSEEN /\ n1 = n /\ d > FAILED /\ d1 = FAILED /\ b1 = b
         \/ n <= UNSEEN /\ n1 = n /\ d <= AVAILABLE /\ d1 = d /\ b1 = FAILED
  PROVE  /\ Left(n1, d1, b1, u) <= Left(n, d, b, u)
         /\ Left(Anew(n1), Anew(d1), Anew(b1), u) <= Left(n, d, b, u)
BY DEF Left, NtlmLeft, DigestLeft, BasicLeft, Alive, Untried, Anew

\* A password that is sent is one less.
LEMMA LeftSent ==
  ASSUME NEW n \in -3..4, NEW d \in -3..4, NEW b \in -3..4, NEW u, NEW v,
         NEW n1, NEW d1, NEW b1,
         \/ n = AVAILABLE /\ n1 = NTLM_MANUAL_REQ /\ d1 = d /\ b1 = b
         \/ /\ n = NTLM_MANUAL_REQ /\ n1 = NTLM_MANUAL_REQ /\ d1 = d /\ b1 = b
            /\ ~u /\ v
         \/ n <= UNSEEN /\ n1 = n /\ d = AVAILABLE /\ d1 = IN_PROGRESS /\ b1 = b
         \/ /\ n <= UNSEEN /\ n1 = n /\ d <= AVAILABLE /\ d1 = d
            /\ b = AVAILABLE /\ b1 = IN_PROGRESS
  PROVE  Left(n1, d1, b1, v) + 1 <= Left(n, d, b, u)
BY DEF Left, NtlmLeft, DigestLeft, BasicLeft, Alive, Untried
-----------------------------------------------------------------------------
\* What the methods answer when there is a password
LEMMA NtlmTries ==
  ASSUME NEW a \in AuthRec, a.state \notin {NTLM_SSO_REQ, NTLM_MANUAL},
         NEW pass \in BOOLEAN, pass, NEW t \in Attempt("NTLM", a, pass)
  PROVE  \/ a.state = AVAILABLE /\ t.state = NTLM_MANUAL_REQ /\ t.ret = "0"
         \/ /\ a.state = NTLM_MANUAL_REQ /\ t.state = NTLM_MANUAL_REQ /\ t.ret = "0"
            /\ t.used = a.challenge /\ a.challenge # "NULL"
         \/ a.state > UNSEEN /\ t.state = FAILED /\ t.ret = "EAGAIN"
         \/ a.state <= UNSEEN /\ t.ret \in {"next", "EINVAL"}
<1>0. a.state \in {-3, -2, -1, 0, 1, 4}
  BY DEF AuthRec
<1>1. CASE a.state <= UNSEEN
  <2>1. t \in {Answer(FAILED, "EINVAL", "NULL"), Answer(a.state, "next", "NULL")}
    BY <1>1 DEF Attempt
  <2> QED
    BY <1>1, <2>1, AnswerFact
<1>2. CASE a.state > UNSEEN
  <2>0. ~(a.state = DEFAULT_DISABLED) /\ ~(a.state <= UNSEEN)
    BY <1>0, <1>2
  <2>1. t \in ntlm_authorization(a, pass)
    BY <2>0 DEF Attempt
  <2>2. CASE a.state = AVAILABLE
    <3>1. t = Answer(NTLM_MANUAL_REQ, "0", "NULL")
      BY <2>1, <2>2 DEF ntlm_authorization
    <3> QED
      BY <2>2, <3>1, AnswerFact
  <2>3. CASE a.state = NTLM_MANUAL_REQ
    <3>1. \/ t = Answer(FAILED, "EAGAIN", "NULL")
          \/ a.challenge # "NULL" /\ t = Answer(NTLM_MANUAL_REQ, "0", a.challenge)
      BY <2>1, <2>3 DEF ntlm_authorization, Failed
    <3> QED
      BY <1>2, <2>3, <3>1, AnswerFact
  <2> QED
    BY <1>0, <1>2, <2>2, <2>3
<1> QED
  BY <1>0, <1>1, <1>2

LEMMA DigestTries ==
  ASSUME NEW a \in AuthRec, a.state <= IN_PROGRESS,
         NEW pass \in BOOLEAN, pass, NEW t \in Attempt("Digest", a, pass)
  PROVE  \/ a.state = AVAILABLE /\ t.state = IN_PROGRESS /\ t.ret = "0"
         \/ a.state = IN_PROGRESS /\ t.state = FAILED /\ t.ret = "EAGAIN"
         \/ a.state <= AVAILABLE /\ t.ret \in {"next", "EINVAL", "spin"}
<1>0. a.state \in {-3, -2, -1, 0, 1, 2}
  BY DEF AuthRec
<1>1. CASE a.state <= UNSEEN
  <2>1. t \in {Answer(FAILED, "EINVAL", "NULL"), Answer(a.state, "next", "NULL")}
    BY <1>1 DEF Attempt
  <2> QED
    BY <1>0, <1>1, <2>1, AnswerFact
<1>2. CASE a.state > UNSEEN
  <2>0. ~(a.state = DEFAULT_DISABLED) /\ ~(a.state <= UNSEEN)
    BY <1>0, <1>2
  <2>1. t \in digest_authorization(a, pass)
    BY <2>0 DEF Attempt
  <2>2. CASE a.state = AVAILABLE
    <3>1. \/ \E r \in {"next", "spin"} : t = Answer(a.state, r, "NULL")
          \/ t = Answer(IN_PROGRESS, "0", a.challenge)
      BY <2>1, <2>2 DEF digest_authorization
    <3> QED
      BY <2>2, <3>1, AnswerFact
  <2>3. CASE a.state = IN_PROGRESS
    <3>1. t = Answer(FAILED, "EAGAIN", "NULL")
      BY <2>1, <2>3 DEF digest_authorization, Failed
    <3> QED
      BY <2>3, <3>1, AnswerFact
  <2> QED
    BY <1>0, <1>2, <2>2, <2>3
<1> QED
  BY <1>0, <1>1, <1>2

LEMMA BasicTries ==
  ASSUME NEW a \in AuthRec, a.state <= IN_PROGRESS,
         NEW pass \in BOOLEAN, pass, NEW t \in Attempt("Basic", a, pass)
  PROVE  \/ a.state = AVAILABLE /\ t.state = IN_PROGRESS /\ t.ret = "0"
         \/ a.state = IN_PROGRESS /\ t.state = FAILED /\ t.ret = "EAGAIN"
         \/ a.state <= UNSEEN /\ t.ret \in {"next", "EINVAL"}
<1>0. a.state \in {-3, -2, -1, 0, 1, 2}
  BY DEF AuthRec
<1>1. CASE a.state <= UNSEEN
  <2>1. t \in {Answer(FAILED, "EINVAL", "NULL"), Answer(a.state, "next", "NULL")}
    BY <1>1 DEF Attempt
  <2> QED
    BY <1>0, <1>1, <2>1, AnswerFact
<1>2. CASE a.state > UNSEEN
  <2>0. ~(a.state = DEFAULT_DISABLED) /\ ~(a.state <= UNSEEN)
    BY <1>0, <1>2
  <2>1. t \in basic_authorization(a, pass)
    BY <2>0 DEF Attempt
  <2>2. CASE a.state = AVAILABLE
    <3>1. t = Answer(IN_PROGRESS, "0", "NULL")
      BY <2>1, <2>2 DEF basic_authorization
    <3> QED
      BY <2>2, <3>1, AnswerFact
  <2>3. CASE a.state = IN_PROGRESS
    <3>1. t = Answer(FAILED, "EAGAIN", "NULL")
      BY <2>1, <2>3 DEF basic_authorization, Failed
    <3> QED
      BY <2>3, <3>1, AnswerFact
  <2> QED
    BY <1>0, <1>2, <2>2, <2>3
<1> QED
  BY <1>0, <1>1, <1>2

\* Negotiate never sends anything.
LEMMA NegotiateTries ==
  ASSUME NEW a, NEW pass, NEW t \in Attempt("Negotiate", a, pass)
  PROVE  t.ret \in {"next", "EINVAL"}
<1>1. \E st, r : r \in {"next", "EINVAL"} /\ t = Answer(st, r, "NULL")
  BY Zenon DEF Attempt, no_gssapi_authorization
<1> QED
  BY <1>1, AnswerFact

\* What gen_authorization_hdr does with a password: of the three methods that send it
\* the first that has anything to try moves on or fails.
Sends(a, o) ==
  \/ /\ a["NTLM"].state = AVAILABLE /\ o.auth["NTLM"].state = NTLM_MANUAL_REQ
     /\ o.auth["Digest"] = a["Digest"] /\ o.auth["Basic"] = a["Basic"]
  \/ /\ a["NTLM"].state = NTLM_MANUAL_REQ /\ o.auth["NTLM"].state = NTLM_MANUAL_REQ
     /\ o.auth["Digest"] = a["Digest"] /\ o.auth["Basic"] = a["Basic"]
     /\ o.used # "NULL" /\ a["NTLM"].challenge # "NULL"
  \/ /\ a["NTLM"].state <= UNSEEN /\ o.auth["NTLM"] = a["NTLM"]
     /\ a["Digest"].state = AVAILABLE /\ o.auth["Digest"].state = IN_PROGRESS
     /\ o.auth["Basic"] = a["Basic"]
  \/ /\ a["NTLM"].state <= UNSEEN /\ o.auth["NTLM"] = a["NTLM"]
     /\ a["Digest"].state <= AVAILABLE /\ o.auth["Digest"] = a["Digest"]
     /\ a["Basic"].state = AVAILABLE /\ o.auth["Basic"].state = IN_PROGRESS

Fails(a, o) ==
  \/ /\ a["NTLM"].state > FAILED /\ o.auth["NTLM"].state = FAILED
     /\ o.auth["Digest"] = a["Digest"] /\ o.auth["Basic"] = a["Basic"]
  \/ /\ a["NTLM"].state <= UNSEEN /\ o.auth["NTLM"] = a["NTLM"]
     /\ a["Digest"].state > FAILED /\ o.auth["Digest"].state = FAILED
     /\ o.auth["Basic"] = a["Basic"]
  \/ /\ a["NTLM"].state <= UNSEEN /\ o.auth["NTLM"] = a["NTLM"]
     /\ a["Digest"].state <= AVAILABLE /\ o.auth["Digest"] = a["Digest"]
     /\ o.auth["Basic"].state = FAILED

LEMMA HeaderTries ==
  ASSUME NEW a \in AuthFcn, Usual(a), NEW pass \in BOOLEAN, pass,
         NEW o \in gen_authorization_hdr(a, pass)
  PROVE  (o.ret = "0" => Sends(a, o)) /\ (o.ret = "EAGAIN" => Fails(a, o))
<1>0. PICK m \in Methods : \E t \in Attempt(m, a[m], pass) : Decides(a, pass, o, m, t)
  BY HeaderFact
<1>1. PICK t \in Attempt(m, a[m], pass) : Decides(a, pass, o, m, t)
  BY <1>0
<1>2. /\ \A k \in Methods : k # m => o.auth[k] = a[k]
      /\ o.auth[m].state = t.state
  <2>1. o.auth = [a EXCEPT ![m] = [a[m] EXCEPT !.state = t.state]]
    BY <1>1 DEF Decides
  <2>2. [a[m] EXCEPT !.state = t.state].state = t.state
    BY RecFact DEF AuthRec
  <2> QED
    BY <2>1, <2>2 DEF AuthFcn
<1>3. /\ a["NTLM"] \in AuthRec /\ a["NTLM"].state \notin {NTLM_SSO_REQ, NTLM_MANUAL}
      /\ a["Digest"] \in AuthRec /\ a["Digest"].state <= IN_PROGRESS
      /\ a["Basic"] \in AuthRec /\ a["Basic"].state <= IN_PROGRESS
  BY RecFact, MethodFact DEF Usual
<1>4. o.used = t.used /\ (o.ret \in {"0", "EAGAIN"} => o.ret = t.ret)
  BY <1>1 DEF Decides
<1>5. Index[m] > 1 => a["NTLM"].state <= UNSEEN
  <2> SUFFICES ASSUME Index[m] > 1 PROVE a["NTLM"].state <= UNSEEN
    OBVIOUS
  <2>1. Passes("NTLM", a["NTLM"], pass)
    BY <1>1, IndexFact, MethodFact DEF Decides
  <2>2. PICK p \in Attempt("NTLM", a["NTLM"], pass) : p.ret = "next"
    BY <2>1 DEF Passes
  <2> QED
    BY <1>3, <2>2, NtlmTries
<1>6. Index[m] > 2 => a["Digest"].state <= AVAILABLE
  <2> SUFFICES ASSUME Index[m] > 2 PROVE a["Digest"].state <= AVAILABLE
    OBVIOUS
  <2>1. Passes("Digest", a["Digest"], pass)
    BY <1>1, IndexFact, MethodFact DEF Decides
  <2>2. PICK p \in Attempt("Digest", a["Digest"], pass) : p.ret = "next"
    BY <2>1 DEF Passes
  <2> QED
    BY <1>3, <2>2, DigestTries
<1>7. CASE m = "NTLM"
  <2>1. o.auth["Digest"] = a["Digest"] /\ o.auth["Basic"] = a["Basic"]
    BY <1>2, <1>7, MethodFact
  <2>2. o.auth["NTLM"].state = t.state
    BY <1>2, <1>7
  <2>3. \/ a["NTLM"].state = AVAILABLE /\ t.state = NTLM_MANUAL_REQ /\ t.ret = "0"
        \/ /\ a["NTLM"].state = NTLM_MANUAL_REQ /\ t.state = NTLM_MANUAL_REQ /\ t.ret = "0"
           /\ t.used = a["NTLM"].challenge /\ a["NTLM"].challenge # "NULL"
        \/ a["NTLM"].state > UNSEEN /\ t.state = FAILED /\ t.ret = "EAGAIN"
        \/ a["NTLM"].state <= UNSEEN /\ t.ret \in {"next", "EINVAL"}
    BY <1>3, <1>7, NtlmTries
  <2>4. a["NTLM"].state \in -3..4
    BY RecFact, MethodFact
  <2>5. o.ret = "0" => Sends(a, o)
    BY <1>4, <2>1, <2>2, <2>3 DEF Sends
  <2>6. o.ret = "EAGAIN" => Fails(a, o)
    BY <1>4, <2>1, <2>2, <2>3, <2>4 DEF Fails
  <2> QED
    BY <2>5, <2>6
<1>8. CASE m = "Digest"
  <2>1. o.auth["NTLM"] = a["NTLM"] /\ o.auth["Basic"] = a["Basic"]
    BY <1>2, <1>8, MethodFact
  <2>2. o.auth["Digest"].state = t.state /\ a["NTLM"].state <= UNSEEN
    BY <1>2, <1>5, <1>8, IndexFact
  <2>3. \/ a["Digest"].state = AVAILABLE /\ t.state = IN_PROGRESS /\ t.ret = "0"
        \/ a["Digest"].state = IN_PROGRESS /\ t.state = FAILED /\ t.ret = "EAGAIN"
        \/ a["Digest"].state <= AVAILABLE /\ t.ret \in {"next", "EINVAL", "spin"}
    BY <1>3, <1>8, DigestTries
  <2>4. o.ret = "0" => Sends(a, o)
    BY <1>4, <2>1, <2>2, <2>3 DEF Sends
  <2>5. o.ret = "EAGAIN" => Fails(a, o)
    BY <1>4, <2>1, <2>2, <2>3 DEF Fails
  <2> QED
    BY <2>4, <2>5
<1>9. CASE m = "Basic"
  <2>1. o.auth["NTLM"] = a["NTLM"] /\ o.auth["Digest"] = a["Digest"]
    BY <1>2, <1>9, MethodFact
  <2>2. /\ o.auth["Basic"].state = t.state
        /\ a["NTLM"].state <= UNSEEN /\ a["Digest"].state <= AVAILABLE
    BY <1>2, <1>5, <1>6, <1>9, IndexFact
  <2>3. \/ a["Basic"].state = AVAILABLE /\ t.state = IN_PROGRESS /\ t.ret = "0"
        \/ a["Basic"].state = IN_PROGRESS /\ t.state = FAILED /\ t.ret = "EAGAIN"
        \/ a["Basic"].state <= UNSEEN /\ t.ret \in {"next", "EINVAL"}
    BY <1>3, <1>9, BasicTries
  <2>4. o.ret = "0" => Sends(a, o)
    BY <1>4, <2>1, <2>2, <2>3 DEF Sends
  <2>5. o.ret = "EAGAIN" => Fails(a, o)
    BY <1>4, <2>1, <2>2, <2>3 DEF Fails
  <2> QED
    BY <2>4, <2>5
<1>10. CASE m = "Negotiate"
  BY <1>1, <1>4, <1>10, NegotiateTries
<1> QED
  BY <1>7, <1>8, <1>9, <1>10, MethodCases

\* The states of the three methods are numbers,
LEMMA ThreeStates ==
  ASSUME NEW a \in AuthFcn
  PROVE  /\ a["NTLM"].state \in -3..4 /\ a["Digest"].state \in -3..4
         /\ a["Basic"].state \in -3..4
BY RecFact, MethodFact

\* and what is left is one.
LEMMA CountFact ==
  ASSUME NEW a \in AuthFcn, NEW u
  PROVE  LoginsLeft(a, u) \in 0..9
<1> DEFINE n == a["NTLM"].state
           d == a["Digest"].state
           b == a["Basic"].state
           w == u # "NULL"
<1>1. n \in -3..4 /\ d \in -3..4 /\ b \in -3..4
  BY ThreeStates
<1> HIDE DEF n, d, b, w
<1>2. Left(n, d, b, w) \in 0..9
  BY <1>1, LeftBounds
<1> QED
  BY <1>2 DEF LoginsLeft, n, d, b, w

\* What the count is after methods became available or not, and what it allows
LEMMA NudgedFact ==
  ASSUME NEW a \in AuthFcn, NEW c \in AuthFcn, Usual(a), NEW u,
         \A m \in Methods : Nudged(a[m].state, c[m].state)
  PROVE  Usual(c) /\ LoginsLeft(c, u) = LoginsLeft(a, u)
<1>1. /\ Nudged(a["NTLM"].state, c["NTLM"].state)
      /\ Nudged(a["Digest"].state, c["Digest"].state)
      /\ Nudged(a["Basic"].state, c["Basic"].state)
  BY MethodFact
<1>2. Usual(c)
  BY <1>1, ThreeStates DEF Usual, Nudged
<1>3. LoginsLeft(c, u) = LoginsLeft(a, u)
  <2> DEFINE n == a["NTLM"].state
             d == a["Digest"].state
             b == a["Basic"].state
             n1 == c["NTLM"].state
             d1 == c["Digest"].state
             b1 == c["Basic"].state
             w == u # "NULL"
  <2>1. n \in -3..4 /\ d \in -3..4 /\ b \in -3..4
    BY ThreeStates
  <2>2. Nudged(n, n1) /\ Nudged(d, d1) /\ Nudged(b, b1)
    BY <1>1
  <2> HIDE DEF n, d, b, n1, d1, b1, w
  <2>3. Left(n1, d1, b1, w) = Left(n, d, b, w)
    BY <2>1, <2>2, LeftNudged
  <2> QED
    BY <2>3 DEF LoginsLeft, n, d, b, n1, d1, b1, w
<1> QED
  BY <1>2, <1>3

\* after a password was sent,
LEMMA SentFact ==
  ASSUME NEW a \in AuthFcn, Usual(a), NEW o, o.auth \in AuthFcn, Sends(a, o), NEW u,
         a["NTLM"].state = NTLM_MANUAL_REQ /\ u # "NULL" => a["NTLM"].challenge = "NULL"
  PROVE  LET c == clear_auth_states(o.auth, FALSE)
         IN  Usual(c) /\ LoginsLeft(c, o.used) + 1 <= LoginsLeft(a, u)
<1>1. Usual(o.auth)
  BY ThreeStates DEF Usual, Sends
<1>2. LoginsLeft(o.auth, o.used) + 1 <= LoginsLeft(a, u)
  <2> DEFINE n == a["NTLM"].state
             d == a["Digest"].state
             b == a["Basic"].state
             n1 == o.auth["NTLM"].state
             d1 == o.auth["Digest"].state
             b1 == o.auth["Basic"].state
             w == u # "NULL"
             v == o.used # "NULL"
  <2>1. \/ n = AVAILABLE /\ n1 = NTLM_MANUAL_REQ /\ d1 = d /\ b1 = b
        \/ /\ n = NTLM_MANUAL_REQ /\ n1 = NTLM_MANUAL_REQ /\ d1 = d /\ b1 = b
           /\ ~w /\ v
        \/ n <= UNSEEN /\ n1 = n /\ d = AVAILABLE /\ d1 = IN_PROGRESS /\ b1 = b
        \/ /\ n <= UNSEEN /\ n1 = n /\ d <= AVAILABLE /\ d1 = d
           /\ b = AVAILABLE /\ b1 = IN_PROGRESS
    BY DEF Sends
  <2>2. n \in -3..4 /\ d \in -3..4 /\ b \in -3..4
    BY ThreeStates
  <2> HIDE DEF n, d, b, n1, d1, b1, w, v
  <2>3. Left(n1, d1, b1, v) + 1 <= Left(n, d, b, w)
    BY <2>1, <2>2, LeftSent
  <2> QED
    BY <2>3 DEF LoginsLeft, n, d, b, n1, d1, b1, w, v
<1> DEFINE c == clear_auth_states(o.auth, FALSE)
<1>3. c \in AuthFcn /\ \A m \in Methods : Nudged(o.auth[m].state, c[m].state)
  BY ClearFact DEF Onwards, Nudged
<1> HIDE DEF c
<1>4. Usual(c) /\ LoginsLeft(c, o.used) = LoginsLeft(o.auth, o.used)
  BY <1>1, <1>3, NudgedFact
<1> QED
  BY <1>2, <1>4 DEF c

\* and after a method has failed, with the others left as they are or anew.
LEMMA FailedFact ==
  ASSUME NEW a \in AuthFcn, Usual(a), NEW o, o.auth \in AuthFcn, Fails(a, o), NEW u,
         NEW c, c \in {o.auth, clear_auth_states(o.auth, TRUE)}
  PROVE  /\ Usual(c) /\ LoginsLeft(c, u) <= LoginsLeft(a, u)
         /\ c["NTLM"].state <= UNSEEN
<1> DEFINE n == a["NTLM"].state
           d == a["Digest"].state
           b == a["Basic"].state
           n1 == o.auth["NTLM"].state
           d1 == o.auth["Digest"].state
           b1 == o.auth["Basic"].state
           w == u # "NULL"
<1>1. \/ n > FAILED /\ n1 = FAILED /\ d1 = d /\ b1 = b
      \/ n <= UNSEEN /\ n1 = n /\ d > FAILED /\ d1 = FAILED /\ b1 = b
      \/ n <= UNSEEN /\ n1 = n /\ d <= AVAILABLE /\ d1 = d /\ b1 = FAILED
  BY DEF Fails
<1>2. n \in -3..4 /\ d \in -3..4 /\ b \in -3..4 /\ d <= IN_PROGRESS /\ b <= IN_PROGRESS
  BY ThreeStates DEF Usual
<1>3. \/ c["NTLM"].state = n1 /\ c["Digest"].state = d1 /\ c["Basic"].state = b1
      \/ /\ c["NTLM"].state = Anew(n1) /\ c["Digest"].state = Anew(d1)
         /\ c["Basic"].state = Anew(b1)
  <2>1. CASE c = o.auth
    BY <2>1
  <2>2. CASE c = clear_auth_states(o.auth, TRUE)
    <3>1. \A m \in Methods : c[m].state = IF o.auth[m].state > FAILED
                                            THEN UNSEEN ELSE o.auth[m].state
      BY <2>2, ClearFact
    <3>2. \A m \in Methods : c[m].state = Anew(o.auth[m].state)
      BY <3>1 DEF Anew
    <3> QED
      BY <3>2, MethodFact
  <2> QED
    BY <2>1, <2>2
<1> HIDE DEF n, d, b, n1, d1, b1, w
<1>4. /\ Left(n1, d1, b1, w) <= Left(n, d, b, w)
      /\ Left(Anew(n1), Anew(d1), Anew(b1), w) <= Left(n, d, b, w)
  BY <1>1, <1>2, LeftFailed
<1>5. LoginsLeft(c, u) <= LoginsLeft(a, u)
  BY <1>3, <1>4 DEF LoginsLeft, n, d, b, w
<1>6. Usual(c) /\ c["NTLM"].state <= UNSEEN
  BY <1>1, <1>2, <1>3 DEF Usual, Anew
<1> QED
  BY <1>5, <1>6
-----------------------------------------------------------------------------
\* The counting invariant, step by step: where nothing is under way with the proxy,
LEMMA IdleLogins ==
  ASSUME StateInv', LoginInv, logins' = logins,
         pc' \in {"redirected", "retry", "send", "server", "done"}
  PROVE  LoginInv'
<1>1. Cleared(proxy_auth') /\ proxy_auth' \in AuthFcn
  BY DEF StateInv, ProxyInv, TypeOK, AuthStates, AuthFcn, AuthRec
<1>2. Usual(proxy_auth')
  BY <1>1, ThreeStates, MethodFact DEF Usual, Cleared
<1> QED
  BY <1>2 DEF LoginInv

\* where the count of what is left does not grow,
LEMMA CountedLogins ==
  ASSUME LoginInv, ProxyPass, pc \in {"dial", "connect", "proxy"}, logins' = logins,
         proxy_auth \in AuthFcn, proxy_auth' \in AuthFcn, Usual(proxy_auth'),
         LoginsLeft(proxy_auth', used') <= LoginsLeft(proxy_auth, used),
         Answered(proxy_auth)' => proxy_auth'["NTLM"].challenge = "NULL"
  PROVE  LoginInv'
<1>1. LoginsLeft(proxy_auth', used') \in Int /\ LoginsLeft(proxy_auth, used) \in Int
  BY CountFact
<1>2. logins + LoginsLeft(proxy_auth, used) <= 7 /\ logins \in 0..7
  BY DEF LoginInv
<1>3. logins' + LoginsLeft(proxy_auth', used') <= 7
  BY <1>1, <1>2
<1> QED
  BY <1>2, <1>3 DEF LoginInv

\* and where there is no password.
LEMMA NoPassword ==
  ASSUME LoginInv, ~ProxyPass, logins' \in {logins, 0}
  PROVE  LoginInv'
BY DEF LoginInv

LEMMA RetryLogins ==
  ASSUME StateInv, StateInv', LoginInv, Retry
  PROVE  LoginInv'
<1>1. /\ proxy_auth \in AuthFcn /\ proxy_auth' = proxy_auth /\ Cleared(proxy_auth)
      /\ logins' = 0
  BY StatesFact DEF StateInv, ProxyInv, Retry
<1>2. /\ proxy_auth'["NTLM"].state <= UNSEEN /\ proxy_auth'["Digest"].state <= UNSEEN
      /\ proxy_auth'["Basic"].state <= UNSEEN
      /\ proxy_auth'["NTLM"].challenge = "NULL"
  BY <1>1, MethodFact DEF Cleared
<1>3. Usual(proxy_auth')
  BY <1>1, <1>2, ThreeStates DEF Usual
<1>4. LoginsLeft(proxy_auth', used') \in 0..9 /\ LoginsLeft(proxy_auth', used') <= 7
  BY <1>1, <1>2, ThreeStates, LeftBounds DEF LoginsLeft
<1>5. logins' + LoginsLeft(proxy_auth', used') <= 7
  BY <1>1, <1>4
<1> QED
  BY <1>1, <1>2, <1>3, <1>5 DEF LoginInv

LEMMA DialLogins ==
  ASSUME StateInv, StateInv', LoginInv, Dial
  PROVE  LoginInv'
<1>0. pc = "dial" /\ logins' = logins /\ proxy_auth \in AuthFcn
  BY StatesFact DEF StateInv, Dial
<1>1. CASE DialFailed
  <2>1. pc' = "done"
    BY <1>1 DEF DialFailed, Out
  <2> QED
    BY <1>0, <2>1, IdleLogins
<1>2. CASE pc' = "connect" /\ UNCHANGED <<proxy_auth, used>>
  BY <1>0, <1>2 DEF LoginInv, Answered
<1> QED
  BY <1>1, <1>2 DEF Dial

LEMMA ConnectLogins ==
  ASSUME StateInv, StateInv', LoginInv, ProxyConnect
  PROVE  LoginInv'
<1>0. /\ pc = "connect" /\ proxy_auth \in AuthFcn /\ http_auth \in AuthFcn
      /\ proxy_auth' \in AuthFcn /\ proxy_close_during_auth \in BOOLEAN
  BY StatesFact DEF StateInv, TypeOK, AuthStates, AuthFcn, AuthRec, ProxyConnect
<1>1. CASE ~ProxyPass
  <2>1. logins' = logins
    BY <1>1 DEF ProxyConnect
  <2> QED
    BY <1>1, <2>1, NoPassword
<1>2. CASE ProxyPass
  <2>0. /\ Usual(proxy_auth) /\ logins + LoginsLeft(proxy_auth, used) <= 7
        /\ logins \in 0..7
        /\ proxy_auth["NTLM"].state = NTLM_MANUAL_REQ /\ used # "NULL"
             => proxy_auth["NTLM"].challenge = "NULL"
    BY <1>0, <1>2 DEF LoginInv, Answered
  <2>1. CASE pc' = "proxy" /\ UNCHANGED <<proxy_auth, used, logins>>
    BY <1>0, <2>1 DEF LoginInv
  <2>2. CASE /\ ProxyFailed(proxy_auth, proxy_close_during_auth, FALSE)
             /\ logins' = logins
    <3>1. pc' = "done"
      BY <2>2 DEF ProxyFailed, Out
    <3> QED
      BY <2>2, <3>1, IdleLogins
  <2>3. CASE pc' = "spin" /\ UNCHANGED <<proxy_auth, used, logins>>
    BY <2>0, <2>3 DEF LoginInv
  <2>4. ASSUME NEW o \in gen_authorization_hdr(proxy_auth, ProxyPass), o.ret = "0",
               proxy_auth' = clear_auth_states(o.auth, FALSE),
               used' = o.used, logins' = logins + 1, pc' = "proxy"
        PROVE  LoginInv'
    <3>1. o.auth \in AuthFcn
      BY <1>0, HeaderKeeps, RequestAssumption DEF Onwards
    <3>2. Sends(proxy_auth, o)
      BY <1>0, <1>2, <2>0, <2>4, HeaderTries, RequestAssumption
    <3>3. /\ Usual(proxy_auth')
          /\ LoginsLeft(proxy_auth', used') + 1 <= LoginsLeft(proxy_auth, used)
      BY <1>0, <2>0, <2>4, <3>1, <3>2, SentFact
    <3>4. LoginsLeft(proxy_auth', used') \in 0..9 /\ LoginsLeft(proxy_auth, used) \in 0..9
      BY <1>0, CountFact
    <3>5. logins' \in 0..7 /\ logins' + LoginsLeft(proxy_auth', used') <= 7
      <4> DEFINE p == LoginsLeft(proxy_auth, used)
                 q == LoginsLeft(proxy_auth', used')
      <4>1. /\ p \in 0..9 /\ q \in 0..9 /\ q + 1 <= p
            /\ logins + p <= 7 /\ logins \in 0..7 /\ logins' = logins + 1
        BY <2>0, <2>4, <3>3, <3>4
      <4> HIDE DEF p, q
      <4>2. logins' \in 0..7 /\ logins' + q <= 7
        BY <4>1
      <4> QED
        BY <4>2 DEF q
    <3> QED
      BY <1>2, <2>4, <3>3, <3>5 DEF LoginInv
  <2>5. ASSUME NEW o \in gen_authorization_hdr(proxy_auth, ProxyPass),
               NEW close \in BOOLEAN, ProxyFailed(o.auth, close, o.ret = "EAGAIN"),
               UNCHANGED <<logins, used>>
        PROVE  LoginInv'
    <3>1. CASE o.ret # "EAGAIN"
      <4>1. pc' = "done"
        BY <2>5, <3>1 DEF ProxyFailed, Out
      <4> QED
        BY <2>5, <4>1, IdleLogins
    <3>2. CASE o.ret = "EAGAIN"
      <4>1. o.auth \in AuthFcn /\ Fails(proxy_auth, o)
        BY <1>0, <1>2, <2>0, <3>2, HeaderKeeps, HeaderTries, RequestAssumption DEF Onwards
      <4>2. proxy_auth' \in {o.auth, clear_auth_states(o.auth, TRUE)}
        BY <2>5, <3>2 DEF ProxyFailed
      <4>3. /\ Usual(proxy_auth') /\ proxy_auth'["NTLM"].state <= UNSEEN
            /\ LoginsLeft(proxy_auth', used) <= LoginsLeft(proxy_auth, used)
        BY <1>0, <2>0, <4>1, <4>2, FailedFact
      <4>4. ~Answered(proxy_auth)'
        BY <4>3 DEF Answered
      <4> QED
        BY <1>0, <1>2, <2>5, <4>3, <4>4, CountedLogins
    <3> QED
      BY <3>1, <3>2
  <2>6. CASE ~proxy_tries_auth
    BY <2>1, <2>2, <2>6 DEF ProxyConnect
  <2>7. CASE proxy_tries_auth
    <3>1. PICK o \in gen_authorization_hdr(proxy_auth, ProxyPass) :
            \/ /\ o.ret = "0"
               /\ proxy_auth' = clear_auth_states(o.auth, FALSE)
               /\ used' = o.used /\ logins' = logins + 1 /\ pc' = "proxy"
            \/ pc' = "spin" /\ UNCHANGED <<proxy_auth, used, logins>>
            \/ /\ ProxyFailed(o.auth, proxy_close_during_auth \/ o.close, o.ret = "EAGAIN")
               /\ UNCHANGED <<logins, used>>
      BY <1>2, <2>7 DEF ProxyConnect
    <3>2. (proxy_close_during_auth \/ o.close) \in BOOLEAN
      BY Zenon
    <3> QED
      BY <2>3, <2>4, <2>5, <3>1, <3>2
  <2> QED
    BY <2>6, <2>7
<1> QED
  BY <1>1, <1>2

LEMMA ResponseLogins ==
  ASSUME StateInv, StateInv', LoginInv, ~NtlmAgain, ProxyResponse
  PROVE  LoginInv'
<1>0. /\ pc = "proxy" /\ proxy_auth \in AuthFcn /\ proxy_auth' \in AuthFcn
      /\ Silent(proxy_auth) /\ UNCHANGED <<used, logins>>
  BY StatesFact
     DEF StateInv, ProxyInv, TypeOK, AuthStates, AuthFcn, AuthRec, ProxyResponse
<1>1. CASE ~ProxyPass
  BY <1>0, <1>1, NoPassword
<1>2. CASE pc' \in {"send", "done"}
  BY <1>0, <1>2, IdleLogins
<1>3. CASE ProxyPass /\ proxy_auth' \in Read(proxy_auth, ProxyOffers)
  <2>1. /\ \A m \in Methods : Nudged(proxy_auth[m].state, proxy_auth'[m].state)
        /\ \A m \in Methods : \/ proxy_auth'[m].state = proxy_auth[m].state
                              \/ proxy_auth'[m].state = AVAILABLE
        /\ Answered(proxy_auth) => proxy_auth'["NTLM"].challenge = "NULL"
    BY <1>0, <1>3, ReadFact, RequestAssumption DEF Nudged
  <2>2. Answered(proxy_auth)' => proxy_auth'["NTLM"].challenge = "NULL"
    BY <1>0, <2>1, MethodFact DEF Answered
  <2>3. Usual(proxy_auth)
    BY <1>3 DEF LoginInv
  <2>4. Usual(proxy_auth') /\ LoginsLeft(proxy_auth', used) = LoginsLeft(proxy_auth, used)
    BY <1>0, <2>1, <2>3, NudgedFact
  <2>5. LoginsLeft(proxy_auth, used) \in 0..9
    BY <1>0, CountFact
  <2>6. LoginsLeft(proxy_auth', used') <= LoginsLeft(proxy_auth, used)
    BY <1>0, <2>4, <2>5
  <2> QED
    BY <1>0, <1>3, <2>2, <2>4, <2>6, CountedLogins
<1>4. pc' \in {"send", "done"} \/ proxy_auth' \in Read(proxy_auth, ProxyOffers)
  BY DEF ProxyResponse, ProxyFailed, Out
<1> QED
  BY <1>1, <1>2, <1>3, <1>4
-----------------------------------------------------------------------------
LEMMA InitLogins == Init => LoginInv
<1> SUFFICES ASSUME Init PROVE LoginInv
  OBVIOUS
<1>1. proxy_auth \in AuthFcn /\ Cleared(proxy_auth)
  BY InitStates
<1>2. Usual(proxy_auth)
  BY <1>1, ThreeStates, MethodFact DEF Usual, Cleared
<1> QED
  BY <1>2 DEF Init, LoginInv

LEMMA NextLogins ==
  ASSUME ~NtlmAgain
  PROVE  StateInv /\ StateInv' /\ LoginInv /\ [Next]_vars => LoginInv'
<1> SUFFICES ASSUME StateInv, StateInv', LoginInv, [Next]_vars PROVE LoginInv'
  OBVIOUS
<1>1. CASE UNCHANGED vars
  BY <1>1 DEF LoginInv, Answered, vars, proxyVars
<1>2. CASE Request
  <2>1. pc' \in {"retry", "done"} /\ logins' = logins
    BY <1>2 DEF Request, Out, proxyVars
  <2> QED
    BY <2>1, IdleLogins
<1>3. CASE Retry
  BY <1>3, RetryLogins
<1>4. CASE Send
  <2>1. pc' \in {"server", "retry", "done"} /\ logins' = logins
    BY <1>4 DEF Send, Out, proxyVars
  <2> QED
    BY <2>1, IdleLogins
<1>5. CASE Dial
  BY <1>5, DialLogins
<1>6. CASE ProxyConnect
  BY <1>6, ConnectLogins
<1>7. CASE ProxyResponse
  BY <1>7, ResponseLogins
<1>8. CASE ServerResponse
  <2>1. pc' \in {"redirected", "done"} /\ logins' = logins
    BY <1>8 DEF ServerResponse, proxyVars
  <2> QED
    BY <2>1, IdleLogins
<1> QED
  BY <1>1, <1>2, <1>3, <1>4, <1>5, <1>6, <1>7, <1>8 DEF Next, Done

\* While one connection is made the password goes to a proxy that keeps to NTLM at most
\* seven times, whatever else it offers and whenever it closes the connection
\* (the loops of connect_https_socket and process_http_proxy).
THEOREM FewLogins ==
  ASSUME ~NtlmAgain
  PROVE  Spec => []LoginLimit
<1>1. Init => LoginInv
  BY InitLogins
<1>2. StateInv /\ StateInv' /\ LoginInv /\ [Next]_vars => LoginInv'
  BY NextLogins
<1>3. LoginInv => LoginLimit
  BY DEF LoginInv, LoginLimit
<1> QED
  BY <1>1, <1>2, <1>3, StateInvariance, PTL DEF Spec
=============================================================================
