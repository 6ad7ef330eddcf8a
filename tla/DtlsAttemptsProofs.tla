------------------------- MODULE DtlsAttemptsProofs -------------------------
(***************************************************************************)
(* The properties of module DtlsAttempts hold for every handshake time,    *)
(* attempt period and rekey time, and whatever the CSTP timers do: TLAPS   *)
(* proofs.                                                                 *)
(***************************************************************************)
EXTENDS DtlsAttempts, TLAPS

\* Type correctness, in the two parts the provers want
Labels ==
  /\ pc \in {"pass", "select"}
  /\ dtls_state \in States
  /\ rekey_method \in RekeyMethods
  /\ need_reconnect \in BOOLEAN /\ tun_up \in BOOLEAN

Times ==
  /\ period \in {0, Period}
  /\ started \in 0..Long /\ rekeyed \in 0..Long /\ keyed \in 0..Long /\ tried \in 0..Long
  /\ timeout \in 0..Long

\* What may still be slept before the loop looks again
Left == IF pc = "select" THEN timeout ELSE 0

\* The properties hold until the loop looks again.
TunLeft == dtls_state = "CONNECTING" /\ ~tun_up => started + Left <= Handshake
HandshakeLeft == dtls_state = "CONNECTING" => started + Left < Handshake + SslWake
SleepLeft == dtls_state = "SLEEPING" => tried + Left <= Max2(Period, SslWake)
KeyLeft ==
  dtls_state = "CONNECTED" /\ rekey_method = "SSL" => keyed + Left <= Max2(Rekey, SslWake)

\* The time the code compares with the period is not younger than the last attempt,
\* nor the last rekey younger than the keys.
Ages ==
  /\ dtls_state = "SLEEPING" => tried <= started
  /\ dtls_state = "CONNECTED" /\ rekey_method = "SSL" => keyed <= rekeyed

Bounds == TunLeft /\ HandshakeLeft /\ SleepLeft /\ KeyLeft /\ Ages

IInv == Labels /\ Times /\ Bounds
-----------------------------------------------------------------------------
\* Long is a time beyond all others.
LEMMA LongFact ==
  /\ Long \in Nat /\ Handshake < Long /\ Period < Long /\ Rekey < Long /\ SslWake < Long
  /\ 1 < Long
BY AttemptsAssumption DEF Long, Max2

\* What connect_dtls_socket may do
LEMMA ConnectOutcome ==
  ASSUME NEW d, NEW o \in connect_dtls_socket(d)
  PROVE  \/ /\ o.ret = "EINVAL" /\ o.dtls.state = d.state
            /\ o.dtls.started = d.started /\ o.dtls.period \in {0, d.period}
         \/ /\ o.ret = "EINVAL" /\ o.dtls.state = "SLEEPING"
            /\ o.dtls.started = 0 /\ o.dtls.period = d.period
         \/ /\ o.ret = "0" /\ o.dtls.state = "CONNECTING"
            /\ o.dtls.started = 0 /\ o.dtls.period = d.period
<1>1. CASE \E p \in {0, d.period} : o = Outcome(Dtls(d.state, p, d.started), "EINVAL")
  BY <1>1 DEF Outcome, Dtls
<1>2. CASE o = Outcome(Dtls("SLEEPING", d.period, 0), "EINVAL")
  BY <1>2 DEF Outcome, Dtls
<1>3. CASE o = Outcome(Dtls("CONNECTING", d.period, 0), "0")
  BY <1>3 DEF Outcome, Dtls
<1> QED
  BY <1>1, <1>2, <1>3, Zenon DEF connect_dtls_socket

\* What dtls_try_handshake may do
LEMMA HandshakeOutcome ==
  ASSUME NEW d, NEW o \in dtls_try_handshake(d)
  PROVE  \/ /\ o.ret = "0" /\ o.dtls.state = "CONNECTED"
            /\ o.dtls.started = d.started /\ o.dtls.period = d.period
         \/ /\ o.ret = "0" /\ o.dtls.state = "CONNECTING"
            /\ o.dtls.started = d.started /\ o.dtls.period = d.period
            /\ d.started < Handshake
         \/ /\ o.ret = "EIO" /\ o.dtls.state = "DISABLED"
            /\ o.dtls.started = d.started /\ o.dtls.period = 0
         \/ /\ o.ret = "EINVAL" /\ o.dtls.state = "SLEEPING"
            /\ o.dtls.started = 0 /\ o.dtls.period = d.period
<1>1. CASE o = Outcome(Dtls("CONNECTED", d.period, d.started), "0")
  BY <1>1 DEF Outcome, Dtls
<1>2. CASE o = Outcome(Dtls("DISABLED", 0, d.started), "EIO")
  BY <1>2 DEF Outcome, Dtls
<1>3. CASE o = Outcome(Dtls("SLEEPING", d.period, 0), "EINVAL")
  BY <1>3 DEF Outcome, Dtls
<1>4. CASE /\ d.started < Handshake
           /\ o = Outcome(Dtls("CONNECTING", d.period, d.started), "0")
  BY <1>4 DEF Outcome, Dtls
<1> QED
  BY <1>1, <1>2, <1>3, <1>4, Zenon DEF dtls_try_handshake

\* dtls_mainloop begins with the state, the period and the time it has.
LEMMA DtlsFields ==
  /\ dtls.state = dtls_state /\ dtls.period = period /\ dtls.started = started
  /\ dtls_close.state = "SLEEPING" /\ dtls_close.period = period
  /\ dtls_close.started = started
BY DEF dtls, dtls_close, Dtls

\* The timeout left after a pass with nothing to do
LEMMA RestFact ==
  ASSUME NEW t \in Nat, t >= 1, t <= Long, Rest(t)
  PROVE  /\ pc' \in {"pass", "select"} /\ timeout' \in 0..Long
         /\ pc' = "select" => timeout' <= t /\ timeout' <= SslWake
BY LongFact, AttemptsAssumption DEF Rest, Again

LEMMA LoopTimeoutFact ==
  /\ LoopTimeout \in Nat /\ LoopTimeout >= 1 /\ LoopTimeout <= Long
  /\ ~tun_up => LoopTimeout = 1
BY LongFact DEF LoopTimeout
-----------------------------------------------------------------------------
\* What connect_dtls_socket makes of the state, begun in state d
LEMMA BecomeConnect ==
  ASSUME Times, NEW d, d.state \in States \ {"CONNECTING", "CONNECTED"},
         d.period = period, d.started = started,
         NEW o \in connect_dtls_socket(d), Become(o)
  PROVE  /\ dtls_state' \in {d.state, "SLEEPING", "CONNECTING"}
         /\ dtls_state' = "SLEEPING" => tried' = 0 /\ o.ret # "0"
         /\ dtls_state' = "CONNECTING" => started' = 0 /\ o.ret = "0"
         /\ period' \in {0, Period} /\ started' \in {0, started}
         /\ tried' \in {0, tried} /\ rekeyed' = rekeyed /\ keyed' = keyed
<1> USE DEF Become
<1>1. CASE /\ o.ret = "EINVAL" /\ o.dtls.state = d.state
           /\ o.dtls.started = d.started /\ o.dtls.period \in {0, d.period}
  BY <1>1, Zenon DEF Times, States
<1>2. CASE /\ o.ret = "EINVAL" /\ o.dtls.state = "SLEEPING"
           /\ o.dtls.started = 0 /\ o.dtls.period = d.period
  BY <1>2, Zenon DEF Times
<1>3. CASE /\ o.ret = "0" /\ o.dtls.state = "CONNECTING"
           /\ o.dtls.started = 0 /\ o.dtls.period = d.period
  BY <1>3, Zenon DEF Times
<1> QED
  BY <1>1, <1>2, <1>3, ConnectOutcome

\* What dtls_try_handshake makes of it
LEMMA BecomeHandshake ==
  ASSUME Times, NEW d, d.period = period, d.started = started,
         NEW o \in dtls_try_handshake(d), Become(o)
  PROVE  /\ dtls_state' \in States
         /\ dtls_state' = "SLEEPING" => tried' = 0
         /\ dtls_state' = "CONNECTING" => started' = started /\ started < Handshake
         /\ dtls_state' = "CONNECTED" => rekeyed' = 0 /\ keyed' = 0
         /\ period' \in {0, Period} /\ started' \in {0, started}
         /\ tried' \in {0, tried}
         /\ rekeyed' \in {0, rekeyed} /\ keyed' \in {0, keyed}
<1> USE DEF Become, States
<1>1. CASE /\ o.ret = "0" /\ o.dtls.state = "CONNECTED"
           /\ o.dtls.started = d.started /\ o.dtls.period = d.period
  BY <1>1, Zenon DEF Times
<1>2. CASE /\ o.ret = "0" /\ o.dtls.state = "CONNECTING"
           /\ o.dtls.started = d.started /\ o.dtls.period = d.period
           /\ d.started < Handshake
  BY <1>2, Zenon DEF Times
<1>3. CASE /\ o.ret = "EIO" /\ o.dtls.state = "DISABLED"
           /\ o.dtls.started = d.started /\ o.dtls.period = 0
  BY <1>3, Zenon DEF Times
<1>4. CASE /\ o.ret = "EINVAL" /\ o.dtls.state = "SLEEPING"
           /\ o.dtls.started = 0 /\ o.dtls.period = d.period
  BY <1>4, Zenon DEF Times
<1> QED
  BY <1>1, <1>2, <1>3, <1>4, HandshakeOutcome

\* tun never goes down again, and comes up unless DTLS is connecting.
LEMMA TunFact ==
  ASSUME Labels, setup_tun
  PROVE  /\ tun_up' \in BOOLEAN
         /\ ~tun_up' => ~tun_up /\ dtls_state = "CONNECTING"
BY Zenon DEF Labels, setup_tun
-----------------------------------------------------------------------------
\* The invariant holds when the CSTP connection was made.
LEMMA InitInv == Init => IInv
<1> SUFFICES ASSUME Init PROVE IInv
  OBVIOUS
<1>1. Labels
  BY Zenon DEF Init, Labels, States
<1>2. Times
  BY LongFact DEF Init, Times
<1>3. Bounds
  BY LongFact, AttemptsAssumption
  DEF Init, Bounds, TunLeft, HandshakeLeft, SleepLeft, KeyLeft, Ages, Left, Max2
<1> QED
  BY <1>1, <1>2, <1>3 DEF IInv

\* Every action keeps the variables' types.
LEMMA LabelsStep == IInv /\ Next => Labels'
<1> SUFFICES ASSUME IInv, Next PROVE Labels'
  OBVIOUS
<1>0. rekey_method' \in RekeyMethods
  BY DEF IInv, Labels, Next
<1> SUFFICES /\ pc' \in {"pass", "select"} /\ dtls_state' \in States
             /\ need_reconnect' \in BOOLEAN /\ tun_up' \in BOOLEAN
  BY <1>0 DEF Labels
<1> USE DEF IInv
<1>1. CASE Disabled
  BY <1>1, TunFact, Zenon DEF Disabled, Rest, Again, Labels
<1>2. CASE NeedReconnect
  <2> PICK o \in connect_dtls_socket(dtls_close) : Become(o)
    BY <1>2 DEF NeedReconnect
  <2>1. dtls_state' \in States
    BY BecomeConnect, DtlsFields, Zenon DEF States
  <2> QED
    BY <1>2, <2>1, TunFact, Zenon DEF NeedReconnect, Again
<1>3. CASE Connecting
  <2> PICK o \in dtls_try_handshake(dtls) : Become(o)
    BY <1>3 DEF Connecting
  <2>1. dtls_state' \in States
    BY BecomeHandshake, DtlsFields, Zenon
  <2> QED
    BY <1>3, <2>1, TunFact, Zenon DEF Connecting, Rest, Again, Labels
<1>4. CASE Sleeping
  <2>1. dtls_state' \in States
    <3>1. CASE \E o \in connect_dtls_socket(dtls) : Become(o)
      <4> PICK o \in connect_dtls_socket(dtls) : Become(o)
        BY <3>1
      <4> QED
        BY <1>4, BecomeConnect, DtlsFields, Zenon DEF Sleeping, States
    <3>2. CASE dtls_state' = dtls_state
      BY <3>2 DEF Labels
    <3> QED
      BY <1>4, <3>1, <3>2, Zenon DEF Sleeping
  <2> QED
    BY <1>4, <2>1, TunFact, Zenon DEF Sleeping, Rest, Again, Labels
<1>5. CASE ConnectedRekey
  <2>1. dtls_state' \in States
    <3>1. CASE rekey_method = "SSL"
      <4> DEFINE d == Dtls("CONNECTING", period, 0)
      <4> PICK o \in dtls_try_handshake(d) :
             \/ o.ret = "0" /\ dtls_state' = o.dtls.state
             \/ o.ret # "0" /\ \E c \in connect_dtls_socket(o.dtls) : dtls_state' = c.dtls.state
        BY <1>5, <3>1 DEF ConnectedRekey
      <4>1. o.dtls.state \in States
        BY HandshakeOutcome, Zenon DEF States
      <4>2. CASE o.ret = "0" /\ dtls_state' = o.dtls.state
        BY <4>1, <4>2
      <4>3. CASE \E c \in connect_dtls_socket(o.dtls) : dtls_state' = c.dtls.state
        BY <4>1, <4>3, ConnectOutcome, Zenon DEF States
      <4> QED
        BY <4>2, <4>3
    <3>2. CASE dtls_state' = dtls_state
      BY <3>2 DEF Labels
    <3> QED
      BY <1>5, <3>1, <3>2, Zenon DEF ConnectedRekey
  <2>2. pc' \in {"pass", "select"}
    BY <1>5, Zenon DEF ConnectedRekey, Rest, Again
  <2> QED
    BY <1>5, <2>1, <2>2, TunFact, Zenon DEF ConnectedRekey, Labels
<1>6. CASE Connected
  <2>1. dtls_state' \in States
    <3>1. CASE \E o \in connect_dtls_socket(dtls_close) : Become(o)
      <4> PICK o \in connect_dtls_socket(dtls_close) : Become(o)
        BY <3>1
      <4> QED
        BY BecomeConnect, DtlsFields, Zenon DEF States
    <3>2. CASE dtls_state' = dtls_state
      BY <3>2 DEF Labels
    <3> QED
      BY <1>6, <3>1, <3>2, Zenon DEF Connected
  <2>2. pc' \in {"pass", "select"}
    BY <1>6, Zenon DEF Connected, Rest, Again
  <2> QED
    BY <1>6, <2>1, <2>2, TunFact, Zenon DEF Connected, Labels
<1>7. CASE CstpReconnected \/ Tick \/ Wake
  BY <1>7, Zenon DEF CstpReconnected, Tick, Wake, Labels
<1>8. CASE Pause
  BY <1>8, Zenon DEF Pause, Labels, States
<1> QED
  BY <1>1, <1>2, <1>3, <1>4, <1>5, <1>6, <1>7, <1>8 DEF Next

\* The timer of every action: facts about the largest waits
LEMMA MaxFact ==
  /\ Max2(Period, SslWake) \in Nat /\ Max2(Rekey, SslWake) \in Nat
  /\ Period <= Max2(Period, SslWake) /\ SslWake <= Max2(Period, SslWake)
  /\ Rekey <= Max2(Rekey, SslWake) /\ SslWake <= Max2(Rekey, SslWake)
BY AttemptsAssumption DEF Max2

\* and about what is left of the one that a step begins
LEMMA LeftFact ==
  /\ (pc' = "pass") => Left' = 0
  /\ (pc' = "select") => Left' = timeout'
BY DEF Left

\* All times stay in range, and the bounds hold until the next look.
LEMMA TimesStep == IInv /\ Next => Times' /\ Bounds'
<1> SUFFICES ASSUME IInv, Next PROVE Times' /\ Bounds'
  OBVIOUS
<1>0. rekey_method' = rekey_method
  BY DEF Next
<1> USE <1>0, LongFact, AttemptsAssumption, MaxFact, LeftFact
    DEF IInv, Times, Bounds, TunLeft, HandshakeLeft, SleepLeft, KeyLeft, Ages
<1>1. CASE Disabled
  <2>1. Rest(LoopTimeout) /\ dtls_state' = "DISABLED"
    BY <1>1 DEF Disabled
  <2> QED
    BY <1>1, <2>1, RestFact, LoopTimeoutFact DEF Disabled
<1>2. CASE NeedReconnect
  <2> PICK o \in connect_dtls_socket(dtls_close) : Become(o)
    BY <1>2 DEF NeedReconnect
  <2>1. /\ dtls_state' \in {"SLEEPING", "CONNECTING"}
        /\ dtls_state' = "SLEEPING" => tried' = 0
        /\ dtls_state' = "CONNECTING" => started' = 0
        /\ period' \in {0, Period} /\ started' \in {0, started}
        /\ tried' \in {0, tried} /\ rekeyed' = rekeyed /\ keyed' = keyed
    BY BecomeConnect, DtlsFields, Zenon DEF States
  <2>2. pc' = "pass" /\ timeout' = Long
    BY <1>2 DEF NeedReconnect, Again
  <2>3. Times' /\ Left' = 0
    BY <2>1, <2>2
  <2>4. CASE dtls_state' = "SLEEPING"
    BY <2>1, <2>3, <2>4
  <2>5. CASE dtls_state' = "CONNECTING"
    BY <2>1, <2>3, <2>5
  <2> QED
    BY <2>1, <2>4, <2>5
<1>3. CASE Connecting
  <2> PICK o \in dtls_try_handshake(dtls) : Become(o)
    BY <1>3 DEF Connecting
  <2>1. /\ dtls_state' \in States
        /\ dtls_state' = "SLEEPING" => tried' = 0
        /\ dtls_state' = "CONNECTING" => started' = started /\ started < Handshake
        /\ dtls_state' = "CONNECTED" => rekeyed' = 0 /\ keyed' = 0
        /\ period' \in {0, Period} /\ started' \in {0, started}
        /\ tried' \in {0, tried}
        /\ rekeyed' \in {0, rekeyed} /\ keyed' \in {0, keyed}
    BY BecomeHandshake, DtlsFields
  <2>2. /\ pc' \in {"pass", "select"} /\ timeout' \in 0..Long
        /\ pc' = "select" => timeout' <= LoopTimeout /\ timeout' <= SslWake
    BY <1>3, RestFact, LoopTimeoutFact DEF Connecting
  <2>3. ~tun_up' => ~tun_up
    BY <1>3, TunFact DEF Connecting
  <2>4. Times'
    BY <2>1, <2>2
  <2> QED
    BY <2>1, <2>2, <2>3, <2>4, LoopTimeoutFact
<1>4. CASE Sleeping
  <2>0. tun_up'
    BY <1>4, Zenon DEF Sleeping, setup_tun
  <2>1. CASE \E o \in connect_dtls_socket(dtls) :
               Become(o) /\ Rest(IF o.ret = "0" THEN LoopTimeout ELSE 1)
    <3> PICK o \in connect_dtls_socket(dtls) :
               Become(o) /\ Rest(IF o.ret = "0" THEN LoopTimeout ELSE 1)
      BY <2>1
    <3>1. /\ dtls_state' \in {"SLEEPING", "CONNECTING"}
          /\ dtls_state' = "SLEEPING" => tried' = 0
          /\ dtls_state' = "CONNECTING" => started' = 0
          /\ period' \in {0, Period} /\ started' \in {0, started}
          /\ tried' \in {0, tried} /\ rekeyed' = rekeyed /\ keyed' = keyed
      BY <1>4, BecomeConnect, DtlsFields, Zenon DEF Sleeping, States
    <3>2. /\ pc' \in {"pass", "select"} /\ timeout' \in 0..Long
          /\ pc' = "select" => timeout' <= SslWake
      BY RestFact, LoopTimeoutFact
    <3>3. Times'
      BY <3>1, <3>2
    <3> QED
      BY <2>0, <3>1, <3>2, <3>3
  <2>2. CASE /\ period > started
             /\ Rest(SleepUntil(period - started))
             /\ UNCHANGED <<dtls_state, period, started, rekeyed, keyed, tried>>
    <3>1. /\ SleepUntil(period - started) \in Nat
          /\ SleepUntil(period - started) >= 1
          /\ SleepUntil(period - started) <= period - started
          /\ SleepUntil(period - started) <= Long
      BY <2>2, LoopTimeoutFact DEF SleepUntil
    <3>2. /\ pc' \in {"pass", "select"} /\ timeout' \in 0..Long
          /\ pc' = "select" => timeout' <= period - started
      BY <2>2, <3>1, RestFact
    <3>3. Times' /\ dtls_state' = "SLEEPING"
      BY <1>4, <2>2, <3>2 DEF Sleeping
    <3> QED
      BY <2>2, <3>2, <3>3
  <2> QED
    BY <1>4, <2>1, <2>2, Zenon DEF Sleeping
<1>5. CASE ConnectedRekey
  <2>0. tun_up'
    BY <1>5, Zenon DEF ConnectedRekey, setup_tun
  <2>1. CASE rekey_method = "SSL"
    <3> DEFINE d == Dtls("CONNECTING", period, 0)
    <3>0. d.period = period /\ d.started = 0
      BY DEF Dtls
    <3> HIDE DEF d
    <3> PICK o \in dtls_try_handshake(d) :
           \/ /\ o.ret = "0"
              /\ dtls_state' = o.dtls.state
              /\ started' = o.dtls.started
              /\ keyed' = IF o.dtls.state = "CONNECTED" THEN 0 ELSE keyed
              /\ UNCHANGED <<period, tried>>
              /\ Again
           \/ /\ o.ret # "0"
              /\ \E c \in connect_dtls_socket(o.dtls) :
                   /\ dtls_state' = c.dtls.state
                   /\ period' = c.dtls.period
                   /\ started' = c.dtls.started
                   /\ IF c.ret = "0" THEN Rest(LoopTimeout) ELSE Again
              /\ tried' = 0
              /\ UNCHANGED keyed
      BY <1>5, <2>1 DEF ConnectedRekey, d
    <3>1. rekeyed' = 0
      BY <1>5, <2>1 DEF ConnectedRekey
    <3>2. CASE /\ o.ret = "0"
               /\ dtls_state' = o.dtls.state
               /\ started' = o.dtls.started
               /\ keyed' = IF o.dtls.state = "CONNECTED" THEN 0 ELSE keyed
               /\ UNCHANGED <<period, tried>>
               /\ Again
      <4>1. /\ dtls_state' \in {"CONNECTED", "CONNECTING"} /\ started' = 0
            /\ keyed' \in {0, keyed} /\ (dtls_state' = "CONNECTED" => keyed' = 0)
        BY <3>0, <3>2, HandshakeOutcome
      <4> QED
        BY <2>0, <3>1, <3>2, <4>1 DEF Again
    <3>3. CASE /\ o.ret # "0"
               /\ \E c \in connect_dtls_socket(o.dtls) :
                    /\ dtls_state' = c.dtls.state
                    /\ period' = c.dtls.period
                    /\ started' = c.dtls.started
                    /\ IF c.ret = "0" THEN Rest(LoopTimeout) ELSE Again
               /\ tried' = 0
               /\ UNCHANGED keyed
      <4> PICK c \in connect_dtls_socket(o.dtls) :
             /\ dtls_state' = c.dtls.state
             /\ period' = c.dtls.period
             /\ started' = c.dtls.started
             /\ IF c.ret = "0" THEN Rest(LoopTimeout) ELSE Again
        BY <3>3
      <4>1. /\ o.dtls.state \in {"DISABLED", "SLEEPING"} /\ o.dtls.started = 0
            /\ o.dtls.period \in {0, period}
        BY <3>0, <3>3, HandshakeOutcome
      <4>2. /\ c.dtls.state \in {"DISABLED", "SLEEPING", "CONNECTING"} /\ c.dtls.started = 0
            /\ c.dtls.period \in {0, period}
        BY <4>1, ConnectOutcome
      <4>3. /\ pc' \in {"pass", "select"} /\ timeout' \in 0..Long
            /\ pc' = "select" => timeout' <= SslWake
        BY RestFact, LoopTimeoutFact DEF Again
      <4>4. /\ dtls_state' \in {"DISABLED", "SLEEPING", "CONNECTING"} /\ started' = 0
            /\ period' \in {0, period} /\ tried' = 0
        BY <3>3, <4>2, Zenon
      <4>5. Times'
        BY <3>1, <3>3, <4>3, <4>4
      <4>6. Left' \in 0..SslWake
        BY <4>3, <4>5
      <4>7. CASE dtls_state' = "SLEEPING"
        BY <4>4, <4>5, <4>6, <4>7
      <4>8. CASE dtls_state' = "CONNECTING"
        <5>1. \A l \in 0..SslWake : 0 + l < Handshake + SslWake
          OBVIOUS
        <5>2. started' + Left' < Handshake + SslWake
          BY <4>4, <4>6, <5>1, Zenon
        <5> QED
          BY <2>0, <4>5, <4>8, <5>2
      <4>9. CASE dtls_state' = "DISABLED"
        BY <4>5, <4>9
      <4> QED
        BY <4>4, <4>7, <4>8, <4>9
    <3> QED
      BY <3>2, <3>3
  <2>2. CASE rekey_method = "TUNNEL"
    BY <1>5, <2>0, <2>2 DEF ConnectedRekey, Again
  <2> QED
    BY <1>5, <2>1, <2>2, Zenon DEF ConnectedRekey
<1>6. CASE Connected
  <2>0. tun_up'
    BY <1>6, Zenon DEF Connected, setup_tun
  <2>1. CASE \E o \in connect_dtls_socket(dtls_close) : Become(o) /\ Again
    <3> PICK o \in connect_dtls_socket(dtls_close) : Become(o) /\ Again
      BY <2>1
    <3>1. /\ dtls_state' \in {"SLEEPING", "CONNECTING"}
          /\ dtls_state' = "SLEEPING" => tried' = 0
          /\ dtls_state' = "CONNECTING" => started' = 0
          /\ period' \in {0, Period} /\ started' \in {0, started}
          /\ tried' \in {0, tried} /\ rekeyed' = rekeyed /\ keyed' = keyed
      BY BecomeConnect, DtlsFields, Zenon DEF States
    <3>2. pc' = "pass" /\ timeout' = Long
      BY DEF Again
    <3>3. Times' /\ Left' = 0
      BY <3>1, <3>2
    <3>4. CASE dtls_state' = "SLEEPING"
      BY <3>1, <3>3, <3>4
    <3>5. CASE dtls_state' = "CONNECTING"
      BY <3>1, <3>3, <3>5
    <3> QED
      BY <3>1, <3>4, <3>5
  <2>2. CASE UNCHANGED <<dtls_state, period, started, rekeyed, keyed, tried>>
    <3> DEFINE due == IF rekey_method = "NONE" THEN Long ELSE Rekey - rekeyed
               t == IF due < LoopTimeout THEN due ELSE LoopTimeout
    <3>1. CASE Rest(t)
      <4>1. t \in Nat /\ t >= 1 /\ t <= Long /\ t <= due
        BY <1>6, LoopTimeoutFact DEF Connected
      <4> HIDE DEF t
      <4>2. /\ pc' \in {"pass", "select"} /\ timeout' \in 0..Long
            /\ pc' = "select" => timeout' <= due
        BY <3>1, <4>1, RestFact
      <4>3. Times' /\ dtls_state' = "CONNECTED"
        BY <1>6, <2>2, <4>2 DEF Connected
      <4> QED
        BY <1>6, <2>2, <4>2, <4>3 DEF Connected
    <3>2. CASE Again
      BY <1>6, <2>0, <2>2, <3>2 DEF Connected, Again
    <3> QED
      BY <1>6, <3>1, <3>2, Zenon DEF Connected
  <2> QED
    BY <1>6, <2>1, <2>2, Zenon DEF Connected
<1>7. CASE CstpReconnected
  BY <1>7 DEF CstpReconnected, Left
<1>8. CASE Pause
  BY <1>8 DEF Pause, Left
<1>9. CASE Tick
  BY <1>9 DEF Tick, Second, Left
<1>10. CASE Wake
  BY <1>10 DEF Wake, Left
<1> QED
  BY <1>1, <1>2, <1>3, <1>4, <1>5, <1>6, <1>7, <1>8, <1>9, <1>10, Zenon DEF Next
-----------------------------------------------------------------------------
\* The invariant, of the specification
LEMMA Invariance == Spec => []IInv
<1>1. IInv /\ [Next]_vars => IInv'
  <2> SUFFICES ASSUME IInv, [Next]_vars PROVE IInv'
    OBVIOUS
  <2>1. CASE Next
    BY <2>1, LabelsStep, TimesStep DEF IInv
  <2>2. CASE UNCHANGED vars
    BY <2>2 DEF vars, IInv, Labels, Times, Bounds, TunLeft, HandshakeLeft, SleepLeft,
                KeyLeft, Ages, Left
  <2> QED
    BY <2>1, <2>2
<1> QED
  BY InitInv, <1>1, PTL DEF Spec
-----------------------------------------------------------------------------
\* Type correctness of the states and times of DTLS
THEOREM TypeCorrect == Spec => []TypeOK
<1>1. IInv => TypeOK
  BY Zenon DEF IInv, Labels, Times, TypeOK
<1> QED
  BY Invariance, <1>1, PTL

\* Whatever times the application and the server choose, the tun device never waits
\* for a handshake that has had its time.
THEOREM TunNeverWaits == Spec => []TunWaits
<1>1. IInv => TunWaits
  BY LongFact, AttemptsAssumption DEF IInv, Times, Bounds, TunLeft, Left, TunWaits
<1> QED
  BY Invariance, <1>1, PTL

\* A handshake is given up at the first CSTP timer after its time.
THEOREM HandshakesEnd == Spec => []HandshakeBounded
<1>1. IInv => HandshakeBounded
  BY LongFact, AttemptsAssumption
  DEF IInv, Times, Bounds, HandshakeLeft, Left, HandshakeBounded
<1> QED
  BY Invariance, <1>1, PTL

\* DTLS is tried again within the attempt period, or at the next CSTP timer.
THEOREM SleepEnds == Spec => []SleepBounded
<1>1. IInv => SleepBounded
  BY LongFact, MaxFact DEF IInv, Times, Bounds, SleepLeft, Left, SleepBounded
<1> QED
  BY Invariance, <1>1, PTL

\* With REKEY_SSL, no keys are used longer than the rekey time or the next CSTP timer.
THEOREM KeysAreFresh == Spec => []KeyAge
<1>1. IInv => KeyAge
  BY LongFact, MaxFact DEF IInv, Times, Bounds, KeyLeft, Left, KeyAge
<1> QED
  BY Invariance, <1>1, PTL
=============================================================================
