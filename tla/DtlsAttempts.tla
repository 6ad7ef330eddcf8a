---------------------------- MODULE DtlsAttempts ----------------------------
(***************************************************************************)
(* When DTLS is tried, given up and tried again: the times of dtls_mainloop *)
(* and dtls_try_handshake, and how long openconnect_mainloop may sleep.     *)
(* Module Dtls has the same transitions with all that a packet goes         *)
(* through, and no time.                                                    *)
(*                                                                          *)
(* Time is counted in seconds since something happened; a pass of the loop  *)
(* takes none.  select returns when the timeout is over or earlier, for a   *)
(* packet of any channel.  tcp_mainloop, which has timers of its own, comes *)
(* in as a limit SslWake of the timeout.                                    *)
(***************************************************************************)
EXTENDS Integers

CONSTANTS
  Handshake,   \* seconds a handshake may take, 12 in the code
  Period,      \* dtls_attempt_period, 60 unless the application sets it
  Rekey,       \* dtls_times.rekey
  RekeyMethods, \* the values X-DTLS-Rekey-Method may give rekey_method
  SslWake      \* the CSTP timers wake the loop at least so often

Max2(a, b) == IF a > b THEN a ELSE b

ASSUME AttemptsAssumption ==
  /\ Handshake \in Nat \ {0} /\ Period \in Nat \ {0}
  /\ Rekey \in Nat \ {0} /\ RekeyMethods \subseteq {"NONE", "SSL", "TUNNEL"}
  /\ SslWake \in Nat \ {0}

\* Longer than anything the code compares with, and INT_MAX
Long == Max2(Max2(Handshake, Period), Rekey) + SslWake + 1

VARIABLES
  pc,             \* "pass": in the loop, "select": asleep
  dtls_state,
  rekey_method,   \* dtls_times.rekey_method
  period,         \* dtls_attempt_period: Period, or 0 after some errors
  started,        \* seconds since new_dtls_started
  rekeyed,        \* seconds since dtls_times.last_rekey
  need_reconnect, \* dtls_need_reconnect
  tun_up,
  timeout,        \* of the select
  keyed,          \* history: seconds since the keys in use were agreed
  tried           \* history: seconds since connect_dtls_socket or a failed handshake

vars == <<pc, dtls_state, rekey_method, period, started, rekeyed, need_reconnect, tun_up,
          timeout, keyed, tried>>

States == {"DISABLED", "SLEEPING", "CONNECTING", "CONNECTED"}

\* dtls_setup has begun, while the CSTP connection was made.
Init ==
  /\ pc = "pass"
  /\ dtls_state \in {"CONNECTING", "SLEEPING"}
  /\ rekey_method \in RekeyMethods
  /\ period = Period
  /\ started = 0 /\ tried = 0 /\ rekeyed = Long /\ keyed = Long
  /\ need_reconnect = FALSE /\ tun_up = FALSE
  /\ timeout = Long
-----------------------------------------------------------------------------
\* dtls_state, dtls_attempt_period and new_dtls_started, and what is returned
Dtls(s, p, st) == [state |-> s, period |-> p, started |-> st]
Outcome(d, r) == [dtls |-> d, ret |-> r]
dtls == Dtls(dtls_state, period, started)
dtls_close_NoSecret == Dtls("NOSECRET", period, started) \* mutant: DTLS is over
dtls_close == Dtls("SLEEPING", period, started)

\* Without a configuration for it, a socket or (PSK) a TLS session nothing has
\* begun; the ClientHello cannot be sent; or a handshake is under way.
connect_dtls_socket(d) ==
  { Outcome(Dtls(d.state, p, d.started), "EINVAL") : p \in {0, d.period} }
  \union { Outcome(Dtls("SLEEPING", d.period, 0), "EINVAL"),
           Outcome(Dtls("CONNECTING", d.period, 0), "0") }

\* mutant: only an error ends a handshake
dtls_try_handshake_Patient(d) ==
  { Outcome(Dtls("CONNECTED", d.period, d.started), "0"),
    Outcome(Dtls("CONNECTING", d.period, d.started), "0") }

\* Done, refused for good, timed out or failed, or still under way.
dtls_try_handshake(d) ==
  { Outcome(Dtls("CONNECTED", d.period, d.started), "0"),
    Outcome(Dtls("DISABLED", 0, d.started), "EIO"),
    Outcome(Dtls("SLEEPING", d.period, 0), "EINVAL") }
  \union IF d.started < Handshake
           THEN { Outcome(Dtls("CONNECTING", d.period, d.started), "0") } ELSE {}

Become(o) ==
  /\ dtls_state' = o.dtls.state
  /\ period' = o.dtls.period
  /\ started' = o.dtls.started
  /\ tried' = IF o.dtls.state = "SLEEPING" THEN 0 ELSE tried
  /\ IF o.dtls.state = "CONNECTED" THEN rekeyed' = 0 /\ keyed' = 0
                                   ELSE UNCHANGED <<rekeyed, keyed>>

\* mutant: sleeps as long as when tun is up
LoopTimeout_Long == Long

\* The timeout a pass begins with: "If tun is not up, loop more often to detect a
\* DTLS timeout (due to a firewall block) as soon."
LoopTimeout == IF tun_up THEN Long ELSE 1

\* The device is created once DTLS is no longer being waited for.
setup_tun == tun_up' = (tun_up \/ dtls_state # "CONNECTING")

\* There was work: another pass.
Again == pc' = "pass" /\ timeout' = Long

\* There was none, unless tcp_mainloop or tun_mainloop find some.
Rest(t) == \/ /\ pc' = "select"
              /\ \E w \in 1..SslWake : timeout' = IF w < t THEN w ELSE t
           \/ Again
-----------------------------------------------------------------------------
\* udp_mainloop is not called.
Disabled ==
  /\ pc = "pass" /\ dtls_state = "DISABLED"
  /\ setup_tun
  /\ Rest(LoopTimeout)
  /\ UNCHANGED <<dtls_state, period, started, rekeyed, need_reconnect, keyed, tried>>

\* if (vpninfo->dtls_need_reconnect)
NeedReconnect ==
  /\ pc = "pass" /\ dtls_state # "DISABLED" /\ need_reconnect
  /\ need_reconnect' = FALSE
  /\ setup_tun
  /\ \E o \in connect_dtls_socket(dtls_close) : Become(o)
  /\ Again

\* if (vpninfo->dtls_state == DTLS_CONNECTING)
Connecting ==
  /\ pc = "pass" /\ dtls_state = "CONNECTING" /\ ~need_reconnect
  /\ setup_tun
  /\ \E o \in dtls_try_handshake(dtls) : Become(o)
  /\ Rest(LoopTimeout)
  /\ UNCHANGED need_reconnect

\* mutant: the time of the next attempt does not limit the sleep
SleepUntil_Wake(when) == LoopTimeout

SleepUntil(when) == IF when < LoopTimeout THEN when ELSE LoopTimeout

\* if (vpninfo->dtls_state == DTLS_SLEEPING)
Sleeping ==
  /\ pc = "pass" /\ dtls_state = "SLEEPING" /\ ~need_reconnect
  /\ setup_tun
  /\ UNCHANGED need_reconnect
  /\ \/ /\ period <= started
        /\ \E o \in connect_dtls_socket(dtls) :
             Become(o) /\ Rest(IF o.ret = "0" THEN LoopTimeout ELSE 1)
     \/ /\ period > started
        /\ Rest(SleepUntil(period - started))
        /\ UNCHANGED <<dtls_state, period, started, rekeyed, keyed, tried>>

\* keepalive_action answers KA_REKEY: it has set last_rekey, and a rehandshake begins
\* if the method is REKEY_SSL.
ConnectedRekey_Forgets ==               \* mutant: no rehandshake
  /\ pc = "pass" /\ dtls_state = "CONNECTED" /\ ~need_reconnect
  /\ rekey_method # "NONE" /\ rekeyed >= Rekey
  /\ setup_tun
  /\ rekeyed' = 0
  /\ Again
  /\ UNCHANGED <<dtls_state, period, started, keyed, tried, need_reconnect>>

ConnectedRekey ==
  /\ pc = "pass" /\ dtls_state = "CONNECTED" /\ ~need_reconnect
  /\ rekey_method # "NONE" /\ rekeyed >= Rekey
  /\ setup_tun
  /\ UNCHANGED need_reconnect
  /\ \/ /\ rekey_method = "SSL"
        /\ rekeyed' = 0
        /\ \E o \in dtls_try_handshake(Dtls("CONNECTING", period, 0)) :
             \/ /\ o.ret = "0"
                /\ dtls_state' = o.dtls.state
                /\ started' = o.dtls.started
                /\ keyed' = IF o.dtls.state = "CONNECTED" THEN 0 ELSE keyed
                /\ UNCHANGED <<period, tried>>
                /\ Again
             \/ \* "DTLS Rehandshake failed; reconnecting."
                /\ o.ret # "0"
                /\ \E c \in connect_dtls_socket(o.dtls) :
                     /\ dtls_state' = c.dtls.state
                     /\ period' = c.dtls.period
                     /\ started' = c.dtls.started
                     /\ IF c.ret = "0" THEN Rest(LoopTimeout) ELSE Again
                /\ tried' = 0
                /\ UNCHANGED keyed
     \/ /\ rekey_method = "TUNNEL"
        /\ rekeyed' = 0
        /\ Again
        /\ UNCHANGED <<dtls_state, period, started, keyed, tried>>

\* The rest of dtls_mainloop: the rekey timer limits the sleep, if no other timer
\* does, or DPD finds the peer dead, or a write fails.
Connected ==
  /\ pc = "pass" /\ dtls_state = "CONNECTED" /\ ~need_reconnect
  /\ rekey_method = "NONE" \/ rekeyed < Rekey
  /\ setup_tun
  /\ UNCHANGED need_reconnect
  /\ \/ /\ LET due == IF rekey_method = "NONE" THEN Long ELSE Rekey - rekeyed
           IN  Rest(IF due < LoopTimeout THEN due ELSE LoopTimeout)
        /\ UNCHANGED <<dtls_state, period, started, rekeyed, keyed, tried>>
     \/ /\ \E o \in connect_dtls_socket(dtls_close) : Become(o)
        /\ Again

\* make_cstp_connection in tcp_mainloop: a new DTLS session id
CstpReconnected ==
  /\ pc = "pass" /\ ~need_reconnect
  /\ need_reconnect' = TRUE
  /\ UNCHANGED <<pc, dtls_state, period, started, rekeyed, tun_up, timeout, keyed, tried>>

\* A pause command, and openconnect_mainloop called again.
Pause ==
  /\ pc = "pass" /\ dtls_state # "DISABLED"
  /\ dtls_state' = "SLEEPING" /\ started' = Long /\ tried' = 0
  /\ UNCHANGED <<pc, period, rekeyed, need_reconnect, tun_up, timeout, keyed>>

\* select: a second passes, or it returns.
Second(age) == IF age < Long THEN age + 1 ELSE Long
Tick ==
  /\ pc = "select" /\ timeout > 0
  /\ timeout' = timeout - 1
  /\ started' = Second(started) /\ rekeyed' = Second(rekeyed)
  /\ keyed' = Second(keyed) /\ tried' = Second(tried)
  /\ UNCHANGED <<pc, dtls_state, period, need_reconnect, tun_up>>

Wake ==
  /\ pc = "select"
  /\ pc' = "pass" /\ timeout' = Long
  /\ UNCHANGED <<dtls_state, period, started, rekeyed, need_reconnect, tun_up,
                 keyed, tried>>

Next ==
  /\ \/ Disabled \/ NeedReconnect \/ Connecting \/ Sleeping \/ ConnectedRekey
     \/ Connected \/ CstpReconnected \/ Pause \/ Tick \/ Wake
  /\ UNCHANGED rekey_method

Spec == Init /\ [][Next]_vars
-----------------------------------------------------------------------------
TypeOK ==
  /\ pc \in {"pass", "select"}
  /\ dtls_state \in States
  /\ rekey_method \in RekeyMethods
  /\ period \in {0, Period}
  /\ started \in 0..Long /\ rekeyed \in 0..Long /\ keyed \in 0..Long /\ tried \in 0..Long
  /\ need_reconnect \in BOOLEAN /\ tun_up \in BOOLEAN
  /\ timeout \in 0..Long

\* The tun device does not wait for a firewall that drops DTLS: while it is not up, a
\* handshake is given up when its time is over, even if nothing else happens.
TunWaits == dtls_state = "CONNECTING" /\ ~tun_up => started <= Handshake

\* Afterwards nothing but a timer of CSTP may wake the loop: the end of a handshake is
\* noticed that much later, and not at all without such timers.
HandshakeBounded == dtls_state = "CONNECTING" => started < Handshake + SslWake

\* DTLS does not stay asleep: it is tried again after the attempt period, or at the
\* next CSTP timer when that comes later (a handshake that fails sets no timeout).
SleepBounded == dtls_state = "SLEEPING" => tried <= Max2(Period, SslWake)

\* With REKEY_SSL, DTLS does not carry packets under keys older than the rekey time, or
\* the next CSTP timer (the pass that ends a handshake does not look at the timers).
\* With REKEY_TUNNEL it does for ever: the rekey only resets the timer.
KeyAge ==
  dtls_state = "CONNECTED" /\ rekey_method = "SSL" => keyed <= Max2(Rekey, SslWake)
=============================================================================
