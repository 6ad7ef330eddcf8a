----------------------------- MODULE Keepalive ------------------------------
(***************************************************************************)
(* The timers of one channel: ka_check_deadline, ka_stalled_action and     *)
(* keepalive_action of mainloop.c, as cstp_mainloop or dtls_mainloop calls *)
(* them in each pass of the loop.  Module Mainloop lets these timers       *)
(* answer anything; here they run on a clock, in seconds, like time(NULL). *)
(*                                                                         *)
(* Time passes while the loop sleeps, and while it is busy elsewhere (the  *)
(* other handlers, a rehandshake, a reconnect); between the first look at  *)
(* the timers in a pass and the call of select it stands still.  timeout   *)
(* is the moment at which select would return: now plus the C timeout.     *)
(***************************************************************************)
EXTENDS Integers

CONSTANTS
  Dpd,          \* ka->dpd, 0 for none
  Keepalive,    \* ka->keepalive, 0 for none
  RekeyMethod,  \* ka->rekey_method of each channel
  Rekey,        \* ka->rekey
  MaxSleep,     \* the timeout a pass starts with: INT_MAX ms, 1 s without tun
  MaxTime       \* bound: the clock stops here

Channels == {"CSTP", "DTLS"}

ASSUME KeepaliveAssumption ==
  /\ Dpd \in Nat /\ Keepalive \in Nat
  /\ RekeyMethod \in [Channels -> {"NONE", "SSL", "TUNNEL"}]
  /\ Rekey \in Nat /\ ((\E c \in Channels : RekeyMethod[c] # "NONE") => Rekey > 0)
  /\ MaxSleep \in Nat \ {0} /\ MaxTime \in Nat

VARIABLES
  channel,   \* whose timers these are
  pc, now,
  last_rx, last_tx, last_rekey, last_dpd,
  timeout,
  queued,    \* there are packets for this channel to send
  blocked,   \* the socket took none of what was last written
  probes     \* history: DPD requests sent since the peer was last heard

times == <<last_rx, last_tx, last_rekey, last_dpd, probes>>
vars == <<channel, pc, now, times, timeout, queued, blocked>>

Init ==
  /\ channel \in Channels
  /\ pc = "read" /\ now = 0
  /\ last_rx = 0 /\ last_tx = 0 /\ last_rekey = 0 /\ last_dpd = 0
  /\ timeout = 0
  /\ queued = FALSE /\ blocked = FALSE
  /\ probes = 0
-----------------------------------------------------------------------------
ka_check_deadline_Last(t, due) == due   \* mutant: forgets an earlier deadline

\* ka_check_deadline for a deadline that is not due yet
ka_check_deadline(t, due) == IF t > due THEN due ELSE t

RekeyDue == RekeyMethod[channel] # "NONE" /\ now >= last_rekey + Rekey

\* *timeout after the check for a rekey that is not due
AfterRekey ==
  IF RekeyMethod[channel] = "NONE" THEN timeout
  ELSE ka_check_deadline(timeout, last_rekey + Rekey)

Overdue == Dpd # 0 /\ now > last_rx + 2 * Dpd

DpdWhen_FullPeriod ==                   \* mutant: repeats after a full period
  IF last_dpd > last_rx THEN last_dpd + Dpd ELSE last_rx + Dpd

DpdWhen_Flood == last_rx + Dpd          \* mutant: floods

DpdWhen ==
  IF last_dpd > last_rx THEN last_dpd + (Dpd \div 2) ELSE last_rx + Dpd

DpdDue == Dpd # 0 /\ now >= DpdWhen

AfterDpd == IF Dpd = 0 THEN AfterRekey ELSE ka_check_deadline(AfterRekey, DpdWhen)

KeepaliveDue == Keepalive # 0 /\ now >= last_tx + Keepalive

AfterKeepalive ==
  IF Keepalive = 0 THEN AfterDpd
  ELSE ka_check_deadline(AfterDpd, last_tx + Keepalive)
-----------------------------------------------------------------------------
\* A packet from the peer, of any kind.
Recv ==
  /\ pc = "read"
  /\ last_rx' = now /\ probes' = 0
  /\ UNCHANGED <<pc, now, last_tx, last_rekey, last_dpd, timeout, queued, blocked>>

\* Nothing more to read.  CSTP has first to finish the record it was writing.
ReadDone ==
  /\ pc = "read"
  /\ timeout' = now + MaxSleep
  /\ pc' = IF channel = "CSTP" /\ blocked THEN "write" ELSE "act"
  /\ UNCHANGED <<now, times, queued, blocked>>

\* case KA_REKEY
KaRekey ==
  /\ pc = "act" /\ RekeyDue
  /\ last_rekey' = now
  /\ pc' = "rekey"
  /\ UNCHANGED <<now, last_rx, last_tx, last_dpd, probes, timeout, queued, blocked>>

\* case KA_DPD_DEAD
KaDead ==
  /\ pc = "act" /\ ~RekeyDue /\ Overdue
  /\ pc' = "down"
  /\ UNCHANGED <<now, times, timeout, queued, blocked>>

\* The end of dtls_mainloop: the queue is emptied, or the socket is full, or
\* the channel is broken.  t is last_tx, or now if a probe was sent already.
DtlsSendQueue(t, next) ==
  \/ /\ ~queued
     /\ last_tx' = t /\ blocked' = FALSE /\ pc' = next
     /\ UNCHANGED queued
  \/ /\ queued
     /\ last_tx' = now /\ queued' = FALSE /\ blocked' = FALSE /\ pc' = next
  \/ /\ queued
     /\ last_tx' \in {t, now} /\ blocked' = TRUE /\ pc' = next
     /\ UNCHANGED queued
  \/ /\ queued
     /\ last_tx' \in {t, now} /\ blocked' = FALSE /\ pc' = "down"
     /\ UNCHANGED queued

\* case KA_DPD: a record for CSTP to write; DTLS sends it, which is work done.
KaDpd ==
  /\ pc = "act" /\ ~RekeyDue /\ ~Overdue /\ DpdDue
  /\ last_dpd' = now /\ probes' = probes + 1
  /\ timeout' = AfterRekey
  /\ \/ /\ channel = "CSTP"
        /\ pc' = "write"
        /\ UNCHANGED <<last_tx, queued, blocked>>
     \/ channel = "DTLS" /\ DtlsSendQueue(now, "read")
  /\ UNCHANGED <<now, last_rx, last_rekey>>

\* case KA_KEEPALIVE: not needed "if we have real data to send".
KaKeepalive ==
  /\ pc = "act" /\ ~RekeyDue /\ ~Overdue /\ ~DpdDue /\ KeepaliveDue
  /\ timeout' = AfterDpd
  /\ \/ /\ channel = "CSTP"
        /\ pc' = "write" /\ queued' \in {FALSE, queued}
        /\ UNCHANGED <<last_tx, blocked>>
     \/ channel = "DTLS" /\ ~queued /\ DtlsSendQueue(now, "read")
     \/ channel = "DTLS" /\ queued /\ DtlsSendQueue(last_tx, "tun")
  /\ UNCHANGED <<now, last_rx, last_rekey, last_dpd, probes>>

\* case KA_NONE, and the service of the outgoing queue after it
KaNone ==
  /\ pc = "act" /\ ~RekeyDue /\ ~Overdue /\ ~DpdDue /\ ~KeepaliveDue
  /\ timeout' = AfterKeepalive
  /\ \/ /\ channel = "CSTP" /\ queued
        /\ pc' = "write" /\ queued' \in BOOLEAN
        /\ UNCHANGED <<last_tx, blocked>>
     \/ /\ channel = "CSTP" /\ ~queued
        /\ pc' = "tun"
        /\ UNCHANGED <<last_tx, queued, blocked>>
     \/ channel = "DTLS" /\ DtlsSendQueue(last_tx, "tun")
  /\ UNCHANGED <<now, last_rx, last_rekey, last_dpd, probes>>
-----------------------------------------------------------------------------
\* mutant: returns instead of looking at the timers again
WriteOk_Returns ==
  /\ pc = "write"
  /\ last_tx' = now /\ blocked' = FALSE
  /\ pc' = "tun"
  /\ UNCHANGED <<now, last_rx, last_rekey, last_dpd, probes, timeout, queued>>

\* handle_outgoing of cstp_mainloop: the record is written,
WriteOk ==
  /\ pc = "write"
  /\ last_tx' = now /\ blocked' = FALSE
  /\ pc' = "act"
  /\ UNCHANGED <<now, last_rx, last_rekey, last_dpd, probes, timeout, queued>>

\* or the connection is broken,
WriteError ==
  /\ pc = "write"
  /\ last_tx' = now /\ blocked' = TRUE
  /\ pc' = "down"
  /\ UNCHANGED <<now, last_rx, last_rekey, last_dpd, probes, timeout, queued>>

\* or it is stalled: ka_stalled_action.
WriteStalled ==
  /\ pc = "write"
  /\ last_tx' = now /\ blocked' = TRUE
  /\ \/ /\ RekeyDue
        /\ last_rekey' = now
        /\ pc' = "rekey"
        /\ UNCHANGED timeout
     \/ /\ ~RekeyDue /\ Dpd # 0 /\ now >= last_rx + 2 * Dpd
        /\ pc' = "down"
        /\ UNCHANGED <<last_rekey, timeout>>
     \/ /\ ~RekeyDue /\ ~(Dpd # 0 /\ now >= last_rx + 2 * Dpd)
        /\ timeout' = IF Dpd = 0 THEN AfterRekey
                      ELSE ka_check_deadline(AfterRekey, last_rx + 2 * Dpd)
        /\ pc' = "tun"
        /\ UNCHANGED last_rekey
  /\ UNCHANGED <<now, last_rx, last_dpd, probes, queued>>

\* The answer to KA_REKEY: a rehandshake, done by CSTP on the spot and only
\* begun by DTLS, or a new tunnel, which DTLS never starts.
DoRekey ==
  /\ pc = "rekey"
  /\ \/ channel = "CSTP" /\ pc' = "down"
     \/ channel = "CSTP" /\ RekeyMethod[channel] = "SSL" /\ pc' = "read"
     \/ channel = "DTLS" /\ RekeyMethod[channel] = "SSL" /\ pc' = "down"
     \/ channel = "DTLS" /\ RekeyMethod[channel] = "TUNNEL" /\ pc' = "read"
  /\ UNCHANGED <<now, times, timeout, queued, blocked>>

\* mutant: stores when the next rekey is due instead of when this one was
Connected_StoresDeadline ==
  /\ pc = "down"
  /\ last_rekey' = now + Rekey /\ last_rx' = now /\ last_tx' = now /\ probes' = 0
  /\ blocked' = (blocked /\ channel = "CSTP")
  /\ pc' = "read"
  /\ UNCHANGED <<now, last_dpd, timeout, queued>>

\* start_cstp_connection, or dtls_try_handshake, has succeeded.
Connected ==
  /\ pc = "down"
  /\ last_rekey' = now /\ last_rx' = now /\ last_tx' = now /\ probes' = 0
  /\ blocked' = (blocked /\ channel = "CSTP")
  /\ pc' = "read"
  /\ UNCHANGED <<now, last_dpd, timeout, queued>>
-----------------------------------------------------------------------------
\* tun_mainloop, with its work done, that of another handler, or none
TunRead ==
  /\ pc = "tun"
  /\ queued' = TRUE
  /\ pc' = "read"
  /\ UNCHANGED <<now, times, timeout, blocked>>

OtherWork ==
  /\ pc = "tun"
  /\ pc' = "read"
  /\ UNCHANGED <<now, times, timeout, queued, blocked>>

Sleep ==
  /\ pc = "tun"
  /\ pc' = "asleep"
  /\ UNCHANGED <<now, times, timeout, queued, blocked>>

\* select returns: for a descriptor, or because the timeout is over.
Wake ==
  /\ pc = "asleep"
  /\ pc' = "read"
  /\ UNCHANGED <<now, times, timeout, queued, blocked>>

Tick ==
  /\ pc \in {"read", "rekey", "down"} \/ (pc = "asleep" /\ now < timeout)
  /\ now < MaxTime
  /\ now' = now + 1
  /\ UNCHANGED <<pc, times, timeout, queued, blocked>>

cstp_or_dtls_mainloop ==
  \/ Recv \/ ReadDone
  \/ KaRekey \/ KaDead \/ KaDpd \/ KaKeepalive \/ KaNone
  \/ WriteOk \/ WriteError \/ WriteStalled \/ DoRekey \/ Connected

Next ==
  /\ cstp_or_dtls_mainloop \/ TunRead \/ OtherWork \/ Sleep \/ Wake \/ Tick
  /\ UNCHANGED channel

Spec == Init /\ [][Next]_vars
-----------------------------------------------------------------------------
PcLabels == {"read", "act", "write", "rekey", "down", "tun", "asleep"}

\* Every variable is of its C type; the clock only moves forward.
TypeOK ==
  /\ channel \in Channels
  /\ pc \in PcLabels
  /\ now \in Nat
  /\ last_rx \in 0..now /\ last_tx \in 0..now
  /\ last_rekey \in 0..now /\ last_dpd \in 0..now
  /\ timeout \in Nat
  /\ queued \in BOOLEAN /\ blocked \in BOOLEAN
  /\ probes \in Nat

\* A dead peer is found out: the loop never sleeps once two and a half DPD
\* periods have passed in silence, nor, with a stalled record, once two have.
\* (keepalive_action's own limit is two, but it looks only when a probe is
\* due; keepalive_action and ka_stalled_action in mainloop.c.)
DeadPeerFound ==
  pc = "asleep" /\ Dpd # 0 =>
    /\ now <= last_rx + 2 * Dpd + (Dpd \div 2)
    /\ channel = "CSTP" /\ blocked => now <= last_rx + 2 * Dpd

\* "We haven't seen a packet from this host for $DPD seconds. Prod it"
\* (mainloop.c:373): whatever traffic, keepalives and rekeys go on, the loop
\* does not sleep past that moment unless a probe is outstanding (or, on
\* CSTP, the socket is stalled).
ProbedInTime ==
  pc = "asleep" /\ Dpd # 0 /\ now > last_rx + Dpd =>
    last_dpd > last_rx \/ (channel = "CSTP" /\ blocked)

\* "don't flood" (mainloop.c:368): a silent peer gets at most four probes
\* before it is given up.
ProbeLimit == probes <= 4

\* "If we haven't sent anything for $KEEPALIVE seconds, send a dummy packet"
\* (mainloop.c:382): on CSTP the loop does not sleep past that moment, unless
\* it waits for the socket to take something.
KeepaliveInTime ==
  pc = "asleep" /\ channel = "CSTP" /\ Keepalive # 0 /\ ~blocked =>
    now <= last_tx + Keepalive
=============================================================================
