-------------------------------- MODULE Dtls --------------------------------
(***************************************************************************)
(* dtls.c and gnutls-dtls.c: the DTLS data channel.  DTLS states and their *)
(* transitions are functions from the record dtls to the set of records it *)
(* may become, paired with the C return value; the steps of dtls_mainloop  *)
(* choose among them.  Time is abstracted: a deadline (the 12 s of a       *)
(* handshake, dtls_attempt_period, the keepalive timers) may have passed   *)
(* or not whenever the code looks; module Keepalive has the timers.  The   *)
(* MTU detection at the end of a handshake is module MtuDetect; here it is *)
(* only a place where commands are read.                                   *)
(***************************************************************************)
EXTENDS Reconnect

\* mutant: forgets the socket and the session
dtls_close_StateOnly(d) == [d EXCEPT !.state = "SLEEPING"]

dtls_close(d) ==
  IF d.ssl # NULL THEN [state |-> "SLEEPING", fd |-> FALSE, ssl |-> NULL]
                  ELSE [d EXCEPT !.state = "SLEEPING"]

Outcome(d, r) == [dtls |-> d, ret |-> r]

\* gnutls_handshake on a session that has had time to hear from the server:
\* done (up to dtls_detect_mtu, which has steps of its own), refused (not a
\* resumption, or MTU too small), still under way, timed out or failed.
dtls_try_handshake(d) ==
  { Outcome([d EXCEPT !.state = "CONNECTED"], "0"),
    Outcome([dtls_close(d) EXCEPT !.state = "DISABLED"], "EIO"),
    Outcome(d, "0"),
    Outcome(dtls_close(d), "EINVAL") }

\* The first dtls_try_handshake follows the ClientHello at once: it can only
\* answer "again" or fail to send.
FirstHandshake(d) == { Outcome(d, "0"), Outcome(dtls_close(d), "EINVAL") }

\* A DTLS session is keyed by the CSTP session: its id or App-ID, and for
\* PSK-NEGOTIATE the TLS session itself, which has to exist.
connect_dtls_socket(d) ==
  IF d.fd THEN { Outcome(d, "EINVAL") }
  ELSE { Outcome(d, "EINVAL") } \union
       IF DtlsPsk /\ ~ssl_open
         THEN { Outcome(d, "EAGAIN") }
         ELSE FirstHandshake([state |-> "CONNECTING", fd |-> TRUE,
                              ssl |-> dtls_session_id])

dtls_reconnect(d) == connect_dtls_socket(dtls_close(d))

\* dtls_setup, from make_cstp_connection's DTLS_SECRET; with --no-dtls it is
\* not called.
dtls_setup ==
  LET unused(s) == [state |-> s, fd |-> FALSE, ssl |-> NULL]
  IN  { Outcome(unused("DISABLED"), "0"), Outcome(unused("SECRET"), "EINVAL") }
        \union connect_dtls_socket(unused("SECRET"))
-----------------------------------------------------------------------------
BecomeDtls(o) ==
  /\ dtls' = o.dtls
  /\ dtls_write_monitored' = (dtls_write_monitored /\ o.dtls.ssl # NULL
                                                   /\ o.dtls.ssl = dtls.ssl)

NotDtls == UNCHANGED <<negotiated, ssl_open, cstpVars, tunVars, cmdVars,
                       retryVars, bye_sent>>

\* mutant: drops the flag and keeps the session
DtlsNeedReconnect_Ignored ==
  /\ pc = "udp" /\ dtls_need_reconnect
  /\ dtls_need_reconnect' = FALSE
  /\ did_work' = TRUE
  /\ pc' = "tcp"
  /\ NotDtls
  /\ UNCHANGED <<dtls, dtls_write_monitored, sendVars, recvVars, quit_reason, ret>>

\* if (vpninfo->dtls_need_reconnect)
DtlsNeedReconnect ==
  /\ pc = "udp" /\ dtls_need_reconnect
  /\ dtls_need_reconnect' = FALSE
  /\ \E o \in dtls_reconnect(dtls) : BecomeDtls(o)
  /\ did_work' = TRUE
  /\ pc' = "tcp"
  /\ NotDtls /\ UNCHANGED <<sendVars, recvVars, quit_reason, ret>>

\* A handshake that succeeded ends with dtls_detect_mtu.
AfterHandshake(o) == IF o.dtls.state = "CONNECTED" THEN "detect_mtu" ELSE "tcp"

\* if (vpninfo->dtls_state == DTLS_CONNECTING)
DtlsConnecting ==
  /\ pc = "udp" /\ ~dtls_need_reconnect /\ dtls.state = "CONNECTING"
  /\ \E o \in dtls_try_handshake(dtls) : BecomeDtls(o) /\ pc' = AfterHandshake(o)
  /\ NotDtls
  /\ UNCHANGED <<dtls_need_reconnect, sendVars, recvVars, quit_reason, ret, did_work>>

\* if (vpninfo->dtls_state == DTLS_SLEEPING): the attempt period may be over.
DtlsSleeping ==
  /\ pc = "udp" /\ ~dtls_need_reconnect /\ dtls.state = "SLEEPING"
  /\ \/ \E o \in connect_dtls_socket(dtls) : BecomeDtls(o)
     \/ UNCHANGED <<dtls, dtls_write_monitored>>
  /\ pc' = "tcp"
  /\ NotDtls
  /\ UNCHANGED <<dtls_need_reconnect, sendVars, recvVars, quit_reason, ret, did_work>>

\* The receive loop: a data packet is queued for the tun device, and counts as
\* work unless it was compressed; DPD and keepalive records only move the
\* timers; a compressed record nobody agreed to ends the session.
DtlsRecv ==
  /\ pc = "udp" /\ ~dtls_need_reconnect /\ dtls.state = "CONNECTED"
  /\ \/ /\ pc' = "udp_keepalive"
        /\ UNCHANGED <<recvVars, did_work, quit_reason, ret>>
     \/ /\ rx_count < MaxRx
        /\ rx_count' = rx_count + 1
        /\ incoming_queue' = queue_packet(incoming_queue, rx_count + 1)
        /\ (did_work' = TRUE \/ (dtls_compr /\ UNCHANGED did_work))
        /\ UNCHANGED <<pc, tun_written, quit_reason, ret>>
     \/ /\ ~dtls_compr
        /\ Quit("Protocol error", "0")
        /\ UNCHANGED <<recvVars, did_work>>
  /\ NotDtls /\ UNCHANGED <<dtlsVars, sendVars>>

\* switch (keepalive_action(&vpninfo->dtls_times, timeout))
DtlsKeepalive ==
  /\ pc = "udp_keepalive"
  /\ \E ka \in DtlsKa :
       \/ /\ ka = "REKEY" /\ DtlsRekey = "SSL"
          /\ \E o \in dtls_try_handshake([dtls EXCEPT !.state = "CONNECTING"]) :
               /\ BecomeDtls(o)
               /\ IF o.ret = "0" THEN did_work' = TRUE /\ pc' = AfterHandshake(o)
                                 ELSE pc' = "udp_rekey" /\ UNCHANGED did_work
       \/ /\ ka = "REKEY" /\ DtlsRekey # "SSL"
          /\ did_work' = TRUE /\ pc' = "tcp"
          /\ UNCHANGED <<dtls, dtls_write_monitored>>
       \/ /\ ka = "DPD_DEAD"
          /\ \E o \in dtls_reconnect(dtls) : BecomeDtls(o)
          /\ did_work' = TRUE /\ pc' = "tcp"
       \/ /\ ka \in {"DPD", "KEEPALIVE", "NONE"}
          /\ did_work' = (\/ did_work
                          \/ ka = "DPD"
                          \/ ka = "KEEPALIVE" /\ outgoing_queue = <<>>)
          /\ pc' = "udp_send"
          /\ dtls_write_monitored' = FALSE
          /\ UNCHANGED dtls
  /\ NotDtls
  /\ UNCHANGED <<dtls_need_reconnect, sendVars, recvVars, quit_reason, ret>>

\* "DTLS Rehandshake failed; reconnecting.": return connect_dtls_socket(),
\* which replaces the work_done of the receive loop.
DtlsRekeyFailed ==
  /\ pc = "udp_rekey"
  /\ \E o \in connect_dtls_socket(dtls) :
       /\ BecomeDtls(o)
       /\ did_work' = (o.ret # "0")
  /\ pc' = "tcp"
  /\ NotDtls
  /\ UNCHANGED <<dtls_need_reconnect, sendVars, recvVars, quit_reason, ret>>

\* The probes of dtls_detect_mtu are sent and awaited with the command pipe in
\* the select: each time, is_cancel_pending reads a byte, a sending that was cut
\* short is tried again with a smaller probe, and nobody looks at the command.
DetectMtuCmd ==
  /\ pc = "detect_mtu" /\ CmdPending
  /\ check_cmd_fd
  /\ UNCHANGED <<pc, dtlsVars, negotiated, ssl_open, cstpVars, sendVars, recvVars,
                 tunVars, retryVars, exitVars, did_work>>

\* The MTU is found, or the search given up.
DetectMtuDone ==
  /\ pc = "detect_mtu"
  /\ pc' = "tcp"
  /\ NotDtls
  /\ UNCHANGED <<dtlsVars, sendVars, recvVars, quit_reason, ret, did_work>>

\* mutant: overwrites the record CSTP has still to write
DtlsMayCompress_Always == dtls_compr

\* compress_packet into the buffer DTLS shares with CSTP
DtlsMayCompress == dtls_compr /\ current_ssl_pkt # DeflatePkt

\* while (vpninfo->outgoing_queue.head): one packet is sent, or stays at the
\* head because the socket is full, or because the channel broke.
DtlsSend ==
  /\ pc = "udp_send" /\ outgoing_queue # <<>>
  /\ LET this == Head(outgoing_queue)
         rest == dequeue_packet(outgoing_queue)
     IN  /\ \/ deflate_pkt' = this /\ DtlsMayCompress
            \/ UNCHANGED deflate_pkt
         /\ \/ /\ outgoing_queue' = rest
               /\ dtls_sent' = Append(dtls_sent, this)
               /\ UNCHANGED <<pc, did_work, dtls, dtls_write_monitored>>
            \/ /\ outgoing_queue' = requeue_packet(rest, this)
               /\ dtls_write_monitored' = TRUE
               /\ pc' = "tcp"
               /\ UNCHANGED <<dtls_sent, did_work, dtls>>
            \/ /\ outgoing_queue' = requeue_packet(rest, this)
               /\ \E o \in dtls_reconnect(dtls) : BecomeDtls(o)
               /\ did_work' = TRUE
               /\ pc' = "tcp"
               /\ UNCHANGED dtls_sent
  /\ NotDtls
  /\ UNCHANGED <<dtls_need_reconnect, deflate_pkt_size, cstp_sent, cstp_lost,
                 recvVars, quit_reason, ret>>

DtlsSendDone ==
  /\ pc = "udp_send" /\ outgoing_queue = <<>>
  /\ pc' = "tcp"
  /\ NotDtls
  /\ UNCHANGED <<dtlsVars, sendVars, recvVars, quit_reason, ret, did_work>>

dtls_mainloop ==
  \/ DtlsNeedReconnect \/ DtlsConnecting \/ DtlsSleeping
  \/ DtlsRecv \/ DtlsKeepalive \/ DtlsRekeyFailed
  \/ DetectMtuCmd \/ DetectMtuDone \/ DtlsSend \/ DtlsSendDone
=============================================================================
