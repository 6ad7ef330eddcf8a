-------------------------------- MODULE Cstp --------------------------------
(***************************************************************************)
(* cstp_mainloop of cstp.c: the TLS control channel, which carries the     *)
(* data whenever DTLS is not connected.  A record that could not be        *)
(* written whole stays in current_ssl_pkt until the same write is done.    *)
(***************************************************************************)
EXTENDS Reconnect

NotCstp == UNCHANGED <<dtlsVars, negotiated, tunVars, cmdVars, bye_sent>>

\* mutant: a record half written to the lost connection is dropped
DropsRecord == current_ssl_pkt' = NULL /\ pending_deflated_pkt' = NULL
                                      /\ UNCHANGED outgoing_queue

\* current_ssl_pkt == deflate_pkt holds of two NULL pointers too: a response
\* agreed to the stream compressor and then failed, before there was a buffer.
RequeuesNothing ==
  cstp_compr = "DEFLATE" /\ current_ssl_pkt = NULL /\ DeflatePkt = NULL

\* The stream compressor dies with the connection, so the packet it had
\* compressed goes back to the queue; any other record is written again.
KeepsRecord ==
  IF cstp_compr = "DEFLATE" /\ current_ssl_pkt = DEFLATE_PKT
    THEN /\ current_ssl_pkt' = NULL
         /\ outgoing_queue' = queue_packet(outgoing_queue, pending_deflated_pkt)
         /\ pending_deflated_pkt' = NULL
    ELSE UNCHANGED <<current_ssl_pkt, outgoing_queue, pending_deflated_pkt>>

\* cstp_reconnect, and the start of ssl_reconnect: the connection is closed
\* before the first attempt to open it again.  With nothing to requeue,
\* queue_packet follows the NULL pointer.
DoReconnect ==
  \/ /\ RequeuesNothing
     /\ pc' = "aborted"
     /\ UNCHANGED <<ssl_open, cstpVars, sendVars, recvVars, retryVars, quit_reason,
                    ret, did_work>>
  \/ /\ ~RequeuesNothing
     /\ KeepsRecord
     /\ ssl_open' = FALSE
     /\ rtimeout' = ReconnectTimeout
     /\ rinterval' = ReconnectInterval
     /\ pc' = "connect"
     /\ UNCHANGED <<owe_ssl_dpd_response, bufferVars, sentVars, recvVars,
                    quit_reason, ret, did_work>>

\* do_dtls_reconnect: after a rehandshake
DoDtlsReconnect ==
  /\ dtls_need_reconnect' = (dtls_need_reconnect \/ NeedsDtlsRekey)
  /\ did_work' = TRUE
  /\ ReturnToLoop
  /\ UNCHANGED <<cstpVars, ssl_open, sendVars, recvVars, retryVars, quit_reason, ret>>

CstpClosed ==
  /\ pc = "tcp" /\ ~ssl_open
  /\ DoReconnect /\ NotCstp

\* The receive loop.  Responses and keepalives only move the timers; a record
\* that does not decompress is dropped, and one whose running checksum is
\* wrong is queued but ends the session when the handler returns.
CstpReadEmpty ==
  /\ pc = "tcp" /\ ssl_open
  /\ pc' = IF current_ssl_pkt # NULL THEN "tcp_write" ELSE "tcp_keepalive"
  /\ NotCstp
  /\ UNCHANGED <<cstpVars, ssl_open, sendVars, recvVars, retryVars, quit_reason,
                 ret, did_work>>

CstpReadError ==
  /\ pc = "tcp" /\ ssl_open
  /\ DoReconnect /\ NotCstp

CstpRead ==
  /\ pc = "tcp" /\ ssl_open
  /\ \/ /\ owe_ssl_dpd_response' = TRUE
        /\ UNCHANGED <<pc, recvVars, did_work, quit_reason, ret>>
     \/ /\ rx_count < MaxRx
        /\ rx_count' = rx_count + 1
        /\ incoming_queue' = queue_packet(incoming_queue, rx_count + 1)
        /\ did_work' = TRUE
        /\ \/ UNCHANGED quit_reason
           \/ cstp_compr = "DEFLATE" /\ quit_reason' = "Protocol error"
        /\ UNCHANGED <<pc, owe_ssl_dpd_response, tun_written, ret>>
     \/ /\ cstp_compr # "NONE"
        /\ did_work' = TRUE
        /\ UNCHANGED <<pc, owe_ssl_dpd_response, recvVars, quit_reason, ret>>
     \/ /\ Quit("Server request", "EPIPE")
        /\ UNCHANGED <<owe_ssl_dpd_response, recvVars, did_work>>
     \/ /\ Quit("Protocol error", "0")
        /\ UNCHANGED <<owe_ssl_dpd_response, recvVars, did_work>>
  /\ NotCstp
  /\ UNCHANGED <<current_ssl_pkt, pending_deflated_pkt, ssl_open, sendVars, retryVars>>

Payload_Static == <<current_ssl_pkt>>   \* mutant: counts dpd_pkt and the like

\* The record is in a buffer that was replaced at the same address: it is empty.
Emptied == current_ssl_pkt = DEFLATE_PKT /\ deflate_pkt = NULL

\* What a complete write puts on the connection: the data packet the record
\* carries, if it carries one.
Payload == CASE current_ssl_pkt > 0 -> <<current_ssl_pkt>>
             [] current_ssl_pkt = DEFLATE_PKT /\ ~Emptied -> <<deflate_pkt>>
             [] OTHER -> <<>>

\* handle_outgoing: ssl_nonblock_write took the record.
CstpWriteOk ==
  /\ pc = "tcp_write" /\ current_ssl_pkt # FREED_PKT
  /\ cstp_sent' = cstp_sent \o Payload
  /\ cstp_lost' = IF Emptied THEN Append(cstp_lost, pending_deflated_pkt)
                             ELSE cstp_lost
  /\ current_ssl_pkt' = NULL
  /\ pending_deflated_pkt' = IF current_ssl_pkt = DEFLATE_PKT THEN NULL
                                                             ELSE pending_deflated_pkt
  /\ pc' = "tcp_keepalive"
  /\ NotCstp
  /\ UNCHANGED <<owe_ssl_dpd_response, ssl_open, bufferVars, outgoing_queue,
                 dtls_sent, recvVars, retryVars, quit_reason, ret, did_work>>

\* It took it from the freed buffer, whose bytes may still be those of the
\* packet or not.  The record is not deflate_pkt any more, so that it is freed,
\* for the second time, and the packet behind it stays where it is.
CstpWriteFreed ==
  /\ pc = "tcp_write" /\ current_ssl_pkt = FREED_PKT
  /\ \/ /\ cstp_sent' = Append(cstp_sent, pending_deflated_pkt)
        /\ UNCHANGED cstp_lost
     \/ /\ cstp_lost' = Append(cstp_lost, pending_deflated_pkt)
        /\ UNCHANGED cstp_sent
  /\ current_ssl_pkt' = NULL
  /\ pc' \in {"tcp_keepalive", "aborted"}
  /\ NotCstp
  /\ UNCHANGED <<pending_deflated_pkt, owe_ssl_dpd_response, ssl_open, bufferVars,
                 outgoing_queue, dtls_sent, recvVars, retryVars, quit_reason, ret,
                 did_work>>

\* It took none of it: wait, unless ka_stalled_action sees a deadline.
CstpWriteStalled ==
  /\ pc = "tcp_write"
  /\ \/ /\ "DPD_DEAD" \in SslKa
        /\ DoReconnect
     \/ /\ "REKEY" \in SslKa
        /\ pc' = "rekey"
        /\ UNCHANGED <<cstpVars, ssl_open, sendVars, recvVars, retryVars,
                       quit_reason, ret, did_work>>
     \/ /\ ReturnToLoop
        /\ UNCHANGED <<cstpVars, ssl_open, sendVars, recvVars, retryVars,
                       quit_reason, ret, did_work>>
  /\ NotCstp

CstpWriteError ==
  /\ pc = "tcp_write"
  /\ DoReconnect /\ NotCstp

\* "SSL wrote too few bytes!"
CstpWriteShort ==
  /\ pc = "tcp_write"
  /\ Quit("Internal error", "0")
  /\ NotCstp
  /\ UNCHANGED <<cstpVars, ssl_open, sendVars, recvVars, retryVars, did_work>>

\* if (vpninfo->owe_ssl_dpd_response)
CstpDpdResponse ==
  /\ pc = "tcp_keepalive" /\ owe_ssl_dpd_response
  /\ owe_ssl_dpd_response' = FALSE
  /\ current_ssl_pkt' = DPD_RESP_PKT
  /\ pc' = "tcp_write"
  /\ NotCstp
  /\ UNCHANGED <<pending_deflated_pkt, ssl_open, sendVars, recvVars, retryVars,
                 quit_reason, ret, did_work>>

\* switch (keepalive_action(&vpninfo->ssl_times, timeout))
CstpKeepalive ==
  /\ pc = "tcp_keepalive" /\ ~owe_ssl_dpd_response
  /\ \E ka \in SslKa :
       \/ ka = "DPD_DEAD" /\ DoReconnect
       \/ /\ \/ ka = "REKEY" /\ pc' = "rekey" /\ UNCHANGED current_ssl_pkt
             \/ ka = "DPD" /\ pc' = "tcp_write" /\ current_ssl_pkt' = DPD_PKT
             \/ /\ ka = "KEEPALIVE" /\ (dtls.state = "CONNECTED" \/ outgoing_queue = <<>>)
                /\ pc' = "tcp_write" /\ current_ssl_pkt' = KEEPALIVE_PKT
             \/ /\ ka = "KEEPALIVE" /\ dtls.state # "CONNECTED" /\ outgoing_queue # <<>>
                /\ pc' = "tcp_queue" /\ UNCHANGED current_ssl_pkt
             \/ ka = "NONE" /\ pc' = "tcp_queue" /\ UNCHANGED current_ssl_pkt
          /\ UNCHANGED <<pending_deflated_pkt, owe_ssl_dpd_response, ssl_open,
                         sendVars, recvVars, retryVars, quit_reason, ret, did_work>>
  /\ NotCstp

\* do_rekey: a new tunnel, or a rehandshake on this one and a new tunnel
\* when that fails.
CstpRekeyTunnel ==
  /\ pc = "rekey"
  /\ DoReconnect /\ NotCstp

\* is_cancel_pending during the rehandshake: a command makes it fail.
CstpRekeyInterrupted ==
  /\ pc = "rekey" /\ SslRekey = "SSL" /\ CmdPending
  /\ check_cmd_fd
  /\ IF got_cancel_cmd' \/ got_pause_cmd'
       THEN DoReconnect
       ELSE UNCHANGED <<pc, cstpVars, ssl_open, sendVars, recvVars, retryVars,
                        quit_reason, ret, did_work>>
  /\ UNCHANGED <<dtlsVars, negotiated, tunVars, bye_sent>>

CstpRekeySsl ==
  /\ pc = "rekey" /\ SslRekey = "SSL"
  /\ DoDtlsReconnect
  /\ NoCmd
  /\ UNCHANGED <<dtls, dtls_write_monitored, negotiated, tunVars, bye_sent>>

CstpCarriesData_Asleep == dtls.state \notin AboveSleeping   \* mutant

CstpCarriesData == dtls.state # "CONNECTED"

\* while (dtls_state != DTLS_CONNECTED && dequeue): take the next packet,
\* compress it if that was agreed and helps, and write it.  A deflate failure
\* turns compression off for good.
CstpNextPacket ==
  /\ pc = "tcp_queue" /\ CstpCarriesData /\ outgoing_queue # <<>>
  /\ LET this == Head(outgoing_queue) IN
       \/ /\ cstp_compr # "NONE"
          /\ deflate_pkt' = this
          /\ pending_deflated_pkt' = this
          /\ current_ssl_pkt' = DEFLATE_PKT
          /\ UNCHANGED cstp_compr
       \/ /\ current_ssl_pkt' = this
          /\ cstp_compr' = IF cstp_compr = "DEFLATE" THEN "NONE" ELSE cstp_compr
          /\ UNCHANGED <<deflate_pkt, pending_deflated_pkt>>
  /\ outgoing_queue' = dequeue_packet(outgoing_queue)
  /\ pc' = "tcp_write"
  /\ UNCHANGED <<dtlsVars, dtls_session_id, dtls_compr, tunVars, cmdVars, bye_sent,
                 owe_ssl_dpd_response, ssl_open, deflate_pkt_size, sentVars, recvVars,
                 retryVars, quit_reason, ret, did_work>>

CstpDone ==
  /\ pc = "tcp_queue" /\ (~CstpCarriesData \/ outgoing_queue = <<>>)
  /\ ReturnToLoop
  /\ NotCstp
  /\ UNCHANGED <<cstpVars, ssl_open, sendVars, recvVars, retryVars, quit_reason,
                 ret, did_work>>

cstp_mainloop ==
  \/ CstpClosed \/ CstpReadEmpty \/ CstpReadError \/ CstpRead
  \/ CstpWriteOk \/ CstpWriteFreed \/ CstpWriteStalled \/ CstpWriteError
  \/ CstpWriteShort
  \/ CstpDpdResponse \/ CstpKeepalive
  \/ CstpRekeyTunnel \/ CstpRekeyInterrupted \/ CstpRekeySsl
  \/ CstpNextPacket \/ CstpDone
  \/ ssl_reconnect
=============================================================================
