----------------------------- MODULE Reconnect ------------------------------
(***************************************************************************)
(* ssl.c: the command pipe (check_cmd_fd, poll_cmd_fd, is_cancel_pending)  *)
(* and the retry loop of ssl_reconnect around the protocol's tcp_connect   *)
(* (cstp_connect).                                                         *)
(***************************************************************************)
EXTENDS OpenConnectInfo

CmdPending == cmd_pipe # <<>>
GotCmd_CancelOnly == got_cancel_cmd   \* mutant: a pause can wait
GotCmd == got_cancel_cmd \/ got_pause_cmd

\* check_cmd_fd: one byte is read and remembered.
check_cmd_fd ==
  LET cmd == Head(cmd_pipe) IN
  /\ cmd_pipe' = Tail(cmd_pipe)
  /\ got_cancel_cmd' = (got_cancel_cmd \/ cmd \in {"CANCEL", "DETACH"})
  /\ cancel_type' = IF cmd \in {"CANCEL", "DETACH"} THEN cmd ELSE cancel_type
  /\ got_pause_cmd' = (got_pause_cmd \/ cmd = "PAUSE")
  /\ UNCHANGED cmds_sent

NoCmd == UNCHANGED cmdVars

DoomedByNewId_OnceConnected == dtls.state = "CONNECTED"   \* mutant

\* if (dtls_sessid_changed && vpninfo->dtls_state > DTLS_SLEEPING)
DoomedByNewId == dtls.state \in AboveSleeping

\* The return to cstp_mainloop after a successful (or paused) reconnect:
\* "succeeded, let's rekey DTLS, if it is not rekeying itself".
NeedsDtlsRekey == dtls.state \in AboveSleeping /\ DtlsRekey = "NONE"

\* start_cstp_connection takes over what the response says; whole, when the
\* reconnect then goes on to do_dtls_reconnect.
ParseConnectResponse(whole) ==
  /\ cstp_compr' \in ServerCompr
  /\ dtls_compr' \in ServerDtlsCompr
  /\ \E new \in BOOLEAN :
       /\ new => dtls_session_id < MaxSess
       /\ dtls_session_id' = dtls_session_id + (IF new THEN 1 ELSE 0)
       /\ dtls_need_reconnect' = \/ dtls_need_reconnect
                                 \/ new /\ DoomedByNewId
                                 \/ whole /\ NeedsDtlsRekey

\* return ret out of ssl_reconnect, up to cstp_mainloop's "Reconnect failed"
ReconnectFailed(err) ==
  /\ Quit("CSTP reconnect failed", err)
  /\ rtimeout' = 0 /\ rinterval' = 0
  /\ UNCHANGED did_work

NotReconnect == UNCHANGED <<dtls, dtls_write_monitored, cstpVars, sendVars,
                            recvVars, tunVars, bye_sent>>

NeedsBuffer_CstpOnly == cstp_compr' # "NONE"   \* mutant: forgets DTLS

\* compr_type = cstp_compr | dtls_compr
NeedsBuffer == cstp_compr' # "NONE" \/ dtls_compr'

\* The end of cstp_connect: a codec or an MTU that needs a larger buffer has
\* deflate_pkt freed and a new, empty one allocated.  A record still to be
\* written from the old one is not looked at: current_ssl_pkt then points to
\* freed memory, unless malloc returns the address that was freed.
NewDeflateBuffer ==
  \E bufsize \in IF NeedsBuffer THEN BufSizes ELSE {0} :
    IF bufsize > deflate_pkt_size
      THEN /\ deflate_pkt_size' = bufsize
           /\ deflate_pkt' = NULL
           /\ current_ssl_pkt' \in IF current_ssl_pkt \in {DEFLATE_PKT, FREED_PKT}
                                     THEN {DEFLATE_PKT, FREED_PKT}
                                     ELSE {current_ssl_pkt}
      ELSE UNCHANGED <<bufferVars, current_ssl_pkt>>

\* tcp_connect returned 0
ConnectOk ==
  /\ pc = "connect" /\ ~GotCmd
  /\ ssl_open' = TRUE
  /\ ParseConnectResponse(TRUE)
  /\ NewDeflateBuffer
  /\ rtimeout' = 0 /\ rinterval' = 0
  /\ did_work' = TRUE
  /\ ReturnToLoop
  /\ NoCmd
  /\ UNCHANGED <<dtls, dtls_write_monitored, pending_deflated_pkt,
                 owe_ssl_dpd_response, outgoing_queue, sentVars, recvVars, tunVars,
                 bye_sent, quit_reason, ret>>

\* tcp_connect returned an error; cstp_connect has closed the connection.
ConnectError(err) ==
  IF rtimeout <= 0 \/ err = "EPERM"
    THEN ReconnectFailed(err)
    ELSE /\ pc' = "backoff"
         /\ UNCHANGED <<quit_reason, ret, retryVars, did_work>>

\* No connection, a 401 or another refusal, or an unusable response, whose
\* headers have been taken over before it was found unusable.
ConnectFail ==
  /\ pc = "connect"
  /\ \/ /\ \E err \in {"EPERM", "EINVAL"} : ConnectError(err)
        /\ UNCHANGED <<negotiated, dtls_need_reconnect>>
     \/ /\ ConnectError("EINVAL")
        /\ ParseConnectResponse(FALSE)
  /\ NotReconnect /\ NoCmd /\ UNCHANGED ssl_open

\* is_cancel_pending interrupts a connect, handshake or read; a command that
\* was read earlier (during a rehandshake) does so too.
ConnectInterrupted ==
  /\ pc = "connect"
  /\ \/ CmdPending /\ check_cmd_fd
     \/ ~CmdPending /\ GotCmd /\ NoCmd
  /\ IF got_cancel_cmd' \/ got_pause_cmd'
       THEN /\ ConnectError("EINTR")
            /\ \/ ParseConnectResponse(FALSE)
               \/ UNCHANGED <<negotiated, dtls_need_reconnect>>
       ELSE UNCHANGED <<pc, quit_reason, ret, retryVars, did_work, negotiated,
                        dtls_need_reconnect>>
  /\ NotReconnect /\ UNCHANGED ssl_open

\* poll_cmd_fd(vpninfo, interval) reads a byte while no flag is set ...
BackoffCmd ==
  /\ pc = "backoff" /\ ~GotCmd /\ CmdPending
  /\ check_cmd_fd
  /\ NotReconnect
  /\ UNCHANGED <<pc, negotiated, dtls_need_reconnect, ssl_open, quit_reason,
                 ret, retryVars, did_work>>

\* ... or the interval passes, and the next attempt starts.
BackoffExpire ==
  LET next == rinterval + ReconnectInterval IN
  /\ pc = "backoff" /\ ~GotCmd
  /\ rtimeout' = rtimeout - rinterval
  /\ rinterval' = IF next > ReconnectIntervalMax THEN ReconnectIntervalMax ELSE next
  /\ pc' = "connect"
  /\ NotReconnect /\ NoCmd
  /\ UNCHANGED <<negotiated, dtls_need_reconnect, ssl_open, quit_reason, ret, did_work>>

\* mutant: tries once more
BackoffCancelled_Retries ==
  /\ pc = "backoff" /\ got_cancel_cmd
  /\ pc' = "connect"
  /\ NotReconnect /\ NoCmd
  /\ UNCHANGED <<negotiated, dtls_need_reconnect, ssl_open, quit_reason, ret,
                 retryVars, did_work>>

\* if (vpninfo->got_cancel_cmd) return -EINTR;
BackoffCancelled ==
  /\ pc = "backoff" /\ got_cancel_cmd
  /\ ReconnectFailed("EINTR")
  /\ NotReconnect /\ NoCmd
  /\ UNCHANGED <<negotiated, dtls_need_reconnect, ssl_open>>

\* if (vpninfo->got_pause_cmd) return 0;
BackoffPaused ==
  /\ pc = "backoff" /\ ~got_cancel_cmd /\ got_pause_cmd
  /\ dtls_need_reconnect' = (dtls_need_reconnect \/ NeedsDtlsRekey)
  /\ rtimeout' = 0 /\ rinterval' = 0
  /\ did_work' = TRUE
  /\ ReturnToLoop
  /\ NotReconnect /\ NoCmd
  /\ UNCHANGED <<negotiated, ssl_open, quit_reason, ret>>

ssl_reconnect ==
  \/ ConnectOk \/ ConnectFail \/ ConnectInterrupted
  \/ BackoffCmd \/ BackoffExpire \/ BackoffCancelled \/ BackoffPaused
=============================================================================
