------------------------- MODULE MainloopProperties -------------------------
(***************************************************************************)
(* What openconnect_mainloop and its handlers are meant to guarantee.      *)
(***************************************************************************)
EXTENDS Mainloop, Functions

\* Every variable has the type its C counterpart can hold; the locals of
\* ssl_reconnect and the queues stay within the bounds of the model.
TypeOK ==
  /\ pc \in PcLabels
  /\ dtls \in [state : DtlsStates, fd : BOOLEAN, ssl : 0..MaxSess]
  /\ dtls_need_reconnect \in BOOLEAN /\ dtls_write_monitored \in BOOLEAN
  /\ dtls_session_id \in 1..MaxSess
  /\ dtls_compr \in BOOLEAN /\ cstp_compr \in Comprs
  /\ ssl_open \in BOOLEAN
  /\ current_ssl_pkt \in FREED_PKT..MaxTx
  /\ pending_deflated_pkt \in 0..MaxTx
  /\ deflate_pkt \in 0..MaxTx /\ deflate_pkt_size \in BufSizes \union {0}
  /\ owe_ssl_dpd_response \in BOOLEAN
  /\ outgoing_queue \in Seq(1..MaxTx) /\ incoming_queue \in Seq(1..MaxRx)
  /\ tun_up \in BOOLEAN /\ tun_monitored \in BOOLEAN
  /\ cmd_pipe \in Seq(Commands) /\ cmds_sent \in 0..MaxCmds
  /\ got_cancel_cmd \in BOOLEAN /\ got_pause_cmd \in BOOLEAN
  /\ cancel_type \in {"NONE", "CANCEL", "DETACH"}
  /\ rtimeout \in Int /\ rinterval \in Nat
  /\ quit_reason \in QuitReasons /\ ret \in Results /\ did_work \in BOOLEAN
  /\ tun_read \in 0..MaxTx /\ rx_count \in 0..MaxRx
  /\ cstp_sent \in Seq(0..MaxTx) /\ dtls_sent \in Seq(1..MaxTx)
  /\ cstp_lost \in Seq(1..MaxTx)
  /\ tun_written \in Seq(1..MaxRx)
  /\ bye_sent \in BOOLEAN

\* The DTLS socket, its session and dtls_state agree: dtls_close tests
\* dtls_ssl, connect_dtls_socket tests dtls_fd, and everybody else the state.
\* A path on which they disagree leaks the socket, or lets the handshake and
\* the send loop use a session that is gone.
DtlsResources ==
  /\ dtls.fd <=> dtls.ssl # NULL
  /\ dtls.fd <=> dtls.state \in AboveSleeping

\* No DTLS session survives the CSTP session that keyed it: one made under
\* an older session id is marked for reconnection, through failed attempts,
\* pauses and rekeys.
DtlsSessionFresh ==
  dtls.ssl \notin {NULL, dtls_session_id} => dtls_need_reconnect

\* And no data is ever sent over such a stale session.
NoStaleDtlsSend ==
  [][dtls_sent' # dtls_sent => dtls.ssl = dtls_session_id]_vars

InFlight ==
  (IF current_ssl_pkt > 0 THEN {current_ssl_pkt} ELSE {})
    \union (IF current_ssl_pkt \in {DEFLATE_PKT, FREED_PKT}
              THEN {pending_deflated_pkt} ELSE {})

\* Every packet read from tun is in exactly one place: queued, being written
\* to CSTP, sent once on one of the channels, or lost with a record whose
\* buffer a reconnect replaced.  Requeueing after a write error, the retry of a
\* partial CSTP write on a new connection, the buffer that both compressors
\* share, and the fallback from DTLS to CSTP neither lose nor duplicate one.
TxConserved ==
  /\ Range(outgoing_queue) \union InFlight \union Range(cstp_sent)
       \union Range(dtls_sent) \union Range(cstp_lost) = 1..tun_read
  /\ Len(outgoing_queue) + Len(cstp_sent) + Len(dtls_sent) + Len(cstp_lost)
       + (IF InFlight = {} THEN 0 ELSE 1) = tun_read

\* "If SSL_write() fails we are expected to try again. With exactly the same
\* data, at exactly the same location. So we keep the packet we had before"
\* (cstp.c:1029): a compressed record that is still to be written is in the
\* shared buffer as it was, through DTLS compression, requeueing and reconnects.
RecordIntact ==
  current_ssl_pkt \in {DEFLATE_PKT, FREED_PKT} =>
    current_ssl_pkt = DEFLATE_PKT /\ deflate_pkt = pending_deflated_pkt

\* "If *any* compression is enabled, we'll need a deflate_pkt to compress into"
\* (cstp.c:711): whatever responses came and failed before, neither channel
\* takes a packet to compress while there is no buffer.
CompressorHasBuffer ==
  pc \in {"udp_send", "tcp_queue"} /\ (dtls_compr \/ cstp_compr # "NONE")
    => deflate_pkt_size > 0

Increasing(s) == \A i, j \in 1..Len(s) : i < j => s[i] < s[j]

\* Each channel carries its packets in the order in which tun delivered them,
\* whatever reconnects and fallbacks happened in between.  (Not with the
\* stream compressor: cstp_reconnect puts its packet at the queue's tail.)
ChannelOrder == Increasing(cstp_sent) /\ Increasing(dtls_sent)

\* What the server sent reaches tun at most once and in the order in which
\* it came, over both channels and through full devices.
RxInOrder == Increasing(tun_written \o incoming_queue)

\* "-Q, --queue-len=LEN: Set packet queue limit to LEN pkts"
\* (wrapper/open_connect.cpp:806)
QueueLimit == Len(outgoing_queue) <= MaxQlen

\* The loop never sleeps deaf to tun: it stops reading only while the queue
\* is full, so that draining the queue is what starts it again.
Backpressure ==
  pc = "select" /\ tun_up =>
    (tun_monitored <=> Len(outgoing_queue) < MaxQlen)

\* While CSTP carries the data, the loop never sleeps on queued packets
\* unless CSTP waits to finish a write, whose progress wakes it.
CstpWakeup ==
  pc = "select" /\ outgoing_queue # <<>> /\ dtls.state # "CONNECTED"
    => current_ssl_pkt # NULL

\* "PAUSE closes network connections and returns" (openconnect.h:323), also
\* when it arrives in the middle of a reconnect.
PauseClosesConnections == pc = "paused" => ~ssl_open /\ ~dtls.fd

\* Another end than the user's, after which vpn_close_session logs off.
EndedByOthers == {"Server request", "Protocol error", "Internal error",
                  "Client connection terminated"}

\* When the loop has returned the tun device is shut down; and "a new instance of
\* openconnect can be started using the same cookie" (openconnect.h:325) after a
\* DETACH: the session is not logged off, even when the command is noticed inside
\* a reconnect that then fails -- unless the loop ended for another reason before
\* it obeyed a command read in the MTU detection of the same pass.
DetachKeepsCookie ==
  pc = "done" =>
    /\ ~tun_up
    /\ cancel_type = "DETACH" /\ bye_sent => quit_reason \in EndedByOthers

\* What the loop does with each packet read from tun implements TunnelAbs.
Tunnel == INSTANCE TunnelAbs
            WITH taken <- tun_read,
                 sent <- Range(cstp_sent) \union Range(dtls_sent),
                 sends <- Len(cstp_sent) + Len(dtls_sent)
TunnelSpec == Tunnel!Spec
-----------------------------------------------------------------------------
\* The loop keeps running, and neither a channel that always has something
\* more to read nor a timer that is always due starves it: the sockets run
\* dry, a DPD or keepalive just sent is not due again (for a DPD period of two
\* seconds or more: module Keepalive), and select returns at once when a
\* command is waiting.
Fairness ==
  /\ WF_vars(openconnect_mainloop /\ pc # "select")
  /\ WF_vars(Wake /\ CmdPending)
  /\ SF_vars(DtlsRecv /\ pc' # "udp")
  /\ SF_vars(CstpReadEmpty)
  /\ SF_vars(CstpKeepalive /\ pc' = "tcp_queue")

FairSpec == Spec /\ Fairness

\* A CANCEL on the pipe ends the loop, whatever it is doing: connecting,
\* backing off, paused, stalled on a full socket, or asleep.
CancelEnds == \A i \in 1..MaxCmds :
  (Len(cmd_pipe) >= i /\ cmd_pipe[i] = "CANCEL") ~> pc = "done"

\* A PAUSE on the pipe is obeyed (or overtaken by the end of the session).
PauseObeyed == \A i \in 1..MaxCmds :
  (Len(cmd_pipe) >= i /\ cmd_pipe[i] = "PAUSE") ~> pc \in {"paused", "done"}
=============================================================================
