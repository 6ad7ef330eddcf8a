------------------------------ MODULE Mainloop ------------------------------
(***************************************************************************)
(* openconnect_mainloop of mainloop.c and the loop around it in            *)
(* main_openconnect: one pass services the DTLS channel, the CSTP channel, *)
(* the tun device and the command pipe, in this order, and sleeps in       *)
(* select when there was nothing to do.                                    *)
(***************************************************************************)
EXTENDS Dtls, Cstp

Init ==
  /\ pc = "loop"
  /\ ssl_open = TRUE
  /\ dtls_session_id = 1
  /\ cstp_compr \in ServerCompr /\ dtls_compr \in ServerDtlsCompr
  /\ \E o \in dtls_setup : dtls = o.dtls
  /\ dtls_need_reconnect = FALSE
  /\ dtls_write_monitored = FALSE
  /\ current_ssl_pkt = NULL /\ pending_deflated_pkt = NULL /\ deflate_pkt = NULL
  /\ deflate_pkt_size \in IF cstp_compr # "NONE" \/ dtls_compr THEN BufSizes ELSE {0}
  /\ owe_ssl_dpd_response = FALSE
  /\ outgoing_queue = <<>> /\ incoming_queue = <<>>
  /\ tun_up = FALSE /\ tun_monitored = FALSE
  /\ cmd_pipe = <<>> /\ cmds_sent = 0
  /\ got_cancel_cmd = FALSE /\ cancel_type = "NONE" /\ got_pause_cmd = FALSE
  /\ rtimeout = 0 /\ rinterval = 0
  /\ quit_reason = "NONE" /\ ret = "0" /\ did_work = FALSE
  /\ tun_read = 0 /\ cstp_sent = <<>> /\ dtls_sent = <<>> /\ cstp_lost = <<>>
  /\ rx_count = 0 /\ tun_written = <<>>
  /\ bye_sent = FALSE
-----------------------------------------------------------------------------
NotLoop == UNCHANGED <<dtls, dtls_need_reconnect, negotiated, cstpVars,
                       retryVars, cmds_sent, rx_count>>

\* The head of the loop.  The tun device is set up once DTLS has settled,
\* connected or given up for now; without DTLS, at once.
NextHandler == IF dtls.state \in AboveDisabled THEN "udp" ELSE "tcp"

NeedsTun == ~tun_up /\ dtls.state # "CONNECTING"

LoopStart ==
  /\ pc = "loop"
  /\ \/ ~NeedsTun /\ UNCHANGED <<tun_up, tun_monitored>>
     \/ NeedsTun /\ tun_up' = TRUE /\ tun_monitored' = TRUE
  /\ pc' = NextHandler
  /\ did_work' = FALSE
  /\ NotLoop
  /\ UNCHANGED <<dtls_write_monitored, ssl_open, sendVars, recvVars, tun_read,
                 cmdVars, exitVars>>

\* "Set up tun device failed": the loop is left with the error.
TunSetupFailed ==
  /\ pc = "loop" /\ NeedsTun
  /\ ret' = "EIO"
  /\ pc' = "exit"
  /\ NotLoop
  /\ UNCHANGED <<dtls_write_monitored, ssl_open, sendVars, recvVars, tunVars,
                 cmdVars, quit_reason, bye_sent, did_work>>
-----------------------------------------------------------------------------
\* tun_mainloop without a tun device: what was received is dropped.
TunDown ==
  /\ pc = "tun_read" /\ ~tun_up
  /\ incoming_queue' = <<>>
  /\ pc' = "cmd"
  /\ NotLoop
  /\ UNCHANGED <<dtls_write_monitored, ssl_open, sendVars, tun_written, tunVars,
                 cmdVars, exitVars, did_work>>

QueueFull_Late(q) == Len(q) > MaxQlen                      \* mutant
QueueHasRoom_OnceEmpty == outgoing_queue = <<>>            \* mutant

QueueFull(q) == Len(q) = MaxQlen
QueueHasRoom == Len(outgoing_queue) < MaxQlen

\* One packet is read from tun; the reads stop when the queue is full.
TunRead ==
  /\ pc = "tun_read" /\ tun_up /\ tun_monitored
  /\ tun_read < MaxTx
  /\ tun_read' = tun_read + 1
  /\ outgoing_queue' = queue_packet(outgoing_queue, tun_read + 1)
  /\ did_work' = TRUE
  /\ IF QueueFull(outgoing_queue')
       THEN tun_monitored' = FALSE /\ pc' = "tun_write"
       ELSE UNCHANGED <<tun_monitored, pc>>
  /\ NotLoop
  /\ UNCHANGED <<dtls_write_monitored, ssl_open, bufferVars, sentVars,
                 incoming_queue, tun_written, tun_up, cmdVars, exitVars>>

\* Nothing more to read, or not reading: resume when the queue has room.
TunReadEnd ==
  /\ pc = "tun_read" /\ tun_up
  /\ tun_monitored' = (tun_monitored \/ QueueHasRoom)
  /\ pc' = "tun_write"
  /\ NotLoop
  /\ UNCHANGED <<dtls_write_monitored, ssl_open, sendVars, recvVars, tun_up,
                 tun_read, cmdVars, exitVars, did_work>>

\* The received packets go to tun until the device is full; one that it
\* refuses for another reason is dropped.
TunWrite ==
  /\ pc = "tun_write" /\ incoming_queue # <<>>
  /\ LET this == Head(incoming_queue)
         rest == dequeue_packet(incoming_queue)
     IN  \/ /\ tun_written' \in {Append(tun_written, this), tun_written}
            /\ incoming_queue' = rest
            /\ UNCHANGED pc
         \/ /\ incoming_queue' = requeue_packet(rest, this)
            /\ pc' = "cmd"
            /\ UNCHANGED tun_written
  /\ NotLoop
  /\ UNCHANGED <<dtls_write_monitored, ssl_open, sendVars, tunVars, cmdVars,
                 exitVars, did_work>>

\* "Handle death of "script" socket": --script-tun's program is gone.
TunClientGone ==
  /\ pc = "tun_write" /\ ScriptTun /\ incoming_queue # <<>>
  /\ Quit("Client connection terminated", "0")
  /\ NotLoop
  /\ UNCHANGED <<dtls_write_monitored, ssl_open, sendVars, recvVars, tunVars,
                 cmdVars, bye_sent, did_work>>

TunWriteDone ==
  /\ pc = "tun_write" /\ incoming_queue = <<>>
  /\ pc' = "cmd"
  /\ NotLoop
  /\ UNCHANGED <<dtls_write_monitored, ssl_open, sendVars, recvVars, tunVars,
                 cmdVars, exitVars, did_work>>
-----------------------------------------------------------------------------
\* poll_cmd_fd(vpninfo, 0): at most one byte is read, none if a command read
\* earlier has still to be obeyed.
PollCmd ==
  /\ pc = "cmd"
  /\ IF CmdPending /\ ~GotCmd THEN check_cmd_fd ELSE NoCmd
  /\ pc' = "obey"
  /\ NotLoop
  /\ UNCHANGED <<dtls_write_monitored, ssl_open, sendVars, recvVars, tunVars,
                 exitVars, did_work>>

\* mutant: quit_reason is set for both kinds of cancel
CancelReason_Always == quit_reason' = "Aborted by caller"

CancelReason ==
  quit_reason' = IF cancel_type = "CANCEL" THEN "Aborted by caller" ELSE quit_reason

\* if (vpninfo->got_cancel_cmd)
ObeyCancel ==
  /\ pc = "obey" /\ got_cancel_cmd
  /\ CancelReason
  /\ ret' = IF cancel_type = "CANCEL" THEN "EINTR" ELSE "ECONNABORTED"
  /\ got_cancel_cmd' = FALSE
  /\ pc' = "exit"
  /\ NotLoop
  /\ UNCHANGED <<dtls_write_monitored, ssl_open, sendVars, recvVars, tunVars,
                 cmd_pipe, cancel_type, got_pause_cmd, bye_sent, did_work>>

PauseClosesDtls_OnceConnected == dtls.state = "CONNECTED"  \* mutant

PauseClosesDtls == dtls.state \in AboveDisabled

\* if (vpninfo->got_pause_cmd): close all connections and return 0.
ObeyPause ==
  /\ pc = "obey" /\ ~got_cancel_cmd /\ got_pause_cmd
  /\ ssl_open' = FALSE
  /\ IF PauseClosesDtls
       THEN /\ dtls' = dtls_close(dtls)
            /\ dtls_write_monitored' = (dtls_write_monitored /\ dtls.ssl = NULL)
       ELSE UNCHANGED <<dtls, dtls_write_monitored>>
  /\ got_pause_cmd' = FALSE
  /\ pc' = "paused"
  /\ UNCHANGED <<dtls_need_reconnect, negotiated, cstpVars, retryVars, cmds_sent,
                 rx_count, sendVars, tun_written, incoming_queue, tunVars, cmd_pipe,
                 got_cancel_cmd, cancel_type, exitVars, did_work>>

\* if (did_work) continue; otherwise sleep.
ObeyNothing ==
  /\ pc = "obey" /\ ~GotCmd
  /\ pc' = IF did_work THEN "loop" ELSE "select"
  /\ NotLoop
  /\ UNCHANGED <<dtls_write_monitored, ssl_open, sendVars, recvVars, tunVars,
                 cmd_pipe, got_cancel_cmd, cancel_type, got_pause_cmd, exitVars,
                 did_work>>

\* select returns: a command is there, a descriptor is ready, or the timeout
\* is over.
Wake ==
  /\ pc = "select"
  /\ pc' = "loop"
  /\ NotLoop
  /\ UNCHANGED <<dtls_write_monitored, ssl_open, sendVars, recvVars, tunVars,
                 cmd_pipe, got_cancel_cmd, cancel_type, got_pause_cmd, exitVars,
                 did_work>>

\* while (1) in main_openconnect: "User requested reconnect"
Resume ==
  /\ pc = "paused"
  /\ pc' = "loop"
  /\ NotLoop
  /\ UNCHANGED <<dtls_write_monitored, ssl_open, sendVars, recvVars, tunVars,
                 cmd_pipe, got_cancel_cmd, cancel_type, got_pause_cmd, exitVars,
                 did_work>>

\* After the loop: vpn_close_session logs off if there is a reason and still
\* a connection (cstp_bye), and the tun device is shut down.
Exit ==
  /\ pc = "exit"
  /\ bye_sent' = (quit_reason # "NONE" /\ ssl_open)
  /\ tun_up' = FALSE
  /\ tun_monitored' = FALSE
  /\ ret' = IF ret = "0" THEN "EIO" ELSE ret
  /\ pc' = "done"
  /\ NotLoop
  /\ UNCHANGED <<dtls_write_monitored, ssl_open, sendVars, recvVars, tun_read,
                 cmd_pipe, got_cancel_cmd, cancel_type, got_pause_cmd,
                 quit_reason, did_work>>
-----------------------------------------------------------------------------
\* handle_signal, or the application, writes a command byte.
SendCmd ==
  /\ pc \notin Ended
  /\ cmds_sent < MaxCmds
  /\ \E c \in Commands : cmd_pipe' = Append(cmd_pipe, c)
  /\ cmds_sent' = cmds_sent + 1
  /\ UNCHANGED <<pc, dtlsVars, negotiated, ssl_open, cstpVars, sendVars, recvVars,
                 tunVars, got_cancel_cmd, cancel_type, got_pause_cmd, retryVars,
                 exitVars, did_work>>

tun_mainloop ==
  TunDown \/ TunRead \/ TunReadEnd \/ TunWrite \/ TunClientGone \/ TunWriteDone

openconnect_mainloop ==
  \/ LoopStart \/ TunSetupFailed
  \/ dtls_mainloop \/ cstp_mainloop \/ tun_mainloop
  \/ PollCmd \/ ObeyCancel \/ ObeyPause \/ ObeyNothing
  \/ Wake \/ Resume \/ Exit

Terminated == pc \in Ended /\ UNCHANGED vars

Next == openconnect_mainloop \/ SendCmd \/ Terminated

Spec == Init /\ [][Next]_vars
=============================================================================
