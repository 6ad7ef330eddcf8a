------------------------- MODULE MainloopTypeProofs -------------------------
(***************************************************************************)
(* Type correctness of the packet loop, for every configuration and bound: *)
(* TLAPS proofs.  The invariant is split by the prover that handles it.    *)
(***************************************************************************)
EXTENDS MainloopProofs

\* The Boolean variables
Flags ==
  /\ dtls_need_reconnect \in BOOLEAN /\ dtls_write_monitored \in BOOLEAN
  /\ dtls_compr \in BOOLEAN /\ ssl_open \in BOOLEAN
  /\ owe_ssl_dpd_response \in BOOLEAN
  /\ tun_up \in BOOLEAN /\ tun_monitored \in BOOLEAN
  /\ got_cancel_cmd \in BOOLEAN /\ got_pause_cmd \in BOOLEAN
  /\ did_work \in BOOLEAN /\ bye_sent \in BOOLEAN

\* The variables over a set of names
Labels ==
  /\ pc \in PcLabels
  /\ cstp_compr \in Comprs
  /\ cancel_type \in {"NONE", "CANCEL", "DETACH"}
  /\ quit_reason \in QuitReasons /\ ret \in Results
-----------------------------------------------------------------------------
\* The Boolean variables stay Boolean through each handler.
LEMMA DtlsKeepsFlags == Flags /\ dtls_mainloop => Flags'
<1> SUFFICES ASSUME Flags, dtls_mainloop PROVE Flags'
  OBVIOUS
<1> USE DEF Flags, NotDtls, dtlsVars, negotiated, cstpVars, sendVars, recvVars,
        tunVars, cmdVars
<1>1. CASE DtlsNeedReconnect
  BY <1>1, Zenon DEF DtlsNeedReconnect, BecomeDtls
<1>2. CASE DtlsConnecting
  BY <1>2, Zenon DEF DtlsConnecting, BecomeDtls
<1>3. CASE DtlsSleeping
  BY <1>3, Zenon DEF DtlsSleeping, BecomeDtls
<1>4. CASE DtlsRecv
  BY <1>4, Zenon DEF DtlsRecv
<1>5. CASE DtlsKeepalive
  BY <1>5, Zenon DEF DtlsKeepalive, BecomeDtls
<1>6. CASE DtlsRekeyFailed
  BY <1>6, Zenon DEF DtlsRekeyFailed, BecomeDtls
<1>7. CASE DtlsSend
  BY <1>7, Zenon DEF DtlsSend, BecomeDtls
<1>8. CASE DtlsSendDone
  BY <1>8, Zenon DEF DtlsSendDone
<1>9. CASE DetectMtuCmd
  BY <1>9, Zenon DEF DetectMtuCmd, check_cmd_fd, exitVars
<1>10. CASE DetectMtuDone
  BY <1>10, Zenon DEF DetectMtuDone
<1> QED
  BY <1>1, <1>2, <1>3, <1>4, <1>5, <1>6, <1>7, <1>8, <1>9, <1>10 DEF dtls_mainloop

LEMMA ReconnectKeepsFlags == Flags /\ ssl_reconnect => Flags'
<1> SUFFICES ASSUME Flags, ssl_reconnect PROVE Flags'
  OBVIOUS
<1> USE DEF Flags, NotReconnect, negotiated, cstpVars, sendVars, recvVars,
        tunVars, cmdVars
<1>1. CASE ConnectOk
  BY <1>1, ConfigAssumption, Zenon DEF ConnectOk, ParseConnectResponse, NoCmd
<1>2. CASE ConnectFail
  BY <1>2, ConfigAssumption, Zenon
  DEF ConnectFail, ConnectError, ReconnectFailed, ParseConnectResponse, NoCmd
<1>3. CASE ConnectInterrupted
  BY <1>3, ConfigAssumption, Zenon
  DEF ConnectInterrupted, ConnectError, ReconnectFailed, ParseConnectResponse,
      NoCmd, check_cmd_fd
<1>4. CASE BackoffCmd
  BY <1>4, Zenon DEF BackoffCmd, check_cmd_fd
<1>5. CASE BackoffExpire
  BY <1>5, Zenon DEF BackoffExpire, NoCmd
<1>6. CASE BackoffCancelled
  BY <1>6, Zenon DEF BackoffCancelled, ReconnectFailed, NoCmd
<1>7. CASE BackoffPaused
  BY <1>7, Zenon DEF BackoffPaused, NoCmd
<1> QED
  BY <1>1, <1>2, <1>3, <1>4, <1>5, <1>6, <1>7 DEF ssl_reconnect

LEMMA CstpKeepsFlags == Flags /\ cstp_mainloop => Flags'
<1> SUFFICES ASSUME Flags, cstp_mainloop PROVE Flags'
  OBVIOUS
<1> USE DEF Flags, NotCstp, dtlsVars, negotiated, cstpVars, sendVars, recvVars,
        tunVars, cmdVars, ReturnToLoop
<1>0. DoReconnect => /\ UNCHANGED <<owe_ssl_dpd_response, did_work>>
                     /\ ssl_open' = FALSE \/ ssl_open' = ssl_open
  BY Zenon DEF DoReconnect
<1>1. CASE CstpClosed
  BY <1>0, <1>1, Zenon DEF CstpClosed
<1>2. CASE CstpReadEmpty
  BY <1>2, Zenon DEF CstpReadEmpty
<1>3. CASE CstpReadError
  BY <1>0, <1>3, Zenon DEF CstpReadError
<1>4. CASE CstpRead
  BY <1>4, Zenon DEF CstpRead
<1>5. CASE CstpWriteOk
  BY <1>5, Zenon DEF CstpWriteOk
<1>6. CASE CstpWriteStalled
  BY <1>0, <1>6, Zenon DEF CstpWriteStalled
<1>7. CASE CstpWriteError
  BY <1>0, <1>7, Zenon DEF CstpWriteError
<1>8. CASE CstpWriteShort
  BY <1>8, Zenon DEF CstpWriteShort
<1>9. CASE CstpDpdResponse
  BY <1>9, Zenon DEF CstpDpdResponse
<1>10. CASE CstpKeepalive
  BY <1>0, <1>10, Zenon DEF CstpKeepalive
<1>11. CASE CstpRekeyTunnel
  BY <1>0, <1>11, Zenon DEF CstpRekeyTunnel
<1>12. CASE CstpRekeyInterrupted
  BY <1>0, <1>12, Zenon DEF CstpRekeyInterrupted, check_cmd_fd
<1>13. CASE CstpRekeySsl
  BY <1>13, Zenon DEF CstpRekeySsl, DoDtlsReconnect, NoCmd
<1>14. CASE CstpNextPacket
  BY <1>14, Zenon DEF CstpNextPacket
<1>15. CASE CstpDone
  BY <1>15, Zenon DEF CstpDone
<1>16. CASE CstpWriteFreed
  BY <1>16, Zenon DEF CstpWriteFreed
<1> QED
  BY <1>1, <1>2, <1>3, <1>4, <1>5, <1>6, <1>7, <1>8, <1>9, <1>10, <1>11, <1>12,
     <1>13, <1>14, <1>15, <1>16, ReconnectKeepsFlags DEF cstp_mainloop

LEMMA TunKeepsFlags == Flags /\ tun_mainloop => Flags'
<1> SUFFICES ASSUME Flags, tun_mainloop PROVE Flags'
  OBVIOUS
<1> USE DEF Flags, NotLoop, negotiated, cstpVars, sendVars, recvVars, tunVars,
        cmdVars, exitVars
<1>1. CASE TunDown
  BY <1>1, Zenon DEF TunDown
<1>2. CASE TunRead
  BY <1>2, Zenon DEF TunRead
<1>3. CASE TunReadEnd
  BY <1>3, Zenon DEF TunReadEnd
<1>4. CASE TunWrite
  BY <1>4, Zenon DEF TunWrite
<1>5. CASE TunClientGone
  BY <1>5, Zenon DEF TunClientGone
<1>6. CASE TunWriteDone
  BY <1>6, Zenon DEF TunWriteDone
<1> QED
  BY <1>1, <1>2, <1>3, <1>4, <1>5, <1>6 DEF tun_mainloop

LEMMA LoopKeepsFlags ==
  ASSUME Flags,
         \/ LoopStart \/ TunSetupFailed \/ PollCmd \/ ObeyCancel \/ ObeyPause
         \/ ObeyNothing \/ Wake \/ Resume \/ Exit \/ SendCmd
  PROVE  Flags'
<1> USE DEF Flags, NotLoop, negotiated, cstpVars, sendVars, recvVars, tunVars,
        cmdVars, exitVars, dtlsVars
<1>1. CASE LoopStart
  BY <1>1, Zenon DEF LoopStart
<1>2. CASE TunSetupFailed
  BY <1>2, Zenon DEF TunSetupFailed
<1>3. CASE PollCmd
  BY <1>3, Zenon DEF PollCmd, NoCmd, check_cmd_fd
<1>4. CASE ObeyCancel
  BY <1>4, Zenon DEF ObeyCancel
<1>5. CASE ObeyPause
  BY <1>5, Zenon DEF ObeyPause
<1>6. CASE ObeyNothing
  BY <1>6, Zenon DEF ObeyNothing
<1>7. CASE Wake
  BY <1>7, Zenon DEF Wake
<1>8. CASE Resume
  BY <1>8, Zenon DEF Resume
<1>9. CASE Exit
  BY <1>9, Zenon DEF Exit
<1>10. CASE SendCmd
  BY <1>10, SMT DEF SendCmd
<1> QED
  BY <1>1, <1>2, <1>3, <1>4, <1>5, <1>6, <1>7, <1>8, <1>9, <1>10

\* The enumerations stay enumerations through each handler.
LEMMA DtlsKeepsLabels == Labels /\ dtls_mainloop => Labels'
<1> SUFFICES ASSUME Labels, dtls_mainloop PROVE Labels'
  OBVIOUS
<1> USE DEF Labels, PcLabels, Comprs, QuitReasons, Results, NotDtls, dtlsVars,
        negotiated, cstpVars, sendVars, recvVars, tunVars, cmdVars
<1>0. \A o : AfterHandshake(o) \in {"detect_mtu", "tcp"}
  BY DEF AfterHandshake
<1>1. CASE DtlsNeedReconnect
  BY <1>1, Zenon DEF DtlsNeedReconnect
<1>2. CASE DtlsConnecting
  BY <1>0, <1>2, Zenon DEF DtlsConnecting
<1>3. CASE DtlsSleeping
  BY <1>3, Zenon DEF DtlsSleeping
<1>4. CASE DtlsRecv
  BY <1>4, Zenon DEF DtlsRecv, Quit
<1>5. CASE DtlsKeepalive
  BY <1>0, <1>5, Zenon DEF DtlsKeepalive
<1>6. CASE DtlsRekeyFailed
  BY <1>6, Zenon DEF DtlsRekeyFailed
<1>7. CASE DtlsSend
  BY <1>7, Zenon DEF DtlsSend
<1>8. CASE DtlsSendDone
  BY <1>8, Zenon DEF DtlsSendDone
<1>9. CASE DetectMtuCmd
  BY <1>9, Zenon DEF DetectMtuCmd, check_cmd_fd, exitVars
<1>10. CASE DetectMtuDone
  BY <1>10, Zenon DEF DetectMtuDone
<1> QED
  BY <1>1, <1>2, <1>3, <1>4, <1>5, <1>6, <1>7, <1>8, <1>9, <1>10 DEF dtls_mainloop

LEMMA ReconnectKeepsLabels == Labels /\ ssl_reconnect => Labels'
<1> SUFFICES ASSUME Labels, ssl_reconnect PROVE Labels'
  OBVIOUS
<1> USE DEF Labels, PcLabels, Comprs, QuitReasons, Results, NotReconnect,
        negotiated, cstpVars, sendVars, recvVars, tunVars, cmdVars
<1>1. CASE ConnectOk
  BY <1>1, ConfigAssumption, Zenon
  DEF ConnectOk, ParseConnectResponse, ReturnToLoop, NoCmd
<1>2. CASE ConnectFail
  BY <1>2, ConfigAssumption, Zenon
  DEF ConnectFail, ConnectError, ReconnectFailed, Quit, ParseConnectResponse,
      NoCmd
<1>3. CASE ConnectInterrupted
  BY <1>3, ConfigAssumption, Zenon
  DEF ConnectInterrupted, ConnectError, ReconnectFailed, Quit,
      ParseConnectResponse, NoCmd, check_cmd_fd
<1>4. CASE BackoffCmd
  BY <1>4, Zenon DEF BackoffCmd, check_cmd_fd
<1>5. CASE BackoffExpire
  BY <1>5, Zenon DEF BackoffExpire, NoCmd
<1>6. CASE BackoffCancelled
  BY <1>6, Zenon DEF BackoffCancelled, ReconnectFailed, Quit, NoCmd
<1>7. CASE BackoffPaused
  BY <1>7, Zenon DEF BackoffPaused, ReturnToLoop, NoCmd
<1> QED
  BY <1>1, <1>2, <1>3, <1>4, <1>5, <1>6, <1>7 DEF ssl_reconnect

LEMMA CstpKeepsLabels == Labels /\ cstp_mainloop => Labels'
<1> SUFFICES ASSUME Labels, cstp_mainloop PROVE Labels'
  OBVIOUS
<1> USE DEF Labels, PcLabels, Comprs, QuitReasons, Results, NotCstp, dtlsVars,
        negotiated, cstpVars, sendVars, recvVars, tunVars, cmdVars,
        DoReconnect, ReturnToLoop
<1>1. CASE CstpClosed
  BY <1>1, Zenon DEF CstpClosed
<1>2. CASE CstpReadEmpty
  BY <1>2, Zenon DEF CstpReadEmpty
<1>3. CASE CstpReadError
  BY <1>3, Zenon DEF CstpReadError
<1>4. CASE CstpRead
  BY <1>4, Zenon DEF CstpRead, Quit
<1>5. CASE CstpWriteOk
  BY <1>5, Zenon DEF CstpWriteOk
<1>6. CASE CstpWriteStalled
  BY <1>6, Zenon DEF CstpWriteStalled
<1>7. CASE CstpWriteError
  BY <1>7, Zenon DEF CstpWriteError
<1>8. CASE CstpWriteShort
  BY <1>8, Zenon DEF CstpWriteShort, Quit
<1>9. CASE CstpDpdResponse
  BY <1>9, Zenon DEF CstpDpdResponse
<1>10. CASE CstpKeepalive
  BY <1>10, Zenon DEF CstpKeepalive
<1>11. CASE CstpRekeyTunnel
  BY <1>11, Zenon DEF CstpRekeyTunnel
<1>12. CASE CstpRekeyInterrupted
  BY <1>12, Zenon DEF CstpRekeyInterrupted, check_cmd_fd
<1>13. CASE CstpRekeySsl
  BY <1>13, Zenon DEF CstpRekeySsl, DoDtlsReconnect, NoCmd
<1>14. CASE CstpNextPacket
  BY <1>14, Zenon DEF CstpNextPacket
<1>15. CASE CstpDone
  BY <1>15, Zenon DEF CstpDone
<1>16. CASE CstpWriteFreed
  BY <1>16, Zenon DEF CstpWriteFreed
<1> QED
  BY <1>1, <1>2, <1>3, <1>4, <1>5, <1>6, <1>7, <1>8, <1>9, <1>10, <1>11, <1>12,
     <1>13, <1>14, <1>15, <1>16, ReconnectKeepsLabels DEF cstp_mainloop

LEMMA TunKeepsLabels == Labels /\ tun_mainloop => Labels'
<1> SUFFICES ASSUME Labels, tun_mainloop PROVE Labels'
  OBVIOUS
<1> USE DEF Labels, PcLabels, Comprs, QuitReasons, Results, NotLoop,
        negotiated, cstpVars, sendVars, recvVars, tunVars, cmdVars, exitVars
<1>1. CASE TunDown
  BY <1>1, Zenon DEF TunDown
<1>2. CASE TunRead
  BY <1>2, Zenon DEF TunRead
<1>3. CASE TunReadEnd
  BY <1>3, Zenon DEF TunReadEnd
<1>4. CASE TunWrite
  BY <1>4, Zenon DEF TunWrite
<1>5. CASE TunClientGone
  BY <1>5, Zenon DEF TunClientGone, Quit
<1>6. CASE TunWriteDone
  BY <1>6, Zenon DEF TunWriteDone
<1> QED
  BY <1>1, <1>2, <1>3, <1>4, <1>5, <1>6 DEF tun_mainloop

LEMMA LoopKeepsLabels ==
  ASSUME Labels,
         \/ LoopStart \/ TunSetupFailed \/ PollCmd \/ ObeyCancel \/ ObeyPause
         \/ ObeyNothing \/ Wake \/ Resume \/ Exit \/ SendCmd
  PROVE  Labels'
<1> USE DEF Labels, PcLabels, Comprs, QuitReasons, Results, NotLoop,
        negotiated, cstpVars, sendVars, recvVars, tunVars, cmdVars, exitVars,
        dtlsVars
<1>1. CASE LoopStart
  BY <1>1, Zenon DEF LoopStart, NextHandler
<1>2. CASE TunSetupFailed
  BY <1>2, Zenon DEF TunSetupFailed
<1>3. CASE PollCmd
  BY <1>3, Zenon DEF PollCmd, NoCmd, check_cmd_fd
<1>4. CASE ObeyCancel
  BY <1>4, Zenon DEF ObeyCancel, CancelReason
<1>5. CASE ObeyPause
  BY <1>5, Zenon DEF ObeyPause
<1>6. CASE ObeyNothing
  BY <1>6, Zenon DEF ObeyNothing
<1>7. CASE Wake
  BY <1>7, Zenon DEF Wake
<1>8. CASE Resume
  BY <1>8, Zenon DEF Resume
<1>9. CASE Exit
  BY <1>9, Zenon DEF Exit
<1>10. CASE SendCmd
  <2>1. UNCHANGED <<pc, cstp_compr, cancel_type, quit_reason, ret>>
    BY <1>10 DEF SendCmd
  <2> QED
    BY <2>1
<1> QED
  BY <1>1, <1>2, <1>3, <1>4, <1>5, <1>6, <1>7, <1>8, <1>9, <1>10
-----------------------------------------------------------------------------
\* The packets on their way out
Outgoing ==
  /\ current_ssl_pkt \in FREED_PKT..MaxTx
  /\ current_ssl_pkt \in {DEFLATE_PKT, FREED_PKT} => pending_deflated_pkt # NULL
  /\ pending_deflated_pkt \in 0..MaxTx /\ deflate_pkt \in 0..MaxTx
  /\ outgoing_queue \in Seq(1..MaxTx)
  /\ tun_read \in 0..MaxTx
  /\ cstp_sent \in Seq(0..MaxTx) /\ dtls_sent \in Seq(1..MaxTx)
  /\ cstp_lost \in Seq(1..MaxTx)

\* The packets on their way in
Incoming ==
  /\ rx_count \in 0..MaxRx
  /\ incoming_queue \in Seq(1..MaxRx) /\ tun_written \in Seq(1..MaxRx)

\* The command pipe
Pipe == cmd_pipe \in Seq(Commands) /\ cmds_sent \in 0..MaxCmds

\* The locals of ssl_reconnect
Retry == rtimeout \in Int /\ rinterval \in Nat

\* The session ids handed out so far
Sessions == dtls_session_id \in 1..MaxSess /\ dtls.ssl \in 0..MaxSess

\* Which steps touch which part
WhoSteps ==
  /\ \/ UNCHANGED <<current_ssl_pkt, pending_deflated_pkt, deflate_pkt,
                    outgoing_queue, tun_read, sentVars>>
     \/ DtlsSend \/ CstpWriteOk \/ CstpWriteFreed \/ CstpDpdResponse
     \/ CstpKeepalive \/ CstpNextPacket \/ TunRead \/ ConnectOk
     \/ DoReconnect /\ UNCHANGED tun_read
  /\ UNCHANGED deflate_pkt_size \/ ConnectOk
  /\ \/ UNCHANGED recvVars
     \/ DtlsRecv \/ CstpRead \/ TunDown \/ TunWrite
  /\ \/ UNCHANGED <<cmd_pipe, cmds_sent>>
     \/ (CmdPending /\ check_cmd_fd) \/ SendCmd
  /\ UNCHANGED retryVars \/ ssl_reconnect \/ DoReconnect
  /\ \/ UNCHANGED <<dtls, dtls_session_id>>
     \/ dtls_mainloop \/ ssl_reconnect \/ ObeyPause

\* Every step of the loop moves the packets, the commands and the sessions
\* only as its handler says.
LEMMA Steps == [Next]_vars => WhoSteps
<1> SUFFICES ASSUME [Next]_vars PROVE WhoSteps
  OBVIOUS
<1> USE DEF WhoSteps, dtlsVars, negotiated, cstpVars, sendVars, bufferVars,
        sentVars, recvVars, tunVars, cmdVars
<1>0. DoReconnect => UNCHANGED <<recvVars, deflate_pkt_size>>
  BY DEF DoReconnect
<1>1. CASE dtls_mainloop
  <2> USE DEF NotDtls
  <2>1. CASE \/ DtlsNeedReconnect \/ DtlsConnecting \/ DtlsSleeping
             \/ DtlsKeepalive \/ DtlsRekeyFailed
    <3>1. NotDtls /\ UNCHANGED <<sendVars, recvVars>>
      BY <2>1 DEF DtlsNeedReconnect, DtlsConnecting, DtlsSleeping, DtlsKeepalive,
                  DtlsRekeyFailed
    <3> QED
      BY <1>1, <3>1
  <2>2. CASE DtlsRecv \/ DtlsSend \/ DtlsSendDone
    BY <1>1, <2>2 DEF DtlsRecv, DtlsSend, DtlsSendDone
  <2>3. CASE DetectMtuCmd \/ DetectMtuDone
    BY <1>1, <2>3 DEF DetectMtuCmd, DetectMtuDone
  <2> QED
    BY <1>1, <2>1, <2>2, <2>3 DEF dtls_mainloop
<1>2. CASE ssl_reconnect
  <2>1. CASE ConnectOk
    BY <1>2, <2>1 DEF ConnectOk, NoCmd
  <2>2. CASE ~ConnectOk
    <3>1. NotReconnect /\ (NoCmd \/ (CmdPending /\ check_cmd_fd))
      BY <1>2, <2>2 DEF ssl_reconnect, ConnectFail, ConnectInterrupted, BackoffCmd,
                        BackoffExpire, BackoffCancelled, BackoffPaused
    <3> QED
      BY <1>2, <3>1 DEF NotReconnect, NoCmd
  <2> QED
    BY <2>1, <2>2
<1>3. CASE cstp_mainloop
  <2> USE DEF NotCstp
  <2>1. CASE CstpClosed \/ CstpReadError \/ CstpWriteError \/ CstpRekeyTunnel
    BY <1>0, <2>1 DEF CstpClosed, CstpReadError, CstpWriteError, CstpRekeyTunnel
  <2>2. CASE CstpReadEmpty \/ CstpRead \/ CstpWriteOk \/ CstpWriteFreed \/ CstpWriteShort
    BY <2>2 DEF CstpReadEmpty, CstpRead, CstpWriteOk, CstpWriteFreed, CstpWriteShort
  <2>3. CASE CstpWriteStalled \/ CstpKeepalive
    BY <1>0, <2>3 DEF CstpWriteStalled, CstpKeepalive
  <2>4. CASE CstpDpdResponse \/ CstpNextPacket \/ CstpDone
    BY <2>4 DEF CstpDpdResponse, CstpNextPacket, CstpDone
  <2>5. CASE CstpRekeyInterrupted \/ CstpRekeySsl
    BY <1>0, <2>5 DEF CstpRekeyInterrupted, CstpRekeySsl, DoDtlsReconnect, NoCmd
  <2> QED
    BY <1>2, <1>3, <2>1, <2>2, <2>3, <2>4, <2>5 DEF cstp_mainloop
<1>4. CASE tun_mainloop
  <2> USE DEF NotLoop
  <2>1. CASE TunDown \/ TunRead \/ TunReadEnd
    BY <2>1 DEF TunDown, TunRead, TunReadEnd
  <2>2. CASE TunWrite \/ TunClientGone \/ TunWriteDone
    BY <2>2 DEF TunWrite, TunClientGone, TunWriteDone
  <2> QED
    BY <1>4, <2>1, <2>2 DEF tun_mainloop
<1>5. CASE LoopStart \/ TunSetupFailed \/ ObeyNothing \/ Wake \/ Resume \/ Exit
  BY <1>5 DEF NotLoop, LoopStart, TunSetupFailed, ObeyNothing, Wake, Resume, Exit
<1>6. CASE PollCmd \/ ObeyCancel \/ ObeyPause
  BY <1>6 DEF NotLoop, PollCmd, ObeyCancel, ObeyPause, NoCmd
<1>7. CASE SendCmd \/ UNCHANGED vars
  BY <1>7 DEF SendCmd, vars
<1> QED
  BY <1>1, <1>3, <1>4, <1>5, <1>6, <1>7 DEF Next, openconnect_mainloop, Terminated
-----------------------------------------------------------------------------
\* Requeueing, the two compressors and the static records stay in range.
LEMMA OutgoingKept == ASSUME Outgoing, [Next]_vars PROVE Outgoing'
<1> USE BoundAssumption DEF Outgoing, NULL, DPD_PKT, DPD_RESP_PKT, KEEPALIVE_PKT,
        DEFLATE_PKT, FREED_PKT, sentVars
<1>1. CASE DtlsSend
  <2>1. /\ Head(outgoing_queue) \in 1..MaxTx
        /\ dequeue_packet(outgoing_queue) \in Seq(1..MaxTx)
        /\ requeue_packet(dequeue_packet(outgoing_queue), Head(outgoing_queue))
              \in Seq(1..MaxTx)
        /\ Append(dtls_sent, Head(outgoing_queue)) \in Seq(1..MaxTx)
    BY <1>1 DEF DtlsSend, dequeue_packet, requeue_packet
  <2>2. deflate_pkt' \in 0..MaxTx /\ outgoing_queue' \in Seq(1..MaxTx)
    BY <1>1, <2>1 DEF DtlsSend
  <2>3. dtls_sent' \in Seq(1..MaxTx)
    BY <1>1, <2>1 DEF DtlsSend
  <2> QED
    BY <1>1, <2>2, <2>3 DEF DtlsSend, NotDtls, cstpVars, tunVars
<1>2. CASE DoReconnect /\ UNCHANGED tun_read
  <2>1. UNCHANGED <<deflate_pkt, sentVars>>
    BY <1>2 DEF DoReconnect, sendVars, bufferVars
  <2>2. CASE UNCHANGED <<current_ssl_pkt, outgoing_queue, pending_deflated_pkt>>
    BY <1>2, <2>1, <2>2
  <2>3. CASE current_ssl_pkt = DEFLATE_PKT /\ KeepsRecord
    <3>1. queue_packet(outgoing_queue, pending_deflated_pkt) \in Seq(1..MaxTx)
      BY <2>3 DEF queue_packet
    <3> QED
      BY <1>2, <2>1, <2>2, <2>3, <3>1 DEF KeepsRecord
  <2> QED
    BY <1>2, <2>2, <2>3 DEF DoReconnect, KeepsRecord, cstpVars, sendVars
<1>3. CASE CstpWriteOk
  <2>1. Payload \in Seq(0..MaxTx)
    <3>1. CASE current_ssl_pkt > 0
      <4>1. Payload = <<current_ssl_pkt>>
        BY <3>1 DEF Payload
      <4> QED
        BY <3>1, <4>1
    <3>2. CASE current_ssl_pkt <= 0
      <4>1. Payload \in {<<deflate_pkt>>, <<>>}
        BY <3>2 DEF Payload
      <4>2. <<deflate_pkt>> \in Seq(0..MaxTx) /\ <<>> \in Seq(0..MaxTx)
        OBVIOUS
      <4> HIDE DEF Payload
      <4> QED
        BY <4>1, <4>2
    <3> QED
      BY <3>1, <3>2
  <2>2. cstp_sent \o Payload \in Seq(0..MaxTx)
    BY <2>1
  <2>3. cstp_lost' \in Seq(1..MaxTx)
    <3>1. CASE Emptied
      <4>1. Append(cstp_lost, pending_deflated_pkt) \in Seq(1..MaxTx)
        BY <3>1 DEF Emptied
      <4> QED
        BY <1>3, <3>1, <4>1 DEF CstpWriteOk
    <3>2. CASE ~Emptied
      BY <1>3, <3>2 DEF CstpWriteOk
    <3> QED
      BY <3>1, <3>2
  <2> HIDE DEF Payload
  <2> QED
    BY <1>3, <2>2, <2>3 DEF CstpWriteOk, NotCstp, tunVars, bufferVars
<1>4. CASE CstpWriteFreed
  <2>1. /\ Append(cstp_sent, pending_deflated_pkt) \in Seq(0..MaxTx)
        /\ Append(cstp_lost, pending_deflated_pkt) \in Seq(1..MaxTx)
    BY <1>4 DEF CstpWriteFreed
  <2>2. cstp_sent' \in Seq(0..MaxTx) /\ cstp_lost' \in Seq(1..MaxTx)
    BY <1>4, <2>1 DEF CstpWriteFreed
  <2>3. /\ current_ssl_pkt' = NULL
        /\ UNCHANGED <<pending_deflated_pkt, deflate_pkt, outgoing_queue, dtls_sent,
                       tun_read>>
    BY <1>4 DEF CstpWriteFreed, NotCstp, tunVars, bufferVars
  <2> QED
    BY <2>2, <2>3
<1>5. CASE CstpDpdResponse
  BY <1>5 DEF CstpDpdResponse, NotCstp, sendVars, bufferVars, tunVars
<1>6. CASE CstpKeepalive
  <2>1. CASE DoReconnect
    BY <1>2, <1>6, <2>1 DEF CstpKeepalive, NotCstp, tunVars
  <2>2. CASE ~DoReconnect
    BY <1>6, <2>2 DEF CstpKeepalive, NotCstp, sendVars, bufferVars, tunVars
  <2> QED
    BY <2>1, <2>2
<1>7. CASE CstpNextPacket
  <2>1. /\ Head(outgoing_queue) \in 1..MaxTx
        /\ dequeue_packet(outgoing_queue) \in Seq(1..MaxTx)
    BY <1>7 DEF CstpNextPacket, dequeue_packet
  <2>2. UNCHANGED <<cstp_sent, dtls_sent, cstp_lost, tun_read>>
    BY <1>7 DEF CstpNextPacket, tunVars
  <2>3. outgoing_queue' \in Seq(1..MaxTx)
    BY <1>7, <2>1 DEF CstpNextPacket
  <2>4. \/ /\ current_ssl_pkt' = DEFLATE_PKT
           /\ deflate_pkt' = Head(outgoing_queue)
           /\ pending_deflated_pkt' = Head(outgoing_queue)
        \/ /\ current_ssl_pkt' = Head(outgoing_queue)
           /\ UNCHANGED <<deflate_pkt, pending_deflated_pkt>>
    BY <1>7 DEF CstpNextPacket
  <2> QED
    BY <2>1, <2>2, <2>3, <2>4
<1>8. CASE TunRead
  BY <1>8 DEF TunRead, NotLoop, cstpVars, bufferVars, queue_packet
<1>9. CASE ConnectOk
  <2>1. UNCHANGED <<pending_deflated_pkt, outgoing_queue, sentVars, tun_read>>
    BY <1>9 DEF ConnectOk, tunVars
  <2>2. /\ deflate_pkt' \in {NULL, deflate_pkt}
        /\ \/ UNCHANGED current_ssl_pkt
           \/ {current_ssl_pkt, current_ssl_pkt'} \subseteq {DEFLATE_PKT, FREED_PKT}
    BY <1>9 DEF ConnectOk, NewDeflateBuffer, bufferVars
  <2> QED
    BY <2>1, <2>2
<1> QED
  BY <1>1, <1>2, <1>3, <1>4, <1>5, <1>6, <1>7, <1>8, <1>9, Steps DEF WhoSteps

\* What is received and what is written to tun stays in range.
LEMMA IncomingKept == ASSUME Incoming, [Next]_vars PROVE Incoming'
<1> USE BoundAssumption DEF Incoming, recvVars
<1>0. rx_count < MaxRx =>
        queue_packet(incoming_queue, rx_count + 1) \in Seq(1..MaxRx)
  BY DEF queue_packet
<1>1. CASE DtlsRecv
  <2>1. CASE UNCHANGED recvVars
    BY <2>1
  <2>2. CASE /\ rx_count < MaxRx /\ rx_count' = rx_count + 1
             /\ incoming_queue' = queue_packet(incoming_queue, rx_count + 1)
             /\ UNCHANGED tun_written
    BY <1>0, <2>2
  <2> QED
    BY <1>1, <2>1, <2>2 DEF DtlsRecv
<1>2. CASE CstpRead
  <2>1. CASE UNCHANGED recvVars
    BY <2>1
  <2>2. CASE /\ rx_count < MaxRx /\ rx_count' = rx_count + 1
             /\ incoming_queue' = queue_packet(incoming_queue, rx_count + 1)
             /\ UNCHANGED tun_written
    BY <1>0, <2>2
  <2> QED
    BY <1>2, <2>1, <2>2 DEF CstpRead
<1>3. CASE TunDown
  BY <1>3 DEF TunDown, NotLoop
<1>4. CASE TunWrite
  <2>1. /\ Head(incoming_queue) \in 1..MaxRx
        /\ dequeue_packet(incoming_queue) \in Seq(1..MaxRx)
        /\ requeue_packet(dequeue_packet(incoming_queue), Head(incoming_queue))
              \in Seq(1..MaxRx)
        /\ Append(tun_written, Head(incoming_queue)) \in Seq(1..MaxRx)
    BY <1>4 DEF TunWrite, dequeue_packet, requeue_packet
  <2> QED
    BY <1>4, <2>1 DEF TunWrite, NotLoop
<1> QED
  BY <1>1, <1>2, <1>3, <1>4, Steps DEF WhoSteps

\* Command bytes come out of the pipe as they were put in.
LEMMA PipeKept == ASSUME Pipe, [Next]_vars PROVE Pipe'
<1> USE BoundAssumption DEF Pipe
<1>1. CASE CmdPending /\ check_cmd_fd
  BY <1>1 DEF CmdPending, check_cmd_fd
<1>2. CASE SendCmd
  BY <1>2 DEF SendCmd
<1> QED
  BY <1>1, <1>2, Steps DEF WhoSteps

\* A reconnect that gives up leaves no time to count.
LEMMA ReconnectFailedFacts ==
  ASSUME NEW err, ReconnectFailed(err)
  PROVE  rtimeout' = 0 /\ rinterval' = 0
BY Zenon DEF ReconnectFailed

\* A failed attempt that is not the last one leaves the time alone.
LEMMA ConnectErrorFacts ==
  ASSUME NEW err, ConnectError(err)
  PROVE  (rtimeout' = 0 /\ rinterval' = 0) \/ UNCHANGED retryVars
BY ReconnectFailedFacts DEF ConnectError

\* The interval never becomes negative.
LEMMA RetryKept == ASSUME Retry, [Next]_vars PROVE Retry'
<1> USE ConfigAssumption DEF Retry, retryVars
<1>1. CASE DoReconnect
  BY <1>1 DEF DoReconnect
<1>2. CASE ssl_reconnect
  <2>1. CASE ConnectOk
    BY <2>1 DEF ConnectOk
  <2>2. CASE ConnectFail
    <3>1. (rtimeout' = 0 /\ rinterval' = 0) \/ UNCHANGED retryVars
      BY <2>2, ConnectErrorFacts, Zenon DEF ConnectFail
    <3> QED
      BY <3>1
  <2>3. CASE ConnectInterrupted
    <3>1. (rtimeout' = 0 /\ rinterval' = 0) \/ UNCHANGED retryVars
      BY <2>3, ConnectErrorFacts, Zenon DEF ConnectInterrupted
    <3> QED
      BY <3>1
  <2>4. CASE BackoffCmd
    BY <2>4 DEF BackoffCmd
  <2>5. CASE BackoffExpire
    BY <2>5 DEF BackoffExpire
  <2>6. CASE BackoffCancelled
    BY <2>6, ReconnectFailedFacts DEF BackoffCancelled
  <2>7. CASE BackoffPaused
    BY <2>7 DEF BackoffPaused
  <2> QED
    BY <1>2, <2>1, <2>2, <2>3, <2>4, <2>5, <2>6, <2>7 DEF ssl_reconnect
<1> QED
  BY <1>1, <1>2, Steps DEF WhoSteps

\* A DTLS session is one of the current session id, or the one that was there.
LEMMA DtlsHandlerSessions ==
  ASSUME DtlsInv, dtls_mainloop
  PROVE  /\ UNCHANGED dtls_session_id
         /\ dtls'.ssl \in {NULL, dtls.ssl, dtls_session_id}
<1> DEFINE Fine == dtls'.ssl \in {NULL, dtls.ssl, dtls_session_id}
<1> USE DEF NotDtls, negotiated, dtlsVars
<1>0. dtls_session_id \in Nat \ {NULL} /\ Consistent(dtls)
  BY DEF DtlsInv
<1>1. (\E o \in dtls_reconnect(dtls) : dtls' = o.dtls) => Fine
  BY <1>0, ReconnectOutcome DEF Keyed
<1>2. (\E o \in connect_dtls_socket(dtls) : dtls' = o.dtls) => Fine
  BY <1>0, ConnectOutcome
<1>3. ASSUME dtls.state \in AboveSleeping,
             \E o \in dtls_try_handshake([dtls EXCEPT !.state = "CONNECTING"]) :
               dtls' = o.dtls
      PROVE  Fine
  BY <1>0, <1>3, TryOutcome
<1>4. UNCHANGED dtls => Fine
  OBVIOUS
<1>5. Fine
  <2>1. CASE DtlsConnecting
    <3>1. dtls.state = "CONNECTING" /\ dtls = [dtls EXCEPT !.state = "CONNECTING"]
      BY <1>0, <2>1 DEF DtlsConnecting, Consistent
    <3> QED
      BY <1>3, <2>1, <3>1 DEF DtlsConnecting, BecomeDtls, AboveSleeping
  <2>2. CASE DtlsKeepalive
    <3>1. dtls.state \in AboveSleeping
      BY <2>2 DEF DtlsKeepalive, DtlsInv, Serving, AboveSleeping
    <3> QED
      BY <1>1, <1>3, <1>4, <2>2, <3>1 DEF DtlsKeepalive, BecomeDtls
  <2>3. CASE DtlsNeedReconnect \/ DtlsSend
    BY <1>1, <1>4, <2>3 DEF DtlsNeedReconnect, DtlsSend, BecomeDtls
  <2>4. CASE DtlsSleeping \/ DtlsRekeyFailed
    BY <1>2, <1>4, <2>4 DEF DtlsSleeping, DtlsRekeyFailed, BecomeDtls
  <2>5. CASE DtlsRecv \/ DetectMtuCmd \/ DetectMtuDone \/ DtlsSendDone
    BY <1>4, <2>5 DEF DtlsRecv, DetectMtuCmd, DetectMtuDone, DtlsSendDone
  <2> QED
    BY <2>1, <2>2, <2>3, <2>4, <2>5 DEF dtls_mainloop
<1>6. UNCHANGED dtls_session_id
  BY DEF dtls_mainloop, DtlsNeedReconnect, DtlsConnecting, DtlsSleeping,
         DtlsRecv, DtlsKeepalive, DtlsRekeyFailed, DetectMtuCmd, DetectMtuDone,
         DtlsSend, DtlsSendDone
<1> QED
  BY <1>5, <1>6

\* A reconnect takes over a session id that the server did hand out.
LEMMA ReconnectSessions ==
  ASSUME Sessions, ssl_reconnect
  PROVE  UNCHANGED dtls /\ dtls_session_id' \in 1..MaxSess
<1> USE BoundAssumption DEF Sessions, NotReconnect, negotiated
<1>1. UNCHANGED dtls
  BY DEF ssl_reconnect, ConnectOk, ConnectFail, ConnectInterrupted, BackoffCmd,
         BackoffExpire, BackoffCancelled, BackoffPaused
<1>2. ASSUME NEW whole, ParseConnectResponse(whole)
      PROVE  dtls_session_id' \in 1..MaxSess
  BY <1>2 DEF ParseConnectResponse
<1>3. \/ UNCHANGED dtls_session_id
      \/ \E whole \in BOOLEAN : ParseConnectResponse(whole)
  BY DEF ssl_reconnect, ConnectOk, ConnectFail, ConnectInterrupted, BackoffCmd,
         BackoffExpire, BackoffCancelled, BackoffPaused
<1> QED
  BY <1>1, <1>2, <1>3

\* No DTLS session is keyed by an id that was not handed out.
LEMMA SessionsKept == ASSUME DtlsInv, Sessions, [Next]_vars PROVE Sessions'
<1> USE BoundAssumption DEF Sessions, NULL
<1>1. CASE dtls_mainloop
  BY <1>1, DtlsHandlerSessions
<1>2. CASE ssl_reconnect
  BY <1>2, ReconnectSessions
<1>3. CASE ObeyPause
  <2>1. dtls'.ssl \in {NULL, dtls.ssl} /\ UNCHANGED dtls_session_id
    BY <1>3, CloseFacts DEF ObeyPause, DtlsInv, negotiated
  <2> QED
    BY <2>1
<1> QED
  BY <1>1, <1>2, <1>3, Steps DEF WhoSteps
-----------------------------------------------------------------------------
TypeInv ==
  /\ DtlsInv
  /\ Flags /\ Labels
  /\ Outgoing /\ Incoming /\ Pipe /\ Retry /\ Sessions

\* The invariant holds when the tunnel has just been established.
LEMMA TypeInit == Init => TypeInv
<1> SUFFICES ASSUME Init PROVE TypeInv
  OBVIOUS
<1>1. DtlsInv
  BY DtlsInit
<1>2. Flags
  BY ConfigAssumption, Zenon DEF Init, Flags
<1>3. Labels
  BY ConfigAssumption, Zenon DEF Init, Labels, PcLabels, QuitReasons, Results
<1>4. Outgoing /\ Incoming /\ Pipe /\ Retry
  BY BoundAssumption
  DEF Init, Outgoing, Incoming, Pipe, Retry, NULL, DEFLATE_PKT, FREED_PKT
<1>5. Sessions
  <2>1. PICK o \in dtls_setup : dtls = o.dtls
    BY DEF Init
  <2>2. Keyed(dtls)
    BY <2>1, SetupOutcome DEF Init, NULL
  <2> QED
    BY <2>2, BoundAssumption DEF Init, Keyed, Sessions, NULL
<1> QED
  BY <1>1, <1>2, <1>3, <1>4, <1>5 DEF TypeInv

LEMMA FlagsKept == ASSUME Flags, [Next]_vars PROVE Flags'
<1>1. CASE UNCHANGED vars
  BY <1>1, Zenon
  DEF Flags, vars, dtlsVars, negotiated, cstpVars, tunVars, cmdVars, 
                     exitVars
<1> QED
  BY <1>1, DtlsKeepsFlags, CstpKeepsFlags, TunKeepsFlags, LoopKeepsFlags
  DEF Next, openconnect_mainloop, Terminated

LEMMA LabelsKept == ASSUME Labels, [Next]_vars PROVE Labels'
<1>1. CASE UNCHANGED vars
  <2>1. UNCHANGED <<pc, cstp_compr, cancel_type, quit_reason, ret>>
    BY <1>1 DEF vars, negotiated, cmdVars, exitVars
  <2> QED
    BY <2>1 DEF Labels
<1> QED
  BY <1>1, DtlsKeepsLabels, CstpKeepsLabels, TunKeepsLabels, LoopKeepsLabels
  DEF Next, openconnect_mainloop, Terminated

\* Every step keeps the types, given the invariant of the DTLS record.
LEMMA TypeInductive == TypeInv /\ [Next]_vars => TypeInv'
BY DtlsInductive, FlagsKept, LabelsKept, OutgoingKept, IncomingKept, PipeKept,
   RetryKept, SessionsKept
DEF TypeInv

\* The parts make up the type invariant of the runs.
LEMMA TypeInvariant == TypeInv /\ BufferInv => TypeOK
<1> SUFFICES ASSUME TypeInv, BufferInv PROVE TypeOK
  OBVIOUS
<1>1. dtls \in [state : DtlsStates, fd : BOOLEAN, ssl : 0..MaxSess]
  BY DEF TypeInv, DtlsInv, Consistent, Sessions
<1> QED
  BY <1>1, Zenon DEF TypeInv, BufferInv, Flags, Labels, Outgoing, Incoming, Pipe,
                     Retry, Sessions, TypeOK

\* Every variable keeps the type of its C counterpart, within the bounds.
THEOREM TypeCorrect == Spec => []TypeOK
BY TypeInit, TypeInductive, TypeInvariant, BufferInvariance, PTL DEF Spec
=============================================================================
