--------------------------- MODULE MainloopProofs ---------------------------
(***************************************************************************)
(* Safety properties of openconnect_mainloop for every configuration,      *)
(* whatever the number of packets, sessions and commands: TLAPS proofs.    *)
(***************************************************************************)
EXTENDS MainloopProperties, TLAPS

(***************************************************************************)
(* The DTLS socket and session.                                            *)
(***************************************************************************)
\* What every dtls.c function expects of the DTLS record, and leaves
Consistent(d) ==
  /\ d \in [state : DtlsStates, fd : BOOLEAN, ssl : Nat]
  /\ d.fd <=> d.ssl # NULL
  /\ d.fd <=> d.state \in AboveSleeping

\* dtls_mainloop looks at its timers and sends only on a connected session
\* that nobody has doomed.
Serving ==
  pc \in {"udp_keepalive", "udp_send"} =>
    dtls.state = "CONNECTED" /\ ~dtls_need_reconnect

DtlsInv ==
  /\ dtls_session_id \in Nat \ {NULL}
  /\ Consistent(dtls)
  /\ DtlsSessionFresh
  /\ Serving
  /\ PauseClosesConnections

\* A session is keyed by the current session id, if there is one.
Keyed(d) == d.ssl \in {NULL, dtls_session_id}
-----------------------------------------------------------------------------
\* dtls_close leaves neither a socket nor a session.
LEMMA CloseFacts ==
  ASSUME NEW d, Consistent(d)
  PROVE  /\ Consistent(dtls_close(d))
         /\ ~dtls_close(d).fd /\ dtls_close(d).ssl = NULL
BY DEF Consistent, dtls_close, DtlsStates, AboveSleeping, NULL

\* A handshake step keeps the session or closes it.
LEMMA TryOutcome ==
  ASSUME NEW d, Consistent(d), d.state \in AboveSleeping,
         NEW o \in dtls_try_handshake([d EXCEPT !.state = "CONNECTING"])
  PROVE  Consistent(o.dtls) /\ o.dtls.ssl \in {NULL, d.ssl}
<1> DEFINE c == [d EXCEPT !.state = "CONNECTING"]
<1>1. Consistent(c) /\ c.ssl = d.ssl
  BY DEF Consistent, DtlsStates, AboveSleeping
<1>2. Consistent([c EXCEPT !.state = "CONNECTED"])
  BY <1>1 DEF Consistent, DtlsStates, AboveSleeping
<1>3. /\ Consistent(dtls_close(c)) /\ dtls_close(c).ssl = NULL
      /\ ~dtls_close(c).fd
  BY <1>1, CloseFacts
<1>4. Consistent([dtls_close(c) EXCEPT !.state = "DISABLED"])
  BY <1>3 DEF Consistent, DtlsStates, AboveSleeping
<1>5. o.dtls \in {[c EXCEPT !.state = "CONNECTED"], c, dtls_close(c),
                  [dtls_close(c) EXCEPT !.state = "DISABLED"]}
  BY DEF dtls_try_handshake, Outcome
<1>6. /\ [c EXCEPT !.state = "CONNECTED"].ssl = d.ssl
      /\ [dtls_close(c) EXCEPT !.state = "DISABLED"].ssl = NULL
  BY <1>1, <1>3 DEF Consistent
<1> QED
  BY <1>1, <1>2, <1>3, <1>4, <1>5, <1>6

\* connect_dtls_socket leaves the record alone or keys a session anew.
LEMMA ConnectOutcome ==
  ASSUME NEW d, Consistent(d), dtls_session_id \in Nat \ {NULL},
         NEW o \in connect_dtls_socket(d)
  PROVE  Consistent(o.dtls) /\ o.dtls.ssl \in {NULL, d.ssl, dtls_session_id}
<1> DEFINE new == [state |-> "CONNECTING", fd |-> TRUE, ssl |-> dtls_session_id]
<1>1. Consistent(new)
  BY DEF Consistent, DtlsStates, AboveSleeping, NULL
<1>2. Consistent(dtls_close(new)) /\ dtls_close(new).ssl = NULL
  BY <1>1, CloseFacts
<1>3. o.dtls \in {d, new, dtls_close(new)}
  BY DEF connect_dtls_socket, FirstHandshake, Outcome
<1>4. new.ssl = dtls_session_id
  OBVIOUS
<1> QED
  BY <1>1, <1>2, <1>3, <1>4

\* dtls_reconnect forgets the old session.
LEMMA ReconnectOutcome ==
  ASSUME NEW d, Consistent(d), dtls_session_id \in Nat \ {NULL},
         NEW o \in dtls_reconnect(d)
  PROVE  Consistent(o.dtls) /\ Keyed(o.dtls)
BY CloseFacts, ConnectOutcome DEF dtls_reconnect, Keyed

\* dtls_setup gives up, or starts a session.
LEMMA SetupOutcome ==
  ASSUME dtls_session_id \in Nat \ {NULL}, NEW o \in dtls_setup
  PROVE  Consistent(o.dtls) /\ Keyed(o.dtls)
<1> DEFINE unused(s) == [state |-> s, fd |-> FALSE, ssl |-> NULL]
<1>1. Consistent(unused("SECRET")) /\ Consistent(unused("DISABLED"))
  BY DEF Consistent, DtlsStates, AboveSleeping, NULL
<1>2. CASE o \in connect_dtls_socket(unused("SECRET"))
  BY <1>1, <1>2, ConnectOutcome DEF Keyed
<1>3. CASE o.dtls \in {unused("SECRET"), unused("DISABLED")}
  <2>1. Keyed(unused("SECRET")) /\ Keyed(unused("DISABLED"))
    BY DEF Keyed
  <2> HIDE DEF unused
  <2> QED
    BY <1>1, <1>3, <2>1
<1> QED
  BY <1>2, <1>3 DEF dtls_setup, Outcome
-----------------------------------------------------------------------------
\* It holds when the tunnel has just been established.
LEMMA DtlsInit == Init => DtlsInv
<1> SUFFICES ASSUME Init PROVE DtlsInv
  OBVIOUS
<1>1. dtls_session_id \in Nat \ {NULL}
  BY DEF Init, NULL
<1>2. PICK o \in dtls_setup : dtls = o.dtls
  BY DEF Init
<1>3. Consistent(dtls) /\ Keyed(dtls)
  BY <1>1, <1>2, SetupOutcome
<1>4. DtlsSessionFresh
  BY <1>3 DEF Keyed, DtlsSessionFresh
<1>5. Serving /\ PauseClosesConnections
  BY DEF Init, Serving, PauseClosesConnections
<1> QED
  BY <1>1, <1>3, <1>4, <1>5 DEF DtlsInv

\* A step that has nothing to do with DTLS, and does not enter the handler
DtlsAside ==
  /\ UNCHANGED <<dtls, dtls_need_reconnect, dtls_session_id>>
  /\ pc' \notin {"udp_keepalive", "udp_send", "paused"}

\* Such a step keeps it.
LEMMA AsideKeepsDtls == DtlsInv /\ DtlsAside => DtlsInv'
BY DEF DtlsInv, DtlsAside, Consistent, DtlsSessionFresh, Serving,
       PauseClosesConnections

\* A step that puts the DTLS record aside and leaves the handler
LEMMA RekeyedKeepsDtls ==
  ASSUME DtlsInv, Consistent(dtls'), UNCHANGED dtls_session_id,
         pc' \notin {"udp_keepalive", "udp_send", "paused"},
         \/ Keyed(dtls')
         \/ dtls'.ssl = dtls.ssl /\ UNCHANGED dtls_need_reconnect
  PROVE  DtlsInv'
BY DEF DtlsInv, Keyed, DtlsSessionFresh, Serving, PauseClosesConnections

\* dtls_mainloop keeps the record consistent and its session fresh.
LEMMA DtlsHandlerKeepsDtls == DtlsInv /\ dtls_mainloop => DtlsInv'
<1> SUFFICES ASSUME DtlsInv, dtls_mainloop PROVE DtlsInv'
  OBVIOUS
<1> USE DEF NotDtls, negotiated, dtlsVars
<1>0. dtls_session_id \in Nat \ {NULL} /\ Consistent(dtls)
  BY DEF DtlsInv
<1>1. CASE DtlsNeedReconnect
  BY <1>0, <1>1, ReconnectOutcome, RekeyedKeepsDtls
  DEF DtlsNeedReconnect, BecomeDtls
<1>2. CASE DtlsConnecting
  <2>1. PICK o \in dtls_try_handshake(dtls) : dtls' = o.dtls
    BY <1>2 DEF DtlsConnecting, BecomeDtls
  <2>2. dtls.state = "CONNECTING" /\ dtls = [dtls EXCEPT !.state = "CONNECTING"]
    BY <1>0, <1>2 DEF DtlsConnecting, Consistent
  <2>3. Consistent(dtls') /\ dtls'.ssl \in {NULL, dtls.ssl}
    BY <1>0, <2>1, <2>2, TryOutcome DEF AboveSleeping
  <2> QED
    BY <1>2, <2>3, RekeyedKeepsDtls DEF DtlsConnecting, AfterHandshake, Keyed
<1>3. CASE DtlsSleeping
  <2>1. CASE UNCHANGED dtls
    BY <1>3, <2>1, AsideKeepsDtls DEF DtlsSleeping, DtlsAside
  <2>2. CASE \E o \in connect_dtls_socket(dtls) : dtls' = o.dtls
    BY <1>0, <1>3, <2>2, ConnectOutcome, RekeyedKeepsDtls
    DEF DtlsSleeping, Keyed
  <2> QED
    BY <1>3, <2>1, <2>2 DEF DtlsSleeping, BecomeDtls
<1>4. CASE DtlsRecv
  BY <1>4 DEF DtlsRecv, DtlsInv, Consistent, DtlsSessionFresh, Serving,
              PauseClosesConnections, Quit
<1>5. CASE DtlsKeepalive
  <2>1. dtls.state = "CONNECTED"
    BY <1>5 DEF DtlsKeepalive, DtlsInv, Serving
  <2>2. CASE \E o \in dtls_try_handshake([dtls EXCEPT !.state = "CONNECTING"]) :
               dtls' = o.dtls /\ pc' \in {"tcp", "detect_mtu", "udp_rekey"}
    BY <1>0, <1>5, <2>1, <2>2, TryOutcome, RekeyedKeepsDtls
    DEF DtlsKeepalive, AboveSleeping, Keyed
  <2>3. CASE \E o \in dtls_reconnect(dtls) : dtls' = o.dtls /\ pc' = "tcp"
    BY <1>0, <1>5, <2>3, ReconnectOutcome, RekeyedKeepsDtls DEF DtlsKeepalive
  <2>4. CASE UNCHANGED dtls
    BY <1>5, <2>4 DEF DtlsKeepalive, AfterHandshake, DtlsInv, Consistent,
                      DtlsSessionFresh, Serving, PauseClosesConnections
  <2> QED
    BY <1>5, <2>2, <2>3, <2>4 DEF DtlsKeepalive, BecomeDtls, AfterHandshake
<1>6. CASE DtlsRekeyFailed
  BY <1>0, <1>6, ConnectOutcome, RekeyedKeepsDtls
  DEF DtlsRekeyFailed, BecomeDtls, Keyed
<1>7. CASE DtlsSend
  <2>1. CASE UNCHANGED dtls
    BY <1>7, <2>1 DEF DtlsSend, DtlsInv, Consistent, DtlsSessionFresh, Serving,
                      PauseClosesConnections
  <2>2. CASE \E o \in dtls_reconnect(dtls) : dtls' = o.dtls /\ pc' = "tcp"
    BY <1>0, <1>7, <2>2, ReconnectOutcome, RekeyedKeepsDtls DEF DtlsSend
  <2> QED
    BY <1>7, <2>1, <2>2 DEF DtlsSend, BecomeDtls
<1>8. CASE DtlsSendDone
  BY <1>8, AsideKeepsDtls DEF DtlsSendDone, DtlsAside
<1>9. CASE DetectMtuCmd \/ DetectMtuDone
  BY <1>9, AsideKeepsDtls DEF DetectMtuCmd, DetectMtuDone, DtlsAside
<1> QED
  BY <1>1, <1>2, <1>3, <1>4, <1>5, <1>6, <1>7, <1>8, <1>9 DEF dtls_mainloop

\* A CONNECT response with a new session id dooms the session in use.
LEMMA ResponseKeepsDtls ==
  ASSUME DtlsInv, NEW whole \in BOOLEAN, ParseConnectResponse(whole),
         UNCHANGED dtls, pc' \notin {"udp_keepalive", "udp_send", "paused"}
  PROVE  DtlsInv'
<1>1. Consistent(dtls)' /\ (dtls_session_id \in Nat \ {NULL})'
  BY DEF DtlsInv, ParseConnectResponse, Consistent, NULL
<1>2. DtlsSessionFresh'
  BY DEF DtlsInv, ParseConnectResponse, Consistent, DtlsSessionFresh,
         DoomedByNewId, NULL
<1> QED
  BY <1>1, <1>2 DEF DtlsInv, Serving, PauseClosesConnections

\* ssl_reconnect takes over new session ids and dooms sessions, no more.
LEMMA ReconnectKeepsDtls == DtlsInv /\ ssl_reconnect => DtlsInv'
<1> SUFFICES ASSUME DtlsInv, ssl_reconnect PROVE DtlsInv'
  OBVIOUS
<1> USE DEF NotReconnect, negotiated
<1>1. CASE ConnectOk
  BY <1>1, ResponseKeepsDtls DEF ConnectOk, ReturnToLoop
<1>2. CASE ConnectFail
  <2>1. pc' \in {"exit", "backoff"}
    BY <1>2 DEF ConnectFail, ConnectError, ReconnectFailed, Quit
  <2>2. CASE ParseConnectResponse(FALSE)
    BY <1>2, <2>1, <2>2, ResponseKeepsDtls DEF ConnectFail
  <2>3. CASE UNCHANGED <<negotiated, dtls_need_reconnect>>
    BY <1>2, <2>1, <2>3, AsideKeepsDtls DEF ConnectFail, DtlsAside
  <2> QED
    BY <1>2, <2>2, <2>3 DEF ConnectFail
<1>3. CASE ConnectInterrupted
  <2>1. pc' \in {"exit", "backoff", "connect"}
    BY <1>3 DEF ConnectInterrupted, ConnectError, ReconnectFailed, Quit
  <2>2. CASE ParseConnectResponse(FALSE)
    BY <1>3, <2>1, <2>2, ResponseKeepsDtls DEF ConnectInterrupted
  <2>3. CASE UNCHANGED <<negotiated, dtls_need_reconnect>>
    BY <1>3, <2>1, <2>3, AsideKeepsDtls DEF ConnectInterrupted, DtlsAside
  <2> QED
    BY <1>3, <2>2, <2>3 DEF ConnectInterrupted
<1>4. CASE BackoffCmd
  BY <1>4, AsideKeepsDtls DEF BackoffCmd, DtlsAside
<1>5. CASE BackoffExpire
  BY <1>5, AsideKeepsDtls DEF BackoffExpire, DtlsAside
<1>6. CASE BackoffCancelled
  BY <1>6, AsideKeepsDtls DEF BackoffCancelled, DtlsAside, ReconnectFailed, Quit
<1>7. CASE BackoffPaused
  BY <1>7
  DEF BackoffPaused, ReturnToLoop, DtlsInv, Consistent, DtlsSessionFresh, 
              Serving, PauseClosesConnections
<1> QED
  BY <1>1, <1>2, <1>3, <1>4, <1>5, <1>6, <1>7 DEF ssl_reconnect

\* cstp_mainloop proper touches DTLS only to doom the session.
LEMMA CstpKeepsDtls == DtlsInv /\ cstp_mainloop => DtlsInv'
<1> SUFFICES ASSUME DtlsInv, cstp_mainloop PROVE DtlsInv'
  OBVIOUS
<1> USE DEF NotCstp, negotiated, dtlsVars, DoReconnect, ReturnToLoop
<1>1. CASE CstpClosed
  BY <1>1, AsideKeepsDtls DEF CstpClosed, DtlsAside
<1>2. CASE CstpReadEmpty
  BY <1>2, AsideKeepsDtls DEF CstpReadEmpty, DtlsAside
<1>3. CASE CstpReadError
  BY <1>3, AsideKeepsDtls DEF CstpReadError, DtlsAside
<1>4. CASE CstpRead
  BY <1>4, AsideKeepsDtls DEF CstpRead, DtlsAside, Quit
<1>5. CASE CstpWriteOk
  BY <1>5, AsideKeepsDtls DEF CstpWriteOk, DtlsAside
<1>6. CASE CstpWriteStalled
  BY <1>6, AsideKeepsDtls DEF CstpWriteStalled, DtlsAside
<1>7. CASE CstpWriteError
  BY <1>7, AsideKeepsDtls DEF CstpWriteError, DtlsAside
<1>8. CASE CstpWriteShort
  BY <1>8, AsideKeepsDtls DEF CstpWriteShort, DtlsAside, Quit
<1>9. CASE CstpDpdResponse
  BY <1>9, AsideKeepsDtls DEF CstpDpdResponse, DtlsAside
<1>10. CASE CstpKeepalive
  BY <1>10, AsideKeepsDtls DEF CstpKeepalive, DtlsAside
<1>11. CASE CstpRekeyTunnel
  BY <1>11, AsideKeepsDtls DEF CstpRekeyTunnel, DtlsAside
<1>12. CASE CstpRekeyInterrupted
  BY <1>12, AsideKeepsDtls DEF CstpRekeyInterrupted, DtlsAside
<1>13. CASE CstpRekeySsl
  BY <1>13 DEF CstpRekeySsl, DoDtlsReconnect, DtlsInv, Consistent,
               DtlsSessionFresh, Serving, PauseClosesConnections
<1>14. CASE CstpNextPacket
  BY <1>14, AsideKeepsDtls DEF CstpNextPacket, DtlsAside
<1>15. CASE CstpDone
  BY <1>15, AsideKeepsDtls DEF CstpDone, DtlsAside
<1>16. CASE CstpWriteFreed
  BY <1>16, AsideKeepsDtls DEF CstpWriteFreed, DtlsAside
<1> QED
  BY <1>1, <1>2, <1>3, <1>4, <1>5, <1>6, <1>7, <1>8, <1>9, <1>10, <1>11, <1>12,
     <1>13, <1>14, <1>15, <1>16, ReconnectKeepsDtls DEF cstp_mainloop

\* The loop itself touches DTLS only to close it for a pause.
LEMMA LoopKeepsDtls ==
  ASSUME DtlsInv,
         \/ LoopStart \/ TunSetupFailed \/ tun_mainloop \/ PollCmd \/ ObeyCancel
         \/ ObeyPause \/ ObeyNothing \/ Wake \/ Resume \/ Exit
  PROVE  DtlsInv'
<1> USE DEF NotLoop, negotiated
<1>1. CASE LoopStart
  BY <1>1, AsideKeepsDtls DEF LoopStart, DtlsAside, NextHandler
<1>2. CASE TunSetupFailed
  BY <1>2, AsideKeepsDtls DEF TunSetupFailed, DtlsAside
<1>3. CASE tun_mainloop
  <2>1. CASE TunDown
    BY <2>1, AsideKeepsDtls DEF TunDown, DtlsAside
  <2>2. CASE TunRead
    BY <2>2, AsideKeepsDtls DEF TunRead, DtlsAside
  <2>3. CASE TunReadEnd
    BY <2>3, AsideKeepsDtls DEF TunReadEnd, DtlsAside
  <2>4. CASE TunWrite
    BY <2>4, AsideKeepsDtls DEF TunWrite, DtlsAside
  <2>5. CASE TunClientGone
    BY <2>5, AsideKeepsDtls DEF TunClientGone, DtlsAside, Quit
  <2>6. CASE TunWriteDone
    BY <2>6, AsideKeepsDtls DEF TunWriteDone, DtlsAside
  <2> QED
    BY <1>3, <2>1, <2>2, <2>3, <2>4, <2>5, <2>6 DEF tun_mainloop
<1>4. CASE PollCmd
  BY <1>4, AsideKeepsDtls DEF PollCmd, DtlsAside
<1>5. CASE ObeyCancel
  BY <1>5, AsideKeepsDtls DEF ObeyCancel, DtlsAside
<1>6. CASE ObeyPause
  <2>1. Consistent(dtls') /\ ~dtls'.fd /\ dtls'.ssl = NULL
    BY <1>6, CloseFacts
    DEF ObeyPause, DtlsInv, Consistent, PauseClosesDtls, AboveDisabled, AboveSleeping
  <2> QED
    BY <1>6, <2>1 DEF ObeyPause, DtlsInv, DtlsSessionFresh, Serving,
                      PauseClosesConnections
<1>7. CASE ObeyNothing
  BY <1>7, AsideKeepsDtls DEF ObeyNothing, DtlsAside
<1>8. CASE Wake
  BY <1>8, AsideKeepsDtls DEF Wake, DtlsAside
<1>9. CASE Resume
  BY <1>9, AsideKeepsDtls DEF Resume, DtlsAside
<1>10. CASE Exit
  BY <1>10, AsideKeepsDtls DEF Exit, DtlsAside
<1> QED
  BY <1>1, <1>2, <1>3, <1>4, <1>5, <1>6, <1>7, <1>8, <1>9, <1>10

\* A command written to the pipe, or a stuttering step
LEMMA IdleKeepsDtls ==
  ASSUME DtlsInv, SendCmd \/ UNCHANGED vars
  PROVE  DtlsInv'
BY DEF SendCmd, vars, dtlsVars, negotiated, DtlsInv, Consistent,
       DtlsSessionFresh, Serving, PauseClosesConnections

\* Every step of the loop keeps it.
LEMMA DtlsInductive == DtlsInv /\ [Next]_vars => DtlsInv'
BY DtlsHandlerKeepsDtls, CstpKeepsDtls, LoopKeepsDtls, IdleKeepsDtls
DEF Next, openconnect_mainloop, Terminated

\* And so it always holds.
LEMMA DtlsInvariance == Spec => []DtlsInv
BY DtlsInit, DtlsInductive, PTL DEF Spec
-----------------------------------------------------------------------------
\* dtls_state, dtls_fd and dtls_ssl agree between any two steps, whatever the
\* order of handshakes, rekeys, failures, reconnects and pauses.
THEOREM ResourcesAgree == Spec => []DtlsResources
<1>1. DtlsInv => DtlsResources
  BY DEF DtlsInv, Consistent, DtlsResources
<1> QED
  BY <1>1, DtlsInvariance, PTL

\* No DTLS session outlives the CSTP session that keyed it without being
\* doomed, however many session ids the server hands out.
THEOREM SessionsAreFresh == Spec => []DtlsSessionFresh
<1>1. DtlsInv => DtlsSessionFresh
  BY DEF DtlsInv
<1> QED
  BY <1>1, DtlsInvariance, PTL

\* DtlsSend is the only step that puts data on the DTLS channel.
LEMMA OnlyDtlsSends == [Next]_vars => DtlsSend \/ UNCHANGED dtls_sent
<1> SUFFICES ASSUME [Next]_vars PROVE DtlsSend \/ UNCHANGED dtls_sent
  OBVIOUS
<1> USE DEF sendVars, sentVars
<1>1. CASE dtls_mainloop
  BY <1>1 DEF dtls_mainloop, DtlsNeedReconnect, DtlsConnecting, DtlsSleeping,
              DtlsRecv, DtlsKeepalive, DtlsRekeyFailed, DetectMtuCmd,
              DetectMtuDone, DtlsSendDone
<1>2. CASE ssl_reconnect
  BY <1>2 DEF ssl_reconnect, NotReconnect, ConnectOk, ConnectFail,
              ConnectInterrupted, BackoffCmd, BackoffExpire, BackoffCancelled,
              BackoffPaused
<1>3. CASE cstp_mainloop
  BY <1>2, <1>3 DEF cstp_mainloop, DoReconnect, DoDtlsReconnect, CstpClosed,
              CstpReadEmpty, CstpReadError, CstpRead, CstpWriteOk,
              CstpWriteFreed, CstpWriteStalled, CstpWriteError, CstpWriteShort,
              CstpDpdResponse, CstpKeepalive, CstpRekeyTunnel,
              CstpRekeyInterrupted, CstpRekeySsl, CstpNextPacket, CstpDone
<1>4. CASE tun_mainloop
  BY <1>4 DEF tun_mainloop, TunDown, TunRead, TunReadEnd, TunWrite,
              TunClientGone, TunWriteDone
<1>5. CASE \/ LoopStart \/ TunSetupFailed \/ PollCmd \/ ObeyCancel
           \/ ObeyPause \/ ObeyNothing \/ Wake \/ Resume \/ Exit
  BY <1>5 DEF LoopStart, TunSetupFailed, PollCmd, ObeyCancel, ObeyPause,
              ObeyNothing, Wake, Resume, Exit
<1>6. CASE SendCmd \/ UNCHANGED vars
  BY <1>6 DEF SendCmd, vars
<1> QED
  BY <1>1, <1>3, <1>4, <1>5, <1>6 DEF Next, openconnect_mainloop, Terminated

\* No data goes over a session of an older key.
THEOREM StaleSessionsCarryNothing == Spec => NoStaleDtlsSend
<1>1. ASSUME DtlsInv, [Next]_vars, dtls_sent' # dtls_sent
      PROVE  dtls.ssl = dtls_session_id
  <2>1. DtlsSend
    BY <1>1, OnlyDtlsSends
  <2> QED
    BY <1>1, <2>1 DEF DtlsSend, DtlsInv, Serving, Consistent, AboveSleeping,
                      DtlsSessionFresh
<1> QED
  BY <1>1, DtlsInvariance, PTL DEF Spec, NoStaleDtlsSend

\* When the loop returns for a pause, both connections are closed.
THEOREM PauseClosesBoth == Spec => []PauseClosesConnections
<1>1. DtlsInv => PauseClosesConnections
  BY DEF DtlsInv
<1> QED
  BY <1>1, DtlsInvariance, PTL
-----------------------------------------------------------------------------
(***************************************************************************)
(* A detached session keeps its cookie.                                    *)
(***************************************************************************)
\* ssl_reconnect works without a connection.
ClosedWhileConnecting == pc \in {"connect", "backoff"} => ~ssl_open

\* A quit_reason does not survive the handler that set it; until the loop is
\* left it is not the user's.
ReasonPlaces ==
  quit_reason # "NONE" =>
    \/ pc \in {"exit", "done"}
    \/ /\ pc \in {"tcp", "tcp_write", "tcp_keepalive", "tcp_queue", "rekey",
                  "connect", "backoff", "aborted"}
       /\ quit_reason \in EndedByOthers

\* A cancel that was read is obeyed in the same pass of the loop, or ends the
\* reconnect that was under way.
CancelPlaces ==
  got_cancel_cmd =>
    pc \notin {"loop", "udp", "udp_keepalive", "udp_rekey", "udp_send", "select",
               "paused"}

\* A DETACH that was read waits to be obeyed, or ended the loop.
DetachNoticed ==
  cancel_type = "DETACH" => got_cancel_cmd \/ pc \in {"exit", "done"}

\* A loop that a DETACH ended has no reason to log off, or no connection; one
\* that ended before the DETACH was obeyed has another reason.
DetachedExit ==
  pc = "exit" /\ cancel_type = "DETACH" =>
    quit_reason \in EndedByOthers \union {"NONE"} \/ ~ssl_open

DetachInv ==
  /\ ClosedWhileConnecting
  /\ ReasonPlaces
  /\ CancelPlaces
  /\ DetachNoticed
  /\ DetachedExit
  /\ DetachKeepsCookie

\* It holds when the tunnel has just been established.
LEMMA DetachInit == Init => DetachInv
BY DEF Init, DetachInv, ClosedWhileConnecting, ReasonPlaces, CancelPlaces,
       DetachNoticed, DetachedExit, DetachKeepsCookie

\* dtls_mainloop reads commands in the MTU detection; a protocol error ends the
\* loop before there was any.
LEMMA DtlsKeepsDetach == DetachInv /\ dtls_mainloop => DetachInv'
<1> SUFFICES ASSUME DetachInv, dtls_mainloop PROVE DetachInv'
  OBVIOUS
<1> USE DEF NotDtls, tunVars, cmdVars, exitVars, AfterHandshake, EndedByOthers,
        DetachInv, ClosedWhileConnecting, ReasonPlaces,
        CancelPlaces, DetachNoticed, DetachedExit, DetachKeepsCookie
<1>1. CASE DtlsNeedReconnect
  BY <1>1 DEF DtlsNeedReconnect
<1>2. CASE DtlsConnecting
  BY <1>2 DEF DtlsConnecting
<1>3. CASE DtlsSleeping
  BY <1>3 DEF DtlsSleeping
<1>4. CASE DtlsRecv
  BY <1>4 DEF DtlsRecv, Quit
<1>5. CASE DtlsKeepalive
  BY <1>5 DEF DtlsKeepalive
<1>6. CASE DtlsRekeyFailed
  BY <1>6 DEF DtlsRekeyFailed
<1>7. CASE DtlsSend
  BY <1>7 DEF DtlsSend
<1>8. CASE DtlsSendDone
  BY <1>8 DEF DtlsSendDone
<1>9. CASE DetectMtuCmd
  BY <1>9 DEF DetectMtuCmd, check_cmd_fd
<1>10. CASE DetectMtuDone
  BY <1>10 DEF DetectMtuDone
<1> QED
  BY <1>1, <1>2, <1>3, <1>4, <1>5, <1>6, <1>7, <1>8, <1>9, <1>10 DEF dtls_mainloop

\* A reconnect that reads a command fails, with the connection closed.
LEMMA ReconnectKeepsDetach == DetachInv /\ ssl_reconnect => DetachInv'
<1> SUFFICES ASSUME DetachInv, ssl_reconnect PROVE DetachInv'
  OBVIOUS
<1> USE DEF NotReconnect, tunVars, cmdVars, EndedByOthers, DetachInv, ClosedWhileConnecting,
        ReasonPlaces, CancelPlaces, DetachNoticed, DetachedExit, DetachKeepsCookie
<1>1. CASE ConnectOk
  BY <1>1 DEF ConnectOk, GotCmd, ReturnToLoop, NoCmd
<1>2. CASE ConnectFail
  BY <1>2 DEF ConnectFail, ConnectError, ReconnectFailed, Quit, NoCmd
<1>3. CASE ConnectInterrupted
  <2>1. pc = "connect" /\ ~ssl_open' /\ UNCHANGED bye_sent
    BY <1>3 DEF ConnectInterrupted
  <2>2. pc' \in {"connect", "backoff", "exit"}
    BY <1>3 DEF ConnectInterrupted, ConnectError, ReconnectFailed, Quit
  <2>3. cancel_type' = "DETACH" => got_cancel_cmd'
    <3>1. CASE check_cmd_fd
      BY <2>1, <3>1 DEF check_cmd_fd
    <3>2. CASE NoCmd
      BY <2>1, <3>2 DEF NoCmd
    <3> QED
      BY <1>3, <3>1, <3>2 DEF ConnectInterrupted
  <2>4. pc' # "exit" => UNCHANGED quit_reason
    BY <1>3 DEF ConnectInterrupted, ConnectError, ReconnectFailed, Quit
  <2> QED
    BY <2>1, <2>2, <2>3, <2>4
<1>4. CASE BackoffCmd
  BY <1>4 DEF BackoffCmd, check_cmd_fd
<1>5. CASE BackoffExpire
  BY <1>5 DEF BackoffExpire, NoCmd
<1>6. CASE BackoffCancelled
  BY <1>6 DEF BackoffCancelled, ReconnectFailed, Quit, NoCmd
<1>7. CASE BackoffPaused
  BY <1>7 DEF BackoffPaused, ReturnToLoop, NoCmd
<1> QED
  BY <1>1, <1>2, <1>3, <1>4, <1>5, <1>6, <1>7 DEF ssl_reconnect

\* A rehandshake that reads a command gives way to such a reconnect.
LEMMA CstpKeepsDetach == DetachInv /\ cstp_mainloop => DetachInv'
<1> SUFFICES ASSUME DetachInv, cstp_mainloop PROVE DetachInv'
  OBVIOUS
<1> USE DEF NotCstp, DoReconnect, ReturnToLoop, tunVars, cmdVars, EndedByOthers, DetachInv,
        ClosedWhileConnecting, ReasonPlaces, CancelPlaces, DetachNoticed,
        DetachedExit, DetachKeepsCookie
<1>1. CASE CstpClosed
  BY <1>1 DEF CstpClosed
<1>2. CASE CstpReadEmpty
  BY <1>2 DEF CstpReadEmpty
<1>3. CASE CstpReadError
  BY <1>3 DEF CstpReadError
<1>4. CASE CstpRead
  BY <1>4 DEF CstpRead, Quit
<1>5. CASE CstpWriteOk
  BY <1>5 DEF CstpWriteOk
<1>6. CASE CstpWriteStalled
  BY <1>6 DEF CstpWriteStalled
<1>7. CASE CstpWriteError
  BY <1>7 DEF CstpWriteError
<1>8. CASE CstpWriteShort
  BY <1>8 DEF CstpWriteShort, Quit
<1>9. CASE CstpDpdResponse
  BY <1>9 DEF CstpDpdResponse
<1>10. CASE CstpKeepalive
  BY <1>10 DEF CstpKeepalive
<1>11. CASE CstpRekeyTunnel
  BY <1>11 DEF CstpRekeyTunnel
<1>12. CASE CstpRekeyInterrupted
  BY <1>12 DEF CstpRekeyInterrupted, check_cmd_fd
<1>13. CASE CstpRekeySsl
  BY <1>13 DEF CstpRekeySsl, DoDtlsReconnect, NoCmd
<1>14. CASE CstpNextPacket
  BY <1>14 DEF CstpNextPacket
<1>15. CASE CstpDone
  BY <1>15 DEF CstpDone
<1>16. CASE CstpWriteFreed
  BY <1>16 DEF CstpWriteFreed
<1> QED
  BY <1>1, <1>2, <1>3, <1>4, <1>5, <1>6, <1>7, <1>8, <1>9, <1>10, <1>11, <1>12,
     <1>13, <1>14, <1>15, <1>16, ReconnectKeepsDetach DEF cstp_mainloop

\* tun_mainloop is not reached with a reason to quit.
LEMMA TunKeepsDetach == DetachInv /\ tun_mainloop => DetachInv'
<1> SUFFICES ASSUME DetachInv, tun_mainloop PROVE DetachInv'
  OBVIOUS
<1> USE DEF NotLoop, tunVars, cmdVars, exitVars, EndedByOthers, DetachInv,
        ClosedWhileConnecting,
        ReasonPlaces, CancelPlaces, DetachNoticed, DetachedExit, DetachKeepsCookie
<1>1. CASE TunDown
  BY <1>1 DEF TunDown
<1>2. CASE TunRead
  BY <1>2 DEF TunRead
<1>3. CASE TunReadEnd
  BY <1>3 DEF TunReadEnd
<1>4. CASE TunWrite
  BY <1>4 DEF TunWrite
<1>5. CASE TunClientGone
  BY <1>5 DEF TunClientGone, Quit
<1>6. CASE TunWriteDone
  BY <1>6 DEF TunWriteDone
<1> QED
  BY <1>1, <1>2, <1>3, <1>4, <1>5, <1>6 DEF tun_mainloop

\* The command is obeyed in the pass that reads it.
LEMMA LoopKeepsDetach ==
  ASSUME DetachInv,
         \/ LoopStart \/ TunSetupFailed \/ PollCmd \/ ObeyCancel \/ ObeyPause
         \/ ObeyNothing \/ Wake \/ Resume \/ Exit \/ SendCmd \/ UNCHANGED vars
  PROVE  DetachInv'
<1> USE DEF NotLoop, tunVars, cmdVars, exitVars, EndedByOthers, DetachInv,
        ClosedWhileConnecting,
        ReasonPlaces, CancelPlaces, DetachNoticed, DetachedExit, DetachKeepsCookie
<1>1. CASE LoopStart
  BY <1>1 DEF LoopStart, NextHandler
<1>2. CASE TunSetupFailed
  BY <1>2 DEF TunSetupFailed
<1>3. CASE PollCmd
  BY <1>3 DEF PollCmd, check_cmd_fd, NoCmd
<1>4. CASE ObeyCancel
  BY <1>4 DEF ObeyCancel, CancelReason
<1>5. CASE ObeyPause
  BY <1>5 DEF ObeyPause
<1>6. CASE ObeyNothing
  BY <1>6 DEF ObeyNothing, GotCmd
<1>7. CASE Wake
  BY <1>7 DEF Wake
<1>8. CASE Resume
  BY <1>8 DEF Resume
<1>9. CASE Exit
  BY <1>9 DEF Exit
<1>10. CASE SendCmd
  BY <1>10 DEF SendCmd
<1>11. CASE UNCHANGED vars
  BY <1>11 DEF vars
<1> QED
  BY <1>1, <1>2, <1>3, <1>4, <1>5, <1>6, <1>7, <1>8, <1>9, <1>10, <1>11

\* Every step of the loop keeps it.
LEMMA DetachInductive == DetachInv /\ [Next]_vars => DetachInv'
BY DtlsKeepsDetach, CstpKeepsDetach, TunKeepsDetach, LoopKeepsDetach
DEF Next, openconnect_mainloop, Terminated

\* And so it always holds.
LEMMA DetachInvariance == Spec => []DetachInv
BY DetachInit, DetachInductive, PTL DEF Spec

\* The tun device is shut down, and a session left by DETACH is logged off only
\* when something else ended the loop before it obeyed the command.
THEOREM DetachAloneKeepsSession == Spec => []DetachKeepsCookie
<1>1. DetachInv => DetachKeepsCookie
  BY DEF DetachInv
<1> QED
  BY <1>1, DetachInvariance, PTL
-----------------------------------------------------------------------------
(***************************************************************************)
(* The buffer of the compressors.                                          *)
(***************************************************************************)
Agreed == dtls_compr \/ cstp_compr # "NONE"

\* A response that agreed to compression and then failed leaves the agreement
\* behind without a buffer, and no connection: the loop gives up, tries again,
\* or obeys the pause, which closes DTLS, and comes back to reconnect.
AwaitsConnection ==
  \/ pc \in {"tcp", "connect", "backoff", "exit", "done", "aborted"}
  \/ pc \in {"tun_read", "tun_write", "cmd", "obey"} /\ GotCmd
  \/ pc \in {"paused", "loop", "udp"} /\ dtls.state \notin AboveSleeping

BufferInv ==
  /\ deflate_pkt_size \in BufSizes \union {0}
  /\ Agreed /\ deflate_pkt_size = 0 => ~ssl_open /\ AwaitsConnection

\* It holds when the tunnel has just been established.
LEMMA BufferInit == Init => BufferInv
BY ConfigAssumption DEF Init, BufferInv, Agreed

\* A step that agrees to nothing and leaves the buffer and the connection alone
BufferAside ==
  /\ UNCHANGED <<deflate_pkt_size, ssl_open>>
  /\ Agreed' => Agreed

\* dtls_mainloop without a connection does no more than start a handshake.
LEMMA DtlsKeepsBuffer == BufferInv /\ dtls_mainloop => BufferInv'
<1> SUFFICES ASSUME BufferInv, dtls_mainloop PROVE BufferInv'
  OBVIOUS
<1>1. BufferAside
  <2> USE DEF BufferAside, Agreed, NotDtls, negotiated, sendVars, bufferVars
  <2>1. CASE \/ DtlsNeedReconnect \/ DtlsConnecting \/ DtlsSleeping \/ DtlsRecv
             \/ DtlsKeepalive \/ DtlsRekeyFailed
    <3>1. NotDtls /\ UNCHANGED sendVars
      BY <2>1 DEF DtlsNeedReconnect, DtlsConnecting, DtlsSleeping, DtlsRecv,
                  DtlsKeepalive, DtlsRekeyFailed
    <3> QED
      BY <3>1
  <2>2. CASE DetectMtuCmd \/ DetectMtuDone \/ DtlsSend \/ DtlsSendDone
    BY <2>2 DEF DetectMtuCmd, DetectMtuDone, DtlsSend, DtlsSendDone
  <2> QED
    BY <2>1, <2>2 DEF dtls_mainloop
<1>2. ASSUME Agreed, deflate_pkt_size = 0 PROVE pc' \in {"tcp", "exit"}
  <2>1. ~(pc \in {"udp_keepalive", "udp_rekey", "udp_send", "detect_mtu"})
    BY <1>2 DEF BufferInv, AwaitsConnection
  <2>2. pc = "udp" => dtls.state \notin AboveSleeping
    BY <1>2 DEF BufferInv, AwaitsConnection
  <2>3. DtlsNeedReconnect \/ DtlsSleeping
    BY <2>1, <2>2
    DEF AboveSleeping, dtls_mainloop, DtlsConnecting, DtlsRecv, DtlsKeepalive,
        DtlsRekeyFailed, DetectMtuCmd, DetectMtuDone, DtlsSend, DtlsSendDone
  <2> QED
    BY <2>3 DEF DtlsNeedReconnect, DtlsSleeping
<1> QED
  BY <1>1, <1>2 DEF BufferInv, BufferAside, AwaitsConnection

\* Every response that succeeds provides the buffer it asks for.
LEMMA ReconnectKeepsBuffer ==
  ASSUME BufferInv, ClosedWhileConnecting, ssl_reconnect PROVE BufferInv'
<1> USE ConfigAssumption
    DEF BufferInv, AwaitsConnection, ClosedWhileConnecting, Agreed, NotReconnect,
        sendVars, bufferVars, negotiated
<1>1. CASE ConnectOk
  <2>1. PICK bufsize \in IF NeedsBuffer THEN BufSizes ELSE {0} :
          IF bufsize > deflate_pkt_size THEN deflate_pkt_size' = bufsize
                                        ELSE UNCHANGED deflate_pkt_size
    BY <1>1 DEF ConnectOk, NewDeflateBuffer
  <2>2. bufsize \in Nat /\ deflate_pkt_size \in Nat /\ (NeedsBuffer => bufsize > 0)
    BY <2>1
  <2>3. /\ deflate_pkt_size' \in BufSizes \union {0}
        /\ NeedsBuffer => deflate_pkt_size' # 0
    BY <2>1, <2>2
  <2> QED
    BY <2>3 DEF NeedsBuffer
<1>2. CASE ConnectFail
  BY <1>2 DEF ConnectFail, ConnectError, ReconnectFailed, Quit
<1>3. CASE ConnectInterrupted
  <2>1. /\ pc = "connect" /\ pc' \in {"connect", "backoff", "exit"}
        /\ UNCHANGED <<deflate_pkt_size, ssl_open>>
    BY <1>3 DEF ConnectInterrupted, ConnectError, ReconnectFailed, Quit
  <2> QED
    BY <2>1
<1>4. CASE BackoffCmd
  BY <1>4 DEF BackoffCmd
<1>5. CASE BackoffExpire
  BY <1>5 DEF BackoffExpire
<1>6. CASE BackoffCancelled
  BY <1>6 DEF BackoffCancelled, ReconnectFailed, Quit
<1>7. CASE BackoffPaused
  BY <1>7 DEF BackoffPaused, ReturnToLoop, NoCmd, cmdVars, GotCmd
<1> QED
  BY <1>1, <1>2, <1>3, <1>4, <1>5, <1>6, <1>7 DEF ssl_reconnect

\* cstp_mainloop without a connection does nothing but reconnect.
LEMMA CstpKeepsBuffer ==
  ASSUME BufferInv, ClosedWhileConnecting, cstp_mainloop PROVE BufferInv'
<1>1. CASE ssl_reconnect
  BY <1>1, ReconnectKeepsBuffer
<1>2. CASE CstpClosed
  BY <1>2 DEF CstpClosed, DoReconnect, NotCstp, negotiated, sendVars, bufferVars,
              BufferInv, AwaitsConnection, Agreed
<1>3. CASE pc # "tcp" \/ ssl_open
  <2>1. CASE UNCHANGED deflate_pkt_size /\ (Agreed' => Agreed)
             /\ pc \in {"tcp", "tcp_write", "tcp_keepalive", "tcp_queue", "rekey"}
    BY <1>3, <2>1 DEF BufferInv, AwaitsConnection
  <2> USE DEF Agreed, DoReconnect, NotCstp, negotiated, sendVars, bufferVars
  <2>2. CASE \/ CstpReadEmpty \/ CstpReadError \/ CstpRead \/ CstpWriteOk
             \/ CstpWriteFreed \/ CstpWriteStalled
    BY <2>1, <2>2 DEF CstpReadEmpty, CstpReadError, CstpRead, CstpWriteOk,
                      CstpWriteFreed, CstpWriteStalled
  <2>3. CASE CstpWriteError \/ CstpWriteShort \/ CstpDpdResponse \/ CstpKeepalive
    BY <2>1, <2>3 DEF CstpWriteError, CstpWriteShort, CstpDpdResponse, CstpKeepalive
  <2>4. CASE CstpRekeyTunnel \/ CstpRekeyInterrupted \/ CstpRekeySsl
    BY <2>1, <2>4 DEF CstpRekeyTunnel, CstpRekeyInterrupted, CstpRekeySsl,
                      DoDtlsReconnect
  <2>5. CASE CstpNextPacket \/ CstpDone
    BY <2>1, <2>5 DEF CstpNextPacket, CstpDone
  <2> QED
    BY <1>1, <1>2, <2>2, <2>3, <2>4, <2>5 DEF cstp_mainloop
<1>4. CASE pc = "tcp" /\ ~ssl_open
  BY <1>1, <1>2, <1>4
  DEF cstp_mainloop, CstpReadEmpty, CstpReadError, CstpRead, CstpWriteOk,
      CstpWriteFreed, CstpWriteStalled, CstpWriteError, CstpWriteShort,
      CstpDpdResponse, CstpKeepalive, CstpRekeyTunnel, CstpRekeyInterrupted,
      CstpRekeySsl, CstpNextPacket, CstpDone
<1> QED
  BY <1>3, <1>4

\* The rest of a pass keeps the command that ended the reconnect, until it is
\* obeyed.
LEMMA LoopKeepsBuffer ==
  ASSUME BufferInv, DtlsInv,
         \/ LoopStart \/ TunSetupFailed \/ tun_mainloop \/ PollCmd \/ ObeyCancel
         \/ ObeyPause \/ ObeyNothing \/ Wake \/ Resume \/ Exit \/ SendCmd
         \/ UNCHANGED vars
  PROVE  BufferInv'
<1> USE DEF NotLoop, negotiated, sendVars, bufferVars, dtlsVars, cmdVars, GotCmd,
        BufferInv, AwaitsConnection, Agreed
<1>1. CASE LoopStart
  BY <1>1 DEF LoopStart, NextHandler
<1>2. CASE TunSetupFailed
  BY <1>2 DEF TunSetupFailed
<1>3. CASE tun_mainloop
  <2>1. CASE TunDown \/ TunRead \/ TunReadEnd
    BY <2>1 DEF TunDown, TunRead, TunReadEnd
  <2>2. CASE TunWrite
    BY <2>2 DEF TunWrite
  <2>3. CASE TunClientGone
    BY <2>3 DEF TunClientGone, Quit
  <2>4. CASE TunWriteDone
    BY <2>4 DEF TunWriteDone
  <2> QED
    BY <1>3, <2>1, <2>2, <2>3, <2>4 DEF tun_mainloop
<1>4. CASE PollCmd
  <2>1. CASE GotCmd
    BY <1>4, <2>1 DEF PollCmd, NoCmd
  <2>2. CASE ~GotCmd
    BY <1>4, <2>2 DEF PollCmd
  <2> QED
    BY <2>1, <2>2
<1>5. CASE ObeyCancel
  BY <1>5 DEF ObeyCancel
<1>6. CASE ObeyPause
  <2>1. dtls'.state \notin AboveSleeping
    BY <1>6, CloseFacts DEF ObeyPause, PauseClosesDtls, DtlsInv, Consistent,
                            AboveDisabled, AboveSleeping
  <2> QED
    BY <1>6, <2>1 DEF ObeyPause
<1>7. CASE ObeyNothing
  BY <1>7 DEF ObeyNothing
<1>8. CASE Wake
  BY <1>8 DEF Wake
<1>9. CASE Resume
  BY <1>9 DEF Resume
<1>10. CASE Exit
  BY <1>10 DEF Exit
<1>11. CASE SendCmd
  BY <1>11 DEF SendCmd
<1>12. CASE UNCHANGED vars
  BY <1>12 DEF vars
<1> QED
  BY <1>1, <1>2, <1>3, <1>4, <1>5, <1>6, <1>7, <1>8, <1>9, <1>10, <1>11, <1>12

\* Every step of the loop keeps it.
LEMMA BufferInductive ==
  BufferInv /\ DtlsInv /\ DetachInv /\ [Next]_vars => BufferInv'
BY DtlsKeepsBuffer, CstpKeepsBuffer, LoopKeepsBuffer
DEF DetachInv, Next, openconnect_mainloop, Terminated

\* And so it always holds.
LEMMA BufferInvariance == Spec => []BufferInv
BY BufferInit, BufferInductive, DtlsInvariance, DetachInvariance, PTL DEF Spec

\* Neither channel takes a packet to compress while there is no buffer, whatever
\* responses came, failed or were interrupted before.
THEOREM CompressorsHaveBuffer == Spec => []CompressorHasBuffer
<1>1. BufferInv => CompressorHasBuffer
  BY ConfigAssumption DEF BufferInv, AwaitsConnection, Agreed, CompressorHasBuffer
<1> QED
  BY <1>1, BufferInvariance, PTL
-----------------------------------------------------------------------------
(***************************************************************************)
(* The queue of outgoing packets.                                          *)
(***************************************************************************)
Packet == Nat \ {NULL}

\* Only packets are queued, and a compressed one is remembered.
Packets ==
  /\ tun_read \in Nat
  /\ outgoing_queue \in Seq(Packet)
  /\ current_ssl_pkt \in {DEFLATE_PKT, FREED_PKT} => pending_deflated_pkt \in Packet

\* handle_outgoing always has a record to write.
RecordToWrite == pc = "tcp_write" => current_ssl_pkt # NULL

AfterTcp == {"tun_read", "tun_write", "cmd", "obey", "select"}

\* cstp_mainloop leaves packets behind only for DTLS, behind a record it could
\* not write, or with did_work set so that the loop comes round again.
LeftForAReason ==
  /\ pc \in AfterTcp /\ outgoing_queue # <<>> /\ dtls.state # "CONNECTED"
       => current_ssl_pkt # NULL \/ did_work
  /\ pc = "select" => ~did_work

\* The queue is read into only when it has room, and while there is a tun
\* device; every pass ends with the reads on if there is room.
ReadsWithRoom ==
  /\ tun_monitored => Len(outgoing_queue) < MaxQlen
  /\ ~tun_up /\ pc # "done" => outgoing_queue = <<>> /\ ~tun_monitored
  /\ pc \in AfterTcp \ {"tun_read"} /\ tun_up =>
       (tun_monitored <=> Len(outgoing_queue) < MaxQlen)

\* What holds when the server never agrees to the stream compressor
Bounded ==
  /\ cstp_compr # "DEFLATE"
  /\ QueueLimit
  /\ ReadsWithRoom

QueueInv ==
  /\ Packets
  /\ RecordToWrite
  /\ LeftForAReason
  /\ "DEFLATE" \notin ServerCompr => Bounded
-----------------------------------------------------------------------------
\* The packet-queue helpers
LEMMA QueuePacket ==
  ASSUME NEW q \in Seq(Packet), NEW p \in Packet
  PROVE  /\ queue_packet(q, p) \in Seq(Packet)
         /\ Len(queue_packet(q, p)) = Len(q) + 1
BY DEF queue_packet

LEMMA DequeuePacket ==
  ASSUME NEW q \in Seq(Packet), q # <<>>
  PROVE  /\ Head(q) \in Packet
         /\ dequeue_packet(q) \in Seq(Packet)
         /\ Len(dequeue_packet(q)) = Len(q) - 1
BY DEF dequeue_packet

LEMMA RequeuePacket ==
  ASSUME NEW q \in Seq(Packet), q # <<>>
  PROVE  requeue_packet(dequeue_packet(q), Head(q)) = q
BY DEF requeue_packet, dequeue_packet

\* It holds when the tunnel has just been established.
LEMMA QueueInit == Init => QueueInv
<1> SUFFICES ASSUME Init PROVE QueueInv
  OBVIOUS
<1> USE ConfigAssumption DEF Init
<1>1. Packets
  BY DEF Packets, NULL, DEFLATE_PKT, FREED_PKT
<1>2. RecordToWrite /\ LeftForAReason
  BY DEF RecordToWrite, LeftForAReason, AfterTcp
<1>3. "DEFLATE" \notin ServerCompr => Bounded
  BY DEF Bounded, QueueLimit, ReadsWithRoom, AfterTcp
<1> QED
  BY <1>1, <1>2, <1>3 DEF QueueInv

\* A step that leaves the queue, the record being written and the tun device
\* alone, and does not end the pass
QueueAside ==
  /\ UNCHANGED <<tun_read, outgoing_queue, current_ssl_pkt,
                 pending_deflated_pkt, tun_up, tun_monitored>>
  /\ cstp_compr' \in {cstp_compr} \union ServerCompr
  /\ pc # "done" /\ pc' \notin AfterTcp \union {"tcp_write"}

\* Such a step keeps it.
LEMMA AsideKeepsQueue == QueueInv /\ QueueAside => QueueInv'
BY DEF QueueInv, QueueAside, Packets, RecordToWrite, LeftForAReason, Bounded,
       QueueLimit, ReadsWithRoom, AfterTcp

\* dtls_mainloop only takes packets from the queue, or puts one back.
LEMMA DtlsKeepsQueue == QueueInv /\ dtls_mainloop => QueueInv'
<1> SUFFICES ASSUME QueueInv, dtls_mainloop PROVE QueueInv'
  OBVIOUS
<1> USE DEF NotDtls, negotiated, cstpVars, tunVars, sendVars, QueueAside,
        AfterTcp, AfterHandshake
<1>1. CASE DtlsNeedReconnect
  BY <1>1, AsideKeepsQueue DEF DtlsNeedReconnect
<1>2. CASE DtlsConnecting
  BY <1>2, AsideKeepsQueue DEF DtlsConnecting
<1>3. CASE DtlsSleeping
  BY <1>3, AsideKeepsQueue DEF DtlsSleeping
<1>4. CASE DtlsRecv
  BY <1>4, AsideKeepsQueue DEF DtlsRecv, Quit
<1>5. CASE DtlsKeepalive
  BY <1>5, AsideKeepsQueue DEF DtlsKeepalive
<1>6. CASE DtlsRekeyFailed
  BY <1>6, AsideKeepsQueue DEF DtlsRekeyFailed
<1>7. CASE DtlsSend
  <2>1. outgoing_queue \in Seq(Packet) /\ outgoing_queue # <<>>
    BY <1>7 DEF DtlsSend, QueueInv, Packets
  <2>2. CASE UNCHANGED outgoing_queue
    BY <1>7, <2>2, AsideKeepsQueue DEF DtlsSend
  <2>3. CASE outgoing_queue' = dequeue_packet(outgoing_queue) /\ UNCHANGED pc
    BY <1>7, <2>1, <2>3, DequeuePacket, ConfigAssumption
    DEF DtlsSend, QueueInv, Packets, RecordToWrite, LeftForAReason, Bounded,
        QueueLimit, ReadsWithRoom
  <2> QED
    BY <1>7, <2>1, <2>2, <2>3, RequeuePacket DEF DtlsSend
<1>8. CASE DtlsSendDone
  BY <1>8, AsideKeepsQueue DEF DtlsSendDone
<1>9. CASE DetectMtuCmd \/ DetectMtuDone
  BY <1>9, AsideKeepsQueue DEF DetectMtuCmd, DetectMtuDone
<1> QED
  BY <1>1, <1>2, <1>3, <1>4, <1>5, <1>6, <1>7, <1>8, <1>9 DEF dtls_mainloop

\* ssl_reconnect returns to the loop with work done, or not at all.
LEMMA ReconnectKeepsQueue == QueueInv /\ ssl_reconnect => QueueInv'
<1> SUFFICES ASSUME QueueInv, ssl_reconnect PROVE QueueInv'
  OBVIOUS
<1> USE DEF NotReconnect, negotiated, cstpVars, tunVars, sendVars, AfterTcp,
        ParseConnectResponse
<1>1. CASE ConnectOk
  <2>1. \/ UNCHANGED current_ssl_pkt
        \/ {current_ssl_pkt, current_ssl_pkt'} \subseteq {DEFLATE_PKT, FREED_PKT}
    BY <1>1 DEF ConnectOk, NewDeflateBuffer
  <2>2. Packets'
    BY <1>1, <2>1 DEF ConnectOk, QueueInv, Packets
  <2> QED
    BY <1>1, <2>2 DEF ConnectOk, ReturnToLoop, QueueInv, RecordToWrite,
                      LeftForAReason, Bounded, QueueLimit, ReadsWithRoom
<1>2. CASE ConnectFail
  BY <1>2, AsideKeepsQueue DEF ConnectFail, ConnectError, ReconnectFailed, Quit,
                               QueueAside
<1>3. CASE ConnectInterrupted
  <2>1. pc = "connect" /\ pc' \in {"connect", "backoff", "exit"}
    BY <1>3 DEF ConnectInterrupted, ConnectError, ReconnectFailed, Quit
  <2>2. cstp_compr' \in {cstp_compr} \union ServerCompr
    BY <1>3 DEF ConnectInterrupted
  <2> QED
    BY <1>3, <2>1, <2>2, AsideKeepsQueue DEF ConnectInterrupted, QueueAside
<1>4. CASE BackoffCmd
  BY <1>4, AsideKeepsQueue DEF BackoffCmd, QueueAside
<1>5. CASE BackoffExpire
  BY <1>5, AsideKeepsQueue DEF BackoffExpire, QueueAside
<1>6. CASE BackoffCancelled
  BY <1>6, AsideKeepsQueue
  DEF BackoffCancelled, ReconnectFailed, Quit, QueueAside
<1>7. CASE BackoffPaused
  BY <1>7 DEF BackoffPaused, ReturnToLoop, QueueInv, Packets, RecordToWrite,
              LeftForAReason, Bounded, QueueLimit, ReadsWithRoom
<1> QED
  BY <1>1, <1>2, <1>3, <1>4, <1>5, <1>6, <1>7 DEF ssl_reconnect

\* cstp_reconnect may put the compressed packet back, and then only does the
\* queue grow beyond what tun_mainloop read into it.
LEMMA DoReconnectKeepsQueue ==
  ASSUME QueueInv, DoReconnect, UNCHANGED <<negotiated, tunVars>>, pc # "done"
  PROVE  QueueInv'
<1> USE DEF negotiated, tunVars, AfterTcp
<1>1. CASE UNCHANGED <<current_ssl_pkt, outgoing_queue, pending_deflated_pkt>>
  BY <1>1, AsideKeepsQueue DEF DoReconnect, QueueAside
<1>2. CASE cstp_compr = "DEFLATE" /\ current_ssl_pkt = DEFLATE_PKT
  <2>1. outgoing_queue' \in Seq(Packet) /\ current_ssl_pkt' = NULL
    BY <1>2, QueuePacket
    DEF DoReconnect, RequeuesNothing, KeepsRecord, QueueInv, Packets, NULL,
        DEFLATE_PKT
  <2> QED
    BY <1>2, <2>1 DEF DoReconnect, QueueInv, Packets, RecordToWrite,
                      LeftForAReason, Bounded, NULL, DEFLATE_PKT, FREED_PKT
<1> QED
  BY <1>1, <1>2 DEF DoReconnect, KeepsRecord, cstpVars, sendVars

\* cstp_mainloop returns with packets queued only behind an unfinished record.
LEMMA CstpKeepsQueue == QueueInv /\ cstp_mainloop => QueueInv'
<1> SUFFICES ASSUME QueueInv, cstp_mainloop PROVE QueueInv'
  OBVIOUS
<1> USE DEF NotCstp, negotiated, cstpVars, tunVars, sendVars, QueueAside,
        AfterTcp
<1>1. CASE CstpClosed
  BY <1>1, DoReconnectKeepsQueue DEF CstpClosed
<1>2. CASE CstpReadEmpty
  BY <1>2 DEF CstpReadEmpty, QueueInv, Packets, RecordToWrite, LeftForAReason,
              Bounded, QueueLimit, ReadsWithRoom
<1>3. CASE CstpReadError
  BY <1>3, DoReconnectKeepsQueue DEF CstpReadError
<1>4. CASE CstpRead
  BY <1>4, AsideKeepsQueue DEF CstpRead, Quit
<1>5. CASE CstpWriteOk
  BY <1>5 DEF CstpWriteOk, QueueInv, Packets, RecordToWrite, LeftForAReason,
              Bounded, QueueLimit, ReadsWithRoom, NULL, DEFLATE_PKT, FREED_PKT
<1>6. CASE CstpWriteStalled
  <2>1. CASE DoReconnect
    BY <1>6, <2>1, DoReconnectKeepsQueue DEF CstpWriteStalled
  <2>2. CASE pc' = "rekey" /\ UNCHANGED <<cstpVars, sendVars>>
    BY <1>6, <2>2, AsideKeepsQueue DEF CstpWriteStalled
  <2>3. CASE ReturnToLoop /\ UNCHANGED <<cstpVars, sendVars>>
    BY <1>6, <2>3 DEF CstpWriteStalled, ReturnToLoop, QueueInv, Packets,
                      RecordToWrite, LeftForAReason, Bounded, QueueLimit,
                      ReadsWithRoom
  <2> QED
    BY <1>6, <2>1, <2>2, <2>3 DEF CstpWriteStalled
<1>7. CASE CstpWriteError
  BY <1>7, DoReconnectKeepsQueue DEF CstpWriteError
<1>8. CASE CstpWriteShort
  BY <1>8, AsideKeepsQueue DEF CstpWriteShort, Quit
<1>9. CASE CstpDpdResponse
  BY <1>9 DEF CstpDpdResponse, QueueInv, Packets, RecordToWrite, LeftForAReason,
              Bounded, QueueLimit, ReadsWithRoom, NULL, DPD_RESP_PKT, DEFLATE_PKT,
              FREED_PKT
<1>10. CASE CstpKeepalive
  <2>1. CASE DoReconnect
    BY <1>10, <2>1, DoReconnectKeepsQueue DEF CstpKeepalive
  <2>2. CASE UNCHANGED current_ssl_pkt /\ pc' \in {"rekey", "tcp_queue"}
             /\ UNCHANGED <<pending_deflated_pkt, sendVars>>
    BY <1>10, <2>2, AsideKeepsQueue DEF CstpKeepalive
  <2>3. CASE current_ssl_pkt' \in {DPD_PKT, KEEPALIVE_PKT} /\ pc' = "tcp_write"
             /\ UNCHANGED <<pending_deflated_pkt, sendVars>>
    BY <1>10, <2>3 DEF CstpKeepalive, QueueInv, Packets, RecordToWrite,
       LeftForAReason, Bounded, QueueLimit, ReadsWithRoom, NULL, DPD_PKT,
       KEEPALIVE_PKT, DEFLATE_PKT, FREED_PKT
  <2> QED
    BY <1>10, <2>1, <2>2, <2>3 DEF CstpKeepalive
<1>11. CASE CstpRekeyTunnel
  BY <1>11, DoReconnectKeepsQueue DEF CstpRekeyTunnel
<1>12. CASE CstpRekeyInterrupted
  <2>1. CASE DoReconnect
    BY <1>12, <2>1, DoReconnectKeepsQueue DEF CstpRekeyInterrupted
  <2>2. CASE UNCHANGED <<pc, cstpVars, sendVars>>
    BY <1>12, <2>2, AsideKeepsQueue DEF CstpRekeyInterrupted
  <2> QED
    BY <1>12, <2>1, <2>2 DEF CstpRekeyInterrupted
<1>13. CASE CstpRekeySsl
  BY <1>13 DEF CstpRekeySsl, DoDtlsReconnect, ReturnToLoop, QueueInv, Packets,
               RecordToWrite, LeftForAReason, Bounded, QueueLimit, ReadsWithRoom
<1>14. CASE CstpNextPacket
  <2>1. outgoing_queue \in Seq(Packet) /\ outgoing_queue # <<>>
    BY <1>14 DEF CstpNextPacket, QueueInv, Packets
  <2>2. current_ssl_pkt' # NULL
    BY <1>14, <2>1, DequeuePacket DEF CstpNextPacket, Packet, NULL, DEFLATE_PKT
  <2>3. Packets'
    <3>1. Head(outgoing_queue) \notin {DEFLATE_PKT, FREED_PKT}
      BY <2>1, DequeuePacket DEF Packet, DEFLATE_PKT, FREED_PKT
    <3> QED
      BY <1>14, <2>1, <3>1, DequeuePacket DEF CstpNextPacket, QueueInv, Packets
  <2>4. "DEFLATE" \notin ServerCompr => Bounded'
    BY <1>14, <2>1, DequeuePacket, ConfigAssumption
    DEF CstpNextPacket, QueueInv, Bounded, QueueLimit, ReadsWithRoom
  <2> QED
    BY <1>14, <2>2, <2>3, <2>4 DEF CstpNextPacket, QueueInv, RecordToWrite,
                                   LeftForAReason
<1>15. CASE CstpDone
  BY <1>15
  DEF CstpDone, CstpCarriesData, ReturnToLoop, dtlsVars, QueueInv, Packets, 
               RecordToWrite, LeftForAReason, Bounded, QueueLimit, ReadsWithRoom
<1>16. CASE CstpWriteFreed
  BY <1>16 DEF CstpWriteFreed, QueueInv, Packets, RecordToWrite, LeftForAReason,
               Bounded, QueueLimit, ReadsWithRoom, NULL, DEFLATE_PKT, FREED_PKT
<1> QED
  BY <1>1, <1>2, <1>3, <1>4, <1>5, <1>6, <1>7, <1>8, <1>9, <1>10, <1>11, <1>12,
     <1>13, <1>14, <1>15, <1>16, ReconnectKeepsQueue DEF cstp_mainloop

\* tun_mainloop reads while there is room.
LEMMA TunKeepsQueue == QueueInv /\ tun_mainloop => QueueInv'
<1> SUFFICES ASSUME QueueInv, tun_mainloop PROVE QueueInv'
  OBVIOUS
<1> USE DEF NotLoop, negotiated, cstpVars, tunVars, sendVars, AfterTcp
<1>1. CASE TunDown
  BY <1>1
  DEF TunDown, QueueInv, Packets, RecordToWrite, LeftForAReason, Bounded, 
              QueueLimit, ReadsWithRoom
<1>2. CASE TunRead
  <2>1. outgoing_queue \in Seq(Packet) /\ tun_read + 1 \in Packet
    BY <1>2 DEF TunRead, QueueInv, Packets, Packet, NULL
  <2>2. /\ outgoing_queue' \in Seq(Packet)
        /\ Len(outgoing_queue') = Len(outgoing_queue) + 1
    BY <1>2, <2>1, QueuePacket DEF TunRead
  <2>3. Packets'
    BY <1>2, <2>2 DEF TunRead, QueueInv, Packets
  <2>4. RecordToWrite' /\ LeftForAReason'
    BY <1>2 DEF TunRead, RecordToWrite, LeftForAReason
  <2>5. ASSUME "DEFLATE" \notin ServerCompr PROVE Bounded'
    <3>1. Len(outgoing_queue) \in Nat /\ Len(outgoing_queue) < MaxQlen
      BY <1>2, <2>1, <2>5 DEF TunRead, QueueInv, Bounded, ReadsWithRoom
    <3>2. Len(outgoing_queue') <= MaxQlen /\ cstp_compr' # "DEFLATE"
      BY <1>2, <2>2, <2>5, <3>1, ConfigAssumption DEF TunRead, QueueInv, Bounded
    <3>3. CASE Len(outgoing_queue') = MaxQlen
      BY <1>2, <3>2, <3>3, ConfigAssumption
      DEF TunRead, Bounded, QueueLimit, ReadsWithRoom, QueueFull
    <3>4. CASE Len(outgoing_queue') < MaxQlen
      <4>1. ~QueueFull(outgoing_queue')
        BY <2>2, <3>4, ConfigAssumption DEF QueueFull
      <4> QED
        BY <1>2, <3>2, <3>4, <4>1
        DEF TunRead, Bounded, QueueLimit, ReadsWithRoom
    <3> QED
      BY <2>2, <3>2, <3>3, <3>4, ConfigAssumption
  <2> QED
    BY <2>3, <2>4, <2>5 DEF QueueInv
<1>3. CASE TunReadEnd
  BY <1>3 DEF TunReadEnd, QueueHasRoom, QueueInv, Packets, RecordToWrite,
              LeftForAReason, Bounded, QueueLimit, ReadsWithRoom
<1>4. CASE TunWrite
  BY <1>4
  DEF TunWrite, QueueInv, Packets, RecordToWrite, LeftForAReason, Bounded, 
              QueueLimit, ReadsWithRoom
<1>5. CASE TunClientGone
  BY <1>5 DEF TunClientGone, Quit, QueueInv, Packets, RecordToWrite,
              LeftForAReason, Bounded, QueueLimit, ReadsWithRoom
<1>6. CASE TunWriteDone
  BY <1>6 DEF TunWriteDone, QueueInv, Packets, RecordToWrite, LeftForAReason,
              Bounded, QueueLimit, ReadsWithRoom
<1> QED
  BY <1>1, <1>2, <1>3, <1>4, <1>5, <1>6 DEF tun_mainloop

\* The loop sets tun up while nothing is queued, and sleeps without work only.
LEMMA LoopKeepsQueue ==
  ASSUME QueueInv,
         \/ LoopStart \/ TunSetupFailed \/ PollCmd \/ ObeyCancel \/ ObeyPause
         \/ ObeyNothing \/ Wake \/ Resume \/ Exit \/ SendCmd \/ UNCHANGED vars
  PROVE  QueueInv'
<1> USE DEF NotLoop, negotiated, cstpVars, tunVars, sendVars, AfterTcp
<1>1. CASE LoopStart
  <2>1. CASE UNCHANGED tunVars
    BY <1>1, <2>1, AsideKeepsQueue DEF LoopStart, NextHandler, QueueAside
  <2>2. CASE NeedsTun /\ tun_up' = TRUE /\ tun_monitored' = TRUE
    BY <1>1, <2>2, ConfigAssumption
    DEF LoopStart, NextHandler, NeedsTun, QueueInv, Packets, RecordToWrite,
        LeftForAReason, Bounded, QueueLimit, ReadsWithRoom
  <2> QED
    BY <1>1, <2>1, <2>2 DEF LoopStart
<1>2. CASE TunSetupFailed
  BY <1>2, AsideKeepsQueue DEF TunSetupFailed, QueueAside
<1>3. CASE PollCmd
  BY <1>3
  DEF PollCmd, QueueInv, Packets, RecordToWrite, LeftForAReason, Bounded, 
              QueueLimit, ReadsWithRoom
<1>4. CASE ObeyCancel
  BY <1>4, AsideKeepsQueue DEF ObeyCancel, QueueAside
<1>5. CASE ObeyPause
  BY <1>5, AsideKeepsQueue DEF ObeyPause, QueueAside
<1>6. CASE ObeyNothing
  BY <1>6 DEF ObeyNothing, QueueInv, Packets, RecordToWrite, LeftForAReason,
              Bounded, QueueLimit, ReadsWithRoom
<1>7. CASE Wake
  BY <1>7, AsideKeepsQueue DEF Wake, QueueAside
<1>8. CASE Resume
  BY <1>8, AsideKeepsQueue DEF Resume, QueueAside
<1>9. CASE Exit
  BY <1>9, ConfigAssumption
  DEF Exit, QueueInv, Packets, RecordToWrite, LeftForAReason, Bounded, QueueLimit,
      ReadsWithRoom
<1>10. CASE SendCmd
  BY <1>10 DEF SendCmd, dtlsVars, QueueInv, Packets, RecordToWrite,
               LeftForAReason, Bounded, QueueLimit, ReadsWithRoom
<1>11. CASE UNCHANGED vars
  BY <1>11 DEF vars, dtlsVars, QueueInv, Packets, RecordToWrite, LeftForAReason,
               Bounded, QueueLimit, ReadsWithRoom
<1> QED
  BY <1>1, <1>2, <1>3, <1>4, <1>5, <1>6, <1>7, <1>8, <1>9, <1>10, <1>11

\* Every step of the loop keeps it.
LEMMA QueueInductive == QueueInv /\ [Next]_vars => QueueInv'
BY DtlsKeepsQueue, CstpKeepsQueue, TunKeepsQueue, LoopKeepsQueue
DEF Next, openconnect_mainloop, Terminated

\* And so it always holds.
LEMMA QueueInvariance == Spec => []QueueInv
BY QueueInit, QueueInductive, PTL DEF Spec

\* While CSTP carries the data, the loop does not go to sleep on a packet it
\* could still hand to the connection.
THEOREM NoSleepOnPackets == Spec => []CstpWakeup
<1>1. QueueInv => CstpWakeup
  BY DEF QueueInv, LeftForAReason, AfterTcp, CstpWakeup
<1> QED
  BY <1>1, QueueInvariance, PTL

\* The queue keeps to its limit, as long as no server agrees to the stream
\* compressor: only cstp_reconnect's requeued packet exceeds it.
THEOREM QueueKeepsToItsLimit ==
  ASSUME "DEFLATE" \notin ServerCompr
  PROVE  Spec => []QueueLimit
<1>1. QueueInv => QueueLimit
  BY DEF QueueInv, Bounded
<1> QED
  BY <1>1, QueueInvariance, PTL

\* Under the same condition, the loop sleeps with tun unwatched only while the
\* queue is full.
THEOREM TunIsWatchedWithRoom ==
  ASSUME "DEFLATE" \notin ServerCompr
  PROVE  Spec => []Backpressure
<1>1. QueueInv => Backpressure
  BY DEF QueueInv, Bounded, ReadsWithRoom, AfterTcp, Backpressure
<1> QED
  BY <1>1, QueueInvariance, PTL
=============================================================================
