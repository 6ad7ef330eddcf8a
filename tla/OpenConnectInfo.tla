-------------------------- MODULE OpenConnectInfo --------------------------
(***************************************************************************)
(* The part of struct openconnect_info (openconnect-internal.h) that the   *)
(* packet loop of libopenconnect reads and writes, with the packet-queue   *)
(* helpers, and the history variables the properties talk about.  The      *)
(* modules Dtls, Reconnect, Cstp and Mainloop add the handlers of dtls.c,  *)
(* ssl.c, cstp.c and mainloop.c.                                           *)
(*                                                                         *)
(* The program counter pc names the place in openconnect_mainloop and its  *)
(* callees between two system calls, so that the network, the tun device   *)
(* and the writers of the command pipe interleave with the loop.           *)
(***************************************************************************)
EXTENDS Integers, Sequences

CONSTANTS
  MaxQlen,               \* vpninfo->max_qlen, the limit of --queue-len
  DtlsPsk,               \* dtls_cipher is "PSK-NEGOTIATE"
  SslRekey, DtlsRekey,   \* ssl_times.rekey_method, dtls_times.rekey_method
  SslKa, DtlsKa,         \* what keepalive_action may answer for each channel
  ServerCompr,           \* the values a CONNECT response may give cstp_compr
  ServerDtlsCompr,       \* the values it may give dtls_compr (on or off)
  BufSizes,              \* the sizes of deflate_pkt that the codec and the MTU of a
                         \* response may ask for
  ReconnectTimeout,      \* vpninfo->reconnect_timeout
  ReconnectInterval,     \* vpninfo->reconnect_interval
  ReconnectIntervalMax,  \* RECONNECT_INTERVAL_MAX
  ScriptTun,             \* vpninfo->script_tun, packets go to a program
  Commands,              \* the command bytes that may be written to cmd_fd
  MaxTx, MaxRx,          \* bounds: packets read from tun, packets received
  MaxSess,               \* bound: session ids the server hands out
  MaxCmds                \* bound: commands written

KaActions == {"NONE", "REKEY", "DPD_DEAD", "DPD", "KEEPALIVE"}
RekeyMethods == {"NONE", "SSL", "TUNNEL"}
Comprs == {"NONE", "STATELESS", "DEFLATE"}
AllCommands == {"CANCEL", "DETACH", "PAUSE", "STATS"}

ASSUME ConfigAssumption ==
  /\ MaxQlen \in Nat \ {0}
  /\ DtlsPsk \in BOOLEAN
  /\ SslRekey \in RekeyMethods /\ DtlsRekey \in RekeyMethods
  /\ SslKa \subseteq KaActions /\ DtlsKa \subseteq KaActions
  /\ "NONE" \in SslKa /\ "NONE" \in DtlsKa
  /\ "REKEY" \in SslKa => SslRekey # "NONE"
  /\ "REKEY" \in DtlsKa => DtlsRekey # "NONE"
  /\ ServerCompr \subseteq Comprs /\ ServerCompr # {}
  /\ ServerDtlsCompr \subseteq BOOLEAN /\ ServerDtlsCompr # {}
  /\ BufSizes \subseteq Nat \ {0} /\ BufSizes # {}
  /\ ReconnectTimeout \in Nat
  /\ ReconnectInterval \in Nat \ {0}
  /\ ReconnectIntervalMax \in Nat \ {0}
  /\ ScriptTun \in BOOLEAN
  /\ Commands \subseteq AllCommands

ASSUME BoundAssumption ==
  /\ MaxTx \in Nat /\ MaxRx \in Nat
  /\ MaxSess \in Nat \ {0} /\ MaxCmds \in Nat

VARIABLES
  pc,                   \* where the loop is
  dtls,                 \* [state |-> dtls_state, fd |-> dtls_fd # -1, ssl |-> dtls_ssl]
  dtls_need_reconnect,
  dtls_session_id,      \* generation of the session id (or App-ID) last parsed
  dtls_write_monitored, \* dtls_fd is in _select_wfds
  dtls_compr, cstp_compr,
  ssl_open,             \* https_sess # NULL and ssl_fd # -1
  current_ssl_pkt,      \* the record CSTP has to finish writing
  pending_deflated_pkt, \* the packet whose compressed form is in flight
  deflate_pkt,          \* which packet's data the shared buffer holds
  deflate_pkt_size,     \* the size of that buffer, 0 while there is none
  owe_ssl_dpd_response,
  outgoing_queue, incoming_queue,
  tun_up, tun_monitored,
  cmd_pipe, cmds_sent,
  got_cancel_cmd, cancel_type, got_pause_cmd,
  rtimeout, rinterval,  \* the locals timeout and interval of ssl_reconnect
  quit_reason, ret, did_work,
  tun_read,             \* history: packets 1..tun_read were read from tun
  cstp_sent, dtls_sent, \* history: what was written to each channel, in order
  cstp_lost,            \* history: packets whose record went out as something else
  rx_count,             \* history: packets 1..rx_count were received
  tun_written,          \* history: what was written to tun, in order
  bye_sent              \* history: a BYE (logoff) went out

dtlsVars == <<dtls, dtls_need_reconnect, dtls_write_monitored>>
negotiated == <<dtls_session_id, dtls_compr, cstp_compr>>
cstpVars == <<current_ssl_pkt, pending_deflated_pkt, owe_ssl_dpd_response>>
bufferVars == <<deflate_pkt, deflate_pkt_size>>
sentVars == <<cstp_sent, dtls_sent, cstp_lost>>
sendVars == <<bufferVars, outgoing_queue, sentVars>>
recvVars == <<incoming_queue, rx_count, tun_written>>
tunVars == <<tun_up, tun_monitored, tun_read>>
cmdVars == <<cmd_pipe, cmds_sent, got_cancel_cmd, cancel_type, got_pause_cmd>>
retryVars == <<rtimeout, rinterval>>
exitVars == <<quit_reason, ret, bye_sent>>

vars == <<pc, dtlsVars, negotiated, ssl_open, cstpVars, sendVars, recvVars,
          tunVars, cmdVars, retryVars, exitVars, did_work>>
-----------------------------------------------------------------------------
(***************************************************************************)
(* Packets are numbered in the order in which they enter the program.  The *)
(* static records dpd_pkt, dpd_resp_pkt and keepalive_pkt and the shared   *)
(* buffer deflate_pkt are what else current_ssl_pkt can point to, and a    *)
(* buffer that was deflate_pkt and has been freed.                         *)
(***************************************************************************)
NULL == 0
DPD_PKT == -1
DPD_RESP_PKT == -2
KEEPALIVE_PKT == -3
DEFLATE_PKT == -4
FREED_PKT == -5

\* What the pointer deflate_pkt is equal to
DeflatePkt == IF deflate_pkt_size > 0 THEN DEFLATE_PKT ELSE NULL

DtlsStates == {"NOSECRET", "SECRET", "DISABLED", "SLEEPING", "CONNECTING", "CONNECTED"}
AboveDisabled == {"SLEEPING", "CONNECTING", "CONNECTED"} \* dtls_state > DTLS_DISABLED
AboveSleeping == {"CONNECTING", "CONNECTED"}             \* dtls_state > DTLS_SLEEPING

PcLabels ==
  {"loop", "udp", "udp_keepalive", "udp_rekey", "udp_send", "detect_mtu",
   "tcp", "tcp_write", "tcp_keepalive", "tcp_queue", "rekey", "connect", "backoff",
   "tun_read", "tun_write", "cmd", "obey", "select", "paused", "exit", "done",
   "aborted"}

\* The loop has returned for good, or a bad pointer has ended the process.
Ended == {"done", "aborted"}

QuitReasons == {"NONE", "Aborted by caller", "Server request",
                "CSTP reconnect failed", "Protocol error", "Internal error",
                "Client connection terminated"}
Results == {"0", "EINTR", "ECONNABORTED", "EPIPE", "EPERM", "EINVAL", "EIO"}

\* queue_packet, dequeue_packet and requeue_packet on a pkt_q
queue_packet(q, p) == Append(q, p)
dequeue_packet(q) == Tail(q)
requeue_packet_AtTail(q, p) == Append(q, p)   \* mutant: uses queue_packet
requeue_packet(q, p) == <<p>> \o q

\* quit_reason is set and the handler returns r: the loop is left.
Quit(reason, r) ==
  /\ quit_reason' = reason
  /\ ret' = r
  /\ pc' = "exit"

\* The handler returns to the loop, which goes on unless a quit_reason is set.
ReturnToLoop == pc' = IF quit_reason = "NONE" THEN "tun_read" ELSE "exit"
=============================================================================
