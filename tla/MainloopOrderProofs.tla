------------------------ MODULE MainloopOrderProofs ------------------------
(***************************************************************************)
(* Where the packets are and in which order they go, for every             *)
(* configuration and any number of packets: TLAPS proofs that the loop     *)
(* accounts for every packet, that it loses none while the shared buffer   *)
(* has one size, that each channel carries its packets in order, and that  *)
(* the loop implements TunnelAbs, all from the moves that a step can make  *)
(* with a packet (Moves); and that received packets reach tun in order.    *)
(***************************************************************************)
EXTENDS MainloopTypeProofs, SequenceTheorems

\* Nothing is in flight while cstp_mainloop looks for something to write, and
\* the shared buffer holds the packet whose compressed form is in flight, unless
\* a reconnect replaced it.
RecordInv ==
  /\ pc \in {"tcp_keepalive", "tcp_queue"} => current_ssl_pkt = NULL
  /\ current_ssl_pkt = DEFLATE_PKT =>
       deflate_pkt_size # 0 /\ deflate_pkt \in {NULL, pending_deflated_pkt}

\* What a step does to the packets: nothing, ...
Stay ==
  /\ UNCHANGED <<tun_read, outgoing_queue, sentVars>>
  /\ InFlight' = InFlight

\* ... one more is read from tun, ...
Taken ==
  /\ tun_read' = tun_read + 1
  /\ outgoing_queue' = Append(outgoing_queue, tun_read + 1)
  /\ UNCHANGED sentVars
  /\ InFlight' = InFlight

\* ... the first in the queue becomes the record CSTP has to write, ...
Dequeued ==
  /\ outgoing_queue # <<>>
  /\ outgoing_queue' = Tail(outgoing_queue)
  /\ InFlight = {} /\ InFlight' = {Head(outgoing_queue)}
  /\ UNCHANGED <<tun_read, sentVars>>

\* ... the record is written, ...
Written(p) ==
  /\ InFlight = {p} /\ InFlight' = {}
  /\ cstp_sent' = Append(cstp_sent, p)
  /\ UNCHANGED <<tun_read, outgoing_queue, dtls_sent, cstp_lost>>

\* ... or something else is written in its place, ...
Lost(p) ==
  /\ InFlight = {p} /\ InFlight' = {}
  /\ cstp_lost' = Append(cstp_lost, p)
  /\ UNCHANGED <<tun_read, outgoing_queue, cstp_sent, dtls_sent>>

\* ... or goes back to the queue, which only the stream compressor asks for, ...
Returned(p) ==
  /\ cstp_compr = "DEFLATE"
  /\ InFlight = {p} /\ InFlight' = {}
  /\ outgoing_queue' = Append(outgoing_queue, p)
  /\ UNCHANGED <<tun_read, sentVars>>

\* ... or the first in the queue is sent over DTLS.
SentOverDtls ==
  /\ outgoing_queue # <<>>
  /\ outgoing_queue' = Tail(outgoing_queue)
  /\ dtls_sent' = Append(dtls_sent, Head(outgoing_queue))
  /\ UNCHANGED <<tun_read, cstp_sent, cstp_lost>>
  /\ InFlight' = InFlight

Moves ==
  \/ Stay \/ Taken \/ Dequeued \/ SentOverDtls
  \/ \E p \in Packet : Written(p) \/ Lost(p) \/ Returned(p)

Sent == Range(cstp_sent) \union Range(dtls_sent)
Gone == Sent \union Range(cstp_lost)

NoDuplicates(s) == \A i, j \in 1..Len(s) : s[i] = s[j] => i = j

\* No packet is queued twice, queued and in flight, or gone and still to be sent.
InOnePlace ==
  /\ NoDuplicates(outgoing_queue)
  /\ Range(outgoing_queue) \intersect InFlight = {}
  /\ (Range(outgoing_queue) \union InFlight) \intersect Gone = {}

\* Without the stream compressor: the queue is in order, behind all that has left
\* it, and CSTP's record is behind what CSTP has sent.
QueueInOrder ==
  /\ Increasing(outgoing_queue)
  /\ \A p \in Range(outgoing_queue) : \A s \in Sent \union InFlight : s < p
  /\ \A p \in InFlight : \A s \in Range(cstp_sent) : s < p

\* Where the packets are, as sequences of packets
PacketSeqs ==
  /\ tun_read \in Nat
  /\ outgoing_queue \in Seq(Nat) /\ cstp_sent \in Seq(Nat) /\ dtls_sent \in Seq(Nat)
  /\ cstp_lost \in Seq(Nat)

OrderInv ==
  /\ TypeInv /\ QueueInv /\ DetachInv /\ BufferInv /\ RecordInv
  /\ TxConserved /\ InOnePlace
  /\ "DEFLATE" \notin ServerCompr => QueueInOrder /\ ChannelOrder

\* Received packets are numbered as they come, and the queue is behind what tun has.
RxInv ==
  /\ Increasing(tun_written) /\ Increasing(incoming_queue)
  /\ \A w \in Range(tun_written) : w <= rx_count
  /\ \A q \in Range(incoming_queue) :
       q <= rx_count /\ \A w \in Range(tun_written) : w < q
-----------------------------------------------------------------------------
(***************************************************************************)
(* Sequences of packets.                                                   *)
(***************************************************************************)
\* Append adds one element, Tail takes the head off.
LEMMA AppendFacts ==
  ASSUME NEW s \in Seq(Nat), NEW x \in Nat
  PROVE  /\ Append(s, x) \in Seq(Nat)
         /\ Len(Append(s, x)) = Len(s) + 1
         /\ Range(Append(s, x)) = Range(s) \union {x}
<1>1. /\ Append(s, x) \in Seq(Nat) /\ Len(Append(s, x)) = Len(s) + 1
      /\ \A i \in 1..Len(s) : Append(s, x)[i] = s[i]
      /\ Append(s, x)[Len(s) + 1] = x
  OBVIOUS
<1>2. /\ DOMAIN s = 1..Len(s) /\ Len(s) \in Nat
      /\ DOMAIN Append(s, x) = 1..(Len(s) + 1)
  OBVIOUS
<1> QED
  BY <1>1, <1>2 DEF Range

LEMMA TailFacts ==
  ASSUME NEW s \in Seq(Nat), s # <<>>
  PROVE  /\ Tail(s) \in Seq(Nat) /\ Head(s) \in Nat
         /\ Len(Tail(s)) = Len(s) - 1
         /\ Range(s) = Range(Tail(s)) \union {Head(s)}
<1>1. /\ Tail(s) \in Seq(Nat) /\ Head(s) \in Nat /\ Head(s) = s[1]
      /\ Len(Tail(s)) = Len(s) - 1 /\ Len(s) \in Nat /\ Len(s) >= 1
      /\ \A i \in 1..(Len(s) - 1) : Tail(s)[i] = s[i + 1]
  OBVIOUS
<1>2. DOMAIN s = 1..Len(s) /\ DOMAIN Tail(s) = 1..(Len(s) - 1)
  BY <1>1
<1>3. ASSUME NEW x \in Range(s) PROVE x \in Range(Tail(s)) \union {Head(s)}
  <2>1. PICK i \in 1..Len(s) : x = s[i]
    BY <1>2 DEF Range
  <2>2. CASE i = 1
    BY <1>1, <2>1, <2>2
  <2>3. CASE i # 1
    <3>1. i - 1 \in 1..(Len(s) - 1)
      BY <1>1, <2>3
    <3>2. Tail(s)[i - 1] = s[(i - 1) + 1] /\ (i - 1) + 1 = i
      BY <1>1, <3>1
    <3>3. Tail(s)[i - 1] = x
      BY <2>1, <3>2, Zenon
    <3> QED
      BY <1>2, <3>1, <3>3, Zenon DEF Range
  <2> QED
    BY <2>2, <2>3
<1>4. Range(Tail(s)) \union {Head(s)} \subseteq Range(s)
  BY <1>1, <1>2 DEF Range
<1> QED
  BY <1>1, <1>3, <1>4

\* The elements of a sequence, by position
LEMMA RangeFacts ==
  ASSUME NEW s \in Seq(Nat)
  PROVE  /\ Range(s) \subseteq Nat
         /\ \A i \in 1..Len(s) : s[i] \in Range(s)
         /\ \A x \in Range(s) : \E i \in 1..Len(s) : x = s[i]
BY DEF Range

\* The empty sequence
LEMMA EmptyFacts ==
  /\ <<>> \in Seq(Nat) /\ Range(<<>>) = {}
  /\ Increasing(<<>>) /\ NoDuplicates(<<>>)
BY DEF Range, Increasing, NoDuplicates

\* Increasing and duplicate-free sequences stay so when the right thing is appended
\* or the head is taken off.
LEMMA IncreasingAppend ==
  ASSUME NEW s \in Seq(Nat), NEW x \in Nat, Increasing(s),
         \A y \in Range(s) : y < x
  PROVE  Increasing(Append(s, x))
<1>1. \A i \in 1..Len(s) : s[i] < x
  BY RangeFacts
<1>2. /\ Len(Append(s, x)) = Len(s) + 1 /\ Len(s) \in Nat
      /\ \A i \in 1..Len(s) : Append(s, x)[i] = s[i]
      /\ Append(s, x)[Len(s) + 1] = x
  OBVIOUS
<1> QED
  BY <1>1, <1>2 DEF Increasing

LEMMA IncreasingTail ==
  ASSUME NEW s \in Seq(Nat), s # <<>>, Increasing(s)
  PROVE  Increasing(Tail(s)) /\ \A y \in Range(Tail(s)) : Head(s) < y
<1>1. /\ Tail(s) \in Seq(Nat) /\ Head(s) = s[1]
      /\ Len(Tail(s)) = Len(s) - 1 /\ Len(s) \in Nat /\ Len(s) >= 1
      /\ \A i \in 1..(Len(s) - 1) : Tail(s)[i] = s[i + 1]
  OBVIOUS
<1>2. \A i \in 1..Len(Tail(s)) : Head(s) < Tail(s)[i]
  BY <1>1 DEF Increasing
<1>3. \A y \in Range(Tail(s)) : \E i \in 1..Len(Tail(s)) : y = Tail(s)[i]
  BY <1>1, RangeFacts
<1>4. Increasing(Tail(s))
  BY <1>1 DEF Increasing
<1> QED
  BY <1>2, <1>3, <1>4

LEMMA NoDuplicatesAppend ==
  ASSUME NEW s \in Seq(Nat), NEW x \in Nat, NoDuplicates(s), x \notin Range(s)
  PROVE  NoDuplicates(Append(s, x))
<1>1. \A i \in 1..Len(s) : s[i] # x
  BY RangeFacts
<1>2. /\ Len(Append(s, x)) = Len(s) + 1 /\ Len(s) \in Nat
      /\ \A i \in 1..Len(s) : Append(s, x)[i] = s[i]
      /\ Append(s, x)[Len(s) + 1] = x
  OBVIOUS
<1> QED
  BY <1>1, <1>2 DEF NoDuplicates

LEMMA NoDuplicatesTail ==
  ASSUME NEW s \in Seq(Nat), s # <<>>, NoDuplicates(s)
  PROVE  NoDuplicates(Tail(s)) /\ Head(s) \notin Range(Tail(s))
<1>1. /\ Tail(s) \in Seq(Nat) /\ Head(s) = s[1]
      /\ Len(Tail(s)) = Len(s) - 1 /\ Len(s) \in Nat /\ Len(s) >= 1
      /\ \A i \in 1..(Len(s) - 1) : Tail(s)[i] = s[i + 1]
  OBVIOUS
<1>2. \A i \in 1..Len(Tail(s)) : Head(s) # Tail(s)[i]
  BY <1>1 DEF NoDuplicates
<1>3. \A y \in Range(Tail(s)) : \E i \in 1..Len(Tail(s)) : y = Tail(s)[i]
  BY <1>1, RangeFacts
<1>4. NoDuplicates(Tail(s))
  BY <1>1 DEF NoDuplicates
<1> QED
  BY <1>2, <1>3, <1>4

\* Two increasing sequences, one behind the other, make an increasing one.
LEMMA IncreasingConcat ==
  ASSUME NEW s \in Seq(Nat), NEW t \in Seq(Nat), Increasing(s), Increasing(t),
         \A x \in Range(t) : \A y \in Range(s) : y < x
  PROVE  Increasing(s \o t)
<1>1. \A i \in 1..Len(s), j \in 1..Len(t) : s[i] < t[j]
  BY RangeFacts
<1>2. /\ Len(s \o t) = Len(s) + Len(t) /\ Len(s) \in Nat /\ Len(t) \in Nat
      /\ \A i \in 1..(Len(s) + Len(t)) :
           (s \o t)[i] = IF i <= Len(s) THEN s[i] ELSE t[i - Len(s)]
  OBVIOUS
<1> SUFFICES ASSUME NEW i \in 1..Len(s \o t), NEW j \in 1..Len(s \o t), i < j
             PROVE  (s \o t)[i] < (s \o t)[j]
  BY DEF Increasing
<1>3. CASE j <= Len(s)
  BY <1>2, <1>3 DEF Increasing
<1>4. CASE i > Len(s)
  <2>1. /\ i - Len(s) \in 1..Len(t) /\ j - Len(s) \in 1..Len(t)
        /\ i - Len(s) < j - Len(s)
    BY <1>2, <1>4
  <2>2. t[i - Len(s)] < t[j - Len(s)]
    BY <2>1 DEF Increasing
  <2>3. (s \o t)[i] = t[i - Len(s)] /\ (s \o t)[j] = t[j - Len(s)]
    BY <1>2, <1>4
  <2> QED
    BY <2>2, <2>3
<1>5. CASE i <= Len(s) /\ j > Len(s)
  <2>1. j - Len(s) \in 1..Len(t) /\ i \in 1..Len(s)
    BY <1>2, <1>5
  <2> QED
    BY <1>1, <1>2, <1>5, <2>1
<1>6. i \in Nat /\ j \in Nat /\ Len(s) \in Nat
  BY <1>2
<1> QED
  BY <1>3, <1>4, <1>5, <1>6
-----------------------------------------------------------------------------
(***************************************************************************)
(* The moves of the packets.                                               *)
(***************************************************************************)
Idle == pc \in {"tcp_keepalive", "tcp_queue"} => current_ssl_pkt = NULL

\* cstp_mainloop looks for something to write only when it has nothing to finish.
LEMMA IdleKept == ASSUME Idle, [Next]_vars PROVE Idle'
<1> USE DEF Idle
<1>1. CASE dtls_mainloop
  <2>1. pc' \notin {"tcp_keepalive", "tcp_queue"}
    BY <1>1 DEF dtls_mainloop, DtlsNeedReconnect, DtlsConnecting, DtlsSleeping,
       DtlsRecv, DtlsKeepalive, DtlsRekeyFailed, DetectMtuCmd, DetectMtuDone,
       AfterHandshake, DtlsSend, DtlsSendDone, Quit
  <2> QED
    BY <2>1
<1>2. CASE ssl_reconnect
  <2>1. pc' \notin {"tcp_keepalive", "tcp_queue"}
    BY <1>2 DEF ssl_reconnect, ConnectOk, ConnectFail, ConnectInterrupted,
       BackoffCmd, BackoffExpire, BackoffCancelled, BackoffPaused, ConnectError,
       ReconnectFailed, ReturnToLoop, Quit
  <2> QED
    BY <2>1
<1>3. CASE cstp_mainloop
  <2>1. CASE CstpReadEmpty
    BY <2>1 DEF CstpReadEmpty, cstpVars
  <2>2. CASE CstpWriteOk \/ CstpWriteFreed
    BY <2>2 DEF CstpWriteOk, CstpWriteFreed
  <2>3. CASE CstpKeepalive
    BY <2>3 DEF CstpKeepalive, DoReconnect
  <2>4. CASE CstpRekeyInterrupted
    BY <2>4 DEF CstpRekeyInterrupted, DoReconnect
  <2>5. CASE \/ CstpClosed \/ CstpReadError \/ CstpRead \/ CstpWriteStalled
             \/ CstpWriteError \/ CstpWriteShort \/ CstpDpdResponse
             \/ CstpRekeyTunnel \/ CstpRekeySsl \/ CstpNextPacket \/ CstpDone
    <3>1. pc' \notin {"tcp_keepalive", "tcp_queue"}
      BY <2>5 DEF CstpClosed, CstpReadError, CstpRead, CstpWriteStalled,
         CstpWriteError, CstpWriteShort, CstpDpdResponse, CstpRekeyTunnel,
         CstpRekeySsl, CstpNextPacket, CstpDone, DoReconnect, DoDtlsReconnect,
         ReturnToLoop, Quit
    <3> QED
      BY <3>1
  <2> QED
    BY <1>2, <1>3, <2>1, <2>2, <2>3, <2>4, <2>5 DEF cstp_mainloop
<1>4. CASE tun_mainloop
  BY <1>4 DEF tun_mainloop, TunDown, TunRead, TunReadEnd, TunWrite, TunClientGone,
              TunWriteDone, Quit
<1>5. CASE \/ LoopStart \/ TunSetupFailed \/ PollCmd \/ ObeyCancel
           \/ ObeyPause \/ ObeyNothing \/ Wake \/ Resume \/ Exit
  BY <1>5 DEF LoopStart, NextHandler, TunSetupFailed, PollCmd, ObeyCancel, ObeyPause,
              ObeyNothing, Wake, Resume, Exit
<1>6. CASE SendCmd \/ UNCHANGED vars
  BY <1>6 DEF SendCmd, vars, cstpVars
<1> QED
  BY <1>1, <1>3, <1>4, <1>5, <1>6 DEF Next, openconnect_mainloop, Terminated

\* dtls_mainloop does not compress into the buffer that CSTP has still to write,
\* and the buffer a reconnect puts in its place is empty.
LEMMA RecordKept ==
  ASSUME RecordInv, Packets, BufferInv, [Next]_vars
  PROVE  RecordInv'
<1> DEFINE Buffer == current_ssl_pkt = DEFLATE_PKT =>
                       deflate_pkt_size # 0 /\ deflate_pkt \in {NULL, pending_deflated_pkt}
<1> USE DEF RecordInv, NULL, DPD_PKT, DPD_RESP_PKT, KEEPALIVE_PKT, DEFLATE_PKT, FREED_PKT
<1>0. deflate_pkt_size # 0 => deflate_pkt_size > 0
  BY ConfigAssumption DEF BufferInv
<1>1. CASE DtlsSend
  BY <1>0, <1>1 DEF DtlsSend, DtlsMayCompress, DeflatePkt, NotDtls, cstpVars
<1>2. CASE DoReconnect
  BY <1>2 DEF DoReconnect, KeepsRecord, cstpVars, sendVars, bufferVars
<1>3. CASE CstpWriteOk \/ CstpWriteFreed \/ CstpDpdResponse
  BY <1>3 DEF CstpWriteOk, CstpWriteFreed, CstpDpdResponse
<1>4. CASE CstpKeepalive
  BY <1>2, <1>4 DEF CstpKeepalive, sendVars, bufferVars
<1>5. CASE CstpNextPacket
  <2>1. Head(outgoing_queue) # DEFLATE_PKT
    BY <1>5, DequeuePacket DEF CstpNextPacket, Packets, Packet
  <2>2. cstp_compr # "NONE" => deflate_pkt_size # 0
    BY <1>5 DEF CstpNextPacket, BufferInv, Agreed, AwaitsConnection
  <2> QED
    BY <1>5, <2>1, <2>2 DEF CstpNextPacket
<1>6. CASE TunRead
  BY <1>6 DEF TunRead, NotLoop, cstpVars, bufferVars
<1>7. CASE ConnectOk
  <2>1. \/ deflate_pkt' = NULL /\ deflate_pkt_size' # 0
        \/ UNCHANGED <<deflate_pkt, deflate_pkt_size, current_ssl_pkt>>
    BY <1>7, ConfigAssumption DEF ConnectOk, NewDeflateBuffer, bufferVars, BufferInv
  <2>2. UNCHANGED pending_deflated_pkt
    BY <1>7 DEF ConnectOk
  <2> QED
    BY <2>1, <2>2, IdleKept DEF Idle
<1>8. Buffer'
  BY <1>1, <1>2, <1>3, <1>4, <1>5, <1>6, <1>7, Steps DEF WhoSteps
<1> QED
  BY <1>8, IdleKept DEF Idle

\* The record in flight, if it carries a packet
LEMMA InFlightFacts ==
  ASSUME Outgoing
  PROVE  /\ current_ssl_pkt > 0 =>
              InFlight = {current_ssl_pkt} /\ Payload = <<current_ssl_pkt>>
         /\ current_ssl_pkt \in {DEFLATE_PKT, FREED_PKT} =>
              InFlight = {pending_deflated_pkt}
         /\ current_ssl_pkt = DEFLATE_PKT =>
              Payload = IF Emptied THEN <<>> ELSE <<deflate_pkt>>
         /\ current_ssl_pkt <= 0 /\ current_ssl_pkt \notin {DEFLATE_PKT, FREED_PKT} =>
              InFlight = {} /\ Payload = <<>>
BY DEF Outgoing, InFlight, Payload, DEFLATE_PKT, FREED_PKT

LEMMA InFlightNext ==
  ASSUME Outgoing'
  PROVE  /\ current_ssl_pkt' > 0 => InFlight' = {current_ssl_pkt'}
         /\ current_ssl_pkt' \in {DEFLATE_PKT, FREED_PKT} =>
              InFlight' = {pending_deflated_pkt'}
         /\ current_ssl_pkt' <= 0 /\ current_ssl_pkt' \notin {DEFLATE_PKT, FREED_PKT} =>
              InFlight' = {}
BY DEF Outgoing, InFlight, DEFLATE_PKT, FREED_PKT

LEMMA InFlightUnchanged ==
  UNCHANGED <<current_ssl_pkt, pending_deflated_pkt>> => InFlight' = InFlight
BY DEF InFlight

\* No other move is possible.
LEMMA OnlyMoves ==
  ASSUME Outgoing, Outgoing', Packets, RecordInv, [Next]_vars
  PROVE  Moves
<1> USE DEF Moves, sentVars
<1>1. CASE DtlsSend
  <2>1. InFlight' = InFlight /\ outgoing_queue # <<>>
    BY <1>1, InFlightUnchanged DEF DtlsSend, NotDtls, cstpVars
  <2>2. requeue_packet(dequeue_packet(outgoing_queue), Head(outgoing_queue))
           = outgoing_queue
    BY <2>1, RequeuePacket DEF Packets
  <2>3. UNCHANGED <<tun_read, cstp_sent, cstp_lost>>
    BY <1>1 DEF DtlsSend, NotDtls, tunVars
  <2>4. \/ UNCHANGED <<outgoing_queue, dtls_sent>>
        \/ /\ outgoing_queue' = Tail(outgoing_queue)
           /\ dtls_sent' = Append(dtls_sent, Head(outgoing_queue))
    BY <1>1, <2>2 DEF DtlsSend, dequeue_packet
  <2> QED
    BY <2>1, <2>3, <2>4 DEF Stay, SentOverDtls
<1>2. CASE DoReconnect /\ UNCHANGED tun_read
  <2>0. UNCHANGED sentVars
    BY <1>2 DEF DoReconnect, sendVars
  <2>1. CASE /\ cstp_compr = "DEFLATE" /\ current_ssl_pkt = DEFLATE_PKT
             /\ current_ssl_pkt' = NULL
             /\ outgoing_queue' = Append(outgoing_queue, pending_deflated_pkt)
    <3>1. InFlight = {pending_deflated_pkt} /\ InFlight' = {}
      BY <2>1, InFlightFacts, InFlightNext DEF NULL, DEFLATE_PKT, FREED_PKT
    <3>2. pending_deflated_pkt \in Packet
      BY <2>1 DEF Packets
    <3>3. Returned(pending_deflated_pkt)
      BY <1>2, <2>0, <2>1, <3>1 DEF Returned
    <3> QED
      BY <3>2, <3>3
  <2>2. CASE UNCHANGED <<current_ssl_pkt, outgoing_queue, pending_deflated_pkt>>
    BY <1>2, <2>0, <2>2, InFlightUnchanged DEF Stay
  <2> QED
    BY <1>2, <2>1, <2>2 DEF DoReconnect, KeepsRecord, queue_packet, cstpVars, sendVars
<1>3. CASE CstpWriteOk
  <2>1. /\ cstp_sent' = cstp_sent \o Payload /\ current_ssl_pkt' = NULL
        /\ cstp_lost' = IF Emptied THEN Append(cstp_lost, pending_deflated_pkt)
                                   ELSE cstp_lost
        /\ UNCHANGED <<tun_read, outgoing_queue, dtls_sent>>
        /\ current_ssl_pkt # FREED_PKT
    BY <1>3 DEF CstpWriteOk, NotCstp, tunVars
  <2>2. InFlight' = {}
    BY <2>1, InFlightNext DEF NULL, DEFLATE_PKT, FREED_PKT
  <2>3. ASSUME NEW p \in Packet, InFlight = {p}, Payload = <<p>>, ~Emptied PROVE Moves
    <3>1. cstp_sent \o <<p>> = Append(cstp_sent, p)
      BY DEF Outgoing
    <3>2. Written(p)
      BY <2>1, <2>2, <2>3, <3>1 DEF Written
    <3> QED
      BY <3>2
  <2>4. cstp_sent \o <<>> = cstp_sent
    BY ConcatEmptySeq DEF Outgoing
  <2>5. CASE current_ssl_pkt > 0
    <3>1. current_ssl_pkt \in Packet /\ ~Emptied
      BY <2>5, BoundAssumption DEF Outgoing, Packet, NULL, DEFLATE_PKT, Emptied
    <3> QED
      BY <2>3, <2>5, <3>1, InFlightFacts
  <2>6. CASE current_ssl_pkt = DEFLATE_PKT
    <3>1. pending_deflated_pkt \in Packet /\ InFlight = {pending_deflated_pkt}
      BY <2>6, InFlightFacts DEF Packets
    <3>2. CASE Emptied
      <4>1. Payload = <<>>
        BY <2>6, <3>2, InFlightFacts
      <4>2. Lost(pending_deflated_pkt)
        BY <2>1, <2>2, <2>4, <3>1, <3>2, <4>1 DEF Lost
      <4> QED
        BY <3>1, <4>2
    <3>3. CASE ~Emptied
      <4>1. Payload = <<pending_deflated_pkt>>
        BY <2>6, <3>3, InFlightFacts DEF RecordInv, Emptied
      <4> QED
        BY <2>3, <3>1, <3>3, <4>1
    <3> QED
      BY <3>2, <3>3
  <2>7. CASE current_ssl_pkt <= 0 /\ current_ssl_pkt # DEFLATE_PKT
    <3>1. InFlight = {} /\ Payload = <<>> /\ ~Emptied
      BY <2>1, <2>7, InFlightFacts DEF Emptied
    <3> QED
      BY <2>1, <2>2, <2>4, <3>1 DEF Stay
  <2> QED
    BY <2>5, <2>6, <2>7, BoundAssumption DEF Outgoing, FREED_PKT
<1>4. CASE CstpWriteFreed
  <2> DEFINE p == pending_deflated_pkt
  <2>1. p \in Packet /\ InFlight = {p}
    BY <1>4, InFlightFacts DEF CstpWriteFreed, Packets
  <2>2. InFlight' = {}
    BY <1>4, InFlightNext DEF CstpWriteFreed, NULL, DEFLATE_PKT, FREED_PKT
  <2>3. UNCHANGED <<tun_read, outgoing_queue, dtls_sent>>
    BY <1>4 DEF CstpWriteFreed, NotCstp, tunVars
  <2>4. Written(p) \/ Lost(p)
    BY <1>4, <2>1, <2>2, <2>3 DEF CstpWriteFreed, Written, Lost
  <2> QED
    BY <2>1, <2>4
<1>5. CASE CstpDpdResponse
  <2>1. current_ssl_pkt = NULL /\ current_ssl_pkt' = DPD_RESP_PKT
    BY <1>5 DEF CstpDpdResponse, RecordInv
  <2>2. InFlight = {} /\ InFlight' = {}
    BY <2>1, InFlightFacts, InFlightNext DEF NULL, DPD_RESP_PKT, DEFLATE_PKT, FREED_PKT
  <2> QED
    BY <1>5, <2>2 DEF CstpDpdResponse, NotCstp, sendVars, tunVars, Stay
<1>6. CASE CstpKeepalive
  <2>1. CASE DoReconnect
    <3>1. UNCHANGED tun_read
      BY <1>6 DEF CstpKeepalive, NotCstp, tunVars
    <3> QED
      BY <1>2, <2>1, <3>1
  <2>2. CASE ~DoReconnect
    <3>1. /\ UNCHANGED <<tun_read, outgoing_queue, sentVars>>
          /\ UNCHANGED pending_deflated_pkt
          /\ \/ UNCHANGED current_ssl_pkt
             \/ current_ssl_pkt' \in {DPD_PKT, KEEPALIVE_PKT}
      BY <1>6, <2>2 DEF CstpKeepalive, NotCstp, sendVars, tunVars
    <3>2. CASE UNCHANGED current_ssl_pkt
      BY <3>1, <3>2, InFlightUnchanged DEF Stay
    <3>3. CASE current_ssl_pkt' \in {DPD_PKT, KEEPALIVE_PKT}
      <4>1. current_ssl_pkt = NULL
        BY <1>6 DEF CstpKeepalive, RecordInv
      <4>2. InFlight = {} /\ InFlight' = {}
        BY <3>3, <4>1, InFlightFacts, InFlightNext
        DEF NULL, DPD_PKT, KEEPALIVE_PKT, DEFLATE_PKT, FREED_PKT
      <4> QED
        BY <3>1, <4>2 DEF Stay
    <3> QED
      BY <3>1, <3>2, <3>3
  <2> QED
    BY <2>1, <2>2
<1>7. CASE CstpNextPacket
  <2>1. /\ outgoing_queue # <<>> /\ outgoing_queue' = Tail(outgoing_queue)
        /\ UNCHANGED <<tun_read, sentVars>>
    BY <1>7 DEF CstpNextPacket, dequeue_packet, tunVars
  <2>2. Head(outgoing_queue) \in Packet
    BY <2>1, DequeuePacket DEF Packets
  <2>3. current_ssl_pkt = NULL
    BY <1>7 DEF CstpNextPacket, RecordInv
  <2>4. \/ current_ssl_pkt' = DEFLATE_PKT /\ pending_deflated_pkt' = Head(outgoing_queue)
        \/ current_ssl_pkt' = Head(outgoing_queue)
    BY <1>7 DEF CstpNextPacket
  <2>5. InFlight = {}
    BY <2>3, InFlightFacts DEF NULL, DEFLATE_PKT, FREED_PKT
  <2>6. InFlight' = {Head(outgoing_queue)}
    BY <2>2, <2>4, InFlightNext DEF Packet, NULL, DEFLATE_PKT, FREED_PKT
  <2> QED
    BY <2>1, <2>5, <2>6 DEF Dequeued
<1>8. CASE TunRead
  BY <1>8, InFlightUnchanged DEF TunRead, NotLoop, cstpVars, queue_packet, Taken
<1>9. CASE ConnectOk
  <2>1. UNCHANGED <<tun_read, outgoing_queue, sentVars, pending_deflated_pkt>>
    BY <1>9 DEF ConnectOk, tunVars
  <2>2. \/ UNCHANGED current_ssl_pkt
        \/ {current_ssl_pkt, current_ssl_pkt'} \subseteq {DEFLATE_PKT, FREED_PKT}
    BY <1>9 DEF ConnectOk, NewDeflateBuffer
  <2>3. InFlight' = InFlight
    BY <2>1, <2>2, InFlightUnchanged, InFlightFacts, InFlightNext
  <2> QED
    BY <2>1, <2>3 DEF Stay
<1>10. CASE UNCHANGED <<current_ssl_pkt, pending_deflated_pkt, deflate_pkt,
                       outgoing_queue, tun_read, sentVars>>
  BY <1>10, InFlightUnchanged DEF Stay
<1> QED
  BY <1>1, <1>2, <1>3, <1>4, <1>5, <1>6, <1>7, <1>8, <1>9, <1>10, Steps DEF WhoSteps

\* The histories and the queue are sequences of packets.
LEMMA PacketSeqsFact == Outgoing => PacketSeqs
<1> SUFFICES ASSUME Outgoing PROVE PacketSeqs
  OBVIOUS
<1>1. 0..MaxTx \subseteq Nat /\ 1..MaxTx \subseteq Nat
  BY BoundAssumption
<1>2. /\ outgoing_queue \in Seq(1..MaxTx) /\ dtls_sent \in Seq(1..MaxTx)
      /\ cstp_sent \in Seq(0..MaxTx) /\ cstp_lost \in Seq(1..MaxTx)
  BY DEF Outgoing
<1>3. /\ outgoing_queue \in Seq(Nat) /\ dtls_sent \in Seq(Nat) /\ cstp_sent \in Seq(Nat)
      /\ cstp_lost \in Seq(Nat)
  BY <1>1, <1>2, SeqMonotonic
<1> QED
  BY <1>1, <1>3 DEF Outgoing, PacketSeqs
-----------------------------------------------------------------------------
(***************************************************************************)
(* What the moves keep.                                                    *)
(***************************************************************************)
\* How many packets there are, and where
Held == IF InFlight = {} THEN 0 ELSE 1
Count == Len(outgoing_queue) + Len(cstp_sent) + Len(dtls_sent) + Len(cstp_lost) + Held

Everywhere == Range(outgoing_queue) \union InFlight \union Range(cstp_sent)
                \union Range(dtls_sent) \union Range(cstp_lost)

\* A move neither loses nor duplicates a packet.
LEMMA ConservedKept ==
  ASSUME PacketSeqs, TxConserved, Moves
  PROVE  TxConserved'
<1> USE DEF PacketSeqs, sentVars
<1>1. Everywhere = 1..tun_read /\ Count = tun_read
  BY DEF TxConserved, Everywhere, Count, Held
<1>2. /\ Len(outgoing_queue) \in Nat /\ Len(cstp_sent) \in Nat /\ Len(dtls_sent) \in Nat
      /\ Len(cstp_lost) \in Nat
  OBVIOUS
<1> SUFFICES Everywhere' = 1..tun_read' /\ Count' = tun_read'
  BY DEF TxConserved, Everywhere, Count, Held
<1>3. CASE Stay
  BY <1>1, <1>3, Zenon DEF Stay, Everywhere, Count, Held
<1>4. CASE Taken
  <2>1. /\ Len(outgoing_queue') = Len(outgoing_queue) + 1
        /\ Range(outgoing_queue') = Range(outgoing_queue) \union {tun_read + 1}
    BY <1>4, AppendFacts DEF Taken
  <2>2. Everywhere' = Everywhere \union {tun_read + 1}
    BY <1>4, <2>1, Zenon DEF Taken, Everywhere
  <2>3. 1..(tun_read + 1) = 1..tun_read \union {tun_read + 1}
    OBVIOUS
  <2>4. Held' = Held /\ Held \in {0, 1}
    BY <1>4 DEF Taken, Held
  <2>5. Count' = Count + 1
    BY <1>2, <1>4, <2>1, <2>4 DEF Taken, Count
  <2> QED
    BY <1>1, <1>4, <2>2, <2>3, <2>5 DEF Taken
<1>5. CASE Dequeued
  <2>1. /\ Len(outgoing_queue') = Len(outgoing_queue) - 1
        /\ Range(outgoing_queue) = Range(outgoing_queue') \union {Head(outgoing_queue)}
    BY <1>5, TailFacts DEF Dequeued
  <2>2. Everywhere' = Everywhere
    BY <1>5, <2>1 DEF Dequeued, Everywhere
  <2>3. Held' = 1 /\ Held = 0
    BY <1>5, Zenon DEF Dequeued, Held
  <2>4. Count' = Count
    BY <1>2, <1>5, <2>1, <2>3 DEF Dequeued, Count
  <2> QED
    BY <1>1, <1>5, <2>2, <2>4 DEF Dequeued
<1>6. CASE SentOverDtls
  <2>1. /\ Len(outgoing_queue') = Len(outgoing_queue) - 1
        /\ Range(outgoing_queue) = Range(outgoing_queue') \union {Head(outgoing_queue)}
        /\ Head(outgoing_queue) \in Nat
    BY <1>6, TailFacts DEF SentOverDtls
  <2>2. /\ Len(dtls_sent') = Len(dtls_sent) + 1
        /\ Range(dtls_sent') = Range(dtls_sent) \union {Head(outgoing_queue)}
    BY <1>6, <2>1, AppendFacts DEF SentOverDtls
  <2>3. Everywhere' = Everywhere
    BY <1>6, <2>1, <2>2 DEF SentOverDtls, Everywhere
  <2>4. Held' = Held /\ Held \in {0, 1}
    BY <1>6 DEF SentOverDtls, Held
  <2>5. Count' = Count
    BY <1>2, <1>6, <2>1, <2>2, <2>4 DEF SentOverDtls, Count
  <2> QED
    BY <1>1, <1>6, <2>3, <2>5 DEF SentOverDtls
<1>7. ASSUME NEW p \in Packet, Written(p)
      PROVE  Everywhere' = 1..tun_read' /\ Count' = tun_read'
  <2>1. /\ Len(cstp_sent') = Len(cstp_sent) + 1
        /\ Range(cstp_sent') = Range(cstp_sent) \union {p}
    BY <1>7, AppendFacts DEF Written, Packet
  <2>2. Everywhere' = Everywhere
    BY <1>7, <2>1 DEF Written, Everywhere
  <2>3. Held' = 0 /\ Held = 1
    BY <1>7, Zenon DEF Written, Held
  <2>4. Count' = Count
    BY <1>2, <1>7, <2>1, <2>3 DEF Written, Count
  <2> QED
    BY <1>1, <1>7, <2>2, <2>4 DEF Written
<1>8. ASSUME NEW p \in Packet, Returned(p)
      PROVE  Everywhere' = 1..tun_read' /\ Count' = tun_read'
  <2>1. /\ Len(outgoing_queue') = Len(outgoing_queue) + 1
        /\ Range(outgoing_queue') = Range(outgoing_queue) \union {p}
    BY <1>8, AppendFacts DEF Returned, Packet
  <2>2. Everywhere' = Everywhere
    BY <1>8, <2>1 DEF Returned, Everywhere
  <2>3. Held' = 0 /\ Held = 1
    BY <1>8, Zenon DEF Returned, Held
  <2>4. Count' = Count
    BY <1>2, <1>8, <2>1, <2>3 DEF Returned, Count
  <2> QED
    BY <1>1, <1>8, <2>2, <2>4 DEF Returned
<1>9. ASSUME NEW p \in Packet, Lost(p)
      PROVE  Everywhere' = 1..tun_read' /\ Count' = tun_read'
  <2>1. /\ Len(cstp_lost') = Len(cstp_lost) + 1
        /\ Range(cstp_lost') = Range(cstp_lost) \union {p}
    BY <1>9, AppendFacts DEF Lost, Packet
  <2>2. Everywhere' = Everywhere
    BY <1>9, <2>1 DEF Lost, Everywhere
  <2>3. Held' = 0 /\ Held = 1
    BY <1>9, Zenon DEF Lost, Held
  <2>4. Count' = Count
    BY <1>2, <1>9, <2>1, <2>3 DEF Lost, Count
  <2> QED
    BY <1>1, <1>9, <2>2, <2>4 DEF Lost
<1> QED
  BY <1>3, <1>4, <1>5, <1>6, <1>7, <1>8, <1>9 DEF Moves

\* All packets have been read from tun.
LEMMA AllRead ==
  ASSUME TxConserved
  PROVE  Range(outgoing_queue) \union InFlight \union Gone = 1..tun_read
BY Zenon DEF TxConserved, Sent, Gone

\* A move leaves each packet in one place.
LEMMA OnePlaceKept ==
  ASSUME PacketSeqs, TxConserved, InOnePlace, Moves
  PROVE  InOnePlace'
<1> USE DEF PacketSeqs, sentVars
<1>1. CASE Stay
  BY <1>1, Zenon DEF Stay, InOnePlace, Gone, Sent
<1>2. CASE Taken
  <2>1. tun_read + 1 \notin Range(outgoing_queue) \union InFlight \union Gone
    BY AllRead
  <2>2. /\ Range(outgoing_queue') = Range(outgoing_queue) \union {tun_read + 1}
        /\ InFlight' = InFlight /\ Gone' = Gone
    BY <1>2, AppendFacts DEF Taken, Gone, Sent
  <2>3. NoDuplicates(outgoing_queue')
    BY <1>2, <2>1, NoDuplicatesAppend DEF Taken, InOnePlace
  <2> QED
    BY <2>1, <2>2, <2>3 DEF InOnePlace
<1>3. CASE Dequeued
  <2>1. /\ NoDuplicates(outgoing_queue')
        /\ Head(outgoing_queue) \notin Range(outgoing_queue')
    BY <1>3, NoDuplicatesTail DEF Dequeued, InOnePlace
  <2>2. /\ Range(outgoing_queue) = Range(outgoing_queue') \union {Head(outgoing_queue)}
        /\ InFlight' = {Head(outgoing_queue)} /\ Gone' = Gone
    BY <1>3, TailFacts DEF Dequeued, Gone, Sent
  <2> QED
    BY <2>1, <2>2 DEF InOnePlace
<1>4. CASE SentOverDtls
  <2>1. /\ NoDuplicates(outgoing_queue')
        /\ Head(outgoing_queue) \notin Range(outgoing_queue')
    BY <1>4, NoDuplicatesTail DEF SentOverDtls, InOnePlace
  <2>2. /\ Range(outgoing_queue) = Range(outgoing_queue') \union {Head(outgoing_queue)}
        /\ Head(outgoing_queue) \in Nat
    BY <1>4, TailFacts DEF SentOverDtls
  <2>3. InFlight' = InFlight /\ Gone' = Gone \union {Head(outgoing_queue)}
    BY <1>4, <2>2, AppendFacts DEF SentOverDtls, Gone, Sent
  <2> QED
    BY <2>1, <2>2, <2>3 DEF InOnePlace
<1>5. ASSUME NEW p \in Packet, Written(p) PROVE InOnePlace'
  <2>1. Gone' = Gone \union {p} /\ InFlight' = {} /\ InFlight = {p}
    BY <1>5, AppendFacts DEF Written, Packet, Gone, Sent
  <2> QED
    BY <1>5, <2>1 DEF Written, InOnePlace
<1>6. ASSUME NEW p \in Packet, Returned(p) PROVE InOnePlace'
  <2>1. p \notin Range(outgoing_queue) /\ p \notin Gone
    BY <1>6 DEF Returned, InOnePlace
  <2>2. /\ Range(outgoing_queue') = Range(outgoing_queue) \union {p}
        /\ InFlight' = {} /\ Gone' = Gone
    BY <1>6, AppendFacts DEF Returned, Packet, Gone, Sent
  <2>3. NoDuplicates(outgoing_queue')
    BY <1>6, <2>1, NoDuplicatesAppend DEF Returned, Packet, InOnePlace
  <2> QED
    BY <2>1, <2>2, <2>3 DEF InOnePlace
<1>7. ASSUME NEW p \in Packet, Lost(p) PROVE InOnePlace'
  <2>1. Gone' = Gone \union {p} /\ InFlight' = {} /\ InFlight = {p}
    BY <1>7, AppendFacts DEF Lost, Packet, Gone, Sent
  <2> QED
    BY <1>7, <2>1 DEF Lost, InOnePlace
<1> QED
  BY <1>1, <1>2, <1>3, <1>4, <1>5, <1>6, <1>7 DEF Moves

\* Without the stream compressor no packet goes back behind younger ones.
LEMMA OrderKept ==
  ASSUME PacketSeqs, TxConserved, QueueInOrder, ChannelOrder, Moves,
         cstp_compr # "DEFLATE"
  PROVE  QueueInOrder' /\ ChannelOrder'
<1> USE DEF PacketSeqs, sentVars
<1>0. Range(outgoing_queue) \union InFlight \union Sent \subseteq Nat
  BY AllRead DEF Gone
<1>1. CASE Stay
  BY <1>1, Zenon DEF Stay, QueueInOrder, ChannelOrder, Sent
<1>2. CASE Taken
  <2>1. \A s \in Range(outgoing_queue) \union InFlight \union Sent : s < tun_read + 1
    BY AllRead DEF Gone
  <2>2. /\ Range(outgoing_queue') = Range(outgoing_queue) \union {tun_read + 1}
        /\ InFlight' = InFlight /\ Sent' = Sent
        /\ UNCHANGED <<cstp_sent, dtls_sent>>
    BY <1>2, AppendFacts DEF Taken, Sent
  <2>3. Increasing(outgoing_queue')
    BY <1>2, <2>1, IncreasingAppend DEF Taken, QueueInOrder
  <2> QED
    BY <2>1, <2>2, <2>3 DEF QueueInOrder, ChannelOrder
<1>3. CASE Dequeued
  <2>1. /\ Increasing(outgoing_queue')
        /\ \A p \in Range(outgoing_queue') : Head(outgoing_queue) < p
    BY <1>3, IncreasingTail DEF Dequeued, QueueInOrder
  <2>2. /\ Range(outgoing_queue) = Range(outgoing_queue') \union {Head(outgoing_queue)}
        /\ InFlight' = {Head(outgoing_queue)} /\ Sent' = Sent
        /\ UNCHANGED <<cstp_sent, dtls_sent>>
    BY <1>3, TailFacts DEF Dequeued, Sent
  <2>3. Range(cstp_sent) \subseteq Sent
    BY DEF Sent
  <2> QED
    BY <2>1, <2>2, <2>3 DEF QueueInOrder, ChannelOrder
<1>4. CASE SentOverDtls
  <2>1. /\ Increasing(outgoing_queue')
        /\ \A p \in Range(outgoing_queue') : Head(outgoing_queue) < p
    BY <1>4, IncreasingTail DEF SentOverDtls, QueueInOrder
  <2>2. /\ Range(outgoing_queue) = Range(outgoing_queue') \union {Head(outgoing_queue)}
        /\ Head(outgoing_queue) \in Nat
    BY <1>4, TailFacts DEF SentOverDtls
  <2>3. /\ InFlight' = InFlight /\ Sent' = Sent \union {Head(outgoing_queue)}
        /\ UNCHANGED cstp_sent
    BY <1>4, <2>2, AppendFacts DEF SentOverDtls, Sent
  <2>4. \A y \in Range(dtls_sent) : y < Head(outgoing_queue)
    BY <2>2 DEF QueueInOrder, Sent
  <2>5. Increasing(dtls_sent')
    BY <1>4, <2>2, <2>4, IncreasingAppend DEF SentOverDtls, ChannelOrder
  <2> QED
    BY <2>1, <2>2, <2>3, <2>5 DEF QueueInOrder, ChannelOrder
<1>5. ASSUME NEW p \in Packet, Written(p) PROVE QueueInOrder' /\ ChannelOrder'
  <2>1. Sent' = Sent \union {p} /\ InFlight' = {} /\ InFlight = {p}
    BY <1>5, AppendFacts DEF Written, Packet, Sent
  <2>2. Increasing(cstp_sent')
    BY <1>5, <2>1, IncreasingAppend DEF Written, Packet, QueueInOrder, ChannelOrder
  <2> QED
    BY <1>5, <2>1, <2>2 DEF Written, QueueInOrder, ChannelOrder
<1>6. ASSUME NEW p \in Packet, Returned(p) PROVE FALSE
  BY <1>6 DEF Returned
<1>7. ASSUME NEW p \in Packet, Lost(p) PROVE QueueInOrder' /\ ChannelOrder'
  BY <1>7, Zenon DEF Lost, QueueInOrder, ChannelOrder, Sent
<1> QED
  BY <1>1, <1>2, <1>3, <1>4, <1>5, <1>6, <1>7 DEF Moves
-----------------------------------------------------------------------------
\* The invariant of the packets on their way out holds at first, when there are none.
LEMMA OrderInit == Init => OrderInv
<1> SUFFICES ASSUME Init PROVE OrderInv
  OBVIOUS
<1>1. TypeInv /\ QueueInv /\ DetachInv /\ BufferInv
  BY TypeInit, QueueInit, DetachInit, BufferInit
<1>2. RecordInv
  BY DEF Init, RecordInv, NULL, DEFLATE_PKT
<1>3. /\ tun_read = 0 /\ outgoing_queue = <<>> /\ cstp_sent = <<>> /\ dtls_sent = <<>>
      /\ current_ssl_pkt = 0 /\ cstp_lost = <<>>
  BY DEF Init, NULL
<1>4. InFlight = {}
  BY <1>3 DEF InFlight, DEFLATE_PKT, FREED_PKT
<1>5. /\ Range(outgoing_queue) = {} /\ Range(cstp_sent) = {} /\ Range(dtls_sent) = {}
      /\ Range(cstp_lost) = {}
  BY <1>3, EmptyFacts
<1>6. TxConserved
  BY <1>3, <1>4, <1>5 DEF TxConserved
<1>7. InOnePlace
  BY <1>3, <1>4, <1>5, EmptyFacts DEF InOnePlace
<1>8. QueueInOrder /\ ChannelOrder
  BY <1>3, <1>4, <1>5, EmptyFacts DEF QueueInOrder, ChannelOrder
<1> QED
  BY <1>1, <1>2, <1>6, <1>7, <1>8 DEF OrderInv

\* A step makes one of the moves, or none.
LEMMA StepMoves ==
  ASSUME OrderInv, [Next]_vars
  PROVE  PacketSeqs /\ Moves
<1>1. TypeInv'
  BY TypeInductive DEF OrderInv
<1> QED
  BY <1>1, OnlyMoves, PacketSeqsFact DEF OrderInv, TypeInv, QueueInv

\* Every step keeps the invariant, and so it always holds.
LEMMA OrderInductive == OrderInv /\ [Next]_vars => OrderInv'
<1> SUFFICES ASSUME OrderInv, [Next]_vars PROVE OrderInv'
  OBVIOUS
<1>1. TypeInv' /\ QueueInv' /\ DetachInv' /\ BufferInv'
  BY TypeInductive, QueueInductive, DetachInductive, BufferInductive
  DEF OrderInv, TypeInv
<1>2. RecordInv'
  BY RecordKept DEF OrderInv, QueueInv
<1>3. TxConserved' /\ InOnePlace'
  BY StepMoves, ConservedKept, OnePlaceKept DEF OrderInv
<1>4. ASSUME "DEFLATE" \notin ServerCompr PROVE QueueInOrder' /\ ChannelOrder'
  BY <1>4, StepMoves, OrderKept DEF OrderInv, QueueInv, Bounded
<1> QED
  BY <1>1, <1>2, <1>3, <1>4 DEF OrderInv

LEMMA OrderInvariance == Spec => []OrderInv
BY OrderInit, OrderInductive, PTL DEF Spec

\* Every packet read from tun is in exactly one place, through write errors,
\* reconnects and the fallback from DTLS to CSTP, with either compressor; or it is
\* counted lost, with a compressed record whose buffer a reconnect replaced.
THEOREM PacketsAccountedFor == Spec => []TxConserved
<1>1. OrderInv => TxConserved
  BY DEF OrderInv
<1> QED
  BY <1>1, OrderInvariance, PTL

\* With one size of buffer none is replaced: no packet is lost, and a compressed
\* record that is still to be written is in the buffer.
OneBufferInv ==
  /\ cstp_lost = <<>>
  /\ current_ssl_pkt # FREED_PKT
  /\ current_ssl_pkt = DEFLATE_PKT => deflate_pkt = pending_deflated_pkt

LEMMA OneBufferKept ==
  ASSUME \A a, b \in BufSizes : a = b,
         OneBufferInv, BufferInv, RecordInv, Packets, [Next]_vars
  PROVE  OneBufferInv'
<1> USE DEF OneBufferInv, NULL, DPD_PKT, DPD_RESP_PKT, KEEPALIVE_PKT, DEFLATE_PKT,
        FREED_PKT, sentVars
<1>1. CASE DtlsSend
  <2>1. current_ssl_pkt = DEFLATE_PKT => DeflatePkt = DEFLATE_PKT
    BY ConfigAssumption DEF RecordInv, BufferInv, DeflatePkt
  <2> QED
    BY <1>1, <2>1 DEF DtlsSend, DtlsMayCompress, NotDtls, cstpVars
<1>2. CASE DoReconnect
  BY <1>2 DEF DoReconnect, KeepsRecord, cstpVars, sendVars, bufferVars
<1>3. CASE CstpWriteOk
  BY <1>3 DEF CstpWriteOk, Emptied, Packets, Packet
<1>4. CASE CstpWriteFreed
  BY <1>4 DEF CstpWriteFreed
<1>5. CASE CstpDpdResponse
  BY <1>5 DEF CstpDpdResponse, sendVars
<1>6. CASE CstpKeepalive
  BY <1>2, <1>6 DEF CstpKeepalive, sendVars, bufferVars
<1>7. CASE CstpNextPacket
  <2>1. Head(outgoing_queue) \notin {DEFLATE_PKT, FREED_PKT}
    BY <1>7, DequeuePacket DEF CstpNextPacket, Packets, Packet
  <2> QED
    BY <1>7, <2>1 DEF CstpNextPacket
<1>8. CASE TunRead
  BY <1>8 DEF TunRead, NotLoop, cstpVars, bufferVars
<1>9. CASE ConnectOk
  <2>1. UNCHANGED <<cstp_lost, pending_deflated_pkt>>
    BY <1>9 DEF ConnectOk
  <2>2. CASE current_ssl_pkt = DEFLATE_PKT
    <3>1. deflate_pkt_size \in BufSizes
      BY <2>2 DEF RecordInv, BufferInv
    <3>2. \A bufsize \in BufSizes \union {0} : ~(bufsize > deflate_pkt_size)
      BY <3>1, ConfigAssumption
    <3> QED
      BY <1>9, <2>1, <3>2 DEF ConnectOk, NewDeflateBuffer, bufferVars
  <2>3. CASE current_ssl_pkt # DEFLATE_PKT
    BY <1>9, <2>1, <2>3 DEF ConnectOk, NewDeflateBuffer
  <2> QED
    BY <2>2, <2>3
<1>10. CASE UNCHANGED <<current_ssl_pkt, pending_deflated_pkt, deflate_pkt,
                       outgoing_queue, tun_read, sentVars>>
  BY <1>10
<1> QED
  BY <1>1, <1>2, <1>3, <1>4, <1>5, <1>6, <1>7, <1>8, <1>9, <1>10, Steps DEF WhoSteps

\* While all responses ask for one size of the shared buffer, every compressed
\* record stays intact until it is written, and no packet is lost.
THEOREM NothingLostInOneBuffer ==
  ASSUME \A a, b \in BufSizes : a = b
  PROVE  Spec => [](RecordIntact /\ cstp_lost = <<>>)
<1>1. Init => OneBufferInv
  BY DEF Init, OneBufferInv, NULL, DEFLATE_PKT, FREED_PKT
<1>2. OrderInv /\ OneBufferInv /\ [Next]_vars => OneBufferInv'
  BY OneBufferKept DEF OrderInv, QueueInv
<1>3. OneBufferInv => RecordIntact /\ cstp_lost = <<>>
  BY DEF OneBufferInv, RecordIntact
<1> QED
  BY <1>1, <1>2, <1>3, OrderInvariance, PTL DEF Spec

\* Each channel carries its packets in the order in which tun delivered them,
\* as long as no server agrees to the stream compressor.
THEOREM ChannelsKeepOrder ==
  ASSUME "DEFLATE" \notin ServerCompr
  PROVE  Spec => []ChannelOrder
<1>1. OrderInv => ChannelOrder
  BY DEF OrderInv
<1> QED
  BY <1>1, OrderInvariance, PTL
-----------------------------------------------------------------------------
(***************************************************************************)
(* The refinement of TunnelAbs.                                            *)
(***************************************************************************)
Sends == Len(cstp_sent) + Len(dtls_sent)

\* At first nothing is taken, and nothing is sent.
LEMMA TunnelInit == Init => Tunnel!Init
<1> SUFFICES ASSUME Init PROVE Tunnel!Init
  OBVIOUS
<1>1. tun_read = 0 /\ cstp_sent = <<>> /\ dtls_sent = <<>>
  BY DEF Init
<1>2. Range(cstp_sent) \union Range(dtls_sent) = {}
  BY <1>1, EmptyFacts
<1> QED
  BY <1>1, <1>2 DEF Tunnel!Init

\* A packet that leaves for the server was read from tun and had not been sent.
LEMMA SendRefines ==
  ASSUME NEW p, p \in 1..tun_read, p \notin Sent, Sent' = Sent \union {p},
         Sends' = Sends + 1, UNCHANGED tun_read
  PROVE  Tunnel!Send
BY DEF Tunnel!Send, Sent, Sends

\* Reading from tun is Take, writing to either channel Send; the other moves are
\* invisible.
LEMMA MoveRefines ==
  ASSUME PacketSeqs, TxConserved, InOnePlace, Moves
  PROVE  Tunnel!Next \/ UNCHANGED <<tun_read, Sent, Sends>>
<1> USE DEF PacketSeqs, sentVars
<1>0. Len(cstp_sent) \in Nat /\ Len(dtls_sent) \in Nat
  OBVIOUS
<1>1. CASE Stay \/ Dequeued \/ \E p \in Packet : Lost(p) \/ Returned(p)
  BY <1>1 DEF Stay, Dequeued, Lost, Returned, Sent, Sends
<1>2. CASE Taken
  <2>1. Tunnel!Take
    BY <1>2 DEF Taken, Tunnel!Take
  <2> QED
    BY <2>1 DEF Tunnel!Next
<1>3. CASE SentOverDtls
  <2> DEFINE p == Head(outgoing_queue)
  <2>1. p \in Range(outgoing_queue) /\ p \in Nat
    BY <1>3, TailFacts DEF SentOverDtls
  <2>2. p \in 1..tun_read /\ p \notin Sent
    BY <2>1, AllRead DEF InOnePlace, Gone
  <2>3. /\ Len(dtls_sent') = Len(dtls_sent) + 1
        /\ Range(dtls_sent') = Range(dtls_sent) \union {p}
    BY <1>3, <2>1, AppendFacts DEF SentOverDtls
  <2>4. Sent' = Sent \union {p} /\ Sends' = Sends + 1 /\ UNCHANGED tun_read
    BY <1>0, <1>3, <2>3 DEF SentOverDtls, Sent, Sends
  <2> HIDE DEF p
  <2> QED
    BY <2>2, <2>4, SendRefines DEF Tunnel!Next
<1>4. ASSUME NEW p \in Packet, Written(p) PROVE Tunnel!Next
  <2>1. p \in InFlight
    BY <1>4 DEF Written
  <2>2. p \in 1..tun_read /\ p \notin Sent
    BY <2>1, AllRead DEF InOnePlace, Gone
  <2>3. /\ Len(cstp_sent') = Len(cstp_sent) + 1
        /\ Range(cstp_sent') = Range(cstp_sent) \union {p}
    BY <1>4, AppendFacts DEF Written, Packet
  <2>4. Sent' = Sent \union {p} /\ Sends' = Sends + 1 /\ UNCHANGED tun_read
    BY <1>0, <1>4, <2>3 DEF Written, Sent, Sends
  <2> QED
    BY <2>2, <2>4, SendRefines DEF Tunnel!Next
<1> QED
  BY <1>1, <1>2, <1>3, <1>4 DEF Moves

\* Whatever channels, reconnects, pauses and fallbacks lie underneath, the loop takes
\* packets from tun one by one and sends each of them at most once: it implements
\* TunnelAbs.
THEOREM LoopImplementsTunnel == Spec => TunnelSpec
<1>1. OrderInv /\ [Next]_vars =>
        [Tunnel!Next]_<<tun_read, Range(cstp_sent) \union Range(dtls_sent),
                        Len(cstp_sent) + Len(dtls_sent)>>
  BY StepMoves, MoveRefines DEF OrderInv, Sent, Sends
<1> QED
  BY <1>1, TunnelInit, OrderInvariance, PTL DEF Spec, TunnelSpec, Tunnel!Spec
-----------------------------------------------------------------------------
(***************************************************************************)
(* Received packets.                                                       *)
(***************************************************************************)
RxSeqs ==
  /\ rx_count \in Nat
  /\ incoming_queue \in Seq(Nat) /\ tun_written \in Seq(Nat)

\* The queue and the history are sequences of packets.
LEMMA RxSeqsFact == Incoming => RxSeqs
<1> SUFFICES ASSUME Incoming PROVE RxSeqs
  OBVIOUS
<1>1. 1..MaxRx \subseteq Nat
  BY BoundAssumption
<1>2. incoming_queue \in Seq(Nat) /\ tun_written \in Seq(Nat)
  BY <1>1, SeqMonotonic DEF Incoming
<1> QED
  BY <1>2, BoundAssumption DEF Incoming, RxSeqs

\* What a step does to the received packets: one more comes, the first in the queue
\* is written or dropped, or all are dropped.
Received ==
  /\ rx_count' = rx_count + 1
  /\ incoming_queue' = Append(incoming_queue, rx_count + 1)
  /\ UNCHANGED tun_written

Delivered ==
  /\ incoming_queue # <<>>
  /\ incoming_queue' = Tail(incoming_queue)
  /\ tun_written' \in {Append(tun_written, Head(incoming_queue)), tun_written}
  /\ UNCHANGED rx_count

Dropped == incoming_queue' = <<>> /\ UNCHANGED <<rx_count, tun_written>>

\* No other step touches them.
LEMMA OnlyRxMoves ==
  ASSUME Incoming, [Next]_vars
  PROVE  Received \/ Delivered \/ Dropped \/ UNCHANGED recvVars
<1> USE DEF recvVars
<1>1. CASE DtlsRecv
  BY <1>1 DEF DtlsRecv, queue_packet, Received
<1>2. CASE CstpRead
  BY <1>2 DEF CstpRead, queue_packet, Received
<1>3. CASE TunDown
  BY <1>3 DEF TunDown, NotLoop, Dropped
<1>4. CASE TunWrite
  <2>1. incoming_queue # <<>> /\ UNCHANGED rx_count
    BY <1>4 DEF TunWrite, NotLoop
  <2>2. requeue_packet(dequeue_packet(incoming_queue), Head(incoming_queue))
           = incoming_queue
    BY <2>1 DEF Incoming, requeue_packet, dequeue_packet
  <2> QED
    BY <1>4, <2>1, <2>2 DEF TunWrite, dequeue_packet, Delivered
<1> QED
  BY <1>1, <1>2, <1>3, <1>4, Steps DEF WhoSteps

\* The numbers in the queue stay behind those written to tun.
LEMMA RxKept ==
  ASSUME RxInv, Incoming, [Next]_vars
  PROVE  RxInv'
<1> USE RxSeqsFact DEF RxSeqs
<1>1. CASE Received
  <2>1. Range(incoming_queue') = Range(incoming_queue) \union {rx_count + 1}
    BY <1>1, AppendFacts DEF Received
  <2>2. /\ Range(incoming_queue) \subseteq Nat /\ Range(tun_written) \subseteq Nat
        /\ \A q \in Range(incoming_queue) : q < rx_count + 1
        /\ \A w \in Range(tun_written) : w < rx_count + 1
    BY RangeFacts DEF RxInv
  <2>3. Increasing(incoming_queue')
    BY <1>1, <2>2, IncreasingAppend DEF Received, RxInv
  <2>4. \A w \in Range(tun_written) : w <= rx_count'
    BY <1>1, <2>2 DEF Received
  <2>5. ASSUME NEW q \in Range(incoming_queue')
        PROVE  q <= rx_count' /\ \A w \in Range(tun_written) : w < q
    BY <1>1, <2>1, <2>2, <2>5 DEF Received, RxInv
  <2> QED
    BY <1>1, <2>3, <2>4, <2>5 DEF Received, RxInv
<1>2. CASE Delivered
  <2>1. /\ Range(incoming_queue) = Range(incoming_queue') \union {Head(incoming_queue)}
        /\ Head(incoming_queue) \in Nat
    BY <1>2, TailFacts DEF Delivered
  <2>2. /\ Increasing(incoming_queue')
        /\ \A q \in Range(incoming_queue') : Head(incoming_queue) < q
    BY <1>2, IncreasingTail DEF Delivered, RxInv
  <2>3. /\ Head(incoming_queue) <= rx_count
        /\ \A w \in Range(tun_written) : w < Head(incoming_queue)
    BY <2>1 DEF RxInv
  <2>4. UNCHANGED rx_count
    BY <1>2 DEF Delivered
  <2>5. CASE tun_written' = tun_written
    BY <1>2, <2>1, <2>2, <2>5 DEF Delivered, RxInv
  <2>6. CASE tun_written' = Append(tun_written, Head(incoming_queue))
    <3>1. Range(tun_written') = Range(tun_written) \union {Head(incoming_queue)}
      BY <2>1, <2>6, AppendFacts
    <3>2. Increasing(tun_written')
      BY <2>1, <2>6, IncreasingAppend DEF RxInv
    <3> QED
      BY <2>1, <2>2, <2>3, <2>4, <3>1, <3>2 DEF RxInv
  <2> QED
    BY <1>2, <2>5, <2>6 DEF Delivered
<1>3. CASE Dropped
  BY <1>3, EmptyFacts DEF Dropped, RxInv
<1>4. CASE UNCHANGED recvVars
  BY <1>4 DEF recvVars, RxInv
<1> QED
  BY <1>1, <1>2, <1>3, <1>4, OnlyRxMoves

\* What the server sent reaches tun at most once and in the order in which it came,
\* over both channels and through full devices.
THEOREM ReceivedInOrder == Spec => []RxInOrder
<1>1. Init => TypeInv /\ RxInv
  BY TypeInit, EmptyFacts DEF Init, RxInv
<1>2. TypeInv /\ RxInv /\ [Next]_vars => (TypeInv /\ RxInv)'
  BY TypeInductive, RxKept DEF TypeInv
<1>3. TypeInv /\ RxInv => RxInOrder
  BY RxSeqsFact, IncreasingConcat DEF TypeInv, RxSeqs, RxInv, RxInOrder
<1> QED
  BY <1>1, <1>2, <1>3, PTL DEF Spec
=============================================================================
