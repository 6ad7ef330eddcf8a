-------------------------- MODULE KeepaliveProofs ---------------------------
(***************************************************************************)
(* The properties of module Keepalive hold for every DPD, keepalive and    *)
(* rekey period a server may send, on an unbounded clock: TLAPS proofs.    *)
(***************************************************************************)
EXTENDS Keepalive, TLAPS

Outstanding == last_dpd > last_rx

\* Only CSTP has half-written records, and it looks at its timers only when
\* it has none.
NotStalled ==
  /\ pc = "act" /\ channel = "CSTP" => ~blocked
  /\ pc = "write" => channel = "CSTP"

\* From the first look at the timers on, no deadline that was looked at has
\* passed.
NotLate == pc \in {"act", "write", "tun", "asleep"} => now <= timeout

\* A probe is sent after one period of silence and before two are over.
ProbeTimes ==
  /\ Outstanding <=> probes > 0
  /\ Outstanding => last_rx + Dpd <= last_dpd /\ last_dpd <= last_rx + 2 * Dpd
  /\ Outstanding => Dpd # 0

\* The probes after the first are half a period apart.
ProbeDistance ==
  Dpd # 1 =>
    /\ probes <= 4
    /\ probes = 2 => last_rx + Dpd + (Dpd \div 2) <= last_dpd
    /\ probes = 3 => last_rx + Dpd + 2 * (Dpd \div 2) <= last_dpd
    /\ probes = 4 => last_rx + Dpd + 3 * (Dpd \div 2) <= last_dpd

\* What is left of the timeout when the channel has been served
WakesForDpd ==
  pc \in {"tun", "asleep"} /\ Dpd # 0 =>
    timeout <= IF channel = "CSTP" /\ blocked THEN last_rx + 2 * Dpd ELSE DpdWhen

WakesForKeepalive ==
  pc \in {"tun", "asleep"} /\ channel = "CSTP" /\ ~blocked /\ Keepalive # 0 =>
    timeout <= last_tx + Keepalive

IInv ==
  /\ TypeOK
  /\ NotStalled
  /\ NotLate
  /\ ProbeTimes
  /\ ProbeDistance
  /\ WakesForDpd
  /\ WakesForKeepalive
-----------------------------------------------------------------------------
\* The invariant holds when the channel has just been connected.
LEMMA InitInv == Init => IInv
<1> SUFFICES ASSUME Init PROVE IInv
  OBVIOUS
<1> USE KeepaliveAssumption DEF Init, Channels
<1>1. TypeOK
  <2>1. pc \in PcLabels /\ queued \in BOOLEAN /\ blocked \in BOOLEAN
    BY Zenon DEF PcLabels
  <2> QED
    BY <2>1 DEF TypeOK
<1>2. NotStalled /\ NotLate
  BY DEF NotStalled, NotLate
<1>3. ProbeTimes
  BY DEF ProbeTimes, Outstanding
<1>4. ProbeDistance
  BY DEF ProbeDistance
<1>5. WakesForDpd /\ WakesForKeepalive
  BY DEF WakesForDpd, WakesForKeepalive
<1> QED
  BY <1>1, <1>2, <1>3, <1>4, <1>5 DEF IInv

\* The deadlines and the timeouts left by the checks are times.
LEMMA DeadlineTypes ==
  ASSUME TypeOK
  PROVE  /\ DpdWhen \in Nat /\ AfterRekey \in Nat
         /\ AfterDpd \in Nat /\ AfterKeepalive \in Nat
<1> USE KeepaliveAssumption DEF TypeOK, Channels
<1>1. DpdWhen \in Nat
  BY DEF DpdWhen
<1>2. AfterRekey \in Nat
  BY DEF AfterRekey, ka_check_deadline
<1>3. AfterDpd \in Nat
  BY <1>1, <1>2 DEF AfterDpd, ka_check_deadline
<1>4. AfterKeepalive \in Nat
  BY <1>3 DEF AfterKeepalive, ka_check_deadline
<1> QED
  BY <1>1, <1>2, <1>3, <1>4

\* A check never puts a deadline off, and sets it for the timer it is about.
LEMMA DeadlineBounds ==
  ASSUME TypeOK
  PROVE  /\ AfterKeepalive <= AfterDpd
         /\ Dpd # 0 => AfterDpd <= DpdWhen
         /\ Keepalive # 0 => AfterKeepalive <= last_tx + Keepalive
BY DeadlineTypes, KeepaliveAssumption
DEF TypeOK, AfterDpd, AfterKeepalive, ka_check_deadline

\* What the last loop of dtls_mainloop leaves behind
LEMMA SendQueueTypes ==
  ASSUME TypeOK, NEW t \in 0..now, NEW next \in PcLabels, DtlsSendQueue(t, next)
  PROVE  /\ pc' \in PcLabels /\ last_tx' \in 0..now
         /\ queued' \in BOOLEAN /\ blocked' \in BOOLEAN
<1>1. pc' \in PcLabels
  BY Zenon DEF DtlsSendQueue, PcLabels
<1>2. last_tx' \in 0..now
  BY DEF TypeOK, DtlsSendQueue
<1>3. queued' \in BOOLEAN
  BY Zenon DEF TypeOK, DtlsSendQueue
<1>4. blocked' \in BOOLEAN
  BY Zenon DEF TypeOK, DtlsSendQueue
<1> QED
  BY <1>1, <1>2, <1>3, <1>4

\* Every action keeps the types.
LEMMA TypeStep == TypeOK /\ [Next]_vars => TypeOK'
<1> SUFFICES ASSUME TypeOK, [Next]_vars PROVE TypeOK'
  OBVIOUS
<1>c. channel' = channel
  BY DEF Next, vars
<1> USE <1>c, KeepaliveAssumption DEF TypeOK, Channels, PcLabels
<1>1. CASE Recv
  BY <1>1 DEF Recv
<1>2. CASE ReadDone
  BY <1>2 DEF ReadDone, times
<1>3. CASE KaRekey
  BY <1>3 DEF KaRekey
<1>4. CASE KaDead
  BY <1>4 DEF KaDead, times
<1>5. CASE KaDpd
  <2>1. pc' \in PcLabels /\ last_tx' \in 0..now /\ queued' \in BOOLEAN /\ blocked' \in BOOLEAN
    BY <1>5, SendQueueTypes DEF KaDpd
  <2> QED
    BY <1>5, <2>1, DeadlineTypes DEF KaDpd
<1>6. CASE KaKeepalive
  <2>1. pc' \in PcLabels /\ last_tx' \in 0..now /\ queued' \in BOOLEAN /\ blocked' \in BOOLEAN
    <3>1. CASE channel = "CSTP"
      <4>1. queued' \in BOOLEAN
        BY <1>6, <3>1, Zenon DEF KaKeepalive
      <4> QED
        BY <1>6, <3>1, <4>1 DEF KaKeepalive
    <3>2. CASE channel = "DTLS"
      BY <1>6, <3>2, SendQueueTypes DEF KaKeepalive
    <3> QED
      BY <3>1, <3>2
  <2> QED
    BY <1>6, <2>1, DeadlineTypes DEF KaKeepalive
<1>7. CASE KaNone
  <2>1. pc' \in PcLabels /\ last_tx' \in 0..now /\ queued' \in BOOLEAN /\ blocked' \in BOOLEAN
    BY <1>7, SendQueueTypes DEF KaNone
  <2> QED
    BY <1>7, <2>1, DeadlineTypes DEF KaNone
<1>8. CASE WriteOk
  <2>1. blocked' \in BOOLEAN
    BY <1>8, Zenon DEF WriteOk
  <2> QED
    BY <1>8, <2>1 DEF WriteOk
<1>9. CASE WriteError
  BY <1>9 DEF WriteError
<1>10. CASE WriteStalled
  BY <1>10 DEF WriteStalled, AfterRekey, ka_check_deadline
<1>11. CASE DoRekey
  BY <1>11 DEF DoRekey, times
<1>12. CASE Connected
  BY <1>12 DEF Connected
<1>13. CASE TunRead
  BY <1>13 DEF TunRead, times
<1>14. CASE OtherWork
  BY <1>14 DEF OtherWork, times
<1>15. CASE Sleep
  BY <1>15 DEF Sleep, times
<1>16. CASE Wake
  BY <1>16 DEF Wake, times
<1>17. CASE Tick
  BY <1>17 DEF Tick, times
<1>18. CASE UNCHANGED vars
  BY <1>18 DEF vars, times
<1> QED
  BY <1>1, <1>2, <1>3, <1>4, <1>5, <1>6, <1>7, <1>8, <1>9, <1>10, <1>11,
     <1>12, <1>13, <1>14, <1>15, <1>16, <1>17, <1>18
  DEF Next, cstp_or_dtls_mainloop

\* Every action preserves NotStalled.
LEMMA NotStalledStep == TypeOK /\ NotStalled /\ [Next]_vars => NotStalled'
<1> SUFFICES ASSUME TypeOK /\ NotStalled, [Next]_vars PROVE NotStalled'
  OBVIOUS
<1>c. channel' = channel
  BY DEF Next, vars
<1> USE <1>c, KeepaliveAssumption DEF TypeOK, Channels, PcLabels, NotStalled
<1>1. CASE Recv
  BY <1>1 DEF Recv
<1>2. CASE ReadDone
  BY <1>2 DEF ReadDone
<1>3. CASE KaRekey
  BY <1>3 DEF KaRekey
<1>4. CASE KaDead
  BY <1>4 DEF KaDead
<1>5. CASE KaDpd
  BY <1>5 DEF KaDpd, DtlsSendQueue
<1>6. CASE KaKeepalive
  BY <1>6 DEF KaKeepalive, DtlsSendQueue
<1>7. CASE KaNone
  BY <1>7 DEF KaNone, DtlsSendQueue
<1>8. CASE WriteOk
  BY <1>8 DEF WriteOk
<1>9. CASE WriteError
  BY <1>9 DEF WriteError
<1>10. CASE WriteStalled
  BY <1>10 DEF WriteStalled
<1>11. CASE DoRekey
  BY <1>11 DEF DoRekey
<1>12. CASE Connected
  BY <1>12 DEF Connected
<1>13. CASE TunRead
  BY <1>13 DEF TunRead
<1>14. CASE OtherWork
  BY <1>14 DEF OtherWork
<1>15. CASE Sleep
  BY <1>15 DEF Sleep
<1>16. CASE Wake
  BY <1>16 DEF Wake
<1>17. CASE Tick
  BY <1>17 DEF Tick
<1>18. CASE UNCHANGED vars
  BY <1>18 DEF vars
<1> QED
  BY <1>1, <1>2, <1>3, <1>4, <1>5, <1>6, <1>7, <1>8, <1>9, <1>10, <1>11,
     <1>12, <1>13, <1>14, <1>15, <1>16, <1>17, <1>18
  DEF Next, cstp_or_dtls_mainloop

\* Every action preserves NotLate.
LEMMA NotLateStep == TypeOK /\ NotLate /\ [Next]_vars => NotLate'
<1> SUFFICES ASSUME TypeOK /\ NotLate, [Next]_vars PROVE NotLate'
  OBVIOUS
<1>c. channel' = channel
  BY DEF Next, vars
<1> USE <1>c, KeepaliveAssumption DEF TypeOK, Channels, PcLabels, NotLate
<1>1. CASE Recv
  BY <1>1 DEF Recv
<1>2. CASE ReadDone
  BY <1>2 DEF ReadDone
<1>3. CASE KaRekey
  BY <1>3 DEF KaRekey
<1>4. CASE KaDead
  BY <1>4 DEF KaDead
<1>5. CASE KaDpd
  BY <1>5 DEF KaDpd, RekeyDue, AfterRekey, ka_check_deadline
<1>6. CASE KaKeepalive
  BY <1>6 DEF KaKeepalive, RekeyDue, DpdDue, AfterDpd, AfterRekey, ka_check_deadline
<1>7. CASE KaNone
  BY <1>7 DEF KaNone, RekeyDue, DpdDue, DpdWhen, KeepaliveDue, AfterKeepalive, AfterDpd, AfterRekey, ka_check_deadline
<1>8. CASE WriteOk
  BY <1>8 DEF WriteOk
<1>9. CASE WriteError
  BY <1>9 DEF WriteError
<1>10. CASE WriteStalled
  BY <1>10 DEF WriteStalled, RekeyDue, AfterRekey, ka_check_deadline
<1>11. CASE DoRekey
  BY <1>11 DEF DoRekey
<1>12. CASE Connected
  BY <1>12 DEF Connected
<1>13. CASE TunRead
  BY <1>13 DEF TunRead
<1>14. CASE OtherWork
  BY <1>14 DEF OtherWork
<1>15. CASE Sleep
  BY <1>15 DEF Sleep
<1>16. CASE Wake
  BY <1>16 DEF Wake
<1>17. CASE Tick
  BY <1>17 DEF Tick
<1>18. CASE UNCHANGED vars
  BY <1>18 DEF vars
<1> QED
  BY <1>1, <1>2, <1>3, <1>4, <1>5, <1>6, <1>7, <1>8, <1>9, <1>10, <1>11,
     <1>12, <1>13, <1>14, <1>15, <1>16, <1>17, <1>18
  DEF Next, cstp_or_dtls_mainloop

\* Every action preserves ProbeTimes; only KaDpd and what hears the peer matter.
LEMMA ProbeTimesStep == TypeOK /\ ProbeTimes /\ [Next]_vars => ProbeTimes'
<1> SUFFICES ASSUME TypeOK /\ ProbeTimes, [Next]_vars PROVE ProbeTimes'
  OBVIOUS
<1>c. channel' = channel
  BY DEF Next, vars
<1> USE <1>c, KeepaliveAssumption DEF TypeOK, Channels, PcLabels, ProbeTimes, Outstanding
<1>1. CASE Recv
  BY <1>1 DEF Recv
<1>2. CASE ReadDone
  BY <1>2 DEF ReadDone, times
<1>3. CASE KaRekey
  BY <1>3 DEF KaRekey
<1>4. CASE KaDead
  BY <1>4 DEF KaDead, times
<1>5. CASE KaDpd
  BY <1>5 DEF KaDpd, Overdue, DpdDue, DpdWhen
<1>6. CASE KaKeepalive
  BY <1>6 DEF KaKeepalive
<1>7. CASE KaNone
  BY <1>7 DEF KaNone
<1>8. CASE WriteOk
  BY <1>8 DEF WriteOk
<1>9. CASE WriteError
  BY <1>9 DEF WriteError
<1>10. CASE WriteStalled
  BY <1>10 DEF WriteStalled
<1>11. CASE DoRekey
  BY <1>11 DEF DoRekey, times
<1>12. CASE Connected
  BY <1>12 DEF Connected
<1>13. CASE TunRead
  BY <1>13 DEF TunRead, times
<1>14. CASE OtherWork
  BY <1>14 DEF OtherWork, times
<1>15. CASE Sleep
  BY <1>15 DEF Sleep, times
<1>16. CASE Wake
  BY <1>16 DEF Wake, times
<1>17. CASE Tick
  BY <1>17 DEF Tick, times
<1>18. CASE UNCHANGED vars
  BY <1>18 DEF vars, times
<1> QED
  BY <1>1, <1>2, <1>3, <1>4, <1>5, <1>6, <1>7, <1>8, <1>9, <1>10, <1>11,
     <1>12, <1>13, <1>14, <1>15, <1>16, <1>17, <1>18
  DEF Next, cstp_or_dtls_mainloop

\* A fifth probe would come after two periods of silence.
LEMMA ProbeDistanceStep == TypeOK /\ ProbeTimes /\ ProbeDistance /\ [Next]_vars => ProbeDistance'
<1> SUFFICES ASSUME TypeOK /\ ProbeTimes /\ ProbeDistance, [Next]_vars PROVE ProbeDistance'
  OBVIOUS
<1>c. channel' = channel
  BY DEF Next, vars
<1> USE <1>c, KeepaliveAssumption DEF TypeOK, Channels, PcLabels, ProbeTimes, Outstanding, ProbeDistance
<1>1. CASE Recv
  BY <1>1 DEF Recv
<1>2. CASE ReadDone
  BY <1>2 DEF ReadDone, times
<1>3. CASE KaRekey
  BY <1>3 DEF KaRekey
<1>4. CASE KaDead
  BY <1>4 DEF KaDead, times
<1>5. CASE KaDpd
  BY <1>5 DEF KaDpd, Overdue, DpdDue, DpdWhen
<1>6. CASE KaKeepalive
  BY <1>6 DEF KaKeepalive
<1>7. CASE KaNone
  BY <1>7 DEF KaNone
<1>8. CASE WriteOk
  BY <1>8 DEF WriteOk
<1>9. CASE WriteError
  BY <1>9 DEF WriteError
<1>10. CASE WriteStalled
  BY <1>10 DEF WriteStalled
<1>11. CASE DoRekey
  BY <1>11 DEF DoRekey, times
<1>12. CASE Connected
  BY <1>12 DEF Connected
<1>13. CASE TunRead
  BY <1>13 DEF TunRead, times
<1>14. CASE OtherWork
  BY <1>14 DEF OtherWork, times
<1>15. CASE Sleep
  BY <1>15 DEF Sleep, times
<1>16. CASE Wake
  BY <1>16 DEF Wake, times
<1>17. CASE Tick
  BY <1>17 DEF Tick, times
<1>18. CASE UNCHANGED vars
  BY <1>18 DEF vars, times
<1> QED
  BY <1>1, <1>2, <1>3, <1>4, <1>5, <1>6, <1>7, <1>8, <1>9, <1>10, <1>11,
     <1>12, <1>13, <1>14, <1>15, <1>16, <1>17, <1>18
  DEF Next, cstp_or_dtls_mainloop

\* The checks of a pass leave a timeout no later than the next probe.
LEMMA WakesForDpdStep == TypeOK /\ NotStalled /\ WakesForDpd /\ [Next]_vars => WakesForDpd'
<1> SUFFICES ASSUME TypeOK /\ NotStalled /\ WakesForDpd, [Next]_vars PROVE WakesForDpd'
  OBVIOUS
<1>c. channel' = channel
  BY DEF Next, vars
<1> USE <1>c, KeepaliveAssumption DEF TypeOK, Channels, PcLabels, NotStalled, WakesForDpd, DpdWhen
<1>1. CASE Recv
  BY <1>1 DEF Recv
<1>2. CASE ReadDone
  BY <1>2 DEF ReadDone
<1>3. CASE KaRekey
  BY <1>3 DEF KaRekey
<1>4. CASE KaDead
  BY <1>4 DEF KaDead
<1>5. CASE KaDpd
  BY <1>5 DEF KaDpd, DtlsSendQueue
<1>6. CASE KaKeepalive
  <2>1. Dpd # 0 => timeout' <= DpdWhen
    BY <1>6, DeadlineBounds DEF KaKeepalive
  <2>2. DpdWhen' = DpdWhen
    BY <1>6 DEF KaKeepalive
  <2> QED
    BY <1>6, <2>1, <2>2 DEF KaKeepalive
<1>7. CASE KaNone
  <2>1. Dpd # 0 => timeout' <= DpdWhen
    BY <1>7, DeadlineBounds, DeadlineTypes DEF KaNone
  <2>2. DpdWhen' = DpdWhen
    BY <1>7 DEF KaNone
  <2> QED
    BY <1>7, <2>1, <2>2 DEF KaNone
<1>8. CASE WriteOk
  BY <1>8 DEF WriteOk
<1>9. CASE WriteError
  BY <1>9 DEF WriteError
<1>10. CASE WriteStalled
  <2>1. Dpd # 0 /\ pc' \in {"tun", "asleep"} => timeout' <= last_rx + 2 * Dpd
    BY <1>10, DeadlineTypes DEF WriteStalled, ka_check_deadline
  <2>2. blocked' /\ last_rx' = last_rx
    BY <1>10 DEF WriteStalled
  <2> QED
    BY <1>10, <2>1, <2>2 DEF WriteStalled
<1>11. CASE DoRekey
  BY <1>11 DEF DoRekey
<1>12. CASE Connected
  BY <1>12 DEF Connected
<1>13. CASE TunRead
  BY <1>13 DEF TunRead
<1>14. CASE OtherWork
  BY <1>14 DEF OtherWork
<1>15. CASE Sleep
  BY <1>15 DEF Sleep, times
<1>16. CASE Wake
  BY <1>16 DEF Wake
<1>17. CASE Tick
  BY <1>17 DEF Tick, times
<1>18. CASE UNCHANGED vars
  BY <1>18 DEF vars, times
<1> QED
  BY <1>1, <1>2, <1>3, <1>4, <1>5, <1>6, <1>7, <1>8, <1>9, <1>10, <1>11,
     <1>12, <1>13, <1>14, <1>15, <1>16, <1>17, <1>18
  DEF Next, cstp_or_dtls_mainloop

\* On CSTP they leave one no later than the next keepalive.
LEMMA WakesForKeepaliveStep == TypeOK /\ NotStalled /\ WakesForKeepalive /\ [Next]_vars => WakesForKeepalive'
<1> SUFFICES ASSUME TypeOK /\ NotStalled /\ WakesForKeepalive, [Next]_vars PROVE WakesForKeepalive'
  OBVIOUS
<1>c. channel' = channel
  BY DEF Next, vars
<1> USE <1>c, KeepaliveAssumption DEF TypeOK, Channels, PcLabels, NotStalled, WakesForKeepalive
<1>1. CASE Recv
  BY <1>1 DEF Recv
<1>2. CASE ReadDone
  BY <1>2 DEF ReadDone
<1>3. CASE KaRekey
  BY <1>3 DEF KaRekey
<1>4. CASE KaDead
  BY <1>4 DEF KaDead
<1>5. CASE KaDpd
  BY <1>5 DEF KaDpd
<1>6. CASE KaKeepalive
  BY <1>6 DEF KaKeepalive
<1>7. CASE KaNone
  BY <1>7 DEF KaNone, DpdWhen, AfterKeepalive, AfterDpd, AfterRekey, ka_check_deadline
<1>8. CASE WriteOk
  BY <1>8 DEF WriteOk
<1>9. CASE WriteError
  BY <1>9 DEF WriteError
<1>10. CASE WriteStalled
  BY <1>10 DEF WriteStalled
<1>11. CASE DoRekey
  BY <1>11 DEF DoRekey
<1>12. CASE Connected
  BY <1>12 DEF Connected
<1>13. CASE TunRead
  BY <1>13 DEF TunRead
<1>14. CASE OtherWork
  BY <1>14 DEF OtherWork
<1>15. CASE Sleep
  BY <1>15 DEF Sleep, times
<1>16. CASE Wake
  BY <1>16 DEF Wake
<1>17. CASE Tick
  BY <1>17 DEF Tick, times
<1>18. CASE UNCHANGED vars
  BY <1>18 DEF vars, times
<1> QED
  BY <1>1, <1>2, <1>3, <1>4, <1>5, <1>6, <1>7, <1>8, <1>9, <1>10, <1>11,
     <1>12, <1>13, <1>14, <1>15, <1>16, <1>17, <1>18
  DEF Next, cstp_or_dtls_mainloop
-----------------------------------------------------------------------------
\* IInv is an inductive invariant of the timers of either channel.
THEOREM Invariance == Spec => []IInv
<1>1. IInv /\ [Next]_vars => IInv'
  BY TypeStep, NotStalledStep, NotLateStep, ProbeTimesStep, ProbeDistanceStep,
     WakesForDpdStep, WakesForKeepaliveStep DEF IInv
<1> QED
  BY InitInv, <1>1, PTL DEF Spec

\* The timers are always of their types, and none is ahead of the clock.
THEOREM TypeCorrect == Spec => []TypeOK
<1>1. IInv => TypeOK
  BY DEF IInv
<1> QED
  BY <1>1, Invariance, PTL

\* Whatever DPD period the server asks for, a dead peer is found out within
\* two and a half of them (keepalive_action, ka_stalled_action).
THEOREM DeadPeerIsFound == Spec => []DeadPeerFound
<1>1. IInv => DeadPeerFound
  BY KeepaliveAssumption
  DEF IInv, TypeOK, NotLate, ProbeTimes, Outstanding, WakesForDpd, DpdWhen, DeadPeerFound
<1> QED
  BY <1>1, Invariance, PTL

\* Whatever the other timers are, a silent peer is probed after one period.
THEOREM SilentPeerIsProbed == Spec => []ProbedInTime
<1>1. IInv => ProbedInTime
  BY KeepaliveAssumption
  DEF IInv, TypeOK, NotLate, ProbeTimes, Outstanding, WakesForDpd, DpdWhen, ProbedInTime
<1> QED
  BY <1>1, Invariance, PTL

\* For every DPD period but one second, keepalive_action does not flood.
THEOREM NoProbeFlood == ASSUME Dpd # 1 PROVE Spec => []ProbeLimit
<1>1. IInv => ProbeLimit
  BY Dpd # 1 DEF IInv, ProbeDistance, ProbeLimit
<1> QED
  BY <1>1, Invariance, PTL

\* On CSTP keepalives go out in time, whatever is sent in between.
THEOREM CstpKeepaliveInTime == Spec => []KeepaliveInTime
<1>1. IInv => KeepaliveInTime
  BY KeepaliveAssumption
  DEF IInv, TypeOK, NotLate, WakesForKeepalive, KeepaliveInTime
<1> QED
  BY <1>1, Invariance, PTL
=============================================================================
