-------------------------- MODULE MtuDetectProofs ---------------------------
(***************************************************************************)
(* The safety properties of module MtuDetect hold for every negotiated     *)
(* MTU, every path and any number of tries, lost, late and repeated        *)
(* answers, and other packets: TLAPS proofs.                               *)
(***************************************************************************)
EXTENDS MtuDetect, TLAPS

\* The labels, and what the code never changes
Labels ==
  /\ family \in {"v4", "v6"}
  /\ pc \in {"rnd", "nornd", "read", "done"}
  /\ family = "v6" => cur = Mtu

Numbers ==
  /\ min \in 2..Mtu /\ max \in 4..Mtu /\ cur \in 3..Mtu /\ cur <= max
  /\ local \in 4..Mtu /\ path \in 0..local
  /\ id \in Nat /\ mtu \in 2..Mtu /\ acked \in 0..Mtu

Answers == net \subseteq [id : Nat, size : 3..Mtu]

\* An answer is for a size that the path carries; the one with the id of the last
\* probe is for the present size.
AnswerSizes ==
  \A r \in net :
    /\ r.size <= path
    /\ r.id <= id
    /\ r.id = id /\ pc \in {"nornd", "read"} => r.size = cur

\* While the search goes on, the lower limit is the one it began with, or the largest
\* size that was answered for, and the next size is not below it.
Searching ==
  pc # "done" =>
    /\ mtu = Mtu
    /\ min = OrigMin \/ min <= path
    /\ family = "v4" => acked = 0 \/ (acked = min /\ min <= path /\ min <= cur)

\* What the search has found
Found == DetectedIsCarried /\ NothingForgotten

Budget ==
  /\ tries \in 0..(IF family = "v4" THEN MaxTries ELSE MaxResends)
  /\ waits = tries
  /\ unexpected \in 0..MaxUnexpected

IInv ==
  Labels /\ Numbers /\ Answers /\ AnswerSizes /\ Searching /\ Found /\ Budget
-----------------------------------------------------------------------------
\* The invariant holds when DTLS has come up.
LEMMA InitInv == Init => IInv
<1> SUFFICES ASSUME Init PROVE IInv
  OBVIOUS
<1> USE MtuAssumption DEF Init
<1>1. Labels
  BY Zenon DEF Labels
<1>2. Numbers
  BY DEF Numbers, OrigMin
<1>3. Answers /\ AnswerSizes
  BY DEF Answers, AnswerSizes
<1>4. Searching
  BY DEF Searching, OrigMin
<1>5. Found
  BY DEF Found, DetectedIsCarried, NothingForgotten
<1>6. Budget
  BY DEF Budget
<1> QED
  BY <1>1, <1>2, <1>3, <1>4, <1>5, <1>6 DEF IInv

\* A new id: no answer has it.
LEMMA RndStep == IInv /\ Rnd => IInv'
<1> SUFFICES ASSUME IInv, Rnd PROVE IInv'
  OBVIOUS
<1> USE MtuAssumption DEF IInv, Rnd, Return, searchVars, history
<1>1. Labels'
  BY Zenon DEF Labels
<1>2. Numbers'
  BY DEF Numbers
<1>3. Answers'
  BY DEF Answers
<1>4. AnswerSizes'
  BY DEF Answers, AnswerSizes, Numbers
<1>5. Searching'
  BY DEF Searching
<1>6. Found'
  BY DEF Found, DetectedIsCarried, NothingForgotten
<1>7. Budget'
  BY DEF Budget
<1> QED
  BY <1>1, <1>2, <1>3, <1>4, <1>5, <1>6, <1>7

\* What sending a probe changes
LEMMA SentStep ==
  ASSUME IInv, Sent, pc = "nornd", UNCHANGED searchVars
  PROVE  Labels' /\ Numbers' /\ Answers' /\ AnswerSizes' /\ Searching' /\ Found'
<1> USE MtuAssumption DEF IInv, Sent, searchVars
<1>1. Labels'
  BY Zenon DEF Labels
<1>2. Numbers'
  BY DEF Numbers
<1>3. Answers'
  BY DEF Answers, Numbers
<1>4. AnswerSizes'
  BY DEF AnswerSizes, Answers, Numbers
<1>5. Searching'
  BY DEF Searching, OrigMin
<1>6. Found'
  BY DEF Found, DetectedIsCarried, NothingForgotten
<1> QED
  BY <1>1, <1>2, <1>3, <1>4, <1>5, <1>6

\* The first loop of detect_mtu_ipv4
LEMMA Probe4Step == IInv /\ Probe4 => IInv'
<1> SUFFICES ASSUME IInv, Probe4 PROVE IInv'
  OBVIOUS
<1>0. family = "v4" /\ pc = "nornd"
  BY DEF Probe4
<1> USE MtuAssumption
<1>1. CASE /\ tries >= MaxTries
           /\ Return(IF min = OrigMin THEN 0 ELSE min)
           /\ UNCHANGED <<searchVars, tries, id, net, history>>
  <2> USE <1>0, <1>1 DEF IInv, Return, searchVars, history
  <2>1. Labels'
    BY Zenon DEF Labels
  <2>2. Numbers' /\ Answers' /\ AnswerSizes'
    BY DEF Numbers, Answers, AnswerSizes
  <2>3. Searching' /\ Budget'
    BY DEF Searching, Budget
  <2>4. Found'
    BY DEF Found, DetectedIsCarried, NothingForgotten, Searching, Numbers
  <2> QED
    BY <2>1, <2>2, <2>3, <2>4
<1>2. CASE /\ tries < MaxTries /\ cur <= local
           /\ tries' = tries + 1
           /\ Sent
           /\ UNCHANGED searchVars
  <2>1. Budget'
    BY <1>0, <1>2 DEF IInv, Budget, Sent, searchVars
  <2> QED
    BY <1>0, <1>2, <2>1, SentStep DEF IInv
<1>3. CASE /\ tries < MaxTries /\ cur > local
           /\ cur' = cur - 1 /\ max' = cur - 1
           /\ pc' = "rnd"
           /\ UNCHANGED <<family, path, local, min, tries, id, net, mtu, history>>
  <2> USE <1>0, <1>3 DEF IInv, history
  <2>1. Labels'
    BY Zenon DEF Labels
  <2>2. Numbers' /\ Answers'
    BY DEF Numbers, Answers
  <2>3. AnswerSizes'
    BY DEF AnswerSizes
  <2>4. Searching' /\ Found' /\ Budget'
    BY DEF Searching, OrigMin, Numbers, Found, DetectedIsCarried, NothingForgotten, Budget
  <2> QED
    BY <2>1, <2>2, <2>3, <2>4
<1> QED
  BY <1>1, <1>2, <1>3, Zenon DEF Probe4

\* The loop of detect_mtu_ipv6
LEMMA Probe6Step == IInv /\ Probe6 => IInv'
<1> SUFFICES ASSUME IInv, Probe6 PROVE IInv'
  OBVIOUS
<1>0. family = "v6" /\ pc = "nornd" /\ UNCHANGED searchVars
  BY DEF Probe6
<1> USE MtuAssumption
<1>1. CASE Return(cur) /\ UNCHANGED <<tries, id, net, history>>
  <2> USE <1>0, <1>1 DEF IInv, Return, searchVars, history
  <2>1. Labels'
    BY Zenon DEF Labels
  <2>2. mtu' = mtu
    BY DEF Labels, Numbers, Searching
  <2>3. Numbers' /\ Answers' /\ AnswerSizes'
    BY <2>2 DEF Numbers, Answers, AnswerSizes
  <2>4. Searching' /\ Budget' /\ Found'
    BY <2>2 DEF Searching, Budget, Found, DetectedIsCarried, NothingForgotten
  <2> QED
    BY <2>1, <2>3, <2>4
<1>2. CASE /\ tries < MaxResends /\ cur <= local
           /\ tries' = tries + 1
           /\ Sent
  <2>1. Budget'
    BY <1>0, <1>2 DEF IInv, Budget, Sent, searchVars
  <2> QED
    BY <1>0, <1>2, <2>1, SentStep DEF IInv
<1> QED
  BY <1>1, <1>2, Zenon DEF Probe6

\* Other packets are skipped.
LEMMA UnexpectedStep == IInv /\ Unexpected => IInv'
<1> SUFFICES ASSUME IInv, Unexpected PROVE IInv'
  OBVIOUS
<1> USE MtuAssumption DEF IInv, Unexpected, searchVars
<1>0. net' \subseteq net
  OBVIOUS
<1>1. Labels'
  BY Zenon DEF Labels
<1>2. Numbers' /\ Answers'
  BY <1>0 DEF Numbers, Answers
<1>3. AnswerSizes'
  BY <1>0 DEF AnswerSizes
<1>4. Searching' /\ Found' /\ Budget'
  BY DEF Searching, OrigMin, Found, DetectedIsCarried, NothingForgotten, Budget
<1> QED
  BY <1>1, <1>2, <1>3, <1>4

\* The answer with the id of the last probe is for its size, so that size is carried.
LEMMA AnswerStep == IInv /\ Answer => IInv'
<1> SUFFICES ASSUME IInv, Answer PROVE IInv'
  OBVIOUS
<1> USE MtuAssumption
<1>0. /\ pc = "read" /\ net' \subseteq net /\ cur <= path
      /\ acked' = IF cur > acked THEN cur ELSE acked
  <2> PICK r \in net : /\ r.id = id /\ net' \in {net, net \ {r}}
                       /\ acked' = IF r.size > acked THEN r.size ELSE acked
    BY DEF Answer
  <2>1. pc = "read"
    BY DEF Answer
  <2>2. r.size = cur /\ cur <= path
    BY <2>1 DEF IInv, AnswerSizes
  <2> QED
    BY <2>1, <2>2
<1>1. UNCHANGED <<family, path, local, id, waits, unexpected>>
  BY DEF Answer
<1>2. \/ family = "v4" /\ cur = max /\ Return(cur) /\ UNCHANGED <<min, max, cur, tries>>
      \/ /\ family = "v4" /\ cur # max /\ min' = cur /\ cur' = Half(cur, max)
         /\ pc' = "rnd" /\ UNCHANGED <<max, tries, mtu>>
      \/ family = "v6" /\ Return(cur) /\ UNCHANGED <<min, max, cur, tries>>
  BY Zenon DEF Answer
<1>3. AnswerSizes' /\ Answers'
  <2>1. pc' \in {"rnd", "done"}
    BY <1>2, Zenon DEF Return
  <2> QED
    BY <1>0, <1>1, <2>1 DEF IInv, AnswerSizes, Answers
<1>4. Budget'
  BY <1>1, <1>2 DEF IInv, Budget
<1>5. CASE Return(cur) /\ UNCHANGED <<min, max, cur, tries>>
  <2> USE <1>0, <1>1, <1>5 DEF IInv, Return
  <2>1. Labels'
    BY Zenon DEF Labels
  <2>2. Numbers' /\ mtu' = cur
    BY DEF Numbers
  <2>3. Searching'
    BY DEF Searching
  <2>4. Found'
    BY <2>2 DEF Found, DetectedIsCarried, NothingForgotten, Searching, Numbers, Labels
  <2> QED
    BY <1>3, <1>4, <2>1, <2>2, <2>3, <2>4
<1>6. CASE /\ family = "v4" /\ cur # max /\ min' = cur /\ cur' = Half(cur, max)
           /\ pc' = "rnd" /\ UNCHANGED <<max, tries, mtu>>
  <2> USE <1>0, <1>1, <1>6 DEF IInv
  <2>1. Labels'
    BY Zenon DEF Labels
  <2>2. Numbers'
    BY DEF Numbers, Half
  <2>3. Searching'
    BY DEF Searching, Numbers, Half
  <2>4. Found'
    BY DEF Found, DetectedIsCarried, NothingForgotten, Searching, Numbers
  <2> QED
    BY <1>3, <1>4, <2>1, <2>2, <2>3, <2>4
<1> QED
  BY <1>2, <1>5, <1>6

\* A timeout lowers the size, but not to the lower limit.
LEMMA TimeoutStep == IInv /\ Timeout => IInv'
<1> SUFFICES ASSUME IInv, Timeout PROVE IInv'
  OBVIOUS
<1> USE MtuAssumption
<1>0. pc = "read" /\ UNCHANGED <<family, path, local, min, max, tries, id, net, mtu,
                                 acked, waits, unexpected>>
  BY DEF Timeout
<1>1. \/ /\ family = "v4" /\ Half(min, cur) < cur /\ Half(min, cur) > min
         /\ cur' = Half(min, cur) /\ pc' = "rnd"
      \/ cur' = cur /\ pc' = "nornd"
  BY DEF Timeout
<1>2. CASE /\ family = "v4" /\ Half(min, cur) < cur /\ Half(min, cur) > min
           /\ cur' = Half(min, cur) /\ pc' = "rnd"
  <2> USE <1>0, <1>2 DEF IInv
  <2>1. Labels'
    BY Zenon DEF Labels
  <2>2. Half(min, cur) \in 3..Mtu
    BY DEF Numbers, Half
  <2>3. Numbers' /\ Answers'
    BY <2>2 DEF Numbers, Answers
  <2>4. AnswerSizes'
    BY DEF AnswerSizes
  <2>5. Searching'
    BY <2>2 DEF Searching, OrigMin, Numbers
  <2>6. Found' /\ Budget'
    BY DEF Found, DetectedIsCarried, NothingForgotten, Budget
  <2> QED
    BY <2>1, <2>3, <2>4, <2>5, <2>6
<1>3. CASE cur' = cur /\ pc' = "nornd"
  <2> USE <1>0, <1>3 DEF IInv
  <2>1. Labels'
    BY Zenon DEF Labels
  <2>2. Numbers' /\ Answers' /\ AnswerSizes'
    BY DEF Numbers, Answers, AnswerSizes
  <2>3. Searching' /\ Found' /\ Budget'
    BY DEF Searching, OrigMin, Found, DetectedIsCarried, NothingForgotten, Budget
  <2> QED
    BY <2>1, <2>2, <2>3
<1> QED
  BY <1>1, <1>2, <1>3

\* An error ends the search with nothing found; for v6 with the size it began with.
LEMMA ReadErrorStep == IInv /\ ReadError => IInv'
<1> SUFFICES ASSUME IInv, ReadError PROVE IInv'
  OBVIOUS
<1> USE MtuAssumption DEF IInv, ReadError, Return, searchVars, history
<1>1. Labels'
  BY Zenon DEF Labels
<1>2. mtu' = mtu
  BY DEF Labels, Numbers, Searching
<1>3. Numbers' /\ Answers' /\ AnswerSizes'
  BY <1>2 DEF Numbers, Answers, AnswerSizes
<1>4. Searching' /\ Found' /\ Budget'
  BY <1>2 DEF Searching, Found, DetectedIsCarried, NothingForgotten, Budget
<1> QED
  BY <1>1, <1>3, <1>4

\* The invariant, of the specification
LEMMA Invariance == Spec => []IInv
<1>1. IInv /\ [Next]_vars => IInv'
  <2> SUFFICES ASSUME IInv, [Next]_vars PROVE IInv'
    OBVIOUS
  <2>1. CASE UNCHANGED vars
    BY <2>1 DEF vars, searchVars, IInv, Labels, Numbers, Answers, AnswerSizes, Searching,
                OrigMin, Found, DetectedIsCarried, NothingForgotten, Budget
  <2>2. CASE Done
    BY <2>1, <2>2 DEF Done
  <2> QED
    BY <2>1, <2>2, RndStep, Probe4Step, Probe6Step, UnexpectedStep, AnswerStep, TimeoutStep,
       ReadErrorStep DEF Next
<1> QED
  BY InitInv, <1>1, PTL DEF Spec
-----------------------------------------------------------------------------
\* Type correctness: the sizes stay between the smallest probe and the negotiated MTU.
THEOREM TypeCorrect == Spec => []TypeOK
<1>1. IInv => TypeOK
  <2> SUFFICES ASSUME IInv PROVE TypeOK
    OBVIOUS
  <2>1. family \in {"v4", "v6"} /\ pc \in {"rnd", "nornd", "read", "done"}
    BY DEF IInv, Labels
  <2>2. tries \in 0..(MaxTries + MaxResends) /\ waits \in Nat
    BY MtuAssumption DEF IInv, Budget
  <2> QED
    BY <2>1, <2>2 DEF IInv, Numbers, Answers, Budget, TypeOK
<1> QED
  BY Invariance, <1>1, PTL

\* Whatever is lost, late or repeated, and however large the MTU, the MTU is only
\* lowered to a size that the path carries.
THEOREM MtuIsCarried == Spec => []DetectedIsCarried
<1>1. IInv => DetectedIsCarried
  BY DEF IInv, Found
<1> QED
  BY Invariance, <1>1, PTL

\* No size that the server has answered for is lost by it.
THEOREM MtuIsNotTooSmall == Spec => []NothingForgotten
<1>1. IInv => NothingForgotten
  BY DEF IInv, Found
<1> QED
  BY Invariance, <1>1, PTL

\* The packet loop stands still for a bounded number of waits.
THEOREM LoopStandsStill == Spec => []WithinBudget
<1>1. IInv => WithinBudget
  BY MtuAssumption DEF IInv, Budget, WithinBudget
<1> QED
  BY Invariance, <1>1, PTL
=============================================================================
