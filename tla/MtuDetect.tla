------------------------------ MODULE MtuDetect ------------------------------
(***************************************************************************)
(* dtls_detect_mtu (dtls.c), which dtls_try_handshake calls when DTLS has   *)
(* come up: probes of a size that is searched for between half the          *)
(* negotiated MTU and all of it, each answered by the server if it gets     *)
(* there.  Nothing else runs meanwhile: every wait stops the packet loop.   *)
(*                                                                          *)
(* The network loses, delays and duplicates probes and answers; between the *)
(* answers come other packets.  path is the largest packet it carries,      *)
(* local the largest one the socket takes (EMSGSIZE above), both unknown to *)
(* the client.                                                              *)
(***************************************************************************)
EXTENDS Integers

CONSTANTS
  Mtu,            \* the negotiated ip_info.mtu
  MaxTries,       \* MTU_MAX_TRIES, 10
  MaxResends,     \* max_resends of detect_mtu_ipv6, 5
  MaxUnexpected   \* bound on the packets that are no answers

ASSUME MtuAssumption ==
  /\ Mtu \in Nat /\ Mtu >= 5     \* less is returned from at once
  /\ MaxTries \in Nat \ {0} /\ MaxResends \in Nat \ {0} /\ MaxUnexpected \in Nat

VARIABLES
  family,         \* of peer_addr: "v4" or "v6"
  pc,             \* "rnd" and "nornd" are the labels, "read", "done"
  tries,          \* of v6: the resends made
  min, max, cur,
  id,             \* of the last probe; random in the code, here its number
  net,            \* answers on their way: [id, size] of the probe
  mtu,            \* ip_info.mtu
  path, local,
  acked,          \* history: the largest size the server has answered for, or 0
  waits,          \* history: waits of MTU_TIMEOUT_MS at most that were begun
  unexpected      \* history: packets skipped

searchVars == <<family, min, max, cur, path, local>>
vars == <<searchVars, pc, tries, id, net, mtu, acked, waits, unexpected>>

OrigMin == Mtu \div 2
Half(a, b) == (a + b + 1) \div 2

\* A probe with its id can be sent: the code has no lower bound for cur.
Init ==
  /\ family \in {"v4", "v6"}
  /\ pc = "rnd" /\ tries = 0
  /\ cur = Mtu /\ max = Mtu /\ min = OrigMin
  /\ id = 0 /\ net = {} /\ mtu = Mtu
  /\ local \in 4 .. Mtu
  /\ path \in 0 .. local
  /\ acked = 0 /\ waits = 0 /\ unexpected = 0

Return(result) ==
  /\ pc' = "done"
  /\ mtu' = IF result = 0 THEN mtu ELSE result

history == <<acked, waits, unexpected>>

\* mutant: every size has the id of the first probe
Rnd_Once ==
  /\ pc = "rnd"
  /\ UNCHANGED <<searchVars, id, tries, net, history, mtu>>
  /\ pc' = "nornd"

\* next_rnd: a new id, unless there is no random number
Rnd ==
  /\ pc = "rnd"
  /\ UNCHANGED <<searchVars, tries, net, history>>
  /\ \/ id' = id + 1 /\ pc' = "nornd" /\ UNCHANGED mtu
     \/ Return(0) /\ UNCHANGED id

\* The probe leaves the socket: its answer will come, if the path carries it and
\* neither is lost.
Sent ==
  /\ pc' = "read"
  /\ waits' = waits + 1
  /\ \/ /\ cur <= path
        /\ net' = net \union {[id |-> id, size |-> cur]}
     \/ net' = net
  /\ UNCHANGED <<id, mtu, acked, unexpected>>

\* mutant: gives up with the size the search began at
Probe4_OrigMin ==
  /\ family = "v4" /\ pc = "nornd"
  /\ \/ /\ tries >= MaxTries
        /\ Return(OrigMin)
        /\ UNCHANGED <<searchVars, tries, id, net, history>>
     \/ /\ tries < MaxTries /\ cur <= local
        /\ tries' = tries + 1
        /\ Sent
        /\ UNCHANGED searchVars
     \/ /\ tries < MaxTries /\ cur > local
        /\ cur' = cur - 1 /\ max' = cur - 1
        /\ pc' = "rnd"
        /\ UNCHANGED <<family, path, local, min, tries, id, net, mtu, history>>

\* mutant: a probe too large for the socket is tried again as it is
Probe4_SameSize ==
  /\ family = "v4" /\ pc = "nornd"
  /\ \/ /\ tries >= MaxTries
        /\ Return(IF min = OrigMin THEN 0 ELSE min)
        /\ UNCHANGED <<searchVars, tries, id, net, history>>
     \/ /\ tries < MaxTries /\ cur <= local
        /\ tries' = tries + 1
        /\ Sent
        /\ UNCHANGED searchVars
     \/ tries < MaxTries /\ cur > local /\ UNCHANGED vars

\* next_nornd: up to reread:
Probe4 ==
  /\ family = "v4" /\ pc = "nornd"
  /\ \/ /\ tries >= MaxTries
        /\ Return(IF min = OrigMin THEN 0 ELSE min)
        /\ UNCHANGED <<searchVars, tries, id, net, history>>
     \/ /\ tries < MaxTries /\ cur <= local
        /\ tries' = tries + 1
        /\ Sent
        /\ UNCHANGED searchVars
     \/ /\ tries < MaxTries /\ cur > local
        /\ cur' = cur - 1 /\ max' = cur - 1
        /\ pc' = "rnd"
        /\ UNCHANGED <<family, path, local, min, tries, id, net, mtu, history>>

\* The loop of detect_mtu_ipv6 up to reread:; its size never changes.
Probe6 ==
  /\ family = "v6" /\ pc = "nornd"
  /\ \/ /\ tries = MaxResends \/ cur > local
        /\ Return(cur)
        /\ UNCHANGED <<tries, id, net, history>>
     \/ /\ tries < MaxResends /\ cur <= local
        /\ tries' = tries + 1
        /\ Sent
  /\ UNCHANGED searchVars
-----------------------------------------------------------------------------
\* Another packet, or an answer to an earlier probe: the wait starts anew.
Unexpected ==
  /\ pc = "read"
  /\ unexpected < MaxUnexpected
  /\ unexpected' = unexpected + 1
  /\ \/ net' = net
     \/ \E r \in net : r.id # id /\ net' = net \ {r}
  /\ UNCHANGED <<searchVars, pc, tries, id, mtu, acked, waits>>

\* An answer to this probe; a copy of it may still come.
Answer ==
  /\ pc = "read"
  /\ \E r \in net :
       /\ r.id = id
       /\ net' \in {net, net \ {r}}
       /\ acked' = IF r.size > acked THEN r.size ELSE acked
  /\ UNCHANGED <<family, path, local, id, waits, unexpected>>
  /\ \/ /\ family = "v4" /\ cur = max
        /\ Return(cur)
        /\ UNCHANGED <<min, max, cur, tries>>
     \/ /\ family = "v4" /\ cur # max
        /\ min' = cur
        /\ cur' = Half(cur, max)
        /\ pc' = "rnd"
        /\ UNCHANGED <<max, tries, mtu>>
     \/ /\ family = "v6"
        /\ Return(cur)
        /\ UNCHANGED <<min, max, cur, tries>>

\* ETIMEDOUT
Timeout ==
  /\ pc = "read"
  /\ LET next == Half(min, cur)
         lower == family = "v4" /\ next < cur /\ next > min
     IN  /\ cur' = IF lower THEN next ELSE cur
         /\ pc' = IF lower THEN "rnd" ELSE "nornd"
  /\ UNCHANGED <<family, path, local, min, max, tries, id, net, mtu,
                 acked, waits, unexpected>>

\* Any other result of the read; for v6 it is taken for an answer.
ReadError ==
  /\ pc = "read"
  /\ Return(IF family = "v4" THEN 0 ELSE cur)
  /\ UNCHANGED <<searchVars, tries, id, net, history>>

Done == pc = "done" /\ UNCHANGED vars

Next == \/ Rnd \/ Probe4 \/ Probe6 \/ Unexpected \/ Answer \/ Timeout
        \/ ReadError \/ Done

Spec == Init /\ [][Next]_vars

\* The main loop's thread runs, and a read ends after MTU_TIMEOUT_MS.
FairSpec == Spec /\ WF_vars(Next)
-----------------------------------------------------------------------------
TypeOK ==
  /\ family \in {"v4", "v6"}
  /\ pc \in {"rnd", "nornd", "read", "done"}
  /\ tries \in 0..(MaxTries + MaxResends)
  /\ min \in 2..Mtu /\ max \in 4..Mtu /\ cur \in 3..Mtu
  /\ local \in 4..Mtu /\ path \in 0..local
  /\ id \in Nat
  /\ net \subseteq [id : Nat, size : 3..Mtu]
  /\ mtu \in 2..Mtu /\ acked \in 0..Mtu
  /\ waits \in Nat /\ unexpected \in 0..MaxUnexpected

\* The MTU is only lowered to a size that the path carries, whatever is lost, late or
\* repeated: an answer counts for the probe with its id and size alone.
DetectedIsCarried == mtu # Mtu => mtu <= path

\* and never below a size that the server has answered for.
NothingForgotten == mtu >= acked

\* The packet loop stands still for at most MaxTries waits (24 s), each of them
\* prolonged only by other packets.
WithinBudget == waits <= (IF family = "v4" THEN MaxTries ELSE MaxResends)

\* The detection ends, if the other packets do.
DetectionEnds == <>(pc = "done")
=============================================================================
