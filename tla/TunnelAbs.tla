------------------------------ MODULE TunnelAbs -----------------------------
(***************************************************************************)
(* What the packet loop promises to the traffic of the tun device, however *)
(* many channels, reconnects, pauses and fallbacks lie underneath: packets *)
(* are taken from tun one after the other, and each of them is sent at     *)
(* most once.                                                              *)
(***************************************************************************)
EXTENDS Naturals

VARIABLES taken,  \* packets 1..taken were read from the tun device
          sent,   \* those that went out to the server
          sends   \* how many times a packet went out

Init == taken = 0 /\ sent = {} /\ sends = 0

Take == taken' = taken + 1 /\ UNCHANGED <<sent, sends>>

Send == \E p \in (1..taken) \ sent : /\ sent' = sent \union {p}
                                    /\ sends' = sends + 1
                                    /\ UNCHANGED taken

Next == Take \/ Send

Spec == Init /\ [][Next]_<<taken, sent, sends>>
=============================================================================
