----------------------------- MODULE FifoRelay -----------------------------
(***************************************************************************)
(* What a relay between two peers promises, whatever its buffers, polls    *)
(* and handlers: each peer is given, packet by packet and in order, a      *)
(* prefix of what the other one has sent so far, and nothing once the      *)
(* relay has stopped.                                                      *)
(***************************************************************************)
EXTENDS Integers, Sequences

VARIABLES
    sent,       \* per peer: how many packets it has sent
    delivered,  \* per peer: the numbers of the packets it was given
    running     \* the relay has not stopped

relay == <<sent, delivered, running>>

Peer == {"client", "target"}
Opposite(p) == IF p = "client" THEN "target" ELSE "client"

RelayInit ==
    /\ sent = [p \in Peer |-> 0]
    /\ delivered = [p \in Peer |-> <<>>]
    /\ running = TRUE

Send(p) ==
    /\ sent' = [sent EXCEPT ![p] = @ + 1]
    /\ UNCHANGED <<delivered, running>>

\* The peer p is given the next packets, up to number upto, of the other one.
Deliver(p) ==
    /\ running
    /\ \E upto \in Len(delivered[p]) .. sent[Opposite(p)] :
          delivered' = [delivered EXCEPT ![p] = [i \in 1..upto |-> i]]
    /\ UNCHANGED <<sent, running>>

Stop ==
    /\ running
    /\ running' = FALSE
    /\ UNCHANGED <<sent, delivered>>

RelayNext == Stop \/ \E p \in Peer : Send(p) \/ Deliver(p)

RelaySpec == RelayInit /\ [][RelayNext]_relay
=============================================================================
