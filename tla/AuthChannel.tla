----------------------------- MODULE AuthChannel -----------------------------
(***************************************************************************)
(* What an authenticated datagram channel between two peers promises: a    *)
(* peer is handed only what the other peer sent to it.  Datagrams may be   *)
(* lost, reordered and handed up more than once.                           *)
(***************************************************************************)
EXTENDS Sequences

CONSTANTS Peers,     \* the two ends
          Messages   \* what can be sent

VARIABLES sent,      \* sent[p]: the messages p has sent
          got        \* got[p]: the messages handed up to p, in order

channelVars == <<sent, got>>

Init == /\ sent = [p \in Peers |-> {}]
        /\ got = [p \in Peers |-> <<>>]

\* p sends a message that nobody sent before.
Send(p) == \E m \in Messages :
              /\ \A q \in Peers : m \notin sent[q]
              /\ sent' = [sent EXCEPT ![p] = @ \cup {m}]
              /\ UNCHANGED got

\* p is handed a message of the other peer.
Receive(p) == \E q \in Peers \ {p} : \E m \in sent[q] :
                 /\ got' = [got EXCEPT ![p] = Append(@, m)]
                 /\ UNCHANGED sent

Next == \E p \in Peers : Send(p) \/ Receive(p)

Spec == Init /\ [][Next]_channelVars
=============================================================================
