------------------------------ MODULE MCTunnel ------------------------------
(* Tunnel on a small instance: two clients, and a pool of NumIPs. *)
EXTENDS Tunnel

CONSTANTS NumIPs

MCAddr == 1..2
MCPool == [i \in 1..NumIPs |-> 10 + i]
MCNoIP == 0
=============================================================================
