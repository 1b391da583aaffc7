--------------------------- MODULE MCTunnelServer ---------------------------
(***************************************************************************)
(* TunnelServer on a small instance.  The configurations choose how many   *)
(* clients there are, how many of them the server accepts and how long the *)
(* pool of virtual IPs is.                                                 *)
(***************************************************************************)
EXTENDS TunnelServer

CONSTANTS NumIPs   \* the length of the pool

MCAddr == 1..3
MCPool == [i \in 1..NumIPs |-> 10 + i]
MCNoIP == 0
=============================================================================
