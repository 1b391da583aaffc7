---------------------------- MODULE TunnelClient ----------------------------
(***************************************************************************)
(* The client of vortexvpn/core/tunnel_client.py, one per source address:  *)
(* a client that is started again opens a new socket, hence is another     *)
(* address.  All of a client runs on its own event loop, one callback at a *)
(* time, so each callback is one step.                                     *)
(*                                                                         *)
(* net is what the clients have handed to the network so far; what may     *)
(* happen to it there is the business of the module that composes clients  *)
(* and server.                                                             *)
(***************************************************************************)
CONSTANTS Addr,     \* the clients
          Epochs    \* the server's ephemeral key pairs

VARIABLES phase,    \* _running, _pending and _connected
          keepalive,\* the _keepalive_loop task: "none", "scheduled" or "ended"
          keys,     \* the engine's session keys, or NoKeys
          net       \* datagrams sent

clientVars == <<phase, keepalive, keys>>

\* Session keys are a function of the Diffie-Hellman secret, which the address
\* (for the client's key pair) and the epoch (for the server's) determine, and of
\* the KDF salt, which KeyDerivation.generate() draws at random on either side:
\* two draws never agree.
NoKeys == [epoch |-> 0, salt |-> "none"]
DerivedKeys(e, side) == [epoch |-> e, salt |-> side]

Init_(a) == [type |-> "INIT", from |-> a]
Data(a) == [type |-> "DATA", from |-> a]
Reply(a, e) == [type |-> "REPLY", to |-> a, epoch |-> e]

ClientTypeOK ==
    /\ phase \in [Addr -> {"new", "pending", "connected", "stopped"}]
    /\ keepalive \in [Addr -> {"none", "scheduled", "ended"}]
    /\ keys \in [Addr -> {NoKeys} \cup {DerivedKeys(e, "client") : e \in Epochs}]

ClientInit ==
    /\ phase = [a \in Addr |-> "new"]
    /\ keepalive = [a \in Addr |-> "none"]
    /\ keys = [a \in Addr |-> NoKeys]

\* start(): the socket, _do_handshake with its only HANDSHAKE_INIT, and the task
\* of the keepalive loop.  None of the awaits in between suspends.
ClientStart(a) ==
    /\ phase[a] = "new"
    /\ phase' = [phase EXCEPT ![a] = "pending"]
    /\ keepalive' = [keepalive EXCEPT ![a] = "scheduled"]
    /\ net' = net \cup {Init_(a)}
    /\ UNCHANGED keys

\* The keepalive task's first step is ahead of every datagram in the loop's queue:
\* it finds _connected false and the loop is over before its first ping.
KeepaliveEnds(a) ==
    /\ keepalive[a] = "scheduled"
    /\ keepalive' = [keepalive EXCEPT ![a] = "ended"]
    /\ UNCHANGED <<phase, keys, net>>

Scheduled(a) == phase[a] \in {"pending", "connected"} /\ keepalive[a] = "ended"

ClientReplyAgain(a, e) ==
    /\ Scheduled(a)
    /\ phase' = [phase EXCEPT ![a] = "connected"]
    /\ keys' = [keys EXCEPT ![a] = DerivedKeys(e, "client")]
    /\ UNCHANGED <<keepalive, net>>

\* on_datagram with a HANDSHAKE_REPLY: only while the handshake is pending, so
\* that a reply that comes again, or late, derives nothing.  Nothing else the
\* server sends has an effect: its frames carry no packet header.
ClientReply(a, e) ==
    /\ Scheduled(a)
    /\ phase[a] = "pending"
    /\ phase' = [phase EXCEPT ![a] = "connected"]
    /\ keys' = [keys EXCEPT ![a] = DerivedKeys(e, "client")]
    /\ UNCHANGED <<keepalive, net>>

\* _on_tun_readable: a packet from the device is sealed and sent once connected,
\* and dropped before.
ClientTunReadable(a) ==
    /\ Scheduled(a)
    /\ phase[a] = "connected"
    /\ net' = net \cup {Data(a)}
    /\ UNCHANGED clientVars

\* stop(): the socket is closed.
ClientStop(a) ==
    /\ phase[a] \in {"pending", "connected"}
    /\ phase' = [phase EXCEPT ![a] = "stopped"]
    /\ UNCHANGED <<keepalive, keys, net>>
=============================================================================
