------------------------------- MODULE Tunnel -------------------------------
(***************************************************************************)
(* Clients and the server over UDP.  The network may lose, duplicate,      *)
(* delay and reorder datagrams: what was sent stays in net and may be      *)
(* delivered any number of times, until the network drops it for good.     *)
(* Nobody forges a datagram.                                               *)
(***************************************************************************)
EXTENDS TunnelServer

CONSTANTS MaxEpochs,  \* bound on the sessions the server creates
          MaxLosses   \* bound on the datagrams that are never delivered again

ASSUME TunnelAssumption == MaxEpochs \in Nat /\ MaxLosses \in Nat

VARIABLES phase, keepalive, keys,  \* the clients, see TunnelClient
          net,      \* datagrams the network may still deliver
          losses,   \* how many it has dropped for good
          epochs,   \* how many sessions the server has created
          engine,   \* engine[a]: the keys of the server's last session for a
          ended,    \* history: the sessions the reaper or a kick has ended
          missed    \* history: the clients whose handshake the server passed over

Epochs == 1..MaxEpochs

INSTANCE TunnelClient

serverVars == vars
clients == <<phase, keepalive, keys>>
tunnelVars == <<serverVars, clients, net, losses, epochs, engine, ended, missed>>
wireVars == <<clients, net, losses, epochs, engine, ended, missed>>

TunnelTypeOK ==
    /\ TypeOK
    /\ ClientTypeOK
    /\ net \subseteq {Init_(a) : a \in Addr} \cup {Data(a) : a \in Addr}
                     \cup {Reply(a, e) : a \in Addr, e \in Epochs}
    /\ losses \in 0..MaxLosses
    /\ epochs \in 0..MaxEpochs
    /\ engine \in [Addr -> {NoKeys} \cup {DerivedKeys(e, "server") : e \in Epochs}]
    /\ ended \subseteq Epochs
    /\ missed \subseteq Addr

TunnelInit ==
    /\ Init
    /\ ClientInit
    /\ net = {}
    /\ losses = 0
    /\ epochs = 0
    /\ engine = [a \in Addr |-> NoKeys]
    /\ ended = {}
    /\ missed = {}

-----------------------------------------------------------------------------
(* The clients *)

ClientStep(a) ==
    /\ \/ ClientStart(a)
       \/ KeepaliveEnds(a)
       \/ ClientTunReadable(a)
       \/ ClientStop(a)
    /\ UNCHANGED <<serverVars, losses, epochs, engine, ended, missed>>

DeliverReply(a) ==
    /\ \E e \in Epochs : Reply(a, e) \in net /\ ClientReply(a, e)
    /\ UNCHANGED <<serverVars, losses, epochs, engine, ended, missed>>

-----------------------------------------------------------------------------
(* Datagrams at the server *)

GreetSilently(a) ==
    /\ epochs < MaxEpochs
    /\ epochs' = epochs + 1
    /\ engine' = [engine EXCEPT ![a] = DerivedKeys(epochs + 1, "server")]
    /\ UNCHANGED <<clients, net, losses, ended, missed>>

\* What _handle_handshake does to the wire: a key pair and a salt of its own, and
\* the reply, for which the admission of the client has been settled.
Greet(a) ==
    /\ epochs < MaxEpochs
    /\ epochs' = epochs + 1
    /\ engine' = [engine EXCEPT ![a] = DerivedKeys(epochs + 1, "server")]
    /\ net' = net \cup {Reply(a, epochs + 1)}
    /\ UNCHANGED <<clients, losses, ended, missed>>

DeliverInitRekeys(a) ==
    /\ Init_(a) \in net
    /\ \/ Handshake(a)
       \/ Receiving /\ a \in live /\ UNCHANGED serverVars
    /\ Greet(a)

\* The first handshake of an address that is not in the table.
DeliverInit(a) ==
    /\ Init_(a) \in net
    /\ Handshake(a)
    /\ Greet(a)

\* A handshake that comes to a full table is read and dropped without an answer, and
\* one that comes while no socket is open is not even read.  The client sends no
\* other; only a copy the network made may still be delivered.
MissInit(a) ==
    /\ Init_(a) \in net
    /\ \/ status \notin {"listening", "running"}
       \/ Receiving /\ a \notin live /\ ~HasRoom
    /\ missed' = missed \cup {a}
    /\ UNCHANGED <<serverVars, clients, net, losses, epochs, engine, ended>>

\* Any datagram of an address in the table goes to its session, where the open
\* fails: a handshake because it is not a frame, a DATA packet because the packet
\* header is taken for the start of the frame.  The session is touched either way.
DeliverToSession(a) ==
    /\ Init_(a) \in net \/ Data(a) \in net
    /\ DatagramKnown(a)
    /\ UNCHANGED wireVars

\* Sessions that leave the table are over.
Ends(a) == ended' = IF a \in live THEN ended \cup {engine[a].epoch} ELSE ended

DropSession(a) ==
    /\ ReapStep(a) \/ Kick(a)
    /\ Ends(a)
    /\ UNCHANGED <<clients, net, losses, epochs, engine, missed>>

\* What the loop does next inside a callback, and the reaper when it is due.
LoopStep ==
    /\ HandleData \/ TunEnd \/ ReapEnd \/ ReapBegin \/ \E a \in Addr : TunSend(a)
    /\ UNCHANGED wireVars

\* Everything else the server does without a datagram coming in.
ServerStep ==
    /\ \/ Lifecycle
       \/ TunReadable
       \/ Tick
       \/ \E v \in Viewers : StatsBegin(v) \/ StatsRaises(v) \/ StatsReturns(v)
    /\ UNCHANGED wireVars

-----------------------------------------------------------------------------
(* The network *)

Lose(m) ==
    /\ losses < MaxLosses
    /\ m \in net
    /\ net' = net \ {m}
    /\ losses' = losses + 1
    /\ UNCHANGED <<serverVars, clients, epochs, engine, ended, missed>>

TunnelNext ==
    \/ ServerStep
    \/ LoopStep
    \/ \E a \in Addr : \/ ClientStep(a)
                       \/ DeliverReply(a)
                       \/ DeliverInit(a)
                       \/ MissInit(a)
                       \/ DeliverToSession(a)
                       \/ DropSession(a)
    \/ \E m \in net : Lose(m)

TunnelSpec == TunnelInit /\ [][TunnelNext]_tunnelVars

\* The handshake of a reaches the server for the first time.
InitArrives(a) ==
    /\ a \notin missed
    /\ engine[a] = NoKeys
    /\ DeliverInit(a) \/ MissInit(a)

\* Both loops go on, and a datagram that is not lost is delivered once, whatever it
\* finds; nothing makes the network deliver it again.
TunnelFairness ==
    /\ WF_tunnelVars(LoopStep)
    /\ \A a \in Addr :
          /\ WF_tunnelVars(pc = "reap" /\ DropSession(a))
          /\ WF_tunnelVars(keepalive[a] = "scheduled" /\ ClientStep(a))
          /\ WF_tunnelVars(DeliverReply(a))
          /\ SF_tunnelVars(InitArrives(a))

FairTunnelSpec == TunnelSpec /\ TunnelFairness

-----------------------------------------------------------------------------
(* Properties *)

\* A connected client shares its Diffie-Hellman secret with the server's session for
\* its address, unless that session is over: whatever handshakes and replies are
\* repeated, late or out of order, the two sides part only when the server drops
\* the session.
ConnectedOrDropped ==
    \A a \in Addr : phase[a] = "connected" =>
        \/ keys[a].epoch \in ended
        \/ a \in live /\ engine[a].epoch = keys[a].epoch

\* A client derives its keys once: no datagram makes it derive them again, which
\* would start its nonce counter over.
ClientKeysOnce ==
    [][\A a \in Addr : keys[a] # NoKeys => keys'[a] = keys[a]]_tunnelVars

\* The keys of a session in the table never change under its client's feet: a
\* handshake that arrives a second time does not replace them.
EngineKept ==
    [][\A a \in Addr : a \in live /\ a \in live' => engine'[a] = engine[a]]_tunnelVars

\* A client gets connected if no datagram is lost, its only handshake found the server
\* listening and a place free, and neither side is stopped first: whatever comes
\* twice or late, whoever is reaped or kicked meanwhile.  (A client that was not
\* answered yet when the model is out of epochs is let off.)
ConnectsUnlessLost ==
    \A a \in Addr :
        phase[a] = "pending" ~>
            \/ phase[a] # "pending"
            \/ status # "running"
            \/ losses > 0
            \/ a \in missed
            \/ epochs = MaxEpochs /\ engine[a] = NoKeys

-----------------------------------------------------------------------------
(* What the documentation says and the code does not do *)

\* README.md: client.tx_key == server.rx_key and server.tx_key == client.rx_key, the
\* two halves of one base both peers derive from the handshake.
KeysAgree ==
    \A a \in live : phase[a] = "connected" /\ keys[a].epoch = engine[a].epoch =>
        keys[a] = engine[a]
=============================================================================
