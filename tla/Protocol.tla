------------------------------ MODULE Protocol ------------------------------
(***************************************************************************)
(* Packets and their fields: vortexvpn/core/protocol.py, as the two ends   *)
(* use it for the handshake.                                               *)
(*                                                                         *)
(* A datagram is a header, as struct unpacks it, and the octets after it.  *)
(* Everything in it that a length or a type is read from may say anything: *)
(* besides the two ends, strangers send datagrams.  The exchange is one    *)
(* datagram at a time; order and loss are Tunnel's, keys CryptoEngine's.   *)
(***************************************************************************)
EXTENDS Integers, Sequences

CONSTANTS MaxOctet,        \* 255
          MaxLength,       \* 2^32 - 1, what the length field of the header holds
          Magic,           \* MAGIC
          Types,           \* PacketType
          HandshakeInit, HandshakeReply, Data,
          Priority,        \* FLAG_PRIORITY
          MaxPayload,      \* MAX_PAYLOAD
          MaxName,         \* 64, what make_handshake_init lets pass
          NonceLen, KeyLen, SigLen,   \* 16, 32, 64
          Names,           \* the strings that have an encoding
          Utf8,            \* Utf8[n]: the octets of n
          Foreign          \* what strangers send

Octet == 0..MaxOctet
Octets(n) == [1..n -> Octet]

Packets == [type : Types, flags : Octet, payload : Seq(Octet)]
Datagrams == [whole : BOOLEAN, magic : Octet, type : Octet, flags : Octet,
              plen : 0..MaxLength, body : Seq(Octet)]

ASSUME ProtocolAssumption ==
    /\ MaxOctet \in Nat /\ MaxLength \in Nat /\ MaxPayload \in 0..MaxLength
    /\ NonceLen \in Nat /\ KeyLen \in Nat /\ SigLen \in Nat
    /\ {Magic, Priority} \subseteq Octet
    /\ Types \subseteq Octet
    /\ {HandshakeInit, HandshakeReply, Data} \subseteq Types
    /\ HandshakeInit # HandshakeReply /\ HandshakeInit # Data /\ HandshakeReply # Data
    /\ MaxName \in Octet
    /\ 1 + MaxName + NonceLen + KeyLen =< MaxPayload
    /\ NonceLen + KeyLen + SigLen =< MaxPayload
    /\ Utf8 \in [Names -> Seq(Octet)]
    /\ \A m, n \in Names : Utf8[m] = Utf8[n] => m = n
    /\ Foreign \subseteq Datagrams

VARIABLES connected, \* the client has had its reply
          sent,      \* what the sender put into the datagram on the way
          wire,      \* the datagram
          got        \* what the receiver took out of it

protocolVars == <<connected, sent, wire, got>>

\* What a handshake carries, and what a frame is wrapped into.  A datagram may also be of a
\* type that the receiver passes over, or an exception says that it is malformed.
Hellos == [kind : {"hello"}, name : Names, nonce : Octets(NonceLen), key : Octets(KeyLen)]
Replies == [kind : {"reply"}, nonce : Octets(NonceLen), key : Octets(KeyLen),
            sig : Octets(SigLen)]
Frames == [kind : {"frame"}, payload : Seq(Octet)]
End(kind) == [kind |-> kind]
Nothing == End("nothing")
Stranger == End("stranger")
Empty == [whole |-> FALSE, magic |-> 0, type |-> 0, flags |-> 0, plen |-> 0, body |-> <<>>]

ProtocolInit ==
    /\ connected = FALSE
    /\ sent = Nothing
    /\ wire = Empty
    /\ got = Nothing

-----------------------------------------------------------------------------
(* Packet *)

\* s[from:to] of Python: what there is of it.
Slice(s, from, to) == SubSeq(s, from + 1, IF to =< Len(s) THEN to ELSE Len(s))

Serialize(p) ==
    [whole |-> TRUE, magic |-> Magic, type |-> p.type, flags |-> p.flags,
     plen |-> Len(p.payload), body |-> p.payload]

\* Octets after the payload are passed over.
Deserializes(d) ==
    /\ d.whole
    /\ d.magic = Magic
    /\ d.plen =< MaxPayload
    /\ Len(Slice(d.body, 0, d.plen)) = d.plen
    /\ d.type \in Types

Deserialize(d) == [type |-> d.type, flags |-> d.flags, payload |-> Slice(d.body, 0, d.plen)]

-----------------------------------------------------------------------------
(* The handshake's payloads *)

MakeInit(m) ==
    [type |-> HandshakeInit, flags |-> Priority,
     payload |-> <<Len(Utf8[m.name])>> \o Utf8[m.name] \o m.nonce \o m.key]

MakeReply(m) ==
    [type |-> HandshakeReply, flags |-> Priority, payload |-> m.nonce \o m.key \o m.sig]

ParsesInitShort(p) ==
    /\ Len(p.payload) >= 1
    /\ Len(p.payload) >= p.payload[1] + NonceLen + KeyLen

\* The first octet is the length of the name.
ParsesInit(p) ==
    /\ Len(p.payload) >= 1
    /\ Len(p.payload) >= 1 + p.payload[1] + NonceLen + KeyLen

NameOctets(p) == Slice(p.payload, 1, 1 + p.payload[1])

NonceOffByOne(p) == p.payload[1]

NonceOff(p) == 1 + p.payload[1]

ParseInit(p) ==
    IF ~ParsesInit(p) THEN End("ProtocolError")
    ELSE IF ~\E n \in Names : Utf8[n] = NameOctets(p) THEN End("UnicodeDecodeError")
    ELSE [kind |-> "hello",
          name |-> CHOOSE n \in Names : Utf8[n] = NameOctets(p),
          nonce |-> Slice(p.payload, NonceOff(p), NonceOff(p) + NonceLen),
          key |-> Slice(p.payload, NonceOff(p) + NonceLen, NonceOff(p) + NonceLen + KeyLen)]

ParsesReply(p) == Len(p.payload) >= NonceLen + KeyLen + SigLen

ParseReply(p) ==
    IF ~ParsesReply(p) THEN End("ProtocolError")
    ELSE [kind |-> "reply",
          nonce |-> Slice(p.payload, 0, NonceLen),
          key |-> Slice(p.payload, NonceLen, NonceLen + KeyLen),
          sig |-> Slice(p.payload, NonceLen + KeyLen, NonceLen + KeyLen + SigLen)]

-----------------------------------------------------------------------------
(* The two ends *)

Quiet == sent = Nothing /\ got = Nothing

Send(m, d) ==
    /\ sent' = m
    /\ wire' = d
    /\ UNCHANGED <<connected, got>>

\* _do_handshake.  A longer name raises ProtocolError out of start(), and nothing is sent.
ClientGreets ==
    /\ Quiet
    /\ \E m \in Hellos :
          /\ Len(Utf8[m.name]) =< MaxName
          /\ Send(m, Serialize(MakeInit(m)))

\* The end of _handle_handshake, for whatever client.
ServerReplies ==
    /\ Quiet
    /\ \E m \in Replies : Send(m, Serialize(MakeReply(m)))

StrangerSends ==
    /\ Quiet
    /\ \E d \in Foreign : Send(Stranger, d)

\* _handle_handshake: a datagram from an address that is in no session.
ServerReceives ==
    /\ sent \in Hellos \cup {Stranger} /\ got = Nothing
    /\ LET p == Deserialize(wire) IN
       got' = IF ~Deserializes(wire) THEN End("ProtocolError")
              ELSE IF p.type # HandshakeInit THEN End("passed over")
              ELSE ParseInit(p)
    /\ UNCHANGED <<connected, sent, wire>>

\* on_datagram of the client, which waits for the reply first and for frames then; a key
\* that no secret comes of leaves it waiting.
ClientReceives ==
    /\ sent \in Replies \cup {Stranger} /\ got = Nothing
    /\ LET p == Deserialize(wire) IN
       got' = IF ~Deserializes(wire) THEN End("ProtocolError")
              ELSE IF p.type = HandshakeReply /\ ~connected THEN ParseReply(p)
              ELSE IF p.type = Data /\ connected
                   THEN [kind |-> "frame", payload |-> p.payload]
              ELSE End("passed over")
    /\ connected' \in {connected, connected \/ got'.kind = "reply"}
    /\ UNCHANGED <<sent, wire>>

\* The next datagram.
Forget ==
    /\ got # Nothing
    /\ sent' = Nothing
    /\ wire' = Empty
    /\ got' = Nothing
    /\ UNCHANGED connected

ProtocolNext ==
    \/ ClientGreets
    \/ ServerReplies
    \/ StrangerSends
    \/ ServerReceives
    \/ ClientReceives
    \/ Forget

ProtocolSpec == ProtocolInit /\ [][ProtocolNext]_protocolVars

-----------------------------------------------------------------------------
(* Properties *)

\* What comes out of a handshake packet is what the other end put in: the same name, octet
\* for octet, nonce, key and signature, whatever the length of the name and whatever octets.
\* Only a client that has its reply passes over another.
Understood ==
    sent \in Hellos \cup Replies /\ got # Nothing =>
        got = sent \/ (connected /\ sent \in Replies /\ got = End("passed over"))

\* Nothing is taken out of a datagram that is not in it: what a parser accepts has every
\* field at its full length, and encoded again it is the beginning of that payload, with
\* what the length field of the header covers and no octet more.
NothingInvented ==
    LET payload == Slice(wire.body, 0, wire.plen)
        Begins(s) == Slice(payload, 0, Len(s)) = s IN
    /\ got.kind = "hello" => got \in Hellos /\ Begins(MakeInit(got).payload)
    /\ got.kind = "reply" => got \in Replies /\ Begins(MakeReply(got).payload)
    /\ got.kind = "frame" => got.payload = payload /\ Len(payload) = wire.plen
=============================================================================
