--------------------------- MODULE ProtocolProofs ---------------------------
(***************************************************************************)
(* Theorems about Protocol, for any lengths of the fields that fit, any    *)
(* names and any datagrams of strangers: a packet comes out of its         *)
(* serialisation as it went in, a handshake out of its packet, and what is *)
(* accepted encodes to the octets it was taken from.                       *)
(***************************************************************************)
EXTENDS Protocol, SequenceTheorems, TLAPS

-----------------------------------------------------------------------------
(* Slices *)

\* The elements of a slice that is all there.
LEMMA SliceIs ==
    ASSUME NEW s \in Seq(Octet), NEW from \in Nat, NEW to \in Nat,
           from =< to, to =< Len(s)
    PROVE  /\ Slice(s, from, to) \in Octets(to - from)
           /\ Slice(s, from, to) \in Seq(Octet)
           /\ Len(Slice(s, from, to)) = to - from
           /\ \A i \in 1..(to - from) : Slice(s, from, to)[i] = s[from + i]
<1> DEFINE t == SubSeq(s, from + 1, to)
<1>1. Slice(s, from, to) = t
  BY DEF Slice
<1>2. \A i \in (from + 1)..to : s[i] \in Octet
  OBVIOUS
<1>3. /\ t \in Seq(Octet)
      /\ Len(t) = IF from + 1 <= to THEN to - (from + 1) + 1 ELSE 0
      /\ \A i \in 1..(to - (from + 1) + 1) : t[i] = s[from + 1 + i - 1]
  <2> HIDE DEF t
  <2>1. from + 1 \in Int /\ to \in Int
    OBVIOUS
  <2> QED  BY <1>2, <2>1, SubSeqProperties DEF t
<1> HIDE DEF t
<1>4. Len(t) = to - from /\ \A i \in 1..(to - from) : t[i] = s[from + i]
  BY <1>3
<1>5. t \in Octets(to - from)
  BY <1>3, <1>4 DEF Octets
<1> QED  BY <1>1, <1>3, <1>4, <1>5

\* A slice that may reach past the end is still a sequence of octets.
LEMMA SliceType ==
    ASSUME NEW s \in Seq(Octet), NEW from \in Nat, NEW to \in Nat
    PROVE  Slice(s, from, to) \in Seq(Octet)
<1> DEFINE n == IF to =< Len(s) THEN to ELSE Len(s)
<1>1. n \in Int /\ from + 1 \in Int /\ n =< Len(s)
  OBVIOUS
<1>2. \A i \in (from + 1)..n : s[i] \in Octet
  BY <1>1
<1> HIDE DEF n
<1>3. SubSeq(s, from + 1, n) \in Seq(Octet)
  BY <1>1, <1>2, SubSeqProperties
<1> QED  BY <1>3 DEF Slice, n

\* A slice is t if it is as long and has its elements.
LEMMA SliceEqual ==
    ASSUME NEW s \in Seq(Octet), NEW t \in Seq(Octet), NEW from \in Nat, NEW to \in Nat,
           to = from + Len(t), to =< Len(s),
           \A i \in 1..Len(t) : s[from + i] = t[i]
    PROVE  Slice(s, from, to) = t
<1>1. from =< to /\ to - from = Len(t)
  OBVIOUS
<1>2. /\ Slice(s, from, to) \in Seq(Octet)
      /\ Len(Slice(s, from, to)) = to - from
      /\ \A i \in 1..(to - from) : Slice(s, from, to)[i] = s[from + i]
  BY <1>1, SliceIs
<1> QED  BY <1>1, <1>2, SeqEqual

-----------------------------------------------------------------------------
(* Packet *)

\* What serialize() makes of a packet, deserialize() takes for that packet.
THEOREM PacketRoundTrip ==
    ASSUME NEW p \in Packets, Len(p.payload) =< MaxPayload
    PROVE  /\ Serialize(p) \in Datagrams
           /\ Deserializes(Serialize(p))
           /\ Deserialize(Serialize(p)) = p
<1>1. p.payload \in Seq(Octet)
  BY DEF Packets
<1>2. Slice(p.payload, 0, Len(p.payload)) = p.payload
  BY <1>1, SliceEqual
<1> DEFINE d == Serialize(p)
<1>3. /\ d.whole /\ d.magic = Magic /\ d.type = p.type /\ d.flags = p.flags
      /\ d.plen = Len(p.payload) /\ d.body = p.payload
  BY DEF Serialize
<1>4. d \in Datagrams
  <2>1. /\ p.type \in Octet /\ p.flags \in Octet /\ Magic \in Octet
        /\ p.payload \in Seq(Octet) /\ Len(p.payload) \in 0..MaxLength
    BY ProtocolAssumption DEF Packets
  <2> QED  BY <2>1 DEF Serialize, Datagrams
<1>5. Deserializes(d)
  BY <1>2, <1>3 DEF Deserializes, Packets
<1>6. Deserialize(d) = [type |-> p.type, flags |-> p.flags, payload |-> p.payload]
  BY <1>2, <1>3 DEF Deserialize
<1>7. p = [type |-> p.type, flags |-> p.flags, payload |-> p.payload]
  BY DEF Packets
<1> QED  BY <1>4, <1>5, <1>6, <1>7

-----------------------------------------------------------------------------
(* The handshake *)

\* A field of n octets is a sequence of length n.
LEMMA Field ==
    ASSUME NEW n \in Nat, NEW s \in Octets(n)
    PROVE  s \in Seq(Octet) /\ Len(s) = n
BY DEF Octets

\* The elements of three sequences one after the other.
LEMMA Three ==
    ASSUME NEW a \in Seq(Octet), NEW b \in Seq(Octet), NEW c \in Seq(Octet)
    PROVE  /\ a \o b \o c \in Seq(Octet)
           /\ Len(a \o b \o c) = Len(a) + Len(b) + Len(c)
           /\ \A i \in 1..Len(a) : (a \o b \o c)[i] = a[i]
           /\ \A i \in 1..Len(b) : (a \o b \o c)[Len(a) + i] = b[i]
           /\ \A i \in 1..Len(c) : (a \o b \o c)[Len(a) + Len(b) + i] = c[i]
<1> DEFINE ab == a \o b
<1>1. /\ ab \in Seq(Octet)
      /\ Len(ab) = Len(a) + Len(b)
      /\ \A i \in 1..(Len(a) + Len(b)) : ab[i] = IF i <= Len(a) THEN a[i] ELSE b[i - Len(a)]
  BY ConcatProperties
<1> HIDE DEF ab
<1>2. /\ ab \o c \in Seq(Octet)
      /\ Len(ab \o c) = Len(ab) + Len(c)
      /\ \A i \in 1..(Len(ab) + Len(c)) :
             (ab \o c)[i] = IF i <= Len(ab) THEN ab[i] ELSE c[i - Len(ab)]
  <2>1. ab \in Seq(Octet)
    BY <1>1
  <2> QED  BY <2>1, ConcatProperties
<1>3. \A i \in 1..Len(a) : (ab \o c)[i] = a[i]
  BY <1>1, <1>2
<1>4. \A i \in 1..Len(b) : (ab \o c)[Len(a) + i] = b[i]
  BY <1>1, <1>2
<1>5. \A i \in 1..Len(c) : (ab \o c)[Len(a) + Len(b) + i] = c[i]
  BY <1>1, <1>2
<1> QED  BY <1>1, <1>2, <1>3, <1>4, <1>5 DEF ab

\* What of a greeting is where in its payload.
LEMMA InitLayout ==
    ASSUME NEW m \in Hellos, Len(Utf8[m.name]) \in Octet
    PROVE  LET s == MakeInit(m).payload
               u == Utf8[m.name] IN
           /\ u \in Seq(Octet)
           /\ s \in Seq(Octet)
           /\ Len(s) = 1 + Len(u) + NonceLen + KeyLen
           /\ s[1] = Len(u)
           /\ \A i \in 1..Len(u) : s[1 + i] = u[i]
           /\ \A i \in 1..NonceLen : s[1 + Len(u) + i] = m.nonce[i]
           /\ \A i \in 1..KeyLen : s[1 + Len(u) + NonceLen + i] = m.key[i]
<1> DEFINE u == Utf8[m.name]
           len == <<Len(u)>>
           a == len \o u
           s == a \o m.nonce \o m.key
<1>1. u \in Seq(Octet)
  BY ProtocolAssumption DEF Hellos
<1>2. /\ m.nonce \in Seq(Octet) /\ Len(m.nonce) = NonceLen
      /\ m.key \in Seq(Octet) /\ Len(m.key) = KeyLen
  BY ProtocolAssumption, Field DEF Hellos
<1>3. /\ a \in Seq(Octet)
      /\ Len(a) = 1 + Len(u)
      /\ a[1] = Len(u)
      /\ \A i \in 1..Len(u) : a[1 + i] = u[i]
  <2>1. len \in Seq(Octet) /\ Len(len) = 1 /\ len[1] = Len(u)
    OBVIOUS
  <2> HIDE DEF u, len
  <2>2. /\ len \o u \in Seq(Octet)
        /\ Len(len \o u) = Len(len) + Len(u)
        /\ \A i \in 1..(Len(len) + Len(u)) :
               (len \o u)[i] = IF i <= Len(len) THEN len[i] ELSE u[i - Len(len)]
    BY <1>1, <2>1, ConcatProperties
  <2> QED  BY <1>1, <2>1, <2>2
<1>4. MakeInit(m).payload = s
  BY DEF MakeInit
<1> HIDE DEF a
<1>5. /\ s \in Seq(Octet)
      /\ Len(s) = Len(a) + NonceLen + KeyLen
      /\ \A i \in 1..Len(a) : s[i] = a[i]
      /\ \A i \in 1..NonceLen : s[Len(a) + i] = m.nonce[i]
      /\ \A i \in 1..KeyLen : s[Len(a) + NonceLen + i] = m.key[i]
  <2> DEFINE n == m.nonce
             k == m.key
  <2>1. a \in Seq(Octet) /\ n \in Seq(Octet) /\ k \in Seq(Octet)
    BY <1>2, <1>3
  <2> HIDE DEF n, k
  <2>2. /\ a \o n \o k \in Seq(Octet)
        /\ Len(a \o n \o k) = Len(a) + Len(n) + Len(k)
        /\ \A i \in 1..Len(a) : (a \o n \o k)[i] = a[i]
        /\ \A i \in 1..Len(n) : (a \o n \o k)[Len(a) + i] = n[i]
        /\ \A i \in 1..Len(k) : (a \o n \o k)[Len(a) + Len(n) + i] = k[i]
    BY <2>1, Three
  <2>3. s = a \o n \o k /\ Len(n) = NonceLen /\ Len(k) = KeyLen
    BY <1>2 DEF n, k
  <2> HIDE DEF s
  <2>4. /\ \A i \in 1..NonceLen : s[Len(a) + i] = n[i]
        /\ \A i \in 1..KeyLen : s[Len(a) + NonceLen + i] = k[i]
    BY <2>2, <2>3
  <2> QED  BY <2>2, <2>3, <2>4 DEF n, k
<1> HIDE DEF s, u
<1>6. /\ Len(s) = 1 + Len(u) + NonceLen + KeyLen
      /\ s[1] = Len(u)
      /\ \A i \in 1..Len(u) : s[1 + i] = u[i]
      /\ \A i \in 1..NonceLen : s[1 + Len(u) + i] = m.nonce[i]
      /\ \A i \in 1..KeyLen : s[1 + Len(u) + NonceLen + i] = m.key[i]
  BY <1>1, <1>3, <1>5, ProtocolAssumption
<1> QED  BY <1>1, <1>4, <1>5, <1>6 DEF u

\* What of a reply is where in its payload.
LEMMA ReplyLayout ==
    ASSUME NEW m \in Replies
    PROVE  LET s == MakeReply(m).payload IN
           /\ s \in Seq(Octet)
           /\ Len(s) = NonceLen + KeyLen + SigLen
           /\ \A i \in 1..NonceLen : s[i] = m.nonce[i]
           /\ \A i \in 1..KeyLen : s[NonceLen + i] = m.key[i]
           /\ \A i \in 1..SigLen : s[NonceLen + KeyLen + i] = m.sig[i]
<1>1. /\ m.nonce \in Seq(Octet) /\ Len(m.nonce) = NonceLen
      /\ m.key \in Seq(Octet) /\ Len(m.key) = KeyLen
      /\ m.sig \in Seq(Octet) /\ Len(m.sig) = SigLen
  BY ProtocolAssumption, Field DEF Replies
<1>2. MakeReply(m).payload = m.nonce \o m.key \o m.sig
  BY DEF MakeReply
<1> DEFINE n == m.nonce
           k == m.key
           g == m.sig
<1>3. n \in Seq(Octet) /\ k \in Seq(Octet) /\ g \in Seq(Octet)
  BY <1>1
<1> HIDE DEF n, k, g
<1>4. /\ n \o k \o g \in Seq(Octet)
      /\ Len(n \o k \o g) = Len(n) + Len(k) + Len(g)
      /\ \A i \in 1..Len(n) : (n \o k \o g)[i] = n[i]
      /\ \A i \in 1..Len(k) : (n \o k \o g)[Len(n) + i] = k[i]
      /\ \A i \in 1..Len(g) : (n \o k \o g)[Len(n) + Len(k) + i] = g[i]
  BY <1>3, Three
<1> DEFINE s == MakeReply(m).payload
<1>5. s = n \o k \o g /\ Len(n) = NonceLen /\ Len(k) = KeyLen /\ Len(g) = SigLen
  BY <1>1, <1>2 DEF n, k, g
<1> HIDE DEF s
<1>6. /\ s \in Seq(Octet)
      /\ Len(s) = NonceLen + KeyLen + SigLen
      /\ \A i \in 1..NonceLen : s[i] = n[i]
      /\ \A i \in 1..KeyLen : s[NonceLen + i] = k[i]
      /\ \A i \in 1..SigLen : s[NonceLen + KeyLen + i] = g[i]
  BY <1>4, <1>5
<1> QED  BY <1>6 DEF n, k, g, s

\* A name that fits comes out of make_handshake_init's packet, with nonce and key, as it
\* went in: the parser accepts it and finds every field where it is.
THEOREM HelloRoundTrip ==
    ASSUME NEW m \in Hellos, Len(Utf8[m.name]) =< MaxName
    PROVE  ParseInit(MakeInit(m)) = m
<1> DEFINE p == MakeInit(m)
           s == p.payload
           u == Utf8[m.name]
           L == Len(u)
<1>1. u \in Seq(Octet) /\ L \in Octet
  BY ProtocolAssumption DEF Hellos, Octet
<1>2. /\ s \in Seq(Octet)
      /\ Len(s) = 1 + L + NonceLen + KeyLen
      /\ s[1] = L
      /\ \A i \in 1..L : s[1 + i] = u[i]
      /\ \A i \in 1..NonceLen : s[1 + L + i] = m.nonce[i]
      /\ \A i \in 1..KeyLen : s[1 + L + NonceLen + i] = m.key[i]
  BY <1>1, InitLayout
<1>3. /\ m.nonce \in Seq(Octet) /\ Len(m.nonce) = NonceLen
      /\ m.key \in Seq(Octet) /\ Len(m.key) = KeyLen
  BY ProtocolAssumption, Field DEF Hellos
<1>4. L \in Nat /\ NonceLen \in Nat /\ KeyLen \in Nat
  BY <1>1, ProtocolAssumption
<1>5. ParsesInit(p)
  BY <1>2, <1>4 DEF ParsesInit
<1> HIDE DEF p, s, u, L
<1>6. NameOctets(p) = u
  <2> DEFINE to == 1 + L
  <2>1. /\ to \in Nat /\ to = 1 + Len(u) /\ to =< Len(s)
        /\ \A i \in 1..Len(u) : s[1 + i] = u[i]
    BY <1>2, <1>4 DEF L
  <2> HIDE DEF to
  <2>2. Slice(s, 1, to) = u
    BY <1>1, <1>2, <2>1, SliceEqual
  <2> QED  BY <1>2, <2>2 DEF NameOctets, to, s
<1>7. Slice(s, 1 + L, 1 + L + NonceLen) = m.nonce
  <2> DEFINE from == 1 + L
             to == 1 + L + NonceLen
  <2>1. /\ from \in Nat /\ to \in Nat /\ to = from + Len(m.nonce) /\ to =< Len(s)
        /\ \A i \in 1..Len(m.nonce) : s[from + i] = m.nonce[i]
    BY <1>2, <1>3, <1>4
  <2> HIDE DEF from, to
  <2>2. Slice(s, from, to) = m.nonce
    BY <1>2, <1>3, <2>1, SliceEqual
  <2> QED  BY <2>2 DEF from, to
<1>8. Slice(s, 1 + L + NonceLen, 1 + L + NonceLen + KeyLen) = m.key
  <2> DEFINE from == 1 + L + NonceLen
             to == 1 + L + NonceLen + KeyLen
  <2>1. /\ from \in Nat /\ to \in Nat /\ to = from + Len(m.key) /\ to =< Len(s)
        /\ \A i \in 1..Len(m.key) : s[from + i] = m.key[i]
    BY <1>2, <1>3, <1>4
  <2> HIDE DEF from, to
  <2>2. Slice(s, from, to) = m.key
    BY <1>2, <1>3, <2>1, SliceEqual
  <2> QED  BY <2>2 DEF from, to
<1>9. NonceOff(p) = 1 + L
  BY <1>2 DEF NonceOff, s
<1>10. m.name \in Names /\ \A n \in Names : Utf8[n] = u => n = m.name
  BY ProtocolAssumption DEF Hellos, u
<1>11. ParseInit(p) = [kind |-> "hello",
                       name |-> CHOOSE n \in Names : Utf8[n] = u,
                       nonce |-> m.nonce, key |-> m.key]
  <2>1. /\ Slice(p.payload, NonceOff(p), NonceOff(p) + NonceLen) = m.nonce
        /\ Slice(p.payload, NonceOff(p) + NonceLen, NonceOff(p) + NonceLen + KeyLen) = m.key
    BY <1>7, <1>8, <1>9 DEF s
  <2>2. \E n \in Names : Utf8[n] = NameOctets(p)
    BY <1>6, <1>10 DEF u
  <2> QED  BY <1>5, <1>6, <2>1, <2>2 DEF ParseInit
<1>12. (CHOOSE n \in Names : Utf8[n] = u) = m.name
  BY <1>10
<1>13. m = [kind |-> "hello", name |-> m.name, nonce |-> m.nonce, key |-> m.key]
  BY DEF Hellos
<1> QED  BY <1>11, <1>12, <1>13 DEF p

\* Nonce, key and signature of a reply come out of make_handshake_reply's packet.
THEOREM ReplyRoundTrip ==
    ASSUME NEW m \in Replies
    PROVE  ParseReply(MakeReply(m)) = m
<1> DEFINE p == MakeReply(m)
           s == p.payload
           n == m.nonce
           k == m.key
           g == m.sig
<1>1. /\ n \in Seq(Octet) /\ Len(n) = NonceLen
      /\ k \in Seq(Octet) /\ Len(k) = KeyLen
      /\ g \in Seq(Octet) /\ Len(g) = SigLen
  BY ProtocolAssumption, Field DEF Replies
<1>2. /\ s \in Seq(Octet)
      /\ Len(s) = NonceLen + KeyLen + SigLen
      /\ \A i \in 1..NonceLen : s[i] = n[i]
      /\ \A i \in 1..KeyLen : s[NonceLen + i] = k[i]
      /\ \A i \in 1..SigLen : s[NonceLen + KeyLen + i] = g[i]
  BY ReplyLayout
<1>3. NonceLen \in Nat /\ KeyLen \in Nat /\ SigLen \in Nat
  BY ProtocolAssumption
<1>4. m = [kind |-> "reply", nonce |-> n, key |-> k, sig |-> g]
  BY DEF Replies
<1> HIDE DEF p, n, k, g, s
<1>5. Slice(s, 0, NonceLen) = n
  <2> DEFINE from == 0
  <2>1. /\ from \in Nat /\ NonceLen = from + Len(n) /\ NonceLen =< Len(s)
        /\ \A i \in 1..Len(n) : s[from + i] = n[i]
    BY <1>1, <1>2, <1>3
  <2> HIDE DEF from
  <2>2. Slice(s, from, NonceLen) = n
    BY <1>1, <1>2, <1>3, <2>1, SliceEqual
  <2> QED  BY <2>2 DEF from
<1>6. Slice(s, NonceLen, NonceLen + KeyLen) = k
  <2> DEFINE to == NonceLen + KeyLen
  <2>1. to \in Nat /\ to = NonceLen + Len(k) /\ to =< Len(s)
    BY <1>1, <1>2, <1>3
  <2> HIDE DEF to
  <2>2. Slice(s, NonceLen, to) = k
    BY <1>1, <1>2, <1>3, <2>1, SliceEqual
  <2> QED  BY <2>2 DEF to
<1>7. Slice(s, NonceLen + KeyLen, NonceLen + KeyLen + SigLen) = g
  <2> DEFINE from == NonceLen + KeyLen
             to == NonceLen + KeyLen + SigLen
  <2>1. /\ from \in Nat /\ to \in Nat /\ to = from + Len(g) /\ to =< Len(s)
        /\ \A i \in 1..Len(g) : s[from + i] = g[i]
    BY <1>1, <1>2, <1>3
  <2> HIDE DEF from, to
  <2>2. Slice(s, from, to) = g
    BY <1>1, <1>2, <2>1, SliceEqual
  <2> QED  BY <2>2 DEF from, to
<1>9. ParsesReply(p)
  BY <1>2, <1>3 DEF ParsesReply, s
<1>10. ParseReply(p) = [kind |-> "reply", nonce |-> n, key |-> k, sig |-> g]
  BY <1>1, <1>5, <1>6, <1>7, <1>9 DEF ParseReply, s
<1> QED  BY <1>4, <1>10 DEF p

\* What parse_handshake_init accepts has all its fields, and make_handshake_init makes the
\* octets of them that the payload begins with.
LEMMA HelloFound ==
    ASSUME NEW p \in Packets, ParseInit(p).kind = "hello"
    PROVE  LET h == ParseInit(p)
               x == MakeInit(h).payload IN
           h \in Hellos /\ Slice(p.payload, 0, Len(x)) = x
<1> DEFINE h == ParseInit(p)
           s == p.payload
           L == s[1]
           x == MakeInit(h).payload
<1>1. s \in Seq(Octet)
  BY DEF Packets
<1>2. ParsesInit(p) /\ \E n \in Names : Utf8[n] = NameOctets(p)
  BY DEF ParseInit, End
<1>3. /\ h.kind = "hello"
      /\ h.name = CHOOSE n \in Names : Utf8[n] = NameOctets(p)
      /\ h.nonce = Slice(s, NonceOff(p), NonceOff(p) + NonceLen)
      /\ h.key = Slice(s, NonceOff(p) + NonceLen, NonceOff(p) + NonceLen + KeyLen)
      /\ h = [kind |-> h.kind, name |-> h.name, nonce |-> h.nonce, key |-> h.key]
  BY <1>2 DEF ParseInit
<1>4. h.name \in Names /\ Utf8[h.name] = NameOctets(p)
  BY <1>2, <1>3
<1>5. L \in Octet /\ L \in Nat /\ NonceLen \in Nat /\ KeyLen \in Nat
  <2>1. MaxOctet \in Nat /\ NonceLen \in Nat /\ KeyLen \in Nat
    BY ProtocolAssumption
  <2>2. Len(s) >= 1
    BY <1>2 DEF ParsesInit
  <2>3. L \in Octet
    BY <1>1, <2>2
  <2> QED
    BY <2>1, <2>3 DEF Octet
<1>6. Len(s) >= 1 + L + NonceLen + KeyLen
  BY <1>2 DEF ParsesInit
<1> HIDE DEF s, h
<1>7. /\ Utf8[h.name] = Slice(s, 1, 1 + L)
      /\ NonceOff(p) = 1 + L
  BY <1>4 DEF NameOctets, NonceOff, s
<1> HIDE DEF L, x
<1>8. /\ Len(Utf8[h.name]) = L
      /\ \A i \in 1..L : Utf8[h.name][i] = s[1 + i]
  <2> DEFINE to == 1 + L
  <2>1. to \in Nat /\ 1 =< to /\ to =< Len(s) /\ to - 1 = L
    BY <1>1, <1>5, <1>6
  <2> HIDE DEF to
  <2>2. /\ Len(Slice(s, 1, to)) = to - 1
        /\ \A i \in 1..(to - 1) : Slice(s, 1, to)[i] = s[1 + i]
    BY <1>1, <2>1, SliceIs
  <2> QED  BY <1>7, <2>1, <2>2 DEF to
<1>9. /\ h.nonce \in Octets(NonceLen)
      /\ \A i \in 1..NonceLen : h.nonce[i] = s[1 + L + i]
  <2> DEFINE from == 1 + L
             to == 1 + L + NonceLen
  <2>1. from \in Nat /\ to \in Nat /\ from =< to /\ to =< Len(s) /\ to - from = NonceLen
    BY <1>1, <1>5, <1>6
  <2> HIDE DEF from, to
  <2>2. /\ Slice(s, from, to) \in Octets(to - from)
        /\ \A i \in 1..(to - from) : Slice(s, from, to)[i] = s[from + i]
    BY <1>1, <2>1, SliceIs
  <2> QED  BY <1>3, <1>7, <2>1, <2>2 DEF from, to
<1>10. /\ h.key \in Octets(KeyLen)
       /\ \A i \in 1..KeyLen : h.key[i] = s[1 + L + NonceLen + i]
  <2> DEFINE from == 1 + L + NonceLen
             to == 1 + L + NonceLen + KeyLen
  <2>1. from \in Nat /\ to \in Nat /\ from =< to /\ to =< Len(s) /\ to - from = KeyLen
    BY <1>1, <1>5, <1>6
  <2> HIDE DEF from, to
  <2>2. /\ Slice(s, from, to) \in Octets(to - from)
        /\ \A i \in 1..(to - from) : Slice(s, from, to)[i] = s[from + i]
    BY <1>1, <2>1, SliceIs
  <2> QED  BY <1>3, <1>7, <2>1, <2>2 DEF from, to
<1>11. h \in Hellos
  BY <1>3, <1>4, <1>9, <1>10 DEF Hellos
<1>12. /\ x \in Seq(Octet)
       /\ Len(x) = 1 + L + NonceLen + KeyLen
       /\ x[1] = L
       /\ \A i \in 1..L : x[1 + i] = Utf8[h.name][i]
       /\ \A i \in 1..NonceLen : x[1 + L + i] = h.nonce[i]
       /\ \A i \in 1..KeyLen : x[1 + L + NonceLen + i] = h.key[i]
  BY <1>5, <1>8, <1>11, InitLayout DEF x
<1>13. \A i \in 1..Len(x) : s[0 + i] = x[i]
  <2> SUFFICES ASSUME NEW i \in 1..Len(x)
               PROVE  s[i] = x[i]
    OBVIOUS
  <2>1. CASE i = 1
    BY <1>12, <2>1 DEF L
  <2>2. CASE i > 1 /\ i =< 1 + L
    <3>1. i - 1 \in 1..L /\ 1 + (i - 1) = i
      BY <1>5, <2>2
    <3> QED  BY <1>8, <1>12, <3>1
  <2>3. CASE i > 1 + L /\ i =< 1 + L + NonceLen
    <3>1. i - (1 + L) \in 1..NonceLen /\ 1 + L + (i - (1 + L)) = i
      BY <1>5, <2>3
    <3> QED  BY <1>9, <1>12, <3>1
  <2>4. CASE i > 1 + L + NonceLen
    <3>1. i - (1 + L + NonceLen) \in 1..KeyLen /\ 1 + L + NonceLen + (i - (1 + L + NonceLen)) = i
      BY <1>5, <1>12, <2>4
    <3> QED  BY <1>10, <1>12, <3>1
  <2> QED  BY <1>5, <2>1, <2>2, <2>3, <2>4
<1>14. Slice(s, 0, Len(x)) = x
  <2> DEFINE from == 0
             to == Len(x)
  <2>1. /\ from \in Nat /\ to \in Nat /\ to = from + Len(x) /\ to =< Len(s)
        /\ \A i \in 1..Len(x) : s[from + i] = x[i]
    BY <1>1, <1>5, <1>6, <1>12, <1>13
  <2> HIDE DEF from, to
  <2>2. Slice(s, from, to) = x
    BY <1>1, <1>12, <2>1, SliceEqual
  <2> QED  BY <2>2 DEF from, to
<1> QED  BY <1>11, <1>14 DEF h, x, s

\* The same of parse_handshake_reply and make_handshake_reply.
LEMMA ReplyFound ==
    ASSUME NEW p \in Packets, ParseReply(p).kind = "reply"
    PROVE  LET h == ParseReply(p)
               x == MakeReply(h).payload IN
           h \in Replies /\ Slice(p.payload, 0, Len(x)) = x
<1> DEFINE h == ParseReply(p)
           s == p.payload
           x == MakeReply(h).payload
<1>1. s \in Seq(Octet)
  BY DEF Packets
<1>2. ParsesReply(p)
  BY DEF ParseReply, End
<1>3. /\ h.kind = "reply"
      /\ h.nonce = Slice(s, 0, NonceLen)
      /\ h.key = Slice(s, NonceLen, NonceLen + KeyLen)
      /\ h.sig = Slice(s, NonceLen + KeyLen, NonceLen + KeyLen + SigLen)
      /\ h = [kind |-> h.kind, nonce |-> h.nonce, key |-> h.key, sig |-> h.sig]
  BY <1>2 DEF ParseReply
<1>4. NonceLen \in Nat /\ KeyLen \in Nat /\ SigLen \in Nat
  BY ProtocolAssumption
<1>5. Len(s) >= NonceLen + KeyLen + SigLen
  BY <1>2 DEF ParsesReply
<1> HIDE DEF s, h, x
<1>6. /\ h.nonce \in Octets(NonceLen)
      /\ \A i \in 1..NonceLen : h.nonce[i] = s[i]
  <2> DEFINE from == 0
  <2>1. from \in Nat /\ from =< NonceLen /\ NonceLen =< Len(s) /\ NonceLen - from = NonceLen
    BY <1>1, <1>4, <1>5
  <2> HIDE DEF from
  <2>2. /\ Slice(s, from, NonceLen) \in Octets(NonceLen - from)
        /\ \A i \in 1..(NonceLen - from) : Slice(s, from, NonceLen)[i] = s[from + i]
    BY <1>1, <1>4, <2>1, SliceIs
  <2> QED  BY <1>3, <2>1, <2>2 DEF from
<1>7. /\ h.key \in Octets(KeyLen)
      /\ \A i \in 1..KeyLen : h.key[i] = s[NonceLen + i]
  <2> DEFINE to == NonceLen + KeyLen
  <2>1. to \in Nat /\ NonceLen =< to /\ to =< Len(s) /\ to - NonceLen = KeyLen
    BY <1>1, <1>4, <1>5
  <2> HIDE DEF to
  <2>2. /\ Slice(s, NonceLen, to) \in Octets(to - NonceLen)
        /\ \A i \in 1..(to - NonceLen) : Slice(s, NonceLen, to)[i] = s[NonceLen + i]
    BY <1>1, <1>4, <2>1, SliceIs
  <2> QED  BY <1>3, <2>1, <2>2 DEF to
<1>8. /\ h.sig \in Octets(SigLen)
      /\ \A i \in 1..SigLen : h.sig[i] = s[NonceLen + KeyLen + i]
  <2> DEFINE from == NonceLen + KeyLen
             to == NonceLen + KeyLen + SigLen
  <2>1. from \in Nat /\ to \in Nat /\ from =< to /\ to =< Len(s) /\ to - from = SigLen
    BY <1>1, <1>4, <1>5
  <2> HIDE DEF from, to
  <2>2. /\ Slice(s, from, to) \in Octets(to - from)
        /\ \A i \in 1..(to - from) : Slice(s, from, to)[i] = s[from + i]
    BY <1>1, <2>1, SliceIs
  <2> QED  BY <1>3, <2>1, <2>2 DEF from, to
<1>9. h \in Replies
  BY <1>3, <1>6, <1>7, <1>8 DEF Replies
<1>10. /\ x \in Seq(Octet)
       /\ Len(x) = NonceLen + KeyLen + SigLen
       /\ \A i \in 1..NonceLen : x[i] = h.nonce[i]
       /\ \A i \in 1..KeyLen : x[NonceLen + i] = h.key[i]
       /\ \A i \in 1..SigLen : x[NonceLen + KeyLen + i] = h.sig[i]
  BY <1>9, ReplyLayout DEF x
<1>11. \A i \in 1..Len(x) : s[i] = x[i]
  <2> SUFFICES ASSUME NEW i \in 1..Len(x)
               PROVE  s[i] = x[i]
    OBVIOUS
  <2>1. CASE i =< NonceLen
    BY <1>4, <1>6, <1>10, <2>1
  <2>2. CASE i > NonceLen /\ i =< NonceLen + KeyLen
    <3>1. i - NonceLen \in 1..KeyLen /\ NonceLen + (i - NonceLen) = i
      BY <1>4, <2>2
    <3> QED  BY <1>7, <1>10, <3>1
  <2>3. CASE i > NonceLen + KeyLen
    <3>1. /\ i - (NonceLen + KeyLen) \in 1..SigLen
          /\ NonceLen + KeyLen + (i - (NonceLen + KeyLen)) = i
      BY <1>4, <1>10, <2>3
    <3> QED  BY <1>8, <1>10, <3>1
  <2> QED  BY <1>4, <2>1, <2>2, <2>3
<1>12. Slice(s, 0, Len(x)) = x
  <2> DEFINE from == 0
             to == Len(x)
  <2>1. /\ from \in Nat /\ to \in Nat /\ to = from + Len(x) /\ to =< Len(s)
        /\ \A i \in 1..Len(x) : s[from + i] = x[i]
    BY <1>1, <1>4, <1>5, <1>10, <1>11
  <2> HIDE DEF from, to
  <2>2. Slice(s, from, to) = x
    BY <1>1, <1>10, <2>1, SliceEqual
  <2> QED  BY <2>2 DEF from, to
<1> QED  BY <1>9, <1>12 DEF h, x, s

-----------------------------------------------------------------------------
(* The exchange *)

\* The datagram on the way is the serialisation of what its sender was given, and the
\* client lets no name on the way that is too long.
OnTheWay ==
    /\ sent \in Hellos => /\ Len(Utf8[sent.name]) =< MaxName
                          /\ wire = Serialize(MakeInit(sent))
    /\ sent \in Replies => wire = Serialize(MakeReply(sent))
    /\ sent = Nothing => got = Nothing

ProtocolIInv ==
    /\ connected \in BOOLEAN
    /\ sent \in Hellos \cup Replies \cup {Nothing, Stranger}
    /\ wire \in Datagrams
    /\ OnTheWay
    /\ Understood
    /\ NothingInvented

\* The makers' packets can be serialised.
LEMMA HelloFits ==
    ASSUME NEW m \in Hellos, Len(Utf8[m.name]) =< MaxName
    PROVE  MakeInit(m) \in Packets /\ Len(MakeInit(m).payload) =< MaxPayload
<1>1. Utf8[m.name] \in Seq(Octet) /\ Len(Utf8[m.name]) \in Octet
  BY ProtocolAssumption DEF Hellos, Octet
<1>2. /\ MakeInit(m).payload \in Seq(Octet)
      /\ Len(MakeInit(m).payload) = 1 + Len(Utf8[m.name]) + NonceLen + KeyLen
  BY <1>1, InitLayout
<1>3. MakeInit(m) \in Packets
  <2>1. HandshakeInit \in Types /\ Priority \in Octet
    BY ProtocolAssumption
  <2> QED  BY <1>2, <2>1 DEF MakeInit, Packets
<1>4. Len(MakeInit(m).payload) =< MaxPayload
  BY <1>1, <1>2, ProtocolAssumption DEF Octet
<1> QED  BY <1>3, <1>4

LEMMA ReplyFits ==
    ASSUME NEW m \in Replies
    PROVE  MakeReply(m) \in Packets /\ Len(MakeReply(m).payload) =< MaxPayload
<1>1. /\ MakeReply(m).payload \in Seq(Octet)
      /\ Len(MakeReply(m).payload) = NonceLen + KeyLen + SigLen
  BY ReplyLayout
<1>2. HandshakeReply \in Types /\ Priority \in Octet
  BY ProtocolAssumption
<1>3. MakeReply(m) \in Packets
  BY <1>1, <1>2 DEF MakeReply, Packets
<1> QED  BY <1>1, <1>3, ProtocolAssumption

\* What deserialize accepts is a packet, whose payload is as long as the header says.
LEMMA PacketFound ==
    ASSUME NEW d \in Datagrams, Deserializes(d)
    PROVE  /\ Deserialize(d) \in Packets
           /\ Deserialize(d).payload = Slice(d.body, 0, d.plen)
           /\ Len(Deserialize(d).payload) = d.plen
<1>1. /\ d.flags \in Octet /\ d.body \in Seq(Octet)
      /\ d.plen \in 0..MaxLength /\ d.type \in Types
  BY DEF Datagrams, Deserializes
<1>2. d.plen \in Nat
  BY <1>1, ProtocolAssumption
<1>3. Slice(d.body, 0, d.plen) \in Seq(Octet)
  BY <1>1, <1>2, SliceType
<1> QED  BY <1>1, <1>3 DEF Deserialize, Packets, Deserializes

\* The kinds tell apart what is sent and what is received.
LEMMA Kinds ==
    /\ \A m \in Hellos : m.kind = "hello"
    /\ \A m \in Replies : m.kind = "reply"
    /\ \A kind : End(kind).kind = kind
    /\ Nothing.kind = "nothing" /\ Stranger.kind = "stranger"
BY DEF Hellos, Replies, End, Nothing, Stranger

LEMMA ProtocolInitOK == ProtocolInit => ProtocolIInv
<1> SUFFICES ASSUME ProtocolInit PROVE ProtocolIInv
  OBVIOUS
<1>1. Empty \in Datagrams
  BY ProtocolAssumption DEF Empty, Datagrams, Octet
<1>2. sent \notin Hellos /\ sent \notin Replies
  BY Kinds DEF ProtocolInit
<1> QED  BY <1>1, <1>2, Kinds DEF ProtocolInit, ProtocolIInv, OnTheWay, Understood, NothingInvented

\* A datagram that sets out.
LEMMA SendOK ==
    ASSUME ProtocolIInv, Quiet, NEW m \in Hellos \cup Replies \cup {Stranger},
           NEW d \in Datagrams, Send(m, d),
           m \in Hellos => Len(Utf8[m.name]) =< MaxName /\ d = Serialize(MakeInit(m)),
           m \in Replies => d = Serialize(MakeReply(m))
    PROVE  ProtocolIInv'
<1>1. sent' = m /\ wire' = d /\ got' = Nothing /\ connected' = connected
  BY DEF Send, Quiet
<1>2. m # Nothing
  BY Kinds
<1> QED  BY <1>1, <1>2, Kinds DEF ProtocolIInv, OnTheWay, Understood, NothingInvented

LEMMA ClientGreetsOK == ProtocolIInv /\ ClientGreets => ProtocolIInv'
<1> SUFFICES ASSUME ProtocolIInv, ClientGreets PROVE ProtocolIInv'
  OBVIOUS
<1>1. PICK m \in Hellos : Len(Utf8[m.name]) =< MaxName /\ Send(m, Serialize(MakeInit(m)))
  BY DEF ClientGreets
<1>2. Serialize(MakeInit(m)) \in Datagrams
  BY <1>1, HelloFits, PacketRoundTrip
<1>3. m \notin Replies
  BY Kinds
<1> QED  BY <1>1, <1>2, <1>3, SendOK DEF ClientGreets

LEMMA ServerRepliesOK == ProtocolIInv /\ ServerReplies => ProtocolIInv'
<1> SUFFICES ASSUME ProtocolIInv, ServerReplies PROVE ProtocolIInv'
  OBVIOUS
<1>1. PICK m \in Replies : Send(m, Serialize(MakeReply(m)))
  BY DEF ServerReplies
<1>2. Serialize(MakeReply(m)) \in Datagrams
  BY ReplyFits, PacketRoundTrip
<1>3. m \notin Hellos
  BY Kinds
<1> QED  BY <1>1, <1>2, <1>3, SendOK DEF ServerReplies

LEMMA StrangerSendsOK == ProtocolIInv /\ StrangerSends => ProtocolIInv'
<1> SUFFICES ASSUME ProtocolIInv, StrangerSends PROVE ProtocolIInv'
  OBVIOUS
<1>1. PICK d \in Foreign : Send(Stranger, d)
  BY DEF StrangerSends
<1>2. d \in Datagrams
  BY ProtocolAssumption
<1>3. Stranger \notin Hellos /\ Stranger \notin Replies
  BY Kinds
<1> QED  BY <1>1, <1>2, <1>3, SendOK DEF StrangerSends

\* A greeting is taken for what it was, and whatever the server takes for one was in the datagram.
LEMMA ServerReceivesOK == ProtocolIInv /\ ServerReceives => ProtocolIInv'
<1> SUFFICES ASSUME ProtocolIInv, ServerReceives PROVE ProtocolIInv'
  OBVIOUS
<1> DEFINE p == Deserialize(wire)
<1>1. /\ sent \in Hellos \cup {Stranger}
      /\ sent' = sent /\ wire' = wire /\ connected' = connected
      /\ wire \in Datagrams
  BY DEF ServerReceives, ProtocolIInv
<1>2. sent # Nothing /\ sent \notin Replies
  BY <1>1, Kinds
<1>3. OnTheWay'
  BY <1>1, <1>2 DEF ProtocolIInv, OnTheWay
<1>4. Understood'
  <2>1. CASE sent \in Hellos
    <3>1. Len(Utf8[sent.name]) =< MaxName /\ wire = Serialize(MakeInit(sent))
      BY <2>1 DEF ProtocolIInv, OnTheWay
    <3>2. /\ Deserializes(wire) /\ Deserialize(wire) = MakeInit(sent)
      BY <2>1, <3>1, HelloFits, PacketRoundTrip
    <3>3. ParseInit(MakeInit(sent)) = sent
      BY <2>1, <3>1, HelloRoundTrip
    <3>4. MakeInit(sent).type = HandshakeInit
      BY DEF MakeInit
    <3>5. got' = sent
      BY <3>2, <3>3, <3>4 DEF ServerReceives
    <3> QED  BY <1>1, <3>5 DEF Understood
  <2>2. CASE sent = Stranger
    BY <1>1, <2>2, Kinds DEF Understood
  <2> QED  BY <1>1, <2>1, <2>2
<1>5. NothingInvented'
  <2>1. CASE ~Deserializes(wire) \/ p.type # HandshakeInit
    <3>1. got'.kind \in {"ProtocolError", "passed over"}
      BY <2>1, Kinds DEF ServerReceives
    <3> QED  BY <3>1 DEF NothingInvented
  <2>2. CASE Deserializes(wire) /\ p.type = HandshakeInit
    <3>1. got' = ParseInit(p)
      BY <2>2 DEF ServerReceives
    <3>2. p \in Packets /\ p.payload = Slice(wire.body, 0, wire.plen)
      BY <1>1, <2>2, PacketFound
    <3>3. got'.kind \in {"hello", "ProtocolError", "UnicodeDecodeError"}
      BY <3>1, Kinds DEF ParseInit
    <3>4. got'.kind = "hello" =>
              /\ got' \in Hellos
              /\ LET x == MakeInit(got').payload IN Slice(p.payload, 0, Len(x)) = x
      BY <3>1, <3>2, HelloFound
    <3> QED  BY <1>1, <3>2, <3>3, <3>4 DEF NothingInvented
  <2> QED  BY <2>1, <2>2
<1> QED  BY <1>1, <1>3, <1>4, <1>5 DEF ProtocolIInv

\* The same of the client, with replies and frames.
LEMMA ClientReceivesOK == ProtocolIInv /\ ClientReceives => ProtocolIInv'
<1> SUFFICES ASSUME ProtocolIInv, ClientReceives PROVE ProtocolIInv'
  OBVIOUS
<1> DEFINE p == Deserialize(wire)
<1>1. /\ sent \in Replies \cup {Stranger}
      /\ sent' = sent /\ wire' = wire
      /\ wire \in Datagrams
      /\ connected \in BOOLEAN /\ connected' \in BOOLEAN
      /\ connected => connected'
  BY DEF ClientReceives, ProtocolIInv
<1>2. sent # Nothing /\ sent \notin Hellos
  BY <1>1, Kinds
<1>3. OnTheWay'
  BY <1>1, <1>2 DEF ProtocolIInv, OnTheWay
<1>4. Understood'
  <2>1. CASE sent \in Replies
    <3>1. wire = Serialize(MakeReply(sent))
      BY <2>1 DEF ProtocolIInv, OnTheWay
    <3>2. /\ Deserializes(wire) /\ Deserialize(wire) = MakeReply(sent)
      BY <2>1, <3>1, ReplyFits, PacketRoundTrip
    <3>3. ParseReply(MakeReply(sent)) = sent
      BY <2>1, ReplyRoundTrip
    <3>4. MakeReply(sent).type = HandshakeReply /\ HandshakeReply # Data
      BY ProtocolAssumption DEF MakeReply
    <3>5. CASE ~connected
      <4>1. got' = sent
        BY <3>2, <3>3, <3>4, <3>5 DEF ClientReceives
      <4> QED  BY <1>1, <4>1 DEF Understood
    <3>6. CASE connected
      <4>1. got' = End("passed over")
        BY <3>2, <3>4, <3>6 DEF ClientReceives
      <4> QED  BY <1>1, <2>1, <3>6, <4>1 DEF Understood
    <3> QED  BY <3>5, <3>6
  <2>2. CASE sent = Stranger
    BY <1>1, <2>2, Kinds DEF Understood
  <2> QED  BY <1>1, <2>1, <2>2
<1>5. NothingInvented'
  <2>1. CASE ~Deserializes(wire) \/ got' = End("passed over")
    <3>1. got'.kind \in {"ProtocolError", "passed over"}
      BY <2>1, Kinds DEF ClientReceives
    <3> QED  BY <3>1 DEF NothingInvented
  <2>2. CASE Deserializes(wire) /\ got' # End("passed over")
    <3>1. /\ p \in Packets /\ p.payload = Slice(wire.body, 0, wire.plen)
          /\ Len(p.payload) = wire.plen
      BY <1>1, <2>2, PacketFound
    <3>2. \/ got' = ParseReply(p)
          \/ got' = [kind |-> "frame", payload |-> p.payload]
      BY <2>2 DEF ClientReceives
    <3>3. CASE got' = ParseReply(p)
      <4>1. got'.kind \in {"reply", "ProtocolError"}
        BY <3>3, Kinds DEF ParseReply
      <4>2. got'.kind = "reply" =>
                /\ got' \in Replies
                /\ LET x == MakeReply(got').payload IN Slice(p.payload, 0, Len(x)) = x
        BY <3>1, <3>3, ReplyFound
      <4> QED  BY <1>1, <3>1, <4>1, <4>2 DEF NothingInvented
    <3>4. CASE got' = [kind |-> "frame", payload |-> p.payload]
      <4>1. got'.kind = "frame" /\ got'.payload = p.payload
        BY <3>4
      <4> QED  BY <1>1, <3>1, <4>1 DEF NothingInvented
    <3> QED  BY <3>2, <3>3, <3>4
  <2> QED  BY <2>1, <2>2
<1> QED  BY <1>1, <1>3, <1>4, <1>5 DEF ProtocolIInv

LEMMA ForgetOK == ProtocolIInv /\ Forget => ProtocolIInv'
<1> SUFFICES ASSUME ProtocolIInv, Forget PROVE ProtocolIInv'
  OBVIOUS
<1>1. sent' = Nothing /\ wire' = Empty /\ got' = Nothing /\ connected' = connected
  BY DEF Forget
<1>2. Empty \in Datagrams
  BY ProtocolAssumption DEF Empty, Datagrams, Octet
<1>3. Nothing \notin Hellos /\ Nothing \notin Replies
  BY Kinds
<1> QED  BY <1>1, <1>2, <1>3, Kinds DEF ProtocolIInv, OnTheWay, Understood, NothingInvented

LEMMA ProtocolNextOK == ProtocolIInv /\ [ProtocolNext]_protocolVars => ProtocolIInv'
<1> SUFFICES ASSUME ProtocolIInv, [ProtocolNext]_protocolVars PROVE ProtocolIInv'
  OBVIOUS
<1>1. CASE UNCHANGED protocolVars
  BY <1>1 DEF protocolVars, ProtocolIInv, OnTheWay, Understood, NothingInvented
<1> QED  BY <1>1, ClientGreetsOK, ServerRepliesOK, StrangerSendsOK, ServerReceivesOK,
            ClientReceivesOK, ForgetOK DEF ProtocolNext

\* What one end puts into a handshake the other takes out, for every name that fits.
THEOREM HandshakesUnderstood == ProtocolSpec => []Understood
<1>1. ProtocolIInv => Understood
  BY DEF ProtocolIInv
<1> QED  BY <1>1, ProtocolInitOK, ProtocolNextOK, PTL DEF ProtocolSpec

\* Whatever a stranger sends, an end takes out of it only what is in it.
THEOREM ParsersInventNothing == ProtocolSpec => []NothingInvented
<1>1. ProtocolIInv => NothingInvented
  BY DEF ProtocolIInv
<1> QED  BY <1>1, ProtocolInitOK, ProtocolNextOK, PTL DEF ProtocolSpec
=============================================================================
