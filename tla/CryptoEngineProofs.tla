------------------------- MODULE CryptoEngineProofs -------------------------
(***************************************************************************)
(* Theorems about CryptoEngine, for any bounds.                            *)
(***************************************************************************)
EXTENDS CryptoEngine, TLAPS

\* The keys of each engine are those of its handshake and its role; what was sealed so
\* far was sealed under the sender's keys, and under its present ones with a nonce the
\* counter has passed.
KeysOfRole ==
    \A p \in Peers :
        /\ tx[p] = IF base[p] = 0 THEN NoKey ELSE Key(base[p], TxHalf(p))
        /\ rx[p] = IF base[p] = 0 THEN NoKey ELSE Key(base[p], RxHalf(p))

SealedBefore(f) ==
    /\ f.id <= seals
    /\ f.key.half = TxHalf(f.by)
    /\ f.key.base \in 1..base[f.by]
    /\ f.key.base = base[f.by] => f.nonce < ctr[f.by]

EngineIInv == /\ EngineTypeOK
              /\ KeysOfRole
              /\ \A f \in sealed : SealedBefore(f)
              /\ NonceOnce

LEMMA Numbers == HasAccel \in BOOLEAN /\ NonceLimit \in Nat /\ MaxBases \in Nat
                    /\ MaxSeals \in Nat /\ MaxOpens \in Nat
BY EngineAssumption

LEMMA EngineInitInv == EngineInit => EngineIInv
<1> SUFFICES ASSUME EngineInit PROVE EngineIInv
  OBVIOUS
<1>1. accel \in [Peers -> BOOLEAN] /\ up \in [Peers -> BOOLEAN]
  BY Numbers, Zenon DEF EngineInit
<1> QED
  BY <1>1, Numbers
     DEF EngineInit, EngineIInv, EngineTypeOK, KeysOfRole, NonceOnce, Keys, NoKey

\* What a successful seal adds was sealed by p under its present key, with a nonce that
\* no frame under that key has.
LEMMA FreshFrame ==
    ASSUME EngineIInv, NEW p \in Peers, tx[p] # NoKey, ctr[p] < NonceLimit,
           seals < MaxSeals
    PROVE  /\ Frame(p) \in Frames
           /\ Frame(p).key = Key(base[p], TxHalf(p))
           /\ base[p] \in 1..MaxBases
           /\ \A f \in sealed : ~(f.key = Frame(p).key /\ f.nonce = Frame(p).nonce)
<1> USE Numbers DEF EngineIInv, EngineTypeOK
<1>1. base[p] \in 1..MaxBases /\ tx[p] = Key(base[p], TxHalf(p))
  BY DEF KeysOfRole
<1>2. Frame(p) \in Frames
  BY <1>1 DEF Frame, Frames
<1>3. ASSUME NEW f \in sealed, f.key = tx[p], f.nonce = ctr[p]
      PROVE  FALSE
  <2>1. f.by \in Peers /\ f.nonce \in Nat
    BY DEF Frames
  <2>2. f.key.half = TxHalf(p) /\ f.key.base = base[p]
    BY <1>1, <1>3 DEF Key
  <2>3. f.by = p
    BY <2>1, <2>2 DEF SealedBefore, TxHalf, Peers
  <2>4. f.nonce < ctr[p]
    BY <2>2, <2>3 DEF SealedBefore
  <2> QED
    BY <2>4, <1>3, <2>1
<1> QED
  BY <1>1, <1>2, <1>3 DEF Frame

LEMMA EngineStepInv == EngineIInv /\ [EngineNext]_engineVars => EngineIInv'
<1> SUFFICES ASSUME EngineIInv, [EngineNext]_engineVars PROVE EngineIInv'
  OBVIOUS
<1> USE Numbers
<1>1. ASSUME NEW p \in Peers, Derive(p) PROVE EngineIInv'
  <2>1. accel' \in [Peers -> BOOLEAN]
    BY <1>1, Zenon DEF Derive, EngineIInv, EngineTypeOK
  <2>2. /\ base' = [base EXCEPT ![p] = base[p] + 1]
        /\ tx' = [tx EXCEPT ![p] = Key(base[p] + 1, TxHalf(p))]
        /\ rx' = [rx EXCEPT ![p] = Key(base[p] + 1, RxHalf(p))]
        /\ ctr' = [ctr EXCEPT ![p] = 0]
        /\ base[p] + 1 \in 1..MaxBases
        /\ UNCHANGED <<up, sealed, seals, got>>
    BY <1>1 DEF Derive, EngineIInv, EngineTypeOK
  <2>3. EngineTypeOK'
    BY <2>1, <2>2 DEF EngineIInv, EngineTypeOK, Keys, Key, TxHalf, RxHalf
  <2>4. KeysOfRole'
    BY <2>2 DEF EngineIInv, EngineTypeOK, KeysOfRole
  <2>5. ASSUME NEW f \in sealed PROVE SealedBefore(f)'
    <3>1. SealedBefore(f) /\ f.by \in Peers
      BY DEF EngineIInv, EngineTypeOK, Frames
    <3> QED
      BY <2>2, <3>1 DEF SealedBefore, EngineIInv, EngineTypeOK
  <2> QED
    BY <2>2, <2>3, <2>4, <2>5 DEF EngineIInv, NonceOnce
<1>2. ASSUME NEW p \in Peers, Seal(p) PROVE EngineIInv'
  <2>1. accel' \in [Peers -> BOOLEAN]
    BY <1>2, Zenon DEF Seal, AccelAfterAttempt, EngineIInv, EngineTypeOK
  <2>2. /\ tx[p] # NoKey /\ ctr[p] < NonceLimit /\ seals < MaxSeals
        /\ ctr' = [ctr EXCEPT ![p] = ctr[p] + 1]
        /\ sealed' = sealed \cup {Frame(p)}
        /\ seals' = seals + 1
        /\ UNCHANGED <<tx, rx, base, up, got>>
    BY <1>2 DEF Seal
  <2>3. /\ Frame(p) \in Frames
        /\ Frame(p).key = Key(base[p], TxHalf(p))
        /\ base[p] \in 1..MaxBases
        /\ \A f \in sealed : ~(f.key = Frame(p).key /\ f.nonce = Frame(p).nonce)
    BY <2>2, FreshFrame
  <2>4. EngineTypeOK'
    BY <2>1, <2>2, <2>3 DEF EngineIInv, EngineTypeOK
  <2>5. KeysOfRole'
    BY <2>2 DEF EngineIInv, KeysOfRole
  <2>6. ASSUME NEW f \in sealed' PROVE SealedBefore(f)'
    <3>1. CASE f \in sealed
      <4>1. SealedBefore(f) /\ f.by \in Peers /\ f.nonce \in Nat /\ f.id \in Nat
        BY <3>1 DEF EngineIInv, EngineTypeOK, Frames
      <4>2. ctr[f.by] \in Nat /\ ctr'[f.by] \in Nat /\ ctr'[f.by] >= ctr[f.by]
        BY <2>2, <4>1 DEF EngineIInv, EngineTypeOK
      <4>3. f.id <= seals + 1 /\ seals \in Nat
        BY <4>1 DEF SealedBefore, EngineIInv, EngineTypeOK
      <4>4. f.key.base = base[f.by] => f.nonce < ctr'[f.by]
        BY <4>1, <4>2 DEF SealedBefore
      <4> QED
        BY <2>2, <4>1, <4>3, <4>4 DEF SealedBefore
    <3>2. CASE f = Frame(p)
      <4>1. f.id = seals + 1 /\ f.by = p /\ f.nonce = ctr[p]
        BY <3>2 DEF Frame
      <4>2. f.key.half = TxHalf(p) /\ f.key.base = base[p]
        BY <2>3, <3>2 DEF Key
      <4> QED
        BY <2>2, <2>3, <4>1, <4>2 DEF SealedBefore, EngineIInv, EngineTypeOK
    <3> QED
      BY <2>2, <3>1, <3>2
  <2>7. NonceOnce'
    BY <2>2, <2>3 DEF EngineIInv, NonceOnce
  <2> QED
    BY <2>4, <2>5, <2>6, <2>7 DEF EngineIInv
<1>3. ASSUME NEW p \in Peers, OpenGood(p) PROVE EngineIInv'
  <2>1. accel' \in [Peers -> BOOLEAN]
    BY <1>3, Zenon DEF OpenGood, AccelAfterAttempt, EngineIInv, EngineTypeOK
  <2>2. PICK f \in sealed : got' = [got EXCEPT ![p] = Append(got[p], f.id)]
    BY <1>3 DEF OpenGood
  <2>3. UNCHANGED <<tx, rx, ctr, base, up, sealed, seals>>
    BY <1>3 DEF OpenGood
  <2>4. got' \in [Peers -> Seq(1..MaxSeals)]
    <3>1. Append(got[p], f.id) \in Seq(1..MaxSeals)
      BY DEF EngineIInv, EngineTypeOK, Frames
    <3> QED
      BY <2>2, <3>1 DEF EngineIInv, EngineTypeOK
  <2>5. EngineTypeOK'
    BY <2>1, <2>3, <2>4 DEF EngineIInv, EngineTypeOK
  <2> QED
    BY <2>3, <2>5 DEF EngineIInv, KeysOfRole, SealedBefore, NonceOnce
<1>4. ASSUME NEW p \in Peers, OpenBad(p) PROVE EngineIInv'
  <2>1. accel' \in [Peers -> BOOLEAN] /\ up' \in [Peers -> BOOLEAN]
    BY <1>4, Zenon DEF OpenBad, EngineIInv, EngineTypeOK
  <2>2. UNCHANGED <<tx, rx, ctr, base, sealed, seals, got>>
    BY <1>4 DEF OpenBad
  <2> QED
    BY <2>1, <2>2 DEF EngineIInv, EngineTypeOK, KeysOfRole, SealedBefore, NonceOnce
<1>5. CASE UNCHANGED engineVars
  BY <1>5 DEF engineVars, EngineIInv, EngineTypeOK, KeysOfRole, SealedBefore, NonceOnce
<1> QED
  BY <1>1, <1>2, <1>3, <1>4, <1>5 DEF EngineNext

\* Counters, keys and sealed frames fit together in every state.
THEOREM EngineInductive == EngineSpec => []EngineIInv
<1> QED
  BY EngineInitInv, EngineStepInv, PTL DEF EngineSpec

\* The counter never passes what fits into a nonce, and a key is always half of the material
\* of one handshake.
THEOREM EngineTypeCorrect == EngineSpec => []EngineTypeOK
<1>1. EngineIInv => EngineTypeOK
  BY DEF EngineIInv
<1> QED
  BY EngineInductive, <1>1, PTL

\* No nonce is ever used twice under one key, by either side, across accelerator
\* failures, new handshakes and the end of the counter.
THEOREM NoncesUnique == EngineSpec => []NonceOnce
<1>1. EngineIInv => NonceOnce
  BY DEF EngineIInv
<1> QED
  BY EngineInductive, <1>1, PTL

-----------------------------------------------------------------------------
(* The engines implement the authenticated channel. *)

\* Whoever sealed a frame p can open is the other peer: p seals with the other half.
LEMMA OpensOthers ==
    ASSUME EngineIInv, NEW p \in Peers, NEW f \in sealed, f.key = rx[p]
    PROVE  f.by \in Peers \ {p}
<1>1. f.by \in Peers /\ f.key.half = TxHalf(f.by) /\ f.key.base \in 1..base[f.by]
  BY DEF EngineIInv, EngineTypeOK, Frames, SealedBefore
<1>2. rx[p] # NoKey
  <2>1. base[f.by] \in Nat
    BY <1>1, Numbers DEF EngineIInv, EngineTypeOK
  <2> QED
    BY <1>1, <2>1 DEF NoKey
<1>3. f.key.half = RxHalf(p)
  <2>1. rx[p] = Key(base[p], RxHalf(p))
    BY <1>2 DEF EngineIInv, KeysOfRole
  <2> QED
    BY <2>1 DEF Key, RxHalf
<1> QED
  BY <1>1, <1>3 DEF TxHalf, RxHalf, Peers

LEMMA SealSends ==
    ASSUME EngineIInv, NEW p \in Peers, Seal(p)
    PROVE  Channel!Send(p)
<1> USE Numbers
<1>1. /\ seals < MaxSeals
      /\ sealed' = sealed \cup {Frame(p)}
      /\ UNCHANGED got
  BY DEF Seal
<1>2. seals \in Nat /\ seals + 1 \in 1..MaxSeals
  BY <1>1 DEF EngineIInv, EngineTypeOK
<1>3. \A q \in Peers : seals + 1 \notin Sent[q]
  <2>1. \A f \in sealed : f.id \in Nat /\ f.id <= seals
    BY DEF EngineIInv, EngineTypeOK, SealedBefore, Frames
  <2> QED
    BY <2>1, <1>2 DEF Sent
<1>4. Sent' = [Sent EXCEPT ![p] = Sent[p] \cup {seals + 1}]
  <2>1. Frame(p).id = seals + 1 /\ Frame(p).by = p
    BY DEF Frame
  <2>2. ASSUME NEW q \in Peers
        PROVE  Sent'[q] = IF q = p THEN Sent[q] \cup {seals + 1} ELSE Sent[q]
    BY <1>1, <2>1 DEF Sent
  <2>3. Sent' = [q \in Peers |-> Sent'[q]] /\ Sent = [q \in Peers |-> Sent[q]]
    BY DEF Sent
  <2> QED
    BY <2>2, <2>3
<1> QED
  BY <1>1, <1>2, <1>3, <1>4 DEF Channel!Send

LEMMA OpenReceives ==
    ASSUME EngineIInv, NEW p \in Peers, OpenGood(p)
    PROVE  Channel!Receive(p)
<1>1. PICK f \in sealed : f.key = rx[p] /\ got' = [got EXCEPT ![p] = Append(got[p], f.id)]
  BY DEF OpenGood
<1>2. f.by \in Peers \ {p} /\ f.id \in Sent[f.by]
  BY <1>1, OpensOthers DEF Sent
<1>3. Sent' = Sent
  BY DEF OpenGood, Sent
<1> QED
  BY <1>1, <1>2, <1>3 DEF Channel!Receive

\* What open() returns was sealed by the other side: the two engines implement the
\* authenticated channel, for any number of handshakes, frames and accelerator failures.
THEOREM EnginesImplementChannel == EngineSpec => ChannelSpec
<1>1. EngineInit => Channel!Init
  BY DEF EngineInit, Channel!Init, Sent
<1>2. EngineIInv /\ [EngineNext]_engineVars => [Channel!Next]_(Channel!channelVars)
  <2> SUFFICES ASSUME EngineIInv, [EngineNext]_engineVars
               PROVE  [Channel!Next]_(Channel!channelVars)
    OBVIOUS
  <2> USE DEF Channel!Next, Channel!channelVars
  <2>1. ASSUME NEW p \in Peers, Derive(p) PROVE [Channel!Next]_(Channel!channelVars)
    BY <2>1 DEF Derive, Sent
  <2>2. ASSUME NEW p \in Peers, Seal(p) PROVE [Channel!Next]_(Channel!channelVars)
    BY <2>2, SealSends
  <2>3. ASSUME NEW p \in Peers, OpenGood(p) PROVE [Channel!Next]_(Channel!channelVars)
    BY <2>3, OpenReceives
  <2>4. ASSUME NEW p \in Peers, OpenBad(p) PROVE [Channel!Next]_(Channel!channelVars)
    BY <2>4 DEF OpenBad, Sent
  <2>5. CASE UNCHANGED engineVars
    BY <2>5 DEF engineVars, Sent
  <2> QED
    BY <2>1, <2>2, <2>3, <2>4, <2>5 DEF EngineNext
<1> QED
  BY <1>1, <1>2, EngineInductive, PTL DEF EngineSpec, ChannelSpec, Channel!Spec
=============================================================================
