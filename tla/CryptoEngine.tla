---------------------------- MODULE CryptoEngine ----------------------------
(***************************************************************************)
(* Two CryptoEngines (vortexvpn/core/crypto.py) that derive their keys from *)
(* the same secret, salt and nonces, as README.md says the two ends of the *)
(* tunnel do, and the C++ accelerator (cpp_module/vortex_accel.cpp) each    *)
(* of them may use.  The frames they seal travel over a network that loses, *)
(* repeats, reorders, reflects and damages them.                           *)
(***************************************************************************)
EXTENDS Integers, Sequences

CONSTANTS HasAccel,   \* _HAS_ACCEL: the accelerator can be imported
          NonceLimit, \* the first counter to_bytes(12) cannot hold (2^96)
          MaxBases,   \* bound on the handshakes
          MaxSeals,   \* bound on the frames sealed
          MaxOpens    \* bound on the frames each side opens successfully

ASSUME EngineAssumption ==
    HasAccel \in BOOLEAN /\ {NonceLimit, MaxBases, MaxSeals, MaxOpens} \subseteq Nat

VARIABLES tx, rx,     \* _tx_key and _rx_key of each engine
          ctr,        \* _tx_ctr
          accel,      \* _use_accel
          base,       \* the handshake the keys were derived from, 0 before the first
          up,         \* the process the engine lives in is up
          sealed,     \* every frame sealed so far: the network can deliver any of them
          seals,      \* how many that are
          got         \* got[p]: history, the plaintexts p's open() returned, in order

engineVars == <<tx, rx, ctr, accel, base, up, sealed, seals, got>>

Peers == {"client", "server"}

\* base[:K] is half 1 and base[K:] half 2 of the derived key material; a handshake
\* has its own secret and salt, so the material of two handshakes never agrees.
NoKey == [base |-> 0, half |-> 0]
Key(b, h) == [base |-> b, half |-> h]
Keys == {NoKey} \cup [base : 1..MaxBases, half : 1..2]

SameHalf(p) == 1
TxHalf(p) == IF p = "client" THEN 2 ELSE 1
RxHalf(p) == IF p = "client" THEN 1 ELSE 2

Frames == [key : Keys, nonce : 0..NonceLimit, id : 1..MaxSeals, by : Peers]

EngineTypeOK ==
    /\ tx \in [Peers -> Keys]
    /\ rx \in [Peers -> Keys]
    /\ ctr \in [Peers -> 0..NonceLimit]
    /\ accel \in [Peers -> BOOLEAN]
    /\ base \in [Peers -> 0..MaxBases]
    /\ up \in [Peers -> BOOLEAN]
    /\ sealed \subseteq Frames
    /\ seals \in 0..MaxSeals
    /\ got \in [Peers -> Seq(1..MaxSeals)]

EngineInit ==
    /\ tx = [p \in Peers |-> NoKey]
    /\ rx = [p \in Peers |-> NoKey]
    /\ ctr = [p \in Peers |-> 0]
    /\ accel = [p \in Peers |-> HasAccel]
    /\ base = [p \in Peers |-> 0]
    /\ up = [p \in Peers |-> TRUE]
    /\ sealed = {}
    /\ seals = 0
    /\ got = [p \in Peers |-> <<>>]

\* derive_session_keys, with the material of p's next handshake: the role picks the
\* halves, and the counter starts over.  A new session has a new engine, which has
\* another go at the accelerator; the client derives in the engine it has.
Derive(p) ==
    /\ up[p]
    /\ base[p] < MaxBases
    /\ base' = [base EXCEPT ![p] = @ + 1]
    /\ tx' = [tx EXCEPT ![p] = Key(base[p] + 1, TxHalf(p))]
    /\ rx' = [rx EXCEPT ![p] = Key(base[p] + 1, RxHalf(p))]
    /\ ctr' = [ctr EXCEPT ![p] = 0]
    /\ \E on \in {accel[p], HasAccel} : accel' = [accel EXCEPT ![p] = on]
    /\ UNCHANGED <<up, sealed, seals, got>>

\* An attempt at the accelerator leaves it on, or raises and turns it off for good.
AccelAfterAttempt(p) == IF accel[p] THEN BOOLEAN ELSE {FALSE}

Frame(p) == [key |-> tx[p], nonce |-> ctr[p], id |-> seals + 1, by |-> p]

SealCountsOnSuccess(p) ==
    /\ up[p]
    /\ tx[p] # NoKey
    /\ ctr[p] < NonceLimit
    /\ seals < MaxSeals
    /\ \E on \in AccelAfterAttempt(p) :
          /\ accel' = [accel EXCEPT ![p] = on]
          /\ ctr' = [ctr EXCEPT ![p] = IF accel[p] /\ ~on THEN @ ELSE @ + 1]
    /\ sealed' = sealed \cup {Frame(p)}
    /\ seals' = seals + 1
    /\ UNCHANGED <<tx, rx, base, up, got>>

SealPastTheLimit(p) ==
    /\ up[p]
    /\ tx[p] # NoKey
    /\ seals < MaxSeals
    /\ \E on \in AccelAfterAttempt(p) : accel' = [accel EXCEPT ![p] = on]
    /\ ctr' = [ctr EXCEPT ![p] = @ + 1]
    /\ sealed' = sealed \cup {Frame(p)}
    /\ seals' = seals + 1
    /\ UNCHANGED <<tx, rx, base, up, got>>

\* seal(): the nonce is the counter, which is counted up before anything is tried; the
\* accelerator's failure makes the backend seal under the same nonce, and nothing of
\* the failed attempt leaves the engine.  A counter that does not fit into 12 bytes
\* raises OverflowError and stays what it is.
Seal(p) ==
    /\ up[p]
    /\ tx[p] # NoKey
    /\ ctr[p] < NonceLimit
    /\ seals < MaxSeals
    /\ \E on \in AccelAfterAttempt(p) : accel' = [accel EXCEPT ![p] = on]
    /\ ctr' = [ctr EXCEPT ![p] = @ + 1]
    /\ sealed' = sealed \cup {Frame(p)}
    /\ seals' = seals + 1
    /\ UNCHANGED <<tx, rx, base, up, got>>

\* open() of an undamaged frame sealed under the key p receives with: by the
\* accelerator, or after its failure by the backend.  The counter of received frames
\* is not looked at.
OpenGood(p) ==
    /\ up[p]
    /\ Len(got[p]) < MaxOpens
    /\ \E f \in sealed : /\ f.key = rx[p]
                         /\ got' = [got EXCEPT ![p] = Append(@, f.id)]
    /\ \E on \in AccelAfterAttempt(p) : accel' = [accel EXCEPT ![p] = on]
    /\ UNCHANGED <<tx, rx, ctr, base, up, sealed, seals>>

\* open() of any other frame: a damaged one, one of another session, one of p's own
\* that came back.  The accelerator's failure to authenticate counts as a failure of
\* the accelerator, and the backend raises CryptoError.  aes_gcm_decrypt frees its
\* cipher context before it throws and again in its catch block: the process may
\* survive the double free or not.
OpenBad(p) ==
    /\ up[p]
    /\ rx[p] # NoKey
    /\ accel' = [accel EXCEPT ![p] = FALSE]
    /\ \E alive \in IF accel[p] THEN BOOLEAN ELSE {TRUE} : up' = [up EXCEPT ![p] = alive]
    /\ UNCHANGED <<tx, rx, ctr, base, sealed, seals, got>>

EngineNext == \E p \in Peers : Derive(p) \/ Seal(p) \/ OpenGood(p) \/ OpenBad(p)

EngineSpec == EngineInit /\ [][EngineNext]_engineVars

-----------------------------------------------------------------------------
(* Properties *)

\* No key ever seals two frames under one nonce: not when the accelerator fails halfway,
\* not when the keys are derived anew, not at the end of the counter.
NonceOnce ==
    \A f, g \in sealed : f.key = g.key /\ f.nonce = g.nonce => f = g

\* The messages p has sent.
Sent == [p \in Peers |-> {f.id : f \in {g \in sealed : g.by = p}}]

Channel == INSTANCE AuthChannel WITH sent <- Sent, Messages <- 1..MaxSeals

\* The engines are an authenticated channel: what open() returns was sealed by the other
\* peer, never by the one that opens it, whatever the accelerator does.
ChannelSpec == Channel!Spec

=============================================================================
