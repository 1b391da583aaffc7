---------------------------- MODULE TunnelProofs ----------------------------
(***************************************************************************)
(* Theorems about TunnelServer, for any number of addresses, any pool of   *)
(* distinct virtual IPs, and any limits, and then about Tunnel, for any    *)
(* number of clients, sessions and losses.                                 *)
(***************************************************************************)
EXTENDS Tunnel, FiniteSetTheorems, TLAPS

-----------------------------------------------------------------------------
(* The server.  IInv is its inductive invariant: the properties themselves plus *)
(* what the reaper's timer guarantees.                                          *)

\* Between two passes a session's age and the rest of the reaper's sleep add up
\* to no more than the limit and one sleep; within a pass the sessions that stay
\* are within the limit; before start() has finished nobody has an age.
ReaperOnTime ==
    /\ status = "new" => live = {}
    /\ status \in {"new", "listening"} =>
           /\ reaper = "none"
           /\ pc \in {"idle", "data"}
           /\ \A a \in live : age[a] = 0
    /\ status = "running" => reaper = "asleep"
    /\ reaper = "asleep" => \A a \in live : age[a] + sleep <= IdleLimit + ReapPeriod
    /\ pc = "reap" => /\ reaper = "asleep"
                      /\ sleep = 0
                      /\ \A a \in live \ todo : age[a] <= IdleLimit

IInv == /\ TypeOK
        /\ PoolSound
        /\ MaxClientsEnforced
        /\ ReapsOnlyIdle
        /\ ReaperOnTime

-----------------------------------------------------------------------------
(* What list.pop(0) and list.append do to the contents of the pool *)

LEMMA PopFacts ==
    ASSUME NEW S, NEW s \in Seq(S), s # <<>>, IsInjective(s)
    PROVE  /\ Tail(s) \in Seq(S)
           /\ Head(s) \in Range(s)
           /\ IsInjective(Tail(s))
           /\ Range(Tail(s)) = Range(s) \ {Head(s)}
<1>1. /\ Len(s) \in Nat \ {0}
      /\ DOMAIN s = 1..Len(s)
      /\ Head(s) = s[1]
      /\ Tail(s) \in Seq(S)
      /\ DOMAIN Tail(s) = 1..(Len(s) - 1)
      /\ \A i \in 1..(Len(s) - 1) : Tail(s)[i] = s[i + 1]
  OBVIOUS
<1>2. Head(s) \in Range(s)
  BY <1>1 DEF Range
<1>3. IsInjective(Tail(s))
  <2> SUFFICES ASSUME NEW i \in 1..(Len(s) - 1), NEW j \in 1..(Len(s) - 1),
                      Tail(s)[i] = Tail(s)[j]
               PROVE  i = j
    BY <1>1 DEF IsInjective
  <2>1. s[i + 1] = s[j + 1]
    BY <1>1
  <2>2. i + 1 = j + 1
    BY <1>1, <2>1 DEF IsInjective
  <2> QED
    BY <2>2, <1>1
<1>4. ASSUME NEW x \in Range(Tail(s)) PROVE x \in Range(s) \ {Head(s)}
  <2>1. PICK i \in 1..(Len(s) - 1) : x = s[i + 1]
    BY <1>1 DEF Range
  <2>2. i + 1 \in 1..Len(s) /\ i + 1 # 1
    BY <1>1
  <2> QED
    BY <2>1, <2>2, <1>1 DEF Range, IsInjective
<1>5. ASSUME NEW x \in Range(s) \ {Head(s)} PROVE x \in Range(Tail(s))
  <2>1. PICK i \in 1..Len(s) : x = s[i]
    BY <1>1 DEF Range
  <2>2. i - 1 \in 1..(Len(s) - 1) /\ (i - 1) + 1 = i
    BY <2>1, <1>1
  <2> QED
    BY <2>1, <2>2, <1>1 DEF Range
<1> QED
  BY <1>1, <1>2, <1>3, <1>4, <1>5

LEMMA AppendFacts ==
    ASSUME NEW S, NEW s \in Seq(S), NEW x \in S
    PROVE  /\ Append(s, x) \in Seq(S)
           /\ Range(Append(s, x)) = Range(s) \cup {x}
           /\ IsInjective(s) /\ x \notin Range(s) => IsInjective(Append(s, x))
<1> DEFINE t == Append(s, x)
<1>1. /\ Len(s) \in Nat
      /\ DOMAIN s = 1..Len(s)
      /\ t \in Seq(S)
      /\ DOMAIN t = 1..(Len(s) + 1)
      /\ \A i \in 1..Len(s) : t[i] = s[i]
      /\ t[Len(s) + 1] = x
  OBVIOUS
<1> HIDE DEF t
<1>2. Range(t) = Range(s) \cup {x}
  <2>1. ASSUME NEW y \in Range(t) PROVE y \in Range(s) \cup {x}
    BY <1>1 DEF Range
  <2>2. ASSUME NEW y \in Range(s) \cup {x} PROVE y \in Range(t)
    BY <1>1 DEF Range
  <2> QED
    BY <2>1, <2>2
<1>3. ASSUME IsInjective(s), x \notin Range(s) PROVE IsInjective(t)
  <2> SUFFICES ASSUME NEW i \in 1..(Len(s) + 1), NEW j \in 1..(Len(s) + 1),
                      t[i] = t[j]
               PROVE  i = j
    BY <1>1 DEF IsInjective
  <2>1. CASE i = Len(s) + 1 \/ j = Len(s) + 1
    BY <2>1, <1>1, <1>3 DEF Range
  <2>2. CASE i \in 1..Len(s) /\ j \in 1..Len(s)
    BY <2>2, <1>1, <1>3 DEF IsInjective
  <2> QED
    BY <2>1, <2>2, <1>1
<1> QED
  BY <1>1, <1>2, <1>3 DEF t

-----------------------------------------------------------------------------
(* Types *)

LEMMA TableFinite ==
    ASSUME TypeOK
    PROVE  /\ IsFiniteSet(live)
           /\ Cardinality(live) \in Nat
BY ServerAssumption, FS_Subset, FS_CardinalityType DEF TypeOK

LEMMA TypeInit == Init => TypeOK
<1> SUFFICES ASSUME Init PROVE TypeOK
  OBVIOUS
<1>1. pool \in Seq(IPs)
  BY ServerAssumption DEF Init, IPs
<1>2. age \in [Addr -> 0..MaxAge] /\ sleep \in 0..ReapPeriod
  BY ServerAssumption DEF Init, MaxAge
<1>3. view \in [Viewers -> Int]
  BY DEF Init, NoView
<1>4. vip \in [Addr -> IPs \cup {NoIP}]
  BY DEF Init
<1> QED
  BY <1>1, <1>2, <1>3, <1>4 DEF Init, TypeOK

LEMMA TypeStep == TypeOK /\ [Next]_vars => TypeOK'
<1> SUFFICES ASSUME TypeOK, [Next]_vars PROVE TypeOK'
  OBVIOUS
<1> USE ServerAssumption DEF TypeOK, timeVars, loopVars
<1>1. CASE StartListening
  BY <1>1 DEF StartListening
<1>2. CASE StartRunning
  <2>1. tun' \in BOOLEAN
    BY <1>2, Zenon DEF StartRunning
  <2> QED
    BY <1>2, <2>1 DEF StartRunning
<1>3. CASE StartFails
  BY <1>3 DEF StartFails
<1>4. CASE Stop
  BY <1>4 DEF Stop
<1>5. CASE HandleData
  BY <1>5 DEF HandleData, MaxAge
<1>6. CASE TunEnd
  BY <1>6 DEF TunEnd
<1>7. CASE ReapEnd
  BY <1>7 DEF ReapEnd
<1>8. ASSUME NEW a \in Addr, TunSend(a) PROVE TypeOK'
  BY <1>8 DEF TunSend
<1>9. ASSUME NEW a \in Addr, ReapStep(a) PROVE TypeOK'
  <2>1. vip[a] # NoIP => Append(pool, vip[a]) \in Seq(IPs)
    OBVIOUS
  <2> QED
    BY <1>9, <2>1 DEF ReapStep, Dropped, MaxAge
<1>10. CASE ReapBegin
  BY <1>10 DEF ReapBegin
<1>11. CASE TunReadable
  BY <1>11 DEF TunReadable
<1>12. CASE Tick
  <2>1. age' \in [Addr -> 0..MaxAge]
    BY <1>12 DEF Tick, MaxAge
  <2>2. sleep' \in 0..ReapPeriod
    BY <1>12 DEF Tick
  <2> QED
    BY <1>12, <2>1, <2>2 DEF Tick
<1>13. ASSUME NEW a \in Addr, Handshake(a) PROVE TypeOK'
  <2>1. pool # <<>> => Head(pool) \in IPs /\ Tail(pool) \in Seq(IPs)
    OBVIOUS
  <2>2. LeasedIP \in IPs \cup {NoIP} /\ PoolAfterLease \in Seq(IPs)
    BY <2>1 DEF LeasedIP, PoolAfterLease
  <2> QED
    BY <1>13, <2>2 DEF Handshake, MaxAge
<1>14. ASSUME NEW a \in Addr, DatagramKnown(a) PROVE TypeOK'
  BY <1>14 DEF DatagramKnown
<1>15. ASSUME NEW a \in Addr, Kick(a) PROVE TypeOK'
  BY <1>15 DEF Kick, MaxAge
<1>16. ASSUME NEW v \in Viewers, StatsBegin(v) PROVE TypeOK'
  BY <1>16, TableFinite DEF StatsBegin
<1>17. ASSUME NEW v \in Viewers, StatsRaises(v) \/ StatsReturns(v) PROVE TypeOK'
  BY <1>17 DEF StatsRaises, StatsReturns, NoView
<1>18. CASE UNCHANGED vars
  BY <1>18 DEF vars
<1> QED
  BY <1>1, <1>2, <1>3, <1>4, <1>5, <1>6, <1>7, <1>8, <1>9, <1>10, <1>11, <1>12,
     <1>13, <1>14, <1>15, <1>16, <1>17, <1>18 DEF Next, Lifecycle, Callback

\* Every variable keeps its type in every reachable state.
THEOREM TypeCorrect == Spec => []TypeOK
<1> QED
  BY TypeInit, TypeStep, PTL DEF Spec

-----------------------------------------------------------------------------
(* The pool and the leases *)

\* A step that shrinks the set of holders, keeps their virtual IPs and keeps the
\* pool, keeps the pool sound.
LEMMA PoolKept ==
    ASSUME PoolSound,
           Holders' \subseteq Holders,
           \A a \in Holders' : vip'[a] = vip[a],
           pool' = pool
    PROVE  PoolSound'
BY DEF PoolSound

LEMMA PoolStep == IInv /\ [Next]_vars => PoolSound'
<1> SUFFICES ASSUME IInv, [Next]_vars PROVE PoolSound'
  OBVIOUS
<1> USE DEF IInv, timeVars, loopVars
<1>1. CASE Lifecycle
  BY <1>1, PoolKept
     DEF Lifecycle, StartListening, StartRunning, StartFails, Stop, Holders
<1>2. CASE HandleData \/ TunEnd \/ TunReadable \/ ReapBegin \/ ReapEnd
  BY <1>2, PoolKept
     DEF HandleData, TunEnd, TunReadable, ReapBegin, ReapEnd, Holders
<1>3. ASSUME NEW a \in Addr, TunSend(a) PROVE PoolSound'
  BY <1>3, PoolKept DEF TunSend, Holders
<1>4. ASSUME NEW a \in Addr, ReapStep(a) PROVE PoolSound'
  <2>1. vip \in [Addr -> IPs \cup {NoIP}] /\ pool \in Seq(IPs)
    BY DEF TypeOK
  <2>2. Holders' = Holders \ {a} /\ \A b \in Holders' : vip'[b] = vip[b]
    BY <1>4, <2>1 DEF ReapStep, Dropped, Holders, TypeOK
  <2>3. CASE vip[a] = NoIP
    BY <1>4, <2>2, <2>3, PoolKept DEF ReapStep
  <2>4. CASE vip[a] # NoIP
    <3>1. a \in Holders /\ vip[a] \in IPs
      BY <1>4, <2>1, <2>4 DEF ReapStep, Holders
    <3>2. pool' = Append(pool, vip[a])
      BY <1>4, <2>4 DEF ReapStep
    <3>3. Range(pool') = Range(pool) \cup {vip[a]} /\ IsInjective(pool')
      BY <2>1, <3>1, <3>2, AppendFacts DEF PoolSound
    <3> QED
      BY <2>2, <3>1, <3>3 DEF PoolSound
  <2> QED
    BY <2>3, <2>4
<1>5. CASE Tick
  BY <1>5, PoolKept DEF Tick, Holders
<1>6. ASSUME NEW a \in Addr, Handshake(a) PROVE PoolSound'
  <2>1. vip \in [Addr -> IPs \cup {NoIP}] /\ pool \in Seq(IPs) /\ a \notin Holders
    BY <1>6 DEF TypeOK, Handshake, Receiving, Holders
  <2>2. \A b \in Holders' \ {a} : b \in Holders /\ vip'[b] = vip[b]
    BY <1>6, <2>1 DEF Handshake, Receiving, Holders
  <2>3. vip'[a] = LeasedIP /\ pool' = PoolAfterLease
    BY <1>6, <2>1 DEF Handshake
  <2>4. CASE pool = <<>>
    <3>1. a \notin Holders' /\ pool' = pool
      BY <2>3, <2>4 DEF LeasedIP, PoolAfterLease, Holders
    <3> QED
      BY <2>2, <3>1, PoolKept
  <2>5. CASE pool # <<>>
    <3>1. vip'[a] = Head(pool) /\ pool' = Tail(pool)
      BY <2>3, <2>5 DEF LeasedIP, PoolAfterLease
    <3>2. /\ Head(pool) \in Range(pool)
          /\ IsInjective(pool')
          /\ Range(pool') = Range(pool) \ {Head(pool)}
      BY <2>1, <2>5, <3>1, PopFacts DEF PoolSound
    <3>3. \A b \in Holders' \ {a} : vip'[b] # Head(pool)
      BY <2>2, <3>2 DEF PoolSound
    <3> QED
      BY <2>2, <3>1, <3>2, <3>3 DEF PoolSound
  <2> QED
    BY <2>4, <2>5
<1>7. ASSUME NEW a \in Addr, DatagramKnown(a) PROVE PoolSound'
  BY <1>7, PoolKept DEF DatagramKnown, Receiving, Holders
<1>8. ASSUME NEW a \in Addr, Kick(a) PROVE PoolSound'
  BY <1>8, PoolKept DEF Kick, Holders, TypeOK
<1>9. ASSUME NEW v \in Viewers, StatsBegin(v) \/ StatsRaises(v) \/ StatsReturns(v)
      PROVE  PoolSound'
  BY <1>9, PoolKept DEF StatsBegin, StatsRaises, StatsReturns, Holders
<1>10. CASE UNCHANGED vars
  BY <1>10, PoolKept DEF vars, Holders
<1> QED
  BY <1>1, <1>2, <1>3, <1>4, <1>5, <1>6, <1>7, <1>8, <1>9, <1>10
     DEF Next, Lifecycle, Callback

-----------------------------------------------------------------------------
(* The limit on clients *)

LEMMA LimitStep == IInv /\ [Next]_vars => MaxClientsEnforced'
<1> SUFFICES ASSUME IInv, [Next]_vars PROVE MaxClientsEnforced'
  OBVIOUS
<1>1. IsFiniteSet(live) /\ Cardinality(live) \in Nat
  BY TableFinite DEF IInv
<1>2. CASE live' \subseteq live
  <2>1. IsFiniteSet(live') /\ Cardinality(live') <= Cardinality(live)
    BY <1>1, <1>2, FS_Subset
  <2>2. Cardinality(live') \in Nat
    BY <2>1, FS_CardinalityType
  <2> QED
    BY <1>1, <2>1, <2>2, ServerAssumption DEF IInv, MaxClientsEnforced
<1>3. ASSUME NEW a \in Addr, Handshake(a) PROVE MaxClientsEnforced'
  <2>1. a \notin live /\ live' = live \cup {a} /\ Cardinality(live) < MaxClients
    BY <1>3 DEF Handshake, HasRoom
  <2>2. Cardinality(live') = Cardinality(live) + 1
    BY <1>1, <2>1, FS_AddElement
  <2> QED
    BY <1>1, <2>1, <2>2, ServerAssumption DEF MaxClientsEnforced
<1>4. live' \subseteq live \/ \E a \in Addr : Handshake(a)
  BY DEF Next, vars, timeVars, loopVars, Lifecycle, Callback, StartListening,
         StartRunning, StartFails, Stop, HandleData, TunEnd, ReapEnd, TunSend,
         ReapStep, ReapBegin, TunReadable, Tick, DatagramKnown, Kick,
         StatsBegin, StatsRaises, StatsReturns
<1> QED
  BY <1>2, <1>3, <1>4

-----------------------------------------------------------------------------
(* The reaper's timing *)

LEMMA ReaperStep == IInv /\ [Next]_vars => ReapsOnlyIdle' /\ ReaperOnTime'
<1> SUFFICES ASSUME IInv, [Next]_vars PROVE ReapsOnlyIdle' /\ ReaperOnTime'
  OBVIOUS
<1> USE ServerAssumption
    DEF IInv, TypeOK, ReapsOnlyIdle, ReaperOnTime, Expired, timeVars, loopVars
<1>1. CASE StartListening
  BY <1>1 DEF StartListening
<1>2. CASE StartRunning
  BY <1>2 DEF StartRunning
<1>3. CASE StartFails
  BY <1>3 DEF StartFails
<1>4. CASE Stop
  BY <1>4 DEF Stop
<1>5. CASE HandleData
  <2>1. \A a \in live' : age'[a] <= age[a]
    BY <1>5 DEF HandleData, MaxAge
  <2>2. \A a \in live' : age[a] = 0 => age'[a] = 0
    BY <1>5 DEF HandleData
  <2>3. live' = live /\ pc' = "idle" /\ UNCHANGED <<status, reaper, sleep>>
    BY <1>5 DEF HandleData
  <2>4. \A a \in live' : age[a] \in Nat /\ age'[a] \in Nat /\ sleep \in Nat
    BY <1>5 DEF HandleData, MaxAge
  <2> HIDE DEF HandleData
  <2> QED
    BY <2>1, <2>2, <2>3, <2>4
<1>6. CASE TunEnd
  BY <1>6 DEF TunEnd
<1>7. CASE ReapEnd
  BY <1>7 DEF ReapEnd, MaxAge
<1>8. ASSUME NEW a \in Addr, TunSend(a) PROVE ReapsOnlyIdle' /\ ReaperOnTime'
  BY <1>8 DEF TunSend
<1>9. ASSUME NEW a \in Addr, ReapStep(a) PROVE ReapsOnlyIdle' /\ ReaperOnTime'
  BY <1>9 DEF ReapStep, Dropped, MaxAge
<1>10. CASE ReapBegin
  BY <1>10 DEF ReapBegin, MaxAge
<1>11. CASE TunReadable
  BY <1>11 DEF TunReadable
<1>12. CASE Tick
  <2>1. \A a \in live : age'[a] <= age[a] + 1 /\ age'[a] \in Nat /\ age[a] \in Nat
    BY <1>12 DEF Tick, MaxAge
  <2>2. reaper = "asleep" => sleep' = sleep - 1
    BY <1>12 DEF Tick
  <2>3. /\ pc = "idle"
        /\ status # "listening"
        /\ sleep \in Nat /\ sleep' \in Nat
        /\ UNCHANGED <<live, status, reaper, pc, todo>>
    BY <1>12 DEF Tick
  <2> HIDE DEF Tick
  <2>4. ReapsOnlyIdle'
    BY <2>3
  <2>5. reaper = "asleep" =>
           \A a \in live : age'[a] + sleep' <= IdleLimit + ReapPeriod
    BY <2>1, <2>2, <2>3
  <2> QED
    BY <2>3, <2>4, <2>5
<1>13. ASSUME NEW a \in Addr, Handshake(a) PROVE ReapsOnlyIdle' /\ ReaperOnTime'
  BY <1>13 DEF Handshake, Receiving, MaxAge
<1>14. ASSUME NEW a \in Addr, DatagramKnown(a)
       PROVE  ReapsOnlyIdle' /\ ReaperOnTime'
  BY <1>14 DEF DatagramKnown, Receiving
<1>15. ASSUME NEW a \in Addr, Kick(a) PROVE ReapsOnlyIdle' /\ ReaperOnTime'
  BY <1>15 DEF Kick, MaxAge
<1>16. ASSUME NEW v \in Viewers, StatsBegin(v) \/ StatsRaises(v) \/ StatsReturns(v)
       PROVE  ReapsOnlyIdle' /\ ReaperOnTime'
  BY <1>16 DEF StatsBegin, StatsRaises, StatsReturns
<1>17. CASE UNCHANGED vars
  BY <1>17 DEF vars
<1> QED
  BY <1>1, <1>2, <1>3, <1>4, <1>5, <1>6, <1>7, <1>8, <1>9, <1>10, <1>11, <1>12,
     <1>13, <1>14, <1>15, <1>16, <1>17 DEF Next, Lifecycle, Callback

-----------------------------------------------------------------------------
(* The invariant, and what follows from it *)

LEMMA IInvInit == Init => IInv
<1> SUFFICES ASSUME Init PROVE IInv
  OBVIOUS
<1>1. TypeOK
  BY TypeInit
<1>2. PoolSound
  BY ServerAssumption DEF Init, PoolSound, Holders
<1>3. MaxClientsEnforced
  BY FS_EmptySet, ServerAssumption DEF Init, MaxClientsEnforced
<1>4. ReapsOnlyIdle /\ ReaperOnTime
  BY DEF Init, ReapsOnlyIdle, ReaperOnTime
<1> QED
  BY <1>1, <1>2, <1>3, <1>4 DEF IInv

LEMMA IInvStep == IInv /\ [Next]_vars => IInv'
BY TypeStep, PoolStep, LimitStep, ReaperStep DEF IInv

\* The inductive invariant holds in every state, whatever callbacks and threads interleave.
THEOREM Inductive == Spec => []IInv
<1> QED
  BY IInvInit, IInvStep, PTL DEF Spec

LEMMA IInvImplies == IInv => NoSharedIP /\ IdleSessionsGone
<1> SUFFICES ASSUME IInv PROVE NoSharedIP /\ IdleSessionsGone
  OBVIOUS
<1>1. NoSharedIP
  BY DEF IInv, PoolSound, NoSharedIP, Holders
<1>2. ASSUME status = "running", NEW a \in live
      PROVE  age[a] <= IdleLimit + ReapPeriod
  <2>1. age[a] + sleep <= IdleLimit + ReapPeriod
    BY <1>2 DEF IInv, ReaperOnTime
  <2>2. age[a] \in Nat /\ sleep \in Nat
    BY ServerAssumption DEF IInv, TypeOK, MaxAge
  <2> QED
    BY <2>1, <2>2, ServerAssumption
<1> QED
  BY <1>1, <1>2 DEF IdleSessionsGone

\* No two sessions ever share a virtual IP, and the pool is never left with one
\* that is in use or listed twice, whatever kicks and reaper passes interleave.
THEOREM VirtualIPsSafe == Spec => []NoSharedIP /\ []PoolSound
<1>1. IInv => PoolSound
  BY DEF IInv
<1> QED
  BY Inductive, IInvImplies, <1>1, PTL

\* The pool is never left with an address that is in use or listed twice.
THEOREM PoolStaysSound == Spec => []PoolSound
<1> QED
  BY VirtualIPsSafe, PTL

\* The table never holds more than max_clients sessions.
THEOREM LimitKept == Spec => []MaxClientsEnforced
<1>1. IInv => MaxClientsEnforced
  BY DEF IInv
<1> QED
  BY Inductive, <1>1, PTL

\* The reaper only ever drops idle sessions, and drops them in time.
THEOREM ReaperCorrect == Spec => []ReapsOnlyIdle /\ []IdleSessionsGone
<1>1. IInv => ReapsOnlyIdle
  BY DEF IInv
<1> QED
  BY Inductive, IInvImplies, <1>1, PTL

\* No session of a running server outlives its last datagram by more than the limit and one
\* sleep of the reaper.
THEOREM IdleOnesGo == Spec => []IdleSessionsGone
<1> QED
  BY ReaperCorrect, PTL

-----------------------------------------------------------------------------
(* The abstract specification *)

\* The refinement mapping of Lease.
LeaseHolder == [a \in Addr |-> IF a \in live THEN vip[a] ELSE NoIP]

LEMMA LeaseInit == Init => Lease!Init
BY DEF Init, Lease!Init, IPs

LEMMA LeaseStep == IInv /\ [Next]_vars => [Lease!Next]_(Lease!leaseVars)
<1> SUFFICES ASSUME IInv, [Next]_vars PROVE [Lease!Next]_(Lease!leaseVars)
  OBVIOUS
<1> USE DEF timeVars, loopVars
<1> DEFINE Stutter == Range(pool') = Range(pool) /\ LeaseHolder' = LeaseHolder
<1>t. /\ vip \in [Addr -> IPs \cup {NoIP}]
      /\ pool \in Seq(IPs)
      /\ live \subseteq Addr
      /\ NoIP \notin IPs
  BY ServerAssumption DEF IInv, TypeOK, IPs
<1>s. Stutter => [Lease!Next]_(Lease!leaseVars)
  BY DEF Lease!leaseVars, LeaseHolder
<1>1. ASSUME UNCHANGED <<live, vip, pool>> PROVE Stutter
  BY <1>1 DEF LeaseHolder
<1>2. ASSUME NEW a \in Addr, Handshake(a) PROVE [Lease!Next]_(Lease!leaseVars)
  <2>1. /\ a \notin live /\ live' = live \cup {a}
        /\ vip' = [vip EXCEPT ![a] = LeasedIP]
        /\ pool' = PoolAfterLease
    BY <1>2 DEF Handshake
  <2>2. CASE pool = <<>>
    BY <2>1, <2>2, <1>t, <1>s DEF LeasedIP, PoolAfterLease, LeaseHolder
  <2>3. CASE pool # <<>>
    <3>1. /\ Head(pool) \in Range(pool)
          /\ Range(pool') = Range(pool) \ {Head(pool)}
      BY <2>1, <2>3, <1>t, PopFacts DEF PoolAfterLease, IInv, PoolSound
    <3>2. /\ LeaseHolder[a] = NoIP
          /\ LeaseHolder' = [LeaseHolder EXCEPT ![a] = Head(pool)]
      BY <2>1, <2>3, <1>t DEF LeasedIP, LeaseHolder
    <3>3. Lease!Grant(a)
      BY <3>1, <3>2 DEF Lease!Grant, LeaseHolder
    <3> QED
      BY <3>3 DEF Lease!Next
  <2> QED
    BY <2>2, <2>3
<1>3. ASSUME NEW a \in Addr, Kick(a) PROVE [Lease!Next]_(Lease!leaseVars)
  <2>1. /\ a \in live /\ pool' = pool
        /\ LeaseHolder' = [LeaseHolder EXCEPT ![a] = NoIP]
        /\ LeaseHolder[a] = vip[a]
    BY <1>3, <1>t DEF Kick, LeaseHolder
  <2>2. CASE vip[a] = NoIP
    <3>1. LeaseHolder' = LeaseHolder
      BY <2>1, <2>2 DEF LeaseHolder
    <3> QED
      BY <2>1, <3>1, <1>s
  <2>3. CASE vip[a] # NoIP
    <3>1. Lease!Lose(a)
      BY <2>1, <2>3 DEF Lease!Lose, LeaseHolder
    <3> QED
      BY <3>1 DEF Lease!Next
  <2> QED
    BY <2>2, <2>3
<1>4. ASSUME NEW a \in Addr, ReapStep(a) PROVE [Lease!Next]_(Lease!leaseVars)
  <2>1. /\ pc = "reap" /\ a \in todo /\ live' = live \ {a}
        /\ pool' = IF vip[a] # NoIP THEN Append(pool, vip[a]) ELSE pool
        /\ LeaseHolder' = [LeaseHolder EXCEPT ![a] = NoIP]
    BY <1>4, <1>t DEF ReapStep, Dropped, LeaseHolder
  <2>2. CASE vip[a] = NoIP
    <3>1. LeaseHolder' = LeaseHolder
      BY <2>1, <2>2 DEF LeaseHolder
    <3> QED
      BY <2>1, <2>2, <3>1, <1>s
  <2>3. CASE vip[a] # NoIP
    <3>1. vip[a] \in IPs /\ a \in Holders
      BY <2>1, <2>3, <1>t DEF Holders
    <3>2. Range(pool') = Range(pool) \cup {vip[a]}
      BY <2>1, <2>3, <3>1, <1>t, AppendFacts
    <3>3. CASE a \in live
      <4>1. LeaseHolder[a] = vip[a]
        BY <3>3, <1>t DEF LeaseHolder
      <4>2. Lease!GiveBack(a)
        BY <2>1, <2>3, <3>2, <4>1 DEF Lease!GiveBack, LeaseHolder
      <4> QED
        BY <4>2 DEF Lease!Next
    <3>4. CASE a \notin live
      <4>1. LeaseHolder' = LeaseHolder
        BY <2>1, <3>4 DEF LeaseHolder
      <4>2. vip[a] \notin Range(pool)
        BY <3>1 DEF IInv, PoolSound
      <4>3. ASSUME NEW b \in Addr PROVE LeaseHolder[b] # vip[a]
        <5>1. CASE b \in live /\ vip[b] # NoIP
          BY <5>1, <3>1, <3>4 DEF IInv, PoolSound, Holders, LeaseHolder
        <5>2. CASE b \notin live \/ vip[b] = NoIP
          BY <5>2, <2>3 DEF LeaseHolder
        <5> QED
          BY <5>1, <5>2
      <4>4. Lease!Recover(vip[a])
        BY <3>2, <4>1, <4>2, <4>3 DEF Lease!Recover, LeaseHolder
      <4> QED
        BY <3>1, <4>4 DEF Lease!Next
    <3> QED
      BY <3>3, <3>4
  <2> QED
    BY <2>2, <2>3
<1>5. \/ UNCHANGED <<live, vip, pool>>
      \/ \E a \in Addr : Handshake(a) \/ Kick(a) \/ ReapStep(a)
  BY DEF Next, vars, Lifecycle, Callback, StartListening, StartRunning,
         StartFails, Stop, HandleData, TunEnd, ReapEnd, TunSend, ReapBegin,
         TunReadable, Tick, DatagramKnown, StatsBegin, StatsRaises, StatsReturns
<1> QED
  BY <1>1, <1>2, <1>3, <1>4, <1>5, <1>s

\* The server implements VirtualIPLease: a virtual IP is free, leased to one client
\* or lost, and it moves between these only as that specification says.
THEOREM ServerImplementsLease == Spec => LeaseSpec
<1> QED
  BY LeaseInit, LeaseStep, Inductive, PTL DEF Spec, LeaseSpec, Lease!Spec

-----------------------------------------------------------------------------
(* Who can lose a virtual IP *)

\* Nothing is lost when every IP of the pool stays in it or gets a holder, and
\* every holder's IP keeps a holder or goes to the pool.
LEMMA LossKept ==
    ASSUME \A ip \in Range(pool) \cup {vip[a] : a \in Holders} :
              ip \in Range(pool') \cup {vip'[a] : a \in Holders'}
    PROVE  Lost' \subseteq Lost
BY DEF Lost, IPs

LEMMA LossStep ==
    IInv /\ [Next]_vars => [Lost' \subseteq Lost \/ \E a \in live : LosesOwnIP(a)]_vars
<1> SUFFICES ASSUME IInv, Next
             PROVE  Lost' \subseteq Lost \/ \E a \in live : LosesOwnIP(a)
  OBVIOUS
<1> USE DEF timeVars, loopVars
<1>t. /\ vip \in [Addr -> IPs \cup {NoIP}]
      /\ pool \in Seq(IPs)
      /\ live \subseteq Addr
      /\ todo \subseteq Addr
      /\ NoIP \notin IPs
  BY ServerAssumption DEF IInv, TypeOK, IPs
<1>1. ASSUME Holders' = Holders, UNCHANGED <<vip, pool>> PROVE Lost' \subseteq Lost
  BY <1>1, LossKept
<1>2. CASE Lifecycle
  BY <1>1, <1>2
     DEF Lifecycle, StartListening, StartRunning, StartFails, Stop, Holders
<1>3. CASE HandleData \/ TunEnd \/ TunReadable \/ ReapBegin \/ ReapEnd
  BY <1>1, <1>3 DEF HandleData, TunEnd, TunReadable, ReapBegin, ReapEnd, Holders
<1>4. ASSUME NEW a \in Addr, TunSend(a) PROVE Lost' \subseteq Lost
  BY <1>1, <1>4 DEF TunSend, Holders
<1>5. ASSUME NEW a \in Addr, ReapStep(a) PROVE Lost' \subseteq Lost
  <2>1. Holders' = Holders \ {a} /\ \A b \in Holders' : vip'[b] = vip[b]
    BY <1>5, <1>t DEF ReapStep, Dropped, Holders
  <2>2. vip[a] # NoIP => Range(pool') = Range(pool) \cup {vip[a]}
    BY <1>5, <1>t, AppendFacts DEF ReapStep
  <2>3. vip[a] = NoIP => pool' = pool /\ a \notin Holders
    BY <1>5 DEF ReapStep, Holders
  <2> QED
    BY <2>1, <2>2, <2>3, LossKept
<1>6. CASE Tick
  BY <1>1, <1>6 DEF Tick, Holders
<1>7. ASSUME NEW a \in Addr, Handshake(a) PROVE Lost' \subseteq Lost
  <2>1. \A b \in Holders : b \in Holders' /\ vip'[b] = vip[b] /\ b # a
    BY <1>7, <1>t DEF Handshake, Receiving, Holders
  <2>2. CASE pool = <<>>
    BY <1>7, <2>1, <2>2, LossKept DEF Handshake, PoolAfterLease
  <2>3. CASE pool # <<>>
    <3>1. /\ Head(pool) \in Range(pool)
          /\ Range(pool') = Range(pool) \ {Head(pool)}
      BY <1>7, <2>3, <1>t, PopFacts
         DEF Handshake, PoolAfterLease, IInv, PoolSound
    <3>2. a \in Holders' /\ vip'[a] = Head(pool)
      <4>1. Range(pool) \subseteq IPs
        BY <1>t DEF Range
      <4> QED
        BY <1>7, <2>3, <1>t, <3>1, <4>1 DEF Handshake, LeasedIP, Holders
    <3> QED
      BY <2>1, <3>1, <3>2, LossKept
  <2> QED
    BY <2>2, <2>3
<1>8. ASSUME NEW a \in Addr, DatagramKnown(a) PROVE Lost' \subseteq Lost
  BY <1>1, <1>8 DEF DatagramKnown, Receiving, Holders
<1>9. ASSUME NEW a \in Addr, Kick(a) PROVE a \in live /\ LosesOwnIP(a)
  <2>1. \A b \in Holders \ {a} : b \in Holders' /\ vip'[b] = vip[b]
    BY <1>9, <1>t DEF Kick, Holders
  <2>2. Range(pool') = Range(pool)
    BY <1>9 DEF Kick
  <2>3. Lost' \subseteq Lost \cup {vip[a]}
    BY <2>1, <2>2 DEF Lost, IPs
  <2> QED
    BY <1>9, <2>3 DEF Kick, LosesOwnIP
<1>10. ASSUME NEW v \in Viewers, StatsBegin(v) \/ StatsRaises(v) \/ StatsReturns(v)
       PROVE  Lost' \subseteq Lost
  BY <1>1, <1>10 DEF StatsBegin, StatsRaises, StatsReturns, Holders
<1> QED
  BY <1>2, <1>3, <1>4, <1>5, <1>6, <1>7, <1>8, <1>9, <1>10
     DEF Next, Lifecycle, Callback

\* Only a kick ever takes a virtual IP out of circulation, and no other than that of
\* the session it removes; every handshake and every reaper pass accounts for its own.
THEOREM OnlyKicksLose == Spec => LossOnlyByKick
<1> QED
  BY LossStep, Inductive, PTL DEF Spec, LossOnlyByKick

-----------------------------------------------------------------------------
(* The server among its clients *)

\* Session e was created for the client of a, and it either is the one in the table
\* or is over.
Accounted(a, e) == e \in ended \/ (a \in live /\ engine[a].epoch = e)

\* What is in the hands of the network and of the clients is accounted for, and a
\* client that still waits has derived nothing.
TunnelIInv ==
    /\ engine \in [Addr -> {NoKeys} \cup {DerivedKeys(e, "server") : e \in Epochs}]
    /\ keys \in [Addr -> {NoKeys} \cup {DerivedKeys(e, "client") : e \in Epochs}]
    /\ phase \in [Addr -> {"new", "pending", "connected", "stopped"}]
    /\ epochs \in 0..MaxEpochs
    /\ \A a \in Addr, e \in Epochs : Reply(a, e) \in net => Accounted(a, e)
    /\ \A a \in Addr : phase[a] = "connected" => Accounted(a, keys[a].epoch)
    /\ \A a \in Addr : phase[a] \in {"new", "pending"} => keys[a] = NoKeys

-----------------------------------------------------------------------------
(* The composition does nothing the server alone could not do *)

LEMMA ServerPart == [TunnelNext]_tunnelVars => [Next]_vars
<1> SUFFICES ASSUME [TunnelNext]_tunnelVars PROVE [Next]_vars
  OBVIOUS
<1>1. CASE ServerStep
  BY <1>1 DEF ServerStep, Next
<1>2. CASE LoopStep
  BY <1>2 DEF LoopStep, Next, Callback
<1>3. ASSUME NEW a \in Addr,
             ClientStep(a) \/ DeliverReply(a) \/ UNCHANGED serverVars
      PROVE  [Next]_vars
  BY <1>3 DEF ClientStep, DeliverReply, serverVars
<1>4. ASSUME NEW a \in Addr, \/ DeliverInit(a) \/ MissInit(a)
                            \/ DeliverToSession(a) \/ DropSession(a)
      PROVE  [Next]_vars
  BY <1>4 DEF DeliverInit, MissInit, DeliverToSession, DropSession, Next, Callback,
              serverVars
<1>5. ASSUME NEW m \in net, Lose(m) PROVE [Next]_vars
  BY <1>5 DEF Lose, serverVars
<1>6. CASE UNCHANGED tunnelVars
  BY <1>6 DEF tunnelVars, serverVars
<1> QED
  BY <1>1, <1>2, <1>3, <1>4, <1>5, <1>6 DEF TunnelNext

\* Whatever clients and network do, the server behaves as TunnelServer specifies: all
\* that is proved of it above holds in the tunnel.
THEOREM TunnelImplementsServer == TunnelSpec => Spec
<1>1. TunnelInit => Init
  BY DEF TunnelInit
<1> QED
  BY <1>1, ServerPart, PTL DEF TunnelSpec, Spec

-----------------------------------------------------------------------------
(* Clients and sessions *)

LEMMA TunnelIInvInit == TunnelInit => TunnelIInv
BY TunnelAssumption DEF TunnelInit, ClientInit, TunnelIInv, NoKeys

\* A step that creates no session and delivers no reply keeps the invariant when
\* every session that leaves the table is recorded as over.
LEMMA KeepsAccounts ==
    ASSUME TunnelIInv,
           UNCHANGED <<engine, keys, epochs>>,
           phase' \in [Addr -> {"new", "pending", "connected", "stopped"}],
           \A a \in Addr : /\ phase'[a] = "connected" => phase[a] = "connected"
                           /\ phase'[a] \in {"new", "pending"}
                              => phase[a] \in {"new", "pending"},
           \A a \in Addr, e \in Epochs : Reply(a, e) \in net' => Reply(a, e) \in net,
           \A a \in Addr, e \in Epochs \cup {0} : Accounted(a, e) => Accounted(a, e)'
    PROVE  TunnelIInv'
<1>1. \A a \in Addr : keys[a].epoch \in Epochs \cup {0}
  BY DEF TunnelIInv, NoKeys, DerivedKeys
<1> QED
  BY <1>1 DEF TunnelIInv

LEMMA TunnelIInvStep == TunnelIInv /\ [TunnelNext]_tunnelVars => TunnelIInv'
<1> SUFFICES ASSUME TunnelIInv, [TunnelNext]_tunnelVars PROVE TunnelIInv'
  OBVIOUS
<1>t. phase \in [Addr -> {"new", "pending", "connected", "stopped"}]
  BY DEF TunnelIInv
<1>1. CASE ServerStep \/ LoopStep
  <2>1. live' = live
    BY <1>1 DEF ServerStep, LoopStep, Lifecycle, StartListening, StartRunning,
                StartFails, Stop, HandleData, TunEnd, ReapEnd, ReapBegin, TunSend,
                TunReadable, Tick, StatsBegin, StatsRaises, StatsReturns
  <2>2. UNCHANGED wireVars
    BY <1>1 DEF ServerStep, LoopStep
  <2> QED
    BY <2>1, <2>2, <1>t, KeepsAccounts DEF wireVars, clients, Accounted
<1>2. ASSUME NEW a \in Addr, ClientStep(a) PROVE TunnelIInv'
  <2>1. /\ UNCHANGED <<live, engine, ended, epochs, keys>>
        /\ \A b \in Addr, e \in Epochs : Reply(b, e) \in net' => Reply(b, e) \in net
        /\ phase' = phase \/ phase' = [phase EXCEPT ![a] = "stopped"]
              \/ (phase[a] = "new" /\ phase' = [phase EXCEPT ![a] = "pending"])
    BY <1>2 DEF ClientStep, ClientStart, KeepaliveEnds, ClientTunReadable, ClientStop,
                clientVars, serverVars, vars, Init_, Data, Reply
  <2> QED
    BY <2>1, <1>t, KeepsAccounts DEF Accounted
<1>3. ASSUME NEW a \in Addr, DeliverReply(a) PROVE TunnelIInv'
  <2>1. PICK e \in Epochs : Reply(a, e) \in net /\ ClientReply(a, e)
    BY <1>3 DEF DeliverReply
  <2>2. UNCHANGED <<live, engine, ended, epochs, net>>
    BY <1>3, <2>1 DEF DeliverReply, ClientReply, serverVars, vars
  <2>3. /\ phase' = [phase EXCEPT ![a] = "connected"]
        /\ keys' = [keys EXCEPT ![a] = DerivedKeys(e, "client")]
    BY <2>1 DEF ClientReply
  <2>4. Accounted(a, e)
    BY <2>1 DEF TunnelIInv
  <2> QED
    BY <2>2, <2>3, <2>4 DEF TunnelIInv, Accounted, DerivedKeys
<1>4. ASSUME NEW a \in Addr, DeliverInit(a) PROVE TunnelIInv'
  <2>0. PICK e : e = epochs + 1
    OBVIOUS
  <2>1. /\ a \notin live
        /\ live' = live \cup {a}
        /\ engine' = [engine EXCEPT ![a] = DerivedKeys(e, "server")]
        /\ net' = net \cup {Reply(a, e)}
        /\ epochs' = e
        /\ epochs < MaxEpochs
        /\ UNCHANGED <<phase, keys, ended>>
    BY <1>4, <2>0 DEF DeliverInit, Handshake, Greet, clients
  <2>2. e \in Epochs /\ epochs' \in 0..MaxEpochs
    BY <2>0, <2>1, TunnelAssumption DEF TunnelIInv, Epochs
  <2>3. \A b \in Addr, f \in Epochs \cup {0} : Accounted(b, f) => Accounted(b, f)'
    BY <2>1 DEF Accounted, TunnelIInv
  <2>4. Accounted(a, e)'
    BY <2>1 DEF Accounted, TunnelIInv, DerivedKeys
  <2>5. \A b \in Addr, f \in Epochs :
           Reply(b, f) \in net' => Reply(b, f) \in net \/ (b = a /\ f = e)
    BY <2>1 DEF Reply
  <2>6. \A b \in Addr : keys[b].epoch \in Epochs \cup {0}
    BY DEF TunnelIInv, NoKeys, DerivedKeys
  <2>7. engine' \in [Addr -> {NoKeys} \cup {DerivedKeys(f, "server") : f \in Epochs}]
    BY <2>1, <2>2 DEF TunnelIInv
  <2> QED
    BY <2>1, <2>2, <2>3, <2>4, <2>5, <2>6, <2>7 DEF TunnelIInv
<1>5. ASSUME NEW a \in Addr, DeliverToSession(a) PROVE TunnelIInv'
  BY <1>5, <1>t, KeepsAccounts
     DEF DeliverToSession, DatagramKnown, wireVars, clients, Accounted
<1>6. ASSUME NEW a \in Addr, DropSession(a) PROVE TunnelIInv'
  <2>1. /\ live' = live \ {a}
        /\ ended' = IF a \in live THEN ended \cup {engine[a].epoch} ELSE ended
        /\ UNCHANGED <<clients, net, epochs, engine>>
    BY <1>6 DEF DropSession, ReapStep, Kick, Ends
  <2> QED
    BY <2>1, <1>t, KeepsAccounts DEF Accounted, clients
<1>7. ASSUME NEW m \in net, Lose(m) PROVE TunnelIInv'
  BY <1>7, <1>t, KeepsAccounts DEF Lose, serverVars, vars, clients, Accounted
<1>8. ASSUME NEW a \in Addr, MissInit(a) PROVE TunnelIInv'
  BY <1>8, <1>t, KeepsAccounts DEF MissInit, serverVars, vars, clients, Accounted
<1>9. CASE UNCHANGED tunnelVars
  BY <1>9, <1>t, KeepsAccounts
     DEF tunnelVars, serverVars, vars, clients, Accounted
<1> QED
  BY <1>1, <1>2, <1>3, <1>4, <1>5, <1>6, <1>7, <1>8, <1>9 DEF TunnelNext

\* The invariant that ties clients and network to the server's sessions always holds.
THEOREM TunnelInductive == TunnelSpec => []TunnelIInv
<1> QED
  BY TunnelIInvInit, TunnelIInvStep, PTL DEF TunnelSpec

\* A connected client and the server's session for its address belong to the same
\* handshake until the server drops the session, whatever is lost, late, repeated or
\* reordered.
THEOREM InSyncUntilDropped == TunnelSpec => []ConnectedOrDropped
<1>1. TunnelIInv => ConnectedOrDropped
  BY DEF TunnelIInv, ConnectedOrDropped, Accounted
<1> QED
  BY TunnelInductive, <1>1, PTL

LEMMA KeysStep ==
    TunnelIInv /\ [TunnelNext]_tunnelVars =>
        /\ [\A a \in Addr : keys[a] # NoKeys => keys'[a] = keys[a]]_tunnelVars
        /\ [\A a \in Addr : a \in live /\ a \in live' => engine'[a] = engine[a]]_tunnelVars
<1> SUFFICES ASSUME TunnelIInv, TunnelNext
             PROVE  /\ \A a \in Addr : keys[a] # NoKeys => keys'[a] = keys[a]
                    /\ \A a \in Addr : a \in live => engine'[a] = engine[a]
  OBVIOUS
<1>1. CASE ServerStep \/ LoopStep \/ \E m \in net : Lose(m)
  BY <1>1 DEF ServerStep, LoopStep, Lose, wireVars, clients
<1>2. ASSUME NEW a \in Addr, ClientStep(a)
      PROVE  UNCHANGED <<keys, engine>>
  BY <1>2 DEF ClientStep, ClientStart, KeepaliveEnds, ClientTunReadable, ClientStop,
              clientVars
<1>3. ASSUME NEW a \in Addr, DeliverReply(a)
      PROVE  /\ \A b \in Addr : keys[b] # NoKeys => keys'[b] = keys[b]
             /\ engine' = engine
  BY <1>3 DEF DeliverReply, ClientReply, TunnelIInv
<1>4. ASSUME NEW a \in Addr, DeliverInit(a)
      PROVE  /\ keys' = keys
             /\ \A b \in Addr : b \in live => engine'[b] = engine[b]
  BY <1>4 DEF DeliverInit, Handshake, Greet, clients, TunnelIInv
<1>5. ASSUME NEW a \in Addr, DeliverToSession(a) \/ DropSession(a) \/ MissInit(a)
      PROVE  UNCHANGED <<keys, engine>>
  BY <1>5 DEF DeliverToSession, DropSession, MissInit, wireVars, clients
<1> QED
  BY <1>1, <1>2, <1>3, <1>4, <1>5 DEF TunnelNext

\* A client derives keys once: a reply that arrives a second time, or from an earlier session,
\* does not start its nonce counter over.
THEOREM KeysDerivedOnce == TunnelSpec => ClientKeysOnce
<1> QED
  BY KeysStep, TunnelInductive, PTL DEF TunnelSpec, ClientKeysOnce

\* Nor does the server replace the keys of a session that is in its table.
THEOREM EngineKeysStay == TunnelSpec => EngineKept
<1> QED
  BY KeysStep, TunnelInductive, PTL DEF TunnelSpec, EngineKept

-----------------------------------------------------------------------------
(* Types *)

\* What TunnelTypeOK says of the wire and the clients; only a session that was greeted is
\* in the table, so that what is recorded as over was a session.
WireIInv ==
    /\ ClientTypeOK
    /\ net \subseteq {Init_(a) : a \in Addr} \cup {Data(a) : a \in Addr}
                     \cup {Reply(a, e) : a \in Addr, e \in Epochs}
    /\ losses \in 0..MaxLosses
    /\ ended \subseteq Epochs
    /\ missed \subseteq Addr
    /\ \A a \in live : a \in Addr /\ engine[a].epoch \in Epochs

LEMMA WireInit == TunnelInit => WireIInv
<1> SUFFICES ASSUME TunnelInit PROVE WireIInv
  OBVIOUS
<1>1. ClientTypeOK
  BY DEF TunnelInit, ClientInit, ClientTypeOK
<1> QED
  BY <1>1, TunnelAssumption DEF TunnelInit, Init, WireIInv

\* A step that no session begins with and no datagram is new in.
LEMMA WireQuiet ==
    ASSUME WireIInv, ClientTypeOK', net' \subseteq net, losses' \in 0..MaxLosses,
           UNCHANGED <<engine, ended>>, missed' \subseteq Addr, live' \subseteq live
    PROVE  WireIInv'
BY DEF WireIInv

LEMMA WireStep == TunnelIInv /\ WireIInv /\ [TunnelNext]_tunnelVars => WireIInv'
<1> SUFFICES ASSUME TunnelIInv, WireIInv, [TunnelNext]_tunnelVars PROVE WireIInv'
  OBVIOUS
<1>t. ClientTypeOK /\ losses \in 0..MaxLosses /\ missed \subseteq Addr
  BY DEF WireIInv
<1>u. ASSUME UNCHANGED clients PROVE ClientTypeOK'
  BY <1>t, <1>u DEF clients, ClientTypeOK
<1>1. CASE ServerStep \/ LoopStep
  <2>1. live' = live
    BY <1>1 DEF ServerStep, LoopStep, Lifecycle, StartListening, StartRunning,
                StartFails, Stop, HandleData, TunEnd, ReapEnd, ReapBegin, TunSend,
                TunReadable, Tick, StatsBegin, StatsRaises, StatsReturns
  <2>2. UNCHANGED wireVars
    BY <1>1 DEF ServerStep, LoopStep
  <2> QED
    BY <2>1, <2>2, <1>t, <1>u, WireQuiet DEF wireVars
<1>2. ASSUME NEW a \in Addr, ClientStep(a) PROVE WireIInv'
  <2>1. UNCHANGED <<live, engine, ended, losses, missed>>
    BY <1>2 DEF ClientStep, serverVars, vars
  <2>2. ClientTypeOK'
    BY <1>2, <1>t DEF ClientStep, ClientStart, KeepaliveEnds, ClientTunReadable, ClientStop,
                      clientVars, ClientTypeOK
  <2>3. net' \subseteq net \cup {Init_(a), Data(a)}
    BY <1>2 DEF ClientStep, ClientStart, KeepaliveEnds, ClientTunReadable, ClientStop
  <2> QED
    BY <2>1, <2>2, <2>3 DEF WireIInv
<1>3. ASSUME NEW a \in Addr, DeliverReply(a) PROVE WireIInv'
  <2>1. PICK e \in Epochs : ClientReply(a, e)
    BY <1>3 DEF DeliverReply
  <2>2. UNCHANGED <<live, engine, ended, losses, net, missed>>
    BY <1>3, <2>1 DEF DeliverReply, ClientReply, serverVars, vars
  <2>3. ClientTypeOK'
    BY <2>1, <1>t DEF ClientReply, ClientTypeOK
  <2> QED
    BY <2>2, <2>3, <1>t, WireQuiet
<1>4. ASSUME NEW a \in Addr, DeliverInit(a) PROVE WireIInv'
  <2>0. PICK e : e = epochs + 1
    OBVIOUS
  <2>1. /\ live' = live \cup {a}
        /\ engine' = [engine EXCEPT ![a] = DerivedKeys(e, "server")]
        /\ net' = net \cup {Reply(a, e)}
        /\ epochs < MaxEpochs
        /\ UNCHANGED <<clients, losses, ended, missed>>
    BY <1>4, <2>0 DEF DeliverInit, Handshake, Greet
  <2>2. e \in Epochs
    BY <2>0, <2>1, TunnelAssumption DEF TunnelIInv, Epochs
  <2>3. \A b \in live' : b \in Addr /\ engine'[b].epoch \in Epochs
    BY <2>1, <2>2 DEF TunnelIInv, WireIInv, DerivedKeys
  <2> QED
    BY <2>1, <2>2, <2>3, <1>u DEF WireIInv
<1>5. ASSUME NEW a \in Addr, DeliverToSession(a) PROVE WireIInv'
  BY <1>5, <1>t, <1>u, WireQuiet DEF DeliverToSession, DatagramKnown, wireVars
<1>6. ASSUME NEW a \in Addr, DropSession(a) PROVE WireIInv'
  <2>1. /\ live' = live \ {a}
        /\ ended' = IF a \in live THEN ended \cup {engine[a].epoch} ELSE ended
        /\ UNCHANGED <<clients, net, losses, engine, missed>>
    BY <1>6 DEF DropSession, ReapStep, Kick, Ends
  <2> QED
    BY <2>1, <1>u DEF WireIInv
<1>7. ASSUME NEW m \in net, Lose(m) PROVE WireIInv'
  <2>1. losses' \in 0..MaxLosses
    BY <1>7, <1>t, TunnelAssumption DEF Lose
  <2>2. /\ UNCHANGED <<clients, engine, ended, missed, live>>
        /\ net' \subseteq net
    BY <1>7 DEF Lose, serverVars, vars
  <2> QED
    BY <2>1, <2>2, <1>t, <1>u, WireQuiet
<1>8. ASSUME NEW a \in Addr, MissInit(a) PROVE WireIInv'
  BY <1>8, <1>t, <1>u, WireQuiet DEF MissInit, serverVars, vars
<1>9. CASE UNCHANGED tunnelVars
  BY <1>9, <1>t, <1>u, WireQuiet DEF tunnelVars, serverVars, vars
<1> QED
  BY <1>1, <1>2, <1>3, <1>4, <1>5, <1>6, <1>7, <1>8, <1>9 DEF TunnelNext

\* Only handshakes, data and replies of sessions the server has created are ever in the
\* network, and only such sessions are ever over, whatever is lost or comes twice.
THEOREM TunnelTypeCorrect == TunnelSpec => []TunnelTypeOK
<1>1. TypeOK /\ TunnelIInv /\ WireIInv => TunnelTypeOK
  BY DEF TunnelIInv, WireIInv, TunnelTypeOK
<1>2. TunnelSpec => []WireIInv
  BY WireInit, WireStep, TunnelInductive, PTL DEF TunnelSpec
<1> QED
  BY <1>1, <1>2, TunnelInductive, TunnelImplementsServer, TypeCorrect, PTL
=============================================================================
