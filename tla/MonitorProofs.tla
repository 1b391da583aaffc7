--------------------------- MODULE MonitorProofs ---------------------------
(***************************************************************************)
(* NoGap for any number of subscribers, any history size and any socket    *)
(* buffer.  The invariant follows a subscriber from its registration: what *)
(* it was written is a window of live samples, which reaches to the latest *)
(* one, and as much of the history as was replayed.  The two overlap or    *)
(* touch, because the sample before the first live one was in the history  *)
(* before the subscriber was in the list.                                  *)
(***************************************************************************)
EXTENDS Monitor, TLAPS

\* The history holds the latest samples, without a hole.
HistoryLatest ==
    /\ Len(history) <= HistorySize
    /\ Len(history) <= taken
    /\ \A i \in 1..Len(history) : history[i] = taken - Len(history) + i

Sampling ==
    /\ todo \subseteq clients
    /\ sampler # "broadcast" => todo = {}
    /\ sampler # "asleep" => taken > 0

Stages ==
    \A c \in Subs :
        /\ c \in clients => stage[c] \in {"registered", "replaying", "served"}
        /\ stage[c] \in {"away", "accepted", "registered"} => next[c] = 0
        /\ stage[c] \in {"away", "accepted"} => got[c] = {}
        /\ stage[c] = "replaying" => next[c] <= Len(history)

Oldest == taken - Len(history) + 1
Replayed(c) == IF stage[c] = "replaying" THEN Oldest..(Oldest + next[c] - 1) ELSE {}

Window(c) ==
    \E first \in 1..(taken + 1) : got[c] \cup Due(c) = (first..taken) \cup Replayed(c)

Windows == \A c \in clients : (stage[c] = "served" /\ peer[c] = "reset") \/ Window(c)

MonitorIInv == MonitorTypeOK /\ HistoryLatest /\ Sampling /\ Stages /\ Windows

LEMMA Sizes == HistorySize \in Nat /\ Room \in Nat \ {0} /\ MaxSamples \in Nat
BY MonitorAssumption

LEMMA ElementOfSeq == ASSUME NEW S, NEW s \in Seq(S), NEW i \in 1..Len(s) PROVE s[i] \in S
OBVIOUS

LEMMA IntervalGrows ==
    ASSUME NEW low \in Int, NEW n \in Nat
    PROVE  low..(low + (n + 1) - 1) = (low..(low + n - 1)) \cup {low + n}
OBVIOUS

\* What Store does to the history: the new sample at the end, and if need be without
\* the oldest one.
LEMMA StoredHistory ==
    ASSUME MonitorTypeOK, HistoryLatest, taken < MaxSamples,
           NEW h, h = Trimmed(Append(history, taken + 1))
    PROVE  /\ h \in Seq(1..MaxSamples)
           /\ Len(h) <= HistorySize
           /\ Len(h) <= taken + 1
           /\ \A i \in 1..Len(h) : h[i] = taken + 1 - Len(h) + i
<1> DEFINE a == Append(history, taken + 1)
<1>h. history \in Seq(1..MaxSamples) /\ taken \in Nat /\ taken + 1 \in 1..MaxSamples
  BY Sizes DEF MonitorTypeOK
<1>l. Len(history) \in Nat
  BY <1>h
<1>a. /\ a \in Seq(1..MaxSamples)
      /\ Len(a) = Len(history) + 1
      /\ a[Len(history) + 1] = taken + 1
      /\ \A i \in 1..Len(history) : a[i] = history[i]
  BY <1>h
<1>1. /\ a \in Seq(1..MaxSamples)
      /\ Len(a) = Len(history) + 1
      /\ \A i \in 1..Len(a) : a[i] = taken + 1 - Len(a) + i
  <2> HIDE DEF a
  <2> SUFFICES ASSUME NEW i \in 1..Len(a) PROVE a[i] = taken + 1 - Len(a) + i
    BY <1>a
  <2>1. CASE i = Len(history) + 1
    BY <1>a, <1>h, <1>l, <2>1
  <2>2. CASE i \in 1..Len(history)
    BY <1>a, <1>h, <1>l, <2>2 DEF HistoryLatest
  <2> QED
    BY <1>a, <1>l, <2>1, <2>2
<1> HIDE DEF a
<1>2. CASE Len(a) > HistorySize
  <2>1. h = Tail(a)
    BY <1>2 DEF Trimmed, a
  <2>2. /\ h \in Seq(1..MaxSamples)
        /\ Len(h) = Len(a) - 1
        /\ \A i \in 1..Len(h) : h[i] = a[i + 1]
    BY <1>1, <1>l, <2>1
  <2>3. Len(h) = Len(history) /\ Len(h) <= HistorySize /\ Len(h) <= taken
    BY <1>1, <1>l, <2>2 DEF HistoryLatest
  <2>4. ASSUME NEW i \in 1..Len(h) PROVE h[i] = taken + 1 - Len(h) + i
    <3>1. i + 1 \in 1..Len(a) /\ h[i] = a[i + 1]
      BY <1>1, <1>l, <2>2, <2>3
    <3>2. a[i + 1] = taken + 1 - Len(a) + (i + 1)
      BY <1>1, <3>1
    <3>3. Len(a) = Len(h) + 1 /\ Len(h) \in Nat /\ i \in Nat
      BY <1>1, <1>l, <2>3
    <3> QED
      BY <1>h, <3>1, <3>2, <3>3
  <2> QED
    BY <1>h, <1>l, <2>2, <2>3, <2>4
<1>3. CASE ~(Len(a) > HistorySize)
  <2>1. h = a
    BY <1>3 DEF Trimmed, a
  <2>2. Len(h) <= HistorySize /\ Len(h) <= taken + 1
    BY <1>1, <1>3, <1>h, <1>l, <2>1, Sizes DEF HistoryLatest
  <2> QED
    BY <1>1, <2>1, <2>2
<1> QED
  BY <1>2, <1>3

LEMMA MonitorInitInv == MonitorInit => MonitorIInv
BY Sizes DEF MonitorInit, MonitorIInv, MonitorTypeOK, HistoryLatest, Sampling, Stages,
             Windows, Handled

-----------------------------------------------------------------------------
(* The sampler *)

LEMMA StoreInv == MonitorIInv /\ Store => MonitorIInv'
<1> SUFFICES ASSUME MonitorIInv, Store PROVE MonitorIInv'
  OBVIOUS
<1> USE Sizes
<1>1. taken' = taken + 1 /\ taken \in Nat /\ taken + 1 \in 1..MaxSamples
  BY DEF MonitorIInv, MonitorTypeOK, Store
<1>2. /\ history' \in Seq(1..MaxSamples)
      /\ HistoryLatest'
  <2>1. history' = Trimmed(Append(history, taken + 1)) /\ taken < MaxSamples
    BY DEF Store
  <2> QED
    BY <1>1, <2>1, StoredHistory DEF MonitorIInv, HistoryLatest
<1>3. MonitorTypeOK'
  BY <1>1, <1>2 DEF MonitorIInv, MonitorTypeOK, Store, socketVars
<1>4. Sampling'
  BY <1>1 DEF MonitorIInv, Sampling, Store
<1>5. Stages'
  BY DEF MonitorIInv, Stages, Store, Locked, socketVars
<1>6. ASSUME NEW c \in clients', ~(stage[c] = "served" /\ peer[c] = "reset")
      PROVE  Window(c)'
  <2>1. c \in clients /\ c \in Subs /\ Due(c) = {} /\ Due(c)' = {taken + 1}
    BY <1>1 DEF MonitorIInv, MonitorTypeOK, Sampling, Store, Due
  <2>2. Replayed(c) = {} /\ Replayed(c)' = {}
    BY <2>1 DEF Store, Locked, Replayed
  <2>3. PICK first \in 1..(taken + 1) : got[c] = first..taken
    BY <1>6, <2>1, <2>2 DEF MonitorIInv, Windows, Window
  <2>4. got'[c] \cup {taken + 1} = first..(taken + 1)
    BY <1>1, <2>3 DEF Store
  <2> QED
    BY <1>1, <2>1, <2>2, <2>3, <2>4 DEF Window
<1>7. Windows'
  BY <1>6 DEF Windows, Store, socketVars
<1> QED
  BY <1>2, <1>3, <1>4, <1>5, <1>7 DEF MonitorIInv

\* Steps that leave the history alone and write to nobody: nobody's window changes
\* while nobody's Due, stage and next do.
LEMMA QuietInv ==
    ASSUME MonitorIInv, UNCHANGED <<taken, history, got>>, MonitorTypeOK', Sampling', Stages',
           \A c \in clients' :
              \/ stage'[c] = "served" /\ peer'[c] = "reset"
              \/ c \in clients /\ Due(c)' = Due(c) /\ Replayed(c)' = Replayed(c)
                                /\ ~(stage[c] = "served" /\ peer[c] = "reset")
    PROVE  MonitorIInv'
<1>1. HistoryLatest'
  BY DEF MonitorIInv, HistoryLatest
<1>2. ASSUME NEW c \in clients', ~(stage'[c] = "served" /\ peer'[c] = "reset")
      PROVE  Window(c)'
  BY <1>2 DEF MonitorIInv, Windows, Window
<1> QED
  BY <1>1, <1>2 DEF MonitorIInv, Windows

LEMMA BroadcastBeginInv == MonitorIInv /\ BroadcastBegin => MonitorIInv'
<1> SUFFICES ASSUME MonitorIInv, BroadcastBegin PROVE MonitorIInv'
  OBVIOUS
<1>1. MonitorTypeOK' /\ Sampling' /\ Stages'
  BY DEF MonitorIInv, MonitorTypeOK, Sampling, Stages, BroadcastBegin, socketVars
<1>2. \A c \in clients : Due(c)' = Due(c) /\ Replayed(c)' = Replayed(c)
  BY DEF BroadcastBegin, Due, Replayed, Oldest
<1> QED
  BY <1>1, <1>2, QuietInv DEF BroadcastBegin, socketVars

LEMMA BroadcastEndInv == MonitorIInv /\ BroadcastEnd => MonitorIInv'
<1> SUFFICES ASSUME MonitorIInv, BroadcastEnd PROVE MonitorIInv'
  OBVIOUS
<1>1. MonitorTypeOK' /\ Sampling' /\ Stages'
  BY DEF MonitorIInv, MonitorTypeOK, Sampling, Stages, BroadcastEnd, socketVars
<1>2. \A c \in clients : Due(c)' = Due(c) /\ Replayed(c)' = Replayed(c)
  BY DEF BroadcastEnd, Due, Replayed, Oldest
<1> QED
  BY <1>1, <1>2, QuietInv DEF BroadcastEnd, socketVars

LEMMA DropInv == ASSUME MonitorIInv, NEW c \in Subs, Drop(c) PROVE MonitorIInv'
<1>1. MonitorTypeOK' /\ Sampling' /\ Stages'
  BY DEF MonitorIInv, MonitorTypeOK, Sampling, Stages, Drop, socketVars
<1>2. \A d \in clients' : Due(d)' = Due(d) /\ Replayed(d)' = Replayed(d)
  BY DEF Drop, Due, Replayed, Oldest
<1> QED
  BY <1>1, <1>2, QuietInv DEF Drop, socketVars

\* The sample under way passes from Due to got.
LEMMA PublishInv == ASSUME MonitorIInv, NEW c \in Subs, Publish(c) PROVE MonitorIInv'
<1> USE Sizes
<1>1. MonitorTypeOK' /\ Sampling' /\ Stages' /\ HistoryLatest'
  BY DEF MonitorIInv, MonitorTypeOK, Sampling, Stages, HistoryLatest, Publish, Write, CanWrite
<1>2. ASSUME NEW d \in clients PROVE got'[d] \cup Due(d)' = got[d] \cup Due(d)
  BY DEF MonitorIInv, MonitorTypeOK, Sampling, Publish, Write, Due
<1>3. \A d \in clients : Window(d) => Window(d)'
  BY <1>2 DEF Publish, Window, Replayed, Oldest
<1> QED
  BY <1>1, <1>3 DEF MonitorIInv, Windows, Publish, Write

-----------------------------------------------------------------------------
(* The acceptor *)

LEMMA AcceptInv == ASSUME MonitorIInv, NEW c \in Subs, Accept(c) PROVE MonitorIInv'
<1>1. MonitorTypeOK' /\ Sampling' /\ Stages'
  BY DEF MonitorIInv, MonitorTypeOK, Sampling, Stages, Accept, Stage, samplerVars, socketVars,
         Handled
<1>2. \A d \in clients : d # c /\ Due(d)' = Due(d) /\ Replayed(d)' = Replayed(d)
  BY DEF MonitorIInv, MonitorTypeOK, Stages, Accept, Stage, samplerVars, Due, Replayed, Oldest
<1> QED
  BY <1>1, <1>2, QuietInv
     DEF MonitorIInv, MonitorTypeOK, Accept, Stage, samplerVars, socketVars

\* A window opens: after the latest sample, or at it while it is yet to be published.
LEMMA RegisterInv == ASSUME MonitorIInv, NEW c \in Subs, Register(c) PROVE MonitorIInv'
<1> USE Sizes
<1>1. MonitorTypeOK' /\ Sampling' /\ Stages' /\ HistoryLatest'
  BY DEF MonitorIInv, MonitorTypeOK, Sampling, Stages, HistoryLatest, Register, Stage,
         samplerVars, socketVars, Handled
<1>2. Window(c)'
  <2>1. /\ got'[c] = {}
        /\ Replayed(c)' = {}
        /\ Due(c)' = IF sampler = "publish" THEN {taken} ELSE {}
    BY DEF MonitorIInv, MonitorTypeOK, Sampling, Stages, Register, Stage, samplerVars, Due,
           Replayed
  <2>2. CASE sampler = "publish"
    <3>1. taken \in 1..(taken + 1) /\ {taken} = taken..taken
      BY <2>2 DEF MonitorIInv, MonitorTypeOK, Sampling
    <3> QED
      BY <2>1, <2>2, <3>1 DEF Window, Register, samplerVars
  <2>3. CASE sampler # "publish"
    <3>1. taken + 1 \in 1..(taken + 1) /\ (taken + 1)..taken = {}
      BY DEF MonitorIInv, MonitorTypeOK
    <3> QED
      BY <2>1, <2>3, <3>1 DEF Window, Register, samplerVars
  <2> QED
    BY <2>2, <2>3
<1>3. ASSUME NEW d \in clients, d # c PROVE Window(d) => Window(d)'
  BY <1>3 DEF MonitorIInv, MonitorTypeOK, Register, Stage, samplerVars, Window, Due, Replayed,
              Oldest
<1> QED
  BY <1>1, <1>2, <1>3
     DEF MonitorIInv, MonitorTypeOK, Windows, Register, Stage, samplerVars, socketVars

LEMMA ReplayBeginInv == ASSUME MonitorIInv, NEW c \in Subs, ReplayBegin(c) PROVE MonitorIInv'
<1>1. MonitorTypeOK' /\ Sampling' /\ Stages'
  BY DEF MonitorIInv, MonitorTypeOK, Sampling, Stages, ReplayBegin, Stage, samplerVars,
         socketVars, Handled
<1>2. \A d \in clients : Due(d)' = Due(d)
  BY DEF ReplayBegin, samplerVars, Due
<1>3. Replayed(c)' = {} /\ Replayed(c) = {}
  <2>1. next[c] = 0 /\ Oldest \in Int /\ Oldest..(Oldest + 0 - 1) = {}
    BY DEF MonitorIInv, MonitorTypeOK, Stages, ReplayBegin, Stage, Oldest
  <2> QED
    BY <2>1 DEF MonitorIInv, MonitorTypeOK, ReplayBegin, Stage, samplerVars, Replayed, Oldest
<1>4. \A d \in clients : Replayed(d)' = Replayed(d)
  BY <1>3 DEF MonitorIInv, MonitorTypeOK, ReplayBegin, Stage, samplerVars, Replayed, Oldest
<1> QED
  BY <1>1, <1>2, <1>4, QuietInv
     DEF MonitorIInv, MonitorTypeOK, ReplayBegin, Stage, samplerVars, socketVars

LEMMA ReplayInv == ASSUME MonitorIInv, NEW c \in Subs, Replay(c) PROVE MonitorIInv'
<1>t. /\ next[c] \in Nat /\ taken \in Nat
      /\ history \in Seq(1..MaxSamples)
      /\ stage[c] = "replaying" /\ next[c] < Len(history)
  BY DEF MonitorIInv, MonitorTypeOK, Replay
<1>l. Len(history) \in Nat /\ next[c] + 1 \in 1..Len(history)
  BY <1>t
<1>g. Len(history) <= HistorySize /\ HistorySize \in Nat
  BY Sizes DEF MonitorIInv, HistoryLatest
<1>h. history[next[c] + 1] = taken - Len(history) + (next[c] + 1)
  BY <1>l DEF MonitorIInv, HistoryLatest
<1>s. next[c] + 1 <= HistorySize
  BY <1>t, <1>l, <1>g
<1>e. history[next[c] + 1] \in 1..MaxSamples
  BY <1>t, <1>l, ElementOfSeq
<1>o. history[next[c] + 1] = Oldest + next[c]
  BY <1>t, <1>l, <1>h DEF Oldest
<1>n. next' = [next EXCEPT ![c] = next[c] + 1]
  BY DEF Replay
<1>1. /\ next[c] \in Nat /\ Len(history) \in Nat /\ taken \in Nat
      /\ next[c] + 1 \in 1..Len(history)
      /\ history[next[c] + 1] \in 1..MaxSamples
      /\ history[next[c] + 1] = Oldest + next[c]
      /\ next' = [next EXCEPT ![c] = next[c] + 1]
      /\ next[c] + 1 <= HistorySize
  BY <1>t, <1>l, <1>s, <1>e, <1>o, <1>n
<1>2. got' = [got EXCEPT ![c] = got[c] \cup {Oldest + next[c]}]
  BY <1>1 DEF Replay, Write
<1>3. MonitorTypeOK'
  <2>1. next' \in [Subs -> 0..HistorySize]
    BY <1>1, <1>g DEF MonitorIInv, MonitorTypeOK
  <2>2. got' \in [Subs -> SUBSET (1..MaxSamples)]
    BY <1>e, <1>o, <1>2 DEF MonitorIInv, MonitorTypeOK
  <2>3. unread' \in [Subs -> 0..Room]
    BY Sizes DEF MonitorIInv, MonitorTypeOK, Replay, Write, CanWrite
  <2> QED
    BY <2>1, <2>2, <2>3 DEF MonitorIInv, MonitorTypeOK, Replay, Write, samplerVars
<1>4. Sampling' /\ Stages' /\ HistoryLatest'
  <2>1. Sampling' /\ HistoryLatest'
    BY DEF MonitorIInv, Sampling, HistoryLatest, Replay, samplerVars
  <2>2. ASSUME NEW d \in Subs, d # c
        PROVE  stage'[d] = stage[d] /\ next'[d] = next[d] /\ got'[d] = got[d]
    BY <1>1, <1>2, <2>2 DEF MonitorIInv, MonitorTypeOK, Replay
  <2>3. stage'[c] = "replaying" /\ next'[c] = next[c] + 1
    BY <1>1, <1>t DEF MonitorIInv, MonitorTypeOK, Replay
  <2>4. next'[c] <= Len(history')
    BY <1>1, <2>3 DEF Replay, samplerVars
  <2>5. history' = history /\ clients' = clients
    BY DEF Replay, samplerVars
  <2>6. ASSUME NEW d \in Subs
        PROVE  /\ d \in clients' => stage'[d] \in {"registered", "replaying", "served"}
               /\ stage'[d] \in {"away", "accepted", "registered"} => next'[d] = 0
               /\ stage'[d] \in {"away", "accepted"} => got'[d] = {}
               /\ stage'[d] = "replaying" => next'[d] <= Len(history')
    BY <2>2, <2>3, <2>4, <2>5 DEF MonitorIInv, Stages
  <2> QED
    BY <2>1, <2>6 DEF Stages
<1>5. Window(c) => Window(c)'
  <2>1. Replayed(c)' = Replayed(c) \cup {Oldest + next[c]}
    <3>1. /\ Replayed(c) = Oldest..(Oldest + next[c] - 1)
          /\ Replayed(c)' = Oldest..(Oldest + (next[c] + 1) - 1)
      BY <1>1 DEF MonitorIInv, MonitorTypeOK, Replay, samplerVars, Replayed, Oldest
    <3>2. Oldest \in Int
      BY <1>1 DEF Oldest
    <3>3. Oldest..(Oldest + (next[c] + 1) - 1) = (Oldest..(Oldest + next[c] - 1)) \cup {Oldest + next[c]}
      BY <1>1, <3>2, IntervalGrows
    <3> QED
      BY <3>1, <3>3, Zenon
  <2>2. got'[c] = got[c] \cup {Oldest + next[c]} /\ Due(c)' = Due(c) /\ taken' = taken
    BY <1>2 DEF MonitorIInv, MonitorTypeOK, Replay, samplerVars, Due
  <2> QED
    BY <2>1, <2>2 DEF Window
<1>6. ASSUME NEW d \in clients, d # c PROVE Window(d) => Window(d)'
  BY <1>1, <1>2, <1>6
     DEF MonitorIInv, MonitorTypeOK, Replay, samplerVars, Window, Due, Replayed, Oldest
<1> QED
  BY <1>3, <1>4, <1>5, <1>6 DEF MonitorIInv, Windows, Replay, Write

\* The whole history is out: with the live samples it makes one window, for they overlap
\* or touch.
LEMMA ReplayEndInv == ASSUME MonitorIInv, NEW c \in Subs, ReplayEnd(c) PROVE MonitorIInv'
<1> USE Sizes
<1>1. MonitorTypeOK' /\ Sampling' /\ Stages' /\ HistoryLatest'
  BY DEF MonitorIInv, MonitorTypeOK, Sampling, Stages, HistoryLatest, ReplayEnd, Stage,
         samplerVars, socketVars, Handled
<1>2. Window(c) => Window(c)'
  <2> SUFFICES ASSUME Window(c) PROVE Window(c)'
    OBVIOUS
  <2>1. taken \in Nat /\ Oldest \in 1..(taken + 1)
    BY DEF MonitorIInv, MonitorTypeOK, HistoryLatest, Oldest
  <2>2. Replayed(c) = Oldest..taken /\ Replayed(c)' = {}
    BY DEF MonitorIInv, MonitorTypeOK, ReplayEnd, Stage, Replayed, Oldest
  <2>3. PICK first \in 1..(taken + 1) :
            got[c] \cup Due(c) = (first..taken) \cup (Oldest..taken)
    BY <2>2 DEF Window
  <2>4. PICK low \in 1..(taken + 1) : (first..taken) \cup (Oldest..taken) = low..taken
    <3>1. CASE first <= Oldest
      BY <2>1, <3>1
    <3>2. CASE ~(first <= Oldest)
      BY <2>1, <3>2
    <3> QED
      BY <3>1, <3>2
  <2>5. got' = got /\ taken' = taken /\ Due(c)' = Due(c)
    BY DEF ReplayEnd, samplerVars, Due
  <2> QED
    BY <2>2, <2>3, <2>4, <2>5 DEF Window
<1>3. ASSUME NEW d \in clients, d # c PROVE Window(d) => Window(d)'
  BY <1>3 DEF MonitorIInv, MonitorTypeOK, ReplayEnd, Stage, samplerVars, Window, Due, Replayed,
              Oldest
<1>4. ~(stage[c] = "served" /\ peer[c] = "reset")
  BY DEF ReplayEnd, Stage
<1> QED
  BY <1>1, <1>2, <1>3, <1>4
     DEF MonitorIInv, MonitorTypeOK, Windows, ReplayEnd, Stage, samplerVars, socketVars

LEMMA ReplayFailsInv == ASSUME MonitorIInv, NEW c \in Subs, ReplayFails(c) PROVE MonitorIInv'
<1>1. MonitorTypeOK' /\ Sampling' /\ Stages' /\ HistoryLatest'
  BY DEF MonitorIInv, MonitorTypeOK, Sampling, Stages, HistoryLatest, ReplayFails, Stage,
         samplerVars, socketVars, Handled
<1>2. ASSUME NEW d \in clients, d # c PROVE Window(d) => Window(d)'
  BY <1>2 DEF MonitorIInv, MonitorTypeOK, ReplayFails, Stage, samplerVars, Window, Due,
              Replayed, Oldest
<1>3. stage'[c] = "served" /\ peer'[c] = "reset"
  BY DEF MonitorIInv, MonitorTypeOK, ReplayFails, Stage, socketVars
<1> QED
  BY <1>1, <1>2, <1>3
     DEF MonitorIInv, MonitorTypeOK, Windows, ReplayFails, Stage, samplerVars, socketVars

-----------------------------------------------------------------------------

\* The subscribers' own steps.
LEMMA PeerInv ==
    ASSUME MonitorIInv, NEW c \in Subs, Read(c) \/ Close(c) \/ Reset(c)
    PROVE  MonitorIInv'
<1>1. MonitorTypeOK'
  <2>1. CASE Read(c)
    <3>1. unread[c] - 1 \in 0..Room
      BY <2>1, Sizes DEF MonitorIInv, MonitorTypeOK, Read
    <3> QED
      BY <2>1, <3>1 DEF MonitorIInv, MonitorTypeOK, Read, samplerVars
  <2>2. CASE Close(c) \/ Reset(c)
    BY <2>2 DEF MonitorIInv, MonitorTypeOK, Close, Reset, samplerVars
  <2> QED
    BY <2>1, <2>2
<1>2. Sampling' /\ Stages'
  BY DEF MonitorIInv, Sampling, Stages, Read, Close, Reset, samplerVars
<1>3. ASSUME NEW d \in clients, ~(stage'[d] = "served" /\ peer'[d] = "reset")
      PROVE  /\ Due(d)' = Due(d) /\ Replayed(d)' = Replayed(d)
             /\ ~(stage[d] = "served" /\ peer[d] = "reset")
  <2>1. Due(d)' = Due(d) /\ Replayed(d)' = Replayed(d)
    BY DEF Read, Close, Reset, samplerVars, Due, Replayed, Oldest
  <2>2. stage' = stage /\ (peer[d] = "reset" => peer'[d] = "reset")
    BY DEF MonitorIInv, MonitorTypeOK, Read, Close, Reset, Connected
  <2> QED
    BY <1>3, <2>1, <2>2
<1> QED
  BY <1>1, <1>2, <1>3, QuietInv DEF Read, Close, Reset, samplerVars

LEMMA MonitorStepInv == MonitorIInv /\ [MonitorNext]_monitorVars => MonitorIInv'
<1> SUFFICES ASSUME MonitorIInv, [MonitorNext]_monitorVars PROVE MonitorIInv'
  OBVIOUS
<1>1. CASE Sampler
  BY <1>1, StoreInv, BroadcastBeginInv, BroadcastEndInv, PublishInv, DropInv DEF Sampler
<1>2. ASSUME NEW c \in Subs, Serve(c) PROVE MonitorIInv'
  BY <1>2, RegisterInv, ReplayBeginInv, ReplayInv, ReplayEndInv, ReplayFailsInv DEF Serve
<1>3. ASSUME NEW c \in Subs, Accept(c) \/ Read(c) \/ Close(c) \/ Reset(c) PROVE MonitorIInv'
  BY <1>3, AcceptInv, PeerInv
<1>4. CASE UNCHANGED monitorVars
  BY <1>4 DEF monitorVars, samplerVars, socketVars, MonitorIInv, MonitorTypeOK, HistoryLatest,
              Sampling, Stages, Windows, Window, Due, Replayed, Oldest
<1> QED
  BY <1>1, <1>2, <1>3, <1>4 DEF MonitorNext

\* A subscriber misses no sample between the first it is sent and the latest, whatever the
\* interleaving of its replay with broadcasts, for any history and any buffer.
THEOREM SubscribersMissNothing == MonitorSpec => []NoGap
<1>1. MonitorIInv => NoGap
  <2> SUFFICES ASSUME MonitorIInv, NEW c \in clients, stage[c] = "served", peer[c] # "reset"
               PROVE  \E first \in 1..(taken + 1) : got[c] \cup Due(c) = first..taken
    BY DEF NoGap
  <2>1. Window(c) /\ Replayed(c) = {}
    BY DEF MonitorIInv, Windows, Replayed
  <2> QED
    BY <2>1 DEF Window
<1> QED
  BY MonitorInitInv, MonitorStepInv, <1>1, PTL DEF MonitorSpec

\* The history never outgrows its size and the acceptor never replays more than there is.
THEOREM MonitorTypeCorrect == MonitorSpec => []MonitorTypeOK
<1>1. MonitorIInv => MonitorTypeOK
  BY DEF MonitorIInv
<1> QED
  BY MonitorInitInv, MonitorStepInv, <1>1, PTL DEF MonitorSpec
=============================================================================
