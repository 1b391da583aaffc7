------------------------------ MODULE Monitor ------------------------------
(***************************************************************************)
(* The traffic monitor of java_monitor/VortexMonitor.java: one thread      *)
(* samples /proc, keeps the latest samples and broadcasts each of them;    *)
(* another accepts subscribers, registers them and replays the history to  *)
(* them.  The threads share two objects, each under its own lock: the      *)
(* history and the list of clients.  A write to a subscriber blocks while  *)
(* its socket buffer is full, with the lock held.                          *)
(*                                                                         *)
(* A sample is its number.  What it says about the machine is left out,    *)
(* and so is a sample that cannot be taken, which changes nothing here.    *)
(***************************************************************************)
EXTENDS Integers, Sequences

CONSTANTS Subs,        \* the subscribers, each of which connects once
          HistorySize, \* historySize
          Room,        \* the lines that fit between a write and the subscriber's read
          MaxSamples   \* bound on the samples taken

ASSUME MonitorAssumption ==
    HistorySize \in Nat /\ Room \in Nat \ {0} /\ MaxSamples \in Nat

VARIABLES taken,    \* the number of the latest sample
          history,  \* history: the latest samples, oldest first
          sampler,  \* the sampler is "asleep", about to "publish", or in "broadcast"
          todo,     \* the clients that broadcast has not come to
          clients,  \* clients
          stage,    \* stage[c]: how far the acceptor is with c
          next,     \* next[c]: the lines of the history replayed to c
          peer,     \* peer[c]: the other end of c's connection is "open", "closed",
                    \* or known to be ("reset")
          got,      \* got[c]: history variable, the samples written to c
          unread    \* unread[c]: the lines c has not read

samplerVars == <<taken, history, sampler, todo>>
socketVars == <<peer, unread>>
monitorVars == <<samplerVars, clients, stage, next, socketVars, got>>

Handled == {"accepted", "registered", "replaying"}

MonitorTypeOK ==
    /\ taken \in 0..MaxSamples
    /\ history \in Seq(1..MaxSamples)
    /\ sampler \in {"asleep", "publish", "broadcast"}
    /\ todo \subseteq Subs
    /\ clients \subseteq Subs
    /\ stage \in [Subs -> {"away", "served"} \cup Handled]
    /\ next \in [Subs -> 0..HistorySize]
    /\ peer \in [Subs -> {"open", "closed", "reset"}]
    /\ got \in [Subs -> SUBSET (1..MaxSamples)]
    /\ unread \in [Subs -> 0..Room]

MonitorInit ==
    /\ taken = 0
    /\ history = <<>>
    /\ sampler = "asleep"
    /\ todo = {}
    /\ clients = {}
    /\ stage = [c \in Subs |-> "away"]
    /\ next = [c \in Subs |-> 0]
    /\ peer = [c \in Subs |-> "open"]
    /\ got = [c \in Subs |-> {}]
    /\ unread = [c \in Subs |-> 0]

-----------------------------------------------------------------------------
(* Writes.  Lines are written whole, whoever writes them. *)

CanWrite(c) == peer[c] # "reset" /\ unread[c] < Room

Write(c, sample) ==
    /\ got' = [got EXCEPT ![c] = @ \cup {sample}]
    /\ unread' = [unread EXCEPT ![c] = @ + 1]
    /\ UNCHANGED peer

-----------------------------------------------------------------------------
(* The sampler *)

Locked == \E c \in Subs : stage[c] = "replaying"

TrimmedOneMore(h) == IF Len(h) > HistorySize + 1 THEN Tail(h) ELSE h
\* It grows by one sample at a time, so that the loop runs at most once.
Trimmed(h) == IF Len(h) > HistorySize THEN Tail(h) ELSE h

\* A new sample enters the history, under its lock.
Store ==
    /\ sampler = "asleep"
    /\ taken < MaxSamples
    /\ ~Locked
    /\ taken' = taken + 1
    /\ history' = Trimmed(Append(history, taken + 1))
    /\ sampler' = "publish"
    /\ UNCHANGED <<todo, clients, stage, next, socketVars, got>>

\* broadcast() takes the lock of the list and keeps it to the end: the list is the
\* one it began with, except for the clients it removes itself.
BroadcastBegin ==
    /\ sampler = "publish"
    /\ sampler' = "broadcast"
    /\ todo' = clients
    /\ UNCHANGED <<taken, history, clients, stage, next, socketVars, got>>

Publish(c) ==
    /\ c \in todo
    /\ CanWrite(c)
    /\ Write(c, taken)
    /\ todo' = todo \ {c}
    /\ UNCHANGED <<taken, history, sampler, clients, stage, next>>

DropKept(c) ==
    /\ c \in todo
    /\ peer[c] = "reset"
    /\ todo' = todo \ {c}
    /\ UNCHANGED <<taken, history, sampler, clients, stage, next, socketVars, got>>

DropEndsBroadcast(c) ==
    /\ c \in todo
    /\ peer[c] = "reset"
    /\ clients' = clients \ {c}
    /\ todo' = {}
    /\ UNCHANGED <<taken, history, sampler, stage, next, socketVars, got>>

\* The write fails: the client is removed from the list.
Drop(c) ==
    /\ c \in todo
    /\ peer[c] = "reset"
    /\ clients' = clients \ {c}
    /\ todo' = todo \ {c}
    /\ UNCHANGED <<taken, history, sampler, stage, next, socketVars, got>>

BroadcastEnd ==
    /\ sampler = "broadcast"
    /\ todo = {}
    /\ sampler' = "asleep"
    /\ UNCHANGED <<taken, history, todo, clients, stage, next, socketVars, got>>

-----------------------------------------------------------------------------
(* The acceptor, which handles one connection at a time *)

Stage(c, from, to) == stage[c] = from /\ stage' = [stage EXCEPT ![c] = to]

Accept(c) ==
    /\ \A d \in Subs : stage[d] \notin Handled
    /\ Stage(c, "away", "accepted")
    /\ UNCHANGED <<samplerVars, clients, next, socketVars, got>>

\* clients.add() waits for a broadcast to end, and so does clients.size() after it,
\* which nothing depends on.
Register(c) ==
    /\ sampler # "broadcast"
    /\ Stage(c, "accepted", "registered")
    /\ clients' = clients \cup {c}
    /\ UNCHANGED <<samplerVars, next, socketVars, got>>

\* The acceptor has the history's lock until the replay is over.
ReplayBegin(c) ==
    /\ Stage(c, "registered", "replaying")
    /\ UNCHANGED <<samplerVars, clients, next, socketVars, got>>

Replay(c) ==
    /\ stage[c] = "replaying"
    /\ next[c] < Len(history)
    /\ CanWrite(c)
    /\ Write(c, history[next[c] + 1])
    /\ next' = [next EXCEPT ![c] = @ + 1]
    /\ UNCHANGED <<samplerVars, clients, stage>>

ReplayEnd(c) ==
    /\ next[c] = Len(history)
    /\ Stage(c, "replaying", "served")
    /\ UNCHANGED <<samplerVars, clients, next, socketVars, got>>

\* A write of the replay fails.  The client stays in the list.
ReplayFails(c) ==
    /\ peer[c] = "reset"
    /\ next[c] < Len(history)
    /\ Stage(c, "replaying", "served")
    /\ UNCHANGED <<samplerVars, clients, next, socketVars, got>>

-----------------------------------------------------------------------------
(* The subscribers *)

Connected(c) == peer[c] = "open" /\ stage[c] # "away"

Read(c) ==
    /\ Connected(c)
    /\ unread[c] > 0
    /\ unread' = [unread EXCEPT ![c] = @ - 1]
    /\ UNCHANGED <<samplerVars, clients, stage, next, peer, got>>

Close(c) ==
    /\ Connected(c)
    /\ peer' = [peer EXCEPT ![c] = "closed"]
    /\ UNCHANGED <<samplerVars, clients, stage, next, unread, got>>

\* The monitor's end learns that the other one is gone: the next write fails.
Reset(c) ==
    /\ peer[c] = "closed"
    /\ peer' = [peer EXCEPT ![c] = "reset"]
    /\ UNCHANGED <<samplerVars, clients, stage, next, unread, got>>

-----------------------------------------------------------------------------

Sampler == Store \/ BroadcastBegin \/ BroadcastEnd \/ \E c \in Subs : Publish(c) \/ Drop(c)

ServeReplayFirst(c) ==
    \/ Stage(c, "accepted", "replaying") /\ UNCHANGED <<samplerVars, clients, next, socketVars, got>>
    \/ Replay(c)
    \/ /\ next[c] = Len(history)
       /\ Stage(c, "replaying", "registered")
       /\ UNCHANGED <<samplerVars, clients, next, socketVars, got>>
    \/ /\ sampler # "broadcast"
       /\ Stage(c, "registered", "served")
       /\ clients' = clients \cup {c}
       /\ UNCHANGED <<samplerVars, next, socketVars, got>>

Serve(c) ==
    \/ Register(c)
    \/ ReplayBegin(c)
    \/ Replay(c)
    \/ ReplayEnd(c)
    \/ ReplayFails(c)

MonitorNext ==
    \/ Sampler
    \/ \E c \in Subs : Accept(c) \/ Serve(c) \/ Read(c) \/ Close(c) \/ Reset(c)

MonitorSpec == MonitorInit /\ [][MonitorNext]_monitorVars

\* Both threads go on, subscribers read until they close, and the news that one has
\* closed gets through.
MonitorFairness ==
    /\ WF_monitorVars(Sampler)
    /\ \A c \in Subs : /\ SF_monitorVars(Serve(c))
                       /\ WF_monitorVars(Read(c))
                       /\ WF_monitorVars(Reset(c))

FairMonitorSpec == MonitorSpec /\ MonitorFairness

-----------------------------------------------------------------------------
(* Properties *)

\* What c is still going to be written of the broadcast under way.
Due(c) == IF sampler = "publish" \/ c \in todo THEN {taken} ELSE {}

\* Registered first and replayed second, a subscriber misses no sample: what it was
\* written once the replay is over begins somewhere and runs to the latest sample
\* without a hole, however the replay and broadcasts overlap.
NoGap ==
    \A c \in clients : stage[c] = "served" /\ peer[c] # "reset" =>
        \E first \in 1..(taken + 1) : got[c] \cup Due(c) = first..taken

\* A subscriber that is in the list when a sample is published is written that sample,
\* or dropped.
EverySampleDelivered ==
    \A c \in Subs, s \in 1..MaxSamples :
        sampler = "publish" /\ taken = s /\ c \in clients ~> s \in got[c] \/ c \notin clients

\* A subscriber that has closed its end, even in the middle of its replay, leaves the list
\* when enough samples follow to fill its socket and one more.
ClosedForgotten ==
    \A c \in Subs :
        peer[c] = "closed" /\ c \in clients /\ taken + Room < MaxSamples ~> c \notin clients
=============================================================================
