---------------------------- MODULE TunnelServer ----------------------------
(***************************************************************************)
(* The UDP tunnel server of vortexvpn/core/tunnel_server.py: the session   *)
(* table, the pool of virtual IPs, the idle reaper, and the two calls the  *)
(* web panel's threads make into it, stats() and kick().                   *)
(*                                                                         *)
(* Two kinds of actor share the object without a lock:                     *)
(*                                                                         *)
(*   - the asyncio event loop, one thread, which runs one callback at a    *)
(*     time: a received datagram, a readable TUN device, a pass of the     *)
(*     reaper, stop().  pc says which callback it is inside;               *)
(*   - Flask's request threads, which preempt the loop between any two of  *)
(*     its dictionary operations.                                          *)
(*                                                                         *)
(* A callback is therefore split where another thread can see or change    *)
(* _sessions between two of its dictionary operations, and nowhere else: a *)
(* single dict or list operation is atomic in CPython.                     *)
(*                                                                         *)
(* Time is counted in ticks.  The loop is taken to be prompt: no callback  *)
(* lasts a whole tick, and a due timer fires before the next tick.         *)
(***************************************************************************)
EXTENDS Integers, Sequences, FiniteSets, Functions

CONSTANTS Addr,        \* UDP source addresses
          Pool0,       \* _build_ip_pool(): the initial list of virtual IPs
          NoIP,        \* "0.0.0.0", given out when the pool is empty
          MaxClients,  \* max_clients
          IdleLimit,   \* a session is idle once its age exceeds this (120 s)
          ReapPeriod,  \* the reaper sleeps this long between passes (15 s)
          UseTun,      \* use_tun
          Viewers      \* web panel threads that call stats()

ASSUME ServerAssumption ==
    /\ IsFiniteSet(Addr)
    /\ Pool0 \in Seq(Range(Pool0))
    /\ IsInjective(Pool0)
    /\ NoIP \notin Range(Pool0)
    /\ MaxClients \in Nat
    /\ IdleLimit \in Nat
    /\ ReapPeriod \in Nat \ {0}
    /\ UseTun \in BOOLEAN

VARIABLES status,  \* "new", "listening", "running", "stopped" or "failed"
          reaper,  \* the reaper task: "none", "asleep" or "done"
          sleep,   \* ticks until the reaper's asyncio.sleep returns
          live,    \* the keys of _sessions
          vip,     \* vip[a]: virtual_ip of the session of a, NoIP without one
          age,     \* age[a]: now - last_seen of that session, up to MaxAge
          pool,    \* _virtual_ip_pool
          tun,     \* _tun is not None
          pc,      \* the callback the event loop is inside
          todo,    \* the addresses that callback still has to handle
          view     \* view[v]: v's iterator over _sessions.values()

loopVars == <<pc, todo>>
timeVars == <<reaper, sleep, age>>
vars == <<status, reaper, sleep, live, vip, age, pool, tun, pc, todo, view>>

IPs == Range(Pool0)

\* Ages beyond this one are not told apart.
MaxAge == IdleLimit + ReapPeriod + 1

NoView == -1

TypeOK ==
    /\ status \in {"new", "listening", "running", "stopped", "failed"}
    /\ reaper \in {"none", "asleep", "done"}
    /\ sleep \in 0..ReapPeriod
    /\ live \in SUBSET Addr
    /\ vip \in [Addr -> IPs \cup {NoIP}]
    /\ age \in [Addr -> 0..MaxAge]
    /\ pool \in Seq(IPs)
    /\ tun \in BOOLEAN
    /\ pc \in {"idle", "data", "tun", "reap"}
    /\ todo \in SUBSET Addr
    /\ view \in [Viewers -> Int]

Init ==
    /\ status = "new"
    /\ reaper = "none"
    /\ sleep = 0
    /\ live = {}
    /\ vip = [a \in Addr |-> NoIP]
    /\ age = [a \in Addr |-> 0]
    /\ pool = Pool0
    /\ tun = FALSE
    /\ pc = "idle"
    /\ todo = {}
    /\ view = [v \in Viewers |-> NoView]

-----------------------------------------------------------------------------
(* Lifecycle *)

\* start() up to its await: the socket is open, datagrams may already come in.
StartListening ==
    /\ status = "new"
    /\ status' = "listening"
    /\ UNCHANGED <<timeVars, live, vip, pool, tun, loopVars, view>>

\* start() after its await: the TUN device (when asked for, and when it is
\* available), _running, and the reaper task, which at once begins to sleep.
StartRunning ==
    /\ status = "listening"
    /\ pc = "idle"
    /\ status' = "running"
    /\ tun' \in (IF UseTun THEN BOOLEAN ELSE {FALSE})
    /\ reaper' = "asleep"
    /\ sleep' = ReapPeriod
    /\ UNCHANGED <<live, vip, age, pool, loopVars, view>>

\* start() raises: the port cannot be bound, or the TUN device exists and may
\* not be opened (only RuntimeError is caught).  _run_tunnel never gets to
\* run_forever, so no callback runs again.
StartFails ==
    /\ status = "new" \/ (status = "listening" /\ UseTun)
    /\ pc = "idle"
    /\ status' = "failed"
    /\ UNCHANGED <<timeVars, live, vip, pool, tun, loopVars, view>>

\* stop(): closes the transport and the device.  The sessions stay in the
\* table, and the reaper finds _running false after its next pass.
Stop ==
    /\ status = "running"
    /\ pc = "idle"
    /\ status' = "stopped"
    /\ UNCHANGED <<timeVars, live, vip, pool, tun, loopVars, view>>

-----------------------------------------------------------------------------
(* Datagrams *)

Receiving == status \in {"listening", "running"} /\ pc = "idle"

HasRoomOffByOne == Cardinality(live) <= MaxClients
\* _handle_handshake turns newcomers away at the limit.
HasRoom == Cardinality(live) < MaxClients

\* The virtual IP of a new session: the head of the pool while there is one.
LeasedIP == IF pool # <<>> THEN Head(pool) ELSE NoIP

PoolAfterLeasePeek == pool
PoolAfterLease == IF pool # <<>> THEN Tail(pool) ELSE pool

\* on_datagram from an unknown address: a well-formed HANDSHAKE_INIT whose
\* Diffie-Hellman succeeds makes a session.  Any other datagram, and any
\* datagram while the table is full, is dropped before it changes anything.
\* One step, although the reply is sent ahead of the insertion: nothing here but the
\* insertion is visible to other threads, they can only make more room, and the
\* loop handles no datagram in between.
Handshake(a) ==
    /\ Receiving
    /\ a \notin live
    /\ HasRoom
    /\ vip' = [vip EXCEPT ![a] = LeasedIP]
    /\ pool' = PoolAfterLease
    /\ live' = live \cup {a}
    /\ age' = [age EXCEPT ![a] = 0]
    /\ UNCHANGED <<status, reaper, sleep, tun, loopVars, view>>

DatagramKnownAnytime(a) ==
    /\ status \in {"listening", "running"}
    /\ a \in live
    /\ age' = [age EXCEPT ![a] = 0]
    /\ UNCHANGED <<status, reaper, sleep, live, vip, pool, tun, loopVars, view>>

\* on_datagram from an address it finds in _sessions.
DatagramKnown(a) ==
    /\ Receiving
    /\ a \in live
    /\ pc' = "data"
    /\ todo' = {a}
    /\ UNCHANGED <<status, timeVars, live, vip, pool, tun, view>>

\* _handle_data: the session is looked up again.  A kick in between makes this
\* a KeyError, which on_datagram logs; otherwise the session is touched before
\* the frame is opened, so a frame that fails to open counts as a sign of life.
HandleData ==
    /\ pc = "data"
    /\ pc' = "idle"
    /\ todo' = {}
    /\ age' = [a \in Addr |-> IF a \in todo \cap live THEN 0 ELSE age[a]]
    /\ UNCHANGED <<status, reaper, sleep, live, vip, pool, tun, view>>

-----------------------------------------------------------------------------
(* The TUN device: every packet goes to every session of a snapshot *)

TunReadable ==
    /\ status = "running"
    /\ tun
    /\ pc = "idle"
    /\ pc' = "tun"
    /\ todo' = live
    /\ UNCHANGED <<status, timeVars, live, vip, pool, tun, view>>

\* One session of the snapshot: sealed and sent even if it was kicked since.
TunSend(a) ==
    /\ pc = "tun"
    /\ a \in todo
    /\ todo' = todo \ {a}
    /\ UNCHANGED <<status, timeVars, live, vip, pool, tun, pc, view>>

TunEnd ==
    /\ pc = "tun"
    /\ todo = {}
    /\ pc' = "idle"
    /\ UNCHANGED <<status, timeVars, live, vip, pool, tun, todo, view>>

-----------------------------------------------------------------------------
(* The reaper *)

\* _reaper_loop drops a session once it was silent for more than the limit.
Expired(a) == age[a] > IdleLimit

\* The sleep is over: now is read, and the sessions to drop are those of a
\* snapshot of the table.  Their last_seen cannot change during the pass, since
\* only the loop's own thread touches a session.
ReapBegin ==
    /\ reaper = "asleep"
    /\ sleep = 0
    /\ pc = "idle"
    /\ pc' = "reap"
    /\ todo' = {a \in live : Expired(a)}
    /\ UNCHANGED <<status, timeVars, live, vip, pool, tun, view>>

\* The session object of a is garbage from here on.
Dropped(a) == /\ vip' = [vip EXCEPT ![a] = NoIP]
              /\ age' = [age EXCEPT ![a] = 0]

ReapStepStopsEarly(a) ==
    /\ pc = "reap"
    /\ a \in todo
    /\ todo' = {}
    /\ live' = live \ {a}
    /\ pool' = IF vip[a] # NoIP THEN Append(pool, vip[a]) ELSE pool
    /\ Dropped(a)
    /\ UNCHANGED <<status, reaper, sleep, tun, pc, view>>

ReapStepReturnsNoIP(a) ==
    /\ pc = "reap"
    /\ a \in todo
    /\ todo' = todo \ {a}
    /\ live' = live \ {a}
    /\ pool' = Append(pool, vip[a])
    /\ Dropped(a)
    /\ UNCHANGED <<status, reaper, sleep, tun, pc, view>>

ReapStepTrustsPop(a) ==
    /\ pc = "reap"
    /\ a \in todo
    /\ todo' = todo \ {a}
    /\ live' = live \ {a}
    /\ pool' = IF a \in live /\ vip[a] # NoIP THEN Append(pool, vip[a]) ELSE pool
    /\ Dropped(a)
    /\ UNCHANGED <<status, reaper, sleep, tun, pc, view>>

\* One idle session of the snapshot: pop(addr, None) does not care whether a
\* kick removed it in the meantime, and its virtual IP goes back to the pool.
ReapStep(a) ==
    /\ pc = "reap"
    /\ a \in todo
    /\ todo' = todo \ {a}
    /\ live' = live \ {a}
    /\ pool' = IF vip[a] # NoIP THEN Append(pool, vip[a]) ELSE pool
    /\ Dropped(a)
    /\ UNCHANGED <<status, reaper, sleep, tun, pc, view>>

ReapEndForGood ==
    /\ pc = "reap"
    /\ todo = {}
    /\ pc' = "idle"
    /\ reaper' = "done"
    /\ UNCHANGED <<status, sleep, age, live, vip, pool, tun, todo, view>>

\* The pass is over: sleep again, or leave the loop when stop() was called.
ReapEnd ==
    /\ pc = "reap"
    /\ todo = {}
    /\ pc' = "idle"
    /\ \/ status = "running" /\ sleep' = ReapPeriod /\ reaper' = reaper
       \/ status # "running" /\ reaper' = "done" /\ sleep' = sleep
    /\ UNCHANGED <<status, age, live, vip, pool, tun, todo, view>>

-----------------------------------------------------------------------------
(* The web panel's threads, which run whatever the loop is inside of *)

KickReturnsIP(a) ==
    /\ a \in live
    /\ live' = live \ {a}
    /\ pool' = IF vip[a] # NoIP THEN Append(pool, vip[a]) ELSE pool
    /\ vip' = IF pc = "reap" /\ a \in todo THEN vip ELSE [vip EXCEPT ![a] = NoIP]
    /\ age' = [age EXCEPT ![a] = 0]
    /\ UNCHANGED <<status, reaper, sleep, tun, loopVars, view>>

\* kick(a): the session is gone; its virtual IP does not go back to the pool.
\* For an address that has no session kick() changes nothing.
\* The session lives on only in the reaper's snapshot, if it is in there.
Kick(a) ==
    /\ a \in live
    /\ live' = live \ {a}
    /\ vip' = IF pc = "reap" /\ a \in todo THEN vip ELSE [vip EXCEPT ![a] = NoIP]
    /\ age' = [age EXCEPT ![a] = 0]
    /\ UNCHANGED <<status, reaper, sleep, pool, tun, loopVars, view>>

\* stats() begins to iterate: the iterator remembers the table's size.
StatsBegin(v) ==
    /\ view[v] = NoView
    /\ view' = [view EXCEPT ![v] = Cardinality(live)]
    /\ UNCHANGED <<status, timeVars, live, vip, pool, tun, loopVars>>

\* The iterator raises RuntimeError as soon as the table's size is another one.
StatsRaises(v) ==
    /\ view[v] # NoView
    /\ Cardinality(live) # view[v]
    /\ view' = [view EXCEPT ![v] = NoView]
    /\ UNCHANGED <<status, timeVars, live, vip, pool, tun, loopVars>>

\* The iterator is exhausted and the size still the one it remembered.
StatsReturns(v) ==
    /\ view[v] # NoView
    /\ Cardinality(live) = view[v]
    /\ view' = [view EXCEPT ![v] = NoView]
    /\ UNCHANGED <<status, timeVars, live, vip, pool, tun, loopVars>>

-----------------------------------------------------------------------------
\* A tick of time.time(), while no callback runs and no timer is due.
Tick ==
    /\ pc = "idle"
    /\ status # "listening"
    /\ reaper = "asleep" => sleep > 0
    /\ sleep' = IF sleep > 0 THEN sleep - 1 ELSE 0
    /\ age' = [a \in Addr |-> IF a \in live /\ age[a] < MaxAge
                              THEN age[a] + 1 ELSE age[a]]
    /\ UNCHANGED <<status, reaper, live, vip, pool, tun, loopVars, view>>

Lifecycle == StartListening \/ StartRunning \/ StartFails \/ Stop
Callback == HandleData \/ TunEnd \/ ReapEnd
                \/ \E a \in Addr : TunSend(a) \/ ReapStep(a)

Next ==
    \/ Lifecycle
    \/ Callback
    \/ ReapBegin
    \/ TunReadable
    \/ Tick
    \/ \E a \in Addr : Handshake(a) \/ DatagramKnown(a) \/ Kick(a)
    \/ \E v \in Viewers : StatsBegin(v) \/ StatsRaises(v) \/ StatsReturns(v)

Spec == Init /\ [][Next]_vars

\* The loop finishes the callbacks it begins, fires due timers (a reaper that is
\* due runs between two datagrams, never behind all of them), and time passes.
Fairness == WF_vars(Callback) /\ SF_vars(ReapBegin) /\ SF_vars(Tick)

FairSpec == Spec /\ Fairness

-----------------------------------------------------------------------------
(* Properties *)

\* The addresses whose virtual IP is spoken for: those in the table, and those
\* the reaper has yet to drop (a kick may have removed them from the table).
Holders == {a \in live \cup (IF pc = "reap" THEN todo ELSE {}) : vip[a] # NoIP}

\* The virtual IPs that are neither in the pool nor spoken for.
Lost == IPs \ (Range(pool) \cup {vip[a] : a \in Holders})

\* No two sessions of the table have the same virtual IP, whatever kicks came
\* between the reaper's snapshot and the pop of the session; "0.0.0.0" is not an
\* address of its own and is shared by all sessions that came to an empty pool.
NoSharedIP == \A a, b \in live : vip[a] = vip[b] /\ vip[a] # NoIP => a = b

\* The pool never holds an IP twice, nor one that a session still has: the next
\* pop(0) cannot hand out an address in use.
PoolSound ==
    /\ IsInjective(pool)
    /\ \A a \in Holders : vip[a] \notin Range(pool)
    /\ \A a, b \in Holders : vip[a] = vip[b] => a = b

\* max_clients is never exceeded (test_max_clients_enforced tries one address).
MaxClientsEnforced == Cardinality(live) <= MaxClients

\* The reaper decides on a snapshot and drops later, session by session: at every
\* drop the session is still idle.  A client heard from is never cut off.
ReapsOnlyIdle == pc = "reap" => \A a \in todo \cap live : Expired(a)

\* While the server runs, no session outlives its last datagram by more than the
\* limit and one sleep of the reaper (120 s + 15 s).
IdleSessionsGone ==
    status = "running" => \A a \in live : age[a] <= IdleLimit + ReapPeriod

\* a leaves the table while the loop stands still, and no virtual IP but its own is
\* out of circulation for that.
LosesOwnIP(a) ==
    /\ live' = live \ {a}
    /\ UNCHANGED loopVars
    /\ Lost' \subseteq Lost \cup {vip[a]}

\* Nothing but a kick takes a virtual IP out of circulation, and then only the one
\* of the session it removed: handshakes, reaper passes, and reaper passes overtaken
\* by kicks all keep account of theirs.  A kick is the only step that takes a session
\* out of the table while the loop stands still.
LossOnlyByKick ==
    [][Lost' \subseteq Lost \/ \E a \in live : LosesOwnIP(a)]_vars

\* An address that stays in the table for good is one that is heard from again
\* and again: the table does not fill up with the dead.
StaysOnlyIfHeard ==
    \A a \in Addr : <>[](a \in live /\ status = "running") => []<>(age[a] = 0)

\* The abstract specification, with the pool as the free IPs and the table as the
\* leases.
Lease == INSTANCE VirtualIPLease
    WITH free <- Range(pool),
         holder <- [a \in Addr |-> IF a \in live THEN vip[a] ELSE NoIP]

\* Every behaviour of the server keeps the promise of VirtualIPLease.
LeaseSpec == Lease!Spec

-----------------------------------------------------------------------------
(* What the documentation says and the code does not do *)

\* docs/ARCHITECTURE.md calls stats() thread-safe, a snapshot of the dict: the
\* table a request thread iterates over does not change its size under it.
StatsIsSnapshot == \A v \in Viewers : view[v] # NoView => view[v] = Cardinality(live)
=============================================================================
