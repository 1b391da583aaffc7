# VortexVPN in TLA+

Specifications of VortexVPN, the UDP tunnel with a web panel in this repository, the
TLC runs that check them on small instances, and the TLAPS proofs of what matters most
for every instance. Paths are relative to the repository's root.

- [1. The system](#1-the-system)
- [2. The modules](#2-the-modules)
- [3. The runs](#3-the-runs)
- [4. Fairness](#4-fairness)
- [5. The proofs](#5-the-proofs)
- [6. Where the code and its documentation part](#6-where-the-code-and-its-documentation-part)
- [7. What is not modelled](#7-what-is-not-modelled)
- [8. The plan](#8-the-plan)

## 1. The system

One server process runs an asyncio event loop (the tunnel) on one thread and Flask (the
panel) on many. They share one `TunnelServer` and one `AuthManager`; **neither takes a
lock**. Clients are separate processes, each an asyncio loop of its own. The Java monitor
is another process, which shares nothing with the server but the machine. The launcher
scripts and the command line start these processes and change the same SQLite file.

| Component | State | Operations | Talks to |
|---|---|---|---|
| Tunnel server `vortexvpn/core/tunnel_server.py` | `_sessions` (address, engine, virtual IP, `last_seen`), `_virtual_ip_pool`, `_running`, TUN device, reaper task | `start`, `stop`, `on_datagram` (`_handle_handshake`, `_handle_data`), `_on_tun_readable`, `_reaper_loop`, `stats`, `kick` | clients (UDP), panel (calls from its threads) |
| Tunnel client `vortexvpn/core/tunnel_client.py` | `_pending`, `_connected`, engine, keepalive task | `start`, `_do_handshake`, `on_datagram`, `_on_tun_readable`, `_keepalive_loop`, `stop` | server (UDP) |
| Wire protocol `vortexvpn/core/protocol.py` | none | `Packet` and handshake (de)serialisation | both ends |
| Crypto engine `vortexvpn/core/crypto.py` | `_tx_key`, `_rx_key`, `_tx_ctr`, `_rx_ctr`, `_use_accel` | `derive_session_keys`, `seal`, `open` | accelerator |
| Accelerator `cpp_module/vortex_accel.cpp` | none between calls | AES-GCM, SHA-256, comparison | engine |
| Auth manager `vortexvpn/core/auth.py` | SQLite table of users; `_failed_attempts` and `_banned_until` in memory | `authenticate` (`_check_ban`), `issue_token`, `verify_token`, create, delete, reset, activate | panel threads, CLI processes |
| Web panel `vortexvpn/web/app.py` | cookie per browser | login, `login_required`, users, stats, kick | server, auth manager |
| Configuration `vortexvpn/core/config.py` | none after load | merge of defaults, file, environment | all |
| CLI, bootstrap, admin shell `vortexvpn/cli.py`, `bootstrap.py`, `admin_shell.py` | secrets file, config file | users, `link`, `settings`, `reset-password` | SQLite, files, launchers |
| Launchers `scripts/quick-start.sh`, `manage.sh` | PID file, secrets file | start, stop, restart | bootstrap, the server's process |
| Monitor `java_monitor/VortexMonitor.java` | history ring, subscriber list | sample, broadcast, accept and replay | subscribers (TCP) |

**Hard behaviours.** What a unit test of this code would hardly reach, and the properties
that stand guard (the complete list with lines is `hazards` in `PROJECT.json`):

- *A panel thread in the middle of a callback.* `kick` pops a session between the reaper's
  snapshot and its own pop, or between `on_datagram`'s test and `_handle_data`'s lookup.
  Correct means: a virtual IP is with one session, or in the pool, or (a kick) gone, and
  never in two places.
- *The reaper decides, then acts.* It may drop only what is still idle, must drop all that
  is, and must come back; otherwise the table fills with the dead and `max_clients` locks
  everybody out.
- *UDP.* A handshake or its reply is lost, repeated or late. Neither end may derive keys
  twice for one session, and the two ends must part only when the server drops the session.
- *A counter as nonce,* reset by every derivation, with an accelerator that may fail
  halfway through a seal.
- *Read, hash, write.* A login reads bans, failures and the row, hashes for a third of a
  second, and writes; other logins and the administrator do the same meanwhile.
- *Register, then replay.* The monitor's acceptor puts a subscriber into the list and then
  writes it the history, while the sampler appends to both; writes block.
- *Three files and no lock.* Start, stop and reset-password write the secrets file, the
  database and the PID file one after the other, empty a file before they fill it, and may be
  interrupted anywhere. Correct means: the next start puts right what was left behind, and what
  it prints is true.
- *A cookie that travels.* A page is asked for with the cookie of one moment and its answer
  arrives at another; accounts are deactivated, demoted, deleted and made again, and the secret
  rotated, in between and from other processes. Correct means: signing out lasts, and nobody changes
  an account who was not, at one moment of the request, an active administrator.
- *Lengths from the wire.* The first octet of a handshake says where every other field begins, and
  anyone may send it. Correct means: what one end put in the other takes out, and nothing is
  taken out that is not there.
- *Editing TOML line by line.* `link` and `settings` replace, inject and skip lines of a file
  that users edit too, again and again.

## 2. The modules

| Module | What it is |
|---|---|
| `VirtualIPLease` | abstract: a virtual IP is free, leased or lost, never two of these |
| `TunnelServer` | the server object, its loop and the panel's threads |
| `TunnelClient` | one client per source address |
| `Tunnel` | clients and server over a network that repeats, reorders and loses |
| `AuthChannel` | abstract: a peer is handed only what the other peer sent |
| `CryptoEngine` | two engines with the same key material, and the accelerator |
| `AccessControl` | abstract: who presents a password or a token is judged by the account of one moment |
| `Auth` | `AuthManager` under the panel's threads, and the administrator |
| `Monitor` | the monitor's sampler and acceptor, and its subscribers |
| `Launcher` | start, stop, reset-password and bootstrap over secrets, database and PID file |
| `ConfigFile` | `load_config`, and the edits of `link` and `settings` |
| `Panel` | the panel's routes, cookies and guards over the table of users, next to admin shell and command line |
| `Protocol` | packets and handshake payloads, made and parsed octet by octet |
| `MCTunnelServer`, `MCTunnel`, `MCAuth`, `MCLauncher`, `MCConfigFile`, `MCPanel`, `MCProtocol` | the small instances |
| `TunnelProofs`, `CryptoEngineProofs`, `AuthProofs`, `MonitorProofs`, `LauncherProofs`, `ConfigFileProofs`, `PanelProofs`, `ProtocolProofs` | the theorems |

### TunnelServer

| Variable | Code |
|---|---|
| `status` | the life of the object: `listening` between the socket and the end of `start()` |
| `live`, `vip`, `age` | `_sessions`: its keys, `virtual_ip`, `time.time() - last_seen` |
| `pool` | `_virtual_ip_pool`, in order: `pop(0)` and `append` |
| `reaper`, `sleep` | the task of `_reaper_loop` and what is left of its `asyncio.sleep` |
| `tun` | `_tun is not None` |
| `pc`, `todo` | the callback the loop is inside, and the rest of the snapshot it goes through |
| `view[v]` | the size that a thread's iterator over `_sessions.values()` remembers |

An asyncio callback runs to its next await without another callback in between, but Flask's
threads run between any two of its bytecodes. So a callback is cut exactly where it looks at
`_sessions` twice: `DatagramKnown`/`HandleData`, `ReapBegin`/`ReapStep`/`ReapEnd`,
`TunReadable`/`TunSend`/`TunEnd`. `Handshake` is one step: it inserts once, and what other
threads do before that can only make room. `Kick` and the three steps of `stats()` run at any
time. The code sends the reply (line 157) ahead of the insertion (line 162), here they are one step: the
loop handles no datagram in between, so that nothing can tell, although for that instant a client may
have an answer and no session. Time is `age` per session, saturating at `MaxAge`, and `sleep`; there is no absolute
clock to bound. `stats()`'s iterator is modelled by CPython's rule: it raises as soon as the
dict's size is not the one it began with.

### TunnelClient and Tunnel

The client's awaits do not suspend, so each of its callbacks is a step. Its keepalive task is
created before the reply can arrive and finds `_connected` false: the loop ends before its first
ping (`KeepaliveEnds`), so no keepalive is ever sent. `net` is the set of datagrams that the
network can still deliver, any number of times and in any order; `Lose` removes one for good.
`DeliverInit` is the server's `Handshake` joined with its effect on the wire (`Greet`); `MissInit` is the
handshake that comes to a full table, or to no socket, and is dropped without an answer: the client
sends no other. `missed` remembers it, as `ended` does the sessions that are over.
`DeliverToSession` covers every datagram from an address in the table. Keys are the pair of a
Diffie-Hellman secret (address and epoch) and the KDF salt of the side that derived them.

### CryptoEngine

`Derive`, `Seal`, `OpenGood` and `OpenBad` are `derive_session_keys`, `seal` and `open`. A key
is a half of the material of one handshake; `TxHalf`/`RxHalf` are the role's choice.
`AccelAfterAttempt` is the fallback: the accelerator fails at any call, is switched off and the
backend does the work again. Ciphers are ideal: only a frame sealed under the key opens. This
module gives both engines the same salt, which the tunnel's callers do not manage to do
(`KeysAgree` below): it is about the engine, not about its callers.

### Auth

One username: no operation looks at two. `authenticate` is cut at every access to a
dictionary or the database: `Login` (gate), `ReadFailures`, `StoreFailures`, `CountFailures`,
`BanClearsFailures`, `Lookup`, `FindList`, `AppendFailure`, `ClearFailures`, `Accept`.
`held` tells whether the list a thread got from `setdefault` is still the dictionary's.
`verify_token` is `PresentToken` and `Admit`. The administrator's statements are one SQL
statement each. A password is named by the change that set it, 0 is one nobody set.
`seen`, `guesses` and `overlapped` are history and guard nothing. `_check_ban` looks its list up
twice; when a login on another thread removed it in between, the second lookup raises `KeyError`:
`OnlyOverlapsRaiseKeyError` says that nothing else makes it.

`Visits` maps a thread to a visitor of `AccessControl`: a login is *asking* until its password is
compared, *granted* from then until the token is made, and *out* as soon as its refusal is certain, however
much of the bookkeeping is still to come. A login that was found right may still get no token
(`Forbid`): at the administrators' form an account that is none gets a 403, and `issue_token` raises on a
name that is no ASCII. `AccessControl` lets a visitor be turned away at any time: what it promises is that
nobody gets a token, or is admitted, without having been in the right at one moment.

### Monitor

| Variable | Code |
|---|---|
| `taken`, `history` | the samples so far, and `history`, the oldest first |
| `sampler`, `todo` | where `sampleLoop` is, and what is left of `broadcast`'s loop |
| `clients`, `stage`, `next` | `clients`, and how far the acceptor is with each subscriber |
| `peer`, `unread` | the connection, and the lines that have been written and not read |

The sampler holds the list's lock for a whole broadcast (`Publish`, `Drop`), the acceptor holds
the history's for a whole replay (`ReplayBegin` to `ReplayEnd`): the steps in between are cut at
every write, which blocks when the socket is full and fails when the peer is known to be
gone. `got` is history. What a sample says is left out.

### Launcher

| Variable | Code |
|---|---|
| `file` | `.vortex-secrets.env`: does it exist, and what it says |
| `db` | the password hash of `admin` |
| `pidfile`, `server`, `pids` | `vortexvpn.pid`, the process that has the ports, and `$!` |
| `cmd[c]` | the command in terminal `c`: its next step, the shell's variables, what was typed |

A step of a command is one access to a file, the database or a process, so that everything
else can happen in between; `Truncate` and `Write` are the two halves of `cat >` and of
`write_text`. `Crash` ends a command anywhere. `Look`, `BootReset`, `BootCreate` and `BootFails` are
`bootstrap.py`, whose exit code the script throws away (`refused` remembers it for the properties).
The secrets file holds the password as it was typed, without quotes, and `source` evaluates it. Of the
passwords people type, those the shell reads as something else are one value, `Special`: `Misread` ends the
start, or goes on with some other password, and with the secret or, if a backslash has joined the lines,
without. `SummaryTrue` is about the password a start ends up with, which is what it prints but for `echo -e`.
`reset-password` of the command line and of the admin shell are the same steps. `--restart` is
`Stop` and then `Start`. `alone`, `overlaps`, `crashes` and `signed` are history.

### ConfigFile

A file is a sequence of lines. tomllib and the edits need not read a line alike, so that a line says both
what it is to tomllib (`header`, `name`, `value`) and what the edits see in it: the section they think it
opens (`seen`: it begins with `[` and ends with `]`) and the key its text begins with (`starts`).
`Section`, `Says` and `Parses` are what TOML makes of the file, `Load` what `load_config` does;
`SeenSection`, `Found` and `Matches` are what the edits go by, and `Written` what they write, without
escapes: `Quoted[v]` is what tomllib reads of v between quotes, which may be nothing it accepts (`Broken`).
`Linked` is `cmd_link`'s loop, with the injection where `[web]` is seen to end, `Saved` the loop of
`settings`, which replaces the first line it takes for the key. A file is `Orderly` if tomllib accepts it
and the edits see what it does; `orderly` remembers that the local one began as such and that no edit was
given a value that needs an escape. The properties are about orderly files; of all others the model has the behaviour
and section 6 the consequences.

The keys are those that the two commands treat differently from each other: one only `settings`
knows, the two of `link`, the top-level `log_level`, and the one of that name that the example really
sets, inside `[security]`. `etc`, `home` and `local` are the three files of `load_config`'s list, `running`
what the server was started with, or `Down`, also when tomllib rejects the file.

### Panel

| Variable | Code |
|---|---|
| `accounts` | the table of users: is there a row, `is_admin`, `is_active` |
| `secret` | `web.secret_key`, which signs tokens and Flask's cookies |
| `cookie[b]` | the token in the session of browser `b` |
| `req[t]` | the request of tab `t`: its route, the token it was sent with, the one its answer carries |
| `toggle[s]` | what `do_toggle` of the admin shell read, negated, before it writes |

Flask's session is the cookie: a request carries the whole of it and so does an answer whose session
was modified. A login's answer (`Authenticate`), a `logout`'s and a refusal of `login_required`, which
pops the token (`Verify`), set it when they arrive (`Answer`), in whatever order; the answer of a page
that was let through sets nothing. A refused login flashes a message, so that it sends the cookie of
its request back. `Verify` is one SQL statement, `Manage` another one: `Shell`, other tabs,
`ToggleRead`/`ToggleWrite` and `Restart` run in between. The administrator may also deactivate or
delete itself, as in the code. Passwords, bans and expiry are left to `Auth`: `Authenticate` lets in
any active account. `was` is history.

### Protocol

A datagram is a header (`magic`, `type`, `flags`, `plen`) and the octets after it, where `whole` says
whether the header is complete. `Serialize`, `Deserializes`, `Deserialize`, `MakeInit`, `ParseInit`,
`MakeReply` and `ParseReply` are the functions of `protocol.py`; `Slice` is Python's `s[a:b]`,
which does not fail when `b` is past the end, and that is why every parser compares lengths first. A
name is a string and `Utf8` its octets; octets that are nobody's encoding are `UnicodeDecodeError`.
The two ends' steps are `ClientGreets`, `ServerReplies`, `ServerReceives` and `ClientReceives`, and
`StrangerSends` puts anything into a datagram. One is on the way at a time: orders and losses are
`Tunnel`'s, and parsing does not depend on what came before but for `connected`.

## 3. The runs

| Run | Module, cfg | States | Shows |
|---|---|---|---|
| `server` | `MCTunnelServer`, `server.cfg` | 83,081 | pool, table and reaper under every interleaving with kicks and stats; refinement of `VirtualIPLease`; liveness of the reaper |
| `tunnel` | `MCTunnel`, `tunnel.cfg` | 349,546 | client and session agree until the session is dropped; handshakes complete when nothing is lost and the table had a place |
| `channel` | `CryptoEngine`, `channel.cfg` | 12,001 | nonces unique; refinement of `AuthChannel` |
| `auth` | `MCAuth`, `auth.cfg` | 2,087,856 | the limit on guesses; logins and tokens are judged by a row that was there; refinement of `AccessControl` |
| `monitor` | `Monitor`, `monitor.cfg` | 55,896 | a subscriber misses no sample, every sample is delivered, the closed are forgotten |
| `launcher` | `MCLauncher`, `launcher.cfg` | 2,094,731 | what a start prints is true whatever earlier commands left; tokens survive; stop stops |
| `config` | `MCConfigFile`, `config.cfg` | 20,038 | edits keep a file valid that they read as TOML does, and change what was asked for; what `link` set lasts |
| `panel` | `MCPanel`, `panel.cfg` | 299,780 | accounts are changed by who may; signing out lasts, whatever answers are still under way |
| `protocol` | `MCProtocol`, `protocol.cfg` | 504,354 | handshakes are understood octet for octet; nothing is read past a length |
| 3 more | `finding_*.cfg` | | a property the documentation states and the code violates, see section 6 |

**Bounds.** All are constants, chosen for the case that matters to happen:

- `server`: 3 addresses for 2 places, so that somebody is turned away; 2 virtual IPs, so that
  one kick dries the pool and a session runs on `0.0.0.0`; `IdleLimit` and `ReapPeriod` 2, so
  that a session can go idle before, during and after a pass; one viewer (viewers do not affect
  anyone, two would only be two copies). There is no bound on steps: the state space is finite
  by itself.
- `tunnel`: 2 clients for one place, so that a handshake meets a full table; `MaxEpochs` 2 (an address
  comes back after its session was dropped, or the other client takes the place), `MaxLosses` 1, one
  virtual IP. `IdleLimit` 0 and `ReapPeriod` 1 are the
  least that let the reaper race the datagrams. The TUN device and `stats()` are left out
  here: they touch nothing the clients can see, and `server` explores them.
- `channel`: `NonceLimit` 2 stands for 2^96: the counter runs out. 2 handshakes, 3 frames and
  2 successful opens a side: a frame of the old session meets the keys of the new one.
- `auth`: 2 threads and 4 requests: two failures, the request that meets the threshold, and one
  after the ban. `Threshold`, `Window`, `BanTime` 2 with a clock to 2, `TTL` 1, so that failures age,
  bans end and tokens expire. 2 changes: created and reset, deactivated or deleted. The threads are
  symmetric.
- `monitor`: 2 subscribers, a history of 2, room for 1 unread line, 3 samples: a replay spans a
  broadcast, a sample leaves the history before it is replayed, and a full socket blocks both threads.
- `launcher`: 2 terminals, so that any two commands overlap; 2 names, the secret and password of
  the first start and one that comes later, a password that is too short, and `Special`, one the shell
  misreads; 2 launches, the second a restart; 1 interruption. Terminals are symmetric. The constraint
  `Explored` follows the last two only while commands do not overlap, which halves the states:
  overlapping commands with such passwords are covered by the proofs only.
- `config`: one new value for every key and a second URL, which has a quote in it and breaks the file.
  The example and three other orderly shapes: keys of `link` missing, `[web]` last, `log_level` where TOML
  wants it. Six files that tomllib and the edits do not read alike, or that are no TOML: a key that begins
  with another one's name, once of `[web]` and once of `[tunnel]`, a header with a comment, one with blanks,
  a quoted key, a second `[web]`. Any number of edits; the files are finitely many because no edit of an
  orderly file adds a key twice, which is `Readable`, and none of the others does it again and again.
- `panel`: one browser of 2 tabs, so that an answer can overtake another (tabs are symmetric); 2 names, one of
  them with a dot, of which either can be administrator, user, disabled or gone; one shell with a toggle
  pending; 2 secrets, one restart with rotation and any number without.
- `protocol`: numbers are scaled down and keep their order. Octets to 3, fields of one octet, names of 0, 1
  and 2 octets, the last one a character of two, and one of 3, which is too long; payloads to 6 and a
  length field to 7, so that it may exceed the limit, the datagram, or what is needed. Strangers send every
  datagram of these sizes over three octets, behind every first one.

**Properties**, by what would break them:

| Property | Broken by, for instance |
|---|---|
| `NoSharedIP`, `PoolSound` | an IP returned both by a kick and by the reaper |
| `MaxClientsEnforced` | a comparison off by one |
| `ReapsOnlyIdle` | a datagram handled in the middle of a pass |
| `IdleSessionsGone` | a pass that ends after its first drop |
| `LossOnlyByKick` | a reaper that returns the IP only of a session it popped itself |
| `StaysOnlyIfHeard` | a reaper that does not come back |
| `LeaseSpec` | any step that moves an IP other than by the four steps of `VirtualIPLease` |
| `ConnectedOrDropped`, `EngineKept` | a repeated handshake that makes a new engine |
| `ClientKeysOnce` | a repeated reply that derives again |
| `ConnectsUnlessLost` | a handshake without its reply |
| `NonceOnce` | a counter that advances only when the accelerator succeeds |
| `ChannelSpec` | both roles with the same halves |
| `GuessLimit` | a window off by one |
| `AcceptsCurrentPassword` | a lookup that forgets `is_active` |
| `OnlyOverlapsRaiseKeyError` | a purge that stores no empty list, which the count then misses |
| `AdmitsActiveOnly` | tokens that are trusted without a look at the account |
| `AccessSpec` | a token taken without a look at its age |
| `NoGap` | a replay before the registration |
| `EverySampleDelivered`, `ClosedForgotten` | a failed write that ends the broadcast, or does not remove the subscriber |
| `SummaryTrue` | a bootstrap that leaves an existing password alone |
| `SummaryNamesServer` | a summary without a look at the process |
| `TokensSurvive` | a new password that comes with a new secret |
| `StopStops` | a restart that does not kill |
| `Readable`, `LinkLasts` | a key injected that was replaced, or injected one line late |
| `OnlyWhatWasAsked` | `settings` replacing keys of the same name elsewhere |
| `OnlyAdminsChange` | a guard that looks at the role and not at the token or `is_active` |
| `LogoutSticks` | a page that sends its session back on every request |
| `Understood` | an offset that forgets the octet of the length |
| `NothingInvented` | a parser that compares lengths one short |

`GuessLimit` is stated for logins that do not overlap. When they do, the failures of one
are lost in the purge of the other and there is no limit to state: that is the code's
behaviour, listed under `hazards`.

## 4. Fairness

- `WF(Callback)`, `WF(LoopStep)`: the event loop finishes the callback it is in. Nothing in
  these callbacks blocks.
- `SF(ReapBegin)`: asyncio puts a timer that is due into the ready queue at the next iteration,
  behind a finite number of callbacks. With weak fairness a stream of datagrams could
  disable it (`pc # "idle"`) again and again; the real loop lets it through.
- `SF(Tick)`: time passes. `Tick` waits for the callback and for a due timer: the loop is
  taken to be prompt on the scale of a tick (seconds). Only `IdleSessionsGone` depends on this; a
  loop that is late by d drops an idle session d later.
- `tunnel`: `WF(DeliverReply)` and `SF(InitArrives)`: a datagram that is not lost is delivered in
  the end. For a handshake this is said of `InitArrives`, its first arrival, whatever it finds: a place
  (`DeliverInit`), or a full table or no socket (`MissInit`), after which the client's only HANDSHAKE_INIT
  is gone. The network may repeat it, but no fairness makes it do so. Strong, because a server that is
  inside a callback disables the delivery and enables it again. The clients' keepalive tasks run. Nobody
  is obliged to start, stop, kick, or send.
- `monitor`: `WF(Sampler)`, the timer's thread. `SF(Serve(c))`: the acceptor needs the list's lock, which
  the sampler takes and leaves again and again but not while it sleeps between samples. `WF(Read)`:
  subscribers read until they close; the code has no timeout that would replace this, so a
  subscriber that stops reading blocks the sampler for good. `WF(Reset)`: TCP reports a closed peer
  after something was written to it.
- `channel`, `auth`, `launcher`, `config`, `panel` and `protocol` have no liveness properties and no fairness.

## 5. The proofs

TLAPS checks them for every value of the constants that satisfies the module's `ASSUME`s
(finite set of addresses; a pool without repetitions and without `0.0.0.0`; numbers that
are natural numbers; a failures' window no longer than a ban; an example of the configuration that is
orderly).

**`TunnelProofs`, the server.** `IInv` is `TypeOK`, `PoolSound`, `MaxClientsEnforced`, `ReapsOnlyIdle` and
what ties the reaper's snapshot to the loop. `NoSharedIP` alone is not inductive: a
session kicked from under the reaper is in no table and still holds an IP that the next `ReapStep`
will append. `PoolSound` therefore speaks of `Holders`, the table *and* the rest of the snapshot.
`PopFacts` and `AppendFacts` say what `pop(0)` and `append` do to a list without repetitions. One
lemma per action, then:
`TypeCorrect`, `VirtualIPsSafe` and `PoolStaysSound` (`NoSharedIP`, `PoolSound`), `LimitKept`,
`ReaperCorrect`, `IdleOnesGo` (`IdleSessionsGone`), `OnlyKicksLose` (an action property: an IP leaves
circulation only with its own session, taken out of the table while the loop stands still) and `ServerImplementsLease`, where a reaper step on a kicked
session is the abstract `Recover`, a handshake on a dry pool a stutter.

**`TunnelProofs`, the composition.** `TunnelImplementsServer`: every step of the composition is a step or a stutter of
the server, so all of the above hold with clients and network attached. `TunnelIInv` ties
every reply in the network and every connected client to the session it belongs to
or to `ended`; `InSyncUntilDropped` follows, and `KeysDerivedOnce` and `EngineKeysStay` (`ClientKeysOnce` and
`EngineKept`, action properties). `WireIInv` adds what an epoch on the
wire may be, for `TunnelTypeCorrect`.

**`CryptoEngineProofs`.** `NonceOnce` needs that all frames under the current key were sealed
before the counter (`SealedBefore`) and that a peer's keys are its role's halves of its last handshake
(`KeysOfRole`): `NoncesUnique`. From the same invariant `EnginesImplementChannel`: a frame that
opens under `rx` was sealed under the other's `tx`. `EngineTypeCorrect` is its type invariant.

**`AuthProofs`.** `AuthIInv`: every request under way has seen the row that is there now (`SeesRow`), and
a request past the comparison has seen an active row with its password (`Vetted`):
`AccountIsChecked` and `TokensAdmitActive`.

`TypeIInv` adds to the types that every list of failures is in the order of time and has none to come
(`Timely`), and that a list somebody is about to append to is still in the dictionary (`HeldIsThere`):
`AuthTypeCorrect`. What `_check_ban`'s comprehension returns, of a list of any length, is proved by
induction in the one form the provers can use: a nonempty set of natural numbers has a least element
(`Least`, from the library's `WFMin`), so the shortest prefix of which the comprehension would keep
something wrong does not exist (`RecentIs`). Of a list in order it is the list without its first k.

`GuessLimit` says nothing of the list, and alone is not inductive. `SerialIInv` ties the two together while
no logins have overlapped: the list is the history of wrong guesses without its first k, and each
of those has left the window, or will have when the ban ends (`Forgotten`; here `Window <= BanTime` is
needed, for the ban empties the list). At most one login is under way, and `LoginSound` says what it
knows at each of its steps: no guess is younger than its clock, the gate was open when it passed, the list
it is about to store is what the purge leaves, and from the threshold check on the list is shorter
than the threshold. So a guess is appended only when the guess `Threshold` places before it is a
forgotten one. `GuessesAreLimited`, and from the same invariant `KeyErrorNeedsOverlap`.

`AuthImplementsAccess`: every step of `Auth` is a step of one visitor of `AccessControl` or a stutter
(`OneVisit`, `Waits`, `Leaves`, then `StepSimulated` with one case per action). `Lookup` is where a login is
granted or turned away, `Admit` where a token is; between that moment and the end only `Forbid` turns
anybody away, and a change to the account is only `Change`.

**`MonitorProofs`.** What a subscriber has been written is a window of the samples, and the part of the
history it has still to be replayed is the next one: the invariant says of every stage where
the two windows meet and what the broadcast under way still owes (`SubscribersMissNothing`,
`MonitorTypeCorrect`).

**`LauncherProofs`.** `StartSound` says what a start that is alone has made sure of at each of its
steps: from `source` on its variables are the file's, or what the shell made of a `Special` one, from `check`
on its password is the database's unless bootstrap was refused, from `echo` on the PID it knows belongs
to a server with its secret, if to any. `ActorStep` shows once that a step of one command cannot disturb another that is
alone, because there is none; then one lemma per action, and
`SummaryTellsTheTruth`, `ServerIsNamed` and `LauncherTypeCorrect`, for any number of terminals and
interruptions. The type invariant needs that `reset-password` takes no short password (`OfItsOp`).

A second invariant, `SerialIInv`, is about commands that do not overlap. It says of the one command that
is under way, if any, how the file's secret, the shell's and those servers signed with hang together
(`SecretSound`: one secret, which only an interruption can empty) and who knows the server's PID
(`ServerSound`: the PID file, or the command at `echo`). `SerialStep` hands both on from one command
to the next. From it `SecretsOutlast` (`TokensSurvive`) and `StoppedIsGone` (`StopStops`).

**`ConfigFileProofs`.** For any orderly example, any files a user may have written and any values;
`ConfigAssumption` adds that names and values are strings. `Fine` is an orderly file in the form the proofs use
(`OrderlyIs`, `FineParses`): its lines are `[section]` or `name = value`, no section and no key twice. In such a file
the edits find a key exactly where it is (`SeenIs`, `SeenSectionIs`, `FoundIs`, `MatchesAre`), which turns prefixes and
brackets into sections and keys (`ReplacedAt`, `SavedAt`). `SectionIs` is the section of a line by
the last header before it, found with `Least` again; `SamePlaces`: changing values moves no section and no
key; `SpliceIs` and `SplicedSections`: lines put in before line e leave the sections of all others alone and
belong to the section that ends there, which `EndOfWeb` shows to be `[web]`. From these `Injected`,
`ReplacedSays` and `SavedSays` say what `load_config` reads afterwards, for every key; that a place of a
key is *the* place (`SaysIs`) needs that the file parses. `ConfigIInv` has that an orderly local file is
`Fine`, and that `link` never leaves it absent, without which a restart would bring the example in its place:
`EditsStayReadable` (`Readable`), `EditsAreExact` (`OnlyWhatWasAsked`) and `LinkOutlastsRestart` (`LinkLasts`).

**`PanelProofs`.** `OnlyAdminsChange` needs `Watched`: between the arrival of a request and its change the
history `was` is true as soon as the token's account is an active administrator's, whoever made it
one; `LogoutSticks` needs that only a login's answer carries a token (`OnlyLoginsSignIn`).
`Fine` states both for one request, so that each action is proved for the one tab it moves
(`OneTab`), and `WriteInv` once for all statements that change a row. `ChangesAreByAdmins`,
`SignedOutStaysOut` and `PanelTypeCorrect`, for any number of browsers, tabs, shells and names.

**`ProtocolProofs`.** For all lengths, octets and names, under the limits the code states
(`ProtocolAssumption`: the longest hello and a reply fit into `MAX_PAYLOAD`): `PacketRoundTrip`,
`HelloRoundTrip` and `ReplyRoundTrip` (parse of serialise is what was put in; the layout lemmas
compute where each field begins in the concatenation, `Slice` takes it out again), and the converse, that
what a parser accepts is what a maker of those fields would have written (`HelloFound`,
`ReplyFound`). With the invariant that a hello or reply on the way is a maker's:
`HandshakesUnderstood` and `ParsersInventNothing`.

Every invariant and every action property that a run checks is stated by one of these theorems, and
so are the three refinements. Model-checked only are the liveness properties (`StaysOnlyIfHeard`,
`ConnectsUnlessLost`, `EverySampleDelivered`, `ClosedForgotten`): they depend on fairness, which needs
`ENABLED`, out of the prover's reach.

## 6. Where the code and its documentation part

Each with a run is a property that TLC refutes.

| Run | Property | What happens |
|---|---|---|
| `stats_snapshot` | `StatsIsSnapshot` | `stats()` iterates over the live dict; a handshake in between makes it raise |
| `keys_agree` | `KeysAgree` | each side draws its own KDF salt: keys of a completed handshake differ |
| `ban_holds` | `BanHolds` | a login that passed the gate before the ban lifts it |

Without a run, because the model takes the code's side and there is nothing to refute in it, or
the step is visible in one action:

- `kick` forgets the virtual IP (`Kick`, `LossOnlyByKick`): each one makes the pool smaller for good.
- A client whose only HANDSHAKE_INIT, or its reply, is lost, or comes to a full table, waits for good
  (`ConnectsUnlessLost` allows it, by `losses` and `missed`), where a comment promises a reconnection.
- A frame that fails to authenticate in the accelerator frees a cipher context twice (`OpenBad`).
- Tokens are looked up in the database at every request; the documentation calls them stateless.
- `open` never compares a nonce with an earlier one.
- Client and server disagree on the packet header around a DATA frame.
- A username with a dot gives tokens that do not parse.
- An interruption between the two halves of writing the secrets file leaves it empty for good, and
  the server signs with the configuration's secret (`TokensSurvive` allows it after a crash).
- A login that succeeds on another thread makes one that fails raise `KeyError`, which no caller
  catches (`CountFailures`; `OnlyOverlapsRaiseKeyError` says when).
- Bootstrap fails, nobody looks, and the summary prints a password that opens nothing (`BootFails`;
  `SummaryTrue` is stated for starts whose bootstrap was not refused).
- Bootstrap resets the password of an administrator that exists and leaves a disabled account
  disabled, and a role that is missing, missing (`Restart` of `Panel`).
- A name in a handshake that is no UTF-8 raises `UnicodeDecodeError`, which is no `ProtocolError`
  (`ParseInit`).
- A username that is no ASCII can be created and cannot sign in.
- `settings` cannot change `log_level` in a file made from the example (`StrayKey`), and reports success.
- The shell evaluates the password in the secrets file: with a blank, a `$` or a quote in it a start ends, or the
  database gets another password than the one that was typed (`Misread`).
- `link` and `settings` take a line for a key if it begins with the key's name: `public_url_old` becomes a second
  `public_url`, which tomllib rejects, and `max_clients_x` is overwritten for `max_clients` (`Found`).
- They write values without escapes: a quote in a URL makes a file that tomllib rejects (`Written`).
- They pass over a header with a comment behind it, so that `link` may inject its keys into another
  section, where nobody reads them (`AfterWeb`).
- After `install.sh` the server reads a file in `/etc` that `link` and `settings` do not edit
  (`Launched`, `LinkLasts`).

`PROJECT.json` quotes the lines.

## 7. What is not modelled

- Byte counters and bandwidth quotas (`add_bandwidth_used` has no caller).
- The mathematics of ciphers, KDFs and X25519; the pycryptodome shims.
- The characters of a token: `Panel` keeps of its string that names with a dot do not parse. `struct`'s byte
  order, and the octets of a header that is cut short.
- A token outlives the account it names: one deleted and created again under the same name is admitted
  with it. The code binds tokens to names, so there is no property to state (`Panel` does it too).
- `manage.sh`, whose PID file lives elsewhere and is handled in the same way; the building and
  installing part of the scripts; `client-start.sh`.
- PIDs that come back: `kill -9` on a stale PID file hits a stranger.
- Of the configuration the keys that no command edits, three that `settings` treats like `max_clients` (the ports
  and the MTU), and whatever is only passed through. Of TOML dotted keys, values over several lines, arrays
  of tables, comments of their own line, and the difference between the string "8" and the number 8, which
  `settings` writes for what looks like one. The properties claim nothing of files with the first three.
- What exactly the shell makes of a password it does not take literally, and that `echo -e` prints backslashes as
  something else.
- What a sample of the monitor says, and its shutdown hook.
- Logging, HTML, the TypeScript frontend, Docker: presentation and packaging.
- A restart of the server in `TunnelServer` and `Auth`: sessions, bans and failures are in memory, so
  that it is `Init` with the database kept. In `Panel` and `Launcher`, where cookies, files and the database
  outlive it, it is modelled.
- Three components are only partly modelled because the rest is ciphers (engine, accelerator) or the
  kernel's device (TUN); the command line, the admin shell and the scripts because the rest prints,
  asks and installs.

## 8. The plan

1. Done: the modules of section 2, their runs, and the proofs of section 5.
2. An abstract specification for `Launcher` (a server that is up or down, with one secret and one
   password, changed only by commands) and for `Monitor` (a stream), refined by the modules.
3. PIDs that are used again: a start or stop that finds a stale PID file and kills a stranger.
4. `Auth` over a restart, where bans and failures are forgotten and the database is not.
