------------------------------ MODULE Launcher ------------------------------
(***************************************************************************)
(* The commands that start and stop the server and change its              *)
(* administrator's password: scripts/quick-start.sh with                   *)
(* vortexvpn/bootstrap.py, and reset-password of the command line and of   *)
(* the admin shell.  They are processes of their own, take no lock, may be *)
(* interrupted anywhere, and meet in three places that nothing keeps       *)
(* together: the secrets file, the users' database and the PID file.       *)
(*                                                                         *)
(* Passwords, web secrets and PIDs are numbers in the order in which they  *)
(* came up, 0 for none.  A server without a secret signs with the one in   *)
(* the configuration.  A PID is not used again.  The virtual environment,  *)
(* the dependencies and the configuration file are left out.               *)
(*                                                                         *)
(* The secrets file holds the password as it was typed, and a start has    *)
(* the shell evaluate it.  Of the passwords that people type, those with   *)
(* blanks, quotes, $, ;, &, #, a backslash or the like in them, which the  *)
(* shell reads as something else, are one value, Special.                  *)
(***************************************************************************)
EXTENDS Integers, FiniteSets

CONSTANTS Cmds,        \* the terminals commands are typed in
          MaxMinted,   \* bound on the passwords and secrets that come up
          MaxPids,     \* bound on the servers that are launched
          MaxCrashes   \* bound on the commands that are interrupted

ASSUME LauncherAssumption == Cmds # {} /\ {MaxMinted, MaxPids, MaxCrashes} \subseteq Nat

VARIABLES file,     \* .vortex-secrets.env
          db,       \* the password of admin in the database
          pidfile,  \* vortexvpn.pid, 0 if it is missing or empty
          server,   \* the process that has the ports
          minted,   \* how many passwords and secrets have come up
          pids,     \* how many servers have been launched
          cmd,      \* cmd[c]: the command in c, or how its last one ended
          alone,    \* history: the command nothing has happened next to, if there is one
          crashes,  \* how many commands have been interrupted
          overlaps, \* history: two commands have been under way at once
          signed    \* history: the secrets that servers have signed tokens with

diskVars == <<file, db, pidfile>>
serverVars == <<server, pids>>
historyVars == <<alone, crashes, overlaps, signed>>
launcherVars == <<diskVars, serverVars, minted, cmd, historyVars>>

NoFile == [exists |-> FALSE, pass |-> 0, secret |-> 0]
Empty == [exists |-> TRUE, pass |-> 0, secret |-> 0]
NoServer == [pid |-> 0, secret |-> 0]

\* A password of fewer than eight characters, which AuthManager refuses, and one that is
\* long enough but not what the shell makes of it.
Short == -1
Special == -2
Names == 0..MaxMinted
Passwords == Names \cup {Short, Special}

\* The secret of a start whose shell has joined the file's secret to a password that ends
\* in a backslash: like 0 it means the configuration's.
Unread == -1
SecretNames == Names \cup {Unread}

Resting == {"idle", "summary", "stopped"}
StartSteps == {"file", "source", "look", "reset", "create", "check", "launch", "echo", "verify"}
StopSteps == {"check", "term", "kill", "remove"}
ResetSteps == {"database", "read"}

\* op: the command; typed: the password that was typed; pass, secret: the shell's variables,
\* or the content it is about to write; pid: $!; refused: history, bootstrap failed.
Commands == [op : {"start", "stop", "reset"},
             pc : Resting \cup StartSteps \cup StopSteps \cup ResetSteps \cup {"truncate", "write"},
             typed : Passwords, pass : Passwords, secret : SecretNames, pid : 0..MaxPids,
             refused : BOOLEAN]
Idle == [op |-> "stop", pc |-> "idle", typed |-> 0, pass |-> 0, secret |-> 0, pid |-> 0,
         refused |-> FALSE]

LauncherTypeOK ==
    /\ file \in [exists : BOOLEAN, pass : Passwords, secret : Names]
    /\ db \in Names \cup {Special}
    /\ pidfile \in 0..MaxPids
    /\ server \in [pid : 0..MaxPids, secret : SecretNames]
    /\ minted \in Names
    /\ pids \in 0..MaxPids
    /\ cmd \in [Cmds -> Commands]
    /\ alone \subseteq Cmds
    /\ crashes \in 0..MaxCrashes
    /\ overlaps \in BOOLEAN
    /\ signed \subseteq SecretNames

LauncherInit ==
    /\ file = NoFile
    /\ db = 0
    /\ pidfile = 0
    /\ server = NoServer
    /\ minted = 0
    /\ pids = 0
    /\ cmd = [c \in Cmds |-> Idle]
    /\ alone = {}
    /\ crashes = 0
    /\ overlaps = FALSE
    /\ signed = {}

-----------------------------------------------------------------------------
(* Commands *)

At(c, pc) == cmd[c].pc = pc
Goto(c, pc) == cmd' = [cmd EXCEPT ![c].pc = pc]
End(c) == cmd' = [cmd EXCEPT ![c] = Idle]

Fresh == minted + 1

Begin(c, op, pc, typed) ==
    /\ cmd[c].pc \in Resting
    /\ cmd' = [cmd EXCEPT ![c] = [Idle EXCEPT !.op = op, !.pc = pc, !.typed = typed,
                                              !.pass = typed]]
    /\ IF \A d \in Cmds \ {c} : cmd[d].pc \in Resting
       THEN alone' = {c} /\ UNCHANGED overlaps
       ELSE alone' = {} /\ overlaps' = TRUE
    /\ minted' = IF typed = Fresh THEN Fresh ELSE minted
    /\ UNCHANGED <<diskVars, serverVars, crashes, signed>>

\* quick-start.sh, with --password=... or without
Start(c) ==
    \E typed \in {0, Short, Special, Fresh} \cap Passwords : Begin(c, "start", "file", typed)

\* quick-start.sh --stop.  --restart is this one and then the other.
Stop(c) == Begin(c, "stop", "check", 0)

\* reset-password, once it has found admin.  A short password changes nothing.
ResetPassword(c) ==
    /\ db # 0
    /\ \E typed \in {Special, Fresh} \cap Passwords : Begin(c, "reset", "database", typed)

-----------------------------------------------------------------------------
(* Start: the secrets *)

\* A file is generated if there is none, ...
Generate(c) ==
    /\ At(c, "file")
    /\ ~file.exists
    /\ Fresh \in Names
    /\ cmd' = [cmd EXCEPT ![c].pc = "truncate", ![c].secret = Fresh,
                          ![c].pass = IF cmd[c].typed = 0 THEN Fresh ELSE cmd[c].typed]
    /\ minted' = Fresh
    /\ UNCHANGED <<diskVars, serverVars, historyVars>>

UpdateRegenerates(c) ==
    /\ At(c, "file")
    /\ file.exists
    /\ cmd[c].typed # 0
    /\ Fresh \in Names
    /\ cmd' = [cmd EXCEPT ![c].pc = "truncate", ![c].secret = Fresh]
    /\ minted' = Fresh
    /\ UNCHANGED <<diskVars, serverVars, historyVars>>

\* ... changed if a password was typed, ...
Update(c) ==
    /\ At(c, "file")
    /\ file.exists
    /\ cmd[c].typed # 0
    /\ cmd' = [cmd EXCEPT ![c].pc = "truncate", ![c].secret = file.secret]
    /\ UNCHANGED <<diskVars, serverVars, minted, historyVars>>

\* ... and otherwise kept.
Keep(c) ==
    /\ At(c, "file")
    /\ file.exists
    /\ cmd[c].typed = 0
    /\ Goto(c, "source")
    /\ UNCHANGED <<diskVars, serverVars, minted, historyVars>>

\* Both the shell's redirection and Path.write_text empty the file, then fill it.
Truncate(c) ==
    /\ At(c, "truncate")
    /\ file' = Empty
    /\ Goto(c, "write")
    /\ UNCHANGED <<db, pidfile, serverVars, minted, historyVars>>

Write(c) ==
    /\ At(c, "write")
    /\ file' = [exists |-> TRUE, pass |-> cmd[c].pass, secret |-> cmd[c].secret]
    /\ IF cmd[c].op = "reset" THEN End(c) ELSE Goto(c, "source")
    /\ UNCHANGED <<db, pidfile, serverVars, minted, historyVars>>

\* What the file does not say is left as the environment had it.
Source(c) ==
    /\ At(c, "source")
    /\ file.pass # Special
    /\ cmd' = [cmd EXCEPT ![c].pc = "look", ![c].secret = file.secret, ![c].typed = 0,
                          ![c].pass = IF file.pass = 0 THEN cmd[c].typed ELSE file.pass]
    /\ UNCHANGED <<diskVars, serverVars, minted, historyVars>>

\* A password the shell does not take literally: evaluating it may end the start, which
\* runs under set -e; otherwise the password is another one, maybe too short or empty, or the
\* environment's, and need not be the same at the next start.
Misread(c) ==
    /\ At(c, "source")
    /\ file.pass = Special
    /\ \/ End(c) /\ UNCHANGED minted
       \/ \E pass \in {cmd[c].typed, 0, Short, Fresh} \cap Passwords,
             secret \in {file.secret, Unread} :
             /\ cmd' = [cmd EXCEPT ![c].pc = "look", ![c].secret = secret, ![c].typed = 0,
                                   ![c].pass = pass]
             /\ minted' = IF pass = Fresh THEN Fresh ELSE minted
    /\ UNCHANGED <<diskVars, serverVars, historyVars>>

-----------------------------------------------------------------------------
(* Start: the bootstrap.  The shell goes on whatever becomes of it. *)

Refused(c) == cmd' = [cmd EXCEPT ![c].pc = "check", ![c].refused = TRUE]

Look(c) ==
    /\ At(c, "look")
    /\ Goto(c, CASE db = 0 -> "create"
                 [] db # 0 /\ cmd[c].pass # 0 -> "reset"
                 [] OTHER -> "check")
    /\ UNCHANGED <<diskVars, serverVars, minted, historyVars>>

BootResetUnchecked(c) ==
    /\ At(c, "reset")
    /\ Goto(c, "check")
    /\ db' = IF db = 0 THEN 0 ELSE cmd[c].pass
    /\ UNCHANGED <<file, pidfile, serverVars, minted, historyVars>>

BootResetNever(c) ==
    /\ At(c, "reset")
    /\ Goto(c, "check")
    /\ UNCHANGED <<diskVars, serverVars, minted, historyVars>>

\* The UPDATE does nothing if the row has gone.
BootReset(c) ==
    /\ At(c, "reset")
    /\ IF cmd[c].pass = Short
       THEN Refused(c) /\ UNCHANGED db
       ELSE Goto(c, "check") /\ db' = IF db = 0 THEN 0 ELSE cmd[c].pass
    /\ UNCHANGED <<file, pidfile, serverVars, minted, historyVars>>

\* Without a password in the environment bootstrap draws one, and its output is thrown away.
BootCreate(c) ==
    /\ At(c, "create")
    /\ IF cmd[c].pass = Short \/ db # 0
       THEN Refused(c) /\ UNCHANGED <<db, minted>>
       ELSE IF cmd[c].pass # 0
       THEN Goto(c, "check") /\ db' = cmd[c].pass /\ UNCHANGED minted
       ELSE Goto(c, "check") /\ Fresh \in Names /\ db' = Fresh /\ minted' = Fresh
    /\ UNCHANGED <<file, pidfile, serverVars, historyVars>>

\* Anything else that may go wrong in it: the database is locked, the configuration broken.
BootFails(c) ==
    /\ cmd[c].pc \in {"look", "reset", "create"}
    /\ Refused(c)
    /\ UNCHANGED <<diskVars, serverVars, minted, historyVars>>

-----------------------------------------------------------------------------
(* Start and stop: the process *)

Alive(pid) == pid # 0 /\ server.pid = pid
Killed(pid) == IF Alive(pid) THEN NoServer ELSE server

CheckSkipsKill(c) ==
    /\ At(c, "check")
    /\ Goto(c, IF cmd[c].op = "start" THEN "launch"
               ELSE IF Alive(pidfile) THEN "term" ELSE "stopped")
    /\ UNCHANGED <<diskVars, serverVars, minted, historyVars>>

Check(c) ==
    /\ At(c, "check")
    /\ Goto(c, IF Alive(pidfile) THEN "term"
               ELSE IF cmd[c].op = "start" THEN "launch" ELSE "stopped")
    /\ UNCHANGED <<diskVars, serverVars, minted, historyVars>>

\* kill, sleep 1, kill -9.  Each reads the PID file again.
Kill(c) ==
    /\ cmd[c].pc \in {"term", "kill"}
    /\ server' = Killed(pidfile)
    /\ Goto(c, IF At(c, "term") THEN "kill" ELSE "remove")
    /\ UNCHANGED <<diskVars, pids, minted, historyVars>>

Remove(c) ==
    /\ At(c, "remove")
    /\ pidfile' = 0
    /\ Goto(c, IF cmd[c].op = "start" THEN "launch" ELSE "stopped")
    /\ UNCHANGED <<file, db, serverVars, minted, historyVars>>

\* A server that finds its ports taken ends at once.
Launch(c) ==
    /\ At(c, "launch")
    /\ pids < MaxPids
    /\ pids' = pids + 1
    /\ IF server = NoServer
       THEN /\ server' = [pid |-> pids + 1, secret |-> cmd[c].secret]
            /\ signed' = signed \cup {cmd[c].secret}
       ELSE UNCHANGED <<server, signed>>
    /\ cmd' = [cmd EXCEPT ![c].pc = "echo", ![c].pid = pids + 1]
    /\ UNCHANGED <<diskVars, minted, alone, crashes, overlaps>>

Echo(c) ==
    /\ At(c, "echo")
    /\ pidfile' = cmd[c].pid
    /\ Goto(c, "verify")
    /\ UNCHANGED <<file, db, serverVars, minted, historyVars>>

VerifyNot(c) ==
    /\ At(c, "verify")
    /\ Goto(c, "summary")
    /\ UNCHANGED <<diskVars, serverVars, minted, historyVars>>

Verify(c) ==
    /\ At(c, "verify")
    /\ IF Alive(pidfile) THEN Goto(c, "summary") ELSE End(c)
    /\ UNCHANGED <<diskVars, serverVars, minted, historyVars>>

-----------------------------------------------------------------------------
(* reset-password: the database first, then the file *)

ResetDatabase(c) ==
    /\ At(c, "database")
    /\ db' = IF db = 0 THEN 0 ELSE cmd[c].pass
    /\ IF db # 0 THEN Goto(c, "read") ELSE End(c)
    /\ UNCHANGED <<file, pidfile, serverVars, minted, historyVars>>

\* Lines are replaced: a file without a password stays without.
ResetRead(c) ==
    /\ At(c, "read")
    /\ IF file.exists
       THEN cmd' = [cmd EXCEPT ![c].pc = "truncate", ![c].secret = file.secret,
                               ![c].pass = IF file.pass = 0 THEN 0 ELSE @]
       ELSE End(c)
    /\ UNCHANGED <<diskVars, serverVars, minted, historyVars>>

-----------------------------------------------------------------------------
(* What happens to them *)

Crash(c) ==
    /\ cmd[c].pc \notin Resting
    /\ crashes < MaxCrashes
    /\ crashes' = crashes + 1
    /\ End(c)
    /\ UNCHANGED <<diskVars, serverVars, minted, alone, overlaps, signed>>

ServerDies ==
    /\ server # NoServer
    /\ server' = NoServer
    /\ alone' = {}
    /\ UNCHANGED <<diskVars, pids, minted, cmd, crashes, overlaps, signed>>

\* del-user admin
DeleteAdmin ==
    /\ db # 0
    /\ db' = 0
    /\ alone' = {}
    /\ UNCHANGED <<file, pidfile, serverVars, minted, cmd, crashes, overlaps, signed>>

-----------------------------------------------------------------------------

Secrets(c) == Generate(c) \/ Update(c) \/ Keep(c) \/ Truncate(c) \/ Write(c)
              \/ Source(c) \/ Misread(c)
Bootstrap(c) == Look(c) \/ BootReset(c) \/ BootCreate(c) \/ BootFails(c)
Process(c) == Check(c) \/ Kill(c) \/ Remove(c) \/ Launch(c) \/ Echo(c) \/ Verify(c)

LauncherNext ==
    \/ \E c \in Cmds :
          \/ Start(c) \/ Stop(c) \/ ResetPassword(c)
          \/ Secrets(c) \/ Bootstrap(c) \/ Process(c)
          \/ ResetDatabase(c) \/ ResetRead(c)
          \/ Crash(c)
    \/ ServerDies
    \/ DeleteAdmin

LauncherSpec == LauncherInit /\ [][LauncherNext]_launcherVars

-----------------------------------------------------------------------------
(* Properties *)

Summary(c) == At(c, "summary") /\ c \in alone

\* A start that nothing else interferes with puts right whatever earlier commands left
\* behind, wherever they were interrupted: the password it ends up with, if it has one and
\* bootstrap takes it, opens the panel, and it is the file's, unless that is one the shell
\* reads as something else.
SummaryTrue ==
    \A c \in Cmds :
        Summary(c) /\ cmd[c].pass # 0 /\ ~cmd[c].refused =>
            /\ db = cmd[c].pass
            /\ file.pass \in {cmd[c].pass, Special}

\* After such a start the server that answers is the one the PID file names, and it signs
\* tokens with the secret in the file, if the password next to it did not hide it.
SummaryNamesServer ==
    \A c \in Cmds : Summary(c) =>
        /\ Alive(pidfile)
        /\ server.secret = file.secret \/ (file.pass = Special /\ server.secret = Unread)

\* Neither restarts nor new passwords log anybody out, as long as commands do not overlap
\* and no password hides the secret: all servers sign with one generated secret.  After an
\* interruption there is at worst none: a second one is never generated.
TokensSurvive ==
    ~overlaps => /\ Cardinality(signed \ {0, Unread}) <= 1
                 /\ crashes = 0 => 0 \notin signed

\* As long as no two commands overlap and none is interrupted, a server is gone once a
\* command that stops it is.
StopStops ==
    ~overlaps /\ crashes = 0 =>
        \A c \in Cmds : At(c, "stopped") /\ c \in alone => server = NoServer
=============================================================================
