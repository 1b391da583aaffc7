--------------------------- MODULE LauncherProofs ---------------------------
(***************************************************************************)
(* What Launcher promises, for any terminals and bounds and for passwords  *)
(* the shell takes literally or does not: the summary of a start that      *)
(* nothing interferes with tells the truth about the password, the server  *)
(* and the secret; and as long as commands do not overlap, no second       *)
(* secret is generated, and what is stopped is gone.                       *)
(***************************************************************************)
EXTENDS Launcher, FiniteSetTheorems, TLAPS

-----------------------------------------------------------------------------
(* The inductive invariant *)

\* Which steps belong to which command, that reset-password takes no short password, and
\* that whoever writes the file writes a secret it has read there or generated.
OfItsOp(k) ==
    /\ k.pc \in {"file", "source", "look", "reset", "create", "launch", "echo", "verify",
                 "summary"} => k.op = "start"
    /\ k.pc \in {"truncate", "write"} => k.op \in {"start", "reset"}
    /\ k.pc \in {"database", "read"} => k.op = "reset"
    /\ k.op = "reset" => k.pass \in Names \cup {Special}
    /\ k.pc \in {"truncate", "write"} => k.secret \in Names

\* Next to a command that is alone the other terminals rest.
AloneRests == \A c \in alone : \A d \in Cmds \ {c} : d \notin alone /\ cmd[d].pc \in Resting

\* The steps that come after bootstrap, and after source.
Checked == {"check", "term", "kill", "remove", "launch", "echo", "verify", "summary"}
Sourced == {"look", "reset", "create"} \cup Checked

\* What a start that is alone has made sure of, step by step.
PasswordKept(c) ==
    /\ At(c, "file") => cmd[c].pass = cmd[c].typed
    /\ At(c, "truncate") \/ At(c, "write") => cmd[c].pass # 0
    /\ At(c, "source") /\ cmd[c].typed # 0 => file.pass # 0
    /\ cmd[c].pc \in Sourced /\ cmd[c].pass # 0 => file.pass \in {cmd[c].pass, Special}
    /\ At(c, "reset") => cmd[c].pass # 0 /\ db # 0
    /\ At(c, "create") => db = 0
    /\ cmd[c].pc \in Checked /\ cmd[c].pass # 0 /\ ~cmd[c].refused => db = cmd[c].pass
SecretKept(c) ==
    cmd[c].pc \in Sourced =>
        \/ cmd[c].secret = file.secret
        \/ file.pass = Special /\ cmd[c].secret = Unread
ServerNamed(c) ==
    /\ cmd[c].pc \in {"echo", "verify", "summary"} /\ server.pid = cmd[c].pid =>
           server.secret = cmd[c].secret
    /\ cmd[c].pc \in {"verify", "summary"} => pidfile = cmd[c].pid
    /\ At(c, "summary") => Alive(pidfile)

StartSound(c) ==
    cmd[c].op = "start" => PasswordKept(c) /\ SecretKept(c) /\ ServerNamed(c)

LauncherIInv ==
    /\ LauncherTypeOK
    /\ \A c \in Cmds : OfItsOp(cmd[c])
    /\ AloneRests
    /\ server.pid <= pids
    /\ \A c \in alone : StartSound(c)

-----------------------------------------------------------------------------
(* A step of one command *)

\* A step of a command disturbs no other command that is alone: there is none.
LEMMA ActorStep ==
    ASSUME LauncherIInv, NEW c \in Cmds, cmd[c].pc \notin Resting, alone' = alone,
           LauncherTypeOK', \A d \in Cmds \ {c} : cmd'[d] = cmd[d],
           OfItsOp(cmd'[c]), server'.pid <= pids', c \in alone => StartSound(c)'
    PROVE  LauncherIInv'
<1>1. \A d \in Cmds : OfItsOp(cmd'[d])
  BY DEF LauncherIInv
<1>2. \A d \in alone : d = c
  BY DEF LauncherIInv, AloneRests, LauncherTypeOK
<1>3. AloneRests'
  BY <1>2 DEF LauncherIInv, AloneRests
<1> QED
  BY <1>1, <1>2, <1>3 DEF LauncherIInv

\* What a step may write into a command.
LEMMA CommandTypes ==
    ASSUME LauncherTypeOK, NEW c \in Cmds
    PROVE  /\ cmd[c] \in Commands
           /\ cmd[c].op \in {"start", "stop", "reset"}
           /\ cmd[c].typed \in Passwords
           /\ cmd[c].pass \in Passwords
           /\ cmd[c].secret \in SecretNames
           /\ cmd[c].pid \in 0..MaxPids
           /\ cmd[c].refused \in BOOLEAN
BY DEF LauncherTypeOK, Commands

\* Going to another step of the list keeps a command well typed.
LEMMA GotoTypes ==
    ASSUME LauncherTypeOK, NEW c \in Cmds,
           NEW pc \in Resting \cup StartSteps \cup StopSteps \cup ResetSteps
                          \cup {"truncate", "write"},
           Goto(c, pc)
    PROVE  /\ cmd' \in [Cmds -> Commands]
           /\ cmd'[c] = [cmd[c] EXCEPT !.pc = pc]
           /\ \A d \in Cmds \ {c} : cmd'[d] = cmd[d]
<1>1. cmd[c] \in Commands
  BY CommandTypes
<1>2. [cmd[c] EXCEPT !.pc = pc] \in Commands
  BY <1>1 DEF Commands
<1> QED
  BY <1>2 DEF LauncherTypeOK, Goto

LEMMA IdleTypes == Idle \in Commands
BY LauncherAssumption DEF Idle, Commands, Resting, Passwords, SecretNames, Names

\* A command that ends leaves an idle terminal.
LEMMA EndTypes ==
    ASSUME LauncherTypeOK, NEW c \in Cmds, End(c)
    PROVE  /\ cmd' \in [Cmds -> Commands]
           /\ cmd'[c] = Idle
           /\ \A d \in Cmds \ {c} : cmd'[d] = cmd[d]
BY IdleTypes DEF LauncherTypeOK, End

\* A command that ends in the middle is no start any more.
LEMMA EndStep ==
    ASSUME LauncherIInv, NEW c \in Cmds, cmd[c].pc \notin Resting, End(c),
           LauncherTypeOK', alone' = alone, server'.pid <= pids'
    PROVE  LauncherIInv'
<1>1. cmd'[c] = Idle /\ \A d \in Cmds \ {c} : cmd'[d] = cmd[d]
  BY EndTypes DEF LauncherIInv
<1>2. OfItsOp(cmd'[c]) /\ StartSound(c)'
  BY <1>1 DEF OfItsOp, StartSound, Idle
<1> QED
  BY <1>1, <1>2, ActorStep

-----------------------------------------------------------------------------
(* The commands begin *)

LEMMA BeginStep ==
    ASSUME LauncherIInv, NEW c \in Cmds, NEW op \in {"start", "stop", "reset"},
           NEW pc \in {"file", "check", "database"}, NEW typed \in Passwords,
           OfItsOp([Idle EXCEPT !.op = op, !.pc = pc, !.typed = typed, !.pass = typed]),
           op = "start" => pc = "file",
           Begin(c, op, pc, typed)
    PROVE  LauncherIInv'
<1> DEFINE k == [Idle EXCEPT !.op = op, !.pc = pc, !.typed = typed, !.pass = typed]
<1>1. LauncherTypeOK /\ LauncherTypeOK'
  <2>1. k \in Commands
    <3>1. Idle \in Commands
      BY IdleTypes
    <3>2. pc \in StartSteps \cup ResetSteps
      BY DEF StartSteps, ResetSteps
    <3> QED
      BY <3>1, <3>2 DEF Commands
  <2>2. cmd' \in [Cmds -> Commands]
    BY <2>1 DEF LauncherIInv, LauncherTypeOK, Begin
  <2>3. minted' \in Names
    BY DEF LauncherIInv, LauncherTypeOK, Begin, Passwords, Names, Fresh, Short, Special
  <2>4. alone' \subseteq Cmds /\ overlaps' \in BOOLEAN
    BY DEF LauncherIInv, LauncherTypeOK, Begin
  <2> QED
    BY <2>2, <2>3, <2>4
    DEF LauncherIInv, LauncherTypeOK, Begin, diskVars, serverVars
<1>2. cmd'[c] = k /\ \A d \in Cmds \ {c} : cmd'[d] = cmd[d]
  BY <1>1 DEF LauncherTypeOK, Begin
<1>3. \A d \in Cmds : OfItsOp(cmd'[d])
  <2>1. OfItsOp(k)
    OBVIOUS
  <2> QED
    BY <1>2, <2>1 DEF LauncherIInv
<1>4. AloneRests'
  BY <1>2 DEF AloneRests, Begin
<1>5. server'.pid <= pids'
  BY DEF LauncherIInv, Begin, serverVars
<1>6. \A d \in alone' : d = c
  BY DEF Begin
<1>7. StartSound(c)'
  <2>1. k.op = op /\ k.pc = pc /\ k.typed = typed /\ k.pass = typed
    BY DEF Idle
  <2> QED
    BY <1>2, <2>1
    DEF StartSound, PasswordKept, SecretKept, ServerNamed, Sourced, Checked, At
<1> QED
  BY <1>1, <1>3, <1>4, <1>5, <1>6, <1>7 DEF LauncherIInv

LEMMA StartStep ==
    ASSUME LauncherIInv, NEW c \in Cmds, Start(c) \/ Stop(c) \/ ResetPassword(c)
    PROVE  LauncherIInv'
<1>1. CASE Start(c)
  <2>1. PICK typed \in Passwords : Begin(c, "start", "file", typed)
    BY <1>1 DEF Start
  <2>2. OfItsOp([Idle EXCEPT !.op = "start", !.pc = "file", !.typed = typed,
                             !.pass = typed])
    BY DEF OfItsOp, Idle
  <2> QED
    BY <2>1, <2>2, BeginStep
<1>2. CASE Stop(c)
  <2>1. Begin(c, "stop", "check", 0) /\ 0 \in Passwords
    BY <1>2, LauncherAssumption DEF Stop, Passwords, Names
  <2>2. OfItsOp([Idle EXCEPT !.op = "stop", !.pc = "check", !.typed = 0, !.pass = 0])
    BY DEF OfItsOp, Idle
  <2> QED
    BY <2>1, <2>2, BeginStep
<1>3. CASE ResetPassword(c)
  <2>1. PICK typed \in {Special, Fresh} \cap Passwords : Begin(c, "reset", "database", typed)
    BY <1>3 DEF ResetPassword
  <2>2. typed \in Names \cup {Special}
    BY LauncherAssumption
    DEF LauncherIInv, LauncherTypeOK, Passwords, Names, Fresh, Short
  <2>3. OfItsOp([Idle EXCEPT !.op = "reset", !.pc = "database", !.typed = typed,
                             !.pass = typed])
    BY <2>2 DEF OfItsOp, Idle
  <2> QED
    BY <2>1, <2>3, BeginStep
<1> QED
  BY <1>1, <1>2, <1>3

-----------------------------------------------------------------------------
(* The secrets *)

LEMMA GenerateStep ==
    ASSUME LauncherIInv, NEW c \in Cmds, Generate(c)
    PROVE  LauncherIInv'
<1> DEFINE pass == IF cmd[c].typed = 0 THEN Fresh ELSE cmd[c].typed
           k == [cmd[c] EXCEPT !.pc = "truncate", !.secret = Fresh, !.pass = pass]
<1>1. LauncherTypeOK /\ OfItsOp(cmd[c]) /\ At(c, "file") /\ minted \in Nat
  BY LauncherAssumption DEF LauncherIInv, Generate, LauncherTypeOK, Names
<1>2. k \in Commands /\ k.op = "start" /\ k.pc = "truncate" /\ k.secret \in Names /\ pass # 0
  <2>1. pass \in Passwords /\ pass # 0
    BY <1>1, CommandTypes DEF Generate, Fresh, Passwords
  <2>2. cmd[c] \in Commands /\ Fresh \in Names
    BY <1>1, CommandTypes DEF Generate
  <2> QED
    BY <1>1, <2>1, <2>2 DEF Commands, SecretNames, OfItsOp, At
<1>3. cmd' \in [Cmds -> Commands] /\ cmd'[c] = k /\ \A d \in Cmds \ {c} : cmd'[d] = cmd[d]
  BY <1>1, <1>2 DEF LauncherTypeOK, Generate
<1>4. LauncherTypeOK'
  BY <1>1, <1>3 DEF LauncherTypeOK, Generate, diskVars, serverVars, historyVars
<1>5. OfItsOp(k)
  BY <1>2 DEF OfItsOp
<1>6. StartSound(c)'
  <2>1. k.pass = pass
    BY <1>1, CommandTypes DEF Commands
  <2> QED
    BY <1>2, <1>3, <2>1
    DEF StartSound, PasswordKept, SecretKept, ServerNamed, Sourced, Checked, At
<1>7. alone' = alone /\ server'.pid <= pids' /\ cmd[c].pc \notin Resting
  BY <1>1 DEF LauncherIInv, Generate, serverVars, historyVars, At, Resting
<1> QED
  BY <1>3, <1>4, <1>5, <1>6, <1>7, ActorStep

LEMMA UpdateStep ==
    ASSUME LauncherIInv, NEW c \in Cmds, Update(c)
    PROVE  LauncherIInv'
<1> DEFINE k == [cmd[c] EXCEPT !.pc = "truncate", !.secret = file.secret]
<1>1. LauncherTypeOK /\ OfItsOp(cmd[c]) /\ At(c, "file")
  BY DEF LauncherIInv, Update
<1>2. /\ k \in Commands /\ k.op = "start" /\ k.pc = "truncate" /\ k.pass = cmd[c].pass
      /\ k.secret \in Names
  BY <1>1, CommandTypes DEF LauncherTypeOK, Commands, SecretNames, OfItsOp, At
<1>3. cmd' \in [Cmds -> Commands] /\ cmd'[c] = k /\ \A d \in Cmds \ {c} : cmd'[d] = cmd[d]
  BY <1>1, <1>2 DEF LauncherTypeOK, Update
<1>4. LauncherTypeOK'
  BY <1>1, <1>3 DEF LauncherTypeOK, Update, diskVars, serverVars, historyVars
<1>5. OfItsOp(k)
  BY <1>2 DEF OfItsOp
<1>6. c \in alone => StartSound(c)'
  <2>1. c \in alone => cmd[c].pass # 0
    BY <1>1 DEF LauncherIInv, StartSound, PasswordKept, Update, OfItsOp, At
  <2> QED
    BY <1>2, <1>3, <2>1
    DEF StartSound, PasswordKept, SecretKept, ServerNamed, Sourced, Checked, At
<1>7. alone' = alone /\ server'.pid <= pids' /\ cmd[c].pc \notin Resting
  BY <1>1 DEF LauncherIInv, Update, serverVars, historyVars, At, Resting
<1> QED
  BY <1>3, <1>4, <1>5, <1>6, <1>7, ActorStep

LEMMA KeepStep ==
    ASSUME LauncherIInv, NEW c \in Cmds, Keep(c)
    PROVE  LauncherIInv'
<1>1. LauncherTypeOK /\ OfItsOp(cmd[c]) /\ At(c, "file") /\ cmd[c] \in Commands
  BY CommandTypes DEF LauncherIInv, Keep
<1>2. /\ cmd' \in [Cmds -> Commands]
      /\ cmd'[c] = [cmd[c] EXCEPT !.pc = "source"]
      /\ \A d \in Cmds \ {c} : cmd'[d] = cmd[d]
  BY <1>1, GotoTypes DEF Keep, StartSteps
<1>3. cmd'[c].op = "start" /\ cmd'[c].pc = "source" /\ cmd'[c].typed = 0
  BY <1>1, <1>2 DEF Keep, OfItsOp, At, Commands
<1>4. LauncherTypeOK'
  BY <1>1, <1>2 DEF LauncherTypeOK, Keep, diskVars, serverVars, historyVars
<1>5. OfItsOp(cmd'[c])
  BY <1>3 DEF OfItsOp
<1>6. StartSound(c)'
  BY <1>3 DEF StartSound, PasswordKept, SecretKept, ServerNamed, Sourced, Checked, At
<1>7. alone' = alone /\ server'.pid <= pids' /\ cmd[c].pc \notin Resting
  BY <1>1 DEF LauncherIInv, Keep, serverVars, historyVars, At, Resting
<1> QED
  BY <1>2, <1>4, <1>5, <1>6, <1>7, ActorStep

LEMMA TruncateStep ==
    ASSUME LauncherIInv, NEW c \in Cmds, Truncate(c)
    PROVE  LauncherIInv'
<1>1. LauncherTypeOK /\ OfItsOp(cmd[c]) /\ At(c, "truncate") /\ cmd[c] \in Commands
  BY CommandTypes DEF LauncherIInv, Truncate
<1>2. /\ cmd' \in [Cmds -> Commands]
      /\ cmd'[c] = [cmd[c] EXCEPT !.pc = "write"]
      /\ \A d \in Cmds \ {c} : cmd'[d] = cmd[d]
  BY <1>1, GotoTypes DEF Truncate
<1>3. /\ cmd'[c].op = cmd[c].op /\ cmd'[c].pc = "write"
      /\ cmd'[c].pass = cmd[c].pass /\ cmd'[c].secret = cmd[c].secret
  BY <1>1, <1>2 DEF Commands
<1>4. LauncherTypeOK'
  <2>1. Empty \in [exists : BOOLEAN, pass : Passwords, secret : Names]
    BY LauncherAssumption DEF Empty, Passwords, Names
  <2> QED
    BY <1>1, <1>2, <2>1 DEF LauncherTypeOK, Truncate, serverVars, historyVars
<1>5. OfItsOp(cmd'[c])
  BY <1>1, <1>3 DEF OfItsOp, At
<1>6. c \in alone => StartSound(c)'
  BY <1>1, <1>3
  DEF LauncherIInv, StartSound, PasswordKept, SecretKept, ServerNamed, Sourced, Checked, At
<1>7. alone' = alone /\ server'.pid <= pids' /\ cmd[c].pc \notin Resting
  BY <1>1 DEF LauncherIInv, Truncate, serverVars, historyVars, At, Resting
<1> QED
  BY <1>2, <1>4, <1>5, <1>6, <1>7, ActorStep

LEMMA WriteStep ==
    ASSUME LauncherIInv, NEW c \in Cmds, Write(c)
    PROVE  LauncherIInv'
<1>1. LauncherTypeOK /\ OfItsOp(cmd[c]) /\ At(c, "write") /\ cmd[c] \in Commands
  BY CommandTypes DEF LauncherIInv, Write
<1>2. /\ cmd' \in [Cmds -> Commands]
      /\ \/ cmd'[c] = Idle
         \/ cmd[c].op # "reset" /\ cmd'[c] = [cmd[c] EXCEPT !.pc = "source"]
      /\ \A d \in Cmds \ {c} : cmd'[d] = cmd[d]
  <2>1. CASE cmd[c].op = "reset"
    BY <1>1, <2>1, EndTypes DEF Write
  <2>2. CASE cmd[c].op # "reset"
    BY <1>1, <2>2, GotoTypes DEF Write, StartSteps
  <2> QED
    BY <2>1, <2>2
<1>3. file' = [exists |-> TRUE, pass |-> cmd[c].pass, secret |-> cmd[c].secret]
  BY DEF Write
<1>4. LauncherTypeOK'
  <2>1. cmd[c].secret \in Names
    BY <1>1 DEF OfItsOp, At
  <2>2. cmd' \in [Cmds -> Commands]
    BY <1>2
  <2>3. file' \in [exists : BOOLEAN, pass : Passwords, secret : Names]
    BY <1>1, <1>3, <2>1, CommandTypes
  <2> QED
    BY <1>1, <2>2, <2>3 DEF LauncherTypeOK, Write, serverVars, historyVars
<1>5. OfItsOp(cmd'[c])
  <2>1. CASE cmd'[c] = Idle
    BY <2>1 DEF OfItsOp, Idle
  <2>2. CASE cmd[c].op # "reset" /\ cmd'[c] = [cmd[c] EXCEPT !.pc = "source"]
    BY <1>1, <2>2 DEF OfItsOp, At, Commands
  <2> QED
    BY <1>2, <2>1, <2>2
<1>6. c \in alone => StartSound(c)'
  <2>1. CASE cmd'[c] = Idle
    BY <2>1 DEF StartSound, Idle
  <2>2. CASE cmd[c].op # "reset" /\ cmd'[c] = [cmd[c] EXCEPT !.pc = "source"]
    <3>1. cmd'[c].pc = "source" /\ cmd[c].op = "start" /\ file'.pass = cmd[c].pass
      BY <1>1, <1>3, <2>2 DEF OfItsOp, At, Commands
    <3>2. c \in alone => cmd[c].pass # 0
      BY <1>1, <3>1 DEF LauncherIInv, StartSound, PasswordKept, At
    <3> QED
      BY <3>1, <3>2
      DEF StartSound, PasswordKept, SecretKept, ServerNamed, Sourced, Checked, At
  <2> QED
    BY <1>2, <2>1, <2>2
<1>7. alone' = alone /\ server'.pid <= pids' /\ cmd[c].pc \notin Resting
  BY <1>1 DEF LauncherIInv, Write, serverVars, historyVars, At, Resting
<1> QED
  BY <1>2, <1>4, <1>5, <1>6, <1>7, ActorStep

LEMMA SourceStep ==
    ASSUME LauncherIInv, NEW c \in Cmds, Source(c)
    PROVE  LauncherIInv'
<1> DEFINE pass == IF file.pass = 0 THEN cmd[c].typed ELSE file.pass
           k == [cmd[c] EXCEPT !.pc = "look", !.secret = file.secret, !.typed = 0,
                               !.pass = pass]
<1>1. LauncherTypeOK /\ OfItsOp(cmd[c]) /\ At(c, "source") /\ cmd[c] \in Commands
  BY CommandTypes DEF LauncherIInv, Source
<1>2. /\ k \in Commands /\ k.op = "start" /\ k.pc = "look"
      /\ k.secret = file.secret /\ k.pass = pass
  <2>1. pass \in Passwords /\ file.secret \in SecretNames /\ 0 \in Passwords
    BY <1>1, LauncherAssumption, CommandTypes
    DEF LauncherTypeOK, Passwords, SecretNames, Names
  <2>2. cmd[c].op = "start"
    BY <1>1 DEF OfItsOp, At
  <2> QED
    BY <1>1, <2>1, <2>2 DEF Commands, StartSteps
<1>3. cmd' \in [Cmds -> Commands] /\ cmd'[c] = k /\ \A d \in Cmds \ {c} : cmd'[d] = cmd[d]
  BY <1>1, <1>2 DEF LauncherTypeOK, Source
<1>4. LauncherTypeOK'
  BY <1>1, <1>3 DEF LauncherTypeOK, Source, diskVars, serverVars, historyVars
<1>5. OfItsOp(k)
  BY <1>2 DEF OfItsOp
<1>6. c \in alone => StartSound(c)'
  <2>1. file' = file
    BY DEF Source, diskVars
  <2>2. c \in alone /\ cmd[c].typed # 0 => file.pass # 0
    BY <1>1, <1>2 DEF LauncherIInv, StartSound, PasswordKept, At, Commands
  <2>3. c \in alone => (pass # 0 => file.pass = pass)
    BY <2>2
  <2> QED
    BY <1>2, <1>3, <2>1, <2>3
    DEF StartSound, PasswordKept, SecretKept, ServerNamed, Sourced, Checked, At
<1>7. alone' = alone /\ server'.pid <= pids' /\ cmd[c].pc \notin Resting
  BY <1>1 DEF LauncherIInv, Source, serverVars, historyVars, At, Resting
<1> QED
  BY <1>3, <1>4, <1>5, <1>6, <1>7, ActorStep

\* What the shell makes of a special password may be anything: the file names none that
\* the summary would have to agree with.
LEMMA MisreadStep ==
    ASSUME LauncherIInv, NEW c \in Cmds, Misread(c)
    PROVE  LauncherIInv'
<1>1. /\ LauncherTypeOK /\ OfItsOp(cmd[c]) /\ At(c, "source") /\ cmd[c] \in Commands
      /\ file.pass = Special /\ minted \in Names /\ cmd[c].pc \notin Resting
      /\ UNCHANGED <<diskVars, serverVars, historyVars>>
  BY CommandTypes DEF LauncherIInv, LauncherTypeOK, Misread, At, Resting
<1>2. alone' = alone /\ server'.pid <= pids'
  BY <1>1 DEF LauncherIInv, serverVars, historyVars
<1>3. CASE End(c) /\ UNCHANGED minted
  <2>1. cmd' \in [Cmds -> Commands]
    BY <1>1, <1>3, EndTypes
  <2>2. LauncherTypeOK'
    BY <1>1, <1>3, <2>1 DEF LauncherTypeOK, diskVars, serverVars, historyVars
  <2> QED
    BY <1>1, <1>2, <1>3, <2>2, EndStep
<1>4. ASSUME NEW pass \in Passwords, NEW secret \in {file.secret, Unread},
             cmd' = [cmd EXCEPT ![c].pc = "look", ![c].secret = secret, ![c].typed = 0,
                                ![c].pass = pass],
             minted' = IF pass = Fresh THEN Fresh ELSE minted
      PROVE  LauncherIInv'
  <2> DEFINE k == [cmd[c] EXCEPT !.pc = "look", !.secret = secret, !.typed = 0, !.pass = pass]
  <2>1. k \in Commands /\ k.op = "start" /\ k.pc = "look" /\ k.secret = secret /\ k.pass = pass
    <3>1. secret \in SecretNames /\ 0 \in Passwords
      BY <1>1, LauncherAssumption DEF LauncherTypeOK, Passwords, SecretNames, Names
    <3>2. cmd[c].op = "start"
      BY <1>1 DEF OfItsOp, At
    <3> QED
      BY <1>1, <3>1, <3>2 DEF Commands, StartSteps
  <2>2. cmd' \in [Cmds -> Commands] /\ cmd'[c] = k /\ \A d \in Cmds \ {c} : cmd'[d] = cmd[d]
    BY <1>1, <1>4, <2>1 DEF LauncherTypeOK
  <2>3. minted' \in Names
    BY <1>1, <1>4, LauncherAssumption DEF Passwords, Names, Fresh, Short, Special
  <2>4. LauncherTypeOK'
    BY <1>1, <2>2, <2>3 DEF LauncherTypeOK, diskVars, serverVars, historyVars
  <2>5. OfItsOp(k)
    BY <2>1 DEF OfItsOp
  <2>6. StartSound(c)'
    <3>1. file' = file
      BY <1>1 DEF diskVars
    <3> QED
      BY <1>1, <2>1, <2>2, <3>1
      DEF StartSound, PasswordKept, SecretKept, ServerNamed, Sourced, Checked, At
  <2> QED
    BY <1>1, <1>2, <2>2, <2>4, <2>5, <2>6, ActorStep
<1> QED
  BY <1>3, <1>4 DEF Misread

-----------------------------------------------------------------------------
(* The bootstrap *)

\* Once the file has been read, a start does not touch it any more.
LEMMA SourcedStep ==
    ASSUME LauncherIInv, NEW c \in alone, cmd[c].op = "start", cmd[c].pc \in Sourced,
           cmd'[c].pc \in Sourced, cmd'[c].pass = cmd[c].pass,
           cmd'[c].secret = cmd[c].secret, file' = file,
           cmd'[c].pc = "reset" => cmd[c].pass # 0 /\ db' # 0,
           cmd'[c].pc = "create" => db' = 0,
           cmd'[c].pc \in Checked /\ cmd[c].pass # 0 /\ ~cmd'[c].refused =>
               db' = cmd[c].pass,
           ServerNamed(c)'
    PROVE  StartSound(c)'
<1>1. cmd[c].pass # 0 => file.pass \in {cmd[c].pass, Special}
  BY DEF LauncherIInv, StartSound, PasswordKept
<1>2. cmd[c].secret = file.secret \/ (file.pass = Special /\ cmd[c].secret = Unread)
  BY DEF LauncherIInv, StartSound, SecretKept
<1> QED
  BY <1>1, <1>2 DEF StartSound, PasswordKept, SecretKept, Sourced, Checked, At

LEMMA LookStep ==
    ASSUME LauncherIInv, NEW c \in Cmds, Look(c)
    PROVE  LauncherIInv'
<1> DEFINE pc == CASE db = 0 -> "create"
                   [] db # 0 /\ cmd[c].pass # 0 -> "reset"
                   [] OTHER -> "check"
<1>1. LauncherTypeOK /\ OfItsOp(cmd[c]) /\ At(c, "look") /\ cmd[c] \in Commands
  BY CommandTypes DEF LauncherIInv, Look
<1>2. pc \in {"create", "reset", "check"} /\ Goto(c, pc)
  BY DEF Look
<1>3. /\ cmd' \in [Cmds -> Commands]
      /\ cmd'[c] = [cmd[c] EXCEPT !.pc = pc]
      /\ \A d \in Cmds \ {c} : cmd'[d] = cmd[d]
  <2> HIDE DEF pc
  <2>1. pc \in StartSteps
    BY <1>2 DEF StartSteps
  <2> QED
    BY <1>1, <1>2, <2>1, GotoTypes
<1>4. /\ cmd'[c].pc = pc /\ cmd[c].op = "start" /\ cmd'[c].op = "start"
      /\ cmd'[c].pass = cmd[c].pass /\ cmd'[c].secret = cmd[c].secret
  <2> HIDE DEF pc
  <2> QED
    BY <1>1, <1>3 DEF OfItsOp, At, Commands
<1>5. LauncherTypeOK'
  BY <1>1, <1>3 DEF LauncherTypeOK, Look, diskVars, serverVars, historyVars
<1>6. OfItsOp(cmd'[c])
  BY <1>2, <1>4 DEF OfItsOp
<1>7. c \in alone => StartSound(c)'
  <2>1. file' = file /\ db' = db
    BY DEF Look, diskVars
  <2>2. ServerNamed(c)'
    BY <1>2, <1>4 DEF ServerNamed, At
  <2>3. cmd[c].pc \in Sourced /\ cmd'[c].pc \in Sourced
    BY <1>1, <1>2, <1>4 DEF Sourced, Checked, At
  <2>4. /\ pc = "reset" => cmd[c].pass # 0 /\ db # 0
        /\ pc = "create" => db = 0
        /\ pc \in Checked => cmd[c].pass = 0
    BY DEF Checked
  <2> HIDE DEF pc
  <2> QED
    BY <1>4, <2>1, <2>2, <2>3, <2>4, SourcedStep
<1>8. alone' = alone /\ server'.pid <= pids' /\ cmd[c].pc \notin Resting
  BY <1>1 DEF LauncherIInv, Look, serverVars, historyVars, At, Resting
<1> QED
  BY <1>3, <1>5, <1>6, <1>7, <1>8, ActorStep

\* However a step of bootstrap ends, the shell goes on with check: either bootstrap was
\* refused, or the password it was given is in the database now.
LEMMA BootStep ==
    ASSUME LauncherIInv, NEW c \in Cmds, cmd[c].pc \in {"look", "reset", "create"},
           \/ Refused(c)
           \/ Goto(c, "check") /\ (c \in alone /\ cmd[c].pass # 0 => db' = cmd[c].pass),
           db' \in Names \cup {Special}, minted' \in Names,
           UNCHANGED <<file, pidfile, serverVars, historyVars>>
    PROVE  LauncherIInv'
<1>1. LauncherTypeOK /\ OfItsOp(cmd[c]) /\ cmd[c] \in Commands
  BY CommandTypes DEF LauncherIInv
<1>2. /\ cmd' \in [Cmds -> Commands]
      /\ \A d \in Cmds \ {c} : cmd'[d] = cmd[d]
      /\ cmd'[c].pc = "check" /\ cmd'[c].op = cmd[c].op
      /\ cmd'[c].pass = cmd[c].pass /\ cmd'[c].secret = cmd[c].secret
  <2>1. CASE Goto(c, "check")
    <3>1. /\ cmd' \in [Cmds -> Commands]
          /\ cmd'[c] = [cmd[c] EXCEPT !.pc = "check"]
          /\ \A d \in Cmds \ {c} : cmd'[d] = cmd[d]
      BY <1>1, <2>1, GotoTypes DEF StartSteps
    <3> QED
      BY <1>1, <3>1 DEF Commands
  <2>2. CASE Refused(c)
    <3>1. [cmd[c] EXCEPT !.pc = "check", !.refused = TRUE] \in Commands
      BY <1>1 DEF Commands, StartSteps
    <3> QED
      BY <1>1, <2>2, <3>1 DEF Refused, LauncherTypeOK, Commands
  <2> QED
    BY <2>1, <2>2
<1>3. cmd'[c].refused \/ (c \in alone /\ cmd[c].pass # 0 => db' = cmd[c].pass)
  BY <1>1 DEF Refused, LauncherTypeOK, Commands
<1>4. cmd[c].op = "start"
  BY <1>1 DEF OfItsOp
<1>5. LauncherTypeOK'
  BY <1>1, <1>2 DEF LauncherTypeOK, serverVars, historyVars
<1>6. OfItsOp(cmd'[c])
  BY <1>2, <1>4 DEF OfItsOp
<1>7. c \in alone => StartSound(c)'
  <2>1. ServerNamed(c)'
    BY <1>2 DEF ServerNamed, At
  <2>2. cmd[c].pc \in Sourced /\ cmd'[c].pc \in Sourced
    BY <1>2 DEF Sourced, Checked
  <2> QED
    BY <1>2, <1>3, <1>4, <2>1, <2>2, SourcedStep
<1>8. alone' = alone /\ server'.pid <= pids' /\ cmd[c].pc \notin Resting
  BY DEF LauncherIInv, serverVars, historyVars, Resting
<1> QED
  BY <1>2, <1>5, <1>6, <1>7, <1>8, ActorStep

LEMMA BootstrapStep ==
    ASSUME LauncherIInv, NEW c \in Cmds, Bootstrap(c)
    PROVE  LauncherIInv'
<1>1. /\ LauncherTypeOK /\ OfItsOp(cmd[c]) /\ cmd[c] \in Commands
      /\ cmd[c].pass \in Passwords /\ db \in Names \cup {Special} /\ minted \in Names
      /\ 0 \in Names
  BY CommandTypes, LauncherAssumption DEF LauncherIInv, LauncherTypeOK, Names
<1>2. CASE Look(c)
  BY <1>2, LookStep
<1>3. CASE BootReset(c)
  <2>1. /\ cmd[c].pc \in {"look", "reset", "create"}
        /\ UNCHANGED <<file, pidfile, serverVars, historyVars>>
        /\ minted' \in Names
    BY <1>1, <1>3 DEF BootReset, At
  <2>2. db' \in Names \cup {Special}
    BY <1>1, <1>3 DEF BootReset, Passwords
  <2>3. c \in alone => db # 0
    BY <1>1, <1>3 DEF LauncherIInv, StartSound, PasswordKept, BootReset, At, OfItsOp
  <2>4. Refused(c) \/ (Goto(c, "check") /\ (c \in alone /\ cmd[c].pass # 0 => db' = cmd[c].pass))
    BY <1>3, <2>3 DEF BootReset
  <2> QED
    BY <2>1, <2>2, <2>4, BootStep
<1>4. CASE BootCreate(c)
  <2>1. /\ cmd[c].pc \in {"look", "reset", "create"}
        /\ UNCHANGED <<file, pidfile, serverVars, historyVars>>
    BY <1>4 DEF BootCreate, At
  <2>2. db' \in Names \cup {Special} /\ minted' \in Names
    BY <1>1, <1>4 DEF BootCreate, Passwords
  <2>3. Refused(c) \/ (Goto(c, "check") /\ (c \in alone /\ cmd[c].pass # 0 => db' = cmd[c].pass))
    BY <1>4 DEF BootCreate
  <2> QED
    BY <2>1, <2>2, <2>3, BootStep
<1>5. CASE BootFails(c)
  <2>1. /\ UNCHANGED <<file, pidfile, serverVars, historyVars>>
        /\ db' \in Names \cup {Special} /\ minted' \in Names
    BY <1>1, <1>5 DEF BootFails, diskVars
  <2> QED
    BY <1>5, <2>1, BootStep DEF BootFails
<1> QED
  BY <1>2, <1>3, <1>4, <1>5 DEF Bootstrap

-----------------------------------------------------------------------------
(* The process *)

\* A step from check on that leaves database and secrets alone, as all of them do.
LEMMA ProcessStep ==
    ASSUME LauncherIInv, NEW c \in Cmds, cmd[c].pc \in Checked \ Resting,
           UNCHANGED <<file, db, alone>>, LauncherTypeOK',
           \A d \in Cmds \ {c} : cmd'[d] = cmd[d], server'.pid <= pids', OfItsOp(cmd'[c]),
           cmd'[c].op = cmd[c].op, cmd'[c].pc \in Checked \cup {"stopped"},
           cmd'[c].pc = "stopped" => cmd[c].op # "start",
           cmd'[c].pass = cmd[c].pass, cmd'[c].secret = cmd[c].secret,
           cmd'[c].refused = cmd[c].refused,
           c \in alone /\ cmd[c].op = "start" => ServerNamed(c)'
    PROVE  LauncherIInv'
<1>1. ASSUME c \in alone, cmd[c].op = "start"
      PROVE  StartSound(c)'
  <2>1. cmd[c].pass # 0 /\ ~cmd[c].refused => db = cmd[c].pass
    BY <1>1 DEF LauncherIInv, StartSound, PasswordKept
  <2>2. cmd[c].pc \in Sourced /\ cmd'[c].pc \in Sourced
    BY <1>1 DEF Sourced
  <2>3. cmd'[c].pc # "reset" /\ cmd'[c].pc # "create"
    BY <1>1 DEF Checked
  <2> QED
    BY <1>1, <2>1, <2>2, <2>3, SourcedStep
<1>2. c \in alone => StartSound(c)'
  BY <1>1 DEF StartSound
<1> QED
  BY <1>2, ActorStep

\* Of the steps of a process most only go on.
LEMMA ProcessGoto ==
    ASSUME LauncherIInv, NEW c \in Cmds, cmd[c].pc \in Checked \ Resting,
           NEW pc \in Checked \cup {"stopped"}, Goto(c, pc), OfItsOp([cmd[c] EXCEPT !.pc = pc]),
           pc = "stopped" => cmd[c].op # "start",
           pidfile' \in 0..MaxPids, server' \in [pid : 0..MaxPids, secret : SecretNames],
           server'.pid <= pids, UNCHANGED <<file, db, pids, minted, historyVars>>,
           c \in alone /\ cmd[c].op = "start" => ServerNamed(c)'
    PROVE  LauncherIInv'
<1>1. LauncherTypeOK /\ cmd[c] \in Commands
  BY CommandTypes DEF LauncherIInv
<1>2. /\ cmd' \in [Cmds -> Commands]
      /\ cmd'[c] = [cmd[c] EXCEPT !.pc = pc]
      /\ \A d \in Cmds \ {c} : cmd'[d] = cmd[d]
  BY <1>1, GotoTypes DEF Checked, Resting, StartSteps, StopSteps
<1>3. /\ cmd'[c].op = cmd[c].op /\ cmd'[c].pc = pc /\ cmd'[c].pass = cmd[c].pass
      /\ cmd'[c].secret = cmd[c].secret /\ cmd'[c].refused = cmd[c].refused
  BY <1>1, <1>2 DEF Commands
<1>4. LauncherTypeOK'
  BY <1>1, <1>2 DEF LauncherTypeOK, historyVars
<1>5. UNCHANGED <<file, db, alone>> /\ server'.pid <= pids' /\ OfItsOp(cmd'[c])
  BY <1>2 DEF historyVars
<1> QED
  BY <1>2, <1>3, <1>4, <1>5, ProcessStep

LEMMA CheckStep ==
    ASSUME LauncherIInv, NEW c \in Cmds, Check(c)
    PROVE  LauncherIInv'
<1> DEFINE pc == IF Alive(pidfile) THEN "term"
                 ELSE IF cmd[c].op = "start" THEN "launch" ELSE "stopped"
<1>1. LauncherTypeOK /\ OfItsOp(cmd[c]) /\ At(c, "check") /\ cmd[c] \in Commands
  BY CommandTypes DEF LauncherIInv, Check
<1>2. /\ pc \in {"term", "launch", "stopped"} /\ Goto(c, pc)
      /\ pc = "launch" => cmd[c].op = "start"
      /\ pc = "stopped" => cmd[c].op # "start"
  BY DEF Check
<1>3. UNCHANGED <<diskVars, server, pids, minted, historyVars>>
  BY DEF Check, serverVars
<1> HIDE DEF pc
<1>4. cmd'[c].pc = pc
  BY <1>1, <1>2 DEF Goto, LauncherTypeOK, Commands
<1>5. OfItsOp([cmd[c] EXCEPT !.pc = pc])
  BY <1>1, <1>2 DEF OfItsOp, Commands
<1>6. ServerNamed(c)'
  BY <1>2, <1>4 DEF ServerNamed, At
<1>7. /\ cmd[c].pc \in Checked \ Resting /\ pc \in Checked \cup {"stopped"}
      /\ pidfile' \in 0..MaxPids /\ server' \in [pid : 0..MaxPids, secret : SecretNames]
      /\ server'.pid <= pids /\ UNCHANGED <<file, db, pids, minted, historyVars>>
  BY <1>1, <1>2, <1>3 DEF LauncherIInv, LauncherTypeOK, diskVars, At, Checked, Resting
<1> QED
  BY <1>2, <1>5, <1>6, <1>7, ProcessGoto

LEMMA KillStep ==
    ASSUME LauncherIInv, NEW c \in Cmds, Kill(c)
    PROVE  LauncherIInv'
<1> DEFINE pc == IF At(c, "term") THEN "kill" ELSE "remove"
<1>1. LauncherTypeOK /\ OfItsOp(cmd[c]) /\ cmd[c].pc \in {"term", "kill"} /\ cmd[c] \in Commands
  BY CommandTypes DEF LauncherIInv, Kill
<1>2. pc \in {"kill", "remove"} /\ Goto(c, pc)
  BY DEF Kill
<1>3. server' = server \/ server' = NoServer
  BY DEF Kill, Killed
<1>4. UNCHANGED <<diskVars, pids, minted, historyVars>>
  BY DEF Kill
<1> HIDE DEF pc
<1>5. cmd'[c].pc = pc
  BY <1>1, <1>2 DEF Goto, LauncherTypeOK, Commands
<1>6. OfItsOp([cmd[c] EXCEPT !.pc = pc])
  BY <1>1, <1>2 DEF OfItsOp, Commands
<1>7. ServerNamed(c)'
  BY <1>2, <1>5 DEF ServerNamed, At
<1>8. server' \in [pid : 0..MaxPids, secret : SecretNames] /\ server'.pid <= pids
  BY <1>1, <1>3, LauncherAssumption DEF LauncherIInv, LauncherTypeOK, NoServer, SecretNames, Names
<1>9. /\ cmd[c].pc \in Checked \ Resting /\ pc \in Checked \cup {"stopped"} /\ pc # "stopped"
      /\ pidfile' \in 0..MaxPids /\ UNCHANGED <<file, db, pids, minted, historyVars>>
  BY <1>1, <1>2, <1>4 DEF LauncherTypeOK, diskVars, Checked, Resting
<1> QED
  BY <1>2, <1>6, <1>7, <1>8, <1>9, ProcessGoto

LEMMA RemoveStep ==
    ASSUME LauncherIInv, NEW c \in Cmds, Remove(c)
    PROVE  LauncherIInv'
<1> DEFINE pc == IF cmd[c].op = "start" THEN "launch" ELSE "stopped"
<1>1. LauncherTypeOK /\ OfItsOp(cmd[c]) /\ At(c, "remove") /\ cmd[c] \in Commands
  BY CommandTypes DEF LauncherIInv, Remove
<1>2. /\ pc \in {"launch", "stopped"} /\ Goto(c, pc)
      /\ pc = "launch" => cmd[c].op = "start"
      /\ pc = "stopped" => cmd[c].op # "start"
  BY DEF Remove
<1>3. UNCHANGED <<file, db, server, pids, minted, historyVars>> /\ pidfile' = 0
  BY DEF Remove, serverVars
<1> HIDE DEF pc
<1>4. cmd'[c].pc = pc
  BY <1>1, <1>2 DEF Goto, LauncherTypeOK, Commands
<1>5. OfItsOp([cmd[c] EXCEPT !.pc = pc])
  BY <1>1, <1>2 DEF OfItsOp, Commands
<1>6. ServerNamed(c)'
  BY <1>2, <1>4 DEF ServerNamed, At
<1>7. /\ cmd[c].pc \in Checked \ Resting /\ pc \in Checked \cup {"stopped"}
      /\ pidfile' \in 0..MaxPids /\ server' \in [pid : 0..MaxPids, secret : SecretNames]
      /\ server'.pid <= pids /\ UNCHANGED <<file, db, pids, minted, historyVars>>
  BY <1>1, <1>2, <1>3, LauncherAssumption
  DEF LauncherIInv, LauncherTypeOK, At, Checked, Resting
<1> QED
  BY <1>2, <1>5, <1>6, <1>7, ProcessGoto

LEMMA LaunchStep ==
    ASSUME LauncherIInv, NEW c \in Cmds, Launch(c)
    PROVE  LauncherIInv'
<1> DEFINE k == [cmd[c] EXCEPT !.pc = "echo", !.pid = pids + 1]
<1>1. /\ LauncherTypeOK /\ OfItsOp(cmd[c]) /\ At(c, "launch") /\ cmd[c] \in Commands
      /\ pids \in Nat /\ pids + 1 \in 0..MaxPids /\ cmd[c].secret \in SecretNames
      /\ server.pid \in Nat /\ server.pid <= pids
  BY CommandTypes, LauncherAssumption DEF LauncherIInv, Launch, LauncherTypeOK
<1>2. /\ k \in Commands /\ k.op = "start" /\ k.pc = "echo" /\ k.pid = pids + 1
      /\ k.pass = cmd[c].pass /\ k.secret = cmd[c].secret /\ k.refused = cmd[c].refused
  BY <1>1 DEF Commands, StartSteps, OfItsOp, At
<1>3. cmd' \in [Cmds -> Commands] /\ cmd'[c] = k /\ \A d \in Cmds \ {c} : cmd'[d] = cmd[d]
  BY <1>1, <1>2 DEF LauncherTypeOK, Launch
<1>4. server' = [pid |-> pids + 1, secret |-> cmd[c].secret] \/ server' = server
  BY DEF Launch
<1>5. LauncherTypeOK'
  <2>1. server' \in [pid : 0..MaxPids, secret : SecretNames]
    BY <1>1, <1>4 DEF LauncherTypeOK
  <2>2. signed' \subseteq SecretNames
    BY <1>1 DEF LauncherTypeOK, Launch
  <2> QED
    BY <1>1, <1>3, <2>1, <2>2 DEF LauncherTypeOK, Launch, diskVars
<1>6. server'.pid <= pids'
  BY <1>1, <1>4 DEF Launch
<1>7. ServerNamed(c)'
  <2>1. server'.pid = pids + 1 => server'.secret = cmd[c].secret
    BY <1>1, <1>4
  <2> QED
    BY <1>2, <1>3, <2>1 DEF ServerNamed, At
<1>8. /\ UNCHANGED <<file, db, alone>> /\ OfItsOp(k) /\ cmd[c].op = "start"
      /\ cmd[c].pc \in Checked \ Resting /\ k.pc \in Checked
  BY <1>1, <1>2 DEF Launch, diskVars, OfItsOp, At, Checked, Resting
<1> HIDE DEF k
<1> QED
  BY <1>2, <1>3, <1>5, <1>6, <1>7, <1>8, ProcessStep

LEMMA EchoStep ==
    ASSUME LauncherIInv, NEW c \in Cmds, Echo(c)
    PROVE  LauncherIInv'
<1>1. LauncherTypeOK /\ OfItsOp(cmd[c]) /\ At(c, "echo") /\ cmd[c] \in Commands
  BY CommandTypes DEF LauncherIInv, Echo
<1>2. /\ Goto(c, "verify") /\ pidfile' = cmd[c].pid
      /\ UNCHANGED <<file, db, server, pids, minted, historyVars>>
  BY DEF Echo, serverVars
<1>3. /\ cmd'[c].pc = "verify" /\ cmd'[c].pid = cmd[c].pid /\ cmd'[c].secret = cmd[c].secret
      /\ cmd[c].op = "start"
  BY <1>1, <1>2 DEF Goto, LauncherTypeOK, Commands, OfItsOp, At
<1>4. OfItsOp([cmd[c] EXCEPT !.pc = "verify"])
  BY <1>1, <1>3 DEF OfItsOp, Commands
<1>5. c \in alone /\ cmd[c].op = "start" => ServerNamed(c)'
  <2>1. c \in alone => (server.pid = cmd[c].pid => server.secret = cmd[c].secret)
    BY <1>1, <1>3 DEF LauncherIInv, StartSound, ServerNamed, At
  <2> QED
    BY <1>2, <1>3, <2>1 DEF ServerNamed, At
<1>6. /\ cmd[c].pc \in Checked \ Resting /\ "verify" \in Checked
      /\ pidfile' \in 0..MaxPids /\ server' \in [pid : 0..MaxPids, secret : SecretNames]
      /\ server'.pid <= pids
  BY <1>1, <1>2, CommandTypes DEF LauncherIInv, LauncherTypeOK, At, Checked, Resting
<1> QED
  BY <1>2, <1>4, <1>5, <1>6, ProcessGoto

LEMMA VerifyStep ==
    ASSUME LauncherIInv, NEW c \in Cmds, Verify(c)
    PROVE  LauncherIInv'
<1>1. LauncherTypeOK /\ OfItsOp(cmd[c]) /\ At(c, "verify") /\ cmd[c] \in Commands
  BY CommandTypes DEF LauncherIInv, Verify
<1>2. /\ UNCHANGED <<diskVars, server, pids, minted, historyVars>>
      /\ cmd[c].pc \in Checked \ Resting
  BY <1>1 DEF Verify, serverVars, At, Checked, Resting
<1>3. CASE ~Alive(pidfile)
  <2>1. End(c)
    BY <1>3 DEF Verify
  <2>2. cmd' \in [Cmds -> Commands]
    BY <1>1, <2>1, EndTypes
  <2>3. LauncherTypeOK'
    BY <1>1, <1>2, <2>2 DEF LauncherTypeOK, diskVars, historyVars
  <2>4. alone' = alone /\ server'.pid <= pids'
    BY <1>2 DEF LauncherIInv, historyVars
  <2> QED
    BY <1>2, <2>1, <2>3, <2>4, EndStep
<1>4. CASE Alive(pidfile)
  <2>1. Goto(c, "summary")
    BY <1>4 DEF Verify
  <2>2. /\ cmd'[c].pc = "summary" /\ cmd'[c].pid = cmd[c].pid
        /\ cmd'[c].secret = cmd[c].secret /\ cmd[c].op = "start"
    BY <1>1, <2>1 DEF Goto, LauncherTypeOK, Commands, OfItsOp, At
  <2>3. OfItsOp([cmd[c] EXCEPT !.pc = "summary"])
    BY <1>1, <2>2 DEF OfItsOp, Commands
  <2>4. c \in alone /\ cmd[c].op = "start" => ServerNamed(c)'
    <3>1. c \in alone => /\ server.pid = cmd[c].pid => server.secret = cmd[c].secret
                         /\ pidfile = cmd[c].pid
      BY <1>1, <2>2 DEF LauncherIInv, StartSound, ServerNamed, At
    <3> QED
      BY <1>2, <1>4, <2>2, <3>1 DEF ServerNamed, Alive, At, diskVars
  <2>5. /\ pidfile' \in 0..MaxPids /\ server' \in [pid : 0..MaxPids, secret : SecretNames]
        /\ server'.pid <= pids /\ UNCHANGED <<file, db, pids, minted, historyVars>>
        /\ "summary" \in Checked
    BY <1>1, <1>2 DEF LauncherIInv, LauncherTypeOK, diskVars, Checked
  <2> QED
    BY <1>2, <2>1, <2>3, <2>4, <2>5, ProcessGoto
<1> QED
  BY <1>3, <1>4

-----------------------------------------------------------------------------
(* reset-password, and what happens to commands *)

LEMMA ResetDatabaseStep ==
    ASSUME LauncherIInv, NEW c \in Cmds, ResetDatabase(c)
    PROVE  LauncherIInv'
<1>1. /\ LauncherTypeOK /\ OfItsOp(cmd[c]) /\ At(c, "database") /\ cmd[c] \in Commands
      /\ cmd[c].op = "reset" /\ cmd[c].pass \in Names \cup {Special} /\ cmd[c].pc \notin Resting
  BY CommandTypes DEF LauncherIInv, ResetDatabase, OfItsOp, At, Resting
<1>2. /\ UNCHANGED <<file, pidfile, server, pids, minted, historyVars>>
      /\ db' \in Names \cup {Special}
  BY <1>1, LauncherAssumption DEF ResetDatabase, serverVars, Names
<1>3. alone' = alone /\ server'.pid <= pids'
  BY <1>2 DEF LauncherIInv, historyVars
<1>4. CASE End(c)
  <2>1. cmd' \in [Cmds -> Commands]
    BY <1>1, <1>4, EndTypes
  <2>2. LauncherTypeOK'
    BY <1>1, <1>2, <2>1 DEF LauncherTypeOK, historyVars
  <2> QED
    BY <1>1, <1>3, <1>4, <2>2, EndStep
<1>5. CASE Goto(c, "read")
  <2>1. /\ cmd' \in [Cmds -> Commands]
        /\ cmd'[c] = [cmd[c] EXCEPT !.pc = "read"]
        /\ \A d \in Cmds \ {c} : cmd'[d] = cmd[d]
    BY <1>1, <1>5, GotoTypes DEF ResetSteps
  <2>2. LauncherTypeOK'
    BY <1>1, <1>2, <2>1 DEF LauncherTypeOK, historyVars
  <2>3. OfItsOp(cmd'[c]) /\ StartSound(c)'
    BY <1>1, <2>1 DEF OfItsOp, StartSound, Commands
  <2> QED
    BY <1>1, <1>3, <2>1, <2>2, <2>3, ActorStep
<1> QED
  BY <1>4, <1>5 DEF ResetDatabase

LEMMA ResetReadStep ==
    ASSUME LauncherIInv, NEW c \in Cmds, ResetRead(c)
    PROVE  LauncherIInv'
<1> DEFINE pass == IF file.pass = 0 THEN 0 ELSE cmd[c].pass
           k == [cmd[c] EXCEPT !.pc = "truncate", !.secret = file.secret, !.pass = pass]
<1>1. /\ LauncherTypeOK /\ OfItsOp(cmd[c]) /\ At(c, "read") /\ cmd[c] \in Commands
      /\ cmd[c].op = "reset" /\ cmd[c].pass \in Names \cup {Special} /\ cmd[c].pc \notin Resting
  BY CommandTypes DEF LauncherIInv, ResetRead, OfItsOp, At, Resting
<1>2. /\ k \in Commands /\ k.op = "reset" /\ k.pc = "truncate"
      /\ k.pass \in Names \cup {Special} /\ k.secret \in Names
  <2>1. pass \in Names \cup {Special} /\ pass \in Passwords /\ file.secret \in Names
    BY <1>1, LauncherAssumption DEF LauncherTypeOK, Names, Passwords
  <2> QED
    BY <1>1, <2>1 DEF Commands, SecretNames
<1>3. alone' = alone /\ server'.pid <= pids'
  BY <1>1 DEF LauncherIInv, ResetRead, serverVars, historyVars
<1>4. CASE file.exists
  <2>1. /\ cmd' \in [Cmds -> Commands] /\ cmd'[c] = k
        /\ \A d \in Cmds \ {c} : cmd'[d] = cmd[d]
    BY <1>1, <1>2, <1>4 DEF LauncherTypeOK, ResetRead
  <2>2. LauncherTypeOK'
    BY <1>1, <2>1 DEF LauncherTypeOK, ResetRead, diskVars, serverVars, historyVars
  <2>3. OfItsOp(k) /\ StartSound(c)'
    BY <1>2, <2>1 DEF OfItsOp, StartSound
  <2> QED
    BY <1>1, <1>3, <2>1, <2>2, <2>3, ActorStep
<1>5. CASE ~file.exists
  <2>1. End(c)
    BY <1>5 DEF ResetRead
  <2>2. cmd' \in [Cmds -> Commands]
    BY <1>1, <2>1, EndTypes
  <2>3. LauncherTypeOK'
    BY <1>1, <2>2 DEF LauncherTypeOK, ResetRead, diskVars, serverVars, historyVars
  <2> QED
    BY <1>1, <1>3, <2>1, <2>3, EndStep
<1> QED
  BY <1>4, <1>5

LEMMA CrashStep ==
    ASSUME LauncherIInv, NEW c \in Cmds, Crash(c)
    PROVE  LauncherIInv'
<1>1. LauncherTypeOK /\ End(c) /\ cmd' \in [Cmds -> Commands]
  BY EndTypes DEF LauncherIInv, Crash
<1>2. crashes' \in 0..MaxCrashes
  BY <1>1, LauncherAssumption DEF LauncherTypeOK, Crash
<1>3. LauncherTypeOK'
  BY <1>1, <1>2 DEF LauncherTypeOK, Crash, diskVars, serverVars
<1>4. alone' = alone /\ server'.pid <= pids' /\ cmd[c].pc \notin Resting
  BY DEF LauncherIInv, Crash, serverVars
<1> QED
  BY <1>1, <1>3, <1>4, EndStep

\* What happens to the server or to the row of admin ends nobody's command, but nobody is
\* alone any more.
LEMMA OutsideStep ==
    ASSUME LauncherIInv, ServerDies \/ DeleteAdmin
    PROVE  LauncherIInv'
<1>1. alone' = {} /\ cmd' = cmd /\ pids' = pids /\ (server' = server \/ server' = NoServer)
  BY DEF ServerDies, DeleteAdmin, serverVars
<1>2. NoServer \in [pid : 0..MaxPids, secret : SecretNames] /\ 0 \in Names
  BY LauncherAssumption DEF NoServer, SecretNames, Names
<1>3. LauncherTypeOK'
  BY <1>1, <1>2
  DEF LauncherIInv, LauncherTypeOK, ServerDies, DeleteAdmin, diskVars, serverVars
<1>4. server'.pid <= pids'
  BY <1>1, LauncherAssumption DEF LauncherIInv, LauncherTypeOK, NoServer
<1> QED
  BY <1>1, <1>3, <1>4 DEF LauncherIInv, AloneRests

-----------------------------------------------------------------------------
(* The theorems *)

LEMMA LauncherInitInv == LauncherInit => LauncherIInv
<1> SUFFICES ASSUME LauncherInit PROVE LauncherIInv
  OBVIOUS
<1>1. cmd \in [Cmds -> Commands] /\ \A c \in Cmds : cmd[c] = Idle
  BY IdleTypes DEF LauncherInit
<1>2. LauncherTypeOK
  <2>1. 0 \in Names /\ 0 \in 0..MaxPids /\ 0 \in 0..MaxCrashes /\ 0 \in Passwords
    BY LauncherAssumption DEF Passwords, Names
  <2> QED
    BY <1>1, <2>1 DEF LauncherInit, LauncherTypeOK, SecretNames, NoFile, NoServer
<1>3. OfItsOp(Idle)
  BY DEF OfItsOp, Idle
<1> QED
  BY <1>1, <1>2, <1>3, LauncherAssumption
  DEF LauncherInit, LauncherIInv, AloneRests, NoServer

LEMMA LauncherNextInv == LauncherIInv /\ [LauncherNext]_launcherVars => LauncherIInv'
<1> SUFFICES ASSUME LauncherIInv, [LauncherNext]_launcherVars PROVE LauncherIInv'
  OBVIOUS
<1>1. ASSUME NEW c \in Cmds, Start(c) \/ Stop(c) \/ ResetPassword(c) PROVE LauncherIInv'
  BY <1>1, StartStep
<1>2. ASSUME NEW c \in Cmds, Secrets(c) PROVE LauncherIInv'
  BY <1>2, GenerateStep, UpdateStep, KeepStep, TruncateStep, WriteStep, SourceStep,
     MisreadStep
  DEF Secrets
<1>3. ASSUME NEW c \in Cmds, Bootstrap(c) PROVE LauncherIInv'
  BY <1>3, BootstrapStep
<1>4. ASSUME NEW c \in Cmds, Process(c) PROVE LauncherIInv'
  BY <1>4, CheckStep, KillStep, RemoveStep, LaunchStep, EchoStep, VerifyStep DEF Process
<1>5. ASSUME NEW c \in Cmds, ResetDatabase(c) \/ ResetRead(c) \/ Crash(c)
      PROVE  LauncherIInv'
  BY <1>5, ResetDatabaseStep, ResetReadStep, CrashStep
<1>6. CASE ServerDies \/ DeleteAdmin
  BY <1>6, OutsideStep
<1>7. CASE UNCHANGED launcherVars
  BY <1>7
  DEF launcherVars, diskVars, serverVars, historyVars, LauncherIInv, LauncherTypeOK,
      AloneRests, StartSound, PasswordKept, SecretKept, ServerNamed, At, Alive
<1> QED
  BY <1>1, <1>2, <1>3, <1>4, <1>5, <1>6, <1>7 DEF LauncherNext

\* Passwords, secrets and PIDs stay what they are through every command, and whoever is
\* alone is a terminal.
THEOREM LauncherTypeCorrect == LauncherSpec => []LauncherTypeOK
<1>1. LauncherIInv => LauncherTypeOK
  BY DEF LauncherIInv
<1> QED
  BY <1>1, LauncherInitInv, LauncherNextInv, PTL DEF LauncherSpec

\* The summary of a start that nothing interferes with names the password that is in the
\* database if bootstrap took it, whatever was left behind and whatever the shell made of the
\* file; the file names the same, or one that the shell does not take literally.
THEOREM SummaryTellsTheTruth == LauncherSpec => []SummaryTrue
<1>1. LauncherIInv => SummaryTrue
  BY DEF LauncherIInv, SummaryTrue, Summary, StartSound, PasswordKept, OfItsOp, Sourced,
         Checked, At
<1> QED
  BY <1>1, LauncherInitInv, LauncherNextInv, PTL DEF LauncherSpec

\* After such a start the PID file names the server, which signs with the file's secret,
\* or, next to a password that hides it from the shell, with the configuration's.
THEOREM ServerIsNamed == LauncherSpec => []SummaryNamesServer
<1>1. LauncherIInv => SummaryNamesServer
  BY DEF LauncherIInv, SummaryNamesServer, Summary, StartSound, SecretKept, ServerNamed,
         OfItsOp, Sourced, Checked, Alive, At
<1> QED
  BY <1>1, LauncherInitInv, LauncherNextInv, PTL DEF LauncherSpec

-----------------------------------------------------------------------------
(* One command after the other *)

Busy(c) == cmd[c].pc \notin Resting
Unaccompanied(c) == \A d \in Cmds \ {c} : ~Busy(d)

\* The steps of a start after it has read its file.
AfterSource(c) == cmd[c].op = "start" /\ cmd[c].pc \in Sourced \ Resting

\* What holds of the secrets while at most c is under way: there is one, or none, and none
\* only where an interruption has left the file empty.
SecretSound(c) ==
    /\ \E s \in Names : /\ file.secret \in {0, s}
                        /\ signed \subseteq {0, s, Unread}
                        /\ Busy(c) => cmd[c].secret \in {0, s, Unread}
    /\ ~file.exists => file.secret = 0 /\ signed = {}
    /\ At(c, "write") \/ At(c, "source") \/ AfterSource(c) => file.exists
    /\ crashes = 0 =>
           /\ 0 \notin signed
           /\ At(c, "truncate") \/ At(c, "write") \/ AfterSource(c) => cmd[c].secret # 0
           /\ file.exists /\ ~At(c, "write") => file.secret # 0

\* Of the server: the PID file names it, or c is about to write its PID.
ServerSound(c) ==
    crashes = 0 =>
        /\ server # NoServer =>
               IF At(c, "echo") THEN server.pid = cmd[c].pid ELSE pidfile = server.pid
        /\ cmd[c].pc \in {"kill", "remove", "launch"} => server = NoServer
        /\ At(c, "stopped") /\ c \in alone => server = NoServer

SerialIInv ==
    /\ server.pid = 0 => server = NoServer
    /\ ~overlaps =>
           /\ \E c \in Cmds : Unaccompanied(c)
           /\ \A c \in Cmds : Unaccompanied(c) => SecretSound(c) /\ ServerSound(c)

\* With no overlap whoever is busy is unaccompanied.
LEMMA BusyIsUnaccompanied ==
    ASSUME SerialIInv, ~overlaps, NEW c \in Cmds, Busy(c)
    PROVE  Unaccompanied(c) /\ SecretSound(c) /\ ServerSound(c)
BY DEF SerialIInv, Unaccompanied

\* A step of c: what holds of c holds of whoever is unaccompanied after it.
LEMMA SerialStep ==
    ASSUME LauncherIInv, SerialIInv, NEW c \in Cmds, Busy(c),
           \A d \in Cmds \ {c} : cmd'[d] = cmd[d], UNCHANGED <<alone, overlaps>>,
           server'.pid = 0 => server' = NoServer,
           ~overlaps => SecretSound(c)' /\ ServerSound(c)'
    PROVE  SerialIInv'
<1> SUFFICES ASSUME ~overlaps
             PROVE  /\ (\E d \in Cmds : Unaccompanied(d))'
                    /\ \A d \in Cmds : Unaccompanied(d)' => SecretSound(d)' /\ ServerSound(d)'
  BY DEF SerialIInv
<1>1. Unaccompanied(c)'
  BY BusyIsUnaccompanied DEF Unaccompanied, Busy
<1>2. SecretSound(c)' /\ ServerSound(c)'
  OBVIOUS
<1>3. ASSUME NEW d \in Cmds \ {c}, Unaccompanied(d)'
      PROVE  SecretSound(d)' /\ ServerSound(d)'
  <2>1. ~Busy(c)' /\ ~Busy(d)' /\ d \notin alone'
    <3>1. d \notin alone
      BY DEF LauncherIInv, AloneRests, Busy
    <3> QED  BY <1>1, <1>3, <3>1 DEF Unaccompanied
  <2>2. /\ cmd'[c].pc \in {"idle", "summary", "stopped"}
        /\ cmd'[d].pc \in {"idle", "summary", "stopped"}
    BY <2>1 DEF Busy, Resting
  <2>3. SecretSound(d)'
    BY <1>2, <2>1, <2>2 DEF SecretSound, AfterSource, Busy, At
  <2>4. ServerSound(d)'
    BY <1>2, <2>1, <2>2 DEF ServerSound, At
  <2> QED  BY <2>3, <2>4
<1> QED  BY <1>1, <1>2, <1>3

\* A step that leaves file, secrets and the command's own secret alone, and begins no
\* writing and no launching.
LEMMA SecretUntouched ==
    ASSUME LauncherIInv, NEW c \in Cmds, Busy(c), SecretSound(c),
           UNCHANGED <<file, signed, crashes>>,
           cmd'[c].op = cmd[c].op /\ cmd'[c].secret = cmd[c].secret,
           ~At(c, "write"), cmd'[c].pc \notin {"truncate", "write"},
           cmd'[c].pc = "source" => file.exists,
           AfterSource(c)' => AfterSource(c)
    PROVE  SecretSound(c)'
BY DEF SecretSound, At

\* A step that touches neither the server nor the PID file.
LEMMA ServerUntouched ==
    ASSUME LauncherIInv, NEW c \in Cmds, ServerSound(c),
           UNCHANGED <<server, pidfile, crashes>>, ~At(c, "echo"),
           cmd'[c].pc \notin {"echo", "kill", "remove", "launch", "stopped"}
    PROVE  ServerSound(c)'
BY DEF ServerSound, At

\* The fields after a Goto and after an End.
LEMMA GotoFields ==
    ASSUME LauncherTypeOK, NEW c \in Cmds, NEW pc, Goto(c, pc)
    PROVE  /\ cmd'[c].pc = pc /\ cmd'[c].op = cmd[c].op
           /\ cmd'[c].secret = cmd[c].secret /\ cmd'[c].pid = cmd[c].pid
           /\ \A d \in Cmds \ {c} : cmd'[d] = cmd[d]
BY DEF LauncherTypeOK, Commands, Goto

LEMMA EndFields ==
    ASSUME LauncherTypeOK, NEW c \in Cmds, End(c)
    PROVE  /\ cmd'[c].pc = "idle" /\ cmd'[c].op = "stop"
           /\ \A d \in Cmds \ {c} : cmd'[d] = cmd[d]
BY EndTypes DEF Idle

-----------------------------------------------------------------------------
(* The steps of one command after the other *)

LEMMA SerialBegin ==
    ASSUME LauncherIInv, SerialIInv, NEW c \in Cmds, NEW op \in {"start", "stop", "reset"},
           NEW pc \in {"file", "check", "database"}, NEW typed \in Passwords,
           op = "start" => pc = "file", Begin(c, op, pc, typed)
    PROVE  SerialIInv'
<1>1. LauncherTypeOK /\ UNCHANGED <<diskVars, serverVars, crashes, signed>>
  BY DEF LauncherIInv, Begin
<1>2. /\ cmd'[c].op = op /\ cmd'[c].pc = pc /\ cmd'[c].secret = 0
      /\ \A d \in Cmds \ {c} : cmd'[d] = cmd[d]
  BY <1>1 DEF Begin, LauncherTypeOK, Idle
<1>3. SUFFICES ASSUME ~overlaps'
               PROVE  /\ (\E d \in Cmds : Unaccompanied(d))'
                      /\ \A d \in Cmds : Unaccompanied(d)' => SecretSound(d)' /\ ServerSound(d)'
  BY <1>1 DEF SerialIInv, serverVars
<1>4. ~overlaps /\ Unaccompanied(c) /\ ~Busy(c)
  BY <1>3 DEF Begin, Unaccompanied, Busy
<1>5. SecretSound(c) /\ ServerSound(c)
  BY <1>4 DEF SerialIInv
<1>6. Busy(c)'
  BY <1>2 DEF Busy, Resting
<1>7. \A d \in Cmds \ {c} : ~Unaccompanied(d)'
  BY <1>6 DEF Unaccompanied
<1>8. Unaccompanied(c)'
  BY <1>2, <1>4 DEF Unaccompanied, Busy
<1>9. SecretSound(c)'
  <2>1. ~At(c, "write")
    BY <1>4 DEF Busy, Resting, At
  <2>2. ~At(c, "write")' /\ ~At(c, "source")' /\ ~At(c, "truncate")' /\ ~AfterSource(c)'
    BY <1>2 DEF At, AfterSource, Sourced, Checked, Resting
  <2> QED  BY <1>1, <1>2, <1>5, <2>1, <2>2 DEF SecretSound, diskVars
<1>10. ServerSound(c)'
  <2>1. ~At(c, "echo")
    BY <1>4 DEF Busy, Resting, At
  <2> QED  BY <1>1, <1>2, <1>5, <2>1 DEF ServerSound, At, diskVars, serverVars
<1> QED  BY <1>7, <1>8, <1>9, <1>10

LEMMA SerialBegins ==
    ASSUME LauncherIInv, SerialIInv, NEW c \in Cmds, Start(c) \/ Stop(c) \/ ResetPassword(c)
    PROVE  SerialIInv'
<1>1. CASE Start(c)
  <2>1. PICK typed \in Passwords : Begin(c, "start", "file", typed)
    BY <1>1 DEF Start
  <2> QED  BY <2>1, SerialBegin
<1>2. CASE Stop(c)
  <2>1. Begin(c, "stop", "check", 0) /\ 0 \in Passwords
    BY <1>2, LauncherAssumption DEF Stop, Passwords, Names
  <2> QED  BY <2>1, SerialBegin
<1>3. CASE ResetPassword(c)
  <2>1. PICK typed \in Passwords : Begin(c, "reset", "database", typed)
    BY <1>3 DEF ResetPassword
  <2> QED  BY <2>1, SerialBegin
<1> QED  BY <1>1, <1>2, <1>3

LEMMA SerialGenerate ==
    ASSUME LauncherIInv, SerialIInv, NEW c \in Cmds, Generate(c)
    PROVE  SerialIInv'
<1>1. LauncherTypeOK /\ OfItsOp(cmd[c]) /\ cmd[c] \in Commands
  BY CommandTypes DEF LauncherIInv
<1>2. /\ At(c, "file") /\ ~file.exists /\ Fresh \in Names /\ Busy(c)
      /\ UNCHANGED <<diskVars, serverVars, historyVars>>
  BY DEF Generate, Busy, At, Resting
<1>3. /\ cmd'[c].pc = "truncate" /\ cmd'[c].secret = Fresh
      /\ \A d \in Cmds \ {c} : cmd'[d] = cmd[d]
  BY <1>1 DEF Generate, LauncherTypeOK, Commands
<1>4. Fresh # 0
  BY <1>1, LauncherAssumption DEF LauncherTypeOK, Names, Fresh
<1>5. ASSUME ~overlaps PROVE SecretSound(c)' /\ ServerSound(c)'
  <2>1. SecretSound(c) /\ ServerSound(c)
    BY <1>2, <1>5, BusyIsUnaccompanied
  <2>2. ~At(c, "write")' /\ ~At(c, "source")' /\ ~AfterSource(c)'
    BY <1>3 DEF At, AfterSource, Sourced, Checked
  <2>3. SecretSound(c)'
    BY <1>2, <1>3, <1>4, <2>1, <2>2 DEF SecretSound, diskVars, historyVars
  <2>4. ServerSound(c)'
    BY <1>2, <1>3, <2>1 DEF ServerSound, At, diskVars, serverVars, historyVars
  <2> QED  BY <2>3, <2>4
<1> QED  BY <1>2, <1>3, <1>5, SerialStep DEF historyVars, serverVars, SerialIInv

LEMMA SerialUpdate ==
    ASSUME LauncherIInv, SerialIInv, NEW c \in Cmds, Update(c)
    PROVE  SerialIInv'
<1>1. LauncherTypeOK /\ OfItsOp(cmd[c]) /\ cmd[c] \in Commands
  BY CommandTypes DEF LauncherIInv
<1>2. /\ At(c, "file") /\ file.exists /\ Busy(c)
      /\ UNCHANGED <<diskVars, serverVars, historyVars>>
  BY DEF Update, Busy, At, Resting
<1>3. /\ cmd'[c].pc = "truncate" /\ cmd'[c].secret = file.secret
      /\ \A d \in Cmds \ {c} : cmd'[d] = cmd[d]
  BY <1>1 DEF Update, LauncherTypeOK, Commands
<1>4. ASSUME ~overlaps PROVE SecretSound(c)' /\ ServerSound(c)'
  <2>1. SecretSound(c) /\ ServerSound(c)
    BY <1>2, <1>4, BusyIsUnaccompanied
  <2>2. ~At(c, "write")' /\ ~At(c, "source")' /\ ~AfterSource(c)' /\ ~At(c, "write")
    BY <1>2, <1>3 DEF At, AfterSource, Sourced, Checked
  <2>3. SecretSound(c)'
    BY <1>2, <1>3, <2>1, <2>2 DEF SecretSound, diskVars, historyVars
  <2>4. ServerSound(c)'
    BY <1>2, <1>3, <2>1 DEF ServerSound, At, diskVars, serverVars, historyVars
  <2> QED  BY <2>3, <2>4
<1> QED  BY <1>2, <1>3, <1>4, SerialStep DEF historyVars, serverVars, SerialIInv

LEMMA SerialKeep ==
    ASSUME LauncherIInv, SerialIInv, NEW c \in Cmds, Keep(c)
    PROVE  SerialIInv'
<1>1. LauncherTypeOK /\ OfItsOp(cmd[c]) /\ cmd[c] \in Commands
  BY CommandTypes DEF LauncherIInv
<1>2. /\ At(c, "file") /\ file.exists /\ Busy(c) /\ Goto(c, "source")
      /\ UNCHANGED <<diskVars, serverVars, historyVars>>
  BY DEF Keep, Busy, At, Resting
<1>3. /\ cmd'[c].pc = "source" /\ cmd'[c].op = cmd[c].op /\ cmd'[c].secret = cmd[c].secret
      /\ \A d \in Cmds \ {c} : cmd'[d] = cmd[d]
  BY <1>1, <1>2, GotoFields
<1>4. ASSUME ~overlaps PROVE SecretSound(c)' /\ ServerSound(c)'
  <2>1. SecretSound(c) /\ ServerSound(c)
    BY <1>2, <1>4, BusyIsUnaccompanied
  <2>2. ~At(c, "write") /\ ~At(c, "echo") /\ ~AfterSource(c)'
    BY <1>2, <1>3 DEF At, AfterSource, Sourced, Checked
  <2>3. SecretSound(c)'
    BY <1>2, <1>3, <2>1, <2>2, SecretUntouched DEF diskVars, historyVars
  <2>4. ServerSound(c)'
    BY <1>2, <1>3, <2>1, <2>2, ServerUntouched DEF diskVars, serverVars, historyVars
  <2> QED  BY <2>3, <2>4
<1> QED  BY <1>2, <1>3, <1>4, SerialStep DEF historyVars, serverVars, SerialIInv

LEMMA SerialTruncate ==
    ASSUME LauncherIInv, SerialIInv, NEW c \in Cmds, Truncate(c)
    PROVE  SerialIInv'
<1>1. LauncherTypeOK /\ OfItsOp(cmd[c]) /\ cmd[c] \in Commands
  BY CommandTypes DEF LauncherIInv
<1>2. /\ At(c, "truncate") /\ Busy(c) /\ Goto(c, "write") /\ file' = Empty
      /\ UNCHANGED <<pidfile, serverVars, historyVars>>
  BY DEF Truncate, Busy, At, Resting
<1>3. /\ cmd'[c].pc = "write" /\ cmd'[c].op = cmd[c].op /\ cmd'[c].secret = cmd[c].secret
      /\ \A d \in Cmds \ {c} : cmd'[d] = cmd[d]
  BY <1>1, <1>2, GotoFields
<1>4. ASSUME ~overlaps PROVE SecretSound(c)' /\ ServerSound(c)'
  <2>1. SecretSound(c) /\ ServerSound(c)
    BY <1>2, <1>4, BusyIsUnaccompanied
  <2>2. ~At(c, "write") /\ ~At(c, "echo") /\ At(c, "write")' /\ ~AfterSource(c)'
    BY <1>2, <1>3 DEF At, AfterSource, Sourced, Checked
  <2>3. SecretSound(c)'
    BY <1>2, <1>3, <2>1, <2>2 DEF SecretSound, Empty, historyVars
  <2>4. ServerSound(c)'
    BY <1>2, <1>3, <2>1, <2>2, ServerUntouched DEF serverVars, historyVars
  <2> QED  BY <2>3, <2>4
<1> QED  BY <1>2, <1>3, <1>4, SerialStep DEF historyVars, serverVars, SerialIInv

LEMMA SerialWrite ==
    ASSUME LauncherIInv, SerialIInv, NEW c \in Cmds, Write(c)
    PROVE  SerialIInv'
<1>1. LauncherTypeOK /\ OfItsOp(cmd[c]) /\ cmd[c] \in Commands
  BY CommandTypes DEF LauncherIInv
<1>2. /\ At(c, "write") /\ Busy(c)
      /\ file' = [exists |-> TRUE, pass |-> cmd[c].pass, secret |-> cmd[c].secret]
      /\ UNCHANGED <<pidfile, serverVars, historyVars>>
  BY DEF Write, Busy, At, Resting
<1>3. /\ cmd'[c].pc \in {"idle", "source"}
      /\ cmd'[c].pc = "source" => cmd'[c].secret = cmd[c].secret
      /\ \A d \in Cmds \ {c} : cmd'[d] = cmd[d]
  BY <1>1, GotoFields, EndFields DEF Write
<1>4. ASSUME ~overlaps PROVE SecretSound(c)' /\ ServerSound(c)'
  <2>1. SecretSound(c) /\ ServerSound(c)
    BY <1>2, <1>4, BusyIsUnaccompanied
  <2>2. /\ ~At(c, "echo") /\ ~At(c, "write")' /\ ~At(c, "truncate")' /\ ~AfterSource(c)'
    BY <1>2, <1>3 DEF At, AfterSource, Sourced, Checked
  <2>3. Busy(c)' => cmd'[c].secret = cmd[c].secret
    BY <1>3 DEF Busy, Resting
  <2>4. cmd[c].secret # Unread
    BY <1>1, <1>2, LauncherAssumption DEF OfItsOp, At, Names, Unread
  <2>5. SecretSound(c)'
    <3>1. PICK s \in Names : /\ signed \subseteq {0, s, Unread}
                             /\ cmd[c].secret \in {0, s}
      BY <1>2, <2>1, <2>4 DEF SecretSound
    <3> QED
      BY <1>2, <2>1, <2>2, <2>3, <3>1 DEF SecretSound, historyVars
  <2>6. ServerSound(c)'
    BY <1>2, <1>3, <2>1, <2>2, ServerUntouched DEF serverVars, historyVars
  <2> QED  BY <2>5, <2>6
<1> QED  BY <1>2, <1>3, <1>4, SerialStep DEF historyVars, serverVars, SerialIInv

LEMMA SerialSource ==
    ASSUME LauncherIInv, SerialIInv, NEW c \in Cmds, Source(c)
    PROVE  SerialIInv'
<1>1. LauncherTypeOK /\ OfItsOp(cmd[c]) /\ cmd[c] \in Commands
  BY CommandTypes DEF LauncherIInv
<1>2. /\ At(c, "source") /\ Busy(c) /\ UNCHANGED <<diskVars, serverVars, historyVars>>
  BY DEF Source, Busy, At, Resting
<1>3. /\ cmd'[c].pc = "look" /\ cmd'[c].secret = file.secret
      /\ \A d \in Cmds \ {c} : cmd'[d] = cmd[d]
  BY <1>1 DEF Source, LauncherTypeOK, Commands
<1>4. ASSUME ~overlaps PROVE SecretSound(c)' /\ ServerSound(c)'
  <2>1. SecretSound(c) /\ ServerSound(c)
    BY <1>2, <1>4, BusyIsUnaccompanied
  <2>2. /\ ~At(c, "echo") /\ ~At(c, "write") /\ ~At(c, "write")' /\ ~At(c, "truncate")'
        /\ ~At(c, "source")'
    BY <1>2, <1>3 DEF At
  <2>3. SecretSound(c)'
    BY <1>2, <1>3, <2>1, <2>2 DEF SecretSound, diskVars, historyVars
  <2>4. ServerSound(c)'
    BY <1>2, <1>3, <2>1, <2>2, ServerUntouched DEF diskVars, serverVars, historyVars
  <2> QED  BY <2>3, <2>4
<1> QED  BY <1>2, <1>3, <1>4, SerialStep DEF historyVars, serverVars, SerialIInv

LEMMA SerialMisread ==
    ASSUME LauncherIInv, SerialIInv, NEW c \in Cmds, Misread(c)
    PROVE  SerialIInv'
<1>1. LauncherTypeOK /\ OfItsOp(cmd[c]) /\ cmd[c] \in Commands
  BY CommandTypes DEF LauncherIInv
<1>2. /\ At(c, "source") /\ Busy(c) /\ UNCHANGED <<diskVars, serverVars, historyVars>>
  BY DEF Misread, Busy, At, Resting
<1>3. /\ \/ cmd'[c].pc = "idle"
         \/ cmd'[c].pc = "look" /\ cmd'[c].secret \in {file.secret, Unread}
      /\ \A d \in Cmds \ {c} : cmd'[d] = cmd[d]
  BY <1>1, EndFields DEF Misread, LauncherTypeOK, Commands
<1>4. ASSUME ~overlaps PROVE SecretSound(c)' /\ ServerSound(c)'
  <2>1. SecretSound(c) /\ ServerSound(c)
    BY <1>2, <1>4, BusyIsUnaccompanied
  <2>2. /\ ~At(c, "echo") /\ ~At(c, "write") /\ ~At(c, "write")' /\ ~At(c, "truncate")'
        /\ ~At(c, "source")'
    BY <1>2, <1>3 DEF At
  <2>3. Busy(c)' \/ AfterSource(c)' => cmd'[c].secret \in {file.secret, Unread}
    BY <1>3 DEF AfterSource, Sourced, Checked, Busy, Resting
  <2>4. file.exists /\ Unread # 0
    BY <1>2, <2>1 DEF SecretSound, Unread
  <2>5. SecretSound(c)'
    BY <1>2, <2>1, <2>2, <2>3, <2>4 DEF SecretSound, diskVars, historyVars
  <2>6. ServerSound(c)'
    BY <1>2, <1>3, <2>1, <2>2, ServerUntouched DEF diskVars, serverVars, historyVars
  <2> QED  BY <2>5, <2>6
<1> QED  BY <1>2, <1>3, <1>4, SerialStep DEF historyVars, serverVars, SerialIInv

\* Bootstrap only changes the database.
LEMMA SerialBoot ==
    ASSUME LauncherIInv, SerialIInv, NEW c \in Cmds, cmd[c].pc \in {"look", "reset", "create"},
           cmd'[c].pc \in {"create", "reset", "check"},
           cmd'[c].op = cmd[c].op, cmd'[c].secret = cmd[c].secret,
           \A d \in Cmds \ {c} : cmd'[d] = cmd[d],
           UNCHANGED <<file, pidfile, serverVars, historyVars>>
    PROVE  SerialIInv'
<1>1. Busy(c) /\ OfItsOp(cmd[c])
  BY DEF LauncherIInv, Busy, Resting
<1>2. ASSUME ~overlaps PROVE SecretSound(c)' /\ ServerSound(c)'
  <2>1. SecretSound(c) /\ ServerSound(c)
    BY <1>1, <1>2, BusyIsUnaccompanied
  <2>2. ~At(c, "write") /\ ~At(c, "echo") /\ AfterSource(c)
    BY <1>1 DEF At, AfterSource, OfItsOp, Sourced, Checked, Resting
  <2>3. SecretSound(c)'
    BY <1>1, <2>1, <2>2, SecretUntouched DEF historyVars
  <2>4. ServerSound(c)'
    BY <2>1, <2>2, ServerUntouched DEF serverVars, historyVars
  <2> QED  BY <2>3, <2>4
<1> QED  BY <1>1, <1>2, SerialStep DEF historyVars, serverVars, SerialIInv

LEMMA SerialBootstrap ==
    ASSUME LauncherIInv, SerialIInv, NEW c \in Cmds, Bootstrap(c)
    PROVE  SerialIInv'
<1>1. LauncherTypeOK /\ cmd[c].pc \in {"look", "reset", "create"}
  BY DEF LauncherIInv, Bootstrap, Look, BootReset, BootCreate, BootFails, At
<1>2. UNCHANGED <<file, pidfile, serverVars, historyVars>>
  BY DEF Bootstrap, Look, BootReset, BootCreate, BootFails, diskVars
<1>3. Refused(c) \/ \E pc \in {"create", "reset", "check"} : Goto(c, pc)
  BY DEF Bootstrap, Look, BootReset, BootCreate, BootFails
<1>4. /\ cmd'[c].pc \in {"create", "reset", "check"}
      /\ cmd'[c].op = cmd[c].op /\ cmd'[c].secret = cmd[c].secret
      /\ \A d \in Cmds \ {c} : cmd'[d] = cmd[d]
  <2>1. CASE Refused(c)
    BY <1>1, <2>1 DEF Refused, LauncherTypeOK, Commands
  <2>2. CASE \E pc \in {"create", "reset", "check"} : Goto(c, pc)
    BY <1>1, <2>2, GotoFields
  <2> QED  BY <1>3, <2>1, <2>2
<1> QED  BY <1>1, <1>2, <1>4, SerialBoot

LEMMA SerialCheck ==
    ASSUME LauncherIInv, SerialIInv, NEW c \in Cmds, Check(c)
    PROVE  SerialIInv'
<1>1. LauncherTypeOK /\ OfItsOp(cmd[c]) /\ cmd[c] \in Commands
  BY CommandTypes DEF LauncherIInv
<1>2. /\ At(c, "check") /\ Busy(c) /\ UNCHANGED <<diskVars, serverVars, historyVars>>
  BY DEF Check, Busy, At, Resting
<1>3. PICK pc : /\ Goto(c, pc)
                /\ \/ pc = "term"
                   \/ pc = "launch" /\ ~Alive(pidfile) /\ cmd[c].op = "start"
                   \/ pc = "stopped" /\ ~Alive(pidfile)
  BY DEF Check
<1>4. /\ cmd'[c].pc = pc /\ cmd'[c].op = cmd[c].op /\ cmd'[c].secret = cmd[c].secret
      /\ \A d \in Cmds \ {c} : cmd'[d] = cmd[d]
  BY <1>1, <1>3, GotoFields
<1>5. ASSUME ~overlaps PROVE SecretSound(c)' /\ ServerSound(c)'
  <2>1. SecretSound(c) /\ ServerSound(c)
    BY <1>2, <1>5, BusyIsUnaccompanied
  <2>2. ~At(c, "write") /\ ~At(c, "echo") /\ (AfterSource(c)' => AfterSource(c))
    BY <1>2, <1>4 DEF At, AfterSource, Sourced, Checked, Resting
  <2>3. SecretSound(c)'
    BY <1>2, <1>3, <1>4, <2>1, <2>2, SecretUntouched DEF diskVars, historyVars
  <2>4. crashes = 0 /\ ~Alive(pidfile) => server = NoServer
    BY <2>1, <2>2 DEF ServerSound, SerialIInv, Alive
  <2>5. ServerSound(c)'
    BY <1>2, <1>3, <1>4, <2>1, <2>2, <2>4
    DEF ServerSound, At, diskVars, serverVars, historyVars
  <2> QED  BY <2>3, <2>5
<1> QED  BY <1>2, <1>4, <1>5, SerialStep DEF historyVars, serverVars, SerialIInv

LEMMA SerialKill ==
    ASSUME LauncherIInv, SerialIInv, NEW c \in Cmds, Kill(c)
    PROVE  SerialIInv'
<1>1. LauncherTypeOK /\ OfItsOp(cmd[c]) /\ cmd[c] \in Commands
  BY CommandTypes DEF LauncherIInv
<1>2. /\ cmd[c].pc \in {"term", "kill"} /\ Busy(c)
      /\ server' = Killed(pidfile) /\ UNCHANGED <<diskVars, historyVars>>
  BY DEF Kill, Busy, Resting
<1>3. /\ cmd'[c].pc \in {"kill", "remove"}
      /\ cmd'[c].op = cmd[c].op /\ cmd'[c].secret = cmd[c].secret
      /\ \A d \in Cmds \ {c} : cmd'[d] = cmd[d]
  BY <1>1, GotoFields DEF Kill
<1>4. ASSUME ~overlaps PROVE SecretSound(c)' /\ ServerSound(c)'
  <2>1. SecretSound(c) /\ ServerSound(c)
    BY <1>2, <1>4, BusyIsUnaccompanied
  <2>2. ~At(c, "write") /\ ~At(c, "echo") /\ (AfterSource(c)' => AfterSource(c))
    BY <1>2, <1>3 DEF At, AfterSource, Sourced, Checked, Resting
  <2>3. SecretSound(c)'
    BY <1>2, <1>3, <2>1, <2>2, SecretUntouched DEF diskVars, historyVars
  <2>4. crashes = 0 => server' = NoServer
    BY <1>2, <2>1, <2>2 DEF ServerSound, SerialIInv, Killed, Alive
  <2>5. ServerSound(c)'
    BY <1>2, <2>4 DEF ServerSound, historyVars
  <2> QED  BY <2>3, <2>5
<1>5. server'.pid = 0 => server' = NoServer
  BY <1>2 DEF SerialIInv, Killed
<1> QED  BY <1>2, <1>3, <1>4, <1>5, SerialStep DEF historyVars

LEMMA SerialRemove ==
    ASSUME LauncherIInv, SerialIInv, NEW c \in Cmds, Remove(c)
    PROVE  SerialIInv'
<1>1. LauncherTypeOK /\ OfItsOp(cmd[c]) /\ cmd[c] \in Commands
  BY CommandTypes DEF LauncherIInv
<1>2. At(c, "remove") /\ Busy(c) /\ UNCHANGED <<file, serverVars, historyVars>>
  BY DEF Remove, Busy, At, Resting
<1>3. /\ cmd'[c].pc \in {"launch", "stopped"}
      /\ cmd'[c].op = cmd[c].op /\ cmd'[c].secret = cmd[c].secret
      /\ \A d \in Cmds \ {c} : cmd'[d] = cmd[d]
  BY <1>1, GotoFields DEF Remove
<1>4. ASSUME ~overlaps PROVE SecretSound(c)' /\ ServerSound(c)'
  <2>1. SecretSound(c) /\ ServerSound(c)
    BY <1>2, <1>4, BusyIsUnaccompanied
  <2>2. ~At(c, "write") /\ (AfterSource(c)' => AfterSource(c))
    BY <1>2, <1>3 DEF At, AfterSource, Sourced, Checked, Resting
  <2>3. SecretSound(c)'
    BY <1>2, <1>3, <2>1, <2>2, SecretUntouched DEF historyVars
  <2>4. ServerSound(c)'
    BY <1>2, <2>1 DEF ServerSound, At, serverVars, historyVars
  <2> QED  BY <2>3, <2>4
<1> QED  BY <1>2, <1>3, <1>4, SerialStep DEF historyVars, serverVars, SerialIInv

LEMMA SerialLaunch ==
    ASSUME LauncherIInv, SerialIInv, NEW c \in Cmds, Launch(c)
    PROVE  SerialIInv'
<1>1. LauncherTypeOK /\ OfItsOp(cmd[c]) /\ cmd[c] \in Commands /\ pids \in Nat
  BY CommandTypes, LauncherAssumption DEF LauncherIInv, LauncherTypeOK
<1>2. /\ At(c, "launch") /\ Busy(c) /\ AfterSource(c)
      /\ UNCHANGED <<diskVars, alone, crashes, overlaps>>
  BY <1>1 DEF Launch, Busy, At, Resting, OfItsOp, AfterSource, Sourced, Checked
<1>3. /\ cmd'[c].pc = "echo" /\ cmd'[c].pid = pids + 1
      /\ cmd'[c].op = cmd[c].op /\ cmd'[c].secret = cmd[c].secret
      /\ \A d \in Cmds \ {c} : cmd'[d] = cmd[d]
  BY <1>1 DEF Launch, LauncherTypeOK, Commands
<1>4. \/ server' = server /\ signed' = signed /\ server # NoServer
      \/ /\ server' = [pid |-> pids + 1, secret |-> cmd[c].secret]
         /\ signed' = signed \cup {cmd[c].secret}
  BY DEF Launch
<1>5. ASSUME ~overlaps PROVE SecretSound(c)' /\ ServerSound(c)'
  <2>1. SecretSound(c) /\ ServerSound(c)
    BY <1>2, <1>5, BusyIsUnaccompanied
  <2>2. ~At(c, "write") /\ file.exists /\ ~At(c, "write")' /\ ~At(c, "truncate")'
    BY <1>2, <1>3, <2>1 DEF At, SecretSound
  <2>3. SecretSound(c)'
    <3>1. PICK s \in Names : /\ file.secret \in {0, s} /\ signed \subseteq {0, s, Unread}
                             /\ cmd[c].secret \in {0, s, Unread}
      BY <1>2, <2>1 DEF SecretSound
    <3>2. signed' \subseteq {0, s, Unread}
      BY <1>4, <3>1
    <3>3. crashes = 0 => 0 \notin signed' /\ cmd[c].secret # 0 /\ file.secret # 0
      BY <1>2, <1>4, <2>1, <2>2 DEF SecretSound
    <3> QED  BY <1>2, <1>3, <2>2, <3>1, <3>2, <3>3 DEF SecretSound, diskVars
  <2>4. crashes = 0 => server = NoServer
    BY <1>2, <2>1 DEF ServerSound, At
  <2>5. ServerSound(c)'
    BY <1>2, <1>3, <1>4, <2>4 DEF ServerSound, At
  <2> QED  BY <2>3, <2>5
<1>6. server'.pid = 0 => server' = NoServer
  BY <1>1, <1>4 DEF SerialIInv
<1> QED  BY <1>2, <1>3, <1>5, <1>6, SerialStep

LEMMA SerialEcho ==
    ASSUME LauncherIInv, SerialIInv, NEW c \in Cmds, Echo(c)
    PROVE  SerialIInv'
<1>1. LauncherTypeOK /\ OfItsOp(cmd[c]) /\ cmd[c] \in Commands
  BY CommandTypes DEF LauncherIInv
<1>2. /\ At(c, "echo") /\ Busy(c) /\ pidfile' = cmd[c].pid
      /\ UNCHANGED <<file, serverVars, historyVars>>
  BY DEF Echo, Busy, At, Resting
<1>3. /\ cmd'[c].pc = "verify"
      /\ cmd'[c].op = cmd[c].op /\ cmd'[c].secret = cmd[c].secret
      /\ \A d \in Cmds \ {c} : cmd'[d] = cmd[d]
  BY <1>1, GotoFields DEF Echo
<1>4. ASSUME ~overlaps PROVE SecretSound(c)' /\ ServerSound(c)'
  <2>1. SecretSound(c) /\ ServerSound(c)
    BY <1>2, <1>4, BusyIsUnaccompanied
  <2>2. ~At(c, "write") /\ (AfterSource(c)' => AfterSource(c))
    BY <1>2, <1>3 DEF At, AfterSource, Sourced, Checked, Resting
  <2>3. SecretSound(c)'
    BY <1>2, <1>3, <2>1, <2>2, SecretUntouched DEF historyVars
  <2>4. ServerSound(c)'
    BY <1>2, <1>3, <2>1 DEF ServerSound, At, serverVars, historyVars
  <2> QED  BY <2>3, <2>4
<1> QED  BY <1>2, <1>3, <1>4, SerialStep DEF historyVars, serverVars, SerialIInv

\* Steps that change neither what is on disk nor the server, and go on or end.
LEMMA SerialGoesOn ==
    ASSUME LauncherIInv, SerialIInv, NEW c \in Cmds, Busy(c), ~At(c, "write"), ~At(c, "echo"),
           \/ cmd'[c].pc \in {"idle", "summary"}
           \/ At(c, "database") /\ cmd'[c].pc = "read",
           Busy(c)' => cmd'[c].secret = cmd[c].secret,
           \A d \in Cmds \ {c} : cmd'[d] = cmd[d],
           UNCHANGED <<file, pidfile, serverVars, historyVars>>
    PROVE  SerialIInv'
<1>1. ASSUME ~overlaps PROVE SecretSound(c)' /\ ServerSound(c)'
  <2>1. SecretSound(c) /\ ServerSound(c)
    BY <1>1, BusyIsUnaccompanied
  <2>2. ~At(c, "write")' /\ ~At(c, "source")' /\ ~At(c, "truncate")' /\ ~AfterSource(c)'
    BY DEF At, AfterSource, Sourced, Checked, Resting
  <2>3. SecretSound(c)'
    BY <2>1, <2>2 DEF SecretSound, historyVars
  <2>4. ServerSound(c)'
    BY <2>1, ServerUntouched DEF serverVars, historyVars, Resting
  <2> QED  BY <2>3, <2>4
<1> QED  BY <1>1, SerialStep DEF historyVars, serverVars, SerialIInv

LEMMA SerialVerify ==
    ASSUME LauncherIInv, SerialIInv, NEW c \in Cmds, Verify(c)
    PROVE  SerialIInv'
<1>1. LauncherTypeOK
  BY DEF LauncherIInv
<1>2. /\ Busy(c) /\ ~At(c, "write") /\ ~At(c, "echo")
      /\ UNCHANGED <<file, pidfile, serverVars, historyVars>>
  BY DEF Verify, Busy, At, Resting, diskVars
<1>3. /\ cmd'[c].pc \in {"summary", "idle"}
      /\ \A d \in Cmds \ {c} : cmd'[d] = cmd[d]
  BY <1>1, GotoFields, EndFields DEF Verify
<1> QED  BY <1>2, <1>3, SerialGoesOn DEF Busy, Resting

LEMMA SerialResetDatabase ==
    ASSUME LauncherIInv, SerialIInv, NEW c \in Cmds, ResetDatabase(c)
    PROVE  SerialIInv'
<1>1. LauncherTypeOK
  BY DEF LauncherIInv
<1>2. /\ At(c, "database") /\ Busy(c) /\ ~At(c, "write") /\ ~At(c, "echo")
      /\ UNCHANGED <<file, pidfile, serverVars, historyVars>>
  BY DEF ResetDatabase, Busy, At, Resting
<1>3. /\ \/ cmd'[c].pc = "idle"
         \/ cmd'[c].pc = "read" /\ cmd'[c].secret = cmd[c].secret
      /\ \A d \in Cmds \ {c} : cmd'[d] = cmd[d]
  BY <1>1, GotoFields, EndFields DEF ResetDatabase
<1> QED  BY <1>2, <1>3, SerialGoesOn DEF Busy, Resting

LEMMA SerialResetRead ==
    ASSUME LauncherIInv, SerialIInv, NEW c \in Cmds, ResetRead(c)
    PROVE  SerialIInv'
<1>1. LauncherTypeOK
  BY DEF LauncherIInv
<1>2. /\ At(c, "read") /\ Busy(c) /\ UNCHANGED <<diskVars, serverVars, historyVars>>
  BY DEF ResetRead, Busy, At, Resting
<1>3. /\ \/ cmd'[c].pc = "idle"
         \/ file.exists /\ cmd'[c].pc = "truncate" /\ cmd'[c].secret = file.secret
      /\ \A d \in Cmds \ {c} : cmd'[d] = cmd[d]
  BY <1>1, EndFields DEF ResetRead, LauncherTypeOK, Commands
<1>4. ASSUME ~overlaps PROVE SecretSound(c)' /\ ServerSound(c)'
  <2>1. SecretSound(c) /\ ServerSound(c)
    BY <1>2, <1>4, BusyIsUnaccompanied
  <2>2. /\ ~At(c, "write")' /\ ~At(c, "source")' /\ ~AfterSource(c)'
        /\ ~At(c, "write") /\ ~At(c, "echo")
    BY <1>2, <1>3 DEF At, AfterSource, Sourced, Checked, Resting
  <2>3. Busy(c)' \/ At(c, "truncate")' => file.exists /\ cmd'[c].secret = file.secret
    BY <1>3 DEF Busy, Resting, At
  <2>4. SecretSound(c)'
    BY <1>2, <2>1, <2>2, <2>3 DEF SecretSound, diskVars, historyVars
  <2>5. ServerSound(c)'
    BY <1>2, <1>3, <2>1, <2>2, ServerUntouched DEF diskVars, serverVars, historyVars
  <2> QED  BY <2>4, <2>5
<1> QED  BY <1>2, <1>3, <1>4, SerialStep DEF historyVars, serverVars, SerialIInv

\* An interruption leaves disk and server as they are; from here on a file may be empty.
LEMMA SerialCrash ==
    ASSUME LauncherIInv, SerialIInv, NEW c \in Cmds, Crash(c)
    PROVE  SerialIInv'
<1>1. LauncherTypeOK /\ crashes \in Nat
  BY LauncherAssumption DEF LauncherIInv, LauncherTypeOK
<1>2. Busy(c) /\ UNCHANGED <<diskVars, serverVars, alone, overlaps, signed>>
  BY DEF Crash, Busy
<1>3. crashes' # 0
  BY <1>1 DEF Crash
<1>4. cmd'[c].pc = "idle" /\ \A d \in Cmds \ {c} : cmd'[d] = cmd[d]
  BY <1>1, EndFields DEF Crash
<1>5. ASSUME ~overlaps PROVE SecretSound(c)' /\ ServerSound(c)'
  <2>1. SecretSound(c)
    BY <1>2, <1>5, BusyIsUnaccompanied
  <2>2. /\ ~At(c, "write")' /\ ~At(c, "source")' /\ ~AfterSource(c)' /\ ~Busy(c)'
    BY <1>4 DEF At, AfterSource, Sourced, Checked, Busy, Resting
  <2>3. SecretSound(c)'
    BY <1>2, <1>3, <2>1, <2>2 DEF SecretSound, diskVars
  <2>4. ServerSound(c)'
    BY <1>3 DEF ServerSound
  <2> QED  BY <2>3, <2>4
<1> QED  BY <1>2, <1>4, <1>5, SerialStep DEF serverVars, SerialIInv

\* What happens outside leaves nobody alone, and no server that was not there.
LEMMA SerialOutside ==
    ASSUME LauncherIInv, SerialIInv, ServerDies \/ DeleteAdmin
    PROVE  SerialIInv'
<1>1. /\ UNCHANGED <<file, pidfile, cmd, crashes, overlaps, signed>>
      /\ server' \in {server, NoServer} /\ alone' = {}
  BY DEF ServerDies, DeleteAdmin, diskVars, serverVars
<1>2. \A c \in Cmds : SecretSound(c) => SecretSound(c)'
  BY <1>1 DEF SecretSound, AfterSource, Busy, At
<1>3. \A c \in Cmds : ServerSound(c) => ServerSound(c)'
  BY <1>1 DEF ServerSound, At
<1> QED  BY <1>1, <1>2, <1>3 DEF SerialIInv, Unaccompanied, Busy

LEMMA SerialInit == LauncherInit => SerialIInv
<1> SUFFICES ASSUME LauncherInit PROVE SerialIInv
  OBVIOUS
<1>1. \A c \in Cmds : cmd[c].pc = "idle" /\ cmd[c].op = "stop"
  BY DEF LauncherInit, Idle
<1>2. \A c \in Cmds : SecretSound(c)
  <2>1. 0 \in Names
    BY LauncherAssumption DEF Names
  <2> QED
    BY <1>1, <2>1 DEF LauncherInit, SecretSound, NoFile, At, AfterSource, Busy, Resting
<1>3. \A c \in Cmds : ServerSound(c)
  BY <1>1 DEF LauncherInit, ServerSound, At
<1>4. \A c \in Cmds : Unaccompanied(c)
  BY <1>1 DEF Unaccompanied, Busy, Resting
<1> QED
  BY <1>2, <1>3, <1>4, LauncherAssumption DEF LauncherInit, SerialIInv

LEMMA SerialNext ==
    LauncherIInv /\ SerialIInv /\ [LauncherNext]_launcherVars => SerialIInv'
<1> SUFFICES ASSUME LauncherIInv, SerialIInv, [LauncherNext]_launcherVars PROVE SerialIInv'
  OBVIOUS
<1>1. ASSUME NEW c \in Cmds, Start(c) \/ Stop(c) \/ ResetPassword(c) PROVE SerialIInv'
  BY <1>1, SerialBegins
<1>2. ASSUME NEW c \in Cmds, Secrets(c) PROVE SerialIInv'
  BY <1>2, SerialGenerate, SerialUpdate, SerialKeep, SerialTruncate, SerialWrite, SerialSource,
     SerialMisread
  DEF Secrets
<1>3. ASSUME NEW c \in Cmds, Bootstrap(c) PROVE SerialIInv'
  BY <1>3, SerialBootstrap
<1>4. ASSUME NEW c \in Cmds, Process(c) PROVE SerialIInv'
  BY <1>4, SerialCheck, SerialKill, SerialRemove, SerialLaunch, SerialEcho, SerialVerify
  DEF Process
<1>5. ASSUME NEW c \in Cmds, ResetDatabase(c) \/ ResetRead(c) \/ Crash(c)
      PROVE  SerialIInv'
  BY <1>5, SerialResetDatabase, SerialResetRead, SerialCrash
<1>6. CASE ServerDies \/ DeleteAdmin
  BY <1>6, SerialOutside
<1>7. CASE UNCHANGED launcherVars
  BY <1>7
  DEF launcherVars, diskVars, serverVars, historyVars, SerialIInv, Unaccompanied, SecretSound,
      ServerSound, AfterSource, Busy, At
<1> QED
  BY <1>1, <1>2, <1>3, <1>4, <1>5, <1>6, <1>7 DEF LauncherNext

\* Both invariants together.
LEMMA BothHold == LauncherSpec => [](LauncherIInv /\ SerialIInv)
<1>1. LauncherInit => LauncherIInv /\ SerialIInv
  BY LauncherInitInv, SerialInit
<1>2. LauncherIInv /\ SerialIInv /\ [LauncherNext]_launcherVars => (LauncherIInv /\ SerialIInv)'
  BY LauncherNextInv, SerialNext
<1> QED  BY <1>1, <1>2, PTL DEF LauncherSpec

\* Commands that follow one another, however many are interrupted, never bring a second
\* generated web secret about: unless a password hides the one in the file from the shell,
\* no restart and no new password signs everybody out.
THEOREM SecretsOutlast == LauncherSpec => []TokensSurvive
<1>1. LauncherIInv /\ SerialIInv => TokensSurvive
  <2> SUFFICES ASSUME SerialIInv, ~overlaps
               PROVE  /\ Cardinality(signed \ {0, Unread}) <= 1
                      /\ crashes = 0 => 0 \notin signed
    BY DEF TokensSurvive
  <2>1. PICK c \in Cmds : SecretSound(c)
    BY DEF SerialIInv
  <2>2. PICK s \in Names : signed \subseteq {0, s, Unread}
    BY <2>1 DEF SecretSound
  <2>3. signed \ {0, Unread} \subseteq {s}
    BY <2>2
  <2>4. IsFiniteSet({s}) /\ Cardinality({s}) = 1
    BY FS_Singleton
  <2>5. Cardinality(signed \ {0, Unread}) <= 1
    BY <2>3, <2>4, FS_Subset
  <2> QED  BY <2>1, <2>5 DEF SecretSound
<1> QED  BY <1>1, BothHold, PTL

\* Where commands follow one another and none is interrupted, the command that stops the
\* server leaves none behind: the PID file always names the server that runs.
THEOREM StoppedIsGone == LauncherSpec => []StopStops
<1>1. LauncherIInv /\ SerialIInv => StopStops
  <2> SUFFICES ASSUME LauncherIInv, SerialIInv, ~overlaps, crashes = 0,
                      NEW c \in Cmds, At(c, "stopped"), c \in alone
               PROVE  server = NoServer
    BY DEF StopStops
  <2>1. Unaccompanied(c)
    BY DEF LauncherIInv, AloneRests, Unaccompanied, Busy
  <2> QED  BY <2>1 DEF SerialIInv, ServerSound
<1> QED  BY <1>1, BothHold, PTL
=============================================================================
