------------------------------- MODULE Panel -------------------------------
(***************************************************************************)
(* Who may change the accounts, and who is signed in: the routes of        *)
(* vortexvpn/web/app.py over the users' table of vortexvpn/core/auth.py,   *)
(* next to the admin shell and the command line, which change the same     *)
(* table from processes of their own.                                      *)
(*                                                                         *)
(* A browser has several tabs, each with one request on the way.  Flask    *)
(* keeps the session in the cookie: a request carries the cookie it was    *)
(* sent with, an answer whose session was modified (popped, or a message   *)
(* flashed) carries a whole new one, and answers arrive in any order.      *)
(* Passwords, bans and the lifetime of tokens are Auth's.                  *)
(***************************************************************************)
EXTENDS Naturals

CONSTANTS Names,      \* usernames
          AdminName,  \* VORTEX_ADMIN_USER, "admin"
          Dots,       \* Dots[n]: how many dots are in n
          Browsers,
          Tabs,
          Owner,      \* Owner[t]: the browser of tab t
          Shells,     \* the terminals with an admin shell
          MaxSecrets  \* bound on the values web.secret_key has had

ASSUME PanelAssumption ==
    /\ AdminName \in Names
    /\ Dots \in [Names -> Nat]
    /\ Owner \in [Tabs -> Browsers]
    /\ MaxSecrets \in Nat \ {0}

VARIABLES accounts,  \* the table of users
          secret,    \* web.secret_key: signs tokens and cookies
          cookie,    \* cookie[b]: the token in the session of browser b
          req,       \* req[t]: the request of tab t
          toggle     \* toggle[s]: what do_toggle is about to write in s

panelVars == <<accounts, secret, cookie, req, toggle>>

NoAccount == [exists |-> FALSE, admin |-> FALSE, active |-> FALSE]
Accounts == {NoAccount} \cup [exists : {TRUE}, admin : BOOLEAN, active : BOOLEAN]

NoToken == [name |-> AdminName, secret |-> 0]
Tokens == {NoToken} \cup [name : Names, secret : 1..MaxSecrets]

NoToggle == [pending |-> FALSE, name |-> AdminName, active |-> FALSE]
Toggles == {NoToggle} \cup [pending : {TRUE}, name : Names, active : BOOLEAN]

Administers(row) == row.admin /\ row.active

\* sent: the token in the session of the request; set: in that of the answer; was: history,
\* has the account of the former been an active administrator's since the request came?
Idle == [pc |-> "idle", op |-> "view", sent |-> NoToken, set |-> NoToken, was |-> FALSE]
LoginOps == {"login", "admin login"}
PageOps == {"view", "manage"}
Requests == [pc : {"idle", "login", "verify", "change", "answer"},
             op : LoginOps \cup PageOps \cup {"logout"},
             sent : Tokens, set : Tokens, was : BOOLEAN]

PanelTypeOK ==
    /\ accounts \in [Names -> Accounts]
    /\ secret \in 1..MaxSecrets
    /\ cookie \in [Browsers -> Tokens]
    /\ req \in [Tabs -> Requests]
    /\ toggle \in [Shells -> Toggles]

\* The first bootstrap has made the administrator's account.
PanelInit ==
    /\ accounts = [n \in Names |->
                     IF n = AdminName THEN [exists |-> TRUE, admin |-> TRUE, active |-> TRUE]
                                      ELSE NoAccount]
    /\ secret = 1
    /\ cookie = [b \in Browsers |-> NoToken]
    /\ req = [t \in Tabs |-> Idle]
    /\ toggle = [s \in Shells |-> NoToggle]

At(t, step) == req[t].pc = step
Done(t) == req' = [req EXCEPT ![t] = Idle]

\* The session has been modified: the answer carries it back.
Answers(t, token) ==
    req' = [req EXCEPT ![t] = [Idle EXCEPT !.pc = "answer", !.op = req[t].op, !.set = token]]

\* Flask opens a session only if the cookie is signed with its secret.
Opened(token) == IF token.secret = secret THEN token ELSE NoToken

Begin(t, pc, op) ==
    /\ At(t, "idle")
    /\ LET session == Opened(cookie[Owner[t]]) IN
       /\ pc = "verify" => session # NoToken
       /\ req' = [req EXCEPT ![t] =
                     [Idle EXCEPT !.pc = pc, !.op = op, !.sent = session,
                        !.was = pc = "verify" /\ Administers(accounts[session.name])]]
    /\ UNCHANGED <<accounts, secret, cookie, toggle>>

-----------------------------------------------------------------------------
(* Sessions *)

PostLogin(t) == \E op \in LoginOps : Begin(t, "login", op)

\* _do_login: a refusal is flashed, and the session that came with the request goes back.
Authenticate(t) ==
    /\ At(t, "login")
    /\ \/ Answers(t, req[t].sent)
       \/ \E n \in Names :
             /\ accounts[n].active
             /\ req[t].op = "admin login" => accounts[n].admin
             /\ Answers(t, [name |-> n, secret |-> secret])
    /\ UNCHANGED <<accounts, secret, cookie, toggle>>

Logout(t) == Begin(t, "answer", "logout")

\* The answer arrives, and the browser puts its cookie in the place of the one it has.
Answer(t) ==
    /\ At(t, "answer")
    /\ cookie' = [cookie EXCEPT ![Owner[t]] = req[t].set]
    /\ Done(t)
    /\ UNCHANGED <<accounts, secret, toggle>>

\* The database is locked, or the connection breaks: no cookie comes back.
Fail(t) ==
    /\ ~At(t, "idle")
    /\ Done(t)
    /\ UNCHANGED <<accounts, secret, cookie, toggle>>

-----------------------------------------------------------------------------
(* login_required and admin_required *)

\* Without a token in the session there is a redirect and nothing else.
Visit(t) == \E op \in PageOps : Begin(t, "verify", op)

\* verify_token: the name must not have a dot, for the token is split at them.
Admitted(t) ==
    /\ Dots[req[t].sent.name] = 0
    /\ req[t].sent.secret = secret
    /\ accounts[req[t].sent.name].active

VerifyRefreshing(t) ==
    /\ At(t, "verify")
    /\ \/ ~Admitted(t) /\ Answers(t, NoToken)
       \/ Admitted(t) /\ Answers(t, req[t].sent)
    /\ UNCHANGED <<accounts, secret, cookie, toggle>>

VerifyRoleOnly(t) ==
    /\ At(t, "verify")
    /\ IF req[t].op = "manage" /\ accounts[req[t].sent.name].admin
       THEN req' = [req EXCEPT ![t].pc = "change"]
       ELSE Done(t)
    /\ UNCHANGED <<accounts, secret, cookie, toggle>>

\* One row decides: is the account active, and is it an administrator's.
Verify(t) ==
    /\ At(t, "verify")
    /\ \/ ~Admitted(t) /\ Answers(t, NoToken)
       \/ /\ Admitted(t)
          /\ IF req[t].op = "manage" /\ accounts[req[t].sent.name].admin
             THEN req' = [req EXCEPT ![t].pc = "change"]
             ELSE Done(t)
    /\ UNCHANGED <<accounts, secret, cookie, toggle>>

-----------------------------------------------------------------------------
(* The accounts *)

\* One SQL statement changes the row of n; r is what becomes of the requests otherwise.
Write(n, row, r) ==
    /\ accounts' = [accounts EXCEPT ![n] = row]
    /\ req' = [t \in Tabs |->
                 IF r[t].pc \in {"verify", "change"} /\ r[t].sent.name = n
                 THEN [r[t] EXCEPT !.was = @ \/ Administers(row)] ELSE r[t]]

\* create_user, delete_user and set_active; each tells its caller when it changes nothing.
Change(n, r) ==
    \/ \E admin \in BOOLEAN :
          ~accounts[n].exists /\ Write(n, [exists |-> TRUE, admin |-> admin, active |-> TRUE], r)
    \/ accounts[n].exists /\ Write(n, NoAccount, r)
    \/ \E active \in BOOLEAN :
          accounts[n].exists /\ Write(n, [accounts[n] EXCEPT !.active = active], r)

\* The routes that admin_required guards.
Manage(t) ==
    /\ At(t, "change")
    /\ \E n \in Names : Change(n, [req EXCEPT ![t] = Idle])
    /\ UNCHANGED <<secret, cookie, toggle>>

\* add-user, del-user and list of the shell and the command line ask for no token.
Shell ==
    /\ \E n \in Names : Change(n, req)
    /\ UNCHANGED <<secret, cookie, toggle>>

\* do_toggle reads the account, then writes the contrary of what it read.
ToggleRead(s) ==
    /\ ~toggle[s].pending
    /\ \E n \in Names :
          /\ accounts[n].exists
          /\ toggle' = [toggle EXCEPT ![s] =
                          [pending |-> TRUE, name |-> n, active |-> ~accounts[n].active]]
    /\ UNCHANGED <<accounts, secret, cookie, req>>

ToggleWriteBlind(s) ==
    /\ toggle[s].pending
    /\ LET n == toggle[s].name IN
       Write(n, [accounts[n] EXCEPT !.active = toggle[s].active], req)
    /\ toggle' = [toggle EXCEPT ![s] = NoToggle]
    /\ UNCHANGED <<secret, cookie>>

\* An account that is gone by now stays gone; one made again meanwhile is switched.
ToggleWrite(s) ==
    /\ toggle[s].pending
    /\ LET n == toggle[s].name IN
       IF accounts[n].exists
       THEN Write(n, [accounts[n] EXCEPT !.active = toggle[s].active], req)
       ELSE UNCHANGED <<accounts, req>>
    /\ toggle' = [toggle EXCEPT ![s] = NoToggle]
    /\ UNCHANGED <<secret, cookie>>

\* The server stops, bootstrap looks after the administrator (its password is Launcher's),
\* and the server starts, with another secret if there is one.  Answers already sent arrive.
Restart ==
    /\ secret' \in secret..(IF secret < MaxSecrets THEN secret + 1 ELSE secret)
    /\ accounts' = IF accounts[AdminName].exists THEN accounts
                   ELSE [accounts EXCEPT ![AdminName] =
                           [exists |-> TRUE, admin |-> TRUE, active |-> TRUE]]
    /\ req' = [t \in Tabs |-> IF At(t, "answer") THEN req[t] ELSE Idle]
    /\ UNCHANGED <<cookie, toggle>>

-----------------------------------------------------------------------------

TabStep(t) ==
    \/ PostLogin(t)
    \/ Authenticate(t)
    \/ Logout(t)
    \/ Answer(t)
    \/ Fail(t)
    \/ Visit(t)
    \/ Verify(t)
    \/ Manage(t)

PanelNext ==
    \/ \E t \in Tabs : TabStep(t)
    \/ Shell
    \/ \E s \in Shells : ToggleRead(s) \/ ToggleWrite(s)
    \/ Restart

PanelSpec == PanelInit /\ [][PanelNext]_panelVars

-----------------------------------------------------------------------------
(* Properties *)

\* Whoever is about to change an account through the panel holds a token of the present
\* secret, and its account has been, at one moment of the request, both active and an
\* administrator's: a demotion, deactivation or rotation is seen before or after, never half.
OnlyAdminsChange ==
    \A t \in Tabs : At(t, "change") => req[t].sent.secret = secret /\ req[t].was

\* A browser that is signed out is signed in again only by the answer to a login form:
\* none of the pages that poll in the background brings the session back.
LogoutSticks ==
    [][\A b \in Browsers :
         cookie[b] = NoToken /\ cookie'[b] # NoToken =>
             \E t \in Tabs : /\ Owner[t] = b
                             /\ At(t, "answer")
                             /\ req[t].op \in LoginOps]_panelVars
=============================================================================
