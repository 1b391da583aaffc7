---------------------------- MODULE PanelProofs ----------------------------
(***************************************************************************)
(* Theorems about Panel, for any number of names, browsers, tabs, admin    *)
(* shells and rotations of the secret.                                     *)
(***************************************************************************)
EXTENDS Panel, TLAPS

Guarded == {"verify", "change"}

\* A request with a token knows whether the account is an administrator's now.
Watched ==
    \A t \in Tabs : req[t].pc \in Guarded =>
        /\ req[t].sent.secret = secret
        /\ Administers(accounts[req[t].sent.name]) => req[t].was

\* Only the answer to a login form carries a token.
OnlyLoginsSignIn ==
    \A t \in Tabs : /\ At(t, "login") => req[t].op \in LoginOps
                    /\ At(t, "answer") /\ req[t].set # NoToken => req[t].op \in LoginOps

PanelIInv == PanelTypeOK /\ Watched /\ OnlyAdminsChange /\ OnlyLoginsSignIn

\* What is required of each request, given the table and the secret.
Fine(r) ==
    /\ r \in Requests
    /\ r.pc \in Guarded => /\ r.sent.secret = secret
                           /\ Administers(accounts[r.sent.name]) => r.was
    /\ r.pc = "change" => r.was
    /\ r.pc = "login" => r.op \in LoginOps
    /\ r.pc = "answer" /\ r.set # NoToken => r.op \in LoginOps

TypeOKButReq ==
    /\ accounts \in [Names -> Accounts]
    /\ secret \in 1..MaxSecrets
    /\ cookie \in [Browsers -> Tokens]
    /\ toggle \in [Shells -> Toggles]

LEMMA InvIsFine ==
    PanelIInv <=> /\ TypeOKButReq
                  /\ req = [t \in Tabs |-> req[t]]
                  /\ \A t \in Tabs : Fine(req[t])
BY DEF PanelIInv, TypeOKButReq, PanelTypeOK, Watched, OnlyAdminsChange, OnlyLoginsSignIn, Fine,
       At, Guarded, Requests

\* The same of the next state.
LEMMA InvIsFineNext ==
    ASSUME TypeOKButReq', req' = [t \in Tabs |-> req'[t]], \A t \in Tabs : Fine(req[t])'
    PROVE  PanelIInv'
BY DEF PanelIInv, TypeOKButReq, PanelTypeOK, Watched, OnlyAdminsChange, OnlyLoginsSignIn, Fine,
       At, Guarded, Requests

LEMMA Constants ==
    /\ NoAccount \in Accounts
    /\ NoToken \in Tokens
    /\ NoToggle \in Toggles
    /\ Idle \in Requests
    /\ Idle.pc = "idle"
BY PanelAssumption DEF NoAccount, Accounts, NoToken, Tokens, NoToggle, Toggles, Idle, Requests,
                       LoginOps, PageOps

\* Switching an account that exists leaves an account.
LEMMA Switched ==
    ASSUME NEW row \in Accounts, row.exists, NEW active \in BOOLEAN
    PROVE  [row EXCEPT !.active = active] \in Accounts
<1>1. row \in [exists : {TRUE}, admin : BOOLEAN, active : BOOLEAN]
  <2>1. NoAccount.exists = FALSE
    BY DEF NoAccount
  <2>2. row # NoAccount
    BY <2>1
  <2> QED
    BY <2>2 DEF Accounts
<1>2. [row EXCEPT !.active = active] \in [exists : {TRUE}, admin : BOOLEAN, active : BOOLEAN]
  BY <1>1
<1> QED
  BY <1>2 DEF Accounts

LEMMA ToggleFacts ==
    ASSUME NEW g \in Toggles
    PROVE  g.name \in Names /\ g.active \in BOOLEAN
<1>1. CASE g = NoToggle
  BY <1>1, PanelAssumption DEF NoToggle
<1>2. CASE g \in [pending : {TRUE}, name : Names, active : BOOLEAN]
  BY <1>2
<1> QED
  BY <1>1, <1>2 DEF Toggles

\* A step of one tab that leaves the table and the secret alone.
LEMMA OneTab ==
    ASSUME PanelIInv, NEW t \in Tabs, NEW r, Fine(r), req' = [req EXCEPT ![t] = r],
           cookie' \in [Browsers -> Tokens], UNCHANGED <<accounts, secret, toggle>>
    PROVE  PanelIInv'
<1>1. TypeOKButReq'
  BY InvIsFine DEF TypeOKButReq
<1>2. req' = [u \in Tabs |-> req'[u]]
  BY InvIsFine
<1>3. ASSUME NEW u \in Tabs PROVE Fine(req[u])'
  <2>1. Fine(req'[u])
    BY InvIsFine
  <2> QED
    BY <2>1 DEF Fine
<1> QED
  BY <1>1, <1>2, <1>3, InvIsFineNext

LEMMA FineIdle == Fine(Idle)
BY Constants DEF Fine, Idle, Guarded

LEMMA FineAnswer ==
    ASSUME PanelIInv, NEW t \in Tabs, NEW token \in Tokens,
           token = NoToken \/ req[t].op \in LoginOps
    PROVE  Fine([Idle EXCEPT !.pc = "answer", !.op = req[t].op, !.set = token])
BY InvIsFine, Constants DEF Fine, Idle, Guarded, Requests

LEMMA SessionFacts ==
    ASSUME PanelIInv, NEW t \in Tabs
    PROVE  /\ Opened(cookie[Owner[t]]) \in Tokens
           /\ Opened(cookie[Owner[t]]) # NoToken => Opened(cookie[Owner[t]]).secret = secret
BY PanelAssumption, Constants DEF PanelIInv, PanelTypeOK, Opened

LEMMA BeginInv ==
    ASSUME PanelIInv, NEW t \in Tabs, NEW pc, NEW op, Begin(t, pc, op),
           \/ pc = "login" /\ op \in LoginOps
           \/ pc = "verify" /\ op \in PageOps
           \/ pc = "answer" /\ op = "logout"
    PROVE  PanelIInv'
<1> DEFINE session == Opened(cookie[Owner[t]])
           new == [Idle EXCEPT !.pc = pc, !.op = op, !.sent = session,
                     !.was = pc = "verify" /\ Administers(accounts[session.name])]
<1>1. session \in Tokens /\ (session # NoToken => session.secret = secret)
  BY SessionFacts
<1>2. pc = "verify" => session # NoToken
  BY DEF Begin
<1>3. req' = [req EXCEPT ![t] = new]
  BY DEF Begin
<1>4. (pc = "verify" /\ Administers(accounts[session.name])) \in BOOLEAN
  OBVIOUS
<1>5. Fine(new)
  BY <1>1, <1>2, <1>4, Constants DEF Fine, Idle, Guarded, Requests, LoginOps, PageOps
<1>6. cookie' \in [Browsers -> Tokens] /\ UNCHANGED <<accounts, secret, toggle>>
  BY DEF Begin, PanelIInv, PanelTypeOK
<1> HIDE DEF new
<1> QED
  BY <1>3, <1>5, <1>6, OneTab

LEMMA DoneInv ==
    ASSUME PanelIInv, NEW t \in Tabs, Done(t), cookie' \in [Browsers -> Tokens],
           UNCHANGED <<accounts, secret, toggle>>
    PROVE  PanelIInv'
BY FineIdle, OneTab DEF Done

LEMMA AnswersInv ==
    ASSUME PanelIInv, NEW t \in Tabs, NEW token \in Tokens, Answers(t, token),
           token = NoToken \/ req[t].op \in LoginOps,
           UNCHANGED <<accounts, secret, cookie, toggle>>
    PROVE  PanelIInv'
<1> DEFINE new == [Idle EXCEPT !.pc = "answer", !.op = req[t].op, !.set = token]
<1>1. Fine(new)
  BY FineAnswer
<1>2. req' = [req EXCEPT ![t] = new]
  BY DEF Answers
<1>3. cookie' \in [Browsers -> Tokens]
  BY DEF PanelIInv, PanelTypeOK
<1> HIDE DEF new
<1> QED
  BY <1>1, <1>2, <1>3, OneTab

LEMMA VerifyInv ==
    ASSUME PanelIInv, NEW t \in Tabs, Verify(t)
    PROVE  PanelIInv'
<1> USE DEF Verify
<1>1. cookie' \in [Browsers -> Tokens] /\ UNCHANGED <<accounts, secret, toggle>>
  BY DEF PanelIInv, PanelTypeOK
<1>2. CASE Answers(t, NoToken)
  BY <1>2, AnswersInv, Constants
<1>3. CASE Done(t)
  BY <1>1, <1>3, DoneInv
<1>4. CASE /\ Admitted(t)
           /\ accounts[req[t].sent.name].admin
           /\ req' = [req EXCEPT ![t].pc = "change"]
  <2> DEFINE new == [req[t] EXCEPT !.pc = "change"]
  <2>1. req[t].was
    BY <1>4, InvIsFine DEF Fine, Admitted, Administers, Guarded, At
  <2>2. Fine(new)
    BY <2>1, InvIsFine DEF Fine, Guarded, At, Requests
  <2>3. req' = [req EXCEPT ![t] = new]
    BY <1>4
  <2> HIDE DEF new
  <2> QED
    BY <1>1, <2>2, <2>3, OneTab
<1> QED
  BY <1>2, <1>3, <1>4

LEMMA WriteInv ==
    ASSUME PanelIInv, NEW n \in Names, NEW row \in Accounts, NEW r, Write(n, row, r),
           r = [t \in Tabs |-> r[t]], \A t \in Tabs : Fine(r[t]),
           secret' = secret, cookie' = cookie, toggle' \in [Shells -> Toggles]
    PROVE  PanelIInv'
<1>1. TypeOKButReq'
  BY DEF PanelIInv, PanelTypeOK, TypeOKButReq, Write
<1>2. req' = [t \in Tabs |-> req'[t]]
  BY DEF Write
<1>3. ASSUME NEW t \in Tabs PROVE Fine(req[t])'
  <2>1. CASE r[t].pc \in Guarded /\ r[t].sent.name = n
    <3>1. req'[t] = [r[t] EXCEPT !.was = r[t].was \/ Administers(row)]
      BY <2>1 DEF Write, Guarded
    <3>2. accounts'[n] = row
      BY DEF Write, PanelIInv, PanelTypeOK
    <3>3. (r[t].was \/ Administers(row)) \in BOOLEAN
      BY DEF Fine, Requests
    <3>4. /\ req'[t] \in Requests
          /\ req'[t].pc = r[t].pc
          /\ req'[t].sent = r[t].sent
          /\ req'[t].was = (r[t].was \/ Administers(row))
      BY <3>1, <3>3 DEF Fine, Requests
    <3> QED
      BY <2>1, <3>2, <3>4 DEF Fine, Guarded
  <2>2. CASE ~(r[t].pc \in Guarded /\ r[t].sent.name = n)
    <3>1. req'[t] = r[t]
      BY <2>2 DEF Write, Guarded
    <3>2. r[t].pc \in Guarded => accounts'[r[t].sent.name] = accounts[r[t].sent.name]
      BY <2>2 DEF Write, Fine, Requests, Tokens, PanelIInv, PanelTypeOK
    <3> QED
      BY <3>1, <3>2 DEF Fine
  <2> QED
    BY <2>1, <2>2
<1> QED
  BY <1>1, <1>2, <1>3, InvIsFineNext

LEMMA ChangeInv ==
    ASSUME PanelIInv, NEW n \in Names, NEW r, Change(n, r), r = [t \in Tabs |-> r[t]],
           \A t \in Tabs : Fine(r[t]), UNCHANGED <<secret, cookie, toggle>>
    PROVE  PanelIInv'
<1>1. accounts[n] \in Accounts /\ toggle' \in [Shells -> Toggles]
  BY DEF PanelIInv, PanelTypeOK
<1>2. ASSUME NEW row \in Accounts, Write(n, row, r) PROVE PanelIInv'
  BY <1>1, <1>2, WriteInv
<1>3. ASSUME NEW admin \in BOOLEAN
      PROVE  [exists |-> TRUE, admin |-> admin, active |-> TRUE] \in Accounts
  BY DEF Accounts
<1>4. ASSUME NEW active \in BOOLEAN, accounts[n].exists
      PROVE  [accounts[n] EXCEPT !.active = active] \in Accounts
  BY <1>1, <1>4, Switched
<1> QED
  BY <1>2, <1>3, <1>4, Constants DEF Change

LEMMA TabStepInv ==
    ASSUME PanelIInv, NEW t \in Tabs, TabStep(t)
    PROVE  PanelIInv'
<1>1. CASE PostLogin(t) \/ Logout(t) \/ Visit(t)
  BY <1>1, BeginInv DEF PostLogin, Logout, Visit
<1>2. CASE Authenticate(t)
  <2>1. req[t].op \in LoginOps /\ req[t].sent \in Tokens
    BY <1>2, InvIsFine DEF Authenticate, Fine, At, Requests
  <2>2. ASSUME NEW n \in Names PROVE [name |-> n, secret |-> secret] \in Tokens
    BY DEF Tokens, PanelIInv, PanelTypeOK
  <2> QED
    BY <1>2, <2>1, <2>2, AnswersInv DEF Authenticate
<1>3. CASE Answer(t)
  <2>1. cookie' \in [Browsers -> Tokens]
    BY <1>3, InvIsFine DEF Answer, Fine, Requests, PanelIInv, PanelTypeOK
  <2> QED
    BY <1>3, <2>1, DoneInv DEF Answer
<1>4. CASE Fail(t)
  <2>1. cookie' \in [Browsers -> Tokens]
    BY <1>4 DEF Fail, PanelIInv, PanelTypeOK
  <2> QED
    BY <1>4, <2>1, DoneInv DEF Fail
<1>5. CASE Verify(t)
  BY <1>5, VerifyInv
<1>6. CASE Manage(t)
  <2> DEFINE r == [req EXCEPT ![t] = Idle]
  <2>1. r = [u \in Tabs |-> r[u]] /\ \A u \in Tabs : Fine(r[u])
    BY InvIsFine, FineIdle
  <2>2. PICK n \in Names : Change(n, r)
    BY <1>6 DEF Manage
  <2>3. UNCHANGED <<secret, cookie, toggle>>
    BY <1>6 DEF Manage
  <2> HIDE DEF r
  <2> QED
    BY <2>1, <2>2, <2>3, ChangeInv
<1> QED
  BY <1>1, <1>2, <1>3, <1>4, <1>5, <1>6 DEF TabStep

LEMMA ShellInv ==
    ASSUME PanelIInv, Shell
    PROVE  PanelIInv'
<1>1. req = [t \in Tabs |-> req[t]] /\ \A t \in Tabs : Fine(req[t])
  BY InvIsFine
<1> QED
  BY <1>1, ChangeInv DEF Shell

LEMMA ToggleInv ==
    ASSUME PanelIInv, NEW s \in Shells, ToggleRead(s) \/ ToggleWrite(s)
    PROVE  PanelIInv'
<1> USE DEF PanelIInv, PanelTypeOK
<1>1. CASE ToggleRead(s)
  <2>1. toggle' \in [Shells -> Toggles]
    <3>1. PICK n \in Names :
              toggle' = [toggle EXCEPT ![s] =
                           [pending |-> TRUE, name |-> n, active |-> ~accounts[n].active]]
      BY <1>1 DEF ToggleRead
    <3>2. [pending |-> TRUE, name |-> n, active |-> ~accounts[n].active] \in Toggles
      BY DEF Toggles
    <3> QED
      BY <3>1, <3>2
  <2>2. TypeOKButReq' /\ req' = [t \in Tabs |-> req'[t]]
    BY <1>1, <2>1, InvIsFine DEF ToggleRead, TypeOKButReq
  <2>3. \A t \in Tabs : Fine(req[t])'
    BY <1>1, InvIsFine DEF ToggleRead, Fine
  <2> QED
    BY <2>2, <2>3, InvIsFineNext
<1>2. CASE ToggleWrite(s)
  <2> DEFINE n == toggle[s].name
             row == [accounts[n] EXCEPT !.active = toggle[s].active]
  <2>1. n \in Names /\ toggle[s].active \in BOOLEAN
    BY ToggleFacts
  <2>2. toggle' \in [Shells -> Toggles]
    BY <1>2, Constants DEF ToggleWrite
  <2>3. CASE accounts[n].exists
    <3>1. row \in Accounts
      BY <2>1, <2>3, Switched
    <3>2. Write(n, row, req) /\ secret' = secret /\ cookie' = cookie
      BY <1>2, <2>3 DEF ToggleWrite
    <3> HIDE DEF row, n
    <3> QED
      BY <2>1, <2>2, <3>1, <3>2, InvIsFine, WriteInv
  <2>4. CASE ~accounts[n].exists
    <3>1. UNCHANGED <<accounts, secret, cookie, req>>
      BY <1>2, <2>4 DEF ToggleWrite
    <3>2. TypeOKButReq' /\ req' = [t \in Tabs |-> req'[t]]
      BY <2>2, <3>1, InvIsFine DEF TypeOKButReq
    <3>3. \A t \in Tabs : Fine(req[t])'
      BY <3>1, InvIsFine DEF Fine
    <3> QED
      BY <3>2, <3>3, InvIsFineNext
  <2> QED
    BY <2>3, <2>4
<1> QED
  BY <1>1, <1>2

LEMMA RestartInv ==
    ASSUME PanelIInv, Restart
    PROVE  PanelIInv'
<1>1. secret' \in 1..MaxSecrets
  BY PanelAssumption DEF Restart, PanelIInv, PanelTypeOK
<1>2. accounts' \in [Names -> Accounts]
  <2>1. [exists |-> TRUE, admin |-> TRUE, active |-> TRUE] \in Accounts
    BY DEF Accounts
  <2> QED
    BY <2>1 DEF Restart, PanelIInv, PanelTypeOK
<1>3. TypeOKButReq' /\ req' = [t \in Tabs |-> req'[t]]
  BY <1>1, <1>2 DEF Restart, PanelIInv, PanelTypeOK, TypeOKButReq
<1>4. ASSUME NEW t \in Tabs PROVE Fine(req[t])'
  <2>1. CASE At(t, "answer")
    BY <2>1, InvIsFine DEF Restart, Fine, At, Guarded
  <2>2. CASE ~At(t, "answer")
    <3>1. req'[t] = Idle
      BY <2>2 DEF Restart
    <3> QED
      BY <3>1, Constants DEF Fine, Guarded
  <2> QED
    BY <2>1, <2>2
<1> QED
  BY <1>3, <1>4, InvIsFineNext

LEMMA PanelInitInv == PanelInit => PanelIInv
<1> SUFFICES ASSUME PanelInit PROVE PanelIInv
  OBVIOUS
<1>1. TypeOKButReq
  BY PanelAssumption, Constants DEF PanelInit, TypeOKButReq, Accounts, NoAccount
<1>2. \A t \in Tabs : Fine(req[t])
  BY FineIdle DEF PanelInit
<1> QED
  BY <1>1, <1>2, InvIsFine DEF PanelInit

LEMMA PanelStepInv == PanelIInv /\ [PanelNext]_panelVars => PanelIInv'
<1> SUFFICES ASSUME PanelIInv, [PanelNext]_panelVars PROVE PanelIInv'
  OBVIOUS
<1>1. CASE UNCHANGED panelVars
  BY <1>1 DEF panelVars, PanelIInv, PanelTypeOK, Watched, OnlyAdminsChange, OnlyLoginsSignIn, At
<1> QED
  BY <1>1, TabStepInv, ShellInv, ToggleInv, RestartInv DEF PanelNext

\* No step but the arrival of an answer touches a cookie.
LEMMA CookieSteps ==
    ASSUME [PanelNext]_panelVars, cookie' # cookie
    PROVE  \E t \in Tabs : Answer(t)
BY DEF PanelNext, TabStep, PostLogin, Authenticate, Logout, Fail, Visit, Verify, Manage, Shell,
       ToggleRead, ToggleWrite, Restart, Begin, panelVars

\* Every variable keeps its type: in particular no statement brings a deleted account back.
THEOREM PanelTypeCorrect == PanelSpec => []PanelTypeOK
<1>1. PanelIInv => PanelTypeOK
  BY DEF PanelIInv
<1> QED
  BY PanelInitInv, PanelStepInv, <1>1, PTL DEF PanelSpec

\* Whatever requests, shells and restarts overlap, an account is changed through the panel
\* only on behalf of an account that was an active administrator's during that request.
THEOREM ChangesAreByAdmins == PanelSpec => []OnlyAdminsChange
<1>1. PanelIInv => OnlyAdminsChange
  BY DEF PanelIInv
<1> QED
  BY PanelInitInv, PanelStepInv, <1>1, PTL DEF PanelSpec

\* Whatever answers are late, only the answer to a login form signs a browser in.
THEOREM SignedOutStaysOut == PanelSpec => LogoutSticks
<1>1. ASSUME PanelIInv, [PanelNext]_panelVars
      PROVE  \A b \in Browsers :
               cookie[b] = NoToken /\ cookie'[b] # NoToken =>
                   \E t \in Tabs : /\ Owner[t] = b
                                   /\ At(t, "answer")
                                   /\ req[t].op \in LoginOps
  <2> SUFFICES ASSUME NEW b \in Browsers, cookie[b] = NoToken, cookie'[b] # NoToken
               PROVE  \E t \in Tabs : /\ Owner[t] = b
                                      /\ At(t, "answer")
                                      /\ req[t].op \in LoginOps
    OBVIOUS
  <2>1. PICK t \in Tabs : Answer(t)
    BY <1>1, CookieSteps
  <2>2. Owner[t] = b /\ req[t].set # NoToken
    BY <1>1, <2>1 DEF Answer, PanelIInv, PanelTypeOK
  <2> QED
    BY <1>1, <2>1, <2>2 DEF Answer, PanelIInv, OnlyLoginsSignIn
<1> QED
  BY PanelInitInv, PanelStepInv, <1>1, PTL DEF PanelSpec, LogoutSticks
=============================================================================
