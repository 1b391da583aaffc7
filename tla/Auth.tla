-------------------------------- MODULE Auth --------------------------------
(***************************************************************************)
(* AuthManager of vortexvpn/core/auth.py under the web panel's threads     *)
(* (vortexvpn/web/app.py): logins with their rate limiting, the tokens they *)
(* give out, the requests those tokens admit, and the administrator's      *)
(* changes to the account.                                                 *)
(*                                                                         *)
(* One username: every row of the database and every entry of the two      *)
(* dictionaries belongs to one name, and no operation looks at two.  Flask *)
(* serves each request on a thread of its own, and AuthManager takes no    *)
(* lock: a request is cut into steps wherever it reads or writes one of    *)
(* the dictionaries or the database.  A single dict or list operation is   *)
(* atomic in CPython, a single SQL statement in SQLite; the comprehension  *)
(* that purges old failures is taken to read the list at one instant.      *)
(***************************************************************************)
EXTENDS Integers, Sequences, FiniteSets

CONSTANTS Threads,     \* the threads that serve requests
          Threshold,   \* threshold: failures that make a ban (5)
          Window,      \* window_s (300 s)
          BanTime,     \* ban_s (3600 s)
          TTL,         \* TOKEN_TTL
          Expiries,    \* the values expires_at may have
          MaxTime,     \* bound on the clock
          MaxChanges,  \* bound on the changes to the account
          MaxRequests  \* bound on the requests

ASSUME AuthAssumption ==
    /\ Threshold \in Nat \ {0}
    /\ {Window, BanTime, TTL, MaxTime, MaxChanges, MaxRequests} \subseteq Nat
    /\ Window <= BanTime
    /\ Expiries \subseteq Nat

VARIABLES now,       \* time.time()
          row,       \* the user's row in the database, or NoRow
          changes,   \* how many changes there were to it
          failed,    \* _failed_attempts[username], or NoEntry
          banned,    \* _banned_until[username], 0 without an entry
          tokens,    \* expires_at of the tokens in somebody's cookie
          requests,  \* how many requests there have been
          req,       \* req[t]: the request t serves, or how its last one ended
          guesses,   \* history: when the logins since the last success failed,
          overlapped \* ... until two logins have been under way at once

dbVars == <<row, changes>>
banVars == <<failed, banned>>
historyVars == <<guesses, overlapped>>
authVars == <<now, row, changes, failed, banned, tokens, requests, req, guesses, overlapped>>

NoRow == [pw |-> 0, active |-> FALSE, expires |-> 0]
Rows == {NoRow} \cup [pw : 1..MaxChanges, active : BOOLEAN, expires : Expiries]

NoEntry == <<-1>>
Entry == IF failed = NoEntry THEN <<>> ELSE failed

\* The password set by the nth change is n; some n, 0 among them, the account never had.
Passwords == 0..MaxChanges

\* at: the time the request read first; old: the list a comprehension has computed;
\* guess: the password presented; held: the list the request is about to append to is
\* still the one in the dictionary; seen: history, the rows there were so far.
Idle == [pc |-> "idle", at |-> 0, old |-> <<>>, guess |-> 0, held |-> FALSE, seen |-> {}]

Outcomes == {"idle", "accepted", "admitted", "KeyError"}
LoginSteps == {"read", "store", "count", "unlist", "lookup", "fail", "append", "clear", "unban"}
Requests == [pc : Outcomes \cup LoginSteps \cup {"admit"}, at : 0..MaxTime,
             old : Seq(0..MaxTime), guess : Passwords, held : BOOLEAN, seen : SUBSET Rows]

AuthTypeOK ==
    /\ now \in 0..MaxTime
    /\ row \in Rows
    /\ changes \in 0..MaxChanges
    /\ failed \in {NoEntry} \cup Seq(0..MaxTime)
    /\ banned \in 0..(MaxTime + BanTime)
    /\ tokens \in SUBSET (0..(MaxTime + TTL))
    /\ requests \in 0..MaxRequests
    /\ req \in [Threads -> Requests]
    /\ guesses \in Seq(0..MaxTime)
    /\ overlapped \in BOOLEAN

AuthInit ==
    /\ now = 0
    /\ row = NoRow
    /\ changes = 0
    /\ failed = NoEntry
    /\ banned = 0
    /\ tokens = {}
    /\ requests = 0
    /\ req = [t \in Threads |-> Idle]
    /\ guesses = <<>>
    /\ overlapped = FALSE

Busy(t) == req[t].pc \notin Outcomes
At(t, step) == req[t].pc = step
Goto(t, step) == req' = [req EXCEPT ![t].pc = step]

\* The request is refused, with whatever error.
Refuse(t) == req' = [req EXCEPT ![t] = Idle]

\* It ends in a way that a property is about.
Finish(t, outcome) ==
    req' = [req EXCEPT ![t] = [Idle EXCEPT !.pc = outcome, !.guess = req[t].guess,
                                           !.seen = req[t].seen]]

\* A dictionary entry that is replaced or removed leaves the lists held elsewhere behind.
NewList(r) == [u \in Threads |-> [r[u] EXCEPT !.held = FALSE]]

Begins(t) ==
    /\ ~Busy(t)
    /\ requests < MaxRequests
    /\ requests' = requests + 1

Request(pc, guess) ==
    [Idle EXCEPT !.pc = pc, !.at = now, !.guess = guess, !.seen = {row}]

-----------------------------------------------------------------------------
(* authenticate() *)

\* The gate of _check_ban: the time, and the end of the ban.
Login(t) ==
    /\ Begins(t)
    /\ \/ banned > now /\ Refuse(t)
       \/ /\ banned <= now
          /\ \E guess \in 0..changes : req' = [req EXCEPT ![t] = Request("read", guess)]
    /\ overlapped' = (overlapped \/ \E u \in Threads : req[u].pc \in LoginSteps)
    /\ guesses' = IF overlapped' THEN <<>> ELSE guesses
    /\ UNCHANGED <<now, dbVars, banVars, tokens>>

\* The comprehension of _check_ban: of the first n times those that are younger than age.
Younger(times, time, age) ==
    LET kept[n \in 0..Len(times)] ==
            IF n = 0 THEN <<>>
            ELSE IF time - times[n] < age THEN Append(kept[n - 1], times[n])
            ELSE kept[n - 1]
    IN  kept[Len(times)]

RecentTooStrict(times, time) == Younger(times, time, Window - 1)

\* The failures that are younger than the window.
Recent(times, time) == Younger(times, time, Window)

ReadFailures(t) ==
    /\ At(t, "read")
    /\ req' = [req EXCEPT ![t].pc = "store", ![t].old = Recent(Entry, req[t].at)]
    /\ UNCHANGED <<now, dbVars, banVars, tokens, requests, historyVars>>

StoreFailuresIfAny(t) ==
    /\ At(t, "store")
    /\ failed' = IF req[t].old = <<>> THEN NoEntry ELSE req[t].old
    /\ req' = [NewList(req) EXCEPT ![t].pc = "count", ![t].old = <<>>]
    /\ UNCHANGED <<now, dbVars, banned, tokens, requests, historyVars>>

StoreFailures(t) ==
    /\ At(t, "store")
    /\ failed' = req[t].old
    /\ req' = [NewList(req) EXCEPT ![t].pc = "count", ![t].old = <<>>]
    /\ UNCHANGED <<now, dbVars, banned, tokens, requests, historyVars>>

\* The list is looked up again to count it: a success of another login may have
\* removed it.  At the threshold the ban is set, at first with the list still there.
CountFailures(t) ==
    /\ At(t, "count")
    /\ \/ failed = NoEntry /\ Finish(t, "KeyError") /\ UNCHANGED banned
       \/ /\ failed # NoEntry
          /\ Len(failed) >= Threshold
          /\ banned' = req[t].at + BanTime
          /\ Goto(t, "unlist")
       \/ /\ failed # NoEntry
          /\ Len(failed) < Threshold
          /\ Goto(t, "lookup")
          /\ UNCHANGED banned
    /\ UNCHANGED <<now, dbVars, failed, tokens, requests, historyVars>>

BanClearsFailures(t) ==
    /\ At(t, "unlist")
    /\ failed' = <<>>
    /\ req' = [NewList(req) EXCEPT ![t] = Idle]
    /\ UNCHANGED <<now, dbVars, banned, tokens, requests, historyVars>>

AccountExpired == row.expires < now

\* Hashing touches nothing shared, so that the comparison is part of the lookup.
Compare(t) == Goto(t, IF req[t].guess = row.pw THEN "clear" ELSE "fail")

LookupSkipsActive(t) ==
    /\ At(t, "lookup")
    /\ \/ row = NoRow /\ Goto(t, "fail")
       \/ row # NoRow /\ AccountExpired /\ Refuse(t)
       \/ row # NoRow /\ ~AccountExpired /\ Compare(t)
       \/ Refuse(t)
    /\ UNCHANGED <<now, dbVars, banVars, tokens, requests, historyVars>>

\* get_user: a missing or inactive account counts as a failure, an expired one does
\* not, nor does a locked database.
Lookup(t) ==
    /\ At(t, "lookup")
    /\ \/ ~row.active /\ Goto(t, "fail")
       \/ row.active /\ AccountExpired /\ Refuse(t)
       \/ row.active /\ ~AccountExpired /\ Compare(t)
       \/ Refuse(t)
    /\ UNCHANGED <<now, dbVars, banVars, tokens, requests, historyVars>>

FindListNoDefault(t) ==
    /\ At(t, "fail")
    /\ req' = [req EXCEPT ![t].pc = "append", ![t].held = TRUE]
    /\ UNCHANGED <<now, dbVars, banVars, tokens, requests, historyVars>>

\* setdefault(username, []) finds or makes the list, append() adds to it: by then the
\* dictionary may have another list, and the failure is not counted.
FindList(t) ==
    /\ At(t, "fail")
    /\ failed' = Entry
    /\ req' = [req EXCEPT ![t].pc = "append", ![t].held = TRUE]
    /\ UNCHANGED <<now, dbVars, banned, tokens, requests, historyVars>>

AppendFailure(t) ==
    /\ At(t, "append")
    /\ failed' = IF req[t].held THEN Append(failed, now) ELSE failed
    /\ guesses' = IF overlapped THEN guesses ELSE Append(guesses, now)
    /\ Refuse(t)
    /\ UNCHANGED <<now, dbVars, banned, tokens, requests, overlapped>>

ClearFailures(t) ==
    /\ At(t, "clear")
    /\ failed' = NoEntry
    /\ req' = [NewList(req) EXCEPT ![t].pc = "unban"]
    /\ UNCHANGED <<now, dbVars, banned, tokens, requests, historyVars>>

\* The ban is gone, whoever set it, and _do_login gives out the token.
Accept(t) ==
    /\ At(t, "unban")
    /\ banned' = 0
    /\ guesses' = <<>>
    /\ tokens' = tokens \cup {now + TTL}
    /\ Finish(t, "accepted")
    /\ UNCHANGED <<now, dbVars, failed, requests, overlapped>>

\* The password was right and the ban is gone, but there is no token: the login came
\* to the administrators' page and the account is none (which page it is, and is_admin,
\* are left open here), or issue_token cannot encode the name.
Forbid(t) ==
    /\ At(t, "unban")
    /\ banned' = 0
    /\ guesses' = <<>>
    /\ Refuse(t)
    /\ UNCHANGED <<now, dbVars, failed, tokens, requests, overlapped>>

-----------------------------------------------------------------------------
(* login_required: verify_token() *)

PresentAnyToken(t) ==
    /\ Begins(t)
    /\ tokens # {}
    /\ req' = [req EXCEPT ![t] = Request("admit", 0)]
    /\ UNCHANGED <<now, dbVars, banVars, tokens, historyVars>>

\* The token is our own, so its signature holds; it may have expired.
PresentToken(t) ==
    /\ Begins(t)
    /\ \E expires \in tokens :
          \/ now > expires /\ Refuse(t)
          \/ now <= expires /\ req' = [req EXCEPT ![t] = Request("admit", 0)]
    /\ UNCHANGED <<now, dbVars, banVars, tokens, historyVars>>

AdmitStateless(t) ==
    /\ At(t, "admit")
    /\ Finish(t, "admitted")
    /\ UNCHANGED <<now, dbVars, banVars, tokens, requests, historyVars>>

\* The account is looked up at every request; the database may be locked, or the token
\* malformed, since a name with a dot in it makes it one part too many.
Admit(t) ==
    /\ At(t, "admit")
    /\ Refuse(t) \/ (row.active /\ Finish(t, "admitted"))
    /\ UNCHANGED <<now, dbVars, banVars, tokens, requests, historyVars>>

-----------------------------------------------------------------------------
(* The administrator: one SQL statement each, from the panel or another process *)

Writes(r) ==
    /\ changes < MaxChanges
    /\ changes' = changes + 1
    /\ row' = r
    /\ req' = [t \in Threads |->
                 IF Busy(t) THEN [req[t] EXCEPT !.seen = @ \cup {r}] ELSE req[t]]
    /\ UNCHANGED <<now, banVars, tokens, requests, historyVars>>

CreateUser ==
    /\ row = NoRow
    /\ \E expires \in Expiries :
          Writes([pw |-> changes + 1, active |-> TRUE, expires |-> expires])

ResetPassword == row # NoRow /\ Writes([row EXCEPT !.pw = changes + 1])

SetActive == row # NoRow /\ \E active \in BOOLEAN : Writes([row EXCEPT !.active = active])

DeleteUser == row # NoRow /\ Writes(NoRow)

Tick ==
    /\ now < MaxTime
    /\ now' = now + 1
    /\ UNCHANGED <<dbVars, banVars, tokens, requests, req, historyVars>>

-----------------------------------------------------------------------------

Step(t) ==
    \/ ReadFailures(t)
    \/ StoreFailures(t)
    \/ CountFailures(t)
    \/ BanClearsFailures(t)
    \/ Lookup(t)
    \/ FindList(t)
    \/ AppendFailure(t)
    \/ ClearFailures(t)
    \/ Accept(t)
    \/ Forbid(t)
    \/ Admit(t)

AuthNext ==
    \/ \E t \in Threads : Login(t) \/ PresentToken(t) \/ Step(t)
    \/ CreateUser
    \/ ResetPassword
    \/ SetActive
    \/ DeleteUser
    \/ Tick

AuthSpec == AuthInit /\ [][AuthNext]_authVars

-----------------------------------------------------------------------------
(* Properties *)

\* fail2ban: as long as logins do not overlap, no more than Threshold passwords are
\* tried without success within any Window, whether the failures age, are cleared by a
\* ban, or the ban ends in between.
GuessLimit ==
    ~overlapped =>
        \A i \in 1..(Len(guesses) - Threshold) : guesses[i + Threshold] - guesses[i] >= Window

\* A login is accepted only for a password that was the account's, while it was active,
\* at some moment of that login: a concurrent reset, deactivation or deletion is seen
\* either before or after, never half.
AcceptsCurrentPassword ==
    \A t \in Threads : At(t, "accepted") =>
        \E r \in req[t].seen : r.active /\ r.pw = req[t].guess

\* A token admits only while the account is there and active: once set_active or
\* delete_user has returned, no request that begins later gets in.
AdmitsActiveOnly ==
    \A t \in Threads : At(t, "admitted") => \E r \in req[t].seen : r.active

\* Where a login is that has not been judged yet, and one that was found right.
Judged == {"clear", "unban"}
Unjudged == {"read", "store", "count", "lookup"}

Visit(r) ==
    IF r.pc \in Unjudged THEN [stage |-> "asking", guess |-> r.guess]
    ELSE [stage |-> CASE r.pc \in Judged -> "granted"
                      [] r.pc = "admit" -> "showing"
                      [] r.pc \in {"accepted", "admitted"} -> r.pc
                      [] OTHER -> "out",
          guess |-> 0]

Visits == [t \in Threads |-> Visit(req[t])]

Access == INSTANCE AccessControl
    WITH Visitors <- Threads, Accounts <- Rows, NoAccount <- NoRow, Guesses <- Passwords,
         clock <- now, account <- row, visit <- Visits

\* Refinement.  Whatever happens between a login's or a request's steps, it is judged by
\* the account of one moment, expiry dates and the age of tokens included: a token is given
\* out only to a login whose password was right at such a moment of the login, and what has
\* become of the account since then makes no difference to it.
AccessSpec == Access!Spec

\* A login that is not refused with an AuthError, but dies of the list it has just stored,
\* has met another: alone, neither an aged list nor a ban nor a success takes it away
\* between _check_ban's two lookups.
OnlyOverlapsRaiseKeyError == (\E t \in Threads : At(t, "KeyError")) => overlapped

-----------------------------------------------------------------------------
(* What the documentation says and the code does not do *)

\* docs/ARCHITECTURE.md: "Too many failed logins | Username banned for fail2ban_ban_s".
\* No login lifts a ban before its time, one that had passed the gate before neither.
BanHolds == [][banned > now' => banned' # 0]_authVars
=============================================================================
