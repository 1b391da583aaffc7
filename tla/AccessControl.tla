---------------------------- MODULE AccessControl ----------------------------
(***************************************************************************)
(* What an account promises, independent of how logins are throttled and   *)
(* where requests are cut: a visitor is judged by the account as it is at  *)
(* one moment.  A password signs in if it is that of an active account     *)
(* before its expiry date, and a token, good for TTL, admits as long as    *)
(* the account is active.  Anybody may be turned away at any time, without *)
(* a token then, also if the password has been found right.                *)
(*                                                                         *)
(* Auth implements this specification: one visitor for every thread, the   *)
(* account is the row in the database, tokens are those in the cookies.    *)
(***************************************************************************)
EXTENDS Integers

CONSTANTS Visitors,  \* who may be at the door
          Accounts,  \* what the account can be
          NoAccount, \* no account at all
          Guesses,   \* the passwords that can be presented
          TTL        \* how long a token is good

VARIABLES clock,     \* the time
          account,   \* the account as it is now
          tokens,    \* the expiry times of the tokens given out
          visit      \* visit[v]: how far v is, and the password it presents

accessVars == <<clock, account, tokens, visit>>

\* A visitor that has gone, was let in or was sent away may come again.
Ended == {"out", "accepted", "admitted"}

Stage(stage) == [stage |-> stage, guess |-> 0]

Init == /\ clock = 0
        /\ account = NoAccount
        /\ tokens = {}
        /\ visit = [v \in Visitors |-> Stage("out")]

Becomes(v, stage) ==
    /\ visit' = [visit EXCEPT ![v] = Stage(stage)]
    /\ UNCHANGED <<clock, account>>

\* v presents a password.
Ask(v) == /\ visit[v].stage \in Ended
          /\ \E guess \in Guesses :
                visit' = [visit EXCEPT ![v] = [stage |-> "asking", guess |-> guess]]
          /\ UNCHANGED <<clock, account, tokens>>

\* The password is right, now.
Grant(v) == /\ visit[v].stage = "asking"
            /\ account.active
            /\ account.expires >= clock
            /\ account.pw = visit[v].guess
            /\ Becomes(v, "granted")
            /\ UNCHANGED tokens

\* v gets its token.
Enter(v) == /\ visit[v].stage = "granted"
            /\ Becomes(v, "accepted")
            /\ tokens' = tokens \cup {clock + TTL}

\* v shows a token that is still good.
Show(v) == /\ visit[v].stage \in Ended
           /\ \E expires \in tokens : clock <= expires
           /\ Becomes(v, "showing")
           /\ UNCHANGED tokens

\* The account is there and active, now.
Admit(v) == /\ visit[v].stage = "showing"
            /\ account.active
            /\ Becomes(v, "admitted")
            /\ UNCHANGED tokens

TurnAway(v) == /\ Becomes(v, "out")
               /\ UNCHANGED tokens

Change == /\ account' \in Accounts
          /\ UNCHANGED <<clock, tokens, visit>>

Pass == /\ clock' = clock + 1
        /\ UNCHANGED <<account, tokens, visit>>

Next == \/ \E v \in Visitors : \/ Ask(v) \/ Grant(v) \/ Enter(v)
                               \/ Show(v) \/ Admit(v) \/ TurnAway(v)
        \/ Change
        \/ Pass

Spec == Init /\ [][Next]_accessVars
=============================================================================
