----------------------------- MODULE AuthProofs -----------------------------
(***************************************************************************)
(* Theorems about Auth, for any number of threads, requests and changes to  *)
(* the account, any threshold, window and ban.                              *)
(***************************************************************************)
EXTENDS Auth, WellFoundedInduction, TLAPS

-----------------------------------------------------------------------------
(* The account: what the lists of failures hold does not matter to it *)

IsRequest(r) ==
    r \in [pc : {r.pc}, at : {r.at}, old : {r.old}, guess : {r.guess}, held : {r.held},
           seen : {r.seen}]

Shape == /\ req = [t \in Threads |-> req[t]]
         /\ \A t \in Threads : IsRequest(req[t])

\* A request that is under way knows the present row, among those it has seen.
SeesRow == \A t \in Threads : Busy(t) => row \in req[t].seen

\* Past the comparison, the password is that of a row the login has seen active.
Vetted ==
    \A t \in Threads : req[t].pc \in {"clear", "unban", "accepted"} =>
        \E r \in req[t].seen : r.active /\ r.pw = req[t].guess

AuthIInv == Shape /\ SeesRow /\ Vetted /\ AdmitsActiveOnly

\* What one thread's step leaves alone: the row, and of the other requests all but held.
Others(t) ==
    /\ row' = row
    /\ req' = [u \in Threads |-> req'[u]]
    /\ \A u \in Threads \ {t} : /\ IsRequest(req'[u])
                                /\ req'[u].pc = req[u].pc
                                /\ req'[u].guess = req[u].guess
                                /\ req'[u].seen = req[u].seen

\* What it leaves of its own: the password and the rows seen.
Keeps(t, pc) ==
    /\ IsRequest(req'[t])
    /\ req'[t].pc = pc
    /\ req'[t].guess = req[t].guess
    /\ req'[t].seen = req[t].seen

\* The invariant survives a step of t whose own part of it holds afterwards.
LEMMA OneThread ==
    ASSUME AuthIInv, NEW t \in Threads, Others(t), IsRequest(req'[t]),
           Busy(t)' => row \in req'[t].seen,
           req'[t].pc \in {"clear", "unban", "accepted"} =>
               \E r \in req'[t].seen : r.active /\ r.pw = req'[t].guess,
           req'[t].pc = "admitted" => \E r \in req'[t].seen : r.active
    PROVE  AuthIInv'
<1>1. Shape'
  BY DEF Others, Shape
<1>2. SeesRow'
  BY DEF Others, SeesRow, AuthIInv, Busy
<1>3. Vetted'
  BY DEF Others, Vetted, AuthIInv
<1>4. AdmitsActiveOnly'
  BY DEF Others, AdmitsActiveOnly, AuthIInv, At
<1> QED
  BY <1>1, <1>2, <1>3, <1>4 DEF AuthIInv

LEMMA Refused ==
    ASSUME AuthIInv, NEW t \in Threads, Refuse(t), row' = row
    PROVE  AuthIInv'
<1>1. Others(t) /\ IsRequest(req'[t]) /\ req'[t].pc = "idle"
  BY DEF Refuse, Others, AuthIInv, Shape, IsRequest, Idle
<1> QED
  BY <1>1, OneThread DEF Busy, Outcomes

LEMMA Begun ==
    ASSUME AuthIInv, NEW t \in Threads, NEW pc \in {"read", "admit"}, NEW guess,
           req' = [req EXCEPT ![t] = Request(pc, guess)], row' = row
    PROVE  AuthIInv'
<1>1. /\ Others(t)
      /\ IsRequest(req'[t])
      /\ req'[t].pc = pc
      /\ req'[t].seen = {row}
  BY DEF Others, AuthIInv, Shape, IsRequest, Idle, Request
<1> QED
  BY <1>1, OneThread

\* A step of a login to one of its unvetted steps.
LEMMA Moved ==
    ASSUME AuthIInv, NEW t \in Threads, Busy(t), Others(t),
           NEW pc \in LoginSteps \ {"clear", "unban"}, Keeps(t, pc)
    PROVE  AuthIInv'
<1>1. row \in req[t].seen
  BY DEF AuthIInv, SeesRow
<1> QED
  BY <1>1, OneThread DEF Keeps, LoginSteps

LEMMA Went ==
    ASSUME AuthIInv, NEW t \in Threads, NEW pc, Goto(t, pc), row' = row
    PROVE  Others(t) /\ Keeps(t, pc)
BY DEF Goto, Others, Keeps, AuthIInv, Shape, IsRequest

LEMMA Ended ==
    ASSUME AuthIInv, NEW t \in Threads, NEW pc, Finish(t, pc), row' = row
    PROVE  Others(t) /\ Keeps(t, pc)
BY DEF Finish, Others, Keeps, AuthIInv, Shape, IsRequest, Idle

LEMMA NewLists ==
    ASSUME AuthIInv
    PROVE  /\ NewList(req) = [u \in Threads |-> NewList(req)[u]]
           /\ \A u \in Threads : /\ IsRequest(NewList(req)[u])
                                 /\ NewList(req)[u].pc = req[u].pc
                                 /\ NewList(req)[u].guess = req[u].guess
                                 /\ NewList(req)[u].seen = req[u].seen
<1>1. ASSUME NEW r, IsRequest(r)
      PROVE  /\ IsRequest([r EXCEPT !.held = FALSE])
             /\ [r EXCEPT !.held = FALSE].pc = r.pc
             /\ [r EXCEPT !.held = FALSE].guess = r.guess
             /\ [r EXCEPT !.held = FALSE].seen = r.seen
  BY <1>1 DEF IsRequest
<1>2. \A u \in Threads : NewList(req)[u] = [req[u] EXCEPT !.held = FALSE]
  BY DEF NewList
<1>3. NewList(req) = [u \in Threads |-> NewList(req)[u]]
  BY DEF NewList
<1> QED
  BY <1>1, <1>2, <1>3 DEF AuthIInv, Shape

LEMMA StepInv ==
    ASSUME AuthIInv, NEW t \in Threads, Step(t)
    PROVE  AuthIInv'
<1>1. row' = row
  BY DEF Step, ReadFailures, StoreFailures, CountFailures, BanClearsFailures, Lookup,
         FindList, AppendFailure, ClearFailures, Accept, Forbid, Admit,
         dbVars
<1>2. CASE ReadFailures(t)
  <2>1. Busy(t)
    BY <1>2 DEF ReadFailures, Busy, At, Outcomes
  <2>2. PICK old : req' = [req EXCEPT ![t].pc = "store", ![t].old = old]
    BY <1>2, Zenon DEF ReadFailures
  <2>3. Others(t) /\ Keeps(t, "store")
    BY <1>1, <2>2 DEF Others, Keeps, AuthIInv, Shape, IsRequest
  <2> QED
    BY <2>1, <2>3, Moved DEF LoginSteps
<1>3. CASE StoreFailures(t)
  <2>1. Busy(t)
    BY <1>3 DEF StoreFailures, Busy, At, Outcomes
  <2>2. req' = [NewList(req) EXCEPT ![t].pc = "count", ![t].old = <<>>]
    BY <1>3 DEF StoreFailures
  <2>3. Others(t) /\ Keeps(t, "count")
    BY <1>1, <2>2, NewLists DEF Others, Keeps, IsRequest
  <2> QED
    BY <2>1, <2>3, Moved DEF LoginSteps
<1>4. CASE CountFailures(t)
  <2>1. Busy(t)
    BY <1>4 DEF CountFailures, Busy, At, Outcomes
  <2>2. CASE Finish(t, "KeyError")
    BY <1>1, <2>2, Ended, OneThread DEF Keeps, Busy, Outcomes
  <2>3. CASE Goto(t, "unlist")
    BY <1>1, <2>1, <2>3, Went, Moved DEF LoginSteps
  <2>4. CASE Goto(t, "lookup")
    BY <1>1, <2>1, <2>4, Went, Moved DEF LoginSteps
  <2> QED
    BY <1>4, <2>2, <2>3, <2>4 DEF CountFailures
<1>5. CASE BanClearsFailures(t)
  <2>1. Others(t) /\ IsRequest(req'[t]) /\ req'[t].pc = "idle"
    BY <1>1, <1>5, NewLists DEF BanClearsFailures, Others, IsRequest, Idle
  <2> QED
    BY <2>1, OneThread DEF Busy, Outcomes
<1>6. CASE Lookup(t)
  <2>1. Busy(t) /\ row \in req[t].seen
    BY <1>6 DEF Lookup, Busy, At, Outcomes, AuthIInv, SeesRow
  <2>2. CASE Goto(t, "fail")
    BY <1>1, <2>1, <2>2, Went, Moved DEF LoginSteps
  <2>3. CASE row.active /\ req[t].guess = row.pw /\ Goto(t, "clear")
    <3>1. Others(t) /\ Keeps(t, "clear")
      BY <1>1, <2>3, Went
    <3> QED
      BY <1>1, <2>1, <2>3, <3>1, OneThread DEF Keeps
  <2>4. CASE Refuse(t)
    BY <1>1, <2>4, Refused
  <2> QED
    BY <1>6, <2>2, <2>3, <2>4 DEF Lookup, Compare
<1>7. CASE FindList(t)
  <2>1. Busy(t) /\ Others(t) /\ Keeps(t, "append")
    BY <1>1, <1>7 DEF FindList, Busy, At, Outcomes, Others, Keeps, AuthIInv, Shape, IsRequest
  <2> QED
    BY <2>1, Moved DEF LoginSteps
<1>8. CASE AppendFailure(t) \/ Forbid(t)
  BY <1>1, <1>8, Refused DEF AppendFailure, Forbid
<1>9. CASE ClearFailures(t)
  <2>1. Others(t) /\ Keeps(t, "unban")
    BY <1>1, <1>9, NewLists DEF ClearFailures, Others, Keeps, IsRequest
  <2>2. /\ row \in req[t].seen
        /\ \E r \in req[t].seen : r.active /\ r.pw = req[t].guess
    BY <1>9 DEF ClearFailures, At, AuthIInv, SeesRow, Vetted, Busy, Outcomes
  <2> QED
    BY <1>1, <2>1, <2>2, OneThread DEF Keeps
<1>10. CASE Accept(t)
  <2>1. Others(t) /\ Keeps(t, "accepted")
    BY <1>1, <1>10, Ended DEF Accept
  <2>2. \E r \in req[t].seen : r.active /\ r.pw = req[t].guess
    BY <1>10 DEF Accept, At, AuthIInv, Vetted
  <2> QED
    BY <2>1, <2>2, OneThread DEF Keeps, Busy, Outcomes
<1>11. CASE Admit(t)
  <2>1. row \in req[t].seen
    BY <1>11 DEF Admit, At, AuthIInv, SeesRow, Busy, Outcomes
  <2>2. CASE row.active /\ Finish(t, "admitted")
    <3>1. Others(t) /\ Keeps(t, "admitted")
      BY <1>1, <2>2, Ended
    <3> QED
      BY <2>1, <2>2, <3>1, OneThread DEF Keeps, Busy, Outcomes
  <2> QED
    BY <1>1, <1>11, <2>2, Refused DEF Admit
<1> QED
  BY <1>2, <1>3, <1>4, <1>5, <1>6, <1>7, <1>8, <1>9, <1>10, <1>11 DEF Step

\* A change to the account is seen by every request that is under way.
LEMMA WritesInv ==
    ASSUME AuthIInv, NEW r, Writes(r)
    PROVE  AuthIInv'
<1>1. /\ row' = r
      /\ req' = [t \in Threads |->
                   IF Busy(t) THEN [req[t] EXCEPT !.seen = @ \cup {r}] ELSE req[t]]
  BY DEF Writes
<1>2. ASSUME NEW t \in Threads
      PROVE  /\ IsRequest(req'[t])
             /\ req'[t].pc = req[t].pc
             /\ req'[t].guess = req[t].guess
             /\ req[t].seen \subseteq req'[t].seen
             /\ Busy(t) => r \in req'[t].seen
  <2>1. CASE Busy(t)
    <3>1. req'[t] = [req[t] EXCEPT !.seen = req[t].seen \cup {r}]
      BY <1>1, <2>1
    <3> QED
      BY <3>1 DEF AuthIInv, Shape, IsRequest
  <2>2. CASE ~Busy(t)
    BY <1>1, <2>2 DEF AuthIInv, Shape
  <2> QED
    BY <2>1, <2>2
<1>3. Shape'
  BY <1>1, <1>2 DEF Shape
<1>4. SeesRow'
  BY <1>1, <1>2 DEF SeesRow, Busy
<1>5. Vetted'
  BY <1>2 DEF Vetted, AuthIInv
<1>6. AdmitsActiveOnly'
  BY <1>2 DEF AdmitsActiveOnly, AuthIInv, At
<1> QED
  BY <1>3, <1>4, <1>5, <1>6 DEF AuthIInv

LEMMA AuthInitInv == AuthInit => AuthIInv
<1> SUFFICES ASSUME AuthInit PROVE AuthIInv
  OBVIOUS
<1>1. IsRequest(Idle) /\ Idle.pc = "idle"
  BY DEF IsRequest, Idle
<1>2. req = [t \in Threads |-> Idle]
  BY DEF AuthInit
<1> QED
  BY <1>1, <1>2 DEF AuthIInv, Shape, SeesRow, Busy, Outcomes, Vetted, AdmitsActiveOnly, At

LEMMA AuthStepInv == AuthIInv /\ [AuthNext]_authVars => AuthIInv'
<1> SUFFICES ASSUME AuthIInv, [AuthNext]_authVars PROVE AuthIInv'
  OBVIOUS
<1>1. ASSUME NEW t \in Threads, Login(t) PROVE AuthIInv'
  <2>1. row' = row
    BY <1>1 DEF Login, dbVars
  <2>2. CASE Refuse(t)
    BY <2>1, <2>2, Refused
  <2>3. CASE \E guess \in 0..changes : req' = [req EXCEPT ![t] = Request("read", guess)]
    BY <2>1, <2>3, Begun
  <2> QED
    BY <1>1, <2>2, <2>3 DEF Login
<1>2. ASSUME NEW t \in Threads, PresentToken(t) PROVE AuthIInv'
  <2>1. row' = row
    BY <1>2 DEF PresentToken, dbVars
  <2>2. CASE Refuse(t)
    BY <2>1, <2>2, Refused
  <2>3. CASE req' = [req EXCEPT ![t] = Request("admit", 0)]
    BY <2>1, <2>3, Begun
  <2> QED
    BY <1>2, <2>2, <2>3 DEF PresentToken
<1>3. ASSUME NEW t \in Threads, Step(t) PROVE AuthIInv'
  BY <1>3, StepInv
<1>4. ASSUME NEW r, Writes(r) PROVE AuthIInv'
  BY <1>4, WritesInv
<1>5. CASE CreateUser \/ ResetPassword \/ SetActive \/ DeleteUser
  BY <1>4, <1>5 DEF CreateUser, ResetPassword, SetActive, DeleteUser
<1>6. CASE Tick \/ UNCHANGED authVars
  <2>1. row' = row /\ req' = req
    BY <1>6 DEF Tick, authVars, dbVars
  <2> QED
    BY <2>1 DEF AuthIInv, Shape, IsRequest, SeesRow, Vetted, AdmitsActiveOnly, Busy, At
<1> QED
  BY <1>1, <1>2, <1>3, <1>5, <1>6 DEF AuthNext

\* Whatever logins, requests and changes to the account overlap, a login is accepted
\* only for a password that was the account's while it was active, and a token admits
\* only while the account is active, at some moment of that login or request.
THEOREM AccountIsChecked == AuthSpec => [](AcceptsCurrentPassword /\ AdmitsActiveOnly)
<1>1. AuthIInv => AcceptsCurrentPassword /\ AdmitsActiveOnly
  BY DEF AuthIInv, Vetted, AcceptsCurrentPassword, At
<1> QED
  BY AuthInitInv, AuthStepInv, <1>1, PTL DEF AuthSpec

\* Once an account is inactive or gone, no request that begins later gets in.
THEOREM TokensAdmitActive == AuthSpec => []AdmitsActiveOnly
<1> QED
  BY AccountIsChecked, PTL

-----------------------------------------------------------------------------
(* The lists of failures *)

Sorted(s) == \A i, j \in 1..Len(s) : i =< j => s[i] =< s[j]
UpToNow(s) == Sorted(s) /\ \A i \in 1..Len(s) : s[i] =< now

\* Of a list of times, at a time, the first k are older than the window and the rest is not.
Dropped(s, time, k) ==
    /\ \A i \in 1..k : time - s[i] >= Window
    /\ \A i \in (k + 1)..Len(s) : time - s[i] < Window

LEMMA Numbers ==
    /\ Threshold \in Nat /\ Threshold >= 1
    /\ Window \in Nat /\ BanTime \in Nat /\ Window =< BanTime
    /\ TTL \in Nat /\ MaxTime \in Nat /\ MaxChanges \in Nat /\ MaxRequests \in Nat
    /\ Expiries \subseteq Nat
BY AuthAssumption

\* Sets of natural numbers have least elements: what the inductions below rest on.
LEMMA Least == ASSUME NEW T \in SUBSET Nat, T # {} PROVE \E x \in T : \A y \in T : x =< y
<1> DEFINE R == OpToRel(<, Nat)
<1>1. \A x, y \in Nat : y < x => <<y, x>> \in R
  BY DEF OpToRel
<1>2. \E x \in T : \A y \in T : ~ (<<y, x>> \in R)
  <2> HIDE DEF R
  <2> QED BY NatLessThanWellFounded, WFMin, Zenon DEF R
<1>3. PICK x \in T : \A y \in T : ~ (<<y, x>> \in R)
  <2> HIDE DEF R
  <2> QED BY <1>2
<1>4. \A y \in T : ~ (y < x)
  <2> HIDE DEF R
  <2> QED BY <1>1, <1>3
<1> QED BY <1>4

\* A later time is as young.
LEMMA StillYoung ==
    ASSUME NEW then \in Nat, NEW later \in Nat, NEW time \in Nat, NEW age \in Nat,
           time - then < age, then =< later
    PROVE  time - later < age
OBVIOUS

\* There is a place to cut it, ...
LEMMA SomeDropped ==
    ASSUME NEW s \in Seq(Nat), Sorted(s), NEW time \in Nat
    PROVE  \E k \in 0..Len(s) : Dropped(s, time, k)
<1> DEFINE Young(k) == \A i \in (k + 1)..Len(s) : time - s[i] < Window
           T == {k \in 0..Len(s) : Young(k)}
<1>1. T \in SUBSET Nat /\ T # {}
  <2>1. Len(s) \in T
    OBVIOUS
  <2> QED  BY <2>1
<1>2. PICK k \in T : \A y \in T : k =< y
  <2> HIDE DEF T
  <2> QED  BY <1>1, Least
<1>3. k \in 0..Len(s) /\ Young(k)
  BY <1>2
<1>4. ASSUME NEW i \in 1..k, time - s[i] < Window PROVE FALSE
  <2>1. ASSUME NEW j \in i..Len(s) PROVE time - s[j] < Window
    <3>1. i \in 1..Len(s) /\ j \in 1..Len(s) /\ i =< j
      BY <1>3
    <3>2. s[i] =< s[j] /\ s[i] \in Nat /\ s[j] \in Nat
      BY <3>1 DEF Sorted
    <3> QED  BY <1>4, <3>2, StillYoung, Numbers
  <2>2. i - 1 \in 0..Len(s) /\ Young(i - 1)
    BY <1>3, <2>1
  <2>3. k =< i - 1
    BY <2>2, <1>2
  <2> QED  BY <2>3, <1>3
<1>5. ASSUME NEW i \in 1..k PROVE time - s[i] >= Window
  <2>1. s[i] \in Nat /\ time \in Nat /\ Window \in Nat
    BY <1>3, Numbers
  <2>2. ~(time - s[i] < Window)
    BY <1>4
  <2> QED  BY <2>1, <2>2
<1> HIDE DEF T
<1> QED BY <1>3, <1>5 DEF Dropped

\* ... and that is where the comprehension does: by induction on how much it has read.
LEMMA RecentIs ==
    ASSUME NEW s \in Seq(Nat), NEW time \in Nat, NEW k \in 0..Len(s), Dropped(s, time, k)
    PROVE  Recent(s, time) = SubSeq(s, k + 1, Len(s))
<1> DEFINE N == 0..Len(s)
           Next(g, n) == IF n = 0 THEN <<>>
                         ELSE IF time - s[n] < Window THEN Append(g[n - 1], s[n])
                         ELSE g[n - 1]
           Eqn(g) == g = [n \in N |-> IF n = 0 THEN <<>>
                         ELSE IF time - s[n] < Window THEN Append(g[n - 1], s[n])
                         ELSE g[n - 1]]
           w == [n \in N |-> SubSeq(s, k + 1, n)]
           kept == CHOOSE g : Eqn(g)
<1>1. ASSUME NEW n \in N PROVE SubSeq(s, k + 1, n) = Next(w, n)
  <2>1. CASE n = 0
    BY <2>1
  <2>2. CASE n > 0 /\ n =< k
    <3>1. n - 1 \in N /\ time - s[n] >= Window
      BY <2>2 DEF Dropped
    <3>2. SubSeq(s, k + 1, n) = <<>> /\ SubSeq(s, k + 1, n - 1) = <<>>
      BY <2>2
    <3> QED  BY <2>2, <3>1, <3>2, Numbers
  <2>3. CASE n > k
    <3>1. n - 1 \in N /\ n \in (k + 1)..Len(s) /\ time - s[n] < Window
      BY <2>3 DEF Dropped
    <3>2. w[n - 1] = SubSeq(s, k + 1, n - 1)
      BY <3>1
    <3>3. SubSeq(s, k + 1, n) = Append(SubSeq(s, k + 1, n - 1), s[n])
      BY <3>1
    <3> QED  BY <2>3, <3>1, <3>2, <3>3
  <2> HIDE DEF w, Next
  <2> QED  BY <2>1, <2>2, <2>3
<1>2. Eqn(w)
  BY <1>1
<1>3. Eqn(kept)
  BY <1>2, Zenon
<1>4. ASSUME NEW n \in N PROVE kept[n] = Next(kept, n)
  <2> HIDE DEF kept
  <2> QED  BY <1>3
<1>5. ASSUME NEW n \in N PROVE w[n] = Next(w, n)
  BY <1>1
<1>6. ASSUME NEW m0 \in N, kept[m0] # w[m0] PROVE FALSE
  <2> DEFINE T == {n \in N : kept[n] # w[n]}
  <2>1. T \in SUBSET Nat /\ T # {}
    <3>1. m0 \in T
      BY <1>6
    <3>2. T \subseteq N /\ N \subseteq Nat
      OBVIOUS
    <3> HIDE DEF T
    <3> QED BY <3>1, <3>2
  <2>2. PICK n \in T : \A y \in T : n =< y
    <3> HIDE DEF T
    <3> QED BY <2>1, Least
  <2> HIDE DEF kept, w
  <2>3. n \in N /\ kept[n] # w[n] /\ \A m \in N : kept[m] # w[m] => n =< m
    BY <2>2
  <2>4. n = 0 \/ (n - 1 \in N /\ kept[n - 1] = w[n - 1])
    BY <2>3
  <2> QED  BY <1>4, <1>5, <2>3, <2>4
<1>7. kept[Len(s)] = w[Len(s)]
  <2> HIDE DEF kept, w
  <2> QED BY <1>6
<1>8. Recent(s, time) = kept[Len(s)]
  BY Zenon DEF Recent, Younger
<1>9. w[Len(s)] = SubSeq(s, k + 1, Len(s))
  OBVIOUS
<1> HIDE DEF kept, w
<1> QED BY <1>7, <1>8, <1>9

LEMMA SuffixIs ==
    ASSUME NEW S, NEW s \in Seq(S), NEW k \in 0..Len(s)
    PROVE  LET r == SubSeq(s, k + 1, Len(s)) IN
           /\ r \in Seq(S)
           /\ Len(r) = Len(s) - k
           /\ \A i \in 1..Len(r) : r[i] = s[i + k]
OBVIOUS

\* What the comprehension returns is a list of times again.
LEMMA SuffixFacts ==
    ASSUME NEW S, NEW s \in Seq(S), UpToNow(s), NEW k \in 0..Len(s)
    PROVE  LET r == SubSeq(s, k + 1, Len(s)) IN
           /\ r \in Seq(S)
           /\ UpToNow(r)
           /\ Len(r) = Len(s) - k
           /\ \A i \in 1..Len(r) : r[i] = s[i + k]
<1> DEFINE r == SubSeq(s, k + 1, Len(s))
<1>1. /\ r \in Seq(S)
      /\ Len(r) = Len(s) - k
      /\ \A i \in 1..Len(r) : r[i] = s[i + k]
  BY SuffixIs
<1>2. UpToNow(r)
  <2> HIDE DEF r
  <2>1. ASSUME NEW i \in 1..Len(r) PROVE i + k \in 1..Len(s)
    BY <1>1
  <2>2. ASSUME NEW i \in 1..Len(r) PROVE r[i] =< now
    BY <1>1, <2>1 DEF UpToNow
  <2>3. ASSUME NEW i \in 1..Len(r), NEW j \in 1..Len(r), i =< j PROVE r[i] =< r[j]
    <3>1. i + k =< j + k
      BY <2>3
    <3> QED  BY <1>1, <2>1, <3>1 DEF UpToNow, Sorted
  <2> QED  BY <2>2, <2>3 DEF UpToNow, Sorted
<1> QED  BY <1>1, <1>2

LEMMA RecentFacts ==
    ASSUME NEW s \in Seq(0..MaxTime), UpToNow(s), NEW time \in Nat
    PROVE  \E k \in 0..Len(s) : /\ Dropped(s, time, k)
                                /\ Recent(s, time) = SubSeq(s, k + 1, Len(s))
<1>1. s \in Seq(Nat)
  BY Numbers
<1>2. PICK k \in 0..Len(s) : Dropped(s, time, k)
  BY <1>1, SomeDropped DEF UpToNow
<1> QED  BY <1>1, <1>2, RecentIs

LEMMA AppendFacts ==
    ASSUME NEW S \in SUBSET Nat, now \in S, NEW s \in Seq(S), UpToNow(s)
    PROVE  /\ Append(s, now) \in Seq(S)
           /\ UpToNow(Append(s, now))
<1> DEFINE r == Append(s, now)
<1>1. /\ r \in Seq(S)
      /\ Len(r) = Len(s) + 1
      /\ \A i \in 1..Len(s) : r[i] = s[i]
      /\ r[Len(s) + 1] = now
  OBVIOUS
<1>2. \A i \in 1..Len(s) : s[i] \in S
  OBVIOUS
<1>3. UpToNow(r)
  <2> HIDE DEF r
  <2> QED  BY <1>1, <1>2, Numbers DEF UpToNow, Sorted
<1> QED  BY <1>1, <1>3

LEMMA NoTimes == <<>> \in Seq(0..MaxTime) /\ UpToNow(<<>>)
BY DEF UpToNow, Sorted

-----------------------------------------------------------------------------
(* Types *)

\* Every list is in the order of time, and has no time that is still to come.
FineRequest(r) == r \in Requests /\ UpToNow(r.old) /\ r.at =< now

Timely ==
    /\ failed # NoEntry => UpToNow(failed)
    /\ UpToNow(guesses)
    /\ \A t \in Threads : UpToNow(req[t].old) /\ req[t].at =< now

\* A list that somebody is about to append to is in the dictionary.
HeldIsThere == \A t \in Threads : req[t].held => failed # NoEntry

TypeIInv == AuthTypeOK /\ Timely /\ HeldIsThere

\* A later clock is as good.
LEMMA Later ==
    ASSUME now \in Nat, now' \in Nat, now =< now', NEW s \in Seq(0..MaxTime), UpToNow(s)
    PROVE  UpToNow(s)'
<1>1. \A i \in 1..Len(s) : s[i] \in Nat
  BY Numbers
<1> QED  BY <1>1 DEF UpToNow, Sorted

LEMMA TypeFacts ==
    ASSUME TypeIInv
    PROVE  /\ now \in 0..MaxTime /\ now \in Nat
           /\ req = [t \in Threads |-> req[t]]
           /\ \A t \in Threads : FineRequest(req[t])
           /\ Entry \in Seq(0..MaxTime) /\ UpToNow(Entry)
           /\ guesses \in Seq(0..MaxTime) /\ UpToNow(guesses)
<1>1. now \in 0..MaxTime /\ now \in Nat
  BY Numbers DEF TypeIInv, AuthTypeOK
<1>2. req = [t \in Threads |-> req[t]] /\ \A t \in Threads : FineRequest(req[t])
  BY DEF TypeIInv, AuthTypeOK, Timely, FineRequest
<1>3. Entry \in Seq(0..MaxTime) /\ UpToNow(Entry)
  BY NoTimes DEF TypeIInv, AuthTypeOK, Timely, Entry
<1> QED  BY <1>1, <1>2, <1>3 DEF TypeIInv, AuthTypeOK, Timely

LEMMA IdleFine == ASSUME now \in Nat PROVE FineRequest(Idle)
BY Numbers, NoTimes DEF FineRequest, Idle, Requests, Outcomes, LoginSteps, Passwords

LEMMA IsNoEntry == NoEntry \notin Seq(0..MaxTime)
<1>1. NoEntry = <<-1>> /\ Len(NoEntry) = 1 /\ NoEntry[1] = -1
  BY DEF NoEntry
<1> QED  BY <1>1, Numbers

\* The invariant after a step that leaves the clock.
LEMMA TypesKept ==
    ASSUME TypeIInv, now' = now,
           row' \in Rows, changes' \in 0..MaxChanges, banned' \in 0..(MaxTime + BanTime),
           tokens' \in SUBSET (0..(MaxTime + TTL)), requests' \in 0..MaxRequests,
           overlapped' \in BOOLEAN,
           failed' = NoEntry \/ (failed' \in Seq(0..MaxTime) /\ UpToNow(failed')),
           guesses' \in Seq(0..MaxTime), UpToNow(guesses'),
           req' = [t \in Threads |-> req'[t]], \A t \in Threads : FineRequest(req'[t]),
           HeldIsThere'
    PROVE  TypeIInv'
<1>1. \A s : UpToNow(s)' <=> UpToNow(s)
  BY DEF UpToNow
<1> QED
  BY <1>1 DEF TypeIInv, AuthTypeOK, Timely, FineRequest, UpToNow

\* The records that the steps make of a request are requests.
LEMMA FineRecords ==
    ASSUME now \in Nat, NEW r, FineRequest(r)
    PROVE  /\ \A pc \in Outcomes \cup LoginSteps \cup {"admit"} : FineRequest([r EXCEPT !.pc = pc])
           /\ \A pc \in LoginSteps, s \in Seq(0..MaxTime) :
                  UpToNow(s) => FineRequest([r EXCEPT !.pc = pc, !.old = s])
           /\ \A pc \in LoginSteps : FineRequest([r EXCEPT !.pc = pc, !.held = TRUE])
           /\ FineRequest([r EXCEPT !.held = FALSE])
           /\ \A x \in Rows : FineRequest([r EXCEPT !.seen = @ \cup {x}])
           /\ \A pc \in Outcomes : FineRequest([Idle EXCEPT !.pc = pc, !.guess = r.guess,
                                                            !.seen = r.seen])
<1>1. r \in Requests /\ UpToNow(r.old) /\ r.at =< now
  BY DEF FineRequest
<1>2. Idle \in Requests /\ UpToNow(Idle.old) /\ Idle.at =< now
  BY IdleFine DEF FineRequest
<1> QED  BY <1>1, <1>2 DEF FineRequest, Requests, Idle

\* A step that moves one request, the row and the clock as they were.
LEMMA OneMoved ==
    ASSUME TypeIInv, NEW t \in Threads, NEW r, FineRequest(r), req' = [req EXCEPT ![t] = r]
    PROVE  req' = [u \in Threads |-> req'[u]] /\ \A u \in Threads : FineRequest(req'[u])
BY TypeFacts

LEMMA OneMovedNewList ==
    ASSUME TypeIInv, NEW t \in Threads, NEW r, FineRequest(r),
           req' = [NewList(req) EXCEPT ![t] = r]
    PROVE  req' = [u \in Threads |-> req'[u]] /\ \A u \in Threads : FineRequest(req'[u])
<1>1. \A u \in Threads : FineRequest(NewList(req)[u])
  BY TypeFacts, FineRecords DEF NewList
<1>2. NewList(req) = [u \in Threads |-> NewList(req)[u]]
  BY DEF NewList
<1> QED  BY <1>1, <1>2

\* The types of the rest, in a step that changes neither account, clock nor tokens.
RestTypes ==
    /\ now \in 0..MaxTime
    /\ row \in Rows
    /\ changes \in 0..MaxChanges
    /\ banned \in 0..(MaxTime + BanTime)
    /\ tokens \in SUBSET (0..(MaxTime + TTL))
    /\ requests \in 0..MaxRequests
    /\ overlapped \in BOOLEAN
    /\ failed = NoEntry \/ (failed \in Seq(0..MaxTime) /\ UpToNow(failed))
    /\ guesses \in Seq(0..MaxTime)
    /\ UpToNow(guesses)

LEMMA Rest == ASSUME TypeIInv PROVE RestTypes
BY DEF TypeIInv, AuthTypeOK, Timely, RestTypes

LEMMA FinishTypes ==
    ASSUME TypeIInv, NEW t \in Threads,
           \/ Refuse(t)
           \/ \E pc \in Outcomes \cup LoginSteps : Goto(t, pc)
           \/ \E pc \in Outcomes : Finish(t, pc)
    PROVE  req' = [u \in Threads |-> req'[u]] /\ \A u \in Threads : FineRequest(req'[u])
<1>1. FineRequest(req[t]) /\ FineRequest(Idle)
  BY TypeFacts, IdleFine
<1>2. CASE Refuse(t)
  BY <1>1, <1>2, OneMoved DEF Refuse
<1>3. ASSUME NEW pc \in Outcomes \cup LoginSteps, Goto(t, pc)
      PROVE  req' = [u \in Threads |-> req'[u]] /\ \A u \in Threads : FineRequest(req'[u])
  <2>1. req' = [req EXCEPT ![t] = [req[t] EXCEPT !.pc = pc]]
    BY <1>3 DEF Goto
  <2> QED  BY <1>1, <2>1, FineRecords, OneMoved, TypeFacts
<1>4. ASSUME NEW pc \in Outcomes, Finish(t, pc)
      PROVE  req' = [u \in Threads |-> req'[u]] /\ \A u \in Threads : FineRequest(req'[u])
  BY <1>1, <1>4, FineRecords, OneMoved, TypeFacts DEF Finish
<1> QED  BY <1>2, <1>3, <1>4

LEMMA BeginTypes ==
    ASSUME TypeIInv, NEW t \in Threads, NEW pc \in {"read", "admit"}, NEW guess \in 0..changes,
           req' = [req EXCEPT ![t] = Request(pc, guess)]
    PROVE  req' = [u \in Threads |-> req'[u]] /\ \A u \in Threads : FineRequest(req'[u])
<1>1. FineRequest(Idle) /\ row \in Rows /\ now \in 0..MaxTime /\ now \in Nat
      /\ guess \in Passwords
  BY TypeFacts, IdleFine, Numbers DEF TypeIInv, AuthTypeOK, Passwords
<1>2. Idle \in Requests /\ UpToNow(Idle.old)
  BY <1>1 DEF FineRequest
<1>3. FineRequest(Request(pc, guess))
  <2> DEFINE r == [Idle EXCEPT !.pc = pc, !.at = now, !.guess = guess, !.seen = {row}]
  <2>1. pc \in LoginSteps \cup {"admit"} /\ {row} \in SUBSET Rows
    BY <1>1 DEF LoginSteps
  <2>2. r \in Requests
    BY <1>1, <1>2, <2>1 DEF Requests
  <2>3. r.old = Idle.old /\ r.at = now
    BY <1>2 DEF Requests
  <2>4. r.at =< now
    BY <1>1, <2>3
  <2> QED  BY <1>2, <2>2, <2>3, <2>4 DEF FineRequest, Request
<1> QED  BY <1>3, OneMoved

\* A list is held only by who finds it there, and by nobody once it is replaced.
LEMMA HeldKept ==
    ASSUME TypeIInv,
           \A u \in Threads : req'[u].held => failed' # NoEntry \/ (req[u].held /\ failed' = failed)
    PROVE  HeldIsThere'
BY DEF TypeIInv, HeldIsThere

LEMMA NobodyHolds ==
    ASSUME TypeIInv, NEW t \in Threads, NEW r, req' = [NewList(req) EXCEPT ![t] = r], ~r.held
    PROVE  HeldIsThere'
<1>1. \A u \in Threads : NewList(req)[u].held = FALSE
  BY TypeFacts DEF NewList, FineRequest, Requests
<1> QED  BY <1>1 DEF HeldIsThere, NewList

LEMMA StepHeld ==
    ASSUME TypeIInv, NEW t \in Threads, Step(t)
    PROVE  HeldIsThere'
<1>1. req = [u \in Threads |-> req[u]] /\ \A u \in Threads : req[u] \in Requests
  BY TypeFacts DEF FineRequest
<1>2. CASE StoreFailures(t)
  <2>1. ~[NewList(req)[t] EXCEPT !.pc = "count", !.old = <<>>].held
    BY <1>1 DEF NewList, Requests
  <2> QED  BY <1>2, <2>1, NobodyHolds DEF StoreFailures
<1>3. CASE BanClearsFailures(t)
  <2>1. ~Idle.held
    BY DEF Idle
  <2> QED  BY <1>3, <2>1, NobodyHolds DEF BanClearsFailures
<1>4. CASE ClearFailures(t)
  <2>1. ~[NewList(req)[t] EXCEPT !.pc = "unban"].held
    BY <1>1 DEF NewList, Requests
  <2> QED  BY <1>4, <2>1, NobodyHolds DEF ClearFailures
<1>5. CASE FindList(t)
  <2>1. failed' # NoEntry
    BY <1>5 DEF FindList, Entry, NoEntry
  <2> QED  BY <2>1 DEF HeldIsThere
<1>6. CASE AppendFailure(t)
  <2>1. CASE req[t].held
    <3>1. failed \in Seq(0..MaxTime) /\ UpToNow(failed)
      BY <2>1, Rest DEF TypeIInv, HeldIsThere, RestTypes
    <3>2. failed' \in Seq(0..MaxTime)
      BY <1>6, <2>1, <3>1, TypeFacts, AppendFacts, Numbers DEF AppendFailure
    <3> QED  BY <3>2, IsNoEntry DEF HeldIsThere
  <2>2. CASE ~req[t].held
    BY <1>1, <1>6, <2>2, HeldKept DEF AppendFailure, Refuse, Idle
  <2> QED  BY <2>1, <2>2
<1>7. CASE ReadFailures(t)
  <2>1. PICK old : req' = [req EXCEPT ![t] = [req[t] EXCEPT !.pc = "store", !.old = old]]
    BY <1>7, Zenon DEF ReadFailures
  <2>2. [req[t] EXCEPT !.pc = "store", !.old = old].held = req[t].held
    BY <1>1 DEF Requests
  <2> QED  BY <1>1, <1>7, <2>1, <2>2, HeldKept DEF ReadFailures, banVars
<1>8. ASSUME \/ Refuse(t)
             \/ \E pc : Goto(t, pc)
             \/ \E pc : Finish(t, pc),
             failed' = failed
      PROVE  HeldIsThere'
  <2>1. ~Idle.held /\ Idle \in Requests
    BY TypeFacts, IdleFine DEF Idle, FineRequest
  <2>2. CASE Refuse(t)
    BY <1>1, <1>8, <2>1, <2>2, HeldKept DEF Refuse
  <2>3. ASSUME NEW pc, Goto(t, pc) PROVE HeldIsThere'
    <3>1. [req[t] EXCEPT !.pc = pc].held = req[t].held
      BY <1>1 DEF Requests
    <3> QED  BY <1>1, <1>8, <2>3, <3>1, HeldKept DEF Goto
  <2>4. ASSUME NEW pc, Finish(t, pc) PROVE HeldIsThere'
    <3>1. ~[Idle EXCEPT !.pc = pc, !.guess = req[t].guess, !.seen = req[t].seen].held
      BY <2>1 DEF Requests
    <3> QED  BY <1>1, <1>8, <2>4, <3>1, HeldKept DEF Finish
  <2> QED  BY <1>8, <2>2, <2>3, <2>4
<1>9. CASE CountFailures(t)
  BY <1>8, <1>9 DEF CountFailures
<1>10. CASE Lookup(t)
  BY <1>8, <1>10 DEF Lookup, Compare, banVars
<1>11. CASE Accept(t) \/ Forbid(t)
  BY <1>8, <1>11 DEF Accept, Forbid
<1>12. CASE Admit(t)
  BY <1>8, <1>12 DEF Admit, banVars
<1> QED
  BY <1>2, <1>3, <1>4, <1>5, <1>6, <1>7, <1>9, <1>10, <1>11, <1>12 DEF Step

LEMMA LoginTypes ==
    ASSUME TypeIInv, NEW t \in Threads, Login(t) \/ PresentToken(t)
    PROVE  TypeIInv'
<1> USE DEF RestTypes
<1>1. 0 \in 0..changes
  BY Numbers DEF TypeIInv, AuthTypeOK
<1>2. req' = [u \in Threads |-> req'[u]] /\ \A u \in Threads : FineRequest(req'[u])
  <2>1. CASE Refuse(t)
    BY <2>1, FinishTypes
  <2>2. CASE \E guess \in 0..changes : req' = [req EXCEPT ![t] = Request("read", guess)]
    BY <2>2, BeginTypes
  <2>3. CASE req' = [req EXCEPT ![t] = Request("admit", 0)]
    BY <1>1, <2>3, BeginTypes
  <2> QED  BY <2>1, <2>2, <2>3 DEF Login, PresentToken
<1>3. requests' \in 0..MaxRequests
  BY Numbers DEF Login, PresentToken, Begins, TypeIInv, AuthTypeOK
<1>4. /\ UNCHANGED <<now, row, changes, failed, banned, tokens>>
      /\ guesses' \in {<<>>, guesses}
      /\ overlapped' \in BOOLEAN
  BY Rest DEF Login, PresentToken, dbVars, banVars, historyVars
<1>5. HeldIsThere'
  <2>1. ASSUME NEW r, ~r.held, req' = [req EXCEPT ![t] = r]
        PROVE  \A u \in Threads : req'[u].held => req[u].held
    BY <2>1, TypeFacts
  <2>2. ~Idle.held /\ Idle \in Requests
    BY TypeFacts, IdleFine DEF Idle, FineRequest
  <2>3. \A pc, guess : ~Request(pc, guess).held
    BY <2>2 DEF Request, Requests
  <2>4. \A u \in Threads : req'[u].held => req[u].held
    BY <2>1, <2>2, <2>3 DEF Login, PresentToken, Refuse
  <2> QED  BY <1>4, <2>4, HeldKept
<1> QED  BY <1>2, <1>3, <1>4, <1>5, Rest, NoTimes, TypesKept

LEMMA StepTypes ==
    ASSUME TypeIInv, NEW t \in Threads, Step(t)
    PROVE  TypeIInv'
<1> USE DEF RestTypes
<1>1. /\ FineRequest(req[t])
      /\ req[t].at \in 0..MaxTime
      /\ req[t].old \in Seq(0..MaxTime) /\ UpToNow(req[t].old)
      /\ now \in Nat
  BY TypeFacts DEF FineRequest, Requests
<1>12. now \in 0..MaxTime /\ 0..MaxTime \in SUBSET Nat
  BY TypeFacts, Numbers
<1> DEFINE ReqFine == req' = [u \in Threads |-> req'[u]] /\ \A u \in Threads : FineRequest(req'[u])
<1>2. CASE ReadFailures(t)
  <2>1. PICK k \in 0..Len(Entry) : Recent(Entry, req[t].at) = SubSeq(Entry, k + 1, Len(Entry))
    <3>1. req[t].at \in Nat
      BY <1>1, Numbers
    <3> QED  BY <3>1, TypeFacts, RecentFacts
  <2>2. Recent(Entry, req[t].at) \in Seq(0..MaxTime) /\ UpToNow(Recent(Entry, req[t].at))
    BY <2>1, TypeFacts, SuffixFacts
  <2>3. req' = [req EXCEPT ![t] = [req[t] EXCEPT !.pc = "store", !.old = Recent(Entry, req[t].at)]]
    BY <1>2 DEF ReadFailures
  <2>4. FineRequest([req[t] EXCEPT !.pc = "store", !.old = Recent(Entry, req[t].at)])
    BY <1>1, <2>2, FineRecords DEF LoginSteps
  <2>5. ReqFine
    BY <2>3, <2>4, OneMoved
  <2> QED  BY <1>2, <2>5, Rest, StepHeld, TypesKept
             DEF ReadFailures, dbVars, banVars, historyVars
<1>3. CASE StoreFailures(t)
  <2>1. req' = [NewList(req) EXCEPT ![t] = [NewList(req)[t] EXCEPT !.pc = "count", !.old = <<>>]]
    BY <1>3 DEF StoreFailures
  <2>2. FineRequest(NewList(req)[t])
    BY <1>1, FineRecords DEF NewList
  <2>3. FineRequest([NewList(req)[t] EXCEPT !.pc = "count", !.old = <<>>])
    BY <1>1, <2>2, FineRecords, NoTimes DEF LoginSteps
  <2>4. ReqFine
    BY <2>1, <2>3, OneMovedNewList
  <2> QED  BY <1>1, <1>3, <2>4, Rest, StepHeld, TypesKept
             DEF StoreFailures, dbVars, historyVars
<1>4. CASE CountFailures(t)
  <2>1. ReqFine
    BY <1>4, FinishTypes DEF CountFailures, Outcomes, LoginSteps
  <2>2. banned' \in 0..(MaxTime + BanTime)
    <3>1. banned' = banned \/ banned' = req[t].at + BanTime
      BY <1>4 DEF CountFailures
    <3>2. banned \in 0..(MaxTime + BanTime)
      BY Rest
    <3> QED  BY <1>1, <3>1, <3>2, Numbers
  <2> QED  BY <1>4, <2>1, <2>2, Rest, StepHeld, TypesKept
             DEF CountFailures, dbVars, historyVars
<1>5. CASE BanClearsFailures(t)
  <2>1. ReqFine
    BY <1>1, <1>5, IdleFine, OneMovedNewList DEF BanClearsFailures
  <2> QED  BY <1>5, <2>1, Rest, NoTimes, StepHeld, TypesKept
             DEF BanClearsFailures, dbVars, historyVars
<1>6. CASE Lookup(t)
  <2>1. ReqFine
    BY <1>6, FinishTypes DEF Lookup, Compare, Outcomes, LoginSteps
  <2> QED  BY <1>6, <2>1, Rest, StepHeld, TypesKept
             DEF Lookup, dbVars, banVars, historyVars
<1>7. CASE FindList(t)
  <2>1. req' = [req EXCEPT ![t] = [req[t] EXCEPT !.pc = "append", !.held = TRUE]]
    BY <1>7 DEF FindList
  <2>2. FineRequest([req[t] EXCEPT !.pc = "append", !.held = TRUE])
    BY <1>1, FineRecords DEF LoginSteps
  <2>3. ReqFine
    BY <2>1, <2>2, OneMoved
  <2> QED  BY <1>7, <2>3, Rest, TypeFacts, StepHeld, TypesKept
             DEF FindList, dbVars, historyVars
<1>8. CASE AppendFailure(t)
  <2>1. ReqFine
    BY <1>8, FinishTypes DEF AppendFailure
  <2>2. failed' = NoEntry \/ (failed' \in Seq(0..MaxTime) /\ UpToNow(failed'))
    <3>1. CASE req[t].held
      <4>1. failed \in Seq(0..MaxTime) /\ UpToNow(failed)
        BY <3>1, Rest DEF TypeIInv, HeldIsThere
      <4>2. failed' = Append(failed, now)
        BY <1>8, <3>1 DEF AppendFailure
      <4> QED  BY <1>12, <4>1, <4>2, AppendFacts
    <3>2. CASE ~req[t].held
      BY <1>8, <3>2, Rest DEF AppendFailure
    <3> QED  BY <3>1, <3>2
  <2>3. guesses' \in Seq(0..MaxTime) /\ UpToNow(guesses')
    <3>1. guesses' = guesses \/ guesses' = Append(guesses, now)
      BY <1>8 DEF AppendFailure
    <3> QED  BY <1>12, <3>1, TypeFacts, AppendFacts
  <2> QED  BY <1>8, <2>1, <2>2, <2>3, Rest, StepHeld, TypesKept
             DEF AppendFailure, dbVars
<1>9. CASE ClearFailures(t)
  <2>1. req' = [NewList(req) EXCEPT ![t] = [NewList(req)[t] EXCEPT !.pc = "unban"]]
    BY <1>9 DEF ClearFailures
  <2>2. FineRequest(NewList(req)[t])
    BY <1>1, FineRecords DEF NewList
  <2>3. FineRequest([NewList(req)[t] EXCEPT !.pc = "unban"])
    BY <1>1, <2>2, FineRecords DEF LoginSteps
  <2>4. ReqFine
    BY <2>1, <2>3, OneMovedNewList
  <2> QED  BY <1>9, <2>4, Rest, StepHeld, TypesKept DEF ClearFailures, dbVars, historyVars
<1>10. CASE Accept(t)
  <2>1. ReqFine
    BY <1>10, FinishTypes DEF Accept, Outcomes
  <2>2. /\ banned' \in 0..(MaxTime + BanTime)
        /\ tokens' \in SUBSET (0..(MaxTime + TTL))
    BY <1>1, <1>10, Rest, Numbers DEF Accept
  <2> QED  BY <1>10, <2>1, <2>2, Rest, NoTimes, StepHeld, TypesKept DEF Accept, dbVars
<1>11. CASE Admit(t)
  <2>1. ReqFine
    BY <1>11, FinishTypes DEF Admit, Outcomes
  <2> QED  BY <1>11, <2>1, Rest, StepHeld, TypesKept DEF Admit, dbVars, banVars, historyVars
<1>13. CASE Forbid(t)
  <2>1. ReqFine
    BY <1>13, FinishTypes DEF Forbid
  <2>2. banned' \in 0..(MaxTime + BanTime)
    BY <1>13, Numbers DEF Forbid
  <2> QED  BY <1>13, <2>1, <2>2, Rest, NoTimes, StepHeld, TypesKept DEF Forbid, dbVars
<1> QED
  BY <1>2, <1>3, <1>4, <1>5, <1>6, <1>7, <1>8, <1>9, <1>10, <1>11, <1>13 DEF Step

LEMMA WritesTypes ==
    ASSUME TypeIInv, NEW r \in Rows, Writes(r)
    PROVE  TypeIInv'
<1>1. \A t \in Threads : FineRequest(req[t]) /\ req[t] \in Requests
  BY TypeFacts DEF FineRequest
<1>2. req' = [t \in Threads |->
                IF Busy(t) THEN [req[t] EXCEPT !.seen = @ \cup {r}] ELSE req[t]]
  BY DEF Writes
<1>3. ASSUME NEW t \in Threads PROVE FineRequest(req'[t]) /\ req'[t].held = req[t].held
  <2>1. req'[t] = [req[t] EXCEPT !.seen = @ \cup {r}] \/ req'[t] = req[t]
    BY <1>2
  <2>2. FineRequest(req'[t])
    <3>1. now \in Nat /\ FineRequest(req[t])
      BY <1>1, TypeFacts
    <3>2. FineRequest([req[t] EXCEPT !.seen = @ \cup {r}])
      BY <3>1, FineRecords
    <3> QED  BY <2>1, <3>1, <3>2
  <2>3. req'[t].held = req[t].held
    BY <1>1, <2>1 DEF Requests
  <2> QED  BY <2>2, <2>3
<1>4. req' = [t \in Threads |-> req'[t]]
  BY <1>2
<1>5. /\ UNCHANGED <<now, failed, banned, tokens, requests, guesses, overlapped>>
      /\ row' \in Rows
      /\ changes' \in 0..MaxChanges
  BY Rest, Numbers DEF Writes, banVars, historyVars, RestTypes
<1>6. HeldIsThere'
  BY <1>3, <1>5, HeldKept
<1> QED  BY <1>3, <1>4, <1>5, <1>6, Rest, TypesKept DEF RestTypes

LEMMA AccountTypes ==
    ASSUME TypeIInv, CreateUser \/ ResetPassword \/ SetActive \/ DeleteUser
    PROVE  TypeIInv'
<1>1. row \in Rows /\ changes \in 0..MaxChanges
  BY DEF TypeIInv, AuthTypeOK
<1>2. row # NoRow => row \in [pw : 1..MaxChanges, active : BOOLEAN, expires : Expiries]
  BY <1>1 DEF Rows
<1>3. changes < MaxChanges => changes + 1 \in 1..MaxChanges
  BY <1>1, Numbers
<1>4. CASE CreateUser
  <2>1. PICK expires \in Expiries : Writes([pw |-> changes + 1, active |-> TRUE, expires |-> expires])
    BY <1>4 DEF CreateUser
  <2>2. [pw |-> changes + 1, active |-> TRUE, expires |-> expires] \in Rows
    BY <1>3, <2>1 DEF Writes, Rows
  <2> QED  BY <2>1, <2>2, WritesTypes
<1>5. CASE ResetPassword
  <2>1. [row EXCEPT !.pw = changes + 1] \in Rows
    BY <1>2, <1>3, <1>5 DEF ResetPassword, Writes, Rows
  <2> QED  BY <1>5, <2>1, WritesTypes DEF ResetPassword
<1>6. CASE SetActive
  <2>1. PICK active \in BOOLEAN : Writes([row EXCEPT !.active = active])
    BY <1>6 DEF SetActive
  <2>2. [row EXCEPT !.active = active] \in Rows
    BY <1>2, <1>6 DEF SetActive, Rows
  <2> QED  BY <2>1, <2>2, WritesTypes
<1>7. CASE DeleteUser
  <2>1. NoRow \in Rows
    BY DEF Rows
  <2> QED  BY <1>7, <2>1, WritesTypes DEF DeleteUser
<1> QED  BY <1>4, <1>5, <1>6, <1>7

LEMMA TickTypes == ASSUME TypeIInv, Tick PROVE TypeIInv'
<1>1. /\ now' \in 0..MaxTime /\ now' \in Nat /\ now =< now' /\ now \in Nat
      /\ UNCHANGED <<row, changes, failed, banned, tokens, requests, req, guesses, overlapped>>
  BY TypeFacts, Numbers DEF Tick, dbVars, banVars, historyVars
<1>2. AuthTypeOK'
  BY <1>1 DEF TypeIInv, AuthTypeOK
<1>3. HeldIsThere'
  BY <1>1 DEF TypeIInv, HeldIsThere
<1>4. \A t \in Threads : req[t].at \in 0..MaxTime /\ req[t].at =< now
                         /\ req[t].old \in Seq(0..MaxTime) /\ UpToNow(req[t].old)
  BY TypeFacts DEF FineRequest, Requests
<1>5. ASSUME NEW s \in Seq(0..MaxTime), UpToNow(s) PROVE UpToNow(s)'
  BY <1>1, <1>5, Later
<1>6. ASSUME NEW t \in Threads PROVE UpToNow(req[t].old)' /\ req'[t].at =< now'
  <2>1. req'[t].at =< now'
    BY <1>1, <1>4, Numbers
  <2>2. UpToNow(req[t].old)'
    <3> DEFINE s == req[t].old
    <3>1. s \in Seq(0..MaxTime) /\ UpToNow(s) /\ s' = s
      BY <1>1, <1>4
    <3> QED  BY <1>5, <3>1 DEF UpToNow, Sorted
  <2> QED  BY <2>1, <2>2
<1>7. UpToNow(guesses)'
  BY <1>1, <1>5, TypeFacts DEF UpToNow, Sorted
<1>8. failed' # NoEntry => UpToNow(failed)'
  BY <1>1, <1>5, Rest DEF UpToNow, Sorted, RestTypes
<1>9. Timely'
  BY <1>6, <1>7, <1>8 DEF Timely
<1> QED  BY <1>2, <1>3, <1>9 DEF TypeIInv

LEMMA TypeInit == AuthInit => TypeIInv
<1> SUFFICES ASSUME AuthInit PROVE TypeIInv
  OBVIOUS
<1>1. now \in Nat /\ FineRequest(Idle) /\ ~Idle.held
  BY IdleFine DEF AuthInit, Idle
<1>2. NoRow \in Rows
  BY DEF Rows
<1>3. req \in [Threads -> Requests] /\ \A t \in Threads : req[t] = Idle
  BY <1>1 DEF AuthInit, FineRequest
<1>4. AuthTypeOK
  <2>1. 0 \in 0..MaxTime /\ 0 \in 0..MaxChanges /\ 0 \in 0..(MaxTime + BanTime) /\ 0 \in 0..MaxRequests
    BY Numbers
  <2> QED  BY <1>2, <1>3, <2>1, NoTimes DEF AuthInit, AuthTypeOK
<1>5. Timely
  BY <1>1, <1>3, NoTimes DEF AuthInit, Timely, FineRequest
<1> QED  BY <1>1, <1>3, <1>4, <1>5 DEF TypeIInv, HeldIsThere

LEMMA TypeNext == TypeIInv /\ [AuthNext]_authVars => TypeIInv'
<1> SUFFICES ASSUME TypeIInv, [AuthNext]_authVars PROVE TypeIInv'
  OBVIOUS
<1>1. ASSUME NEW t \in Threads, Login(t) \/ PresentToken(t) PROVE TypeIInv'
  BY <1>1, LoginTypes
<1>2. ASSUME NEW t \in Threads, Step(t) PROVE TypeIInv'
  BY <1>2, StepTypes
<1>3. CASE CreateUser \/ ResetPassword \/ SetActive \/ DeleteUser
  BY <1>3, AccountTypes
<1>4. CASE Tick
  BY <1>4, TickTypes
<1>5. CASE UNCHANGED authVars
  BY <1>5 DEF authVars, TypeIInv, AuthTypeOK, Timely, UpToNow, Sorted, HeldIsThere
<1> QED  BY <1>1, <1>2, <1>3, <1>4, <1>5 DEF AuthNext

\* The lists of failures stay lists of times, in their order and none to come, whatever
\* threads store, append to and remove them at once.
THEOREM AuthTypeCorrect == AuthSpec => []AuthTypeOK
<1>1. TypeIInv => AuthTypeOK
  BY DEF TypeIInv
<1> QED  BY TypeInit, TypeNext, <1>1, PTL DEF AuthSpec

-----------------------------------------------------------------------------
(* The limit on guesses *)

InLogin(t) == req[t].pc \in LoginSteps

\* What a login that is alone knows at each of its steps: that the gate was open when it
\* passed, and that the list it stored is the one it counts and appends to.
LoginSound(r) ==
    /\ \A i \in 1..Len(guesses) : guesses[i] =< r.at
    /\ r.pc # "unlist" => banned =< r.at
    /\ r.pc = "unlist" => banned = r.at + BanTime
    /\ r.pc = "store" =>
           \E k \in 0..Len(Entry) : /\ Dropped(Entry, r.at, k)
                                    /\ r.old = SubSeq(Entry, k + 1, Len(Entry))
    /\ r.pc \in {"count", "append"} => failed # NoEntry
    /\ r.pc = "append" => r.held
    /\ r.pc \in {"lookup", "fail", "append"} => Len(Entry) < Threshold
    /\ r.pc = "unban" => failed = NoEntry

\* The list lacks the first k wrong guesses: each of them has left the window, or will have
\* when the ban ends.
Forgotten(k) ==
    /\ Entry = SubSeq(guesses, k + 1, Len(guesses))
    /\ \A i \in 1..k : guesses[i] + Window =< now \/ guesses[i] + Window =< banned

Serial ==
    /\ \A t, u \in Threads : InLogin(t) /\ InLogin(u) => t = u
    /\ \A t \in Threads : ~At(t, "KeyError")
    /\ \A t \in Threads : InLogin(t) => LoginSound(req[t])
    /\ (\A t \in Threads : ~At(t, "unban")) => \E k \in 0..Len(guesses) : Forgotten(k)

SerialIInv == (~overlapped => Serial) /\ GuessLimit

StaysOrEnds(u) ==
    \/ /\ req'[u].pc = req[u].pc /\ req'[u].at = req[u].at
       /\ req'[u].old = req[u].old /\ req'[u].held = req[u].held
    \/ req'[u].pc \notin LoginSteps \cup {"KeyError"} /\ ~At(u, "unban")

\* A step that touches neither the list nor the ban, and of the requests at most ends one.
LEMMA SerialFramed ==
    ASSUME TypeIInv, TypeIInv', Serial,
           failed' = failed, banned' = banned, guesses' = guesses, now =< now',
           \A u \in Threads : StaysOrEnds(u)
    PROVE  Serial'
<1> USE DEF StaysOrEnds
<1>1. Entry' = Entry
  BY DEF Entry
<1>2. \A u \in Threads : InLogin(u)' => LoginSound(req[u])'
  <2>1. ASSUME NEW u \in Threads, InLogin(u)' PROVE LoginSound(req[u])'
    <3>1. /\ req'[u].pc = req[u].pc /\ req'[u].at = req[u].at
          /\ req'[u].old = req[u].old /\ req'[u].held = req[u].held
      BY <2>1 DEF InLogin
    <3>2. LoginSound(req[u])
      BY <2>1, <3>1 DEF Serial, InLogin
    <3> QED  BY <1>1, <3>1, <3>2 DEF LoginSound, Dropped
  <2> QED  BY <2>1
<1>3. (\A u \in Threads : ~At(u, "unban"))' => \A u \in Threads : ~At(u, "unban")
  BY DEF At
<1>4. ASSUME NEW k \in 0..Len(guesses), Forgotten(k) PROVE Forgotten(k)'
  <2>1. guesses \in Seq(0..MaxTime) /\ now \in Nat /\ now' \in Nat
    BY TypeFacts, Numbers DEF TypeIInv, AuthTypeOK
  <2>2. \A i \in 1..k : guesses[i] \in Nat
    BY <2>1, Numbers
  <2> QED  BY <1>1, <1>4, <2>1, <2>2, Numbers DEF Forgotten
<1>5. (\A u \in Threads : ~At(u, "unban"))' => \E k \in 0..Len(guesses') : Forgotten(k)'
  BY <1>3, <1>4 DEF Serial
<1>6. \A u, v \in Threads : InLogin(u)' /\ InLogin(v)' => u = v
  BY DEF Serial, InLogin
<1>7. \A u \in Threads : ~At(u, "KeyError")'
  BY DEF Serial, At
<1> QED  BY <1>2, <1>5, <1>6, <1>7 DEF Serial

\* A step of the one login there is.
LEMMA SerialMoved ==
    ASSUME Serial, NEW t \in Threads, InLogin(t),
           \A u \in Threads \ {t} : req'[u].pc = req[u].pc,
           req'[t].pc # "KeyError",
           InLogin(t)' => LoginSound(req[t])',
           req'[t].pc # "unban" => \E k \in 0..Len(guesses') : Forgotten(k)'
    PROVE  Serial'
<1>1. \A u \in Threads \ {t} : ~InLogin(u) /\ ~InLogin(u)'
  BY DEF Serial, InLogin
<1>2. \A u, v \in Threads : InLogin(u)' /\ InLogin(v)' => u = v
  BY <1>1
<1>3. \A u \in Threads : ~At(u, "KeyError")'
  BY DEF Serial, At
<1>4. \A u \in Threads : InLogin(u)' => LoginSound(req[u])'
  BY <1>1
<1>5. (\A u \in Threads : ~At(u, "unban"))' => req'[t].pc # "unban"
  BY DEF At
<1> QED  BY <1>2, <1>3, <1>4, <1>5 DEF Serial

LEMMA Alone ==
    ASSUME TypeIInv, Serial, NEW t \in Threads, InLogin(t)
    PROVE  /\ LoginSound(req[t])
           /\ ~At(t, "unban") => \E k \in 0..Len(guesses) : Forgotten(k)
BY DEF Serial, InLogin, At, LoginSteps

\* A new list, and what becomes of the other requests.
LEMMA OthersStay ==
    ASSUME TypeIInv, NEW t \in Threads, NEW r,
           req' = [req EXCEPT ![t] = r] \/ req' = [NewList(req) EXCEPT ![t] = r]
    PROVE  req'[t] = r /\ \A u \in Threads \ {t} : req'[u].pc = req[u].pc
<1>1. \A u \in Threads : NewList(req)[u].pc = req[u].pc
  BY TypeFacts DEF NewList, FineRequest, Requests
<1>2. NewList(req) = [u \in Threads |-> NewList(req)[u]]
  BY DEF NewList
<1> QED  BY <1>1, <1>2, TypeFacts

LEMMA SubSub ==
    ASSUME NEW S, NEW s \in Seq(S), NEW k \in 0..Len(s), NEW m \in 0..(Len(s) - k)
    PROVE  SubSeq(SubSeq(s, k + 1, Len(s)), m + 1, Len(s) - k) = SubSeq(s, k + m + 1, Len(s))
<1> DEFINE r == SubSeq(s, k + 1, Len(s))
<1>1. r \in Seq(S) /\ Len(r) = Len(s) - k /\ \A i \in 1..Len(r) : r[i] = s[i + k]
  BY SuffixIs
<1> DEFINE a == SubSeq(r, m + 1, Len(s) - k)
           b == SubSeq(s, k + m + 1, Len(s))
<1>2. a \in Seq(S) /\ Len(a) = Len(s) - k - m /\ \A i \in 1..Len(a) : a[i] = s[i + m + k]
  <2> HIDE DEF r
  <2> QED  BY <1>1
<1>3. b \in Seq(S) /\ Len(b) = Len(s) - k - m /\ \A i \in 1..Len(b) : b[i] = s[i + m + k]
  <2>1. k + m \in 0..Len(s)
    OBVIOUS
  <2> QED  BY <2>1, SuffixIs
<1> HIDE DEF a, b
<1>4. a = [i \in 1..Len(a) |-> a[i]] /\ b = [i \in 1..Len(b) |-> b[i]]
  BY <1>2, <1>3
<1>5. a = b
  <2>1. \A i \in 1..Len(a) : a[i] = b[i]
    BY <1>2, <1>3
  <2>2. Len(a) = Len(b)
    BY <1>2, <1>3
  <2> QED  BY <1>4, <2>1, <2>2, Zenon
<1> QED  BY <1>5 DEF a, b

\* What had left the window by some time has left it by any later one.
LEMMA Ages ==
    ASSUME NEW then \in Nat, NEW time \in Nat, NEW later \in Nat, NEW age \in Nat,
           time - then >= age, time =< later
    PROVE  then + age =< later
OBVIOUS

LEMMA SerialStep ==
    ASSUME TypeIInv, TypeIInv', SerialIInv, ~overlapped, NEW t \in Threads, Step(t), ~Admit(t)
    PROVE  Serial' /\ GuessLimit'
<1>1. InLogin(t) /\ ~overlapped' /\ now' = now
  BY DEF Step, InLogin, LoginSteps, At, ReadFailures, StoreFailures, CountFailures,
         BanClearsFailures, Lookup, FindList, AppendFailure, ClearFailures, Accept,
         Forbid, historyVars
<1>2. Serial /\ GuessLimit /\ LoginSound(req[t])
  BY <1>1, Alone DEF SerialIInv
<1>3. /\ req[t] \in Requests /\ req[t].at \in Nat /\ req[t].at =< now /\ now \in Nat
      /\ Entry \in Seq(0..MaxTime) /\ UpToNow(Entry)
      /\ guesses \in Seq(0..MaxTime) /\ UpToNow(guesses)
      /\ \A i \in 1..Len(guesses) : guesses[i] \in Nat
      /\ banned \in Nat
  <2>1. req[t] \in Requests /\ req[t].at =< now
    BY TypeFacts DEF FineRequest
  <2>2. req[t].at \in Nat
    BY <2>1, Numbers DEF Requests
  <2>3. \A i \in 1..Len(guesses) : guesses[i] \in Nat
    BY TypeFacts, Numbers
  <2>4. banned \in Nat
    BY Rest, Numbers DEF RestTypes
  <2> QED  BY <2>1, <2>2, <2>3, <2>4, TypeFacts
<1>4. ~At(t, "unban") => \E k \in 0..Len(guesses) : Forgotten(k)
  BY <1>1, <1>2, Alone
<1>5. ASSUME guesses' = guesses, failed' = failed, banned' = banned, NEW k, Forgotten(k)
      PROVE  Forgotten(k)'
  BY <1>1, <1>5 DEF Forgotten, Entry
<1>6. guesses' = guesses => GuessLimit'
  BY <1>1, <1>2 DEF GuessLimit
<1>7. ASSUME NEW r, req' = [req EXCEPT ![t] = r] \/ req' = [NewList(req) EXCEPT ![t] = r]
      PROVE  req'[t] = r /\ \A u \in Threads \ {t} : req'[u].pc = req[u].pc
  BY <1>7, OthersStay
<1>8. ASSUME Refuse(t)
      PROVE  req'[t].pc = "idle" /\ ~InLogin(t)' /\ \A u \in Threads \ {t} : req'[u].pc = req[u].pc
  <2>1. Idle.pc = "idle"
    BY DEF Idle
  <2> QED  BY <1>7, <1>8, <2>1 DEF Refuse, InLogin, LoginSteps
<1>9. ASSUME NEW pc, Goto(t, pc)
      PROVE  /\ req'[t].pc = pc /\ req'[t].at = req[t].at /\ req'[t].held = req[t].held
             /\ \A u \in Threads \ {t} : req'[u].pc = req[u].pc
  <2>1. req' = [req EXCEPT ![t] = [req[t] EXCEPT !.pc = pc]]
    BY <1>9 DEF Goto
  <2>2. req'[t] = [req[t] EXCEPT !.pc = pc]
    BY <1>7, <2>1
  <2> QED  BY <1>3, <1>7, <2>1, <2>2 DEF Requests
<1>10. CASE ReadFailures(t)
  <2> DEFINE r == [req[t] EXCEPT !.pc = "store", !.old = Recent(Entry, req[t].at)]
  <2>1. req' = [req EXCEPT ![t] = r] /\ UNCHANGED <<failed, banned, guesses>> /\ ~At(t, "unban")
        /\ At(t, "read")
    BY <1>10 DEF ReadFailures, banVars, historyVars, At
  <2>2. /\ r.pc = "store" /\ r.at = req[t].at /\ r.old = Recent(Entry, req[t].at)
    BY <1>3 DEF Requests
  <2> HIDE DEF r
  <2>3. PICK k \in 0..Len(Entry) : /\ Dropped(Entry, req[t].at, k)
                                   /\ Recent(Entry, req[t].at) = SubSeq(Entry, k + 1, Len(Entry))
    BY <1>3, RecentFacts
  <2>4. req'[t] = r /\ \A u \in Threads \ {t} : req'[u].pc = req[u].pc
    BY <1>7, <2>1
  <2>5. Entry' = Entry
    BY <2>1 DEF Entry
  <2>6. LoginSound(req[t])'
    BY <1>2, <2>1, <2>2, <2>3, <2>4, <2>5 DEF LoginSound, At, Dropped
  <2>7. \E k0 \in 0..Len(guesses') : Forgotten(k0)'
    BY <1>4, <1>5, <2>1
  <2> QED  BY <1>1, <1>2, <1>6, <2>1, <2>2, <2>4, <2>6, <2>7, SerialMoved
<1>11. CASE StoreFailures(t)
  <2> DEFINE r == [NewList(req)[t] EXCEPT !.pc = "count", !.old = <<>>]
  <2>1. /\ req' = [NewList(req) EXCEPT ![t] = r]
        /\ failed' = req[t].old /\ banned' = banned /\ guesses' = guesses
        /\ At(t, "store") /\ ~At(t, "unban")
    BY <1>11 DEF StoreFailures, historyVars, At
  <2>2. r.pc = "count" /\ r.at = req[t].at
    BY <1>3 DEF Requests, NewList
  <2> HIDE DEF r
  <2>3. PICK k \in 0..Len(Entry) : /\ Dropped(Entry, req[t].at, k)
                                   /\ req[t].old = SubSeq(Entry, k + 1, Len(Entry))
    BY <1>2, <2>1 DEF LoginSound, At
  <2>4. failed' \in Seq(0..MaxTime) /\ failed' # NoEntry /\ Entry' = failed'
    BY <1>3, <2>1, IsNoEntry DEF Requests, Entry
  <2>5. PICK k0 \in 0..Len(guesses) : Forgotten(k0)
    BY <1>4, <2>1
  <2>6. Forgotten(k0 + k)' /\ k0 + k \in 0..Len(guesses')
    <3>1. Entry = SubSeq(guesses, k0 + 1, Len(guesses))
      BY <2>5 DEF Forgotten
    <3>2. Len(Entry) = Len(guesses) - k0 /\ k0 + k \in 0..Len(guesses)
      BY <1>3, <3>1
    <3>3. Entry' = SubSeq(guesses, k0 + k + 1, Len(guesses))
      <4>1. Entry' = SubSeq(Entry, k + 1, Len(Entry)) /\ k \in 0..(Len(guesses) - k0)
        BY <2>1, <2>3, <2>4, <3>2
      <4> QED  BY <1>3, <3>1, <3>2, <4>1, SubSub
    <3>4. ASSUME NEW i \in 1..(k0 + k), i > k0 PROVE guesses[i] + Window =< now
      <4>1. i - k0 \in 1..k /\ i \in 1..Len(guesses)
        BY <3>2, <3>4
      <4>2. Entry[i - k0] = guesses[i]
        BY <1>3, <3>1, <3>2, <4>1
      <4>3. req[t].at - guesses[i] >= Window
        BY <2>3, <4>1, <4>2 DEF Dropped
      <4>4. guesses[i] \in Nat /\ req[t].at \in Nat /\ req[t].at =< now /\ now \in Nat
        BY <1>3, <4>1
      <4> QED  BY <4>3, <4>4, Ages, Numbers
    <3>5. \A i \in 1..(k0 + k) : guesses[i] + Window =< now \/ guesses[i] + Window =< banned
      BY <2>5, <3>2, <3>4 DEF Forgotten
    <3> QED  BY <1>1, <2>1, <3>2, <3>3, <3>5 DEF Forgotten
  <2>7. req'[t] = r /\ \A u \in Threads \ {t} : req'[u].pc = req[u].pc
    BY <1>7, <2>1
  <2>8. LoginSound(req[t])'
    BY <1>2, <2>1, <2>2, <2>4, <2>7 DEF LoginSound, At
  <2> QED  BY <1>1, <1>2, <1>6, <2>1, <2>2, <2>6, <2>7, <2>8, SerialMoved
<1>12. CASE CountFailures(t)
  <2>1. /\ At(t, "count") /\ ~At(t, "unban") /\ failed # NoEntry
        /\ failed' = failed /\ guesses' = guesses /\ Entry = failed
    BY <1>2, <1>12 DEF CountFailures, LoginSound, At, historyVars, Entry
  <2>2. CASE banned' = req[t].at + BanTime /\ Goto(t, "unlist")
    <3>1. req'[t].pc = "unlist" /\ req'[t].at = req[t].at
          /\ \A u \in Threads \ {t} : req'[u].pc = req[u].pc
      BY <1>9, <2>2
    <3>2. LoginSound(req[t])'
      BY <1>2, <2>1, <2>2, <3>1 DEF LoginSound, At
    <3>3. banned =< banned' /\ banned' \in Nat
      BY <1>2, <1>3, <2>1, <2>2, Numbers DEF LoginSound, At
    <3>4. ASSUME NEW k \in 0..Len(guesses), Forgotten(k) PROVE Forgotten(k)'
      <4>1. \A i \in 1..k : guesses[i] \in Nat
        BY <1>3
      <4>2. \A i \in 1..k : guesses[i] + Window =< now \/ guesses[i] + Window =< banned
        BY <3>4 DEF Forgotten
      <4>3. \A i \in 1..k : guesses[i] + Window =< now \/ guesses[i] + Window =< banned'
        BY <1>3, <3>3, <4>1, <4>2, Numbers
      <4>4. Entry' = Entry
        BY <2>1 DEF Entry
      <4> QED  BY <1>1, <2>1, <3>4, <4>3, <4>4 DEF Forgotten
    <3> QED  BY <1>1, <1>2, <1>4, <1>6, <2>1, <3>1, <3>2, <3>4, SerialMoved
  <2>3. CASE Len(failed) < Threshold /\ Goto(t, "lookup") /\ UNCHANGED banned
    <3>1. req'[t].pc = "lookup" /\ req'[t].at = req[t].at
          /\ \A u \in Threads \ {t} : req'[u].pc = req[u].pc
      BY <1>9, <2>3
    <3>2. LoginSound(req[t])'
      BY <1>2, <2>1, <2>3, <3>1 DEF LoginSound, At, Entry
    <3> QED  BY <1>1, <1>2, <1>4, <1>5, <1>6, <2>1, <2>3, <3>1, <3>2, SerialMoved
  <2> QED  BY <1>12, <2>1, <2>2, <2>3 DEF CountFailures
<1>13. CASE BanClearsFailures(t)
  <2>1. /\ At(t, "unlist") /\ failed' = <<>> /\ banned' = banned /\ guesses' = guesses
        /\ req' = [NewList(req) EXCEPT ![t] = Idle]
    BY <1>13 DEF BanClearsFailures, historyVars
  <2>2. Idle.pc = "idle"
    BY DEF Idle
  <2>3. req'[t] = Idle /\ \A u \in Threads \ {t} : req'[u].pc = req[u].pc
    BY <1>7, <2>1
  <2>4. ~InLogin(t)'
    BY <2>2, <2>3 DEF InLogin, LoginSteps
  <2>5. Entry' = <<>> /\ SubSeq(guesses, Len(guesses) + 1, Len(guesses)) = <<>>
    BY <1>3, <2>1 DEF Entry
  <2>6. \A i \in 1..Len(guesses) : guesses[i] + Window =< banned
    <3>1. banned = req[t].at + BanTime /\ \A i \in 1..Len(guesses) : guesses[i] =< req[t].at
      BY <1>2, <2>1 DEF LoginSound, At
    <3>2. \A i \in 1..Len(guesses) : guesses[i] \in Nat
      BY <1>3
    <3>3. req[t].at \in Nat
      BY <1>3
    <3> QED  BY <3>1, <3>2, <3>3, Numbers
  <2>7. Forgotten(Len(guesses))' /\ Len(guesses) \in 0..Len(guesses')
    BY <1>3, <2>1, <2>5, <2>6 DEF Forgotten
  <2> QED  BY <1>1, <1>2, <1>6, <2>1, <2>2, <2>3, <2>4, <2>7, SerialMoved
<1>14. CASE Lookup(t)
  <2>1. /\ At(t, "lookup") /\ ~At(t, "unban")
        /\ UNCHANGED <<failed, banned, guesses>>
    BY <1>14 DEF Lookup, At, banVars, historyVars
  <2>2. Entry' = Entry
    BY <2>1 DEF Entry
  <2>3. \E k \in 0..Len(guesses') : Forgotten(k)'
    BY <1>4, <1>5, <2>1
  <2>4. CASE Refuse(t)
    BY <1>1, <1>2, <1>6, <1>8, <2>1, <2>3, <2>4, SerialMoved
  <2>5. ASSUME NEW pc \in {"fail", "clear"}, Goto(t, pc) PROVE Serial'
    <3>1. req'[t].pc = pc /\ req'[t].at = req[t].at
          /\ \A u \in Threads \ {t} : req'[u].pc = req[u].pc
      BY <1>9, <2>5
    <3>2. LoginSound(req[t])'
      BY <1>2, <2>1, <2>2, <3>1 DEF LoginSound, At
    <3> QED  BY <1>1, <1>2, <2>3, <3>1, <3>2, SerialMoved
  <2> QED  BY <1>6, <1>14, <2>1, <2>4, <2>5 DEF Lookup, Compare
<1>15. CASE FindList(t)
  <2> DEFINE r == [req[t] EXCEPT !.pc = "append", !.held = TRUE]
  <2>1. /\ At(t, "fail") /\ ~At(t, "unban") /\ failed' = Entry /\ UNCHANGED <<banned, guesses>>
        /\ req' = [req EXCEPT ![t] = r]
    BY <1>15 DEF FindList, At, historyVars
  <2>2. r.pc = "append" /\ r.at = req[t].at /\ r.held
    BY <1>3 DEF Requests
  <2> HIDE DEF r
  <2>3. req'[t] = r /\ \A u \in Threads \ {t} : req'[u].pc = req[u].pc
    BY <1>7, <2>1
  <2>4. failed' # NoEntry /\ Entry' = Entry
    BY <1>3, <2>1, IsNoEntry DEF Entry
  <2>5. LoginSound(req[t])'
    BY <1>2, <2>1, <2>2, <2>3, <2>4 DEF LoginSound, At
  <2>6. \E k \in 0..Len(guesses') : Forgotten(k)'
    BY <1>1, <1>4, <2>1, <2>4 DEF Forgotten
  <2> QED  BY <1>1, <1>2, <1>6, <2>1, <2>2, <2>3, <2>5, <2>6, SerialMoved
<1>16. CASE AppendFailure(t)
  <2>1. /\ At(t, "append") /\ ~At(t, "unban") /\ Refuse(t) /\ banned' = banned
        /\ failed # NoEntry /\ Entry = failed /\ Len(Entry) < Threshold /\ banned =< req[t].at
        /\ failed' = Append(failed, now) /\ guesses' = Append(guesses, now)
    BY <1>2, <1>16 DEF AppendFailure, LoginSound, At, Entry
  <2>2. failed' # NoEntry /\ Entry' = failed'
    <3>1. now \in 0..MaxTime
      BY TypeFacts
    <3>2. failed' \in Seq(0..MaxTime)
      BY <1>3, <2>1, <3>1
    <3> QED  BY <3>2, IsNoEntry DEF Entry
  <2>3. PICK k \in 0..Len(guesses) : Forgotten(k)
    BY <1>4, <2>1
  <2>4. /\ Entry = SubSeq(guesses, k + 1, Len(guesses))
        /\ Len(Entry) = Len(guesses) - k
        /\ \A i \in 1..k : guesses[i] + Window =< now
    <3>1. Entry = SubSeq(guesses, k + 1, Len(guesses))
          /\ \A i \in 1..k : guesses[i] + Window =< now \/ guesses[i] + Window =< banned
      BY <2>3 DEF Forgotten
    <3>2. Len(Entry) = Len(guesses) - k
      BY <1>3, <3>1
    <3>3. \A i \in 1..k : guesses[i] \in Nat
      BY <1>3
    <3>4. banned \in Nat /\ banned =< now
      BY <1>3, <2>1
    <3>5. \A i \in 1..k : guesses[i] + Window =< now
      BY <1>3, <3>1, <3>3, <3>4, Numbers
    <3> QED  BY <3>1, <3>2, <3>5
  <2>5. /\ Len(guesses') = Len(guesses) + 1
        /\ guesses'[Len(guesses) + 1] = now
        /\ \A i \in 1..Len(guesses) : guesses'[i] = guesses[i]
    BY <1>3, <2>1
  <2>6. Entry' = SubSeq(guesses', k + 1, Len(guesses'))
    BY <1>3, <2>1, <2>2, <2>4, <2>5
  <2>7. Forgotten(k)' /\ k \in 0..Len(guesses')
    <3>1. k \in 0..Len(guesses') /\ \A i \in 1..k : i \in 1..Len(guesses)
      BY <1>3, <2>5
    <3>2. \A i \in 1..k : guesses'[i] + Window =< now
      BY <2>4, <2>5, <3>1
    <3> QED  BY <1>1, <2>6, <3>1, <3>2 DEF Forgotten
  <2>8. GuessLimit'
    <3>1. ASSUME NEW i \in 1..(Len(guesses') - Threshold)
          PROVE  guesses'[i + Threshold] - guesses'[i] >= Window
      <4>1. CASE i + Threshold =< Len(guesses)
        <5>1. i \in 1..(Len(guesses) - Threshold) /\ i \in 1..Len(guesses)
              /\ i + Threshold \in 1..Len(guesses)
          BY <1>3, <4>1, Numbers
        <5>2. guesses[i + Threshold] - guesses[i] >= Window
          BY <1>2, <5>1 DEF GuessLimit
        <5> QED  BY <2>5, <5>1, <5>2
      <4>2. CASE i + Threshold = Len(guesses) + 1
        <5>1. i \in 1..k /\ i \in 1..Len(guesses)
          BY <2>1, <2>3, <2>4, <4>2, Numbers
        <5>2. guesses[i] \in Nat /\ guesses[i] + Window =< now
          BY <1>3, <2>4, <5>1
        <5>3. guesses'[i + Threshold] = now /\ guesses'[i] = guesses[i]
          BY <2>5, <4>2, <5>1
        <5> QED  BY <1>3, <5>2, <5>3, Numbers
      <4> QED  BY <2>5, <4>1, <4>2, Numbers
    <3> QED  BY <3>1 DEF GuessLimit
  <2> QED  BY <1>1, <1>2, <1>8, <2>1, <2>7, <2>8, SerialMoved
<1>17. CASE ClearFailures(t)
  <2> DEFINE r == [NewList(req)[t] EXCEPT !.pc = "unban"]
  <2>1. /\ req' = [NewList(req) EXCEPT ![t] = r]
        /\ failed' = NoEntry /\ banned' = banned /\ guesses' = guesses /\ At(t, "clear")
    BY <1>17 DEF ClearFailures, historyVars
  <2>2. r.pc = "unban" /\ r.at = req[t].at
    BY <1>3 DEF Requests, NewList
  <2> HIDE DEF r
  <2>3. req'[t] = r /\ \A u \in Threads \ {t} : req'[u].pc = req[u].pc
    BY <1>7, <2>1
  <2>4. LoginSound(req[t])'
    BY <1>2, <2>1, <2>2, <2>3 DEF LoginSound, At
  <2> QED  BY <1>1, <1>2, <1>6, <2>1, <2>2, <2>3, <2>4, SerialMoved
<1>18. CASE Accept(t)
  <2> DEFINE r == [Idle EXCEPT !.pc = "accepted", !.guess = req[t].guess, !.seen = req[t].seen]
  <2>1. /\ req' = [req EXCEPT ![t] = r]
        /\ failed' = failed /\ guesses' = <<>> /\ At(t, "unban")
    BY <1>18 DEF Accept, Finish
  <2>2. r.pc = "accepted"
    BY DEF Idle
  <2> HIDE DEF r
  <2>3. req'[t] = r /\ \A u \in Threads \ {t} : req'[u].pc = req[u].pc
    BY <1>7, <2>1
  <2>4. ~InLogin(t)'
    BY <2>2, <2>3 DEF InLogin, LoginSteps
  <2>5. Entry' = <<>>
    BY <1>2, <2>1 DEF LoginSound, At, Entry
  <2>6. Forgotten(0)' /\ 0 \in 0..Len(guesses')
    BY <2>1, <2>5 DEF Forgotten
  <2>7. GuessLimit'
    BY <2>1, Numbers DEF GuessLimit
  <2> QED  BY <1>1, <1>2, <2>2, <2>3, <2>4, <2>6, <2>7, SerialMoved
<1>19. CASE Forbid(t)
  <2>1. /\ req' = [req EXCEPT ![t] = Idle]
        /\ failed' = failed /\ guesses' = <<>> /\ At(t, "unban")
    BY <1>19 DEF Forbid, Refuse
  <2>2. Idle.pc = "idle"
    BY DEF Idle
  <2>3. req'[t] = Idle /\ \A u \in Threads \ {t} : req'[u].pc = req[u].pc
    BY <1>7, <2>1
  <2>4. ~InLogin(t)'
    BY <2>2, <2>3 DEF InLogin, LoginSteps
  <2>5. Entry' = <<>>
    BY <1>2, <2>1 DEF LoginSound, At, Entry
  <2>6. Forgotten(0)' /\ 0 \in 0..Len(guesses')
    BY <2>1, <2>5 DEF Forgotten
  <2>7. GuessLimit'
    BY <2>1, Numbers DEF GuessLimit
  <2> QED  BY <1>1, <1>2, <2>2, <2>3, <2>4, <2>6, <2>7, SerialMoved
<1> QED
  BY <1>10, <1>11, <1>12, <1>13, <1>14, <1>15, <1>16, <1>17, <1>18,
     <1>19 DEF Step

LEMMA SerialLogin ==
    ASSUME TypeIInv, TypeIInv', SerialIInv, NEW t \in Threads, Login(t)
    PROVE  SerialIInv'
<1>1. CASE overlapped'
  <2>1. guesses' = <<>>
    BY <1>1 DEF Login
  <2> QED  BY <1>1, <2>1, Numbers DEF SerialIInv, GuessLimit
<1>2. CASE ~overlapped'
  <2>1. /\ ~overlapped /\ \A u \in Threads : ~InLogin(u)
        /\ UNCHANGED <<now, failed, banned, guesses>> /\ Serial
    BY <1>2 DEF Login, banVars, InLogin, SerialIInv
  <2>2. GuessLimit'
    BY <1>2, <2>1 DEF SerialIInv, GuessLimit
  <2>3. CASE Refuse(t)
    <3>1. \A u \in Threads : \/ req'[u] = req[u]
                             \/ req'[u].pc = "idle" /\ ~At(u, "unban")
      BY <2>1, <2>3, TypeFacts DEF Refuse, Idle, InLogin, At, LoginSteps
    <3>2. now \in Nat /\ now =< now'
      BY <2>1, TypeFacts
    <3>3. Serial'
      BY <2>1, <3>1, <3>2, SerialFramed DEF LoginSteps, StaysOrEnds
    <3> QED  BY <2>2, <3>3 DEF SerialIInv
  <2>4. ASSUME NEW guess \in 0..changes, req' = [req EXCEPT ![t] = Request("read", guess)],
               banned =< now
        PROVE  SerialIInv'
    <3>1. Idle \in Requests
      BY TypeFacts, IdleFine DEF FineRequest
    <3>2. Request("read", guess).pc = "read" /\ Request("read", guess).at = now
      BY <3>1 DEF Request, Requests
    <3>3. req'[t] = Request("read", guess) /\ \A u \in Threads \ {t} : req'[u] = req[u]
      BY <2>4, TypeFacts
    <3>4. LoginSound(req[t])'
      <4>1. \A i \in 1..Len(guesses) : guesses[i] =< now
        BY TypeFacts DEF UpToNow
      <4> QED  BY <2>1, <2>4, <3>2, <3>3, <4>1 DEF LoginSound
    <3>5. \A u \in Threads : InLogin(u)' => u = t
      BY <2>1, <3>3 DEF InLogin
    <3>6. \A u \in Threads : ~At(u, "KeyError")'
      BY <2>1, <3>2, <3>3 DEF At, Serial
    <3>7. \E k \in 0..Len(guesses) : Forgotten(k)
      BY <2>1 DEF Serial, InLogin, At, LoginSteps
    <3>8. \E k \in 0..Len(guesses') : Forgotten(k)'
      BY <2>1, <3>7 DEF Forgotten, Entry
    <3>9. Serial'
      BY <3>4, <3>5, <3>6, <3>8 DEF Serial
    <3> QED  BY <2>2, <3>9 DEF SerialIInv
  <2> QED  BY <2>3, <2>4 DEF Login
<1> QED  BY <1>1, <1>2

\* The steps of the account, of the requests that tokens admit, and of the clock.
LEMMA SerialRest ==
    ASSUME TypeIInv, TypeIInv', SerialIInv,
           \/ \E t \in Threads : PresentToken(t) \/ Admit(t)
           \/ CreateUser \/ ResetPassword \/ SetActive \/ DeleteUser
           \/ Tick \/ UNCHANGED authVars
    PROVE  SerialIInv'
<1>1. /\ UNCHANGED <<failed, banned, guesses, overlapped>>
      /\ now =< now'
  <2>1. now \in Nat
    BY TypeFacts
  <2> QED  BY <2>1 DEF PresentToken, Admit, CreateUser, ResetPassword, SetActive, DeleteUser,
                       Writes, Tick, authVars, banVars, historyVars
<1>2. \A u \in Threads : StaysOrEnds(u)
  <2>1. Idle \in Requests /\ Idle.pc = "idle" /\ \A u \in Threads : req[u] \in Requests
    BY TypeFacts, IdleFine DEF FineRequest, Idle
  <2>2. ASSUME NEW t \in Threads, NEW r, req' = [req EXCEPT ![t] = r],
               r.pc \notin LoginSteps \cup {"KeyError"}, ~At(t, "unban")
        PROVE  \A u \in Threads : StaysOrEnds(u)
    BY <2>2, TypeFacts DEF StaysOrEnds
  <2>3. ASSUME NEW t \in Threads, PresentToken(t) PROVE \A u \in Threads : StaysOrEnds(u)
    <3>1. ~At(t, "unban")
      BY <2>3 DEF PresentToken, Begins, Busy, At, Outcomes
    <3>2. Request("admit", 0).pc = "admit"
      BY <2>1 DEF Request, Requests
    <3> QED  BY <2>1, <2>2, <2>3, <3>1, <3>2 DEF PresentToken, Refuse, LoginSteps
  <2>4. ASSUME NEW t \in Threads, Admit(t) PROVE \A u \in Threads : StaysOrEnds(u)
    <3>1. ~At(t, "unban")
      BY <2>4 DEF Admit, At
    <3>2. [Idle EXCEPT !.pc = "admitted", !.guess = req[t].guess, !.seen = req[t].seen].pc = "admitted"
      BY <2>1 DEF Requests
    <3> QED  BY <2>1, <2>2, <2>4, <3>1, <3>2 DEF Admit, Refuse, Finish, LoginSteps
  <2>5. ASSUME NEW r, Writes(r) PROVE \A u \in Threads : StaysOrEnds(u)
    <3>1. ASSUME NEW u \in Threads
          PROVE  /\ req'[u].pc = req[u].pc /\ req'[u].at = req[u].at
                 /\ req'[u].old = req[u].old /\ req'[u].held = req[u].held
      <4>1. req'[u] = [req[u] EXCEPT !.seen = @ \cup {r}] \/ req'[u] = req[u]
        BY <2>5 DEF Writes
      <4> QED  BY <2>1, <4>1 DEF Requests
    <3> QED  BY <3>1 DEF StaysOrEnds
  <2>6. CASE Tick \/ UNCHANGED authVars
    BY <2>6 DEF Tick, authVars, StaysOrEnds
  <2> QED  BY <2>3, <2>4, <2>5, <2>6 DEF CreateUser, ResetPassword, SetActive, DeleteUser
<1>3. GuessLimit'
  BY <1>1 DEF SerialIInv, GuessLimit
<1>4. ~overlapped' => Serial'
  BY <1>1, <1>2, SerialFramed DEF SerialIInv
<1> QED  BY <1>3, <1>4 DEF SerialIInv

LEMMA SerialInit == AuthInit => SerialIInv
<1> SUFFICES ASSUME AuthInit PROVE SerialIInv
  OBVIOUS
<1>1. Idle.pc = "idle" /\ \A t \in Threads : req[t] = Idle
  BY DEF AuthInit, Idle
<1>2. guesses = <<>> /\ Entry = <<>>
  BY DEF AuthInit, Entry
<1>3. Forgotten(0) /\ 0 \in 0..Len(guesses)
  BY <1>2 DEF Forgotten
<1>4. Serial
  BY <1>1, <1>3 DEF Serial, InLogin, At, LoginSteps
<1> QED  BY <1>2, <1>4, Numbers DEF SerialIInv, GuessLimit

LEMMA SerialNext == TypeIInv /\ TypeIInv' /\ SerialIInv /\ [AuthNext]_authVars => SerialIInv'
<1> SUFFICES ASSUME TypeIInv, TypeIInv', SerialIInv, [AuthNext]_authVars PROVE SerialIInv'
  OBVIOUS
<1>1. ASSUME NEW t \in Threads, Step(t), ~Admit(t) PROVE SerialIInv'
  <2>1. overlapped' = overlapped
    BY <1>1 DEF Step, ReadFailures, StoreFailures, CountFailures, BanClearsFailures, Lookup,
                FindList, AppendFailure, ClearFailures, Accept, Forbid,
                historyVars
  <2>2. CASE overlapped
    BY <2>1, <2>2 DEF SerialIInv, GuessLimit
  <2>3. CASE ~overlapped
    BY <1>1, <2>3, SerialStep DEF SerialIInv
  <2> QED  BY <2>2, <2>3
<1> QED  BY <1>1, SerialLogin, SerialRest DEF AuthNext

LEMMA SerialInv == AuthSpec => []SerialIInv
BY TypeInit, TypeNext, SerialInit, SerialNext, PTL DEF AuthSpec

\* fail2ban's promise, for any threshold, window and ban no shorter than the window: while
\* logins do not overlap, no more than Threshold passwords are tried without success within
\* any Window, although the list is cut, stored again, and emptied by the ban.
THEOREM GuessesAreLimited == AuthSpec => []GuessLimit
<1>1. SerialIInv => GuessLimit
  BY DEF SerialIInv
<1> QED  BY SerialInv, <1>1, PTL

\* _check_ban finds again the list it has just stored, unless another login has been under
\* way at the same time.
THEOREM KeyErrorNeedsOverlap == AuthSpec => []OnlyOverlapsRaiseKeyError
<1>1. SerialIInv => OnlyOverlapsRaiseKeyError
  BY DEF SerialIInv, Serial, OnlyOverlapsRaiseKeyError
<1> QED  BY SerialInv, <1>1, PTL
-----------------------------------------------------------------------------
(* The refinement of AccessControl *)

Simulated == [Access!Next]_(Access!accessVars)

LEMMA VisitIs ==
    ASSUME NEW r
    PROVE  /\ r.pc \in Unjudged => Visit(r) = [stage |-> "asking", guess |-> r.guess]
           /\ r.pc \in Judged => Visit(r) = Access!Stage("granted")
           /\ r.pc = "admit" => Visit(r) = Access!Stage("showing")
           /\ r.pc \in {"accepted", "admitted"} => Visit(r) = Access!Stage(r.pc)
           /\ r.pc \in {"idle", "KeyError", "unlist", "fail", "append"} =>
                  Visit(r) = Access!Stage("out")
BY DEF Visit, Unjudged, Judged, Access!Stage

LEMMA SameVisit ==
    ASSUME NEW r, NEW s, r.pc = s.pc, r.guess = s.guess
    PROVE  Visit(r) = Visit(s)
BY DEF Visit

\* A step of one thread is a step of one visitor.
LEMMA OneVisit ==
    ASSUME NEW t \in Threads, Others(t)
    PROVE  /\ Visits' = [Visits EXCEPT ![t] = Visit(req'[t])]
           /\ Visits[t] = Visit(req[t])
<1>1. \A u \in Threads \ {t} : Visit(req'[u]) = Visit(req[u])
  BY SameVisit DEF Others
<1> QED  BY <1>1 DEF Visits

\* Steps that the account does not care about.
LEMMA Waits ==
    ASSUME NEW t \in Threads, Others(t), UNCHANGED <<now, tokens>>,
           Visit(req'[t]) = Visit(req[t])
    PROVE  Simulated
<1>1. Visits' = Visits
  BY OneVisit DEF Visits
<1>2. row' = row
  BY DEF Others
<1> QED  BY <1>1, <1>2 DEF Simulated, Access!accessVars

LEMMA Leaves ==
    ASSUME NEW t \in Threads, Others(t), UNCHANGED <<now, tokens>>,
           Visit(req'[t]) = Access!Stage("out")
    PROVE  Simulated
<1>1. Access!TurnAway(t)
  BY OneVisit DEF Access!TurnAway, Access!Becomes, Others
<1> QED  BY <1>1 DEF Simulated, Access!Next

LEMMA RefusedLeaves ==
    ASSUME AuthIInv, NEW t \in Threads, Refuse(t), UNCHANGED <<now, row, tokens>>
    PROVE  Simulated
<1>1. Others(t) /\ req'[t].pc = "idle"
  BY DEF Refuse, Others, AuthIInv, Shape, IsRequest, Idle
<1> QED  BY <1>1, Leaves, VisitIs

LEMMA EndedStage ==
    ASSUME NEW r, r.pc \in Outcomes
    PROVE  Visit(r).stage \in Access!Ended
BY DEF Outcomes, Visit, Unjudged, Judged, Access!Ended

LEMMA BegunVisit ==
    ASSUME AuthIInv, NEW t \in Threads, NEW pc \in {"read", "admit"}, NEW guess,
           req' = [req EXCEPT ![t] = Request(pc, guess)], row' = row
    PROVE  Others(t) /\ req'[t].pc = pc /\ req'[t].guess = guess
BY DEF Others, AuthIInv, Shape, IsRequest, Idle, Request

LEMMA LoginSimulated ==
    ASSUME AuthIInv, TypeIInv, NEW t \in Threads, Login(t)
    PROVE  Simulated
<1>1. UNCHANGED <<now, row, tokens>> /\ req[t].pc \in Outcomes
  BY DEF Login, Begins, Busy, dbVars
<1>2. CASE Refuse(t)
  BY <1>1, <1>2, RefusedLeaves
<1>3. ASSUME NEW guess \in 0..changes, req' = [req EXCEPT ![t] = Request("read", guess)]
      PROVE  Simulated
  <2>1. Others(t) /\ Visit(req'[t]) = [stage |-> "asking", guess |-> guess]
    <3>1. Others(t) /\ req'[t].pc = "read" /\ req'[t].guess = guess
      BY <1>1, <1>3, BegunVisit
    <3> QED  BY <3>1, VisitIs DEF Unjudged
  <2>2. guess \in Passwords
    BY Numbers DEF TypeIInv, AuthTypeOK, Passwords
  <2>3. Access!Ask(t)
    BY <1>1, <2>1, <2>2, OneVisit, EndedStage DEF Access!Ask
  <2> QED  BY <2>3 DEF Simulated, Access!Next
<1> QED  BY <1>2, <1>3 DEF Login

LEMMA PresentTokenSimulated ==
    ASSUME AuthIInv, NEW t \in Threads, PresentToken(t)
    PROVE  Simulated
<1>1. UNCHANGED <<now, row, tokens>> /\ req[t].pc \in Outcomes
  BY DEF PresentToken, Begins, Busy, dbVars
<1>2. CASE Refuse(t)
  BY <1>1, <1>2, RefusedLeaves
<1>3. ASSUME NEW expires \in tokens, now <= expires,
             req' = [req EXCEPT ![t] = Request("admit", 0)]
      PROVE  Simulated
  <2>1. Others(t) /\ Visit(req'[t]) = Access!Stage("showing")
    BY <1>1, <1>3, BegunVisit, VisitIs
  <2>2. Access!Show(t)
    BY <1>1, <1>3, <2>1, OneVisit, EndedStage DEF Access!Show, Access!Becomes
  <2> QED  BY <2>2 DEF Simulated, Access!Next
<1> QED  BY <1>2, <1>3 DEF PresentToken

LEMMA StepSimulated ==
    ASSUME AuthIInv, TypeIInv, NEW t \in Threads, Step(t)
    PROVE  Simulated
<1>1. UNCHANGED <<now, row>> /\ (~Accept(t) => tokens' = tokens)
  BY DEF Step, ReadFailures, StoreFailures, CountFailures, BanClearsFailures, Lookup,
         FindList, AppendFailure, ClearFailures, Accept, Forbid, Admit,
         dbVars
<1>2. CASE ReadFailures(t)
  <2>1. PICK old : req' = [req EXCEPT ![t].pc = "store", ![t].old = old]
    BY <1>2, Zenon DEF ReadFailures
  <2>2. Others(t) /\ Keeps(t, "store")
    BY <1>1, <2>1 DEF Others, Keeps, AuthIInv, Shape, IsRequest
  <2>3. Visit(req'[t]) = Visit(req[t])
    BY <1>2, <2>2, VisitIs DEF Keeps, ReadFailures, At, Unjudged
  <2>4. UNCHANGED <<now, tokens>>
    BY <1>2 DEF ReadFailures
  <2> QED  BY <2>2, <2>3, <2>4, Waits
<1>3. CASE StoreFailures(t)
  <2>1. req' = [NewList(req) EXCEPT ![t].pc = "count", ![t].old = <<>>]
    BY <1>3 DEF StoreFailures
  <2>2. Others(t) /\ Keeps(t, "count")
    BY <1>1, <2>1, NewLists DEF Others, Keeps, IsRequest
  <2>3. Visit(req'[t]) = Visit(req[t])
    BY <1>3, <2>2, VisitIs DEF Keeps, StoreFailures, At, Unjudged
  <2>4. UNCHANGED <<now, tokens>>
    BY <1>3 DEF StoreFailures
  <2> QED  BY <2>2, <2>3, <2>4, Waits
<1>4. CASE CountFailures(t)
  <2>1. UNCHANGED <<now, tokens>> /\ req[t].pc = "count"
    BY <1>4 DEF CountFailures, At
  <2>2. CASE Finish(t, "KeyError")
    BY <1>1, <2>1, <2>2, Ended, Leaves, VisitIs DEF Keeps
  <2>3. CASE Goto(t, "unlist")
    BY <1>1, <2>1, <2>3, Went, Leaves, VisitIs DEF Keeps
  <2>4. CASE Goto(t, "lookup")
    <3>1. Others(t) /\ Keeps(t, "lookup")
      BY <1>1, <2>4, Went
    <3>2. Visit(req'[t]) = Visit(req[t])
      BY <2>1, <3>1, VisitIs DEF Keeps, Unjudged
    <3> QED  BY <2>1, <3>1, <3>2, Waits
  <2> QED  BY <1>4, <2>2, <2>3, <2>4 DEF CountFailures
<1>5. CASE BanClearsFailures(t)
  <2>1. Others(t) /\ req'[t].pc = "idle"
    BY <1>1, <1>5, NewLists DEF BanClearsFailures, Others, IsRequest, Idle
  <2>2. UNCHANGED <<now, tokens>> /\ req[t].pc = "unlist"
    BY <1>5 DEF BanClearsFailures, At
  <2> QED  BY <2>1, <2>2, Leaves, VisitIs
<1>6. CASE Lookup(t)
  <2>1. UNCHANGED <<now, tokens>> /\ req[t].pc = "lookup"
    BY <1>6 DEF Lookup, At
  <2>2. CASE Goto(t, "fail")
    BY <1>1, <2>1, <2>2, Went, Leaves, VisitIs DEF Keeps
  <2>3. CASE row.active /\ ~AccountExpired /\ req[t].guess = row.pw /\ Goto(t, "clear")
    <3>1. Others(t) /\ Visit(req'[t]) = Access!Stage("granted")
      BY <1>1, <2>3, Went, VisitIs DEF Keeps, Judged
    <3>2. Visits[t] = [stage |-> "asking", guess |-> req[t].guess]
      BY <2>1, <3>1, OneVisit, VisitIs DEF Unjudged
    <3>3. row.expires >= now
      <4>1. row \in Rows /\ now \in Nat
        BY TypeFacts DEF TypeIInv, AuthTypeOK
      <4>2. row.expires \in Nat
        <5>1. row = NoRow \/ row.expires \in Expiries
          BY <4>1 DEF Rows
        <5>2. NoRow.expires \in Nat
          BY DEF NoRow
        <5> QED  BY <5>1, <5>2, Numbers
      <4> QED  BY <2>3, <4>1, <4>2 DEF AccountExpired
    <3>4. Access!Grant(t)
      BY <1>1, <2>1, <2>3, <3>1, <3>2, <3>3, OneVisit DEF Access!Grant, Access!Becomes
    <3> QED  BY <3>4 DEF Simulated, Access!Next
  <2>4. CASE Refuse(t)
    BY <1>1, <2>1, <2>4, RefusedLeaves
  <2> QED  BY <1>6, <2>2, <2>3, <2>4 DEF Lookup, Compare
<1>7. CASE FindList(t)
  <2>1. Others(t) /\ Keeps(t, "append")
    BY <1>1, <1>7 DEF FindList, Others, Keeps, AuthIInv, Shape, IsRequest
  <2>2. UNCHANGED <<now, tokens>> /\ req[t].pc = "fail"
    BY <1>7 DEF FindList, At
  <2> QED  BY <2>1, <2>2, Leaves, VisitIs DEF Keeps
<1>8. CASE AppendFailure(t)
  <2>1. UNCHANGED <<now, row, tokens>> /\ req[t].pc = "append" /\ Refuse(t)
    BY <1>1, <1>8 DEF AppendFailure, At
  <2> QED  BY <2>1, RefusedLeaves
<1>9. CASE ClearFailures(t)
  <2>1. Others(t) /\ Keeps(t, "unban")
    BY <1>1, <1>9, NewLists DEF ClearFailures, Others, Keeps, IsRequest
  <2>2. Visit(req'[t]) = Visit(req[t])
    BY <1>9, <2>1, VisitIs DEF Keeps, ClearFailures, At, Judged
  <2>3. UNCHANGED <<now, tokens>>
    BY <1>9 DEF ClearFailures
  <2> QED  BY <2>1, <2>2, <2>3, Waits
<1>10. CASE Accept(t)
  <2>1. Others(t) /\ Visit(req'[t]) = Access!Stage("accepted")
    BY <1>1, <1>10, Ended, VisitIs DEF Accept, Keeps
  <2>2. Visits[t].stage = "granted"
    BY <1>10, <2>1, OneVisit, VisitIs DEF Accept, At, Judged, Access!Stage
  <2>3. tokens' = tokens \cup {now + TTL}
    BY <1>10 DEF Accept
  <2>4. Access!Enter(t)
    BY <1>1, <2>1, <2>2, <2>3, OneVisit DEF Access!Enter, Access!Becomes
  <2> QED  BY <2>4 DEF Simulated, Access!Next
<1>12. CASE Forbid(t)
  <2>1. UNCHANGED <<now, row, tokens>> /\ Refuse(t)
    BY <1>1, <1>12 DEF Forbid
  <2> QED  BY <2>1, RefusedLeaves
<1>11. CASE Admit(t)
  <2>1. UNCHANGED <<now, row, tokens>> /\ req[t].pc = "admit"
    BY <1>1, <1>11 DEF Admit, At
  <2>2. CASE row.active /\ Finish(t, "admitted")
    <3>1. Others(t) /\ Visit(req'[t]) = Access!Stage("admitted")
      BY <2>1, <2>2, Ended, VisitIs DEF Keeps
    <3>2. Visits[t].stage = "showing"
      BY <2>1, <3>1, OneVisit, VisitIs DEF Access!Stage
    <3>3. Access!Admit(t)
      BY <2>1, <2>2, <3>1, <3>2, OneVisit DEF Access!Admit, Access!Becomes
    <3> QED  BY <3>3 DEF Simulated, Access!Next
  <2> QED  BY <1>11, <2>1, <2>2, RefusedLeaves DEF Admit
<1> QED
  BY <1>2, <1>3, <1>4, <1>5, <1>6, <1>7, <1>8, <1>9, <1>10, <1>11, <1>12
     DEF Step

LEMMA WritesSimulated ==
    ASSUME AuthIInv, TypeIInv', NEW r, Writes(r)
    PROVE  Simulated
<1>1. /\ UNCHANGED <<now, tokens>>
      /\ req' = [t \in Threads |->
                   IF Busy(t) THEN [req[t] EXCEPT !.seen = @ \cup {r}] ELSE req[t]]
  BY DEF Writes
<1>2. ASSUME NEW t \in Threads PROVE Visit(req'[t]) = Visit(req[t])
  <2>1. req'[t].pc = req[t].pc /\ req'[t].guess = req[t].guess
    BY <1>1 DEF AuthIInv, Shape, IsRequest
  <2> QED  BY <2>1, SameVisit
<1>3. Visits' = Visits
  BY <1>2 DEF Visits
<1>4. row' \in Rows
  BY DEF TypeIInv, AuthTypeOK
<1>5. Access!Change
  BY <1>1, <1>3, <1>4 DEF Access!Change
<1> QED  BY <1>5 DEF Simulated, Access!Next

LEMMA AccessInit == AuthInit => Access!Init
<1>1. Visit(Idle) = Access!Stage("out")
  BY VisitIs DEF Idle
<1> QED  BY <1>1 DEF AuthInit, Access!Init, Visits

LEMMA AccessStep ==
    AuthIInv /\ TypeIInv /\ TypeIInv' /\ [AuthNext]_authVars => [Access!Next]_(Access!accessVars)
<1> SUFFICES ASSUME AuthIInv, TypeIInv, TypeIInv', [AuthNext]_authVars PROVE Simulated
  BY DEF Simulated
<1>1. ASSUME NEW t \in Threads, Login(t) \/ PresentToken(t) \/ Step(t) PROVE Simulated
  BY <1>1, LoginSimulated, PresentTokenSimulated, StepSimulated
<1>2. CASE CreateUser \/ ResetPassword \/ SetActive \/ DeleteUser
  BY <1>2, WritesSimulated DEF CreateUser, ResetPassword, SetActive, DeleteUser
<1>3. CASE Tick
  <2>1. Access!Pass
    BY <1>3 DEF Tick, Access!Pass, dbVars, Visits
  <2> QED  BY <2>1 DEF Simulated, Access!Next
<1>4. CASE UNCHANGED authVars
  BY <1>4 DEF Simulated, Access!accessVars, Visits, authVars
<1> QED  BY <1>1, <1>2, <1>3, <1>4 DEF AuthNext

\* Cut into steps and interleaved with each other and the administrator, logins and requests
\* look to everybody else as if each were judged at one moment: by an account that was active,
\* before its expiry date and had that password, or by an active account and a good token.
THEOREM AuthImplementsAccess == AuthSpec => AccessSpec
<1> QED
  BY AccessInit, AccessStep, AuthInitInv, AuthStepInv, TypeInit, TypeNext, PTL
  DEF AuthSpec, AccessSpec, Access!Spec
=============================================================================
