\* Two threads, four requests, two changes to the account, a ban after two failures, and a clock
\* that runs past the window, the ban, the tokens and one of the expiry dates.
SPECIFICATION AuthSpec
CONSTANTS
    Threads = {t1, t2}
    Threshold = 2
    Window = 2
    BanTime = 2
    TTL = 1
    Expiries = {1, 9}
    MaxTime = 2
    MaxChanges = 2
    MaxRequests = 4
SYMMETRY MCThreads
INVARIANTS AuthTypeOK GuessLimit AcceptsCurrentPassword AdmitsActiveOnly
    OnlyOverlapsRaiseKeyError
PROPERTY AccessSpec
\* The bounds end every behaviour.
CHECK_DEADLOCK FALSE
