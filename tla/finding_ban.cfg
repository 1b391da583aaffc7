\* Two threads, four requests: a login that was under way when the ban was set.
SPECIFICATION AuthSpec
CONSTANTS
    Threads = {t1, t2}
    Threshold = 2
    Window = 2
    BanTime = 2
    TTL = 1
    Expiries = {1, 9}
    MaxTime = 2
    MaxChanges = 2
    MaxRequests = 4
PROPERTIES BanHolds
CHECK_DEADLOCK FALSE
