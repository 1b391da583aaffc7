\* Two subscribers, a history of two samples and room for one line: a replay spans a
\* broadcast, and samples leave the history before they are replayed.
SPECIFICATION FairMonitorSpec
CONSTANTS
    Subs = {s1, s2}
    HistorySize = 2
    Room = 1
    MaxSamples = 3
INVARIANTS MonitorTypeOK NoGap
PROPERTIES EverySampleDelivered ClosedForgotten
\* The bounds end every behaviour.
CHECK_DEADLOCK FALSE
