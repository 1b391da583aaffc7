\* Two terminals: a command while another one is under way.  Two names: the password and
\* secret of the first start, and a password that is typed or drawn later.  Two servers: the
\* second is the first one's restart.  One interruption, anywhere.  Explored: short passwords and
\* those the shell misreads only while commands do not overlap.
SPECIFICATION LauncherSpec
SYMMETRY Terminals
CONSTRAINT Explored
CONSTANTS
    Cmds = {c1, c2}
    MaxMinted = 2
    MaxPids = 2
    MaxCrashes = 1
INVARIANTS LauncherTypeOK SummaryTrue SummaryNamesServer TokensSurvive StopStops
\* The bounds end every behaviour.
CHECK_DEADLOCK FALSE
