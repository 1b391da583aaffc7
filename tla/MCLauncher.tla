----------------------------- MODULE MCLauncher -----------------------------
(* A small instance of Launcher, whose terminals are interchangeable. *)
EXTENDS Launcher, TLC

Terminals == Permutations(Cmds)

\* Passwords that are too short, or that the shell misreads, are followed as long as commands
\* do not overlap, and overlapping commands with passwords that are neither: both at once are
\* too many states for TLC.
Explored ==
    overlaps => {Short, Special} \cap
                    ({file.pass, db} \cup UNION {{cmd[c].typed, cmd[c].pass} : c \in Cmds}) = {}
=============================================================================
