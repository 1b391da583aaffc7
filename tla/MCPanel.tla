------------------------------ MODULE MCPanel ------------------------------
(* Panel on a small instance: the tabs are one browser's, and interchangeable. *)
EXTENDS Panel, TLC

CONSTANTS admin, dotted, b1

MCDots == [n \in {admin, dotted} |-> IF n = dotted THEN 1 ELSE 0]
MCOwner == [t \in Tabs |-> b1]
MCTabs == Permutations(Tabs)
=============================================================================
