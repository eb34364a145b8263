--------------------------- MODULE MCAutonomousLoop ---------------------------
(* Model-checking instance of AutonomousLoop: one user's watch loop,       *)
(* background loop and conversation turn; only w1 is given actions.        *)
EXTENDS AutonomousLoop, TLC

CONSTANTS u1, w1, b1, c1

MCUserOf == [l \in Requests |-> u1]

MCRounds == [l \in Requests |-> IF l = w1 THEN 2 ELSE 0]

MCShortRounds == [l \in Requests |-> 1]
===============================================================================
