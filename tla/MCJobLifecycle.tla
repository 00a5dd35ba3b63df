--------------------------- MODULE MCJobLifecycle ---------------------------
(* Instances of JobLifecycle for TLC: which request asks for which strategy. *)
EXTENDS JobLifecycle

CONSTANTS r1, r2, s1, s2

\* Two requests race for the first row of one strategy.
SameStrategy == [r \in Requests |-> s1]

\* Two requests of different strategies.
OwnStrategy == [r \in Requests |-> IF r = r1 THEN s1 ELSE s2]
=============================================================================
