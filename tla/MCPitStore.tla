----------------------------- MODULE MCPitStore -----------------------------
(* Instances of PitStore for TLC: quarters of two days, years of two quarters. *)
EXTENDS PitStore, TLC

CONSTANTS f1, f2

\* The runs are interchangeable.
Symmetry == Permutations(Flows)
=============================================================================
