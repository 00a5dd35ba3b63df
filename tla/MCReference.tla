----------------------------- MODULE MCReference -----------------------------
(* Instances of ReferenceData for TLC. *)
EXTENDS ReferenceData, TLC

CONSTANTS n1, n2, r1

\* A file with one ticker, and one with both.
Files == {1 :> n1, [t \in {1, 2} |-> n2]}

Member1 == [ticker |-> 1, start |-> 1, end |-> Open]
Member2 == [ticker |-> 2, start |-> 2, end |-> Open]

\* An index of one; of two; the second leaves; the start of the first is corrected.
Editions == {{Member1}, {Member1, Member2}, {Member1, [Member2 EXCEPT !.end = 2]},
             {[Member1 EXCEPT !.start = 2], Member2}}

\* All tickers, a ticker that may be unknown, and one twice.
AskedFor == {<<>>, <<2>>, <<1, 1>>}
=============================================================================
