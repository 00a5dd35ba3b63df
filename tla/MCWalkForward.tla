---------------------------- MODULE MCWalkForward ----------------------------
(* Instances of WalkForward for TLC: months of three and four days, years of *)
(* two months, backtests that start at the beginning or the end of a month.  *)
EXTENDS WalkForward

ShortMonths == <<1, 5, 8, 12, 15, 19, 22, 26, 29, 33>>

\* All days but every third, and a holiday.
Weekdays == {d \in 1..30 : d % 3 # 0} \ {14}

Backtests == {[start |-> 1, end |-> 17], [start |-> 2, end |-> 17], [start |-> 4, end |-> 17]}

\* A ticker has a feature from the start, after the warm-up, or never; one may not vary.
SomeData == {[since |-> <<a, b>>, flat |-> flat] :
               a, b \in [{1, 2} -> {0, 8, 99}], flat \in {{}, {2}}}
=============================================================================
