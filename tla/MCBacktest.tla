----------------------------- MODULE MCBacktest -----------------------------
(* Instances of Backtest, with its results, for TLC. *)
EXTENDS Results

\* Ticker 2 leaves the index on day 3.
LeavesTwo == [d \in 0..20 |-> IF d < 3 THEN Tickers ELSE Tickers \ {2}]

\* No row, a traded day, and a dearer day without a trade.  The price multiplies, and the rates
\* of the .cfg are far above those of a market, so that a few days may cost more than there is.
FewBars == {NoBar, [close |-> 1, volume |-> "positive"], [close |-> 4, volume |-> "zero"]}

\* Nobody leaves.
AllMembers == [d \in 0..20 |-> Tickers]
=============================================================================
