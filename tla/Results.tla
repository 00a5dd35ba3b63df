------------------------------- MODULE Results -------------------------------
(***************************************************************************)
(* What a result says of the worst fall of a backtest's equity              *)
(* (azureus/backtesting/results.py, metrics.py), over the equity curves     *)
(* that the engine produces.                                               *)
(***************************************************************************)
EXTENDS Backtest

\* The column total_value of _equity_curve_from_portfolio.
Equity == [i \in DOMAIN history |-> history[i].value]

\* Mutant: the highest value of the whole curve, as if it were known.
Peak_Whole(i) == Max({Equity[j] : j \in DOMAIN history})

\* The running peak.
Peak(i) == Max({Equity[j] : j \in 1..i})

\* The drawdown of row i is below that of row j: Equity / Peak, as integers.
Deeper(i, j) == Equity[i] * Peak(j) < Equity[j] * Peak(i)

\* max_drawdown_with_duration: the first row of the deepest drawdown, the first row of the
\* highest value up to it, and the first row after it that is back at that value.
Trough   == Min({i \in DOMAIN history : \A j \in DOMAIN history : ~Deeper(j, i)})
PeakRow  == Min({i \in 1..Trough : \A j \in 1..Trough : Equity[j] <= Equity[i]})
Regained == {i \in Trough + 1..Len(history) : Equity[i] >= Equity[PeakRow]}

Drawdown ==
  LET end == IF Regained = {} THEN Len(history) ELSE Min(Regained)
  IN  IF Equity[Trough] = Peak(Trough)
      THEN [value |-> Equity[1], of |-> Equity[1], peak |-> 1, trough |-> 1, end |-> 1,
            days |-> 0]
      ELSE [value |-> Equity[Trough], of |-> Equity[PeakRow], peak |-> PeakRow,
            trough |-> Trough, end |-> end, days |-> history[end].day - history[PeakRow].day]

\* Rows of a portfolio that is never worth less than nothing.
NoDebt == \A i \in DOMAIN history : history[i].value >= 0

\* In a backtest without debt (a part of less than nothing is no measure of a loss), no
\* purchase and later sale of the whole portfolio would have lost a larger part than the
\* reported depth; and from the reported peak to the reported end the equity is never above
\* that peak, and back at it at the end, unless the backtest ends before.
DrawdownIsWorst ==
  phase = "done" /\ history # <<>> /\ NoDebt =>
    LET fall == Drawdown
    IN  /\ \A i, j \in DOMAIN history :
             i <= j => Equity[j] * fall.of >= fall.value * Equity[i]
        /\ fall.peak <= fall.trough /\ fall.trough <= fall.end
        /\ \A i \in fall.peak..(fall.end - 1) : Equity[i] <= fall.of
        /\ fall.end < Len(history) => Equity[fall.end] >= fall.of
=============================================================================
