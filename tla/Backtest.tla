------------------------------ MODULE Backtest ------------------------------
(***************************************************************************)
(* The engine composed with a strategy (azureus/strategies): the benchmark *)
(* EqualWeightedHSIBenchmark, the factor strategies (MultiFactorV1Strategy *)
(* and GBMFactorsV1Strategy) with equal weights, or any strategy whose     *)
(* weights are not negative and add up to 1 at most.                       *)
(***************************************************************************)
EXTENDS BacktestEngine

CONSTANT Strategies       \* of {"any", "equal_weight", "factor"}

VARIABLE strategy         \* the strategy of this backtest

ASSUME StrategyAssumption == Strategies \subseteq {"any", "equal_weight", "factor"}

\* ctx.as_of_date and ctx.universe: one day of signal lag.
AsOf     == PreviousTradingDay(clock)
Universe == Members[AsOf]

\* Weights of some members, in halves, that add up to 1 at most.  A portfolio worth less than
\* nothing makes notionals below zero of them.
AnyTargets ==
  LET weights == {w \in UNION {[S -> 0..2] : S \in SUBSET Universe} : SumFunction(w) <= 2}
  IN  {[t \in DOMAIN w |-> (w[t] * TotalValue) \div 2] : w \in weights}

\* _available_tickers: a close at the signal date and enough positive volume before.
Available ==
  {t \in Universe : /\ AsOf \in DOMAIN bars
                    /\ bars[AsOf][t] # NoBar
                    /\ Cardinality(Traded(t, AsOf - Lookback, AsOf)) >= MinObs
                    /\ MedianPositive(t, AsOf - Lookback, AsOf)}

\* Held members that cannot be traded keep their current weight, if there are weights:
\* Portfolio.weights is empty when the portfolio is worth nothing or less.
Frozen == {t \in Universe \intersect Held : t \notin Available /\ TotalValue > 0}

\* Mutant: members that cannot be traded are sold like any other exit.
EqualWeight_NoFreeze == [t \in Available |-> TotalValue \div Cardinality(Available)]

\* What is not frozen is shared, max(1 - frozen, 0) of the value; all of it, and be it below
\* zero, when nothing is frozen.
EqualWeight ==
  LET kept   == SumFunction([t \in Frozen |-> MarketValue(t)])
      budget == IF TotalValue > 0 /\ kept > TotalValue THEN 0 ELSE TotalValue - kept
  IN  [t \in Available \union Frozen |->
         IF t \in Frozen THEN MarketValue(t) ELSE budget \div Cardinality(Available)]

\* _liquid_tickers counts the days with a positive volume, and takes the median turnover of
\* those days only; the threshold on it may leave out any of them.
Liquid == {t \in Universe : Cardinality(Traded(t, AsOf - Lookback, AsOf)) >= MinObs}

\* The selected tickers share the portfolio; nothing is frozen.
FactorTargets == {[t \in S |-> TotalValue \div Cardinality(S)] : S \in SUBSET Liquid}

Ask == /\ AsOf # NoDate
       /\ \/ strategy = "any" /\ \E target \in AnyTargets : Rebalance(target)
          \/ strategy = "equal_weight" /\ Rebalance(EqualWeight)
          \/ strategy = "factor" /\ \E target \in FactorTargets : Rebalance(target)

StrategyInit == Init /\ strategy \in Strategies

Next == \/ Step /\ UNCHANGED strategy
        \/ Ask /\ UNCHANGED strategy
        \/ Returned /\ UNCHANGED strategy

Spec == StrategyInit /\ [][Next]_<<vars, strategy>>

---------------------------------------------------------------------------
\* The benchmark keeps the position of a frozen member, a rounding bit apart: it never
\* makes the engine liquidate what has no volume to price the slippage with.
FrozenIsKept ==
  strategy = "equal_weight" /\ phase = "trade" =>
    \A tr \in pending : tr.ticker \in Frozen => tr.shares = 0

\* A factor strategy trades nothing that the engine has no volume to price with
\* (azureus/backtesting/cost_model.py:68: 'illiquid names should be excluded upstream by the
\* strategy's liquidity filter').
FilterSuffices == strategy = "factor" => phase # "no_volume"
=============================================================================
