--------------------------- MODULE BacktestEngine ---------------------------
(***************************************************************************)
(* One backtest: BacktestEngine.run drives a strategy through a Portfolio, *)
(* charging HKCostModel (azureus/backtesting).  The database holds every   *)
(* bar before the run starts; the model draws the bars of a session when   *)
(* the clock reaches it, since neither engine nor strategy reads a later   *)
(* one.  The strategy is any strategy: EqualWeightBenchmark restricts it.  *)
(*                                                                         *)
(* Money and shares are floats in the code and whole quanta here, target   *)
(* shares rounded down.  A difference below a quantum is not always zero:  *)
(* weight * value / price may miss the share count it came from by a bit   *)
(* of the float, and the engine then trades that bit (see Diff).           *)
(***************************************************************************)
EXTENDS TradingCalendar, Sequences

CONSTANTS NumTickers,     \* tickers are numbered in the order of their symbols
          Members,        \* [Nat -> SUBSET Tickers]: get_universe by date
          Start, End,     \* BacktestConfig.start and .end
          Schedules,      \* the date sets that strategy.rebalance_dates may return
          InitialCash,
          Bars,           \* bound: the rows of prices that occur
          Lookback,       \* _MDV_LOOKBACK_CALENDAR_DAYS, and the strategies' 45 days
          MinObs,         \* _MDV_MIN_OBSERVATIONS, and the strategies' 5 observations
          FeeRate,        \* cost of a trade, in hundredths of its notional
          StampRate       \* stamp duty of a sale, likewise

Tickers == 1..NumTickers

\* A row of prices, or none: the close is never null, the volume may be.
Volumes == {"null", "zero", "positive"}
Prices  == Nat \ {0}
NoBar   == [close |-> 0, volume |-> "null"]

ASSUME EngineAssumption == /\ NumTickers \in Nat
                           /\ \A d \in LibrarySessions : Members[d] \subseteq Tickers
                           /\ Start \in Nat /\ End \in Nat
                           /\ \A dates \in Schedules : dates \subseteq Nat
                           /\ InitialCash \in Nat
                           /\ Bars \subseteq {NoBar} \union [close : Prices, volume : Volumes]
                           /\ Lookback \in Nat /\ MinObs \in Nat \ {0}
                           /\ FeeRate \in Nat /\ StampRate \in Nat

VARIABLES clock,          \* the last session whose bars are known
          bars,           \* [session -> [Tickers -> Bars]]: table prices, up to clock
          phase,          \* where the loop of run() is
          rebalanceDays,  \* set computed before the loop
          cash,           \* Portfolio._cash
          shares,         \* Portfolio._holdings: share counts (0: not held) ...
          marks,          \* ... and the last price of each position
          history,        \* Portfolio._history: the snapshots
          ledger,         \* executed trades, in order
          pending         \* trades of this rebalance still to execute

vars == <<clock, bars, phase, rebalanceDays, cash, shares, marks, history, ledger, pending>>

Trade    == [ticker : Tickers, shares : Int]
Executed == [ticker : Tickers, day : Nat, shares : Int, price : Prices, cost : Nat]
Snapshot == [day : Nat, cash : Int, value : Int, shares : [Tickers -> Nat]]

Phases == {"new", "data", "mark", "ask", "trade", "snapshot", "done",
           "no_session", "no_mark", "no_volume", "short_sale"}
Raised == {"no_session", "no_mark", "no_volume", "short_sale"}

TypeOK == /\ clock \in {0} \union LibrarySessions
          /\ DOMAIN bars \subseteq LibrarySessions
          /\ \A d \in DOMAIN bars : bars[d] \in [Tickers -> Bars]
          /\ phase \in Phases
          /\ rebalanceDays \subseteq LibrarySessions
          /\ cash \in Int
          /\ shares \in [Tickers -> Nat]
          /\ marks \in [Tickers -> Nat]
          /\ history \in Seq(Snapshot)
          /\ ledger \in Seq(Executed)
          /\ pending \subseteq Trade

Init == /\ clock = 0
        /\ bars = <<>>
        /\ phase = "new"
        /\ rebalanceDays = {}
        /\ cash = InitialCash
        /\ shares = [t \in Tickers |-> 0]
        /\ marks = [t \in Tickers |-> 0]
        /\ history = <<>>
        /\ ledger = <<>>
        /\ pending = {}

---------------------------------------------------------------------------
(* Portfolio views.                                                        *)

Held == {t \in Tickers : shares[t] # 0}

MarketValue(t) == shares[t] * marks[t]

TotalValue == cash + SumFunction([t \in Tickers |-> MarketValue(t)])

Priced == {t \in Tickers : bars[clock][t] # NoBar}

Close(t) == bars[clock][t].close

---------------------------------------------------------------------------
(* Volumes.                                                                *)

\* The sessions of [first, last] that have a row with a volume for the ticker.
Observed(t, first, last) ==
  {d \in DOMAIN bars : first <= d /\ d <= last /\ bars[d][t].volume # "null"}

Traded(t, first, last) == {d \in Observed(t, first, last) : bars[d][t].volume = "positive"}

\* A median is positive when at least half of the observations are.
MedianPositive(t, first, last) ==
  2 * Cardinality(Traded(t, first, last)) >= Cardinality(Observed(t, first, last))

\* _get_median_daily_volume returns a number that the cost model accepts.
HasVolume(t) == LET first == clock - Lookback
                    last  == PreviousTradingDay(clock)
                IN  /\ Cardinality(Observed(t, first, last)) >= MinObs
                    /\ MedianPositive(t, first, last)

---------------------------------------------------------------------------
(* The loop of run().                                                      *)

\* A window without a session gives an empty result.  Rebalance dates outside the window
\* are dropped, the others rolled forward, and dropped when that leaves the window; a
\* date that cannot be rolled raises.
Begin ==
  /\ phase = "new"
  /\ \E dates \in Schedules :
       LET rolled == {RollToTradingDay(d) : d \in {e \in dates : Start <= e /\ e <= End}}
           days   == IF NoDate \in rolled THEN {} ELSE {d \in rolled : Start <= d /\ d <= End}
       IN  IF TradingDaysBetween(Start, End) = {}
             THEN phase' = "done" /\ UNCHANGED rebalanceDays
             ELSE /\ phase' = IF NoDate \in rolled THEN "no_session" ELSE "data"
                  /\ rebalanceDays' = days
  /\ UNCHANGED <<clock, bars, cash, shares, marks, history, ledger, pending>>

\* The next session: its rows are whatever the provider delivered.
NextSession ==
  /\ phase = "data"
  /\ LET later == SessionsInRange(clock + 1, End) IN
     IF later = {}
       THEN phase' = "done" /\ UNCHANGED <<clock, bars>>
       ELSE \E rows \in [Tickers -> Bars] :
              /\ clock' = Min(later)
              /\ bars' = [d \in DOMAIN bars \union {Min(later)} |->
                            IF d = Min(later) THEN rows ELSE bars[d]]
              /\ phase' = IF Min(later) >= Start THEN "mark" ELSE "data"
  /\ UNCHANGED <<rebalanceDays, cash, shares, marks, history, ledger, pending>>

\* Mutant: a held ticker without a close keeps its last mark.
MarkToMarket_Stale ==
  /\ phase = "mark"
  /\ marks' = [t \in Tickers |-> IF t \in Held /\ t \in Priced THEN Close(t) ELSE marks[t]]
  /\ phase' = IF clock \in rebalanceDays THEN "ask" ELSE "snapshot"
  /\ UNCHANGED <<clock, bars, rebalanceDays, cash, shares, history, ledger, pending>>

\* Step 1: every position is marked at the close of the day, or none is and the
\* KeyError of a missing close ends the run.
MarkToMarket ==
  /\ phase = "mark"
  /\ IF Held \subseteq Priced
       THEN /\ marks' = [t \in Tickers |-> IF t \in Held THEN Close(t) ELSE marks[t]]
            /\ phase' = IF clock \in rebalanceDays THEN "ask" ELSE "snapshot"
       ELSE phase' = "no_mark" /\ UNCHANGED marks
  /\ UNCHANGED <<clock, bars, rebalanceDays, cash, shares, history, ledger, pending>>

\* Targets are kept as notionals, weight * portfolio value; a missing ticker is 0.
TargetShares(target, t) ==
  IF t \in DOMAIN target /\ Close(t) > 0 THEN target[t] \div Close(t) ELSE 0

\* Mutant: the exits are every holding, not only those without a target.
Diff_ExitAll(target, dust) ==
  {[ticker |-> t, shares |-> TargetShares(target, t) - shares[t]] :
     t \in {u \in DOMAIN target \intersect Priced : TargetShares(target, u) # shares[u]}}
  \union {[ticker |-> t, shares |-> -shares[t]] : t \in Held \intersect Priced}

\* Mutant: the whole target is bought on top of what is held.
Diff_FromZero(target, dust) ==
  {[ticker |-> t, shares |-> IF t \in DOMAIN target THEN TargetShares(target, t) ELSE -shares[t]] :
     t \in (DOMAIN target \union Held) \intersect Priced}

\* _diff_to_trades: tickers without a close are skipped; `dust` are the tickers whose
\* difference is below a quantum and yet not 0.0.
Diff(target, dust) ==
  {[ticker |-> t, shares |-> TargetShares(target, t) - shares[t]] :
     t \in {u \in (DOMAIN target \union Held) \intersect Priced :
              TargetShares(target, u) # shares[u] \/ u \in dust}}

\* Rounding can only bite a held ticker that has a target.
Dust(target) == {t \in DOMAIN target : t \in Held /\ TargetShares(target, t) = shares[t]}

\* Step 2: the strategy answers and the engine sizes its trades at today's close.
Rebalance(target) ==
  /\ phase = "ask"
  /\ \E dust \in SUBSET Dust(target) : pending' = Diff(target, dust)
  /\ phase' = "trade"
  /\ UNCHANGED <<clock, bars, rebalanceDays, cash, shares, marks, history, ledger>>

\* previous_trading_day raises: there is no date to ask the strategy as of.
NoSignalDate ==
  /\ phase = "ask"
  /\ PreviousTradingDay(clock) = NoDate
  /\ phase' = "no_session"
  /\ UNCHANGED <<clock, bars, rebalanceDays, cash, shares, marks, history, ledger, pending>>

\* HKCostModel: fees in proportion, stamp duty on a sale, slippage on top; not zero for
\* a real trade.
Cost(notional, isSale) ==
  LET rate == FeeRate + (IF isSale THEN StampRate ELSE 0)
  IN  (notional * rate + 99) \div 100

\* Mutant: the portfolio is credited the notional and the costs are only reported.
Apply_CostFree(tr, cost) ==
  /\ cash' = cash - tr.shares * Close(tr.ticker)
  /\ shares' = [shares EXCEPT ![tr.ticker] = @ + tr.shares]
  /\ marks' = [marks EXCEPT ![tr.ticker] = Close(tr.ticker)]

\* Mutant: a position is replaced by the trade instead of accumulated.
Apply_Replace(tr, cost) ==
  /\ cash' = cash - tr.shares * Close(tr.ticker) - cost
  /\ shares' = [shares EXCEPT ![tr.ticker] = IF tr.shares > 0 THEN tr.shares ELSE @ + tr.shares]
  /\ marks' = [marks EXCEPT ![tr.ticker] = Close(tr.ticker)]

\* Portfolio.apply_executed_trade, after its long-only check.
Apply(tr, cost) ==
  /\ cash' = cash - tr.shares * Close(tr.ticker) - cost
  /\ shares' = [shares EXCEPT ![tr.ticker] = @ + tr.shares]
  /\ marks' = [marks EXCEPT ![tr.ticker] = IF shares'[tr.ticker] = 0 THEN 0 ELSE Close(tr.ticker)]

\* One trade, in the order of the symbols: volume, cost, portfolio.
ExecuteTrade ==
  /\ phase = "trade"
  /\ pending # {}
  /\ LET tr   == CHOOSE x \in pending : \A y \in pending : x.ticker <= y.ticker
         size == IF tr.shares < 0 THEN -tr.shares ELSE tr.shares
         cost == Cost(size * Close(tr.ticker), tr.shares < 0)
     IN  CASE ~HasVolume(tr.ticker) ->
                phase' = "no_volume" /\ UNCHANGED <<cash, shares, marks, ledger, pending>>
           [] HasVolume(tr.ticker) /\ shares[tr.ticker] + tr.shares < 0 ->
                phase' = "short_sale" /\ UNCHANGED <<cash, shares, marks, ledger, pending>>
           [] OTHER ->
                /\ Apply(tr, cost)
                /\ ledger' = Append(ledger, [ticker |-> tr.ticker, day |-> clock,
                                             shares |-> tr.shares, price |-> Close(tr.ticker),
                                             cost |-> cost])
                /\ pending' = pending \ {tr}
                /\ UNCHANGED phase
  /\ UNCHANGED <<clock, bars, rebalanceDays, history>>

EndRebalance == /\ phase = "trade"
                /\ pending = {}
                /\ phase' = "snapshot"
                /\ UNCHANGED <<clock, bars, rebalanceDays, cash, shares, marks, history,
                               ledger, pending>>

\* Step 3: the end-of-day row of the equity curve.
RecordSnapshot ==
  /\ phase = "snapshot"
  /\ history' = Append(history, [day |-> clock, cash |-> cash, value |-> TotalValue,
                                 shares |-> shares])
  /\ phase' = "data"
  /\ UNCHANGED <<clock, bars, rebalanceDays, cash, shares, marks, ledger, pending>>

\* run() has returned, or raised: the caller has a result, or none.
Returned == phase \in {"done"} \union Raised /\ UNCHANGED vars

Step == \/ Begin \/ NextSession \/ MarkToMarket \/ NoSignalDate
        \/ ExecuteTrade \/ EndRebalance \/ RecordSnapshot

---------------------------------------------------------------------------
(* Properties of the engine, whatever the strategy.                        *)

\* The trades of ledger with index i in 1..n, up to a day.
TradesUntil(day) == {i \in DOMAIN ledger : ledger[i].day <= day}

NetCash  == [i \in DOMAIN ledger |-> -(ledger[i].shares * ledger[i].price) - ledger[i].cost]
Quantity == [i \in DOMAIN ledger |-> ledger[i].shares]

Cashflow(day)  == SumFunctionOnSet(NetCash, TradesUntil(day))
Bought(t, day) == SumFunctionOnSet(Quantity, {i \in TradesUntil(day) : ledger[i].ticker = t})

\* The trade table explains the equity curve: on every day of it, cash and shares are
\* the initial cash and the trades up to that day, each with its cost, and nothing else.
EquityMatchesTrades ==
  /\ cash = InitialCash + Cashflow(clock)
  /\ \A t \in Tickers : shares[t] = Bought(t, clock)
  /\ \A i \in DOMAIN history :
       /\ history[i].cash = InitialCash + Cashflow(history[i].day)
       /\ \A t \in Tickers : history[i].shares[t] = Bought(t, history[i].day)

\* Every row of the equity curve is valued at the closes of its own day: a position
\* whose ticker has no close that day never gets a row with a stale mark.
SnapshotIsMarked ==
  \A i \in DOMAIN history :
    LET row == history[i]
        value == [t \in Tickers |-> row.shares[t] * bars[row.day][t].close]
    IN  /\ row.value = row.cash + SumFunction(value)
        /\ \A t \in Tickers : row.shares[t] # 0 => bars[row.day][t] # NoBar

\* The curve has one row for each day of the window on which the exchange is open, in
\* order and none for a typhoon closure, and a run that returns has them all.
CurveIsComplete ==
  LET until == CASE phase = "done"            -> End
                 [] phase \in {"new", "data"} -> clock
                 [] OTHER                     -> clock - 1
  IN  /\ \A i, j \in DOMAIN history : i < j => history[i].day < history[j].day
      /\ {history[i].day : i \in DOMAIN history} = {d \in Start..until : IsTradingDay(d)}

\* The costs of the trades executed on a day.
CostsOn(day) == SumFunctionOnSet([i \in DOMAIN ledger |-> ledger[i].cost],
                                 {i \in DOMAIN ledger : ledger[i].day = day})

\* Weights that are not negative make the engine sell what it has not (LongOnlyError) only when
\* the portfolio was worth less than nothing at the day's marking, before the costs of the
\* trades already executed that day: never by the order, the rounding or the costs of trades.
NeverShort == phase = "short_sale" => TotalValue + CostsOn(clock) < 0

\* Weights that add up to 1 at most overdraw the account by the costs paid so far at
\* most, at the end of any day, although buys may be executed before the sales that pay
\* for them and positions that cannot be sold stay.
CostsUntil(day) ==
  SumFunctionOnSet([i \in DOMAIN ledger |-> ledger[i].cost], TradesUntil(day))

OverdraftIsCosts ==
  \A i \in DOMAIN history : history[i].cash >= -CostsUntil(history[i].day)

\* Trading only moves value between cash and positions: a trade changes the total by
\* its cost, marking and the clock leave cash and share counts alone.
OnlyCostsAreLost ==
  [][/\ phase = "trade" =>
          TotalValue' = TotalValue - (IF ledger' = ledger THEN 0 ELSE ledger'[Len(ledger')].cost)
     /\ phase # "trade" => UNCHANGED <<cash, shares, ledger>>]_vars
=============================================================================
