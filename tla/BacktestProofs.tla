--------------------------- MODULE BacktestProofs ---------------------------
(***************************************************************************)
(* Proofs about the backtest engine, its strategies and its results, for   *)
(* every calendar, universe, price table, schedule and cost rate.          *)
(***************************************************************************)
EXTENDS Results, SumTheorems, SequenceTheorems

allVars == <<vars, strategy>>

---------------------------------------------------------------------------
(* Facts about the calendar and the constants.                             *)

\* The sessions of a range of dates are finitely many open days.
LEMMA SessionsAreOpen ==
  ASSUME NEW first \in Int, NEW last \in Int
  PROVE  /\ IsFiniteSet(SessionsInRange(first, last))
         /\ SessionsInRange(first, last) \subseteq Nat
         /\ \A d : d \in SessionsInRange(first, last)
                     <=> d \in Int /\ IsTradingDay(d) /\ first <= d /\ d <= last
<1>1. ASSUME NEW d
      PROVE  d \in SessionsInRange(first, last)
               <=> d \in Int /\ IsTradingDay(d) /\ first <= d /\ d <= last
  <2>1. d \in LibrarySessions => d \in Int
    BY CalendarAssumption
  <2>2. QED
    BY <2>1, Zenon DEF SessionsInRange, IsTradingDay
<1>2. IsFiniteSet(SessionsInRange(first, last))
  <2> DEFINE T == SessionsInRange(first, last)
  <2>1. T \subseteq Int /\ \A d \in T : first <= d /\ d <= last
    BY <1>1
  <2> HIDE DEF T
  <2>2. IsFiniteSet(T)
    BY <2>1, BoundedIsFinite
  <2>3. QED
    BY <2>2 DEF T
<1>3. QED
  BY <1>1, <1>2, CalendarAssumption DEF SessionsInRange

\* The date the strategy is asked as of is a session before the day, if there is one.
LEMMA SignalIsEarlier ==
  ASSUME NEW d \in Nat, PreviousTradingDay(d) # NoDate
  PROVE  PreviousTradingDay(d) \in LibrarySessions /\ PreviousTradingDay(d) < d
<1> DEFINE found == SessionsInRange(d - 1 - LookupWindow, d - 1)
<1>1. d - 1 - LookupWindow \in Int /\ d - 1 \in Int
  BY CalendarAssumption
<1>2. IsFiniteSet(found) /\ found \subseteq Int
  BY <1>1, SessionsAreOpen
<1>3. PreviousTradingDay(d) = IF found = {} THEN NoDate ELSE Max(found)
  BY Zenon DEF PreviousTradingDay
<1>4. Max(found) \in found
  <2>1. found # {}
    BY <1>3
  <2> HIDE DEF found
  <2>2. QED
    BY <1>2, <2>1, MaxIn
<1>5. QED
  BY <1>1, <1>2, <1>3, <1>4, SessionsAreOpen DEF IsTradingDay

\* A date is rolled to an open day, if it is rolled at all.
LEMMA RolledIsOpen ==
  ASSUME NEW d \in Nat, RollToTradingDay(d) # NoDate
  PROVE  RollToTradingDay(d) \in LibrarySessions /\ RollToTradingDay(d) >= d
<1> DEFINE found == SessionsInRange(d, d + LookupWindow)
<1>1. d + LookupWindow \in Int
  BY CalendarAssumption
<1>2. IsFiniteSet(found) /\ found \subseteq Int
  BY <1>1, SessionsAreOpen
<1>3. RollToTradingDay(d) = IF found = {} THEN NoDate ELSE Min(found)
  BY Zenon DEF RollToTradingDay
<1>4. Min(found) \in found
  <2>1. found # {}
    BY <1>3
  <2> HIDE DEF found
  <2>2. QED
    BY <1>2, <2>1, MinIn
<1>5. QED
  BY <1>1, <1>2, <1>3, <1>4, SessionsAreOpen DEF IsTradingDay

\* The tickers are finitely many, and so are those of any universe.
LEMMA TickersAreFinite ==
  /\ IsFiniteSet(Tickers)
  /\ \A S : S \subseteq Tickers => IsFiniteSet(S)
<1>1. NumTickers \in Nat
  BY EngineAssumption
<1>2. IsFiniteSet(Tickers)
  BY <1>1, FS_Interval DEF Tickers
<1>3. QED
  BY <1>2, FS_Subset

\* A row of prices has a close above zero, the missing row has 0.
LEMMA ClosesAreNat ==
  /\ \A b \in Bars : b.close \in Nat /\ (b # NoBar => b.close > 0)
  /\ NoBar.close = 0
BY EngineAssumption DEF NoBar, Prices, Volumes

\* The commission and the stamp duty of a trade are a whole number of cents, not below zero.
LEMMA CostIsNat ==
  ASSUME NEW notional \in Nat, NEW isSale \in BOOLEAN
  PROVE  Cost(notional, isSale) \in Nat
<1>1. FeeRate \in Nat /\ StampRate \in Nat
  BY EngineAssumption
<1> DEFINE rate == FeeRate + (IF isSale THEN StampRate ELSE 0)
<1>2. rate \in Nat
  BY <1>1
<1>3. notional * rate \in Nat
  <2> HIDE DEF rate
  <2> QED BY <1>2
<1>4. Cost(notional, isSale) = (notional * rate + 99) \div 100
  BY DEF Cost
<1>5. ASSUME NEW n \in Nat PROVE (n + 99) \div 100 \in Nat
  OBVIOUS
<1>6. QED
  <2> HIDE DEF rate
  <2> QED BY <1>3, <1>4, <1>5

---------------------------------------------------------------------------
(* What the engine relies on from one step of the day to the next.          *)

Day == {"mark", "ask", "trade", "snapshot"}

\* The clock is at an open day of the window whenever a day is being worked on, and
\* no row of prices is later than it.
ClockInv ==
  /\ clock <= End
  /\ \A d \in DOMAIN bars : d <= clock
  /\ phase = "new" => clock = 0 /\ history = <<>>
  /\ phase \in Day => clock \in DOMAIN bars /\ IsTradingDay(clock) /\ Start <= clock

\* After the marking, every position has a close of the day and is marked at it.
MarkedInv ==
  phase \in {"ask", "trade", "snapshot"} =>
    \A t \in Held : t \in Priced /\ marks[t] = Close(t)

\* There is one trade at most for a ticker, and it has a close to be executed at.
PendingInv ==
  phase = "trade" =>
    \A tr \in pending : /\ tr.ticker \in Priced
                        /\ \A other \in pending : other.ticker = tr.ticker => other = tr

\* No trade and no row is later than the clock, and every row has prices.
TablesInv == /\ \A i \in DOMAIN ledger : ledger[i].day <= clock
             /\ \A i \in DOMAIN history : history[i].day <= clock
             /\ \A i \in DOMAIN history : history[i].day \in DOMAIN bars

BaseInv == TypeOK /\ ClockInv /\ MarkedInv /\ PendingInv /\ TablesInv /\ CurveIsComplete

---------------------------------------------------------------------------
(* Values and targets.                                                     *)

\* The value of a position, and of the portfolio.
LEMMA ValuesAreInt ==
  ASSUME TypeOK
  PROVE  /\ \A t \in Tickers : MarketValue(t) \in Nat
         /\ TotalValue \in Int
         /\ SumFunctionOnSet([t \in Tickers |-> MarketValue(t)], Tickers) \in Nat
         /\ TotalValue = cash + SumFunctionOnSet([t \in Tickers |-> MarketValue(t)], Tickers)
<1> DEFINE value == [t \in Tickers |-> MarketValue(t)]
<1>1. \A t \in Tickers : MarketValue(t) \in Nat
  <2>1. ASSUME NEW m \in Nat, NEW n \in Nat PROVE m * n \in Nat
    OBVIOUS
  <2>2. \A t \in Tickers : shares[t] \in Nat /\ marks[t] \in Nat
    BY DEF TypeOK
  <2>3. QED
    BY <2>1, <2>2 DEF MarketValue
<1>2. \A t \in Tickers : value[t] \in Nat
  BY <1>1
<1>3. DOMAIN value = Tickers
  OBVIOUS
<1>4. TotalValue = cash + SumFunctionOnSet(value, Tickers)
  BY <1>3, Zenon DEF TotalValue, SumFunction
<1> HIDE DEF value
<1>5. SumFunctionOnSet(value, Tickers) \in Nat
  BY <1>2, TickersAreFinite, SumIsNat
<1>6. cash + SumFunctionOnSet(value, Tickers) \in Int
  BY <1>5 DEF TypeOK
<1>7. QED
  BY <1>1, <1>4, <1>5, <1>6 DEF value

\* What a strategy answers: notionals of some tickers, that the portfolio can pay for, or
\* pay for but for what the account already is overdrawn; a portfolio worth less than
\* nothing may get notionals below zero.
IsLong(target) == \A t \in DOMAIN target : target[t] >= 0

IsTarget(target) ==
  /\ DOMAIN target \subseteq Tickers
  /\ \A t \in DOMAIN target : target[t] \in Int
  /\ \/ /\ IsLong(target)
        /\ \/ SumFunctionOnSet(target, DOMAIN target) <= TotalValue
           \/ SumFunctionOnSet(target, DOMAIN target) <= TotalValue - cash
     \/ \A t \in DOMAIN target : target[t] <= 0

\* The universe is asked as of a session before the day, and has only known tickers.
LEMMA UniverseIsOfTickers ==
  ASSUME TypeOK, AsOf # NoDate
  PROVE  Universe \subseteq Tickers /\ AsOf \in LibrarySessions /\ AsOf < clock
<1>1. clock \in Nat
  BY CalendarAssumption DEF TypeOK
<1>2. AsOf \in LibrarySessions /\ AsOf < clock
  BY <1>1, SignalIsEarlier DEF AsOf
<1>3. QED
  BY <1>2, EngineAssumption DEF Universe

\* What a strategy without further rules may answer is a target; above zero if the
\* portfolio is.
LEMMA AnyIsTarget ==
  ASSUME TypeOK, AsOf # NoDate, NEW target \in AnyTargets
  PROVE  IsTarget(target) /\ (TotalValue >= 0 => IsLong(target))
<1> DEFINE weights == UNION {[S -> 0..2] : S \in SUBSET Universe}
<1>1. PICK w \in weights : /\ SumFunction(w) <= 2
                           /\ target = [t \in DOMAIN w |-> (w[t] * TotalValue) \div 2]
  BY Zenon DEF AnyTargets
<1> DEFINE S == DOMAIN w
<1>0. S \subseteq Universe /\ w \in [S -> 0..2]
  <2>1. PICK T \in SUBSET Universe : w \in [T -> 0..2]
    BY <1>1
  <2>2. QED
    BY <2>1
<1>2. S \subseteq Tickers /\ IsFiniteSet(S)
  BY <1>0, UniverseIsOfTickers, TickersAreFinite
<1>3. TotalValue \in Int
  BY ValuesAreInt
<1>4. /\ DOMAIN w = S /\ DOMAIN target = S
      /\ \A t \in S : w[t] \in 0..2 /\ target[t] = (w[t] * TotalValue) \div 2
  BY <1>0, <1>1
<1> HIDE DEF S, weights
<1>5. ASSUME NEW v \in Int, NEW x \in 0..2
      PROVE  /\ (x * v) \div 2 \in Int /\ 2 * ((x * v) \div 2) <= v * x
             /\ v >= 0 => (x * v) \div 2 >= 0
             /\ v <= 0 => (x * v) \div 2 <= 0
  BY <1>5
<1>6. \A t \in S : /\ target[t] \in Int /\ 2 * target[t] <= TotalValue * w[t]
                   /\ TotalValue >= 0 => target[t] >= 0
                   /\ TotalValue <= 0 => target[t] <= 0
  BY <1>3, <1>4, <1>5
<1>7. ASSUME TotalValue >= 0 PROVE SumFunctionOnSet(target, S) <= TotalValue
  <2> DEFINE twice  == [t \in S |-> 2 * target[t]]
             scaled == [t \in S |-> TotalValue * w[t]]
  <2>1. \A t \in S : /\ twice[t] \in Int /\ scaled[t] \in Int /\ twice[t] <= scaled[t]
                     /\ twice[t] = 2 * target[t] /\ scaled[t] = TotalValue * w[t]
                     /\ w[t] \in Int /\ target[t] \in Int
    BY <1>3, <1>4, <1>6
  <2> HIDE DEF twice, scaled
  <2>2. SumFunctionOnSet(twice, S) <= SumFunctionOnSet(scaled, S)
    BY <1>2, <2>1, SumMonotonic
  <2>3. /\ SumFunctionOnSet(twice, S) = 2 * SumFunctionOnSet(target, S)
        /\ SumFunctionOnSet(scaled, S) = TotalValue * SumFunctionOnSet(w, S)
    BY <1>2, <1>3, <2>1, SumScaled
  <2>4. SumFunctionOnSet(target, S) \in Int /\ SumFunctionOnSet(w, S) \in Int
    BY <1>2, <2>1, SumIsInt
  <2>5. SumFunctionOnSet(w, S) <= 2
    BY <1>1, <1>4, Zenon DEF SumFunction
  <2>6. ASSUME NEW x \in Int, NEW y \in Int, NEW v \in Int, v >= 0, y <= 2, 2 * x <= v * y
        PROVE  x <= v
    <3>1. v * (2 - y) >= 0
      BY <2>6
    <3>2. v * (2 - y) = 2 * v - v * y
      BY <2>6
    <3>3. QED
      BY <2>6, <3>1, <3>2
  <2>7. 2 * SumFunctionOnSet(target, S) <= TotalValue * SumFunctionOnSet(w, S)
    BY <2>2, <2>3
  <2>8. QED
    BY <1>3, <1>7, <2>4, <2>5, <2>6, <2>7
<1>8. CASE TotalValue >= 0
  BY <1>2, <1>4, <1>6, <1>7, <1>8 DEF IsTarget, IsLong
<1>9. CASE TotalValue < 0
  BY <1>2, <1>3, <1>4, <1>6, <1>9 DEF IsTarget, IsLong
<1>10. QED
  BY <1>3, <1>8, <1>9

\* Equal shares of the portfolio, for any of the liquid tickers, are a target.
LEMMA FactorIsTarget ==
  ASSUME TypeOK, AsOf # NoDate, NEW target \in FactorTargets
  PROVE  IsTarget(target) /\ (TotalValue >= 0 => IsLong(target))
<1>1. PICK S \in SUBSET Liquid : target = [t \in S |-> TotalValue \div Cardinality(S)]
  BY Zenon DEF FactorTargets
<1>2. S \subseteq Tickers /\ IsFiniteSet(S)
  BY UniverseIsOfTickers, TickersAreFinite DEF Liquid
<1>3. TotalValue \in Int
  BY ValuesAreInt
<1>4. DOMAIN target = S /\ \A t \in S : target[t] = TotalValue \div Cardinality(S)
  BY <1>1
<1>5. CASE S = {}
  BY <1>2, <1>4, <1>5 DEF IsTarget, IsLong
<1>6. CASE S # {}
  <2>1. /\ TotalValue \div Cardinality(S) \in Int
        /\ SumFunctionOnSet(target, S) <= TotalValue
    BY <1>2, <1>3, <1>4, <1>6, SumOfShares
  <2>2. Cardinality(S) \in Nat /\ Cardinality(S) > 0
    BY <1>2, <1>6, FS_CardinalityType, FS_EmptySet
  <2>3. ASSUME NEW v \in Int, NEW n \in Nat, n > 0
        PROVE  (v >= 0 => v \div n >= 0) /\ (v < 0 => v \div n <= 0)
    BY <2>3
  <2>4. /\ TotalValue >= 0 => TotalValue \div Cardinality(S) >= 0
        /\ TotalValue < 0 => TotalValue \div Cardinality(S) <= 0
    BY <1>3, <2>2, <2>3
  <2>5. QED
    BY <1>2, <1>3, <1>4, <2>1, <2>4 DEF IsTarget, IsLong
<1>7. QED
  BY <1>5, <1>6

\* The benchmark of a portfolio that is worth something never asks for less than nothing, and
\* asks for what it has of a ticker that it cannot trade.
LEMMA SolventIsTarget ==
  ASSUME TypeOK, AsOf # NoDate, TotalValue > 0
  PROVE  /\ IsTarget(EqualWeight) /\ IsLong(EqualWeight)
         /\ \A t \in Frozen : t \in DOMAIN EqualWeight /\ EqualWeight[t] = MarketValue(t)
<1> DEFINE value  == [t \in Tickers |-> MarketValue(t)]
           held   == [t \in Frozen |-> MarketValue(t)]
           kept   == SumFunctionOnSet(value, Frozen)
           budget == IF TotalValue > 0 /\ kept > TotalValue THEN 0 ELSE TotalValue - kept
<1>1. /\ Frozen \subseteq Tickers /\ Available \subseteq Tickers
      /\ Available \intersect Frozen = {}
      /\ IsFiniteSet(Frozen) /\ IsFiniteSet(Available)
  <2>1. Frozen \subseteq Tickers /\ Available \subseteq Tickers
        /\ Available \intersect Frozen = {}
    BY UniverseIsOfTickers, Zenon DEF Frozen, Available
  <2>2. QED
    BY <2>1, TickersAreFinite
<1>2. \A t \in Tickers : value[t] \in Nat /\ value[t] = MarketValue(t)
  BY ValuesAreInt
<1>3. kept \in Nat
  <2> HIDE DEF value
  <2> QED BY <1>1, <1>2, SumIsNat
<1>4. SumFunction([t \in Frozen |-> MarketValue(t)]) = kept
  <2>1. \A t \in Frozen : held[t] = value[t]
    BY <1>1
  <2>2. DOMAIN held = Frozen
    OBVIOUS
  <2>3. SumFunctionOnSet(held, Frozen) = SumFunctionOnSet(value, Frozen)
    <3> HIDE DEF held, value
    <3> QED BY <1>1, <2>1, SumSame
  <2>4. QED
    BY <2>2, <2>3, Zenon DEF SumFunction
<1>5. EqualWeight = [t \in Available \union Frozen |->
                       IF t \in Frozen THEN MarketValue(t) ELSE budget \div Cardinality(Available)]
  BY <1>4, Zenon DEF EqualWeight
<1>6. TotalValue \in Int /\ cash \in Int /\ kept <= TotalValue - cash
  <2>1. TotalValue \in Int /\ cash \in Int
    BY ValuesAreInt DEF TypeOK
  <2>2. TotalValue = cash + SumFunctionOnSet(value, Tickers)
    BY ValuesAreInt
  <2> DEFINE rest == Tickers \ Frozen
  <2>3. IsFiniteSet(rest) /\ Frozen \union rest = Tickers /\ Frozen \intersect rest = {}
    BY <1>1, TickersAreFinite
  <2>4. \A t \in Frozen \union rest : value[t] \in Int /\ value[t] \in Nat
    BY <1>2, <2>3
  <2> HIDE DEF rest, value
  <2>5. SumFunctionOnSet(value, Frozen \union rest)
          = SumFunctionOnSet(value, Frozen) + SumFunctionOnSet(value, rest)
    BY <1>1, <2>3, <2>4, SumUnion
  <2>6. SumFunctionOnSet(value, rest) \in Nat
    BY <2>3, <2>4, SumIsNat
  <2>7. SumFunctionOnSet(value, Tickers) = kept + SumFunctionOnSet(value, rest)
    BY <2>3, <2>5, Zenon
  <2> HIDE DEF kept
  <2>8. QED
    BY <1>3, <2>1, <2>2, <2>6, <2>7
<1>7. budget \in Nat
  <2> HIDE DEF kept
  <2> QED BY <1>3, <1>6
<1> HIDE DEF value, held, kept, budget
<1>8. \A t \in Available : budget \div Cardinality(Available) \in Nat
  <2>1. ASSUME NEW t \in Available
        PROVE  Cardinality(Available) \in Nat /\ Cardinality(Available) > 0
    BY <1>1, FS_CardinalityType, FS_EmptySet
  <2>2. ASSUME NEW v \in Nat, NEW n \in Nat, n > 0 PROVE v \div n \in Nat
    BY <2>2
  <2>3. QED
    BY <1>7, <2>1, <2>2
<1>9. \A t \in Available \union Frozen : EqualWeight[t] \in Nat
  BY <1>1, <1>5, <1>8, ValuesAreInt
<1>10. DOMAIN EqualWeight = Available \union Frozen
  BY <1>5
<1>11. SumFunctionOnSet(EqualWeight, Available \union Frozen)
         = SumFunctionOnSet(EqualWeight, Available) + SumFunctionOnSet(EqualWeight, Frozen)
  BY <1>1, <1>9, SumUnion
<1>12. SumFunctionOnSet(EqualWeight, Frozen) = kept
  <2>1. \A t \in Frozen : EqualWeight[t] = value[t]
    BY <1>1, <1>2, <1>5
  <2>2. QED
    BY <1>1, <2>1, SumSame DEF kept
<1>13. SumFunctionOnSet(EqualWeight, Available) <= budget
  <2>1. CASE Available = {}
    BY <1>7, <2>1, SumEmpty
  <2>2. CASE Available # {}
    <3>1. \A t \in Available : EqualWeight[t] = budget \div Cardinality(Available)
      BY <1>1, <1>5
    <3>2. QED
      BY <1>1, <1>7, <2>2, <3>1, SumOfShares
  <2>3. QED
    BY <2>1, <2>2
<1>14. SumFunctionOnSet(EqualWeight, Available) \in Int
  BY <1>1, <1>9, SumIsInt
<1>15. SumFunctionOnSet(EqualWeight, DOMAIN EqualWeight) <= TotalValue
         \/ SumFunctionOnSet(EqualWeight, DOMAIN EqualWeight) <= TotalValue - cash
  <2>1. SumFunctionOnSet(EqualWeight, DOMAIN EqualWeight) <= budget + kept
    BY <1>3, <1>7, <1>10, <1>11, <1>12, <1>13, <1>14
  <2>2. budget + kept = TotalValue \/ budget + kept <= TotalValue - cash
    BY <1>3, <1>6 DEF budget
  <2>3. SumFunctionOnSet(EqualWeight, DOMAIN EqualWeight) \in Int
    <3>1. IsFiniteSet(DOMAIN EqualWeight)
      BY <1>1, <1>10, TickersAreFinite
    <3>2. \A t \in DOMAIN EqualWeight : EqualWeight[t] \in Int
      BY <1>9, <1>10
    <3>3. QED
      BY <3>1, <3>2, SumIsInt
  <2>4. ASSUME NEW sum \in Int, NEW most \in Int, NEW a \in Int, NEW b \in Int,
               sum <= most, most = a \/ most <= b
        PROVE  sum <= a \/ sum <= b
    BY <2>4
  <2>5. budget + kept \in Int /\ TotalValue - cash \in Int
    BY <1>3, <1>6, <1>7
  <2>6. QED
    BY <1>6, <2>1, <2>2, <2>3, <2>4, <2>5
<1>16. IsLong(EqualWeight)
  BY <1>9, <1>10 DEF IsLong
<1>17. IsTarget(EqualWeight)
  <2>1. DOMAIN EqualWeight \subseteq Tickers
    BY <1>1, <1>10
  <2>2. \A t \in DOMAIN EqualWeight : EqualWeight[t] \in Int
    BY <1>9, <1>10
  <2>3. QED
    BY <1>15, <1>16, <2>1, <2>2, Zenon DEF IsTarget
<1>18. \A t \in Frozen : t \in DOMAIN EqualWeight /\ EqualWeight[t] = MarketValue(t)
  BY <1>5, <1>10
<1>19. QED
  BY <1>16, <1>17, <1>18

\* To a portfolio worth nothing or less it gives equal parts of that: nothing is frozen.
LEMMA DebtIsTarget ==
  ASSUME TypeOK, AsOf # NoDate, TotalValue <= 0
  PROVE  /\ IsTarget(EqualWeight) /\ (TotalValue >= 0 => IsLong(EqualWeight))
         /\ Frozen = {}
<1> DEFINE part == TotalValue \div Cardinality(Available)
<1>1. TotalValue \in Int
  BY ValuesAreInt
<1>2. Frozen = {}
  BY <1>1 DEF Frozen
<1>3. SumFunction([t \in Frozen |-> MarketValue(t)]) = 0
  <2>1. DOMAIN [t \in Frozen |-> MarketValue(t)] = {}
    BY <1>2
  <2>2. QED
    BY <2>1, SumEmpty, Zenon DEF SumFunction
<1>4. DOMAIN EqualWeight = Available /\ \A t \in Available : EqualWeight[t] = part
  BY <1>1, <1>2, <1>3 DEF EqualWeight
<1>5. Available \subseteq Tickers /\ IsFiniteSet(Available)
  <2>1. Available \subseteq Tickers
    BY UniverseIsOfTickers DEF Available
  <2>2. QED
    BY <2>1, TickersAreFinite
<1>6. ASSUME NEW t \in Available PROVE part \in Int /\ part <= 0 /\ (TotalValue >= 0 => part = 0)
  <2>1. Cardinality(Available) \in Nat /\ Cardinality(Available) > 0
    BY <1>5, FS_CardinalityType, FS_EmptySet
  <2>2. ASSUME NEW v \in Int, NEW n \in Nat, n > 0, v <= 0
        PROVE  v \div n \in Int /\ v \div n <= 0 /\ (v >= 0 => v \div n = 0)
    BY <2>2
  <2>3. QED
    BY <1>1, <2>1, <2>2
<1> HIDE DEF part
<1>7. QED
  BY <1>2, <1>4, <1>5, <1>6 DEF IsTarget, IsLong

\* Either way the benchmark asks for a target, and for what it has of a frozen ticker.
LEMMA EqualIsTarget ==
  ASSUME TypeOK, AsOf # NoDate
  PROVE  /\ IsTarget(EqualWeight) /\ (TotalValue >= 0 => IsLong(EqualWeight))
         /\ \A t \in Frozen : t \in DOMAIN EqualWeight /\ EqualWeight[t] = MarketValue(t)
<1>1. TotalValue > 0 \/ TotalValue <= 0
  BY ValuesAreInt
<1>2. QED
  BY <1>1, SolventIsTarget, DebtIsTarget

\* Whatever the strategy, the engine rebalances to a target of the above kind.
LEMMA AskRebalances ==
  ASSUME TypeOK, Ask
  PROVE  \E target :
           /\ Rebalance(target) /\ IsTarget(target)
           /\ TotalValue >= 0 => IsLong(target)
           /\ strategy = "equal_weight" =>
                \A t \in Frozen : t \in DOMAIN target /\ target[t] = MarketValue(t)
<1>1. AsOf # NoDate
  BY DEF Ask
<1>2. CASE strategy = "any" /\ \E target \in AnyTargets : Rebalance(target)
  BY <1>1, <1>2, AnyIsTarget
<1>3. CASE strategy = "equal_weight" /\ Rebalance(EqualWeight)
  BY <1>1, <1>3, EqualIsTarget
<1>4. CASE strategy = "factor" /\ \E target \in FactorTargets : Rebalance(target)
  BY <1>1, <1>4, FactorIsTarget
<1>5. QED
  BY <1>2, <1>3, <1>4, Zenon DEF Ask

\* The closes of the day on which the clock stands.
LEMMA ClosesOfTheDay ==
  ASSUME TypeOK, clock \in DOMAIN bars, NEW t \in Tickers
  PROVE  Close(t) \in Nat /\ (t \in Priced => Close(t) > 0) /\ (t \notin Priced => Close(t) = 0)
<1>1. bars[clock][t] \in Bars
  BY DEF TypeOK
<1>2. QED
  BY <1>1, ClosesAreNat DEF Close, Priced

\* Target shares are worth at most the notional.
LEMMA TargetSharesFit ==
  ASSUME TypeOK, clock \in DOMAIN bars, NEW target, IsTarget(target), NEW t \in Tickers
  PROVE  /\ TargetShares(target, t) \in Int
         /\ IsLong(target) => TargetShares(target, t) >= 0
         /\ IsLong(target) =>
              TargetShares(target, t) * Close(t) <= IF t \in DOMAIN target THEN target[t] ELSE 0
         /\ (t \in DOMAIN target => target[t] <= 0) => TargetShares(target, t) * Close(t) <= 0
         /\ t \notin DOMAIN target => TargetShares(target, t) = 0
         /\ t \notin Priced => TargetShares(target, t) = 0
<1>1. Close(t) \in Nat /\ (t \notin Priced => Close(t) = 0)
  BY ClosesOfTheDay
<1>2. CASE t \in DOMAIN target /\ Close(t) > 0
  <2>1. target[t] \in Int
    BY <1>2 DEF IsTarget
  <2>2. ASSUME NEW v \in Int, NEW p \in Nat, p > 0
        PROVE  v \div p \in Int /\ (v \div p) * p <= v /\ (v >= 0 => v \div p >= 0)
    BY <2>2
  <2>3. TargetShares(target, t) = target[t] \div Close(t)
    BY <1>2 DEF TargetShares
  <2>4. QED
    BY <1>1, <1>2, <2>1, <2>2, <2>3 DEF IsLong
<1>3. CASE ~(t \in DOMAIN target /\ Close(t) > 0)
  <2>1. TargetShares(target, t) = 0
    BY <1>3 DEF TargetShares
  <2>2. t \in DOMAIN target => target[t] \in Int
    BY DEF IsTarget
  <2>3. TargetShares(target, t) * Close(t) = 0
    BY <1>1, <2>1
  <2>4. QED
    BY <1>3, <2>1, <2>2, <2>3 DEF IsLong
<1>4. QED
  BY <1>2, <1>3

\* The trades of a rebalance: one for a ticker, which has a close, and for the difference
\* to the target.
LEMMA DiffIsOfPriced ==
  ASSUME TypeOK, clock \in DOMAIN bars, NEW target, IsTarget(target), NEW dust \in SUBSET Dust(target)
  PROVE  /\ Diff(target, dust) \subseteq Trade
         /\ \A tr \in Diff(target, dust) :
              /\ tr.ticker \in Priced
              /\ tr.shares = TargetShares(target, tr.ticker) - shares[tr.ticker]
              /\ \A other \in Diff(target, dust) : other.ticker = tr.ticker => other = tr
         /\ \A t \in Priced : t \in Held \/ t \in DOMAIN target =>
              \/ TargetShares(target, t) = shares[t]
              \/ \E tr \in Diff(target, dust) : tr.ticker = t
<1> DEFINE moved == {u \in (DOMAIN target \union Held) \intersect Priced :
                       TargetShares(target, u) # shares[u] \/ u \in dust}
           trade(t) == [ticker |-> t, shares |-> TargetShares(target, t) - shares[t]]
<1>1. Diff(target, dust) = {trade(t) : t \in moved}
  BY Zenon DEF Diff
<1>2. moved \subseteq Priced /\ Priced \subseteq Tickers
  BY DEF Priced
<1>3. \A t \in moved : TargetShares(target, t) - shares[t] \in Int
  BY <1>2, TargetSharesFit DEF TypeOK
<1>4. \A t \in Priced : t \in Held \/ t \in DOMAIN target =>
        TargetShares(target, t) = shares[t] \/ t \in moved
  OBVIOUS
<1> HIDE DEF moved
<1>5. Diff(target, dust) \subseteq Trade
  BY <1>1, <1>2, <1>3 DEF Trade
<1>6. ASSUME NEW tr \in Diff(target, dust)
      PROVE  /\ tr.ticker \in Priced
             /\ tr.shares = TargetShares(target, tr.ticker) - shares[tr.ticker]
             /\ \A other \in Diff(target, dust) : other.ticker = tr.ticker => other = tr
  <2>1. PICK t \in moved : tr = trade(t)
    BY <1>1
  <2>2. tr.ticker = t /\ tr.shares = TargetShares(target, t) - shares[t]
    BY <2>1
  <2>3. ASSUME NEW other \in Diff(target, dust), other.ticker = tr.ticker PROVE other = tr
    <3>1. PICK u \in moved : other = trade(u)
      BY <1>1
    <3>2. u = t
      BY <2>2, <2>3, <3>1
    <3>3. QED
      BY <2>1, <3>1, <3>2
  <2>4. QED
    BY <1>2, <2>2, <2>3
<1>7. \A t \in moved : trade(t) \in Diff(target, dust) /\ trade(t).ticker = t
  BY <1>1
<1> HIDE DEF trade
<1>8. QED
  BY <1>4, <1>5, <1>6, <1>7

\* The next trade is one of the least ticker, and is refused by the cost model or by the
\* portfolio, or executed.
Executes(tr, cost) ==
  /\ Apply(tr, cost)
  /\ ledger' = Append(ledger, [ticker |-> tr.ticker, day |-> clock, shares |-> tr.shares,
                               price |-> Close(tr.ticker), cost |-> cost])
  /\ pending' = pending \ {tr}
  /\ shares[tr.ticker] + tr.shares >= 0
  /\ cost \in Nat
  /\ UNCHANGED <<phase, clock, bars, rebalanceDays, history>>

\* The next trade is refused for want of a volume, raises LongOnlyError, or is executed.
LEMMA ExecuteCases ==
  ASSUME TypeOK, ClockInv, PendingInv, ExecuteTrade
  PROVE  \E tr \in pending :
           \/ /\ phase' = "no_volume" /\ ~HasVolume(tr.ticker)
              /\ UNCHANGED <<cash, shares, marks, ledger, pending, clock, bars, rebalanceDays, history>>
           \/ /\ phase' = "short_sale" /\ shares[tr.ticker] + tr.shares < 0
              /\ UNCHANGED <<cash, shares, marks, ledger, pending, clock, bars, rebalanceDays, history>>
           \/ \E cost \in Nat : Executes(tr, cost)
<1> DEFINE tr   == CHOOSE x \in pending : \A y \in pending : x.ticker <= y.ticker
           size == IF tr.shares < 0 THEN -tr.shares ELSE tr.shares
           cost == Cost(size * Close(tr.ticker), tr.shares < 0)
<1>1. tr \in pending
  <2> DEFINE T == {x.ticker : x \in pending}
  <2>1. T \subseteq Tickers /\ T # {}
    <3>1. pending # {} /\ \A x \in pending : x.ticker \in Tickers
      BY DEF ExecuteTrade, TypeOK, Trade
    <3>2. QED
      BY <3>1
  <2>2. IsFiniteSet(T) /\ T \subseteq Int
    BY <2>1, TickersAreFinite DEF Tickers
  <2>3. Min(T) \in T /\ \A y \in T : Min(T) <= y
    <3> HIDE DEF T
    <3> QED BY <2>1, <2>2, MinIn
  <2>4. \E x \in pending : \A y \in pending : x.ticker <= y.ticker
    BY <2>3
  <2>5. QED
    BY <2>4
<1>2. cost \in Nat
  <2>1. tr.ticker \in Tickers /\ tr.shares \in Int
    BY <1>1 DEF TypeOK, Trade
  <2>2. clock \in DOMAIN bars
    BY DEF ClockInv, ExecuteTrade, Day
  <2>3. Close(tr.ticker) \in Nat
    BY <2>1, <2>2, ClosesOfTheDay
  <2>4. ASSUME NEW n \in Int, NEW p \in Nat
        PROVE  (IF n < 0 THEN -n ELSE n) * p \in Nat
    OBVIOUS
  <2> HIDE DEF tr
  <2>5. size * Close(tr.ticker) \in Nat /\ (tr.shares < 0) \in BOOLEAN
    BY <2>1, <2>3, <2>4
  <2>6. QED
    BY <2>5, CostIsNat
<1>3. /\ UNCHANGED <<clock, bars, rebalanceDays, history>>
      /\ \/ /\ phase' = "no_volume" /\ ~HasVolume(tr.ticker)
            /\ UNCHANGED <<cash, shares, marks, ledger, pending>>
         \/ /\ phase' = "short_sale" /\ shares[tr.ticker] + tr.shares < 0
            /\ UNCHANGED <<cash, shares, marks, ledger, pending>>
         \/ /\ ~(shares[tr.ticker] + tr.shares < 0)
            /\ Apply(tr, cost)
            /\ ledger' = Append(ledger, [ticker |-> tr.ticker, day |-> clock,
                                         shares |-> tr.shares, price |-> Close(tr.ticker),
                                         cost |-> cost])
            /\ pending' = pending \ {tr}
            /\ UNCHANGED phase
  BY DEF ExecuteTrade
<1> HIDE DEF cost, tr
<1>4. shares[tr.ticker] \in Int /\ tr.shares \in Int
  BY <1>1 DEF TypeOK, Trade
<1>5. QED
  BY <1>1, <1>2, <1>3, <1>4 DEF Executes

---------------------------------------------------------------------------
(* The invariant the other proofs rest on.                                 *)

\* The last day whose row is written, and the open days of the window until then.
Until == CASE phase = "done"            -> End
           [] phase \in {"new", "data"} -> clock
           [] OTHER                     -> clock - 1

OpenDays(until) == {d \in Start..until : IsTradingDay(d)}

Ordered == \A i, j \in DOMAIN history : i < j => history[i].day < history[j].day

Recorded == {history[i].day : i \in DOMAIN history}

\* The rows of the tables.
LEMMA RowsAreTyped ==
  ASSUME TypeOK
  PROVE  /\ Len(ledger) \in Nat /\ DOMAIN ledger = 1..Len(ledger)
         /\ Len(history) \in Nat /\ DOMAIN history = 1..Len(history)
         /\ \A i \in DOMAIN ledger : ledger[i] \in Executed
         /\ \A i \in DOMAIN history : history[i] \in Snapshot
BY LenProperties, ElementOfSeq DEF TypeOK

\* The dates that the engine compares are numbers.
LEMMA DatesAreNat ==
  ASSUME TypeOK
  PROVE  clock \in Nat /\ DOMAIN bars \subseteq Nat /\ Start \in Nat /\ End \in Nat
<1>1. LibrarySessions \subseteq Nat
  BY CalendarAssumption
<1>2. clock \in {0} \union LibrarySessions /\ DOMAIN bars \subseteq LibrarySessions
  BY DEF TypeOK
<1>3. Start \in Nat /\ End \in Nat
  BY EngineAssumption
<1>4. clock \in Nat
  <2>1. 0 \in Nat
    OBVIOUS
  <2>2. QED
    BY <1>1, <1>2, <2>1, Zenon
<1>5. DOMAIN bars \subseteq Nat
  BY <1>1, <1>2, Zenon
<1>6. QED
  BY <1>3, <1>4, <1>5

\* The equity curve, by the names the proof uses.
LEMMA CurveIs == CurveIsComplete <=> Ordered /\ Recorded = OpenDays(Until)
BY Zenon DEF CurveIsComplete, Ordered, Recorded, OpenDays, Until

\* The same of the next state.
LEMMA CurveIsNext == CurveIsComplete' <=> (Ordered /\ Recorded = OpenDays(Until))'
BY CurveIs, PTL

\* An engine that has not begun satisfies the invariant.
LEMMA InitBase == Init => BaseInv
<1> SUFFICES ASSUME Init PROVE BaseInv
  OBVIOUS
<1>1. TypeOK
  <2>1. history \in Seq(Snapshot) /\ ledger \in Seq(Executed)
    BY DEF Init
  <2>2. DOMAIN bars = {}
    BY DEF Init
  <2>3. QED
    BY <2>1, <2>2, EngineAssumption DEF Init, TypeOK, Phases
<1>2. DOMAIN bars = {} /\ DOMAIN history = {} /\ DOMAIN ledger = {}
  BY DEF Init
<1>3. ClockInv /\ MarkedInv /\ PendingInv /\ TablesInv
  BY <1>2, EngineAssumption DEF Init, ClockInv, MarkedInv, PendingInv, TablesInv, Day
<1>4. OpenDays(Until) = {}
  BY EngineAssumption, CalendarAssumption DEF Init, OpenDays, Until, IsTradingDay
<1>5. Ordered /\ Recorded = {}
  BY <1>2 DEF Ordered, Recorded
<1>6. QED
  BY <1>1, <1>3, <1>4, <1>5, CurveIs DEF BaseInv

\* run() sets up the first day: the portfolio is cash, and the curve is empty.
LEMMA BeginBase == BaseInv /\ Begin => BaseInv'
<1> SUFFICES ASSUME BaseInv, Begin PROVE BaseInv'
  OBVIOUS
<1> USE DEF BaseInv
<1>1. /\ phase = "new"
      /\ UNCHANGED <<clock, bars, cash, shares, marks, history, ledger, pending>>
  BY DEF Begin
<1>2. clock = 0 /\ history = <<>>
  BY <1>1 DEF ClockInv
<1>3. \/ phase' = "done" /\ rebalanceDays' = rebalanceDays /\ TradingDaysBetween(Start, End) = {}
      \/ phase' \in {"no_session", "data"} /\ rebalanceDays' \subseteq LibrarySessions
  <2>1. PICK dates \in Schedules :
          LET rolled == {RollToTradingDay(d) : d \in {e \in dates : Start <= e /\ e <= End}}
              days   == IF NoDate \in rolled THEN {} ELSE {d \in rolled : Start <= d /\ d <= End}
          IN  IF TradingDaysBetween(Start, End) = {}
                THEN phase' = "done" /\ UNCHANGED rebalanceDays
                ELSE /\ phase' = IF NoDate \in rolled THEN "no_session" ELSE "data"
                     /\ rebalanceDays' = days
    BY Zenon DEF Begin
  <2> DEFINE rolled == {RollToTradingDay(d) : d \in {e \in dates : Start <= e /\ e <= End}}
  <2>2. NoDate \notin rolled => rolled \subseteq LibrarySessions
    <3> SUFFICES ASSUME NoDate \notin rolled, NEW d \in dates, Start <= d, d <= End
                 PROVE  RollToTradingDay(d) \in LibrarySessions
      OBVIOUS
    <3>1. d \in Nat
      BY EngineAssumption
    <3>2. RollToTradingDay(d) # NoDate
      OBVIOUS
    <3>3. QED
      BY <3>1, <3>2, RolledIsOpen
  <2> HIDE DEF rolled
  <2>3. QED
    BY <2>1, <2>2 DEF rolled
<1>4. TypeOK'
  BY <1>1, <1>3 DEF TypeOK, Phases
<1>5. ClockInv' /\ MarkedInv' /\ PendingInv' /\ TablesInv'
  BY <1>1, <1>3 DEF ClockInv, MarkedInv, PendingInv, TablesInv, Day
<1>6. OpenDays(Until)' = {}
  <2>1. CASE phase' = "done" /\ TradingDaysBetween(Start, End) = {}
    <3>1. Start \in Int /\ End \in Int
      BY EngineAssumption
    <3>2. OpenDays(End) = {}
      BY <2>1, <3>1, SessionsAreOpen DEF OpenDays, TradingDaysBetween
    <3>3. QED
      BY <2>1, <3>2 DEF OpenDays, Until
  <2>2. CASE phase' \in {"no_session", "data"}
    <3>1. Until' \in {0, -1}
      BY <1>1, <1>2, <2>2 DEF Until
    <3>2. QED
      BY <3>1, EngineAssumption, CalendarAssumption DEF OpenDays, IsTradingDay
  <2>3. QED
    BY <1>3, <2>1, <2>2
<1>7. Ordered' /\ Recorded' = {}
  BY <1>1, <1>2 DEF Ordered, Recorded
<1>8. CurveIsComplete'
  BY <1>6, <1>7, CurveIsNext
<1>9. QED
  BY <1>4, <1>5, <1>8

\* The next session gets its prices; the rows and trades before it stay before it.
LEMMA NextSessionBase == BaseInv /\ NextSession => BaseInv'
<1> SUFFICES ASSUME BaseInv, NextSession PROVE BaseInv'
  OBVIOUS
<1> USE DEF BaseInv
<1> DEFINE later == SessionsInRange(clock + 1, End)
           next  == Min(later)
<1>1. phase = "data" /\ UNCHANGED <<rebalanceDays, cash, shares, marks, history, ledger, pending>>
  BY DEF NextSession
<1>2. clock \in Nat /\ clock + 1 \in Int /\ End \in Nat /\ Start \in Nat /\ clock <= End
  BY DatesAreNat DEF ClockInv
<1>3. /\ IsFiniteSet(later) /\ later \subseteq Int
      /\ \A d : d \in later <=> d \in Int /\ IsTradingDay(d) /\ clock + 1 <= d /\ d <= End
  BY <1>2, SessionsAreOpen
<1>4. Ordered /\ Recorded = OpenDays(clock)
  BY <1>1, CurveIs DEF Until
<1>5. CASE later = {} /\ phase' = "done" /\ UNCHANGED <<clock, bars>>
  <2>1. TypeOK' /\ ClockInv' /\ MarkedInv' /\ PendingInv' /\ TablesInv'
    BY <1>1, <1>5 DEF TypeOK, Phases, ClockInv, MarkedInv, PendingInv, TablesInv, Day
  <2>2. OpenDays(End) = OpenDays(clock)
    <3> HIDE DEF later
    <3> QED BY <1>2, <1>3, <1>5 DEF OpenDays
  <2>3. (OpenDays(Until))' = OpenDays(End)
    BY <1>5 DEF OpenDays, Until
  <2>4. Ordered' /\ Recorded' = Recorded
    BY <1>1, <1>4 DEF Ordered, Recorded
  <2>5. CurveIsComplete'
    BY <1>4, <2>2, <2>3, <2>4, CurveIsNext
  <2>6. QED
    BY <2>1, <2>5
<1>6. CASE later # {} /\ \E rows \in [Tickers -> Bars] :
             /\ clock' = next
             /\ bars' = [d \in DOMAIN bars \union {next} |-> IF d = next THEN rows ELSE bars[d]]
             /\ phase' = IF next >= Start THEN "mark" ELSE "data"
  <2>1. PICK rows \in [Tickers -> Bars] :
             /\ clock' = next
             /\ bars' = [d \in DOMAIN bars \union {next} |-> IF d = next THEN rows ELSE bars[d]]
             /\ phase' = IF next >= Start THEN "mark" ELSE "data"
    BY <1>6
  <2>2. next \in later /\ \A d \in later : next <= d
    <3> HIDE DEF later
    <3> QED BY <1>3, <1>6, MinIn
  <2>3. /\ next \in Int /\ IsTradingDay(next) /\ clock < next /\ next <= End
        /\ next \in LibrarySessions
    <3> HIDE DEF later
    <3> QED BY <1>2, <1>3, <2>2 DEF IsTradingDay
  <2>4. OpenDays(next - 1) = OpenDays(clock)
    <3> HIDE DEF next, later
    <3>1. \A d \in Int : IsTradingDay(d) => (d <= next - 1 <=> d <= clock)
      BY <1>2, <1>3, <2>2, <2>3
    <3>2. QED
      BY <1>2, <2>3, <3>1 DEF OpenDays
  <2> HIDE DEF next, later
  <2>5. TypeOK'
    <3>1. DOMAIN bars' \subseteq LibrarySessions
      BY <2>1, <2>3 DEF TypeOK
    <3>2. \A d \in DOMAIN bars' : bars'[d] \in [Tickers -> Bars]
      BY <2>1 DEF TypeOK
    <3>3. phase' \in Phases /\ clock' \in {0} \union LibrarySessions
      BY <2>1, <2>3 DEF Phases
    <3>4. QED
      BY <1>1, <3>1, <3>2, <3>3 DEF TypeOK
  <2>6. ClockInv'
    <3>1. \A d \in DOMAIN bars' : d <= clock'
      <4>1. \A d \in DOMAIN bars : d \in Int /\ d <= clock
        BY DatesAreNat DEF ClockInv
      <4>2. QED
        BY <1>2, <2>1, <2>3, <4>1
    <3>2. clock' \in DOMAIN bars' /\ IsTradingDay(clock')
      BY <2>1, <2>3
    <3>3. phase' # "new" /\ (phase' \in Day => Start <= clock')
      BY <1>2, <2>1, <2>3 DEF Day
    <3>4. clock' <= End
      BY <2>1, <2>3
    <3>5. QED
      BY <3>1, <3>2, <3>3, <3>4 DEF ClockInv, IsTradingDay
  <2>7. MarkedInv' /\ PendingInv'
    BY <2>1 DEF MarkedInv, PendingInv
  <2>8. TablesInv'
    <3>1. \A i \in DOMAIN ledger : ledger[i].day \in Int /\ ledger[i].day <= clock
      BY RowsAreTyped DEF TablesInv, Executed
    <3>2. \A i \in DOMAIN history : history[i].day \in Int /\ history[i].day <= clock
                                     /\ history[i].day \in DOMAIN bars
      BY RowsAreTyped DEF TablesInv, Snapshot
    <3>3. QED
      BY <1>1, <1>2, <2>1, <2>3, <3>1, <3>2 DEF TablesInv
  <2>9. (OpenDays(Until))' = OpenDays(clock)
    <3>1. CASE next >= Start
      <4>1. Until' = next - 1
        BY <2>1, <3>1 DEF Until
      <4>2. QED
        BY <2>4, <4>1 DEF OpenDays, IsTradingDay
    <3>2. CASE ~(next >= Start)
      <4>1. Until' = next
        BY <2>1, <3>2 DEF Until
      <4>2. Start..next = {} /\ Start..clock = {}
        BY <1>2, <2>3, <3>2
      <4>3. QED
        BY <4>1, <4>2 DEF OpenDays, IsTradingDay
    <3>3. QED
      BY <3>1, <3>2
  <2>10. Ordered' /\ Recorded' = Recorded
    BY <1>1, <1>4 DEF Ordered, Recorded
  <2>11. CurveIsComplete'
    BY <1>4, <2>9, <2>10, CurveIsNext
  <2>12. QED
    BY <2>5, <2>6, <2>7, <2>8, <2>11
<1>7. QED
  BY <1>5, <1>6 DEF NextSession

\* The curve stays complete while the day is being worked on.
LEMMA CurveKept ==
  ASSUME CurveIsComplete, UNCHANGED <<clock, history>>,
         phase \notin {"new", "data", "done"}, phase' \notin {"new", "data", "done"}
  PROVE  CurveIsComplete'
<1>1. Until = clock - 1 /\ Until' = clock - 1
  BY DEF Until
<1>2. Ordered /\ Recorded = OpenDays(clock - 1)
  BY <1>1, CurveIs
<1>3. (OpenDays(Until))' = OpenDays(clock - 1)
  BY <1>1 DEF OpenDays, IsTradingDay
<1>4. Ordered' /\ Recorded' = Recorded
  BY <1>2 DEF Ordered, Recorded
<1>5. QED
  BY <1>2, <1>3, <1>4, CurveIsNext

\* Marking gives every position the close of the day, or stops the run.
LEMMA MarkBase == BaseInv /\ MarkToMarket => BaseInv'
<1> SUFFICES ASSUME BaseInv, MarkToMarket PROVE BaseInv'
  OBVIOUS
<1> USE DEF BaseInv
<1>1. /\ phase = "mark" /\ phase' \in {"ask", "snapshot", "no_mark"}
      /\ UNCHANGED <<clock, bars, rebalanceDays, cash, shares, history, ledger, pending>>
  BY DEF MarkToMarket
<1>2. \/ phase' = "no_mark" /\ marks' = marks
      \/ /\ Held \subseteq Priced
         /\ marks' = [t \in Tickers |-> IF t \in Held THEN Close(t) ELSE marks[t]]
  BY DEF MarkToMarket
<1>3. clock \in DOMAIN bars
  BY <1>1 DEF ClockInv, Day
<1>4. marks' \in [Tickers -> Nat]
  <2>1. marks \in [Tickers -> Nat] /\ \A t \in Tickers : Close(t) \in Nat
    BY <1>3, ClosesOfTheDay DEF TypeOK
  <2>2. QED
    BY <1>2, <2>1
<1>5. TypeOK'
  BY <1>1, <1>4 DEF TypeOK, Phases
<1>6. ClockInv' /\ PendingInv' /\ TablesInv'
  BY <1>1 DEF ClockInv, PendingInv, TablesInv, Day
<1>7. MarkedInv'
  BY <1>1, <1>2 DEF MarkedInv, Held, Priced, Close
<1>8. CurveIsComplete'
  BY <1>1, CurveKept
<1>9. QED
  BY <1>5, <1>6, <1>7, <1>8

\* A rebalance leaves one trade at most for a ticker, of a ticker with a close.
LEMMA RebalanceBase ==
  ASSUME BaseInv, NEW target, Rebalance(target), IsTarget(target)
  PROVE  BaseInv'
<1> USE DEF BaseInv
<1>1. /\ phase = "ask" /\ phase' = "trade"
      /\ UNCHANGED <<clock, bars, rebalanceDays, cash, shares, marks, history, ledger>>
  BY DEF Rebalance
<1>2. PICK dust \in SUBSET Dust(target) : pending' = Diff(target, dust)
  BY DEF Rebalance
<1>3. clock \in DOMAIN bars
  BY <1>1 DEF ClockInv, Day
<1>4. /\ pending' \subseteq Trade
      /\ \A tr \in pending' : /\ tr.ticker \in Priced
                              /\ \A other \in pending' : other.ticker = tr.ticker => other = tr
  BY <1>2, <1>3, DiffIsOfPriced
<1>5. TypeOK'
  BY <1>1, <1>4 DEF TypeOK, Phases
<1>6. ClockInv' /\ TablesInv'
  BY <1>1 DEF ClockInv, TablesInv, Day
<1>7. PendingInv' /\ MarkedInv'
  <2>1. Priced' = Priced /\ Held' = Held /\ \A t : Close(t)' = Close(t)
    BY <1>1 DEF Priced, Held, Close
  <2>2. QED
    BY <1>1, <1>4, <2>1 DEF PendingInv, MarkedInv
<1>8. CurveIsComplete'
  BY <1>1, CurveKept
<1>9. QED
  BY <1>5, <1>6, <1>7, <1>8

\* Days on which the loop raises or goes on without touching a table.
LEMMA PhaseBase ==
  ASSUME BaseInv, phase \in {"ask", "trade"}, UNCHANGED <<clock, bars, rebalanceDays, cash, shares, marks, history, ledger, pending>>,
         phase' \in {"no_session", "no_volume", "short_sale", "snapshot"},
         phase' = "snapshot" => phase = "trade"
  PROVE  BaseInv'
<1> USE DEF BaseInv
<1>1. TypeOK'
  BY DEF TypeOK, Phases
<1>2. ClockInv' /\ TablesInv' /\ PendingInv'
  BY DEF ClockInv, TablesInv, PendingInv, Day
<1>3. MarkedInv'
  BY DEF MarkedInv, Held, Priced, Close
<1>4. CurveIsComplete'
  BY CurveKept
<1>5. QED
  BY <1>1, <1>2, <1>3, <1>4

\* What an executed trade does to the tables.
LEMMA LedgerGrows ==
  ASSUME TypeOK, ClockInv, phase = "trade", NEW tr \in pending, NEW cost \in Nat, Executes(tr, cost),
         tr.ticker \in Priced
  PROVE  /\ ledger' \in Seq(Executed)
         /\ DOMAIN ledger' = DOMAIN ledger \union {Len(ledger) + 1}
         /\ Len(ledger') = Len(ledger) + 1 /\ Len(ledger) + 1 \notin DOMAIN ledger
         /\ IsFiniteSet(DOMAIN ledger)
         /\ \A i \in DOMAIN ledger : ledger'[i] = ledger[i]
         /\ ledger'[Len(ledger) + 1] =
              [ticker |-> tr.ticker, day |-> clock, shares |-> tr.shares,
               price |-> Close(tr.ticker), cost |-> cost]
         /\ tr.ticker \in Tickers /\ tr.shares \in Int /\ Close(tr.ticker) \in Nat
<1> DEFINE row == [ticker |-> tr.ticker, day |-> clock, shares |-> tr.shares,
                   price |-> Close(tr.ticker), cost |-> cost]
<1>1. tr.ticker \in Tickers /\ tr.shares \in Int
  BY DEF TypeOK, Trade
<1>2. Close(tr.ticker) \in Nat /\ Close(tr.ticker) > 0
  BY <1>1, ClosesOfTheDay DEF ClockInv, Day
<1>3. row \in Executed
  BY <1>1, <1>2, DatesAreNat DEF Executed, Prices
<1>4. ledger' = Append(ledger, row) /\ ledger \in Seq(Executed)
  BY DEF Executes, TypeOK
<1> HIDE DEF row
<1>5. /\ ledger' \in Seq(Executed) /\ Len(ledger') = Len(ledger) + 1
      /\ \A i \in 1..Len(ledger) : ledger'[i] = ledger[i]
      /\ ledger'[Len(ledger) + 1] = row
  BY <1>3, <1>4, AppendProperties
<1>6. Len(ledger) \in Nat /\ DOMAIN ledger = 1..Len(ledger) /\ DOMAIN ledger' = 1..Len(ledger')
  BY <1>4, <1>5, LenProperties
<1>7. DOMAIN ledger' = DOMAIN ledger \union {Len(ledger) + 1} /\ Len(ledger) + 1 \notin DOMAIN ledger
  BY <1>5, <1>6
<1>8. IsFiniteSet(DOMAIN ledger)
  BY <1>6, FS_Interval
<1>9. QED
  BY <1>1, <1>2, <1>5, <1>6, <1>7, <1>8 DEF row

\* A trade is entered in the ledger of the day, and its position is marked at the close.
LEMMA ExecuteBase ==
  ASSUME BaseInv, phase = "trade", NEW tr \in pending, NEW cost \in Nat, Executes(tr, cost)
  PROVE  BaseInv'
<1> USE DEF BaseInv
<1>1. /\ UNCHANGED <<phase, clock, bars, rebalanceDays, history>>
      /\ pending' = pending \ {tr} /\ shares[tr.ticker] + tr.shares >= 0
      /\ cash' = cash - tr.shares * Close(tr.ticker) - cost
      /\ shares' = [shares EXCEPT ![tr.ticker] = @ + tr.shares]
      /\ marks' = [marks EXCEPT ![tr.ticker] = IF shares'[tr.ticker] = 0 THEN 0 ELSE Close(tr.ticker)]
  BY DEF Executes, Apply
<1>2. tr.ticker \in Priced
  BY DEF PendingInv
<1>3. /\ tr.ticker \in Tickers /\ tr.shares \in Int /\ Close(tr.ticker) \in Nat
      /\ ledger' \in Seq(Executed)
      /\ DOMAIN ledger' = DOMAIN ledger \union {Len(ledger) + 1}
      /\ \A i \in DOMAIN ledger : ledger'[i] = ledger[i]
      /\ ledger'[Len(ledger) + 1].day = clock
  <2>1. TypeOK /\ ClockInv
    OBVIOUS
  <2> HIDE DEF BaseInv
  <2>2. /\ tr.ticker \in Tickers /\ tr.shares \in Int /\ Close(tr.ticker) \in Nat
        /\ ledger' \in Seq(Executed)
        /\ DOMAIN ledger' = DOMAIN ledger \union {Len(ledger) + 1}
        /\ \A i \in DOMAIN ledger : ledger'[i] = ledger[i]
        /\ ledger'[Len(ledger) + 1] =
              [ticker |-> tr.ticker, day |-> clock, shares |-> tr.shares,
               price |-> Close(tr.ticker), cost |-> cost]
    BY <1>2, <2>1, LedgerGrows
  <2>3. QED
    BY <2>2
<1>4. shares' \in [Tickers -> Nat] /\ marks' \in [Tickers -> Nat] /\ cash' \in Int
  <2>1. shares \in [Tickers -> Nat] /\ marks \in [Tickers -> Nat] /\ cash \in Int
    BY DEF TypeOK
  <2>2. shares[tr.ticker] + tr.shares \in Nat
    BY <1>1, <1>3, <2>1
  <2>3. shares' \in [Tickers -> Nat]
    BY <1>1, <1>3, <2>1, <2>2
  <2>4. marks' \in [Tickers -> Nat]
    BY <1>1, <1>3, <2>1
  <2>5. tr.shares * Close(tr.ticker) \in Int
    BY <1>3
  <2>6. QED
    BY <1>1, <2>1, <2>3, <2>4, <2>5
<1>5. TypeOK'
  BY <1>1, <1>3, <1>4 DEF TypeOK, Phases
<1>6. ClockInv' /\ TablesInv'
  <2>1. ClockInv'
    BY <1>1 DEF ClockInv, Day
  <2>2. \A i \in DOMAIN ledger' : ledger'[i].day <= clock
    BY <1>3, DatesAreNat DEF TablesInv
  <2>3. QED
    BY <1>1, <2>1, <2>2 DEF TablesInv
<1>7. PendingInv'
  BY <1>1 DEF PendingInv, Priced
<1>8. MarkedInv'
  <2> SUFFICES ASSUME NEW t \in Tickers, shares'[t] # 0
               PROVE  t \in Priced /\ marks'[t] = Close(t)
    BY <1>1 DEF MarkedInv, Held, Priced, Close
  <2>1. shares \in [Tickers -> Nat] /\ marks \in [Tickers -> Nat]
    BY DEF TypeOK
  <2>2. CASE t = tr.ticker
    BY <1>1, <1>2, <2>1, <2>2
  <2>3. CASE t # tr.ticker
    <3>1. shares'[t] = shares[t] /\ marks'[t] = marks[t]
      BY <1>1, <2>1, <2>3
    <3>2. QED
      BY <3>1 DEF MarkedInv, Held
  <2>4. QED
    BY <2>2, <2>3
<1>9. CurveIsComplete'
  BY <1>1, CurveKept
<1>10. QED
  BY <1>5, <1>6, <1>7, <1>8, <1>9

\* What a snapshot does to the curve.
LEMMA HistoryGrows ==
  ASSUME TypeOK, RecordSnapshot
  PROVE  /\ history' \in Seq(Snapshot)
         /\ DOMAIN history = 1..Len(history) /\ Len(history) \in Nat
         /\ DOMAIN history' = 1..(Len(history) + 1)
         /\ \A i \in DOMAIN history : history'[i] = history[i]
         /\ history'[Len(history) + 1] =
              [day |-> clock, cash |-> cash, value |-> TotalValue, shares |-> shares]
<1> DEFINE row == [day |-> clock, cash |-> cash, value |-> TotalValue, shares |-> shares]
<1>1. row \in Snapshot
  BY ValuesAreInt, DatesAreNat DEF TypeOK, Snapshot
<1>2. history' = Append(history, row) /\ history \in Seq(Snapshot)
  BY DEF RecordSnapshot, TypeOK
<1> HIDE DEF row
<1>3. /\ history' \in Seq(Snapshot) /\ Len(history') = Len(history) + 1
      /\ \A i \in 1..Len(history) : history'[i] = history[i]
      /\ history'[Len(history) + 1] = row
  BY <1>1, <1>2, AppendProperties
<1>4. Len(history) \in Nat /\ DOMAIN history = 1..Len(history) /\ DOMAIN history' = 1..Len(history')
  BY <1>2, <1>3, LenProperties
<1>5. QED
  BY <1>3, <1>4 DEF row

\* The row of the day extends the curve to the day.
LEMMA SnapshotBase == BaseInv /\ RecordSnapshot => BaseInv'
<1> SUFFICES ASSUME BaseInv, RecordSnapshot PROVE BaseInv'
  OBVIOUS
<1>1. TypeOK /\ ClockInv /\ TablesInv /\ CurveIsComplete
  BY DEF BaseInv
<1>2. /\ phase = "snapshot" /\ phase' = "data"
      /\ UNCHANGED <<clock, bars, rebalanceDays, cash, shares, marks, ledger, pending>>
  BY DEF RecordSnapshot
<1>3. /\ history' \in Seq(Snapshot)
      /\ DOMAIN history = 1..Len(history) /\ Len(history) \in Nat
      /\ DOMAIN history' = 1..(Len(history) + 1)
      /\ \A i \in DOMAIN history : history'[i] = history[i]
      /\ history'[Len(history) + 1] =
           [day |-> clock, cash |-> cash, value |-> TotalValue, shares |-> shares]
  BY <1>1, HistoryGrows
<1> DEFINE last == Len(history) + 1
<1>4. last \in DOMAIN history' /\ DOMAIN history' = DOMAIN history \union {last}
      /\ history'[last].day = clock
  BY <1>3
<1>5. clock \in Nat /\ Start \in Nat /\ End \in Nat
  BY <1>1, DatesAreNat
<1>6. TypeOK'
  BY <1>1, <1>2, <1>3 DEF TypeOK, Phases
<1>7. ClockInv' /\ MarkedInv' /\ PendingInv'
  BY <1>1, <1>2 DEF ClockInv, MarkedInv, PendingInv, Day
<1>8. clock \in DOMAIN bars /\ IsTradingDay(clock) /\ Start <= clock
  BY <1>1, <1>2 DEF ClockInv, Day
<1>9. TablesInv'
  BY <1>1, <1>2, <1>3, <1>4, <1>5, <1>8 DEF TablesInv
<1>10. Ordered /\ Recorded = OpenDays(clock - 1)
  <2>1. Until = clock - 1
    BY <1>2 DEF Until
  <2>2. QED
    BY <1>1, <2>1, CurveIs
<1>11. \A i \in DOMAIN history : history[i].day \in Int /\ history[i].day < clock
  BY <1>5, <1>10 DEF Recorded, OpenDays
<1>12. Ordered'
  <2> SUFFICES ASSUME NEW i \in DOMAIN history', NEW j \in DOMAIN history', i < j
               PROVE  history'[i].day < history'[j].day
    BY DEF Ordered
  <2>1. i \in DOMAIN history
    BY <1>3
  <2>2. CASE j \in DOMAIN history
    BY <1>3, <1>10, <2>1, <2>2 DEF Ordered
  <2>3. CASE j = last
    BY <1>3, <1>4, <1>11, <2>1, <2>3
  <2>4. QED
    BY <1>4, <2>2, <2>3
<1>13. Recorded' = Recorded \union {clock}
  BY <1>3, <1>4 DEF Recorded
<1>14. (OpenDays(Until))' = OpenDays(clock - 1) \union {clock}
  <2>1. Until' = clock
    BY <1>2 DEF Until
  <2>2. OpenDays(clock) = OpenDays(clock - 1) \union {clock}
    BY <1>5, <1>8 DEF OpenDays
  <2>3. QED
    BY <2>1, <2>2 DEF OpenDays, IsTradingDay
<1>15. CurveIsComplete'
  BY <1>10, <1>12, <1>13, <1>14, CurveIsNext
<1>16. QED
  BY <1>6, <1>7, <1>9, <1>15 DEF BaseInv

\* A step that changes nothing keeps the invariant.
LEMMA StutterBase == BaseInv /\ UNCHANGED vars => BaseInv'
<1> SUFFICES ASSUME BaseInv, UNCHANGED vars PROVE BaseInv'
  OBVIOUS
<1> USE DEF BaseInv, vars
<1>1. TypeOK' /\ ClockInv' /\ TablesInv'
  BY DEF TypeOK, ClockInv, TablesInv
<1>2. MarkedInv' /\ PendingInv'
  BY DEF MarkedInv, PendingInv, Held, Priced, Close
<1>3. Ordered' = Ordered /\ Recorded' = Recorded /\ (OpenDays(Until))' = OpenDays(Until)
  BY DEF Ordered, Recorded, OpenDays, Until, IsTradingDay
<1>4. CurveIsComplete'
  BY <1>3, CurveIs, CurveIsNext
<1>5. QED
  BY <1>1, <1>2, <1>4

\* Every step of the engine keeps the invariant.
LEMMA NextBase == BaseInv /\ [Next]_allVars => BaseInv'
<1> SUFFICES ASSUME BaseInv, [Next]_allVars PROVE BaseInv'
  OBVIOUS
<1>1. CASE Begin
  BY <1>1, BeginBase
<1>2. CASE NextSession
  BY <1>2, NextSessionBase
<1>3. CASE MarkToMarket
  BY <1>3, MarkBase
<1>4. CASE NoSignalDate
  <2>1. phase = "ask" /\ phase' = "no_session" /\ UNCHANGED <<clock, bars, rebalanceDays, cash, shares, marks, history, ledger, pending>>
    BY <1>4 DEF NoSignalDate
  <2>2. QED
    BY <2>1, PhaseBase
<1>5. CASE Ask
  <2>1. \E target : Rebalance(target) /\ IsTarget(target)
    BY <1>5, AskRebalances DEF BaseInv
  <2>2. QED
    BY <2>1, RebalanceBase
<1>6. CASE ExecuteTrade
  <2>1. phase = "trade"
    BY <1>6 DEF ExecuteTrade
  <2>2. PICK tr \in pending :
           \/ /\ phase' \in {"no_volume", "short_sale"}
              /\ UNCHANGED <<cash, shares, marks, ledger, pending, clock, bars, rebalanceDays, history>>
           \/ \E cost \in Nat : Executes(tr, cost)
    BY <1>6, ExecuteCases DEF BaseInv
  <2>3. CASE \E cost \in Nat : Executes(tr, cost)
    BY <2>1, <2>3, ExecuteBase
  <2>4. CASE /\ phase' \in {"no_volume", "short_sale"}
             /\ UNCHANGED <<cash, shares, marks, ledger, pending, clock, bars, rebalanceDays, history>>
    BY <2>1, <2>4, PhaseBase
  <2>5. QED
    BY <2>2, <2>3, <2>4
<1>7. CASE EndRebalance
  <2>1. phase = "trade" /\ phase' = "snapshot" /\ UNCHANGED <<clock, bars, rebalanceDays, cash, shares, marks, history, ledger, pending>>
    BY <1>7 DEF EndRebalance
  <2>2. QED
    BY <2>1, PhaseBase
<1>8. CASE RecordSnapshot
  BY <1>8, SnapshotBase
<1>9. CASE UNCHANGED vars
  BY <1>9, StutterBase
<1>10. QED
  BY <1>1, <1>2, <1>3, <1>4, <1>5, <1>6, <1>7, <1>8, <1>9 DEF Next, Step, Returned, allVars

\* The invariant holds in every state of a backtest.
THEOREM BaseHolds == Spec => []BaseInv
<1>1. StrategyInit => BaseInv
  BY InitBase DEF StrategyInit
<1>2. QED
  BY <1>1, NextBase, PTL DEF Spec, allVars

\* Every variable keeps its type: a share count never falls below zero, whatever the
\* targets, and prices of trades are those of rows that exist.
THEOREM TypeCorrect == Spec => []TypeOK
<1>1. BaseInv => TypeOK
  BY DEF BaseInv
<1>2. QED
  BY <1>1, BaseHolds, PTL

\* The equity curve has one row per open day of the window, in order.
THEOREM CurveComplete == Spec => []CurveIsComplete
<1>1. BaseInv => CurveIsComplete
  BY DEF BaseInv
<1>2. QED
  BY <1>1, BaseHolds, PTL

---------------------------------------------------------------------------
(* The trade table explains the curve.                                     *)

Costs == [i \in DOMAIN ledger |-> ledger[i].cost]

\* The costs until a day are a sum over the trades until then.
LEMMA CostsUntilIs == ASSUME NEW day PROVE CostsUntil(day) = SumFunctionOnSet(Costs, TradesUntil(day))
BY Zenon DEF CostsUntil, Costs

\* Every sum over trades is one of numbers over a finite set.
LEMMA TradesAreFinite ==
  ASSUME TypeOK, NEW day
  PROVE  /\ IsFiniteSet(TradesUntil(day)) /\ TradesUntil(day) \subseteq DOMAIN ledger
         /\ \A i \in DOMAIN ledger : NetCash[i] \in Int /\ Quantity[i] \in Int /\ Costs[i] \in Nat
         /\ Cashflow(day) \in Int /\ CostsUntil(day) \in Nat
         /\ \A t \in Tickers : Bought(t, day) \in Int
<1>1. TradesUntil(day) \subseteq DOMAIN ledger
  BY DEF TradesUntil
<1>2. IsFiniteSet(DOMAIN ledger)
  BY RowsAreTyped, FS_Interval
<1>3. IsFiniteSet(TradesUntil(day))
  BY <1>1, <1>2, FS_Subset
<1>4. ASSUME NEW i \in DOMAIN ledger
      PROVE  NetCash[i] \in Int /\ Quantity[i] \in Int /\ Costs[i] \in Nat
  <2>1. ledger[i].shares \in Int /\ ledger[i].price \in Nat /\ ledger[i].cost \in Nat
    BY RowsAreTyped DEF Executed, Prices
  <2>2. -(ledger[i].shares * ledger[i].price) - ledger[i].cost \in Int
    BY <2>1
  <2>3. QED
    BY <2>1, <2>2 DEF NetCash, Quantity, Costs
<1>5. Cashflow(day) \in Int
  BY <1>1, <1>3, <1>4, SumIsInt DEF Cashflow
<1>6. CostsUntil(day) \in Nat
  BY <1>1, <1>3, <1>4, SumIsNat, CostsUntilIs
<1>7. ASSUME NEW t \in Tickers PROVE Bought(t, day) \in Int
  <2> DEFINE own == {i \in TradesUntil(day) : ledger[i].ticker = t}
  <2>1. own \subseteq DOMAIN ledger /\ IsFiniteSet(own)
    BY <1>1, <1>3, FS_Subset
  <2>2. Bought(t, day) = SumFunctionOnSet(Quantity, own)
    BY Zenon DEF Bought
  <2> HIDE DEF own
  <2>3. QED
    BY <1>4, <2>1, <2>2, SumIsInt
<1>8. QED
  BY <1>1, <1>3, <1>4, <1>5, <1>6, <1>7

\* A trade adds itself to the sums of its day, and to no sum of an earlier day.
LEMMA TradeIsAdded ==
  ASSUME TypeOK, ClockInv, PendingInv, TablesInv, phase = "trade",
         NEW tr \in pending, NEW cost \in Nat, Executes(tr, cost), NEW day \in Nat
  PROVE  /\ day < clock => /\ Cashflow(day)' = Cashflow(day)
                           /\ CostsUntil(day)' = CostsUntil(day)
                           /\ \A t \in Tickers : Bought(t, day)' = Bought(t, day)
         /\ day = clock =>
              /\ Cashflow(day)' = Cashflow(day) - tr.shares * Close(tr.ticker) - cost
              /\ CostsUntil(day)' = CostsUntil(day) + cost
              /\ \A t \in Tickers : Bought(t, day)' = Bought(t, day)
                                      + (IF t = tr.ticker THEN tr.shares ELSE 0)
<1> DEFINE new == Len(ledger) + 1
           row == [ticker |-> tr.ticker, day |-> clock, shares |-> tr.shares,
                   price |-> Close(tr.ticker), cost |-> cost]
<1>1. tr.ticker \in Priced
  BY DEF PendingInv
<1>2. /\ DOMAIN ledger' = DOMAIN ledger \union {new} /\ new \notin DOMAIN ledger
      /\ \A i \in DOMAIN ledger : ledger'[i] = ledger[i]
      /\ ledger'[new] = row
      /\ tr.ticker \in Tickers /\ tr.shares \in Int /\ Close(tr.ticker) \in Nat
  BY <1>1, LedgerGrows
<1>3. /\ row.ticker = tr.ticker /\ row.day = clock /\ row.shares = tr.shares
      /\ row.price = Close(tr.ticker) /\ row.cost = cost
  OBVIOUS
<1> HIDE DEF row, new
<1>4. /\ \A i \in DOMAIN ledger : NetCash'[i] = NetCash[i] /\ Quantity'[i] = Quantity[i]
                                  /\ Costs'[i] = Costs[i]
      /\ NetCash'[new] = -(tr.shares * Close(tr.ticker)) - cost
      /\ Quantity'[new] = tr.shares /\ Costs'[new] = cost
  BY <1>2, <1>3 DEF NetCash, Quantity, Costs
<1>5. clock \in Nat
  BY DatesAreNat
<1>6. /\ IsFiniteSet(TradesUntil(day)) /\ TradesUntil(day) \subseteq DOMAIN ledger
      /\ \A i \in DOMAIN ledger : NetCash[i] \in Int /\ Quantity[i] \in Int /\ Costs[i] \in Int
  BY TradesAreFinite
<1>7. \A i \in TradesUntil(day) :
        /\ NetCash[i] \in Int /\ NetCash'[i] = NetCash[i]
        /\ Quantity[i] \in Int /\ Quantity'[i] = Quantity[i]
        /\ Costs[i] \in Int /\ Costs'[i] = Costs[i]
        /\ ledger'[i] = ledger[i]
  BY <1>2, <1>4, <1>6
<1>8. new \notin TradesUntil(day)
  BY <1>2, <1>6
<1>9. CASE day < clock
  <2>1. TradesUntil(day)' = TradesUntil(day)
    BY <1>2, <1>3, <1>5, <1>9 DEF TradesUntil
  <2>2. Cashflow(day)' = Cashflow(day)
    BY <1>6, <1>7, <2>1, SumSame DEF Cashflow
  <2>3. CostsUntil(day)' = CostsUntil(day)
    <3>1. SumFunctionOnSet(Costs', TradesUntil(day)) = SumFunctionOnSet(Costs, TradesUntil(day))
      BY <1>6, <1>7, SumSame
    <3>2. CostsUntil(day)' = SumFunctionOnSet(Costs', TradesUntil(day)')
      BY Zenon DEF CostsUntil, Costs
    <3>3. QED
      BY <2>1, <3>1, <3>2, CostsUntilIs
  <2>4. ASSUME NEW t \in Tickers PROVE Bought(t, day)' = Bought(t, day)
    <3> DEFINE own == {i \in TradesUntil(day) : ledger[i].ticker = t}
    <3>1. IsFiniteSet(own) /\ \A i \in own : Quantity[i] = Quantity'[i]
      BY <1>6, <1>7, FS_Subset
    <3>2. {i \in TradesUntil(day)' : ledger'[i].ticker = t} = own
      BY <1>7, <2>1
    <3>3. Bought(t, day)' = SumFunctionOnSet(Quantity', own)
      BY <3>2 DEF Bought
    <3>4. Bought(t, day) = SumFunctionOnSet(Quantity, own)
      BY Zenon DEF Bought
    <3> HIDE DEF own
    <3>5. QED
      BY <3>1, <3>3, <3>4, SumSame
  <2>5. QED
    BY <1>5, <1>9, <2>2, <2>3, <2>4
<1>10. CASE day = clock
  <2>1. TradesUntil(day)' = TradesUntil(day) \union {new}
    BY <1>2, <1>3, <1>5, <1>10 DEF TradesUntil
  <2>2. Cashflow(day)' = Cashflow(day) - tr.shares * Close(tr.ticker) - cost
    <3>1. NetCash'[new] \in Int /\ tr.shares * Close(tr.ticker) \in Int
      BY <1>2, <1>4
    <3>2. SumFunctionOnSet(NetCash', TradesUntil(day) \union {new})
            = SumFunctionOnSet(NetCash, TradesUntil(day)) + NetCash'[new]
      BY <1>6, <1>7, <1>8, <3>1, SumGrows
    <3>3. Cashflow(day)' = Cashflow(day) + NetCash'[new]
      BY <2>1, <3>2, Zenon DEF Cashflow
    <3>4. Cashflow(day) \in Int
      BY TradesAreFinite
    <3>5. QED
      BY <1>4, <3>1, <3>3, <3>4
  <2>3. CostsUntil(day)' = CostsUntil(day) + cost
    <3>1. Costs'[new] \in Int
      BY <1>4
    <3>2. SumFunctionOnSet(Costs', TradesUntil(day) \union {new})
            = SumFunctionOnSet(Costs, TradesUntil(day)) + Costs'[new]
      BY <1>6, <1>7, <1>8, <3>1, SumGrows
    <3>3. CostsUntil(day)' = SumFunctionOnSet(Costs', TradesUntil(day)')
      BY Zenon DEF CostsUntil, Costs
    <3>4. QED
      BY <1>4, <2>1, <3>2, <3>3, CostsUntilIs
  <2>4. ASSUME NEW t \in Tickers
        PROVE  Bought(t, day)' = Bought(t, day) + (IF t = tr.ticker THEN tr.shares ELSE 0)
    <3> DEFINE own == {i \in TradesUntil(day) : ledger[i].ticker = t}
    <3>1. IsFiniteSet(own) /\ new \notin own
          /\ \A i \in own : Quantity[i] \in Int /\ Quantity'[i] = Quantity[i]
      BY <1>6, <1>7, <1>8, FS_Subset
    <3>2. {i \in TradesUntil(day)' : ledger'[i].ticker = t}
             = IF t = tr.ticker THEN own \union {new} ELSE own
      BY <1>2, <1>3, <1>7, <2>1
    <3>3. Bought(t, day)' = SumFunctionOnSet(Quantity',
                              IF t = tr.ticker THEN own \union {new} ELSE own)
      BY <3>2 DEF Bought
    <3>4. Bought(t, day) = SumFunctionOnSet(Quantity, own) /\ Bought(t, day) \in Int
      BY TradesAreFinite, Zenon DEF Bought
    <3> HIDE DEF own
    <3>5. CASE t = tr.ticker
      <4>1. SumFunctionOnSet(Quantity', own \union {new})
              = SumFunctionOnSet(Quantity, own) + Quantity'[new]
        BY <1>2, <1>4, <3>1, SumGrows
      <4>2. QED
        BY <1>4, <3>3, <3>4, <3>5, <4>1
    <3>6. CASE t # tr.ticker
      <4>1. SumFunctionOnSet(Quantity', own) = SumFunctionOnSet(Quantity, own)
        BY <3>1, SumSame
      <4>2. QED
        BY <3>3, <3>4, <3>6, <4>1
    <3>7. QED
      BY <3>5, <3>6
  <2>5. QED
    BY <1>5, <1>10, <2>2, <2>3, <2>4
<1>11. QED
  BY <1>9, <1>10

\* Every step leaves the books alone, or executes a trade, or records a row.
BooksKept ==
  /\ UNCHANGED <<cash, shares, ledger, history>>
  /\ clock' \in Nat /\ clock' >= clock
  /\ \A d \in DOMAIN bars : d \in DOMAIN bars' /\ bars'[d] = bars[d]

\* To the books a step is one of three: it leaves them alone, executes a trade, or writes
\* the row of the day.
LEMMA StepKinds ==
  ASSUME BaseInv, [Next]_allVars
  PROVE  \/ BooksKept
         \/ phase = "trade" /\ \E tr \in pending, cost \in Nat : Executes(tr, cost)
         \/ RecordSnapshot
<1>1. TypeOK /\ ClockInv /\ PendingInv
  BY DEF BaseInv
<1>2. clock \in Nat /\ DOMAIN bars \subseteq Nat
  BY <1>1, DatesAreNat
<1>3. ASSUME UNCHANGED <<clock, bars, cash, shares, ledger, history>> PROVE BooksKept
  BY <1>2, <1>3 DEF BooksKept
<1>4. CASE NextSession
  <2>1. UNCHANGED <<cash, shares, ledger, history>>
    BY <1>4 DEF NextSession
  <2>2. clock + 1 \in Int /\ End \in Int
    BY <1>1, <1>2, DatesAreNat
  <2> DEFINE later == SessionsInRange(clock + 1, End)
  <2>3. /\ IsFiniteSet(later) /\ later \subseteq Int
        /\ \A d \in later : clock + 1 <= d /\ d \in Nat
    BY <2>2, SessionsAreOpen
  <2>4. CASE UNCHANGED <<clock, bars>>
    BY <1>3, <2>1, <2>4
  <2>5. CASE later # {} /\ \E rows \in [Tickers -> Bars] :
               /\ clock' = Min(later)
               /\ bars' = [d \in DOMAIN bars \union {Min(later)} |->
                             IF d = Min(later) THEN rows ELSE bars[d]]
    <3>1. Min(later) \in later
      <4> HIDE DEF later
      <4> QED BY <2>3, <2>5, MinIn
    <3>2. clock' \in Nat /\ clock' > clock
      <4>1. clock' = Min(later)
        BY <2>5
      <4>2. Min(later) \in Nat /\ clock + 1 <= Min(later)
        BY <2>3, <3>1, Zenon
      <4> HIDE DEF later
      <4>3. QED
        BY <1>2, <4>1, <4>2
    <3>3. \A d \in DOMAIN bars : d \in DOMAIN bars' /\ bars'[d] = bars[d]
      <4> DEFINE next == Min(later)
      <4>1. \A d \in DOMAIN bars : d # next
        BY <1>1, <1>2, <2>5, <3>2 DEF ClockInv
      <4> HIDE DEF next
      <4>2. QED
        BY <2>5, <4>1 DEF next
    <3>4. QED
      BY <1>2, <2>1, <3>2, <3>3 DEF BooksKept
  <2>6. QED
    BY <1>4, <2>4, <2>5 DEF NextSession
<1>5. CASE Ask
  <2>1. \E target : Rebalance(target)
    BY <1>1, <1>5, AskRebalances
  <2>2. QED
    BY <1>3, <2>1 DEF Rebalance
<1>6. CASE ExecuteTrade
  BY <1>1, <1>3, <1>6, ExecuteCases DEF ExecuteTrade
<1>7. CASE Begin \/ MarkToMarket \/ NoSignalDate \/ EndRebalance \/ UNCHANGED vars
  BY <1>3, <1>7 DEF Begin, MarkToMarket, NoSignalDate, EndRebalance, vars
<1>8. QED
  BY <1>4, <1>5, <1>6, <1>7 DEF Next, Step, Returned, allVars

\* Without a trade the sums stay, and those of the clock's day are of all trades.
LEMMA LedgerKept ==
  ASSUME UNCHANGED ledger, NEW day
  PROVE  /\ Cashflow(day)' = Cashflow(day) /\ CostsUntil(day)' = CostsUntil(day)
         /\ \A t \in Tickers : Bought(t, day)' = Bought(t, day)
BY DEF Cashflow, CostsUntil, Bought, TradesUntil, NetCash, Quantity

\* No trade is later than the clock, so that sums until any later day are those until now.
LEMMA AllTrades ==
  ASSUME TypeOK, TablesInv, NEW day \in Nat, day >= clock
  PROVE  /\ Cashflow(day) = Cashflow(clock) /\ CostsUntil(day) = CostsUntil(clock)
         /\ \A t \in Tickers : Bought(t, day) = Bought(t, clock)
<1>1. \A i \in DOMAIN ledger : ledger[i].day \in Nat /\ ledger[i].day <= clock
  BY RowsAreTyped DEF TablesInv, Executed
<1>2. clock \in Nat
  BY DatesAreNat
<1>3. TradesUntil(day) = TradesUntil(clock)
  BY <1>1, <1>2 DEF TradesUntil
<1>4. QED
  BY <1>3, Zenon DEF Cashflow, CostsUntil, Bought

\* The rows written so far are of earlier days than the one being worked on.
LEMMA RowsAreEarlier ==
  ASSUME BaseInv, phase \in Day
  PROVE  \A i \in DOMAIN history : history[i].day \in Nat /\ history[i].day < clock
<1>1. Recorded = OpenDays(clock - 1)
  <2>1. Until = clock - 1
    BY DEF Until, Day
  <2>2. QED
    BY <2>1, CurveIs DEF BaseInv
<1>2. clock \in Nat /\ Start \in Nat
  BY DatesAreNat DEF BaseInv
<1>3. QED
  BY <1>1, <1>2 DEF Recorded, OpenDays

\* Cash and holdings are what the trades until a day have made of the initial cash.
BooksAre(day, money, holding) ==
  money = InitialCash + Cashflow(day) /\ \A t \in Tickers : holding[t] = Bought(t, day)

\* The books match the trades now and in every row.
LEMMA EquityIs ==
  EquityMatchesTrades <=>
    /\ BooksAre(clock, cash, shares)
    /\ \A i \in DOMAIN history : BooksAre(history[i].day, history[i].cash, history[i].shares)
BY Zenon DEF EquityMatchesTrades, BooksAre

\* The same of the next state.
LEMMA EquityIsNext ==
  EquityMatchesTrades' <=>
    ( /\ BooksAre(clock, cash, shares)
      /\ \A i \in DOMAIN history : BooksAre(history[i].day, history[i].cash, history[i].shares))'
BY EquityIs, PTL

\* The initial cash is what no trades leave.
LEMMA InitEquity == Init => EquityMatchesTrades
<1> SUFFICES ASSUME Init PROVE EquityMatchesTrades
  OBVIOUS
<1>1. DOMAIN history = {} /\ DOMAIN ledger = {}
  BY DEF Init
<1>2. TradesUntil(clock) = {}
  BY <1>1 DEF TradesUntil
<1>3. Cashflow(clock) = 0
  BY <1>2, SumEmpty DEF Cashflow
<1>4. \A t \in Tickers : Bought(t, clock) = 0
  <2> SUFFICES ASSUME NEW t \in Tickers PROVE Bought(t, clock) = 0
    OBVIOUS
  <2>1. {i \in TradesUntil(clock) : ledger[i].ticker = t} = {}
    BY <1>2
  <2>2. QED
    BY <2>1, SumEmpty DEF Bought
<1>5. BooksAre(clock, cash, shares)
  BY <1>3, <1>4, EngineAssumption DEF BooksAre, Init
<1>6. QED
  BY <1>1, <1>5, EquityIs

\* A trade changes the books and the sums alike; a row copies the books of its day.
LEMMA NextEquity == BaseInv /\ EquityMatchesTrades /\ [Next]_allVars => EquityMatchesTrades'
<1> SUFFICES ASSUME BaseInv, EquityMatchesTrades, [Next]_allVars PROVE EquityMatchesTrades'
  OBVIOUS
<1>1. TypeOK /\ ClockInv /\ PendingInv /\ TablesInv
  BY DEF BaseInv
<1>2. clock \in Nat
  BY <1>1, DatesAreNat
<1>3. /\ BooksAre(clock, cash, shares)
      /\ \A i \in DOMAIN history : BooksAre(history[i].day, history[i].cash, history[i].shares)
  BY EquityIs
<1>4. CASE BooksKept
  <2>1. PICK next \in Nat : clock' = next /\ next >= clock
    BY <1>4 DEF BooksKept
  <2>2. UNCHANGED <<cash, shares, ledger, history>>
    BY <1>4 DEF BooksKept
  <2>3. \A day, money, holding : BooksAre(day, money, holding)' <=> BooksAre(day, money, holding)
    BY <2>2, LedgerKept DEF BooksAre
  <2>4. BooksAre(next, cash, shares)
    BY <1>1, <1>3, <2>1, AllTrades DEF BooksAre
  <2>5. BooksAre(next, cash, shares)'
    BY <2>2, <2>4, LedgerKept DEF BooksAre
  <2>6. BooksAre(clock, cash, shares)'
    BY <2>1, <2>5 DEF BooksAre, Cashflow, Bought, TradesUntil
  <2>7. ASSUME NEW i \in DOMAIN history
        PROVE  BooksAre(history[i].day, history[i].cash, history[i].shares)'
    <3>1. PICK day, money, holding :
            day = history[i].day /\ money = history[i].cash /\ holding = history[i].shares
      OBVIOUS
    <3>2. BooksAre(day, money, holding)
      BY <1>3, <3>1
    <3>3. BooksAre(day, money, holding)'
      BY <2>3, <3>2
    <3>4. history'[i] = history[i]
      BY <2>2
    <3>5. QED
      BY <3>1, <3>3, <3>4 DEF BooksAre, Cashflow, Bought, TradesUntil
  <2>8. QED
    BY <2>2, <2>6, <2>7, EquityIsNext
<1>5. CASE phase = "trade" /\ \E tr \in pending, cost \in Nat : Executes(tr, cost)
  <2>1. PICK tr \in pending, cost \in Nat : Executes(tr, cost)
    BY <1>5
  <2>2. /\ UNCHANGED <<phase, clock, bars, rebalanceDays, history>>
        /\ cash' = cash - tr.shares * Close(tr.ticker) - cost
        /\ shares' = [shares EXCEPT ![tr.ticker] = @ + tr.shares]
    BY <2>1 DEF Executes, Apply
  <2>3. \A day \in Nat :
          /\ day < clock => /\ Cashflow(day)' = Cashflow(day)
                            /\ \A t \in Tickers : Bought(t, day)' = Bought(t, day)
          /\ day = clock =>
               /\ Cashflow(day)' = Cashflow(day) - tr.shares * Close(tr.ticker) - cost
               /\ \A t \in Tickers : Bought(t, day)' = Bought(t, day)
                                       + (IF t = tr.ticker THEN tr.shares ELSE 0)
    BY <1>1, <1>5, <2>1, TradeIsAdded
  <2>4. tr.ticker \in Tickers /\ tr.shares \in Int /\ Close(tr.ticker) \in Nat
    BY <1>1, <1>5, ClosesOfTheDay DEF TypeOK, Trade, ClockInv, Day
  <2>5. PICK today \in Nat : today = clock
    BY <1>2
  <2>6. BooksAre(today, cash, shares)'
    <3>1. Cashflow(today) \in Int /\ InitialCash \in Int /\ \A t \in Tickers : Bought(t, today) \in Int
      BY <1>1, TradesAreFinite, EngineAssumption
    <3>2. cash = InitialCash + Cashflow(today) /\ \A t \in Tickers : shares[t] = Bought(t, today)
      BY <1>3, <2>5 DEF BooksAre
    <3>3. tr.shares * Close(tr.ticker) \in Int
      BY <2>4
    <3>4. Cashflow(today)' = Cashflow(today) - tr.shares * Close(tr.ticker) - cost
      BY <2>3, <2>5
    <3>5. cash' = InitialCash + Cashflow(today)'
      BY <2>2, <3>1, <3>2, <3>3, <3>4
    <3>6. \A t \in Tickers : shares'[t] = shares[t] + (IF t = tr.ticker THEN tr.shares ELSE 0)
      BY <1>1, <2>2, <2>4 DEF TypeOK
    <3>7. \A t \in Tickers : shares'[t] = Bought(t, today)'
      BY <2>3, <2>5, <3>2, <3>6
    <3>8. QED
      BY <3>5, <3>7 DEF BooksAre
  <2>7. BooksAre(clock, cash, shares)'
    BY <2>2, <2>5, <2>6 DEF BooksAre, Cashflow, Bought, TradesUntil
  <2>8. ASSUME NEW i \in DOMAIN history
        PROVE  BooksAre(history[i].day, history[i].cash, history[i].shares)'
    <3>1. PICK day, money, holding :
            day = history[i].day /\ money = history[i].cash /\ holding = history[i].shares
      OBVIOUS
    <3>2. day \in Nat /\ day < clock
      BY <1>5, <3>1, RowsAreEarlier DEF Day
    <3>3. BooksAre(day, money, holding)
      BY <1>3, <3>1
    <3>4. BooksAre(day, money, holding)'
      BY <2>3, <3>2, <3>3 DEF BooksAre
    <3>5. history'[i] = history[i]
      BY <2>2
    <3>6. QED
      BY <3>1, <3>4, <3>5 DEF BooksAre, Cashflow, Bought, TradesUntil
  <2>9. QED
    BY <2>2, <2>7, <2>8, EquityIsNext
<1>6. CASE RecordSnapshot
  <2>1. UNCHANGED <<clock, cash, shares, ledger>>
    BY <1>6 DEF RecordSnapshot
  <2>2. /\ DOMAIN history = 1..Len(history) /\ Len(history) \in Nat
        /\ DOMAIN history' = 1..(Len(history) + 1)
        /\ \A i \in DOMAIN history : history'[i] = history[i]
        /\ history'[Len(history) + 1] =
             [day |-> clock, cash |-> cash, value |-> TotalValue, shares |-> shares]
    BY <1>1, <1>6, HistoryGrows
  <2>3. BooksAre(clock, cash, shares)'
    BY <1>3, <2>1 DEF BooksAre, Cashflow, Bought, TradesUntil, NetCash, Quantity
  <2>4. ASSUME NEW i \in DOMAIN history'
        PROVE  BooksAre(history[i].day, history[i].cash, history[i].shares)'
    <3>1. CASE i \in DOMAIN history
      <4>1. history'[i] = history[i] /\ BooksAre(history[i].day, history[i].cash, history[i].shares)
        BY <1>3, <2>2, <3>1
      <4>2. QED
        BY <2>1, <4>1 DEF BooksAre, Cashflow, Bought, TradesUntil, NetCash, Quantity
    <3>2. CASE i = Len(history) + 1
      <4>1. /\ history'[i].day = clock' /\ history'[i].cash = cash'
            /\ history'[i].shares = shares'
        BY <2>1, <2>2, <3>2
      <4>2. QED
        BY <2>3, <4>1 DEF BooksAre, Cashflow, Bought, TradesUntil
    <3>3. QED
      BY <2>2, <3>1, <3>2
  <2>5. QED
    BY <2>3, <2>4, EquityIsNext
<1>7. QED
  BY <1>4, <1>5, <1>6, StepKinds

\* Cash and holdings, now and on every row of the curve, are what the trades made of the
\* initial cash.
THEOREM EquityExplained == Spec => []EquityMatchesTrades
<1>1. StrategyInit => EquityMatchesTrades
  BY InitEquity DEF StrategyInit
<1>2. QED
  BY <1>1, NextEquity, BaseHolds, PTL DEF Spec, allVars

---------------------------------------------------------------------------
(* Every row is valued at the closes of its day.                            *)

RowIsMarked(row) ==
  /\ row.value = row.cash
       + SumFunction([t \in Tickers |-> row.shares[t] * bars[row.day][t].close])
  /\ \A t \in Tickers : row.shares[t] # 0 => bars[row.day][t] # NoBar

\* The rows are marked if each of them is.
LEMMA MarkedIs == SnapshotIsMarked <=> \A i \in DOMAIN history : RowIsMarked(history[i])
BY Zenon DEF SnapshotIsMarked, RowIsMarked

\* The same of the next state.
LEMMA MarkedIsNext == SnapshotIsMarked' <=> (\A i \in DOMAIN history : RowIsMarked(history[i]))'
BY MarkedIs, PTL

\* A row stays marked while the prices of its day stay.
LEMMA RowStaysMarked ==
  ASSUME NEW row, RowIsMarked(row), bars'[row.day] = bars[row.day]
  PROVE  RowIsMarked(row)'
BY DEF RowIsMarked, SumFunction

\* The row written at the end of a day is valued at the closes of the day.
LEMMA NewRowIsMarked ==
  ASSUME BaseInv, phase = "snapshot"
  PROVE  RowIsMarked([day |-> clock, cash |-> cash, value |-> TotalValue, shares |-> shares])
<1> DEFINE row    == [day |-> clock, cash |-> cash, value |-> TotalValue, shares |-> shares]
           marked == [t \in Tickers |-> MarketValue(t)]
           closed == [t \in Tickers |-> row.shares[t] * bars[row.day][t].close]
<1>1. /\ row.day = clock /\ row.cash = cash /\ row.value = TotalValue /\ row.shares = shares
  OBVIOUS
<1>2. \A t \in Tickers : shares[t] # 0 => bars[clock][t] # NoBar /\ marks[t] = bars[clock][t].close
  BY DEF BaseInv, MarkedInv, Held, Priced, Close
<1>3. \A t \in Tickers : shares[t] * marks[t] = shares[t] * bars[clock][t].close
  <2> SUFFICES ASSUME NEW t \in Tickers
               PROVE  shares[t] * marks[t] = shares[t] * bars[clock][t].close
    OBVIOUS
  <2>1. CASE shares[t] = 0
    <3>1. marks[t] \in Nat /\ bars[clock][t].close \in Nat
      BY ClosesOfTheDay DEF BaseInv, TypeOK, ClockInv, Day, Close
    <3>2. QED
      BY <2>1, <3>1
  <2>2. CASE shares[t] # 0
    BY <1>2, <2>2
  <2>3. QED
    BY <2>1, <2>2
<1>4. \A t \in Tickers : marked[t] = closed[t]
  BY <1>1, <1>3 DEF MarketValue
<1>5. DOMAIN marked = Tickers /\ DOMAIN closed = Tickers
  OBVIOUS
<1>6. marked = closed
  <2>1. marked = [t \in Tickers |-> marked[t]] /\ closed = [t \in Tickers |-> closed[t]]
    OBVIOUS
  <2> HIDE DEF marked, closed
  <2>2. QED
    BY <1>4, <2>1
<1>7. TotalValue = cash + SumFunction(closed)
  BY <1>6, Zenon DEF TotalValue
<1>8. row.value = row.cash + SumFunction(closed)
  BY <1>1, <1>7, Zenon
<1>9. \A t \in Tickers : row.shares[t] # 0 => bars[row.day][t] # NoBar
  BY <1>1, <1>2
<1>10. QED
  BY <1>8, <1>9, Zenon DEF RowIsMarked

\* Rows are never rewritten, nor are the prices of past days; the new row is marked.
LEMMA NextMarked == BaseInv /\ SnapshotIsMarked /\ [Next]_allVars => SnapshotIsMarked'
<1> SUFFICES ASSUME BaseInv, SnapshotIsMarked, [Next]_allVars PROVE SnapshotIsMarked'
  OBVIOUS
<1>1. \A i \in DOMAIN history : RowIsMarked(history[i]) /\ history[i].day \in DOMAIN bars
  BY MarkedIs DEF BaseInv, TablesInv
<1>2. ASSUME UNCHANGED history, \A d \in DOMAIN bars : bars'[d] = bars[d]
      PROVE  SnapshotIsMarked'
  <2>1. ASSUME NEW i \in DOMAIN history PROVE RowIsMarked(history[i])'
    <3>1. PICK row : row = history[i]
      OBVIOUS
    <3>2. RowIsMarked(row)'
      BY <1>1, <1>2, <3>1, RowStaysMarked
    <3>3. QED
      BY <1>2, <3>1, <3>2 DEF RowIsMarked
  <2>2. QED
    BY <1>2, <2>1, MarkedIsNext
<1>3. CASE RecordSnapshot
  <2>1. /\ \A i \in DOMAIN history : history'[i] = history[i]
        /\ DOMAIN history = 1..Len(history) /\ DOMAIN history' = 1..(Len(history) + 1)
        /\ Len(history) \in Nat
        /\ history'[Len(history) + 1] =
             [day |-> clock, cash |-> cash, value |-> TotalValue, shares |-> shares]
    BY <1>3, HistoryGrows DEF BaseInv
  <2>2. phase = "snapshot" /\ UNCHANGED bars
    BY <1>3 DEF RecordSnapshot
  <2>3. RowIsMarked(history'[Len(history) + 1])
    BY <2>1, <2>2, NewRowIsMarked
  <2>4. \A i \in DOMAIN history' : i \in DOMAIN history \/ i = Len(history) + 1
    BY <2>1
  <2>5. \A i \in DOMAIN history' : RowIsMarked(history'[i])
    BY <1>1, <2>1, <2>3, <2>4
  <2>6. ASSUME NEW i \in DOMAIN history' PROVE RowIsMarked(history[i])'
    <3>1. PICK row : row = history'[i]
      OBVIOUS
    <3>2. RowIsMarked(row)'
      BY <2>2, <2>5, <3>1, RowStaysMarked
    <3>3. QED
      BY <3>1, <3>2 DEF RowIsMarked
  <2>7. QED
    BY <2>6, MarkedIsNext
<1>4. CASE BooksKept
  BY <1>2, <1>4 DEF BooksKept
<1>5. CASE \E tr \in pending, cost \in Nat : Executes(tr, cost)
  BY <1>2, <1>5 DEF Executes
<1>6. QED
  BY <1>3, <1>4, <1>5, StepKinds

\* Every row of the curve is the cash and the positions at the closes of its own day.
THEOREM RowsAreMarked == Spec => []SnapshotIsMarked
<1>1. StrategyInit => SnapshotIsMarked
  <2>1. Init => DOMAIN history = {}
    BY DEF Init
  <2>2. QED
    BY <2>1, MarkedIs DEF StrategyInit
<1>2. QED
  BY <1>1, NextMarked, BaseHolds, PTL DEF Spec, allVars

---------------------------------------------------------------------------
(* A trade costs its cost and nothing else.                                 *)

\* Shares change hands at the close they are marked at: the portfolio loses the cost.
LEMMA TradeLosesCost ==
  ASSUME BaseInv, phase = "trade", NEW tr \in pending, NEW cost \in Nat, Executes(tr, cost)
  PROVE  TotalValue' = TotalValue - cost
<1>1. /\ TypeOK /\ TypeOK' /\ clock \in DOMAIN bars /\ UNCHANGED <<clock, bars>>
      /\ tr.ticker \in Tickers /\ tr.shares \in Int
      /\ \A t \in Tickers : shares[t] # 0 => marks[t] = Close(t)
  <2>1. BaseInv'
    BY ExecuteBase
  <2>2. QED
    BY <2>1 DEF BaseInv, ClockInv, MarkedInv, Held, Day, TypeOK, Trade, Executes
<1> DEFINE p      == Close(tr.ticker)
           before == [t \in Tickers |-> MarketValue(t)]
           after  == [t \in Tickers |-> MarketValue(t)']
<1>2. p \in Nat
  BY <1>1, ClosesOfTheDay
<1>3. /\ cash' = cash - tr.shares * p - cost
      /\ shares' = [shares EXCEPT ![tr.ticker] = @ + tr.shares]
      /\ marks' = [marks EXCEPT ![tr.ticker] = IF shares'[tr.ticker] = 0 THEN 0 ELSE p]
  BY DEF Executes, Apply
<1>4. \A t \in Tickers : before[t] \in Int /\ before[t] = MarketValue(t)
  BY <1>1, ValuesAreInt
<1>5. \A t \in Tickers : after[t] = shares'[t] * marks'[t]
  BY DEF MarketValue
<1>6. \A t \in Tickers \ {tr.ticker} : after[t] = before[t]
  BY <1>1, <1>3, <1>5 DEF MarketValue, TypeOK
<1>7. after[tr.ticker] = before[tr.ticker] + tr.shares * p /\ after[tr.ticker] \in Int
  <2> DEFINE n == shares[tr.ticker]
  <2>1. n \in Nat /\ marks[tr.ticker] \in Nat /\ shares'[tr.ticker] = n + tr.shares
    BY <1>1, <1>3 DEF TypeOK
  <2>2. marks'[tr.ticker] = IF n + tr.shares = 0 THEN 0 ELSE p
    BY <1>1, <1>3, <2>1 DEF TypeOK
  <2>3. after[tr.ticker] = (n + tr.shares) * p
    BY <1>1, <1>2, <1>5, <2>1, <2>2
  <2>4. before[tr.ticker] = n * p
    <3>1. before[tr.ticker] = n * marks[tr.ticker]
      BY <1>1, <1>4 DEF MarketValue
    <3>2. CASE n = 0
      BY <1>2, <2>1, <3>1, <3>2
    <3>3. CASE n # 0
      BY <1>1, <3>1, <3>3
    <3>4. QED
      BY <3>2, <3>3
  <2> HIDE DEF n, p
  <2>5. (n + tr.shares) * p = n * p + tr.shares * p /\ (n + tr.shares) * p \in Int
    BY <1>1, <1>2, <2>1
  <2>6. QED
    BY <2>3, <2>4, <2>5
<1>8. TotalValue = cash + SumFunctionOnSet(before, Tickers)
  BY <1>1, ValuesAreInt
<1>9. TotalValue' = cash' + SumFunctionOnSet(after, Tickers)
  <2>1. DOMAIN after = Tickers
    OBVIOUS
  <2>2. TotalValue' = cash' + SumFunction(after)
    BY DEF TotalValue, SumFunction
  <2>3. QED
    BY <2>1, <2>2, Zenon DEF SumFunction
<1> HIDE DEF before, after, p
<1>10. \A t \in Tickers : after[t] \in Int
  BY <1>4, <1>6, <1>7
<1>11. SumFunctionOnSet(after, Tickers)
         = SumFunctionOnSet(before, Tickers) + after[tr.ticker] - before[tr.ticker]
  BY <1>1, <1>4, <1>6, <1>10, TickersAreFinite, SumChange
<1>12. SumFunctionOnSet(before, Tickers) \in Int /\ cash \in Int /\ tr.shares * p \in Int
       /\ before[tr.ticker] \in Int
  <2>1. SumFunctionOnSet(before, Tickers) \in Int
    BY <1>4, TickersAreFinite, SumIsInt
  <2>2. cash \in Int
    BY <1>1 DEF TypeOK
  <2>3. QED
    BY <1>1, <1>2, <1>4, <2>1, <2>2
<1>13. QED
  BY <1>3, <1>7, <1>8, <1>9, <1>11, <1>12

\* What a step of the engine may do to the value and to the ledger.
LEMMA StepCosts == BaseInv /\ [Next]_allVars =>
  [/\ phase = "trade" =>
         TotalValue' = TotalValue - (IF ledger' = ledger THEN 0 ELSE ledger'[Len(ledger')].cost)
   /\ phase # "trade" => UNCHANGED <<cash, shares, ledger>>]_vars
<1> SUFFICES ASSUME BaseInv, [Next]_allVars, vars' # vars
             PROVE  /\ phase = "trade" =>
                         TotalValue' = TotalValue
                           - (IF ledger' = ledger THEN 0 ELSE ledger'[Len(ledger')].cost)
                    /\ phase # "trade" => UNCHANGED <<cash, shares, ledger>>
  OBVIOUS
<1>1. CASE phase = "trade"
  <2>1. TotalValue \in Int
    BY ValuesAreInt DEF BaseInv
  <2>2. ASSUME UNCHANGED <<cash, shares, marks, ledger>>
        PROVE  TotalValue' = TotalValue - (IF ledger' = ledger THEN 0 ELSE ledger'[Len(ledger')].cost)
    <3>1. TotalValue' = TotalValue
      BY <2>2 DEF TotalValue, SumFunction, MarketValue
    <3>2. QED
      BY <2>1, <2>2, <3>1
  <2>3. CASE EndRebalance
    BY <2>2, <2>3 DEF EndRebalance
  <2>4. CASE ExecuteTrade
    <3>1. PICK tr \in pending :
            \/ UNCHANGED <<cash, shares, marks, ledger>>
            \/ \E cost \in Nat : Executes(tr, cost)
      BY <2>4, ExecuteCases DEF BaseInv
    <3>2. ASSUME NEW cost \in Nat, Executes(tr, cost)
          PROVE  TotalValue' = TotalValue - (IF ledger' = ledger THEN 0 ELSE ledger'[Len(ledger')].cost)
      <4>1. TotalValue' = TotalValue - cost
        BY <1>1, <3>2, TradeLosesCost
      <4>2. tr.ticker \in Priced
        BY <1>1 DEF BaseInv, PendingInv
      <4>3. /\ Len(ledger') = Len(ledger) + 1
            /\ ledger'[Len(ledger) + 1] =
                 [ticker |-> tr.ticker, day |-> clock, shares |-> tr.shares,
                  price |-> Close(tr.ticker), cost |-> cost]
        BY <1>1, <3>2, <4>2, LedgerGrows DEF BaseInv
      <4>4. Len(ledger) \in Nat
        BY RowsAreTyped DEF BaseInv
      <4>5. ledger' # ledger
        BY <4>3, <4>4
      <4>6. ledger'[Len(ledger')].cost = cost
        BY <4>3
      <4>7. QED
        BY <4>1, <4>5, <4>6
    <3>3. CASE UNCHANGED <<cash, shares, marks, ledger>>
      BY <1>1, <2>2, <3>3
    <3>4. CASE \E cost \in Nat : Executes(tr, cost)
      <4>1. PICK cost \in Nat : Executes(tr, cost)
        BY <3>4
      <4>2. QED
        BY <1>1, <3>2, <4>1, Zenon
    <3>5. QED
      BY <3>1, <3>3, <3>4
  <2>5. QED
    BY <1>1, <2>3, <2>4 DEF Next, Step, Begin, NextSession, MarkToMarket, NoSignalDate,
       RecordSnapshot, Ask, Rebalance, Returned, Raised, allVars, vars
<1>2. CASE phase # "trade"
  <2>1. CASE Ask
    <3>1. \E target : Rebalance(target)
      BY <2>1, AskRebalances DEF BaseInv
    <3>2. QED
      BY <1>2, <3>1 DEF Rebalance
  <2>2. QED
    BY <1>2, <2>1 DEF Next, Step, Begin, NextSession, MarkToMarket, NoSignalDate, RecordSnapshot,
       ExecuteTrade, EndRebalance, Returned, allVars, vars
<1>3. QED
  BY <1>1, <1>2

\* A trade changes the value of the portfolio by its cost, and nothing but a trade touches
\* cash, share counts or the trade table.
THEOREM NothingElseIsLost == Spec => OnlyCostsAreLost
BY StepCosts, BaseHolds, PTL DEF Spec, OnlyCostsAreLost, allVars

---------------------------------------------------------------------------
(* The account is overdrawn by the costs at most.                           *)

\* What the trades still to execute will take from the cash, but for their costs.
Owed(trades, t) == IF \E tr \in trades : tr.ticker = t
                   THEN (CHOOSE tr \in trades : tr.ticker = t).shares ELSE 0

Due == SumFunctionOnSet([t \in Tickers |-> Owed(pending, t) * Close(t)], Tickers)

\* The cash would cover all costs so far, were all trades of the day executed.
CoveredInv ==
  /\ phase \notin Raised \union {"trade"} => cash >= -CostsUntil(clock)
  /\ phase = "trade" => cash - Due >= -CostsUntil(clock)

\* With one trade at most for a ticker, the shares owed of it are those of its trade.
LEMMA OwedIs ==
  ASSUME NEW trades, trades \subseteq Trade,
         \A tr, other \in trades : other.ticker = tr.ticker => other = tr
  PROVE  /\ \A tr \in trades : Owed(trades, tr.ticker) = tr.shares
         /\ \A t : (\A tr \in trades : tr.ticker # t) => Owed(trades, t) = 0
         /\ \A t : Owed(trades, t) \in Int
<1>1. ASSUME NEW tr \in trades PROVE Owed(trades, tr.ticker) = tr.shares
  BY Zenon DEF Owed
<1>2. \A t : (\A tr \in trades : tr.ticker # t) => Owed(trades, t) = 0
  BY Zenon DEF Owed
<1>3. ASSUME NEW t PROVE Owed(trades, t) \in Int
  <2>1. CASE \E tr \in trades : tr.ticker = t
    <3>1. PICK tr \in trades : tr.ticker = t
      BY <2>1
    <3>2. tr.shares \in Int
      BY DEF Trade
    <3>3. QED
      BY <1>1, <3>1, <3>2
  <2>2. CASE \A tr \in trades : tr.ticker # t
    BY <1>2, <2>2
  <2>3. QED
    BY <2>1, <2>2
<1>4. QED
  BY <1>1, <1>2, <1>3

\* A target of the kind that strategies answer is covered by the value of the portfolio, or
\* by what it has beyond its cash.
LEMMA TargetIsCovered ==
  ASSUME TypeOK, clock \in DOMAIN bars, NEW target, IsTarget(target),
         NEW worth, \A t \in Tickers : worth[t] = TargetShares(target, t) * Close(t)
  PROVE  /\ \A t \in Tickers : worth[t] \in Int
         /\ SumFunctionOnSet(worth, Tickers) \in Int
         /\ \/ SumFunctionOnSet(worth, Tickers) <= TotalValue
            \/ SumFunctionOnSet(worth, Tickers) <= TotalValue - cash
<1>1. IsFiniteSet(Tickers)
  BY TickersAreFinite
<1>2. \A t \in Tickers : worth[t] \in Int
  <2> SUFFICES ASSUME NEW t \in Tickers PROVE worth[t] \in Int
    OBVIOUS
  <2>1. TargetShares(target, t) \in Int /\ Close(t) \in Int
    BY TargetSharesFit, ClosesOfTheDay
  <2>2. QED
    BY <2>1
<1>3. SumFunctionOnSet(worth, Tickers) \in Int
  BY <1>1, <1>2, SumIsInt
<1>4. CASE IsLong(target) /\ (\/ SumFunctionOnSet(target, DOMAIN target) <= TotalValue
                              \/ SumFunctionOnSet(target, DOMAIN target) <= TotalValue - cash)
  <2> DEFINE S   == DOMAIN target
             all == [t \in Tickers |-> IF t \in S THEN target[t] ELSE 0]
  <2>1. S \subseteq Tickers /\ IsFiniteSet(S) /\ \A t \in S : target[t] \in Int
    BY TickersAreFinite DEF IsTarget
  <2>2. /\ \A t \in Tickers : all[t] \in Int /\ all[t] = IF t \in S THEN target[t] ELSE 0
        /\ \A t \in Tickers \ S : all[t] = 0
        /\ \A t \in S : all[t] = target[t]
    BY <2>1
  <2>3. \A t \in Tickers : worth[t] <= all[t]
    BY <1>4, <2>2, TargetSharesFit
  <2> HIDE DEF all
  <2>4. SumFunctionOnSet(worth, Tickers) <= SumFunctionOnSet(all, Tickers)
    BY <1>1, <1>2, <2>2, <2>3, SumMonotonic
  <2>5. SumFunctionOnSet(all, Tickers) = SumFunctionOnSet(all, S)
    BY <1>1, <2>1, <2>2, SumOverPart
  <2>6. SumFunctionOnSet(all, S) = SumFunctionOnSet(target, S)
    BY <2>1, <2>2, SumSame
  <2>7. SumFunctionOnSet(target, S) \in Int
    BY <2>1, SumIsInt
  <2>8. SumFunctionOnSet(worth, Tickers) <= SumFunctionOnSet(target, S)
    BY <2>4, <2>5, <2>6, Zenon
  <2>9. ASSUME NEW w \in Int, NEW s \in Int, NEW a \in Int, NEW b \in Int,
               w <= s, s <= a \/ s <= b
        PROVE  w <= a \/ w <= b
    BY <2>9
  <2>10. TotalValue \in Int /\ TotalValue - cash \in Int
    BY ValuesAreInt DEF TypeOK
  <2>11. QED
    BY <1>2, <1>3, <1>4, <2>7, <2>8, <2>9, <2>10
<1>5. CASE \A t \in DOMAIN target : target[t] <= 0
  <2> DEFINE none == [t \in Tickers |-> 0]
  <2>1. \A t \in Tickers : none[t] \in Int /\ none[t] = 0 /\ worth[t] <= none[t]
    BY <1>5, TargetSharesFit
  <2> HIDE DEF none
  <2>2. SumFunctionOnSet(worth, Tickers) <= SumFunctionOnSet(none, Tickers)
    BY <1>1, <1>2, <2>1, SumMonotonic
  <2>3. SumFunctionOnSet(none, Tickers) = 0
    BY <1>1, <2>1, SumZero
  <2>4. TotalValue - cash >= 0
    BY ValuesAreInt DEF TypeOK
  <2>5. ASSUME NEW w \in Int, NEW b \in Int, w <= 0, b >= 0 PROVE w <= b
    BY <2>5
  <2>6. SumFunctionOnSet(worth, Tickers) <= 0 /\ TotalValue - cash \in Int
    BY <2>2, <2>3, ValuesAreInt DEF TypeOK
  <2>7. QED
    BY <1>2, <1>3, <2>4, <2>5, <2>6
<1>6. QED
  BY <1>4, <1>5 DEF IsTarget

\* The trades of a rebalance cost what the account has, but for the costs paid before.
LEMMA RebalanceIsCovered ==
  ASSUME BaseInv, CoveredInv, NEW target, Rebalance(target), IsTarget(target)
  PROVE  cash - Due' >= -CostsUntil(clock)
<1>1. /\ phase = "ask" /\ clock \in DOMAIN bars /\ TypeOK
      /\ UNCHANGED <<clock, bars, cash, shares, marks, ledger>>
      /\ \A t \in Tickers : shares[t] # 0 => t \in Priced /\ marks[t] = Close(t)
  BY DEF Rebalance, BaseInv, ClockInv, Day, MarkedInv, Held
<1>2. PICK dust \in SUBSET Dust(target) : pending' = Diff(target, dust)
  BY DEF Rebalance
<1>3. /\ pending' \subseteq Trade
      /\ \A tr \in pending' :
           /\ tr.ticker \in Priced
           /\ tr.shares = TargetShares(target, tr.ticker) - shares[tr.ticker]
           /\ \A other \in pending' : other.ticker = tr.ticker => other = tr
      /\ \A t \in Priced : t \in Held \/ t \in DOMAIN target =>
           \/ TargetShares(target, t) = shares[t]
           \/ \E tr \in pending' : tr.ticker = t
  BY <1>1, <1>2, DiffIsOfPriced
<1>4. /\ \A tr \in pending' : Owed(pending', tr.ticker) = tr.shares
      /\ \A t : (\A tr \in pending' : tr.ticker # t) => Owed(pending', t) = 0
      /\ \A t : Owed(pending', t) \in Int
  BY <1>3, OwedIs
<1> DEFINE worth == [t \in Tickers |-> TargetShares(target, t) * Close(t)]
           value == [t \in Tickers |-> MarketValue(t)]
           due   == [t \in Tickers |-> Owed(pending', t) * Close(t)]
<1>5. ASSUME NEW t \in Tickers
      PROVE  /\ value[t] \in Int /\ due[t] \in Int /\ worth[t] = due[t] + value[t]
  <2>1. /\ TargetShares(target, t) \in Int /\ Close(t) \in Nat /\ shares[t] \in Int
        /\ Owed(pending', t) \in Int /\ marks[t] \in Nat
    BY <1>1, <1>4, TargetSharesFit, ClosesOfTheDay DEF TypeOK
  <2>2. value[t] = shares[t] * Close(t)
    <3>1. value[t] = shares[t] * marks[t]
      BY DEF MarketValue
    <3>2. CASE shares[t] = 0
      BY <2>1, <3>1, <3>2
    <3>3. CASE shares[t] # 0
      BY <1>1, <3>1, <3>3
    <3>4. QED
      BY <3>2, <3>3
  <2>3. Owed(pending', t) = TargetShares(target, t) - shares[t] \/ Close(t) = 0
    <3>1. CASE \E tr \in pending' : tr.ticker = t
      BY <1>3, <1>4, <3>1
    <3>2. CASE (\A tr \in pending' : tr.ticker # t) /\ t \in Priced
      <4>1. Owed(pending', t) = 0
        BY <1>4, <3>2
      <4>2. TargetShares(target, t) = shares[t]
        <5>1. CASE t \in Held \/ t \in DOMAIN target
          BY <1>3, <3>2, <5>1
        <5>2. CASE ~(t \in Held \/ t \in DOMAIN target)
          BY <1>1, <5>2, TargetSharesFit DEF Held
        <5>3. QED
          BY <5>1, <5>2
      <4>3. QED
        BY <2>1, <4>1, <4>2
    <3>3. CASE t \notin Priced
      BY <1>1, <3>3, ClosesOfTheDay
    <3>4. QED
      BY <3>1, <3>2, <3>3
  <2>4. ASSUME NEW o \in Int, NEW s \in Int, NEW w \in Int, NEW p \in Nat, o = w - s \/ p = 0
        PROVE  o * p \in Int /\ s * p \in Int /\ w * p = o * p + s * p
    BY <2>4
  <2>5. QED
    BY <2>1, <2>2, <2>3, <2>4
<1>6. \A t \in Tickers : worth[t] = TargetShares(target, t) * Close(t)
  OBVIOUS
<1>7. Due' = SumFunctionOnSet(due, Tickers)
  <2>1. \A t : Close(t)' = Close(t)
    BY <1>1 DEF Close
  <2>2. QED
    BY <2>1 DEF Due
<1>8. TotalValue = cash + SumFunctionOnSet(value, Tickers) /\ cash \in Int
  BY <1>1, ValuesAreInt DEF TypeOK
<1> HIDE DEF worth, value, due
<1>9. SumFunctionOnSet(worth, Tickers)
        = SumFunctionOnSet(due, Tickers) + SumFunctionOnSet(value, Tickers)
  BY <1>5, TickersAreFinite, SumPlus
<1>10. SumFunctionOnSet(due, Tickers) \in Int /\ SumFunctionOnSet(value, Tickers) \in Int
  BY <1>5, TickersAreFinite, SumIsInt
<1>11. \/ SumFunctionOnSet(worth, Tickers) <= TotalValue
       \/ SumFunctionOnSet(worth, Tickers) <= TotalValue - cash
  BY <1>1, <1>6, TargetIsCovered
<1>12. CostsUntil(clock) \in Nat /\ cash >= -CostsUntil(clock)
  BY <1>1, TradesAreFinite DEF CoveredInv, Raised
<1>13. ASSUME NEW c \in Int, NEW d \in Int, NEW v \in Int, NEW k \in Nat,
              d + v <= c + v \/ d + v <= v, c >= -k
       PROVE  c - d >= -k
  BY <1>13
<1>14. cash - SumFunctionOnSet(due, Tickers) >= -CostsUntil(clock)
  <2>1. cash + SumFunctionOnSet(value, Tickers) - cash = SumFunctionOnSet(value, Tickers)
    BY <1>8, <1>10
  <2>2. QED
    BY <1>8, <1>9, <1>10, <1>11, <1>12, <1>13, <2>1
<1>15. QED
  BY <1>7, <1>14

\* A trade takes from the cash what it was due, and its cost.
LEMMA TradeIsCovered ==
  ASSUME BaseInv, CoveredInv, phase = "trade",
         NEW tr \in pending, NEW cost \in Nat, Executes(tr, cost)
  PROVE  (cash - Due >= -CostsUntil(clock))'
<1>1. /\ TypeOK /\ ClockInv /\ PendingInv /\ TablesInv /\ clock \in DOMAIN bars
      /\ pending \subseteq Trade /\ tr.ticker \in Tickers /\ tr.shares \in Int
      /\ UNCHANGED <<clock, bars>> /\ pending' = pending \ {tr}
      /\ cash' = cash - tr.shares * Close(tr.ticker) - cost
  BY DEF BaseInv, ClockInv, Day, TypeOK, Trade, Executes, Apply
<1>2. \A x, other \in pending : other.ticker = x.ticker => other = x
  BY <1>1 DEF PendingInv
<1>3. /\ Owed(pending, tr.ticker) = tr.shares
      /\ \A x \in pending : Owed(pending, x.ticker) = x.shares
      /\ \A t : (\A x \in pending : x.ticker # t) => Owed(pending, t) = 0
      /\ \A t : Owed(pending, t) \in Int
  BY <1>1, <1>2, OwedIs
<1>4. /\ \A x \in pending' : Owed(pending', x.ticker) = x.shares
      /\ \A t : (\A x \in pending' : x.ticker # t) => Owed(pending', t) = 0
      /\ \A t : Owed(pending', t) \in Int
  <2>1. pending' \subseteq Trade /\ \A x, other \in pending' : other.ticker = x.ticker => other = x
    BY <1>1, <1>2
  <2>2. QED
    BY <2>1, OwedIs
<1>5. Owed(pending', tr.ticker) = 0
  BY <1>1, <1>2, <1>4
<1>6. ASSUME NEW t \in Tickers, t # tr.ticker PROVE Owed(pending', t) = Owed(pending, t)
  <2>1. CASE \E x \in pending : x.ticker = t
    <3>1. PICK x \in pending : x.ticker = t
      BY <2>1
    <3>2. x \in pending'
      BY <1>1, <1>6, <3>1
    <3>3. QED
      BY <1>3, <1>4, <3>1, <3>2
  <2>2. CASE \A x \in pending : x.ticker # t
    BY <1>1, <1>3, <1>4, <2>2
  <2>3. QED
    BY <2>1, <2>2
<1> DEFINE before == [t \in Tickers |-> Owed(pending, t) * Close(t)]
           after  == [t \in Tickers |-> Owed(pending', t) * Close(t)]
           p      == Close(tr.ticker)
<1>7. \A t \in Tickers : Close(t) \in Nat
  BY <1>1, ClosesOfTheDay
<1>8. /\ \A t \in Tickers : before[t] \in Int /\ after[t] \in Int
      /\ \A t \in Tickers \ {tr.ticker} : before[t] = after[t]
      /\ before[tr.ticker] = tr.shares * p /\ after[tr.ticker] = 0
  <2>1. ASSUME NEW o \in Int, NEW c \in Nat PROVE o * c \in Int /\ 0 * c = 0
    OBVIOUS
  <2>2. \A t \in Tickers : before[t] \in Int /\ after[t] \in Int
    BY <1>3, <1>4, <1>7, <2>1
  <2>3. \A t \in Tickers \ {tr.ticker} : before[t] = after[t]
    BY <1>6
  <2>4. before[tr.ticker] = tr.shares * p /\ after[tr.ticker] = 0
    BY <1>1, <1>3, <1>5, <1>7, <2>1
  <2>5. QED
    BY <2>2, <2>3, <2>4
<1>9. Due = SumFunctionOnSet(before, Tickers)
  BY Zenon DEF Due
<1>10. Due' = SumFunctionOnSet(after, Tickers)
  <2>1. \A t : Close(t)' = Close(t)
    BY <1>1 DEF Close
  <2>2. QED
    BY <2>1 DEF Due
<1>11. PICK today \in Nat : today = clock
  BY <1>1, DatesAreNat
<1>12. CostsUntil(clock)' = CostsUntil(clock) + cost
  <2>1. CostsUntil(today)' = CostsUntil(today) + cost
    BY <1>1, <1>11, TradeIsAdded
  <2>2. CostsUntil(clock)' = CostsUntil(today)'
    BY <1>1, <1>11 DEF CostsUntil, TradesUntil
  <2>3. QED
    BY <1>11, <2>1, <2>2
<1> HIDE DEF before, after, p
<1>13. Due' = Due - tr.shares * p
  <2>1. SumFunctionOnSet(after, Tickers)
          = SumFunctionOnSet(before, Tickers) + after[tr.ticker] - before[tr.ticker]
    BY <1>1, <1>8, TickersAreFinite, SumChange
  <2>2. SumFunctionOnSet(before, Tickers) \in Int /\ before[tr.ticker] \in Int
    BY <1>1, <1>8, TickersAreFinite, SumIsInt
  <2>3. QED
    BY <1>8, <1>9, <1>10, <2>1, <2>2
<1>14. Due \in Int /\ cash \in Int /\ tr.shares * p \in Int /\ CostsUntil(clock) \in Nat
  BY <1>1, <1>8, <1>9, TickersAreFinite, SumIsInt, TradesAreFinite DEF TypeOK
<1>15. cash - Due >= -CostsUntil(clock)
  BY DEF CoveredInv
<1>16. cash' = cash - tr.shares * p - cost
  BY <1>1 DEF p
<1>17. ASSUME NEW c \in Int, NEW d \in Int, NEW n \in Int, NEW k \in Nat, c - d >= -k
       PROVE  (c - n - cost) - (d - n) >= -(k + cost)
  BY <1>17
<1>18. cash' - Due' >= -(CostsUntil(clock) + cost)
  BY <1>13, <1>14, <1>15, <1>16, <1>17
<1>19. QED
  BY <1>12, <1>18

\* CostsUntil of the clock's day stays while no trade is executed.
LEMMA CostsStay ==
  ASSUME TypeOK, TablesInv, UNCHANGED ledger, clock' \in Nat, clock' >= clock
  PROVE  CostsUntil(clock)' = CostsUntil(clock)
<1>1. PICK next \in Nat : clock' = next /\ next >= clock
  OBVIOUS
<1>2. CostsUntil(next)' = CostsUntil(next) /\ CostsUntil(next) = CostsUntil(clock)
  BY <1>1, LedgerKept, AllTrades
<1>3. CostsUntil(clock)' = CostsUntil(next)'
  BY <1>1 DEF CostsUntil, TradesUntil
<1>4. QED
  BY <1>2, <1>3

\* Every step keeps the account covered but for the costs.
LEMMA NextCovered == BaseInv /\ CoveredInv /\ [Next]_allVars => CoveredInv'
<1> SUFFICES ASSUME BaseInv, CoveredInv, [Next]_allVars PROVE CoveredInv'
  OBVIOUS
<1>1. TypeOK /\ TablesInv /\ clock \in Nat
  BY DatesAreNat DEF BaseInv
<1>2. ASSUME phase \notin Raised \union {"trade"}, phase' # "trade",
             UNCHANGED <<cash, ledger>>, clock' \in Nat, clock' >= clock
      PROVE  CoveredInv'
  BY <1>1, <1>2, CostsStay DEF CoveredInv
<1>3. CASE Begin \/ MarkToMarket \/ RecordSnapshot \/ NoSignalDate
  <2>1. UNCHANGED <<cash, ledger, clock>> /\ phase \notin Raised \union {"trade"} /\ phase' # "trade"
    BY <1>3 DEF Begin, MarkToMarket, RecordSnapshot, NoSignalDate, Raised
  <2>2. QED
    BY <1>1, <1>2, <2>1
<1>4. CASE NextSession
  <2>1. BooksKept
    <3>1. \/ BooksKept
          \/ phase = "trade" /\ \E tr \in pending, cost \in Nat : Executes(tr, cost)
          \/ RecordSnapshot
      BY StepKinds
    <3>2. QED
      BY <1>4, <3>1 DEF NextSession, RecordSnapshot
  <2>2. phase \notin Raised \union {"trade"} /\ phase' # "trade"
    BY <1>4 DEF NextSession, Raised
  <2>3. QED
    BY <1>2, <2>1, <2>2 DEF BooksKept
<1>5. CASE Ask
  <2>1. PICK target : Rebalance(target) /\ IsTarget(target)
    BY <1>1, <1>5, AskRebalances
  <2>2. cash - Due' >= -CostsUntil(clock)
    BY <2>1, RebalanceIsCovered
  <2>3. phase' = "trade" /\ UNCHANGED <<cash, ledger, clock>>
    BY <2>1 DEF Rebalance
  <2>4. CostsUntil(clock)' = CostsUntil(clock)
    BY <1>1, <2>3, CostsStay
  <2>5. QED
    BY <2>2, <2>3, <2>4 DEF CoveredInv, Raised
<1>6. CASE ExecuteTrade
  <2>1. phase = "trade"
    BY <1>6 DEF ExecuteTrade
  <2>2. PICK tr \in pending :
          phase' \in {"no_volume", "short_sale"} \/ \E cost \in Nat : Executes(tr, cost)
    BY <1>6, ExecuteCases DEF BaseInv
  <2>3. CASE \E cost \in Nat : Executes(tr, cost)
    <3>1. (cash - Due >= -CostsUntil(clock))'
      BY <2>1, <2>3, TradeIsCovered
    <3>2. phase' = "trade"
      BY <2>1, <2>3 DEF Executes
    <3>3. QED
      BY <3>1, <3>2 DEF CoveredInv, Raised
  <2>4. CASE phase' \in {"no_volume", "short_sale"}
    BY <2>4 DEF CoveredInv, Raised
  <2>5. QED
    BY <2>2, <2>3, <2>4
<1>7. CASE EndRebalance
  <2>1. phase = "trade" /\ phase' = "snapshot" /\ pending = {} /\ UNCHANGED <<cash, ledger, clock>>
    BY <1>7 DEF EndRebalance
  <2> DEFINE due == [t \in Tickers |-> Owed(pending, t) * Close(t)]
  <2>2. \A t \in Tickers : due[t] = 0
    <3>1. \A t : Owed(pending, t) = 0
      BY <2>1 DEF Owed
    <3>2. \A t \in Tickers : Close(t) \in Nat
      BY <2>1, ClosesOfTheDay DEF BaseInv, ClockInv, Day
    <3>3. QED
      BY <3>1, <3>2
  <2>3. Due = SumFunctionOnSet(due, Tickers)
    BY Zenon DEF Due
  <2> HIDE DEF due
  <2>4. Due = 0
    BY <2>2, <2>3, TickersAreFinite, SumZero
  <2>5. cash >= -CostsUntil(clock)
    BY <1>1, <2>1, <2>4 DEF CoveredInv, TypeOK
  <2>6. QED
    BY <1>1, <2>1, <2>5, CostsStay DEF CoveredInv
<1>8. CASE UNCHANGED vars
  BY <1>8 DEF vars, CoveredInv, Due, Close, CostsUntil, TradesUntil
<1>9. QED
  BY <1>3, <1>4, <1>5, <1>6, <1>7, <1>8 DEF Next, Step, Returned, allVars

\* A new row is written when no trade is pending, with the cash that is covered then.
LEMMA NextOverdraft ==
  BaseInv /\ CoveredInv /\ OverdraftIsCosts /\ [Next]_allVars => OverdraftIsCosts'
<1> SUFFICES ASSUME BaseInv, CoveredInv, OverdraftIsCosts, [Next]_allVars
             PROVE  OverdraftIsCosts'
  OBVIOUS
<1>1. TypeOK /\ ClockInv /\ PendingInv /\ TablesInv
  BY DEF BaseInv
<1>2. ASSUME UNCHANGED <<history, ledger>> PROVE OverdraftIsCosts'
  BY <1>2 DEF OverdraftIsCosts, CostsUntil, TradesUntil
<1>3. CASE BooksKept
  BY <1>2, <1>3 DEF BooksKept
<1>4. CASE phase = "trade" /\ \E tr \in pending, cost \in Nat : Executes(tr, cost)
  <2>1. PICK tr \in pending, cost \in Nat : Executes(tr, cost)
    BY <1>4
  <2>2. UNCHANGED history
    BY <2>1 DEF Executes
  <2>3. ASSUME NEW i \in DOMAIN history
        PROVE  (history[i].cash >= -CostsUntil(history[i].day))'
    <3>1. PICK day \in Nat : day = history[i].day /\ day < clock
      BY <1>4, RowsAreEarlier DEF Day
    <3>2. CostsUntil(day)' = CostsUntil(day)
      BY <1>1, <1>4, <2>1, <3>1, TradeIsAdded
    <3>3. history'[i] = history[i]
      BY <2>2
    <3>4. CostsUntil(history[i].day)' = CostsUntil(day)'
      BY <3>1, <3>3 DEF CostsUntil, TradesUntil
    <3>5. history[i].cash >= -CostsUntil(day)
      BY <3>1 DEF OverdraftIsCosts
    <3>6. QED
      BY <3>2, <3>3, <3>4, <3>5
  <2>4. QED
    BY <2>2, <2>3 DEF OverdraftIsCosts
<1>5. CASE RecordSnapshot
  <2>1. /\ DOMAIN history = 1..Len(history) /\ Len(history) \in Nat
        /\ DOMAIN history' = 1..(Len(history) + 1)
        /\ \A i \in DOMAIN history : history'[i] = history[i]
        /\ history'[Len(history) + 1] =
             [day |-> clock, cash |-> cash, value |-> TotalValue, shares |-> shares]
    BY <1>1, <1>5, HistoryGrows
  <2>2. phase = "snapshot" /\ UNCHANGED ledger
    BY <1>5 DEF RecordSnapshot
  <2>3. \A day : CostsUntil(day)' = CostsUntil(day)
    BY <2>2, LedgerKept
  <2>4. cash >= -CostsUntil(clock)
    BY <2>2 DEF CoveredInv, Raised
  <2>5. ASSUME NEW i \in DOMAIN history'
        PROVE  (history[i].cash >= -CostsUntil(history[i].day))'
    <3>1. history'[i].cash >= -CostsUntil(history'[i].day)
      <4>1. CASE i \in DOMAIN history
        BY <2>1, <4>1 DEF OverdraftIsCosts
      <4>2. CASE i = Len(history) + 1
        BY <2>1, <2>4, <4>2
      <4>3. QED
        BY <2>1, <4>1, <4>2
    <3>2. CostsUntil(history[i].day)' = CostsUntil(history'[i].day)
      BY <2>2 DEF CostsUntil, TradesUntil
    <3>3. QED
      BY <3>1, <3>2
  <2>6. QED
    BY <2>5 DEF OverdraftIsCosts
<1>6. QED
  BY <1>3, <1>4, <1>5, StepKinds

\* At the end of no day is the account overdrawn by more than the costs paid until then,
\* for any strategy, any rates and any prices.
THEOREM OverdraftIsOfCosts == Spec => []OverdraftIsCosts
<1>1. StrategyInit => CoveredInv /\ OverdraftIsCosts
  <2> SUFFICES ASSUME StrategyInit PROVE CoveredInv /\ OverdraftIsCosts
    OBVIOUS
  <2>1. Init /\ TypeOK /\ phase = "new" /\ DOMAIN history = {}
    BY InitBase DEF StrategyInit, BaseInv, Init
  <2>2. CostsUntil(clock) \in Nat /\ cash \in Nat
    BY <2>1, TradesAreFinite, EngineAssumption DEF Init
  <2>3. QED
    BY <2>1, <2>2 DEF CoveredInv, OverdraftIsCosts
<1>2. QED
  BY <1>1, NextCovered, NextOverdraft, BaseHolds, PTL DEF Spec, allVars

---------------------------------------------------------------------------
(* What the strategies avoid.                                               *)

\* No trade of the day would leave a position below zero.
AllLong == \A tr \in pending : shares[tr.ticker] + tr.shares >= 0

\* The portfolio was worth less than nothing before the day's trades were charged.
Broke == TotalValue + CostsOn(clock) < 0

\* Before the trades of a day none of the table is of that day; while they are executed, none of
\* them is too large a sale, unless the portfolio was worth less than nothing before them.
LongInv == /\ phase \in {"mark", "ask"} => \A i \in DOMAIN ledger : ledger[i].day # clock
           /\ phase = "trade" => AllLong \/ Broke

\* The costs of a day of which nothing has been executed.
LEMMA NoCostsOn ==
  ASSUME NEW day, \A i \in DOMAIN ledger : ledger[i].day # day
  PROVE  CostsOn(day) = 0
<1>1. {i \in DOMAIN ledger : ledger[i].day = day} = {}
  OBVIOUS
<1>2. QED
  BY <1>1, SumEmpty DEF CostsOn

\* An executed trade adds its cost to those of the day.
LEMMA CostIsOnDay ==
  ASSUME TypeOK, ClockInv, PendingInv, phase = "trade",
         NEW tr \in pending, NEW cost \in Nat, Executes(tr, cost)
  PROVE  CostsOn(clock) \in Int /\ CostsOn(clock)' = CostsOn(clock) + cost
<1> DEFINE new == Len(ledger) + 1
           day == {i \in DOMAIN ledger : ledger[i].day = clock}
<1>1. tr.ticker \in Priced
  BY DEF PendingInv
<1>2. /\ DOMAIN ledger' = DOMAIN ledger \union {new} /\ new \notin DOMAIN ledger
      /\ \A i \in DOMAIN ledger : ledger'[i] = ledger[i]
      /\ ledger'[new].day = clock /\ ledger'[new].cost = cost
  <2>1. ledger'[new] = [ticker |-> tr.ticker, day |-> clock, shares |-> tr.shares,
                        price |-> Close(tr.ticker), cost |-> cost]
    BY <1>1, LedgerGrows
  <2>2. ledger'[new].day = clock /\ ledger'[new].cost = cost
    BY <2>1
  <2>3. QED
    BY <1>1, <2>2, LedgerGrows
<1>3. clock' = clock
  BY DEF Executes
<1>4. {i \in DOMAIN ledger' : ledger'[i].day = clock'} = day \union {new}
  BY <1>2, <1>3
<1>5. \A i \in day : Costs[i] \in Int /\ Costs'[i] = Costs[i]
  <2>1. \A i \in DOMAIN ledger : Costs[i] \in Int
    BY RowsAreTyped DEF Costs, Executed
  <2>2. QED
    BY <1>2, <2>1 DEF Costs
<1>6. Costs'[new] = cost
  BY <1>2 DEF Costs
<1>7. IsFiniteSet(day) /\ new \notin day
  <2>1. IsFiniteSet(DOMAIN ledger)
    <3>1. DOMAIN ledger = 1..Len(ledger) /\ Len(ledger) \in Nat
      BY DEF TypeOK
    <3>2. QED
      BY <3>1, FS_Interval
  <2>2. QED
    BY <1>2, <2>1, FS_Subset
<1>8. CostsOn(clock) = SumFunctionOnSet(Costs, day)
  BY DEF CostsOn, Costs
<1>9. CostsOn(clock)' = SumFunctionOnSet(Costs', day \union {new})
  BY <1>4 DEF CostsOn, Costs
<1> HIDE DEF day, new
<1>10. SumFunctionOnSet(Costs', day \union {new}) = SumFunctionOnSet(Costs, day) + cost
  BY <1>5, <1>6, <1>7, SumGrows
<1>11. SumFunctionOnSet(Costs, day) \in Int
  BY <1>5, <1>7, SumIsInt
<1>12. QED
  BY <1>8, <1>9, <1>10, <1>11

\* Targets above zero never ask for more shares to be sold than there are.
LEMMA RebalanceIsLong ==
  ASSUME TypeOK, phase = "ask", clock \in DOMAIN bars, NEW target, Rebalance(target),
         IsTarget(target), IsLong(target)
  PROVE  (\A tr \in pending : shares[tr.ticker] + tr.shares >= 0)'
<1>1. PICK dust \in SUBSET Dust(target) : pending' = Diff(target, dust)
  BY DEF Rebalance
<1>2. \A tr \in pending' : tr.ticker \in Priced
                           /\ tr.shares = TargetShares(target, tr.ticker) - shares[tr.ticker]
  BY <1>1, DiffIsOfPriced
<1>3. \A t \in Tickers : /\ TargetShares(target, t) \in Int /\ TargetShares(target, t) >= 0
                         /\ shares[t] \in Int
  BY TargetSharesFit DEF TypeOK
<1>4. \A t \in Priced : t \in Tickers
  BY DEF Priced
<1>5. \A tr \in pending' : shares[tr.ticker] + tr.shares >= 0
  BY <1>2, <1>3, <1>4
<1>6. UNCHANGED shares
  BY DEF Rebalance
<1>7. QED
  BY <1>5, <1>6

\* A portfolio that was worth something never has too large a sale among its trades.
LEMMA NextLong ==
  BaseInv /\ LongInv /\ NeverShort /\ [Next]_allVars => LongInv' /\ NeverShort'
<1> SUFFICES ASSUME BaseInv, LongInv, NeverShort, [Next]_allVars
             PROVE  LongInv' /\ NeverShort'
  OBVIOUS
<1>1. TypeOK /\ ClockInv /\ PendingInv /\ TablesInv
  BY DEF BaseInv
<1>2. ASSUME phase' \notin {"mark", "ask", "trade", "short_sale"} PROVE LongInv' /\ NeverShort'
  BY <1>2 DEF LongInv, NeverShort
<1>3. CASE Begin \/ NoSignalDate \/ EndRebalance \/ RecordSnapshot
  <2>1. phase' \notin {"mark", "ask", "trade", "short_sale"}
    BY <1>3 DEF Begin, NoSignalDate, EndRebalance, RecordSnapshot
  <2>2. QED
    BY <1>2, <2>1
<1>4. CASE NextSession
  <2>1. BooksKept
    <3>1. \/ BooksKept
          \/ phase = "trade" /\ \E tr \in pending, cost \in Nat : Executes(tr, cost)
          \/ RecordSnapshot
      BY StepKinds
    <3>2. QED
      BY <1>4, <3>1 DEF NextSession, RecordSnapshot
  <2>2. phase' \in {"done", "mark", "data"} /\ (clock' = clock => phase' = "done")
    <3> DEFINE later == SessionsInRange(clock + 1, End)
    <3>1. clock + 1 \in Int /\ End \in Int /\ clock \in Nat
      BY <1>1, DatesAreNat
    <3>2. /\ IsFiniteSet(later) /\ later \subseteq Int
          /\ \A d \in later : clock + 1 <= d
      BY <3>1, SessionsAreOpen
    <3>3. CASE later = {}
      BY <1>4, <3>3 DEF NextSession
    <3>4. CASE later # {}
      <4>1. clock' = Min(later) /\ phase' \in {"mark", "data"}
        BY <1>4, <3>4 DEF NextSession
      <4>2. Min(later) \in later
        <5> HIDE DEF later
        <5> QED BY <3>2, <3>4, MinIn
      <4> HIDE DEF later
      <4>3. clock' # clock
        BY <3>1, <3>2, <4>1, <4>2
      <4>4. QED
        BY <4>1, <4>3
    <3>5. QED
      BY <3>3, <3>4
  <2>3. CASE phase' = "mark"
    <3>1. clock' > clock /\ clock \in Nat /\ ledger' = ledger
      BY <1>1, <2>1, <2>2, <2>3, DatesAreNat DEF BooksKept
    <3>2. \A i \in DOMAIN ledger : ledger[i].day # clock'
      BY <1>1, <3>1, RowsAreTyped DEF TablesInv, Executed
    <3>3. QED
      BY <2>3, <3>1, <3>2 DEF LongInv, NeverShort
  <2>4. CASE phase' # "mark"
    BY <1>2, <2>2, <2>4
  <2>5. QED
    BY <2>3, <2>4
<1>5. CASE MarkToMarket
  <2>1. phase = "mark" /\ UNCHANGED <<ledger, clock>> /\ phase' \in {"ask", "snapshot", "no_mark"}
    BY <1>5 DEF MarkToMarket
  <2>2. QED
    BY <2>1 DEF LongInv, NeverShort
<1>6. CASE Ask
  <2>1. PICK target : Rebalance(target) /\ IsTarget(target) /\ (TotalValue >= 0 => IsLong(target))
    BY <1>1, <1>6, AskRebalances
  <2>2. /\ phase = "ask" /\ phase' = "trade" /\ clock \in DOMAIN bars
        /\ UNCHANGED <<cash, shares, marks, ledger, clock>>
    BY <1>1, <2>1 DEF Rebalance, ClockInv, Day
  <2>3. CASE TotalValue >= 0
    <3>1. AllLong'
      BY <1>1, <2>1, <2>2, <2>3, RebalanceIsLong DEF AllLong
    <3>2. QED
      BY <2>2, <3>1 DEF LongInv, NeverShort
  <2>4. CASE ~(TotalValue >= 0)
    <3>1. CostsOn(clock) = 0
      BY <2>2, NoCostsOn DEF LongInv
    <3>2. TotalValue + CostsOn(clock) < 0
      BY <1>1, <2>4, <3>1, ValuesAreInt
    <3>3. Broke'
      <4>1. CostsOn(clock)' = CostsOn(clock) /\ TotalValue' = TotalValue
        BY <2>2 DEF CostsOn, TotalValue, MarketValue
      <4>2. QED
        BY <3>2, <4>1 DEF Broke
    <3>4. QED
      BY <2>2, <3>3 DEF LongInv, NeverShort
  <2>5. QED
    BY <2>3, <2>4
<1>7. CASE ExecuteTrade
  <2>1. phase = "trade"
    BY <1>7 DEF ExecuteTrade
  <2>2. PICK tr \in pending :
          \/ phase' = "no_volume"
          \/ /\ phase' = "short_sale" /\ shares[tr.ticker] + tr.shares < 0
             /\ UNCHANGED <<cash, shares, marks, ledger, clock>>
          \/ \E cost \in Nat : Executes(tr, cost)
    BY <1>1, <1>7, ExecuteCases
  <2>3. CASE phase' = "no_volume"
    BY <1>2, <2>3
  <2>4. CASE /\ phase' = "short_sale" /\ shares[tr.ticker] + tr.shares < 0
             /\ UNCHANGED <<cash, shares, marks, ledger, clock>>
    <3>1. shares[tr.ticker] \in Int /\ tr.shares \in Int
      BY <1>1 DEF TypeOK, Trade
    <3>2. ~AllLong
      BY <2>4, <3>1 DEF AllLong
    <3>3. Broke
      BY <2>1, <3>2 DEF LongInv
    <3>4. CostsOn(clock)' = CostsOn(clock) /\ TotalValue' = TotalValue
      BY <2>4 DEF CostsOn, TotalValue, MarketValue
    <3>5. QED
      BY <2>4, <3>3, <3>4 DEF LongInv, NeverShort, Broke
  <2>5. CASE \E cost \in Nat : Executes(tr, cost)
    <3>1. PICK cost \in Nat : Executes(tr, cost)
      BY <2>5
    <3>2. /\ phase' = "trade" /\ pending' = pending \ {tr}
          /\ shares' = [shares EXCEPT ![tr.ticker] = @ + tr.shares]
      BY <2>1, <3>1 DEF Executes, Apply
    <3>3. CASE AllLong
      <4>1. \A other \in pending' : shares'[other.ticker] = shares[other.ticker]
        BY <1>1, <2>1, <3>2 DEF PendingInv, TypeOK, Trade
      <4>2. QED
        BY <3>2, <3>3, <4>1 DEF LongInv, NeverShort, AllLong
    <3>4. CASE Broke
      <4>1. TotalValue' = TotalValue - cost
        BY <2>1, <3>1, TradeLosesCost
      <4>2. CostsOn(clock) \in Int /\ CostsOn(clock)' = CostsOn(clock) + cost
        BY <1>1, <2>1, <3>1, CostIsOnDay
      <4>3. TotalValue \in Int
        BY <1>1, ValuesAreInt
      <4>4. (TotalValue + CostsOn(clock) < 0)'
        BY <3>4, <4>1, <4>2, <4>3 DEF Broke
      <4>5. QED
        BY <3>2, <4>4 DEF LongInv, NeverShort, Broke
    <3>5. QED
      BY <2>1, <3>3, <3>4 DEF LongInv
  <2>6. QED
    BY <2>2, <2>3, <2>4, <2>5
<1>8. CASE UNCHANGED vars
  BY <1>8 DEF vars, LongInv, NeverShort, AllLong, Broke, TotalValue, MarketValue, CostsOn
<1>9. QED
  BY <1>3, <1>4, <1>5, <1>6, <1>7, <1>8 DEF Next, Step, Returned, allVars

\* The engine is made to sell what it has not only by a portfolio that was worth less than
\* nothing before the day's trades: for the benchmark, the factor strategies and any other whose
\* weights are not negative and add up to 1 at most, for any rates, prices and gaps.
THEOREM NothingIsShorted == Spec => []NeverShort
<1>1. StrategyInit => LongInv /\ NeverShort
  BY DEF StrategyInit, Init, LongInv, NeverShort
<1>2. QED
  BY <1>1, NextLong, BaseHolds, PTL DEF Spec, allVars

\* The target of a frozen ticker is its market value, which its shares are worth already.
LEMMA NextFrozen == BaseInv /\ FrozenIsKept /\ [Next]_allVars => FrozenIsKept'
<1> SUFFICES ASSUME BaseInv, FrozenIsKept, [Next]_allVars,
                    strategy' = "equal_weight", phase' = "trade",
                    NEW tr \in pending', (tr.ticker \in Frozen)'
             PROVE  tr.shares = 0
  BY DEF FrozenIsKept
<1>1. TypeOK /\ ClockInv /\ PendingInv /\ MarkedInv
  BY DEF BaseInv
<1>2. strategy' = strategy
  BY DEF Next, allVars
<1>3. CASE Begin \/ NextSession \/ MarkToMarket \/ NoSignalDate \/ EndRebalance \/ RecordSnapshot
  BY <1>3 DEF Begin, NextSession, MarkToMarket, NoSignalDate, EndRebalance, RecordSnapshot
<1>4. CASE Ask
  <2>1. PICK target : /\ Rebalance(target) /\ IsTarget(target)
                      /\ \A t \in Frozen : t \in DOMAIN target /\ target[t] = MarketValue(t)
    BY <1>1, <1>2, <1>4, AskRebalances
  <2>2. phase = "ask" /\ clock \in DOMAIN bars
        /\ UNCHANGED <<clock, bars, cash, shares, marks>>
    BY <1>1, <2>1 DEF Rebalance, ClockInv, Day
  <2>3. tr.ticker \in Frozen
    BY <2>2 DEF Frozen, Universe, AsOf, Held, Available, Traded, Observed, MedianPositive,
       TotalValue, SumFunction, MarketValue
  <2>4. tr.ticker \in Tickers /\ shares[tr.ticker] # 0
    BY <2>3 DEF Frozen, Held
  <2>5. PICK dust \in SUBSET Dust(target) : pending' = Diff(target, dust)
    BY <2>1 DEF Rebalance
  <2>6. tr.shares = TargetShares(target, tr.ticker) - shares[tr.ticker]
    BY <1>1, <2>1, <2>2, <2>5, DiffIsOfPriced
  <2>7. Close(tr.ticker) \in Nat /\ Close(tr.ticker) > 0 /\ marks[tr.ticker] = Close(tr.ticker)
    BY <1>1, <2>2, <2>4, ClosesOfTheDay DEF MarkedInv, Held
  <2>8. TargetShares(target, tr.ticker)
          = (shares[tr.ticker] * Close(tr.ticker)) \div Close(tr.ticker)
    BY <2>1, <2>3, <2>7 DEF TargetShares, MarketValue
  <2>9. ASSUME NEW n \in Nat, NEW p \in Nat, p > 0 PROVE (n * p) \div p = n
    BY <2>9
  <2>10. shares[tr.ticker] \in Nat
    BY <1>1, <2>4 DEF TypeOK
  <2>11. TargetShares(target, tr.ticker) = shares[tr.ticker]
    BY <2>7, <2>8, <2>9, <2>10
  <2>12. QED
    BY <2>6, <2>10, <2>11
<1>5. CASE ExecuteTrade
  <2>1. phase = "trade"
    BY <1>5 DEF ExecuteTrade
  <2>2. PICK done \in pending, cost \in Nat : Executes(done, cost)
    BY <1>1, <1>5, ExecuteCases
  <2>3. /\ pending' = pending \ {done} /\ UNCHANGED <<clock, bars>>
        /\ shares' = [shares EXCEPT ![done.ticker] = @ + done.shares]
    BY <2>2 DEF Executes, Apply
  <2>4. tr \in pending /\ tr.ticker # done.ticker
    BY <1>1, <2>1, <2>3 DEF PendingInv
  <2>5. shares'[tr.ticker] = shares[tr.ticker]
    BY <1>1, <2>3, <2>4 DEF TypeOK
  <2>6. TotalValue' = TotalValue - cost /\ TotalValue \in Int
    BY <1>1, <2>1, <2>2, TradeLosesCost, ValuesAreInt
  <2>7. Universe' = Universe /\ Available' = Available
    BY <2>3 DEF Universe, AsOf, Available, Traded, Observed, MedianPositive
  <2>8. tr.ticker \in Frozen
    BY <2>5, <2>6, <2>7 DEF Frozen, Held
  <2>9. QED
    BY <1>2, <2>1, <2>4, <2>8 DEF FrozenIsKept
<1>6. CASE UNCHANGED vars
  BY <1>2, <1>6 DEF vars, FrozenIsKept, Frozen, Universe, AsOf, Held, Available, Traded,
     Observed, MedianPositive, TotalValue, SumFunction, MarketValue
<1>7. QED
  BY <1>3, <1>4, <1>5, <1>6 DEF Next, Step, Returned, allVars

\* The benchmark never trades a member whose position is frozen, whatever the trades of
\* the same day before it do to the value of the portfolio.
THEOREM FrozenStays == Spec => []FrozenIsKept
<1>1. StrategyInit => FrozenIsKept
  BY DEF StrategyInit, Init, FrozenIsKept
<1>2. QED
  BY <1>1, NextFrozen, BaseHolds, PTL DEF Spec, allVars

---------------------------------------------------------------------------
(* The reported drawdown.                                                   *)

\* Of the first rows there is one with the highest value of a function.
LEMMA HighestRow ==
  ASSUME NEW n \in Nat, n > 0, NEW f, \A i \in 1..n : f[i] \in Int
  PROVE  \E i \in 1..n : \A j \in 1..n : f[j] <= f[i]
<1> DEFINE R == {p \in (1..n) \X (1..n) : f[p[1]] >= f[p[2]]}
<1>1. \A i, j \in 1..n : <<i, j>> \in R <=> f[i] >= f[j]
  OBVIOUS
<1>2. IsFiniteSet(1..n) /\ 1 \in 1..n
  BY FS_Interval
<1> HIDE DEF R
<1>3. ASSUME NEW i \in 1..n, NEW j \in 1..n PROVE <<i, j>> \in R \/ <<j, i>> \in R
  <2>1. f[i] >= f[j] \/ f[j] >= f[i]
    OBVIOUS
  <2>2. QED
    BY <1>1, <2>1
<1>4. ASSUME NEW i \in 1..n, NEW j \in 1..n, NEW k \in 1..n, <<i, j>> \in R, <<j, k>> \in R
      PROVE  <<i, k>> \in R
  <2>1. f[i] >= f[j] /\ f[j] >= f[k] /\ f[i] \in Int /\ f[j] \in Int /\ f[k] \in Int
    BY <1>1, <1>4
  <2>2. QED
    BY <1>1, <2>1
<1>5. \E i \in 1..n : \A j \in 1..n : <<i, j>> \in R
  <2> DEFINE T == 1..n
  <2>1. IsFiniteSet(T) /\ T # {}
    BY <1>2
  <2>2. \A i, j \in T : <<i, j>> \in R \/ <<j, i>> \in R
    BY <1>3
  <2>3. \A i, j, k \in T : <<i, j>> \in R /\ <<j, k>> \in R => <<i, k>> \in R
    BY <1>4
  <2> HIDE DEF T
  <2>4. \E i \in T : \A j \in T : <<i, j>> \in R
    BY <2>1, <2>2, <2>3, BestMember
  <2>5. QED
    BY <2>4 DEF T
<1>6. PICK i \in 1..n : \A j \in 1..n : <<i, j>> \in R
  BY <1>5
<1>7. \A j \in 1..n : f[j] <= f[i]
  BY <1>1, <1>6
<1>8. QED
  BY <1>7

\* The running peak is the value of an earlier row, and not below any of them.
LEMMA PeakIs ==
  ASSUME TypeOK, NEW i \in DOMAIN history
  PROVE  /\ i \in Nat /\ i > 0 /\ 1..i \subseteq DOMAIN history
         /\ \A j \in DOMAIN history : Equity[j] \in Int /\ Equity[j] = history[j].value
         /\ Peak(i) \in Int
         /\ \A j \in 1..i : Equity[j] <= Peak(i)
         /\ \E j \in 1..i : Peak(i) = Equity[j]
<1>1. Len(history) \in Nat /\ DOMAIN history = 1..Len(history)
  BY RowsAreTyped
<1>2. i \in Nat /\ i > 0 /\ 1..i \subseteq DOMAIN history
  BY <1>1
<1>3. \A j \in DOMAIN history : Equity[j] \in Int /\ Equity[j] = history[j].value
  BY RowsAreTyped DEF Equity, Snapshot
<1>4. \A j \in 1..i : Equity[j] \in Int
  BY <1>2, <1>3
<1>5. PICK j \in 1..i : \A k \in 1..i : Equity[k] <= Equity[j]
  BY <1>2, <1>4, HighestRow
<1> DEFINE S == {Equity[k] : k \in 1..i}
<1>6. Equity[j] \in S /\ \A y \in S : Equity[j] >= y
  BY <1>4, <1>5
<1>7. Max(S) \in S /\ \A y \in S : Max(S) >= y
  BY <1>6 DEF Max
<1>8. Peak(i) = Max(S)
  BY Zenon DEF Peak
<1>9. QED
  BY <1>2, <1>3, <1>4, <1>7, <1>8

\* Multiplication keeps the order of numbers.
LEMMA MultiplyKeeps ==
  ASSUME NEW x \in Nat, NEW y \in Nat, NEW z \in Nat, x <= y
  PROVE  x * z <= y * z
OBVIOUS

\* So does division by a number above zero.
LEMMA DivideKeeps ==
  ASSUME NEW x \in Nat, NEW y \in Nat, NEW q \in Nat, q > 0, q * x <= q * y
  PROVE  x <= y
OBVIOUS

\* Ratios of natural numbers are ordered.
LEMMA RatiosAreOrdered ==
  ASSUME NEW a \in Nat, NEW b \in Nat, NEW c \in Nat, NEW p \in Nat, NEW q \in Nat, NEW r \in Nat,
         q > 0, a * q <= b * p, b * r <= c * q
  PROVE  a * r <= c * p
<1>1. (a * q) * r <= (b * p) * r
  BY MultiplyKeeps
<1>2. (b * r) * p <= (c * q) * p
  BY MultiplyKeeps
<1>3. q * (a * r) <= q * (c * p)
  BY <1>1, <1>2
<1>4. QED
  BY <1>3, DivideKeeps

\* There is a row of the deepest drawdown.
LEMMA TroughIs ==
  ASSUME TypeOK, NoDebt, history # <<>>
  PROVE  Trough \in DOMAIN history /\ \A j \in DOMAIN history : ~Deeper(j, Trough)
<1> DEFINE T     == DOMAIN history
           worst == {i \in T : \A j \in T : ~Deeper(j, i)}
<1>1. Len(history) \in Nat /\ T = 1..Len(history) /\ Len(history) > 0
  BY RowsAreTyped, EmptySeq DEF TypeOK
<1>2. IsFiniteSet(T) /\ 1 \in T
  BY <1>1, FS_Interval
<1>3. \A i \in T : /\ Equity[i] \in Nat /\ Peak(i) \in Nat
                   /\ \A j \in 1..i : Equity[j] <= Peak(i)
  BY PeakIs DEF NoDebt
<1>4. Peak(1) = Equity[1]
  <2>1. \E j \in 1..1 : Peak(1) = Equity[j]
    BY <1>2, PeakIs
  <2>2. QED
    BY <2>1
<1>5. CASE Equity[1] = 0
  <2>1. \A j \in T : ~Deeper(j, 1)
    BY <1>2, <1>3, <1>4, <1>5 DEF Deeper
  <2>2. worst # {}
    BY <1>2, <2>1
  <2>3. worst \subseteq Int /\ IsFiniteSet(worst)
    BY <1>1, <1>2, FS_Subset
  <2>4. Min(worst) \in worst
    <3> HIDE DEF worst
    <3> QED BY <2>2, <2>3, MinIn
  <2>5. Trough = Min(worst)
    BY Zenon DEF Trough
  <2>6. QED
    BY <2>4, <2>5
<1>6. CASE Equity[1] # 0
  <2>1. \A i \in T : Peak(i) > 0
    <3> SUFFICES ASSUME NEW i \in T PROVE Peak(i) > 0
      OBVIOUS
    <3>1. 1 \in 1..i
      BY <1>1
    <3>2. Equity[1] <= Peak(i) /\ Equity[1] > 0
      BY <1>2, <1>3, <1>6, <3>1
    <3>3. QED
      BY <1>2, <1>3, <3>2
  <2> DEFINE R == {p \in T \X T : Equity[p[1]] * Peak(p[2]) <= Equity[p[2]] * Peak(p[1])}
  <2>2. \A i, j \in T : <<i, j>> \in R <=> Equity[i] * Peak(j) <= Equity[j] * Peak(i)
    BY Zenon DEF R
  <2> HIDE DEF R, T
  <2>3. ASSUME NEW i \in T, NEW j \in T PROVE <<i, j>> \in R \/ <<j, i>> \in R
    <3>1. ASSUME NEW x \in Int, NEW y \in Int PROVE x <= y \/ y <= x
      OBVIOUS
    <3>2. Equity[i] * Peak(j) \in Int /\ Equity[j] * Peak(i) \in Int
      BY <1>3
    <3>3. QED
      BY <2>2, <3>1, <3>2
  <2>4. ASSUME NEW i \in T, NEW j \in T, NEW k \in T, <<i, j>> \in R, <<j, k>> \in R
        PROVE  <<i, k>> \in R
    BY <1>3, <2>1, <2>2, <2>4, RatiosAreOrdered
  <2>5. \E i \in T : \A j \in T : <<i, j>> \in R
    BY <1>2, <2>3, <2>4, BestMember
  <2>6. PICK i \in T : \A j \in T : <<i, j>> \in R
    BY <2>5
  <2>7. \A j \in T : ~Deeper(j, i)
    <3> SUFFICES ASSUME NEW j \in T PROVE ~(Equity[j] * Peak(i) < Equity[i] * Peak(j))
      BY DEF Deeper
    <3>1. Equity[i] * Peak(j) <= Equity[j] * Peak(i)
      BY <2>2, <2>6
    <3>2. Equity[i] * Peak(j) \in Int /\ Equity[j] * Peak(i) \in Int
      BY <1>3
    <3>3. QED
      BY <3>1, <3>2
  <2>8. worst # {}
    BY <2>7
  <2>9. worst \subseteq Int /\ IsFiniteSet(worst)
    BY <1>1, <1>2, FS_Subset
  <2>10. Min(worst) \in worst
    <3> HIDE DEF worst
    <3> QED BY <2>8, <2>9, MinIn
  <2>11. Trough = Min(worst)
    BY Zenon DEF Trough, T
  <2>12. QED
    BY <2>10, <2>11 DEF T
<1>7. QED
  BY <1>5, <1>6

\* The row of the peak is the first with the highest value up to the trough.
LEMMA PeakRowIs ==
  ASSUME TypeOK, Trough \in DOMAIN history
  PROVE  PeakRow \in 1..Trough /\ Equity[PeakRow] = Peak(Trough)
         /\ \A j \in 1..Trough : Equity[j] <= Equity[PeakRow]
<1> DEFINE best == {i \in 1..Trough : \A j \in 1..Trough : Equity[j] <= Equity[i]}
<1>1. /\ Trough \in Nat /\ Trough > 0 /\ Peak(Trough) \in Int
      /\ \A j \in 1..Trough : Equity[j] \in Int /\ Equity[j] <= Peak(Trough)
      /\ \E j \in 1..Trough : Peak(Trough) = Equity[j]
  BY PeakIs
<1> HIDE DEF Trough
<1>2. best # {} /\ best \subseteq Int
  BY <1>1
<1>3. IsFiniteSet(best)
  BY <1>1, BoundedIsFinite
<1>4. Min(best) \in best
  <2> HIDE DEF best
  <2> QED BY <1>2, <1>3, MinIn
<1>5. PeakRow = Min(best)
  BY Zenon DEF PeakRow
<1>6. PeakRow \in 1..Trough /\ \A j \in 1..Trough : Equity[j] <= Equity[PeakRow]
  BY <1>4, <1>5
<1>7. QED
  BY <1>1, <1>6

\* The equity of a backtest without debt never fell deeper than its result says.
LEMMA FallIsWorst ==
  ASSUME TypeOK, NoDebt, history # <<>>
  PROVE  DrawdownIsWorst
<1> DEFINE n   == Len(history)
           end == IF Regained = {} THEN n ELSE Min(Regained)
<1>1. n \in Nat /\ DOMAIN history = 1..n /\ n > 0
  BY RowsAreTyped, EmptySeq DEF TypeOK
<1>2. \A i \in 1..n : /\ Equity[i] \in Nat /\ Peak(i) \in Nat
                      /\ \A j \in 1..i : Equity[j] <= Peak(i)
  BY <1>1, PeakIs DEF NoDebt
<1>3. Trough \in 1..n /\ \A j \in 1..n : ~Deeper(j, Trough)
  BY <1>1, TroughIs
<1>4. /\ PeakRow \in 1..Trough /\ Equity[PeakRow] = Peak(Trough)
      /\ \A j \in 1..Trough : Equity[j] <= Equity[PeakRow]
  BY <1>1, <1>3, PeakRowIs
<1>5. Regained = {i \in Trough + 1..n : Equity[i] >= Equity[PeakRow]}
  BY DEF Regained
<1>6. Drawdown =
        IF Equity[Trough] = Peak(Trough)
        THEN [value |-> Equity[1], of |-> Equity[1], peak |-> 1, trough |-> 1, end |-> 1,
              days |-> 0]
        ELSE [value |-> Equity[Trough], of |-> Equity[PeakRow], peak |-> PeakRow,
              trough |-> Trough, end |-> end, days |-> history[end].day - history[PeakRow].day]
  BY Zenon DEF Drawdown
<1> HIDE DEF n, Trough, PeakRow, Regained, Peak, Equity, Drawdown
<1>7. \A j \in 1..n : Equity[j] * Peak(Trough) >= Equity[Trough] * Peak(j)
  <2> SUFFICES ASSUME NEW j \in 1..n
               PROVE  Equity[j] * Peak(Trough) >= Equity[Trough] * Peak(j)
    OBVIOUS
  <2>1. ~(Equity[j] * Peak(Trough) < Equity[Trough] * Peak(j))
    BY <1>3 DEF Deeper
  <2>2. Equity[j] * Peak(Trough) \in Int /\ Equity[Trough] * Peak(j) \in Int
    BY <1>2, <1>3
  <2>3. QED
    BY <2>1, <2>2
<1> DEFINE fall == Drawdown
           Deep == \A i, j \in 1..n : i <= j => Equity[j] * fall.of >= fall.value * Equity[i]
           Rows == /\ fall.peak <= fall.trough /\ fall.trough <= fall.end
                   /\ \A i \in fall.peak..(fall.end - 1) : Equity[i] <= fall.of
                   /\ fall.end < n => Equity[fall.end] >= fall.of
<1>8. CASE Equity[Trough] = Peak(Trough)
  <2>1. /\ fall.value = Equity[1] /\ fall.of = Equity[1]
        /\ fall.peak = 1 /\ fall.trough = 1 /\ fall.end = 1
    BY <1>6, <1>8
  <2>2. 1 \in 1..n /\ 1 \in 1..Trough /\ Equity[1] \in Nat
    BY <1>1, <1>2, <1>3
  <2>3. ASSUME NEW i \in 1..n, NEW j \in 1..n, i <= j
        PROVE  Equity[j] * Equity[1] >= Equity[1] * Equity[i]
    <3>1. i \in 1..j /\ Equity[i] <= Peak(j) /\ Equity[i] \in Nat /\ Equity[j] \in Nat
          /\ Peak(j) \in Nat /\ Peak(Trough) \in Nat /\ Equity[1] <= Peak(Trough)
      BY <1>1, <1>2, <1>3, <2>2, <2>3
    <3>2. CASE Peak(Trough) = 0
      <4>1. Equity[1] = 0
        BY <2>2, <3>1, <3>2
      <4>2. QED
        BY <3>1, <4>1
    <3>3. CASE Peak(Trough) > 0
      <4>1. Peak(Trough) * Peak(j) <= Peak(Trough) * Equity[j]
        BY <1>7, <1>8, <3>1
      <4>2. Peak(j) <= Equity[j]
        BY <3>1, <3>3, <4>1, DivideKeeps
      <4>3. Equity[i] <= Equity[j]
        BY <3>1, <4>2
      <4>4. Equity[i] * Equity[1] <= Equity[j] * Equity[1]
        BY <2>2, <3>1, <4>3, MultiplyKeeps
      <4>5. QED
        BY <2>2, <3>1, <4>4
    <3>4. QED
      BY <3>1, <3>2, <3>3
  <2>4. Deep
    BY <2>1, <2>3
  <2>5. Rows
    BY <2>1, <2>2
  <2>6. QED
    BY <1>1, <2>4, <2>5 DEF DrawdownIsWorst, n
<1>9. CASE Equity[Trough] # Peak(Trough)
  <2>1. /\ fall.value = Equity[Trough] /\ fall.of = Peak(Trough)
        /\ fall.peak = PeakRow /\ fall.trough = Trough /\ fall.end = end
    BY <1>4, <1>6, <1>9
  <2>2. ASSUME NEW i \in 1..n, NEW j \in 1..n, i <= j
        PROVE  Equity[j] * Peak(Trough) >= Equity[Trough] * Equity[i]
    <3>1. /\ Equity[i] <= Peak(j) /\ Equity[i] \in Nat /\ Peak(j) \in Nat /\ Equity[Trough] \in Nat
          /\ Equity[j] \in Nat /\ Peak(Trough) \in Nat
      BY <1>1, <1>2, <1>3, <2>2
    <3>2. Equity[i] * Equity[Trough] <= Peak(j) * Equity[Trough]
      BY <3>1, MultiplyKeeps
    <3>3. Equity[j] * Peak(Trough) >= Equity[Trough] * Peak(j)
      BY <1>7
    <3>4. ASSUME NEW a \in Nat, NEW b \in Nat, NEW c \in Nat, NEW d \in Int,
                 a * c <= b * c, d >= c * b
          PROVE  d >= c * a
      BY <3>4
    <3>5. Equity[j] * Peak(Trough) \in Int
      BY <3>1
    <3>6. QED
      BY <3>1, <3>2, <3>3, <3>4, <3>5
  <2>3. Deep
    BY <2>1, <2>2
  <2>4. /\ end \in Trough..n
        /\ \A i \in Trough + 1..end - 1 : Equity[i] < Equity[PeakRow]
        /\ end < n => Equity[end] >= Equity[PeakRow]
    <3>1. CASE Regained = {}
      <4>1. \A i \in Trough + 1..n : Equity[i] < Equity[PeakRow]
        BY <1>1, <1>2, <1>3, <1>4, <1>5, <3>1
      <4>2. QED
        BY <1>1, <1>3, <3>1, <4>1
    <3>2. CASE Regained # {}
      <4>1. Regained \subseteq Int /\ IsFiniteSet(Regained)
        <5>1. Trough \in Int
          BY <1>1, <1>3
        <5>2. \A i \in Regained : i \in Int /\ Trough + 1 <= i /\ i <= n
          BY <1>1, <1>5, <5>1
        <5>3. QED
          BY <1>1, <5>1, <5>2, BoundedIsFinite
      <4>2. Min(Regained) \in Regained /\ \A i \in Regained : Min(Regained) <= i
        BY <3>2, <4>1, MinIn
      <4>3. end = Min(Regained)
        BY <3>2
      <4> HIDE DEF end
      <4>4. end \in Trough + 1..n /\ Equity[end] >= Equity[PeakRow]
        BY <1>5, <4>2, <4>3
      <4>5. ASSUME NEW i \in Trough + 1..end - 1 PROVE Equity[i] < Equity[PeakRow]
        <5>1. i \in Trough + 1..n /\ ~(end <= i) /\ i \in 1..n
          BY <1>1, <1>3, <4>4
        <5>2. i \notin Regained
          BY <4>2, <4>3, <5>1
        <5>3. QED
          BY <1>1, <1>2, <1>3, <1>4, <1>5, <5>1, <5>2
      <4>6. QED
        BY <1>1, <1>3, <4>4, <4>5
    <3>3. QED
      BY <3>1, <3>2
  <2> HIDE DEF end
  <2>5. ASSUME NEW i \in PeakRow..end - 1 PROVE Equity[i] <= Peak(Trough)
    <3>1. CASE i <= Trough
      <4>1. i \in 1..Trough
        BY <1>1, <1>3, <1>4, <3>1
      <4>2. QED
        BY <1>4, <4>1
    <3>2. CASE ~(i <= Trough)
      <4>1. i \in Trough + 1..end - 1 /\ i \in 1..n
        BY <1>1, <1>3, <1>4, <2>4, <3>2
      <4>2. Equity[i] < Peak(Trough) /\ Equity[i] \in Nat /\ Peak(Trough) \in Nat
        BY <1>2, <1>3, <1>4, <2>4, <4>1
      <4>3. QED
        BY <4>2
    <3>3. QED
      BY <3>1, <3>2
  <2>6. Rows
    <3>1. PeakRow <= Trough /\ Trough <= end
      BY <1>1, <1>3, <1>4, <2>4
    <3>2. end < n => Equity[end] >= Peak(Trough)
      BY <1>4, <2>4
    <3>3. QED
      BY <2>1, <2>5, <3>1, <3>2
  <2>7. QED
    BY <1>1, <2>3, <2>6 DEF DrawdownIsWorst, n
<1>10. QED
  BY <1>8, <1>9

\* The reported drawdown is the worst that anybody could have suffered, in every backtest
\* whose portfolio is never worth less than nothing.
THEOREM DrawdownIsDeepest == Spec => []DrawdownIsWorst
<1>1. TypeOK => DrawdownIsWorst
  BY FallIsWorst DEF DrawdownIsWorst
<1>2. QED
  BY <1>1, TypeCorrect, PTL
===========================================================================
