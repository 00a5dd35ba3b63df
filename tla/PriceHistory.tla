---------------------------- MODULE PriceHistory ----------------------------
(***************************************************************************)
(* What the features read from the table prices: one ticker, whose rows    *)
(* were stored by ingestion runs of different days.  adjusted_close is a   *)
(* moving target: a provider states it for somebody who holds the share on *)
(* the day of the download, so that each later dividend scales all the     *)
(* bars before it; and the bar of a session that is not over has the price *)
(* of the moment for its close.  The table keeps what each run downloaded. *)
(*                                                                         *)
(* A payout is a dividend as large as the price that is left, which        *)
(* doubles the shares of a holder who reinvests it.  (Of a split a         *)
(* provider may restate the closes too; splits are left out.)  Prices are  *)
(* fractions, worth / per.                                                 *)
(***************************************************************************)
EXTENDS Integers, Sequences, FiniteSets

CONSTANTS Providers,     \* of {"yfinance", "webull"}
          Flows,         \* bound: ingestion runs
          Sessions,      \* bound: kinds of days that occur
          Lookbacks,     \* lookback_days a run may be started with
          Window,        \* _FULL_YEAR_LOOKBACK_DAYS
          Required,      \* _MOMENTUM_LOOKBACK_DAYS, _TRADING_DAYS_PER_YEAR
          Skip,          \* _MOMENTUM_SKIP_DAYS
          PriceWindow,   \* _PRICE_LOOKBACK_DAYS
          Horizon,       \* label_horizon_days
          Figure,        \* a trailing sum or a latest value, as PitStore has it
          Shares,        \* ordinary_shares
          LastDay        \* bound: the days that are looked at

ASSUME HistoryAssumption ==
  /\ Providers \subseteq {"yfinance", "webull"}
  /\ Sessions \subseteq [close : Nat \ {0}, quote : Nat \ {0}, payout : BOOLEAN,
                         traded : BOOLEAN]
  /\ Lookbacks \subseteq Nat /\ Window \in Nat /\ PriceWindow \in Nat
  /\ Required \in Nat \ {0} /\ Skip \in 0..Required /\ Horizon \in Nat \ {0}
  /\ Figure \in Nat \ {0} /\ Shares \in Nat \ {0} /\ LastDay \in Nat \ {0}

VARIABLES provider,      \* price_provider_name of the data source
          market,        \* the days so far: close, price before it, shares of a holder, whether
                         \* there is a bar
          open,          \* whether the session of the last of them is not over
          prices,        \* the provider's committed rows
          flow,          \* [Flows -> what an ingestion run has downloaded]
          loads          \* history: windows that were stored, in the order of the commits

vars == <<provider, market, open, prices, flow, loads>>

Today == Len(market)

Day    == [close : Nat \ {0}, quote : Nat \ {0}, held : Nat \ {0}, traded : BOOLEAN]
Price  == [worth : Nat, per : Nat \ {0}]
Null   == [worth |-> 0, per |-> 0]
Row    == [day : 1..LastDay, close : Nat \ {0}, adjusted : Price \union {Null}]
Run    == [state : {"new", "fetched", "ended"}, start : Int, on : 0..LastDay,
           closed : BOOLEAN, frame : SUBSET Row]
Load   == [start : Int, on : 1..LastDay, closed : BOOLEAN]
NewRun == [state |-> "new", start |-> 0, on |-> 0, closed |-> FALSE, frame |-> {}]

TypeOK == /\ provider \in Providers
          /\ market \in Seq(Day) /\ Len(market) \in 1..LastDay
          /\ open \in BOOLEAN
          /\ prices \subseteq Row
          /\ \A r, s \in prices : r.day = s.day => r = s
          /\ flow \in [Flows -> Run]
          /\ loads \in Seq(Load)

Init == /\ provider \in Providers
        /\ market \in {<<[close |-> s.close, quote |-> s.quote, held |-> 1,
                         traded |-> s.traded]>> : s \in Sessions}
        /\ open = market[1].traded
        /\ prices = {}
        /\ flow = [f \in Flows |-> NewRun]
        /\ loads = <<>>

---------------------------------------------------------------------------
(* The market and the ingestion runs.                                      *)

\* A day begins: with a payout or not, with a session or without.
NextDay ==
  /\ ~open /\ Today < LastDay
  /\ \E s \in Sessions :
       /\ market' = Append(market, [close |-> s.close, quote |-> s.quote, traded |-> s.traded,
                                    held |-> market[Today].held * (IF s.payout THEN 2 ELSE 1)])
       /\ open' = s.traded
  /\ UNCHANGED <<provider, prices, flow, loads>>

\* The session of the day is over.
CloseSession == open /\ open' = FALSE /\ UNCHANGED <<provider, market, prices, flow, loads>>

\* What a holder of one share of the first day has, payouts reinvested.
Worth(d) == market[d].close * market[d].held

\* The price that a provider has for day d, asked today.
Shown(d) == IF d = Today /\ open THEN market[d].quote ELSE market[d].close

\* yfinance adjusts the bar of day d for the payouts until today; Webull's frame has no
\* adjusted close.
Adjusted(d) == IF provider = "yfinance"
               THEN [worth |-> Shown(d) * market[d].held, per |-> market[Today].held] ELSE Null

Bar(d) == [day |-> d, close |-> Shown(d), adjusted |-> Adjusted(d)]

\* A run of the daily flow, or of one with --lookback-days; Webull's always starts at the
\* same date.
WindowStart(lookback) == IF provider = "yfinance" THEN Today - lookback ELSE 1

Fetch(f, lookback) ==
  /\ flow[f].state = "new"
  /\ LET start == WindowStart(lookback)
     IN  flow' = [flow EXCEPT ![f] =
           [state |-> "fetched", start |-> start, on |-> Today, closed |-> ~open,
            frame |-> {Bar(d) : d \in {e \in 1..Today : e >= start /\ market[e].traded}}]]
  /\ UNCHANGED <<provider, market, open, prices, loads>>

\* Mutant: adjusted_close is missing from _UPDATABLE_COLUMNS.
Upserted_KeepsAdjusted(rows) ==
  {r \in prices : \A s \in rows : r.day # s.day}
  \union {s \in rows : \A r \in prices : r.day # s.day}
  \union {[p[2] EXCEPT !.adjusted = p[1].adjusted] :
            p \in {pair \in prices \X rows : pair[1].day = pair[2].day}}

\* ON CONFLICT (pk_prices) DO UPDATE of every column.
Upserted(rows) == {r \in prices : \A s \in rows : r.day # s.day} \union rows

\* The upsert commits, maybe on a later day than the download and after other runs.
Save(f) ==
  /\ flow[f].state = "fetched"
  /\ prices' = Upserted(flow[f].frame)
  /\ loads' = Append(loads, [start |-> flow[f].start, on |-> flow[f].on,
                             closed |-> flow[f].closed])
  /\ flow' = [flow EXCEPT ![f] = [NewRun EXCEPT !.state = "ended"]]
  /\ UNCHANGED <<provider, market, open>>

\* The run fails, or its process dies.
Fail(f) ==
  /\ flow[f].state # "ended"
  /\ flow' = [flow EXCEPT ![f] = [NewRun EXCEPT !.state = "ended"]]
  /\ UNCHANGED <<provider, market, open, prices, loads>>

Over == Today = LastDay /\ ~open /\ (\A f \in Flows : flow[f].state = "ended") /\ UNCHANGED vars

Next == \/ NextDay
        \/ CloseSession
        \/ \E f \in Flows : Save(f) \/ Fail(f) \/ \E n \in Lookbacks : Fetch(f, n)
        \/ Over

Spec == Init /\ [][Next]_vars

---------------------------------------------------------------------------
(* The queries and the features.                                           *)

\* Mutant: the end of the window is not passed on.
GetPrices_OpenEnd(first, last) == {r \in prices : first <= r.day}

GetPrices(first, last) == {r \in prices : first <= r.day /\ r.day <= last}

\* adjusted_close, or the close where there is none.
PriceOf(r) == IF r.adjusted # Null THEN r.adjusted ELSE [worth |-> r.close, per |-> 1]

\* The row that n others of a set are later than.
NthRow(rows, n) == CHOOSE r \in rows : Cardinality({s \in rows : s.day > r.day}) = n

\* A return, plus one: the price at the end by the price at the start.
Growth(start, end) == [worth |-> end.worth * start.per, per |-> end.per * start.worth]
NoValue == Null

\* Momentum121: from the row a year back to the one a month back.
Momentum(asOf) ==
  LET rows == GetPrices(asOf - Window, asOf)
  IN  IF Cardinality(rows) < Required + 1 THEN NoValue
      ELSE Growth(PriceOf(NthRow(rows, Required)), PriceOf(NthRow(rows, Skip)))

\* RealizedVol252D is the standard deviation of these returns, the latest first.
DailyReturns(asOf) ==
  LET rows == GetPrices(asOf - Window, asOf)
  IN  IF Cardinality(rows) < Required + 1 THEN <<>>
      ELSE [i \in 1..Required |->
              Growth(PriceOf(NthRow(rows, i)), PriceOf(NthRow(rows, i - 1)))]

\* _forward_sector_neutral_labels, before the mean of the sector is taken off: rows of both
\* days are needed.
Label(asOf) ==
  LET rows  == GetPrices(asOf, asOf + Horizon)
      of(d) == CHOOSE r \in rows : r.day = d
  IN  IF {asOf, asOf + Horizon} \subseteq {r.day : r \in rows}
      THEN Growth(PriceOf(of(asOf)), PriceOf(of(asOf + Horizon)))
      ELSE NoValue

LatestPrice(asOf) ==
  LET rows == GetPrices(asOf - PriceWindow, asOf)
  IN  IF rows = {} THEN NoValue ELSE PriceOf(NthRow(rows, 0))

MarketCap(asOf) == [LatestPrice(asOf) EXCEPT !.worth = Shares * @]

\* _ratio: nothing for a ticker without a positive denominator.
Ratio(numerator, price) == IF price.worth = 0 THEN NoValue
                           ELSE [worth |-> numerator * price.per, per |-> price.worth]

\* EarningsYield, BookToPrice, SalesToPrice and FcfToPrice: a figure by the market value.
ValueFeature(asOf) == Ratio(Figure, MarketCap(asOf))

---------------------------------------------------------------------------
(* Properties.                                                             *)

\* Two fractions, or two missing values, are the same.
Same(p, q) == p.worth * q.per = q.worth * p.per /\ (p.per = 0 <=> q.per = 0)

\* The row of day d is from the j-th commit, the last one whose window has the day, and was
\* downloaded after its close.
Covers(j, d)    == loads[j].start <= d /\ d <= loads[j].on
LastCover(j, d) == Covers(j, d) /\ \A k \in DOMAIN loads : Covers(k, d) => k <= j
Final(j, d)     == LastCover(j, d) /\ (d < loads[j].on \/ loads[j].closed)

\* The latest run that everything in the window was stored by: the row of each day is final
\* and from it or a later run, and no payout came between their downloads.
Base(first, last) ==
  {i \in DOMAIN loads :
     /\ \A d \in 1..Today : first <= d /\ d <= last => \E j \in i..Len(loads) : Final(j, d)
     /\ \A j \in i..Len(loads) : market[loads[j].on].held = market[loads[i].on].held}

\* Rows of the window can be compared: they are of one base, or, for Webull, final and no
\* payout came within the window.
Comparable(first, last) ==
  LET days == {d \in 1..Today : first <= d /\ d <= last}
  IN  IF provider = "yfinance" THEN Base(first, last) # {}
      ELSE /\ \A d \in days : \E j \in DOMAIN loads : Final(j, d)
           /\ \A d, e \in days : market[d].held = market[e].held

TradedDays(first, last) == {d \in 1..Today : first <= d /\ d <= last /\ market[d].traded}
NthDay(days, n) == CHOOSE d \in days : Cardinality({e \in days : e > d}) = n
Earned(start, end) == [worth |-> Worth(end), per |-> Worth(start)]

\* Momentum, daily returns and labels are what a holder earned, whenever they are asked for:
\* neither bars that came after the date nor the days of the downloads make a difference,
\* provided that since the last payout before a download one run reached back over the whole
\* window, and that the last download to have a day came after its close.  (The daily flow
\* assures neither: see the README.)
ReturnsAreEarned ==
  \A d \in 1..Today :
    LET days == TradedDays(d - Window, d)
        full == Cardinality(days) >= Required + 1
    IN  /\ Comparable(d - Window, d) =>
             /\ Same(Momentum(d), IF full THEN Earned(NthDay(days, Required), NthDay(days, Skip))
                                  ELSE NoValue)
             /\ Len(DailyReturns(d)) = IF full THEN Required ELSE 0
             /\ \A i \in DOMAIN DailyReturns(d) :
                  Same(DailyReturns(d)[i], Earned(NthDay(days, i), NthDay(days, i - 1)))
        /\ d + Horizon <= Today /\ Comparable(d, d + Horizon) =>
             Same(Label(d), IF {d, d + Horizon} \subseteq TradedDays(d, d + Horizon)
                            THEN Earned(d, d + Horizon) ELSE NoValue)

\* A figure by the market value of a day, asked for after a later download, is that of the
\* day's close times the payouts in between: a price that is adjusted for the future meets a number of shares
\* that is not, so that a payer of dividends looks cheaper in the past than it was, and
\* never dearer.
YieldIsRebased ==
  provider = "yfinance" =>
    \A d \in 1..Today : \A i \in Base(d - PriceWindow, d) :
      LET days == TradedDays(d - PriceWindow, d)
          last == NthDay(days, 0)
      IN  Same(ValueFeature(d),
               IF days = {} THEN NoValue
               ELSE [worth |-> Figure * market[loads[i].on].held,
                     per |-> Shares * Worth(last)])
=============================================================================
