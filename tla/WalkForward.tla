----------------------------- MODULE WalkForward -----------------------------
(***************************************************************************)
(* How GBMFactorsV1Strategy.fit keeps its models out of sample: expanding  *)
(* windows (azureus/models/cv/walk_forward.py), the dataset of samples and *)
(* forward labels, the feature columns and the model of each window, the   *)
(* test folds of its cross-validation (azureus/models/cv/purged_kfold.py), *)
(* and the model that the engine's rebalance dates then ask                *)
(* (azureus/strategies/gbm_factors_v1.py).                                 *)
(*                                                                         *)
(* Labels and LightGBM are not modelled: a sample is its ticker, its date  *)
(* and the date its label is known.  Nor are the training rows of a fold,  *)
(* which only choose LightGBM's parameters.  Of a feature's values it      *)
(* matters only where they are missing, and whether they differ at all.    *)
(***************************************************************************)
EXTENDS TradingCalendar, SequencesExt

CONSTANTS Tickers,        \* numbers, in the order of the index
          Spans,          \* the [start, end] of backtests, as fit gets them
          MonthStarts,    \* [Nat -> day]: the first day of each month, ascending
          MonthsPerYear,
          WarmupYears, OosMonths, Horizon, Folds,  \* GBMFactorsV1Params
          Features,       \* numbers, in the order of the features' names
          FeatureData,    \* bound: where features have values
          MinTrainRows    \* max(30, 5 * cv_folds)

Months == 1..(Len(MonthStarts) - 1)

ASSUME WalkForwardAssumption ==
  /\ Tickers \subseteq Nat /\ IsFiniteSet(Tickers)
  /\ Spans \subseteq [start : Nat, end : Nat]
  /\ MonthStarts \in Seq(Nat)
  /\ \A m, n \in DOMAIN MonthStarts : m < n => MonthStarts[m] < MonthStarts[n]
  /\ MonthsPerYear \in Nat \ {0} /\ WarmupYears \in Nat \ {0} /\ OosMonths \in Nat \ {0}
  /\ \A s \in Spans :       \* bound: the months go on as long as they are asked for
       /\ \E m \in Months : /\ MonthStarts[m] <= s.start /\ s.start < MonthStarts[m + 1]
                            /\ m + WarmupYears * MonthsPerYear \in Months
       /\ \E m \in Months : /\ s.end < MonthStarts[m + 1]
                            /\ m + OosMonths \in Months
  /\ Features \subseteq Nat /\ IsFiniteSet(Features)
  /\ FeatureData \subseteq [since : [Tickers -> [Features -> Nat]], flat : SUBSET Features]
  /\ Horizon \in Nat /\ Folds \in Nat \ {0, 1} /\ MinTrainRows \in Nat \ {0}

VARIABLES phase,          \* where fit() is
          span,           \* train_start and train_end of this fit
          data,           \* since when a ticker has a feature; features that never vary
          from,           \* oos_start of the next window
          windows,        \* Seq(Window), oldest first
          todo,           \* sample dates still to be labelled
          dataset,        \* the labelled samples
          next,           \* the window to be trained next
          models,         \* Seq([window, columns, rows]): _trained_windows
          asked           \* the last date the engine asked about, and the model (0: none)

vars == <<phase, span, data, from, windows, todo, dataset, next, models, asked>>

Phases == {"new", "windows", "dates", "dataset", "train", "ready", "no_session"}
Window == [trainEnd : Int, oosStart : Nat, oosEnd : Nat]
OpenDays == LibrarySessions \ AdHocClosures
Sample == [date : OpenDays, ticker : Tickers, labelEnd : OpenDays]
Model  == [window : Nat, columns : SUBSET Features, rows : SUBSET Sample]

TypeOK == /\ phase \in Phases
          /\ span \in Spans
          /\ data \in FeatureData
          /\ from \in Nat
          /\ windows \in Seq(Window)
          /\ todo \subseteq OpenDays
          /\ dataset \subseteq Sample
          /\ \A r, s \in dataset : r.date = s.date /\ r.ticker = s.ticker => r = s
          /\ next \in 1..(Len(windows) + 1)
          /\ models \in Seq(Model)
          /\ \A i \in DOMAIN models : /\ models[i].window \in 1..(next - 1)
                                      /\ models[i].rows \subseteq dataset
          /\ asked \in [asOf : Nat, model : 0..Len(models)]

Init == /\ phase = "new"
        /\ span \in Spans
        /\ data \in FeatureData
        /\ from = 0
        /\ windows = <<>>
        /\ todo = {}
        /\ dataset = {}
        /\ next = 1
        /\ models = <<>>
        /\ asked = [asOf |-> 0, model |-> 0]

---------------------------------------------------------------------------
(* expanding_windows.                                                      *)

MonthOf(d) == CHOOSE m \in Months : MonthStarts[m] <= d /\ d < MonthStarts[m + 1]

\* The same day of a later month, or that month's last day when it is shorter.
AddMonths(d, n) == LET m   == MonthOf(d)
                       day == MonthStarts[m + n] + (d - MonthStarts[m])
                   IN  IF day < MonthStarts[m + n + 1] THEN day ELSE MonthStarts[m + n + 1] - 1

AddYears(d, n) == AddMonths(d, n * MonthsPerYear)

\* Mutant: the last window is a whole one, past the end of the backtest.
WindowFrom_Whole(d) == [trainEnd |-> d - 1, oosStart |-> d, oosEnd |-> AddMonths(d, OosMonths) - 1]

\* Mutant: the first day of the window is trained on.
WindowFrom_TrainsFirst(d) ==
  LET last == AddMonths(d, OosMonths) - 1
  IN  [trainEnd |-> d, oosStart |-> d, oosEnd |-> IF last < span.end THEN last ELSE span.end]

WindowFrom(d) ==
  LET last == AddMonths(d, OosMonths) - 1
  IN  [trainEnd |-> d - 1, oosStart |-> d, oosEnd |-> IF last < span.end THEN last ELSE span.end]

Begin == /\ phase = "new"
         /\ from' = AddYears(span.start, WarmupYears)
         /\ phase' = "windows"
         /\ UNCHANGED <<span, data, windows, todo, dataset, next, models, asked>>

AddWindow ==
  /\ phase = "windows"
  /\ IF from <= span.end
       THEN /\ windows' = Append(windows, WindowFrom(from))
            /\ from' = WindowFrom(from).oosEnd + 1
            /\ UNCHANGED phase
       ELSE phase' = "dates" /\ UNCHANGED <<windows, from>>
  /\ UNCHANGED <<span, data, todo, dataset, next, models, asked>>

---------------------------------------------------------------------------
(* The dataset.                                                            *)

\* rebalance_dates: the first session of each month, if it is in the span.
RolledMonths   == {RollToTradingDay(MonthStarts[m]) : m \in Months}
RebalanceDates == {d \in RolledMonths \ {NoDate} : span.start <= d /\ d <= span.end}

\* A month or a date without a session nearby raises.
SampleDates ==
  /\ phase = "dates"
  /\ LET dates == {PreviousTradingDay(d) : d \in RebalanceDates}
     IN  IF NoDate \in RolledMonths \union dates
           THEN phase' = "no_session" /\ UNCHANGED todo
           ELSE phase' = "dataset" /\ todo' = dates
  /\ UNCHANGED <<span, data, from, windows, dataset, next, models, asked>>

\* The session `Horizon` sessions after d, looked for in so many calendar days.
LabelEnd(d) ==
  LET days == TradingDaysBetween(d, d + 3 * Horizon)
  IN  IF Cardinality(days) <= Horizon
        THEN NoDate
        ELSE CHOOSE e \in days : Cardinality({x \in days : x < e}) = Horizon

Has(t, f, d) == data.since[t][f] <= d

\* One sample date: the members that have a feature then, and a close on both ends of the
\* label.  No member has one when the label has no end.
LabelSamples ==
  /\ phase = "dataset"
  /\ IF todo = {}
       THEN /\ phase' = IF dataset = {} THEN "ready" ELSE "train"
            /\ UNCHANGED <<todo, dataset>>
       ELSE LET d == Min(todo) IN
            /\ \E usable \in SUBSET {t \in Tickers : \E f \in Features : Has(t, f, d)} :
                 dataset' = IF LabelEnd(d) = NoDate
                              THEN dataset
                              ELSE dataset \union
                                     {[date |-> d, ticker |-> t, labelEnd |-> LabelEnd(d)] : t \in usable}
            /\ todo' = todo \ {d}
            /\ UNCHANGED phase
  /\ UNCHANGED <<span, data, from, windows, next, models, asked>>

---------------------------------------------------------------------------
(* PurgedKFold.split, of a set of rows: the rows that each fold tests on.  *)

\* Rows are taken by date and, on one date, in the order of the index.
Rank(r, rows) ==
  Cardinality({s \in rows : s.date < r.date \/ (s.date = r.date /\ s.ticker < r.ticker)})

\* Mutant: the remainder of the division is in no fold.
FoldStart_NoRemainder(k, n) == (k - 1) * (n \div Folds)

\* The first folds have one row more when the rows do not divide evenly.
FoldStart(k, n) == LET extra == n % Folds
                   IN  (k - 1) * (n \div Folds) + (IF k - 1 < extra THEN k - 1 ELSE extra)

TestFold(k, rows) == LET n == Cardinality(rows)
                     IN  {r \in rows : FoldStart(k, n) <= Rank(r, rows) /\ Rank(r, rows) < FoldStart(k + 1, n)}

\* No split at all when there are fewer rows than folds.
SplitsOf(rows) == IF Cardinality(rows) < Folds THEN {} ELSE 1..Folds

---------------------------------------------------------------------------
(* The models.                                                             *)

\* _eligible_training_features: the fullest columns first, each as long as enough rows are
\* complete for all of them.
Filled(f, rows) == {r \in rows : Has(r.ticker, f, r.date)}

\* nunique: more than one value.
Varies(f, rows) == f \notin data.flat /\ Cardinality(Filled(f, rows)) > 1

Candidates(train) ==
  {f \in Features : Cardinality(Filled(f, train)) >= MinTrainRows /\ Varies(f, train)}

\* Mutant: the column is held against all rows of the window.
WithColumn_Alone(chosen, f, train) ==
  IF Cardinality(Filled(f, train)) >= MinTrainRows
    THEN [columns |-> chosen.columns \union {f}, rows |-> Filled(f, chosen.rows)]
    ELSE chosen

WithColumn(chosen, f, train) ==
  IF Cardinality(Filled(f, chosen.rows)) >= MinTrainRows
    THEN [columns |-> chosen.columns \union {f}, rows |-> Filled(f, chosen.rows)]
    ELSE chosen

Fuller(f, g, train) ==
  LET size(h) == Cardinality(Filled(h, train))
  IN  size(f) > size(g) \/ (size(f) = size(g) /\ f > g)

\* The candidate with so many fuller ones before it.
Nth(i, train) == CHOOSE f \in Candidates(train) :
                   Cardinality({g \in Candidates(train) : Fuller(g, f, train)}) = i - 1

Eligible(train) ==
  LET last == Cardinality(Candidates(train))
      chosen[i \in 0..last] ==
        IF i = 0 THEN [columns |-> {}, rows |-> train]
                 ELSE WithColumn(chosen[i - 1], Nth(i, train), train)
  IN  chosen[last]

TrainRows(i) == {r \in dataset : span.start <= r.date /\ r.date <= windows[i].trainEnd}

\* A window with too few rows has no model.
TrainWindow ==
  /\ phase = "train"
  /\ IF next > Len(windows)
       THEN phase' = "ready" /\ UNCHANGED <<next, models>>
       ELSE /\ LET chosen == Eligible(TrainRows(next))
               IN  models' = IF chosen.columns = {} \/ Cardinality(chosen.rows) < MinTrainRows
                               THEN models
                               ELSE Append(models, [window  |-> next, rows |-> chosen.rows,
                                                    columns |-> chosen.columns])
            /\ next' = next + 1
            /\ UNCHANGED phase
  /\ UNCHANGED <<span, data, from, windows, todo, dataset, asked>>

Oos(i) == windows[models[i].window].oosStart .. windows[models[i].window].oosEnd

\* Mutant: models are counted as windows are, also when a window has none.
ModelFor_ByPlace(d) ==
  LET found == {i \in DOMAIN models : windows[i].oosStart <= d /\ d <= windows[i].oosEnd}
  IN  IF found = {} THEN 0 ELSE Min(found)

\* _model_for: the first trained window that has the date.
ModelFor(d) == LET found == {i \in DOMAIN models : d \in Oos(i)}
               IN  IF found = {} THEN 0 ELSE Min(found)

\* The engine rebalances and asks as of the session before.
Ask == /\ phase = "ready"
       /\ \E d \in RebalanceDates : LET asOf == PreviousTradingDay(d)
                                    IN  asked' = [asOf |-> asOf, model |-> ModelFor(asOf)]
       /\ UNCHANGED <<phase, span, data, from, windows, todo, dataset, next, models>>

\* fit() has raised, or the backtest is over.
Over == phase \in {"no_session", "ready"} /\ UNCHANGED vars

Next == Begin \/ AddWindow \/ SampleDates \/ LabelSamples \/ TrainWindow \/ Ask \/ Over

Spec == Init /\ [][Next]_vars

---------------------------------------------------------------------------
(* Properties.                                                             *)

\* Every day after the warm-up belongs to one window, whatever the lengths of the months
\* and the day of the month the backtest starts on, and no day before or after does.
WindowsTile ==
  phase \notin {"new", "windows"} =>
    \A d \in 0..(span.end + 1) :
      Cardinality({i \in DOMAIN windows : windows[i].oosStart <= d /\ d <= windows[i].oosEnd})
        = IF AddYears(span.start, WarmupYears) <= d /\ d <= span.end THEN 1 ELSE 0

\* The model asked about a date was trained on samples of earlier dates only, although
\* samples and questions are of the same dates.
OutOfSample ==
  asked.model # 0 => \A r \in models[asked.model].rows : r.date < asked.asOf

\* Whatever windows were skipped for want of rows: a date is answered by the model of its own
\* window.  There is none, and the engine sells everything, only during the warm-up and in a
\* window of which no column had enough rows.
AnswerIsOfItsWindow ==
  phase = "ready" =>
    LET has(w) == windows[w].oosStart <= asked.asOf /\ asked.asOf <= windows[w].oosEnd
    IN  IF asked.model # 0 THEN has(models[asked.model].window)
        ELSE \/ asked.asOf < AddYears(span.start, WarmupYears)
             \/ \E w \in DOMAIN windows : has(w) /\ Candidates(TrainRows(w)) = {}

\* Cross-validation tests on every row once: a set of rows that does not divide by the
\* number of folds loses none.
EachRowTestedOnce ==
  \A i \in DOMAIN models : SplitsOf(models[i].rows) # {} =>
    \A r \in models[i].rows :
      Cardinality({k \in 1..Folds : r \in TestFold(k, models[i].rows)}) = 1

\* A window is trained on the rows that are complete for its columns, all of them, and no
\* other usable column could be added without leaving too few; a window without a model
\* has no usable column at all.
ColumnsAreMaximal ==
  /\ \A i \in DOMAIN models :
       LET train == TrainRows(models[i].window)
           full(columns) == {r \in train : \A f \in columns : Has(r.ticker, f, r.date)}
       IN  /\ models[i].columns # {} /\ models[i].rows = full(models[i].columns)
           /\ Cardinality(models[i].rows) >= MinTrainRows
           /\ \A f \in Candidates(train) \ models[i].columns :
                Cardinality(full(models[i].columns \union {f})) < MinTrainRows
  /\ \A w \in 1..(next - 1) :
       (\A i \in DOMAIN models : models[i].window # w) => Candidates(TrainRows(w)) = {}
=============================================================================
