--------------------------- MODULE WalkForwardProofs ---------------------------
(***************************************************************************)
(* The properties of WalkForward, for any calendar, lengths of the windows, *)
(* features and samples.                                                   *)
(*                                                                         *)
(* The windows tile because each starts where the months of the one before  *)
(* end (WindowsInv); the models are out of sample because the windows end   *)
(* their training the day before (ModelsInv); and columns are maximal       *)
(* because a column that was refused would be refused again beside more     *)
(* columns (IsMaximal).                                                       *)
(***************************************************************************)
EXTENDS WalkForward, SumTheorems, SequenceTheorems

\* The first day after the warm-up.
AfterWarmup == AddYears(span.start, WarmupYears)

\* The windows so far are apart and cover the days after the warm-up up to the next one's
\* first day.
WindowIs(w) == /\ w.trainEnd = w.oosStart - 1
               /\ AfterWarmup <= w.oosStart /\ w.oosStart <= w.oosEnd
               /\ w.oosEnd <= span.end /\ w.oosEnd < from
IsIn(d, w)  == w.oosStart <= d /\ d <= w.oosEnd
WindowsInv ==
  /\ phase = "new" => windows = <<>>
  /\ phase # "new" => AfterWarmup <= from
  /\ \A i \in DOMAIN windows : WindowIs(windows[i])
  /\ \A i, j \in DOMAIN windows : i < j => windows[i].oosEnd < windows[j].oosStart
  /\ phase # "new" =>
       \A d \in AfterWarmup..(from - 1) : \E i \in DOMAIN windows : IsIn(d, windows[i])
  /\ phase \notin {"new", "windows"} => span.end < from

\* Samples are of dates that are done with, and every date that will be asked about has a
\* session before it.
DatesInv ==
  /\ IsFiniteSet(dataset)
  /\ phase \in {"new", "windows", "dates", "no_session"} => dataset = {}
  /\ \A r \in dataset : r.date \notin todo
  /\ \A d \in todo : d <= span.end
  /\ phase \in {"dataset", "train", "ready"} =>
       \A d \in RebalanceDates : PreviousTradingDay(d) # NoDate

\* The rows that are complete for columns.
Full(columns, train) == {r \in train : \A f \in columns : Has(r.ticker, f, r.date)}

\* What _eligible_training_features makes of a window's rows.
IsMaximal(chosen, train) ==
  /\ chosen.columns \subseteq Candidates(train)
  /\ chosen.rows = Full(chosen.columns, train)
  /\ chosen.columns # {} => Cardinality(chosen.rows) >= MinTrainRows
  /\ \A f \in Candidates(train) \ chosen.columns :
       Cardinality(Full(chosen.columns \union {f}, train)) < MinTrainRows
  /\ chosen.columns = {} => Candidates(train) = {}

\* No trained window has the date.
NobodyHas(d) == \A i \in DOMAIN models : d \notin Oos(i)

\* Models are trained when the windows and the samples are complete, and asked afterwards.
ModelsInv ==
  /\ phase \in {"new", "windows", "dates", "no_session", "dataset"} => models = <<>> /\ next = 1
  /\ phase # "ready" => asked.model = 0 /\ asked.asOf = 0
  /\ asked.model # 0 => asked.asOf \in Oos(asked.model)
  /\ asked.asOf <= span.end
  /\ asked.model = 0 => asked.asOf < AfterWarmup \/ NobodyHas(asked.asOf)
  /\ phase = "ready" => next = Len(windows) + 1 \/ dataset = {}
  /\ \A i \in DOMAIN models : /\ models[i].columns # {}
                              /\ IsMaximal(models[i], TrainRows(models[i].window))
  /\ \A w \in 1..(next - 1) :
       (\A i \in DOMAIN models : models[i].window # w) => Candidates(TrainRows(w)) = {}

WInv == TypeOK /\ WindowsInv /\ DatesInv /\ ModelsInv

---------------------------------------------------------------------------
(* The calendar and the months.                                            *)

\* Open days are numbers, and no day is the missing one.
LEMMA OpenDaysAre ==
  ASSUME CalendarAssumption
  PROVE  OpenDays \subseteq Nat /\ NoDate \notin OpenDays
BY DEF CalendarAssumption, OpenDays

\* The sessions of a range of days.
LEMMA SessionsAre ==
  ASSUME CalendarAssumption, NEW first \in Int, NEW last \in Int
  PROVE  /\ SessionsInRange(first, last) \subseteq OpenDays
         /\ IsFiniteSet(SessionsInRange(first, last))
         /\ \A x \in SessionsInRange(first, last) : x \in Nat /\ first <= x /\ x <= last
<1>1. \A x \in SessionsInRange(first, last) : x \in OpenDays /\ first <= x /\ x <= last
  BY DEF SessionsInRange, OpenDays
<1>2. OpenDays \subseteq Nat
  BY OpenDaysAre
<1>3. SessionsInRange(first, last) \subseteq Int
  <2>1. OpenDays \subseteq Int
    BY <1>2
  <2>2. SessionsInRange(first, last) \subseteq OpenDays
    BY DEF SessionsInRange, OpenDays
  <2>3. QED
    BY <2>1, <2>2
<1>4. IsFiniteSet(SessionsInRange(first, last))
  BY <1>1, <1>3, BoundedIsFinite
<1>5. QED
  BY <1>1, <1>2, <1>4

\* The session before a date, if there is one, is a session and earlier.
LEMMA PreviousIs ==
  ASSUME CalendarAssumption, NEW d \in Nat, PreviousTradingDay(d) # NoDate
  PROVE  PreviousTradingDay(d) \in OpenDays /\ PreviousTradingDay(d) < d
<1> DEFINE found == SessionsInRange(d - 1 - LookupWindow, d - 1)
<1>1. d - 1 \in Int /\ d - 1 - LookupWindow \in Int
  BY DEF CalendarAssumption
<1>2. found # {} /\ PreviousTradingDay(d) = Max(found)
  BY DEF PreviousTradingDay
<1>3. found \subseteq OpenDays /\ IsFiniteSet(found) /\ \A x \in found : x \in Nat /\ x <= d - 1
  BY <1>1, SessionsAre
<1>4. Max(found) \in found
  <2> HIDE DEF found
  <2>1. found \subseteq Int
    BY <1>3
  <2> QED BY <1>2, <1>3, <2>1, MaxIn
<1>5. QED
  <2> HIDE DEF found
  <2>1. Max(found) \in OpenDays /\ Max(found) \in Int /\ Max(found) <= d - 1
    BY <1>3, <1>4
  <2> QED BY <1>2, <2>1

\* The first session from a date on, if there is one, is a session.
LEMMA RollIs ==
  ASSUME CalendarAssumption, NEW d \in Nat, RollToTradingDay(d) # NoDate
  PROVE  RollToTradingDay(d) \in OpenDays
<1> DEFINE found == SessionsInRange(d, d + LookupWindow)
<1>1. d \in Int /\ d + LookupWindow \in Int
  BY DEF CalendarAssumption
<1>2. found # {} /\ RollToTradingDay(d) = Min(found)
  BY DEF RollToTradingDay
<1>3. found \subseteq OpenDays /\ IsFiniteSet(found) /\ \A x \in found : x \in Nat
  BY <1>1, SessionsAre
<1>4. Min(found) \in found
  <2> HIDE DEF found
  <2>1. found \subseteq Int
    BY <1>3
  <2> QED BY <1>2, <1>3, <2>1, MinIn
<1>5. QED
  <2> HIDE DEF found
  <2> QED BY <1>2, <1>3, <1>4

\* The end of a label, if there is one, is a session.
LEMMA LabelEndIs ==
  ASSUME CalendarAssumption, WalkForwardAssumption, NEW d \in Nat, LabelEnd(d) # NoDate
  PROVE  LabelEnd(d) \in OpenDays
<1> DEFINE days == TradingDaysBetween(d, d + 3 * Horizon)
<1>1. Horizon \in Nat
  BY DEF WalkForwardAssumption
<1>2. d \in Int /\ d + 3 * Horizon \in Int
  BY <1>1
<1>3. days \subseteq OpenDays /\ IsFiniteSet(days) /\ days \subseteq Int
  BY <1>2, SessionsAre DEF TradingDaysBetween
<1>4. ~(Cardinality(days) <= Horizon)
  BY DEF LabelEnd
<1>5. LabelEnd(d) = CHOOSE e \in days : Cardinality({x \in days : x < e}) = Horizon
  BY <1>4, Zenon DEF LabelEnd
<1>6. \E e \in days : Cardinality({x \in days : x < e}) = Horizon
  <2> HIDE DEF days
  <2>1. /\ Cardinality(days) \in Nat
        /\ \A k \in 0..(Cardinality(days) - 1) : \E x \in days : Below(x, days) = k
    BY <1>3, PlacesOfNumbers
  <2>2. Horizon \in 0..(Cardinality(days) - 1)
    BY <1>1, <1>4, <2>1
  <2>3. QED
    BY <2>1, <2>2 DEF Below
<1>7. QED
  <2> HIDE DEF days
  <2> QED BY <1>3, <1>5, <1>6, Zenon

\* Months are in order, each with at least a day.
LEMMA MonthsAre ==
  ASSUME WalkForwardAssumption
  PROVE  /\ Len(MonthStarts) \in Nat /\ Months = 1..(Len(MonthStarts) - 1)
         /\ \A m \in Months : /\ m \in Nat /\ MonthStarts[m] \in Nat
                              /\ MonthStarts[m + 1] \in Nat /\ MonthStarts[m] < MonthStarts[m + 1]
         /\ \A m, n \in Months : m < n => MonthStarts[m + 1] <= MonthStarts[n]
<1>1. /\ MonthStarts \in Seq(Nat) /\ Len(MonthStarts) \in Nat
      /\ DOMAIN MonthStarts = 1..Len(MonthStarts) /\ Months = 1..(Len(MonthStarts) - 1)
      /\ \A m \in 1..Len(MonthStarts) : MonthStarts[m] \in Nat
      /\ \A m, n \in 1..Len(MonthStarts) : m < n => MonthStarts[m] < MonthStarts[n]
  BY DEF WalkForwardAssumption, Months
<1>2. \A m \in Months : m \in 1..Len(MonthStarts) /\ m + 1 \in 1..Len(MonthStarts) /\ m < m + 1
  BY <1>1
<1>3. \A m \in Months : /\ m \in Nat /\ MonthStarts[m] \in Nat
                        /\ MonthStarts[m + 1] \in Nat /\ MonthStarts[m] < MonthStarts[m + 1]
  BY <1>1, <1>2
<1>4. ASSUME NEW m \in Months, NEW n \in Months, m < n
      PROVE  MonthStarts[m + 1] <= MonthStarts[n]
  <2>1. CASE m + 1 = n
    BY <1>3, <2>1
  <2>2. CASE m + 1 # n
    <3>1. m + 1 < n
      BY <1>2, <1>4, <2>2
    <3>2. MonthStarts[m + 1] < MonthStarts[n]
      BY <1>1, <1>2, <3>1
    <3>3. QED
      BY <1>3, <3>2
  <2>3. QED
    BY <2>1, <2>2
<1>5. QED
  BY <1>1, <1>3, <1>4

IsMonthOf(m, d) == MonthStarts[m] <= d /\ d < MonthStarts[m + 1]

\* A day is in one month only.
LEMMA MonthOfIs ==
  ASSUME WalkForwardAssumption, NEW d \in Nat, NEW m \in Months, IsMonthOf(m, d)
  PROVE  MonthOf(d) = m
<1>1. ASSUME NEW n \in Months, IsMonthOf(n, d) PROVE n = m
  <2>1. m \in Nat /\ n \in Nat
    BY MonthsAre
  <2>2. /\ MonthStarts[n] \in Nat /\ MonthStarts[n + 1] \in Nat /\ MonthStarts[n] <= d
        /\ MonthStarts[m] \in Nat /\ MonthStarts[m + 1] \in Nat /\ MonthStarts[m] <= d
        /\ d < MonthStarts[n + 1] /\ d < MonthStarts[m + 1]
    BY <1>1, MonthsAre DEF IsMonthOf
  <2>3. ~(n < m)
    <3>1. n < m => MonthStarts[n + 1] <= MonthStarts[m]
      BY MonthsAre
    <3>2. QED
      BY <2>2, <3>1
  <2>4. ~(m < n)
    <3>1. m < n => MonthStarts[m + 1] <= MonthStarts[n]
      BY MonthsAre
    <3>2. QED
      BY <2>2, <3>1
  <2>5. QED
    BY <2>1, <2>3, <2>4
<1>2. MonthOf(d) \in Months /\ IsMonthOf(MonthOf(d), d)
  BY Zenon DEF MonthOf, IsMonthOf
<1>3. QED
  BY <1>1, <1>2

\* The same day of a later month is a later day.
LEMMA AddMonthsIs ==
  ASSUME WalkForwardAssumption, NEW d \in Nat, NEW m \in Months, IsMonthOf(m, d),
         NEW n \in Nat \ {0}, m + n \in Months
  PROVE  AddMonths(d, n) \in Nat /\ d < AddMonths(d, n) /\ MonthStarts[m + n] <= AddMonths(d, n)
<1>1. MonthOf(d) = m
  BY MonthOfIs
<1>2. m < m + n /\ m \in Nat
  BY MonthsAre
<1>3. /\ MonthStarts[m] \in Nat /\ MonthStarts[m + 1] <= MonthStarts[m + n]
      /\ MonthStarts[m + n] \in Nat /\ MonthStarts[m + n + 1] \in Nat
      /\ MonthStarts[m + n] < MonthStarts[m + n + 1]
  BY <1>2, MonthsAre
<1> DEFINE day == MonthStarts[m + n] + (d - MonthStarts[m])
<1>4. AddMonths(d, n) = IF day < MonthStarts[m + n + 1] THEN day ELSE MonthStarts[m + n + 1] - 1
  BY <1>1 DEF AddMonths
<1>5. MonthStarts[m] <= d /\ d < MonthStarts[m + 1] /\ MonthStarts[m + 1] \in Nat
  BY MonthsAre DEF IsMonthOf
<1>6. \A a, b \in Nat : b <= d => a + (d - b) \in Nat /\ a <= a + (d - b)
  OBVIOUS
<1>7. day \in Nat /\ MonthStarts[m + n] <= day
  BY <1>3, <1>5, <1>6, Zenon
<1>8. CASE day < MonthStarts[m + n + 1]
  <2> HIDE DEF day
  <2>1. AddMonths(d, n) = day
    BY <1>4, <1>8
  <2> QED BY <1>3, <1>5, <1>7, <2>1
<1>9. CASE ~(day < MonthStarts[m + n + 1])
  <2>1. AddMonths(d, n) = MonthStarts[m + n + 1] - 1
    BY <1>4, <1>9
  <2>2. \A a, b, e \in Nat : d < b /\ b <= a /\ a < e => e - 1 \in Nat /\ d < e - 1 /\ a <= e - 1
    OBVIOUS
  <2>3. /\ MonthStarts[m + n + 1] - 1 \in Nat /\ d < MonthStarts[m + n + 1] - 1
        /\ MonthStarts[m + n] <= MonthStarts[m + n + 1] - 1
    BY <1>3, <1>5, <2>2, Zenon
  <2> QED BY <2>1, <2>3, Zenon
<1>10. QED
  BY <1>8, <1>9

\* The span of a backtest is of numbers.
LEMMA SpanIs ==
  ASSUME WalkForwardAssumption, TypeOK
  PROVE  span \in Spans /\ span.start \in Nat /\ span.end \in Nat
BY DEF WalkForwardAssumption, TypeOK

\* A rebalance date is a session of the span.
LEMMA RebalanceIs ==
  ASSUME CalendarAssumption, WalkForwardAssumption, NEW d \in RebalanceDates
  PROVE  d \in OpenDays /\ d \in Nat /\ span.start <= d /\ d <= span.end
<1>1. /\ d \in RolledMonths /\ d # NoDate /\ span.start <= d /\ d <= span.end
  BY Zenon DEF RebalanceDates
<1>2. PICK m \in Months : d = RollToTradingDay(MonthStarts[m])
  BY <1>1 DEF RolledMonths
<1>3. d \in OpenDays
  BY <1>1, <1>2, MonthsAre, RollIs
<1>4. QED
  BY <1>1, <1>3, OpenDaysAre

\* The warm-up is not empty and ends in a month that is known.
LEMMA AfterWarmupIs ==
  ASSUME WalkForwardAssumption, TypeOK
  PROVE  AfterWarmup \in Nat /\ span.start < AfterWarmup
           /\ \E m \in Months : MonthStarts[m] <= AfterWarmup
<1>1. PICK m \in Months : IsMonthOf(m, span.start) /\ m + WarmupYears * MonthsPerYear \in Months
  BY SpanIs DEF WalkForwardAssumption, IsMonthOf
<1>2. WarmupYears * MonthsPerYear \in Nat \ {0}
  <2>1. \A a, b \in Nat \ {0} : a * b \in Nat \ {0}
    OBVIOUS
  <2>2. QED
    BY <2>1 DEF WalkForwardAssumption
<1>3. QED
  BY <1>1, <1>2, SpanIs, AddMonthsIs DEF AfterWarmup, AddYears

\* A day of the span after the warm-up is in a month that is not one of the last.
LEMMA MonthExists ==
  ASSUME WalkForwardAssumption, TypeOK, NEW d \in Nat, AfterWarmup <= d, d <= span.end
  PROVE  \E m \in Months : IsMonthOf(m, d) /\ m + OosMonths \in Months
<1>1. PICK first \in Months : MonthStarts[first] <= AfterWarmup
  BY AfterWarmupIs
<1>2. PICK last \in Months : span.end < MonthStarts[last + 1] /\ last + OosMonths \in Months
  BY SpanIs DEF WalkForwardAssumption
<1> DEFINE T == {m \in Months : MonthStarts[m] <= d}
<1>3. first \in T /\ T \subseteq Int /\ IsFiniteSet(T)
  <2>1. first \in T
    <3>1. MonthStarts[first] \in Nat /\ AfterWarmup \in Nat
      BY MonthsAre, AfterWarmupIs
    <3>2. MonthStarts[first] <= d
      BY <1>1, <3>1
    <3>3. QED
      BY <3>2
  <2>2. \A m \in T : m \in Int /\ 0 <= m /\ m <= Len(MonthStarts)
    BY MonthsAre
  <2>3. T \subseteq Int /\ IsFiniteSet(T)
    <3> HIDE DEF T
    <3> QED BY <2>2, BoundedIsFinite, 0 \in Int, Len(MonthStarts) \in Int, MonthsAre
  <2>4. QED
    BY <2>1, <2>3
<1>4. PICK m \in T : \A y \in T : m >= y
  <2> HIDE DEF T
  <2> QED BY <1>3, MaxIn
<1>5. m \in Months /\ MonthStarts[m] <= d
  BY <1>4
<1>6. m <= last
  <2>1. m \in Nat /\ last \in Nat /\ (last < m => MonthStarts[last + 1] <= MonthStarts[m])
    BY <1>5, MonthsAre
  <2>2. MonthStarts[last + 1] \in Nat /\ MonthStarts[m] \in Nat /\ span.end \in Nat
    BY <1>5, MonthsAre, SpanIs
  <2>3. QED
    BY <1>2, <1>5, <2>1, <2>2
<1>7. m + OosMonths \in Months /\ m + 1 \in Months
  <2>1. OosMonths \in Nat \ {0} /\ m \in Nat /\ last \in Nat /\ 1 <= m
    BY <1>5, MonthsAre DEF WalkForwardAssumption
  <2>2. Len(MonthStarts) \in Nat /\ Months = 1..(Len(MonthStarts) - 1)
    BY MonthsAre
  <2>3. QED
    BY <1>2, <1>6, <2>1, <2>2
<1>8. d < MonthStarts[m + 1]
  <2>1. m + 1 \in Months
    BY <1>7
  <2>2. m + 1 \notin T
    <3>1. m \in Nat
      BY <1>5, MonthsAre
    <3> HIDE DEF T
    <3> QED BY <1>3, <1>4, <3>1
  <2>3. MonthStarts[m + 1] \in Nat
    BY <1>5, MonthsAre
  <2>4. QED
    BY <2>1, <2>2, <2>3
<1>9. QED
  BY <1>5, <1>7, <1>8 DEF IsMonthOf

\* What expanding_windows makes of the next start: a window that begins there and is not
\* empty, of which the last may be shorter than the others.
LEMMA WindowFromIs ==
  ASSUME WalkForwardAssumption, TypeOK, NEW d \in Nat, AfterWarmup <= d, d <= span.end
  PROVE  /\ WindowFrom(d) \in Window
         /\ WindowFrom(d).trainEnd = d - 1 /\ WindowFrom(d).oosStart = d
         /\ d <= WindowFrom(d).oosEnd /\ WindowFrom(d).oosEnd <= span.end
<1>1. OosMonths \in Nat \ {0}
  BY DEF WalkForwardAssumption
<1>2. PICK m \in Months : IsMonthOf(m, d) /\ m + OosMonths \in Months
  BY MonthExists
<1>3. AddMonths(d, OosMonths) \in Nat /\ d < AddMonths(d, OosMonths)
  BY <1>1, <1>2, AddMonthsIs
<1> DEFINE last == AddMonths(d, OosMonths) - 1
<1>4. last \in Nat /\ d <= last
  BY <1>3
<1>5. WindowFrom(d) = [trainEnd |-> d - 1, oosStart |-> d,
                       oosEnd |-> IF last < span.end THEN last ELSE span.end]
  BY Zenon DEF WindowFrom
<1>6. QED
  <2> HIDE DEF last
  <2> QED BY <1>4, <1>5, SpanIs DEF Window

---------------------------------------------------------------------------
(* The windows.                                                            *)

\* The first window will start after the warm-up.
LEMMA BeginWindows ==
  ASSUME WalkForwardAssumption, TypeOK, WindowsInv, Begin
  PROVE  WindowsInv' /\ from' \in Nat
<1>1. /\ windows = <<>> /\ UNCHANGED <<span, windows>> /\ phase' = "windows"
      /\ from' = AfterWarmup
  BY DEF Begin, WindowsInv, AfterWarmup
<1>2. AfterWarmup' = AfterWarmup /\ AfterWarmup \in Nat
  BY <1>1, AfterWarmupIs DEF AfterWarmup
<1>3. DOMAIN windows = {} /\ AfterWarmup..(AfterWarmup - 1) = {}
  BY <1>1, <1>2
<1>4. QED
  BY <1>1, <1>2, <1>3 DEF WindowsInv

\* A window more: it starts on the day after the last one, and the next one on the day
\* after it.
LEMMA AddWindowWindows ==
  ASSUME WalkForwardAssumption, TypeOK, WindowsInv, AddWindow
  PROVE  WindowsInv' /\ from' \in Nat /\ windows' \in Seq(Window)
           /\ Len(windows') \in Len(windows)..(Len(windows) + 1)
<1>1. /\ phase = "windows" /\ UNCHANGED span /\ windows \in Seq(Window) /\ from \in Nat
      /\ AfterWarmup' = AfterWarmup /\ AfterWarmup \in Nat /\ AfterWarmup <= from
      /\ span.end \in Nat
  BY AfterWarmupIs, SpanIs DEF AddWindow, TypeOK, WindowsInv, AfterWarmup
<1>2. CASE ~(from <= span.end)
  <2>1. phase' = "dates" /\ UNCHANGED <<windows, from>> /\ span.end < from
    BY <1>1, <1>2 DEF AddWindow
  <2>2. \A w : WindowIs(w)' <=> WindowIs(w)
    BY <1>1, <2>1 DEF WindowIs
  <2>3. WindowsInv'
    BY <1>1, <2>1, <2>2 DEF WindowsInv, IsIn
  <2>4. QED
    BY <1>1, <2>1, <2>3
<1>3. CASE from <= span.end
  <2> DEFINE n == Len(windows)
             w == WindowFrom(from)
  <2>1. /\ w \in Window /\ w.trainEnd = from - 1 /\ w.oosStart = from
        /\ from <= w.oosEnd /\ w.oosEnd <= span.end /\ w.oosEnd \in Nat
    <3>1. w \in Window => w.oosEnd \in Nat
      BY DEF Window
    <3>2. QED
      <4> HIDE DEF w
      <4> QED BY <1>1, <1>3, <3>1, WindowFromIs DEF w
  <2>2. phase' = "windows" /\ windows' = Append(windows, w) /\ from' = w.oosEnd + 1
    BY <1>1, <1>3 DEF AddWindow
  <2> HIDE DEF w
  <2>3. /\ windows' \in Seq(Window) /\ n \in Nat /\ Len(windows') = n + 1
        /\ DOMAIN windows = 1..n /\ DOMAIN windows' = 1..(n + 1)
        /\ windows'[n + 1] = w /\ \A i \in 1..n : windows'[i] = windows[i]
    BY <1>1, <2>1, <2>2
  <2> HIDE DEF n
  <2>4. ASSUME NEW i \in 1..n
        PROVE  /\ windows[i].oosEnd < from /\ windows[i].oosEnd \in Nat /\ windows[i].oosStart \in Nat
               /\ WindowIs(windows[i])
    <3>1. windows[i] \in Window
      BY <1>1, <2>3
    <3>2. QED
      BY <2>3, <3>1 DEF WindowsInv, WindowIs, Window
  <2>5. ASSUME NEW i \in 1..(n + 1) PROVE WindowIs(windows[i])'
    <3>1. CASE i = n + 1
      <4>1. windows'[i] = w
        BY <2>3, <3>1
      <4>2. AfterWarmup <= w.oosStart /\ w.oosEnd < from'
        BY <1>1, <2>1, <2>2
      <4>3. QED
        BY <1>1, <2>1, <4>1, <4>2 DEF WindowIs
    <3>2. CASE i \in 1..n
      <4>1. windows'[i] = windows[i] /\ windows[i].oosEnd < from'
        BY <1>1, <2>1, <2>2, <2>3, <2>4, <3>2
      <4>2. QED
        BY <1>1, <2>4, <3>2, <4>1 DEF WindowIs
    <3>3. QED
      BY <2>3, <3>1, <3>2
  <2>6. ASSUME NEW i \in 1..(n + 1), NEW j \in 1..(n + 1), i < j
        PROVE  windows'[i].oosEnd < windows'[j].oosStart
    <3>1. i \in 1..n
      BY <2>3, <2>6
    <3>2. CASE j = n + 1
      BY <2>1, <2>3, <2>4, <3>1, <3>2
    <3>3. CASE j \in 1..n
      BY <2>3, <2>6, <3>1, <3>3 DEF WindowsInv
    <3>4. QED
      BY <2>3, <3>2, <3>3
  <2>7. ASSUME NEW d \in AfterWarmup..(from' - 1)
        PROVE  \E i \in 1..(n + 1) : IsIn(d, windows'[i])
    <3>1. CASE d < from
      <4>1. d \in AfterWarmup..(from - 1)
        BY <1>1, <3>1
      <4>2. PICK i \in 1..n : IsIn(d, windows[i])
        BY <1>1, <2>3, <4>1 DEF WindowsInv
      <4>3. QED
        BY <2>3, <4>2
    <3>2. CASE ~(d < from)
      <4>1. IsIn(d, w)
        BY <1>1, <2>1, <2>2, <3>2 DEF IsIn
      <4>2. QED
        BY <2>3, <4>1
    <3>3. QED
      BY <3>1, <3>2
  <2>8. AfterWarmup <= from' /\ from' \in Nat
    BY <1>1, <2>1, <2>2
  <2>9. WindowsInv'
    BY <1>1, <2>2, <2>3, <2>5, <2>6, <2>7, <2>8 DEF WindowsInv
  <2>10. QED
    BY <2>3, <2>8, <2>9 DEF n
<1>4. QED
  BY <1>2, <1>3

---------------------------------------------------------------------------
(* The columns of a window.                                                *)

\* The rows that have a feature are rows, and of more rows there are more of them.
LEMMA FilledIs ==
  ASSUME NEW f, NEW rows, IsFiniteSet(rows), NEW part \in SUBSET rows
  PROVE  /\ Filled(f, rows) \subseteq rows /\ IsFiniteSet(Filled(f, rows))
         /\ Cardinality(Filled(f, rows)) \in Nat
         /\ Cardinality(Filled(f, part)) \in Nat
         /\ Cardinality(Filled(f, part)) <= Cardinality(Filled(f, rows))
<1>1. Filled(f, rows) \subseteq rows /\ Filled(f, part) \subseteq Filled(f, rows)
  BY DEF Filled
<1>2. IsFiniteSet(Filled(f, rows))
  BY <1>1, FS_Subset
<1>3. IsFiniteSet(Filled(f, part))
  BY <1>1, <1>2, FS_Subset
<1>4. QED
  BY <1>1, <1>2, <1>3, FS_Subset, FS_CardinalityType

\* "Fuller" puts the candidates in order, so that each has its place.
LEMMA NthIs ==
  ASSUME WalkForwardAssumption, NEW train, IsFiniteSet(train)
  PROVE  /\ IsFiniteSet(Candidates(train)) /\ Cardinality(Candidates(train)) \in Nat
         /\ \A i \in 1..Cardinality(Candidates(train)) : Nth(i, train) \in Candidates(train)
         /\ \A f \in Candidates(train) :
              \E i \in 1..Cardinality(Candidates(train)) : Nth(i, train) = f
<1> DEFINE S == Candidates(train)
           size(f) == Cardinality(Filled(f, train))
           R == {p \in S \X S : Fuller(p[1], p[2], train)}
           before(f) == Cardinality({g \in S : Fuller(g, f, train)})
<1>1. S \subseteq Features /\ Features \subseteq Nat /\ IsFiniteSet(Features)
  BY DEF Candidates, WalkForwardAssumption
<1>2. IsFiniteSet(S) /\ Cardinality(S) \in Nat
  BY <1>1, FS_Subset, FS_CardinalityType
<1>3. \A f \in S : size(f) \in Nat /\ f \in Nat
  BY <1>1, FilledIs
<1>4. \A f, g : Fuller(f, g, train) <=> size(f) > size(g) \/ (size(f) = size(g) /\ f > g)
  BY DEF Fuller
<1>5. \A f, g \in S : <<f, g>> \in R <=> Fuller(f, g, train)
  OBVIOUS
<1> HIDE DEF S, R, size
<1>6. Orders(R, S)
  <2>1. \A f \in S : <<f, f>> \notin R
    BY <1>3, <1>4, <1>5
  <2>2. ASSUME NEW f \in S, NEW g \in S, f # g
        PROVE  <<f, g>> \in R \/ <<g, f>> \in R
    BY <1>3, <1>4, <1>5, <2>2
  <2>3. ASSUME NEW f \in S, NEW g \in S, NEW h \in S, <<f, g>> \in R, <<g, h>> \in R
        PROVE  <<f, h>> \in R
    BY <1>3, <1>4, <1>5, <2>3
  <2>4. QED
    BY <2>1, <2>2, <2>3 DEF Orders
<1>7. \A f \in S : PlaceIn(f, R, S) = before(f)
  <2>1. \A f \in S : {g \in S : <<g, f>> \in R} = {g \in S : Fuller(g, f, train)}
    BY <1>5
  <2>2. QED
    BY <2>1 DEF PlaceIn
<1>8. /\ \A f \in S : before(f) \in 0..(Cardinality(S) - 1)
      /\ \A f, g \in S : before(f) = before(g) => f = g
      /\ \A k \in 0..(Cardinality(S) - 1) : \E f \in S : before(f) = k
  <2>1. /\ \A x \in S : PlaceIn(x, R, S) \in 0..(Cardinality(S) - 1)
        /\ \A x, y \in S : <<x, y>> \in R => PlaceIn(x, R, S) < PlaceIn(y, R, S)
        /\ \A k \in 0..(Cardinality(S) - 1) : \E x \in S : PlaceIn(x, R, S) = k
    BY <1>2, <1>6, Places
  <2> HIDE DEF before
  <2>2. ASSUME NEW f \in S, NEW g \in S, before(f) = before(g)
        PROVE  f = g
    <3>1. PlaceIn(f, R, S) \in Int /\ PlaceIn(f, R, S) = PlaceIn(g, R, S)
      BY <1>7, <2>1, <2>2
    <3>2. <<f, g>> \notin R /\ <<g, f>> \notin R
      BY <2>1, <3>1
    <3>3. QED
      BY <1>6, <3>2, Zenon DEF Orders
  <2>3. QED
    BY <1>7, <2>1, <2>2
<1>9. \A i : Nth(i, train) = CHOOSE f \in S : before(f) = i - 1
  BY Zenon DEF Nth, S
<1> HIDE DEF before
<1>10. ASSUME NEW i \in 1..Cardinality(S)
       PROVE  Nth(i, train) \in S /\ before(Nth(i, train)) = i - 1
  <2>1. i - 1 \in 0..(Cardinality(S) - 1)
    BY <1>2
  <2>2. \E f \in S : before(f) = i - 1
    BY <1>8, <2>1
  <2>3. QED
    BY <1>9, <2>2, Zenon
<1>11. ASSUME NEW f \in S
       PROVE  \E i \in 1..Cardinality(S) : Nth(i, train) = f
  <2>1. before(f) \in 0..(Cardinality(S) - 1)
    BY <1>8
  <2>2. before(f) + 1 \in 1..Cardinality(S) /\ (before(f) + 1) - 1 = before(f)
    BY <1>2, <2>1
  <2>3. QED
    BY <1>8, <1>10, <2>2
<1>12. QED
  BY <1>2, <1>10, <1>11 DEF S

\* The equation of the recursion in Eligible.
IsChosen(chosen, last, train) ==
  chosen = [i \in 0..last |->
              IF i = 0 THEN [columns |-> {}, rows |-> train]
                       ELSE WithColumn(chosen[i - 1], Nth(i, train), train)]

\* The choice of columns is the last value of the recursion.
LEMMA EligibleIs ==
  ASSUME NEW train
  PROVE  Eligible(train) = (CHOOSE chosen : IsChosen(chosen, Cardinality(Candidates(train)), train))
                             [Cardinality(Candidates(train))]
BY Zenon DEF Eligible, IsChosen

Choice(train) == [columns : SUBSET Features, rows : SUBSET train]

\* A choice with or without one more column is a choice.
LEMMA WithColumnIs ==
  ASSUME NEW train, NEW chosen \in Choice(train), NEW f \in Features
  PROVE  WithColumn(chosen, f, train) \in Choice(train)
<1>1. Filled(f, chosen.rows) \subseteq train
  BY DEF Filled, Choice
<1>2. QED
  BY <1>1 DEF WithColumn, Choice

\* The recursion has a solution.
LEMMA ChosenExists ==
  ASSUME WalkForwardAssumption, NEW train, IsFiniteSet(train)
  PROVE  \E chosen : IsChosen(chosen, Cardinality(Candidates(train)), train)
<1> DEFINE n == Cardinality(Candidates(train))
           A == Choice(train)
           base == [columns |-> {}, rows |-> train]
           step == [p \in (1..n) \X A |-> WithColumn(p[2], Nth(p[1], train), train)]
<1>1. n \in Nat /\ \A i \in 1..n : Nth(i, train) \in Features
  BY NthIs DEF Candidates
<1>2. base \in A
  BY DEF Choice
<1>3. step \in [(1..n) \X A -> A]
  <2> HIDE DEF n
  <2> QED BY <1>1, WithColumnIs
<1>4. \A i \in 1..n, c \in A : step[<<i, c>>] = WithColumn(c, Nth(i, train), train)
  OBVIOUS
<1> HIDE DEF n, A, base, step
<1>5. PICK chosen \in [0..n -> A] : Recurs(chosen, base, step, n)
  <2>1. n \in Nat
    BY <1>1
  <2>2. QED
    BY <1>2, <1>3, <2>1, RecursionExists, Zenon
<1>6. ASSUME NEW i \in 0..n
      PROVE  chosen[i] = IF i = 0 THEN base ELSE WithColumn(chosen[i - 1], Nth(i, train), train)
  <2>1. CASE i = 0
    BY <1>5, <2>1 DEF Recurs
  <2>2. CASE i # 0
    <3>1. i \in 1..n /\ i - 1 \in 0..n
      BY <1>1, <2>2
    <3>2. chosen[i - 1] \in A
      BY <1>5, <3>1
    <3>3. chosen[i] = WithColumn(chosen[i - 1], Nth(i, train), train)
      BY <1>4, <1>5, <3>1, <3>2 DEF Recurs
    <3>4. QED
      BY <2>2, <3>3
  <2>3. QED
    BY <2>1, <2>2
<1>7. IsChosen(chosen, n, train)
  BY <1>5, <1>6 DEF IsChosen, base
<1>8. QED
  BY <1>7 DEF n

\* The rows that are complete for more columns are fewer.
LEMMA FullIs ==
  ASSUME NEW train, IsFiniteSet(train), NEW columns, NEW more, columns \subseteq more
  PROVE  /\ Full(more, train) \subseteq train /\ Full({}, train) = train
         /\ \A f : Filled(f, Full(columns, train)) = Full(columns \union {f}, train)
         /\ IsFiniteSet(Full(columns, train))
         /\ Cardinality(Full(columns, train)) \in Nat /\ Cardinality(Full(more, train)) \in Nat
         /\ Cardinality(Full(more, train)) <= Cardinality(Full(columns, train))
<1>1. /\ Full(more, train) \subseteq Full(columns, train) /\ Full(columns, train) \subseteq train
      /\ Full({}, train) = train
      /\ \A f : Filled(f, Full(columns, train)) = Full(columns \union {f}, train)
  BY DEF Full, Filled
<1>2. IsFiniteSet(Full(columns, train))
  BY <1>1, FS_Subset
<1>3. IsFiniteSet(Full(more, train))
  BY <1>1, <1>2, FS_Subset
<1>4. QED
  BY <1>1, <1>2, <1>3, FS_Subset, FS_CardinalityType

\* The choice after the first i candidates.
UpTo(chosen, i, train) ==
  /\ chosen.columns \subseteq {Nth(j, train) : j \in 1..i}
  /\ chosen.rows = Full(chosen.columns, train)
  /\ chosen.columns # {} => Cardinality(chosen.rows) >= MinTrainRows
  /\ \A j \in 1..i : Nth(j, train) \notin chosen.columns =>
       Cardinality(Full(chosen.columns \union {Nth(j, train)}, train)) < MinTrainRows
  /\ chosen.columns = {} => i = 0

\* The next candidate is a column if enough rows remain; one that was refused before would
\* leave as few or fewer rows now.
LEMMA NextColumn ==
  ASSUME WalkForwardAssumption, NEW train, IsFiniteSet(train),
         NEW n \in Nat, NEW i \in 1..n, Nth(i, train) \in Candidates(train),
         NEW chosen, UpTo(chosen, i - 1, train)
  PROVE  UpTo(WithColumn(chosen, Nth(i, train), train), i, train)
<1> DEFINE f == Nth(i, train)
           C == chosen.columns
           size(columns) == Cardinality(Full(columns, train))
<1>1. MinTrainRows \in Nat
  BY DEF WalkForwardAssumption
<1>2. /\ 1..(i - 1) \subseteq 1..i /\ i \in 1..i /\ i - 1 \in Nat
      /\ \A j \in 1..i : j = i \/ j \in 1..(i - 1)
  OBVIOUS
<1>3. /\ C \subseteq {Nth(j, train) : j \in 1..(i - 1)} /\ chosen.rows = Full(C, train)
      /\ C # {} => size(C) >= MinTrainRows
      /\ \A j \in 1..(i - 1) : Nth(j, train) \notin C => size(C \union {Nth(j, train)}) < MinTrainRows
      /\ C = {} => i - 1 = 0
  BY DEF UpTo
<1>4. Filled(f, chosen.rows) = Full(C \union {f}, train)
  BY <1>3, FullIs
<1>5. \A columns : size(columns) \in Nat
  BY FullIs
<1>6. CASE size(C \union {f}) >= MinTrainRows
  <2>1. WithColumn(chosen, f, train) = [columns |-> C \union {f}, rows |-> Full(C \union {f}, train)]
    BY <1>4, <1>6 DEF WithColumn
  <2>2. C \union {f} \subseteq {Nth(j, train) : j \in 1..i}
    BY <1>2, <1>3
  <2>3. ASSUME NEW j \in 1..i, Nth(j, train) \notin C \union {f}
        PROVE  size((C \union {f}) \union {Nth(j, train)}) < MinTrainRows
    <3>1. j \in 1..(i - 1)
      BY <1>2, <2>3
    <3>2. size(C \union {Nth(j, train)}) < MinTrainRows
      BY <1>3, <2>3, <3>1
    <3>3. size((C \union {f}) \union {Nth(j, train)}) <= size(C \union {Nth(j, train)})
      <4>1. C \union {Nth(j, train)} \subseteq (C \union {f}) \union {Nth(j, train)}
        OBVIOUS
      <4> HIDE DEF C, f
      <4> QED BY <4>1, FullIs
    <3> HIDE DEF size
    <3>4. QED
      BY <1>1, <1>5, <3>2, <3>3
  <2> HIDE DEF f, C
  <2>4. QED
    BY <1>6, <2>1, <2>2, <2>3 DEF UpTo, f
<1>7. CASE ~(size(C \union {f}) >= MinTrainRows)
  <2>1. WithColumn(chosen, f, train) = chosen
    BY <1>4, <1>7 DEF WithColumn
  <2>2. C # {}
    <3>1. SUFFICES ASSUME C = {} PROVE FALSE
      OBVIOUS
    <3>2. Full({}, train) = train
      BY FullIs
    <3>3. Filled(f, train) = Full(C \union {f}, train)
      BY <1>3, <1>4, <3>1, <3>2
    <3>4. Cardinality(Filled(f, train)) >= MinTrainRows
      BY DEF Candidates
    <3>5. QED
      BY <1>7, <3>3, <3>4
  <2>3. \A j \in 1..i : Nth(j, train) \notin C => size(C \union {Nth(j, train)}) < MinTrainRows
    <3>1. size(C \union {f}) < MinTrainRows
      <4> HIDE DEF size
      <4> QED BY <1>1, <1>5, <1>7
    <3>2. QED
      BY <1>2, <1>3, <3>1
  <2>4. C \subseteq {Nth(j, train) : j \in 1..i}
    BY <1>2, <1>3
  <2>5. QED
    BY <1>3, <2>1, <2>2, <2>3, <2>4 DEF UpTo
<1>8. QED
  BY <1>6, <1>7

\* What is chosen of the columns and of a window's rows.
LEMMA EligibleIsMaximal ==
  ASSUME WalkForwardAssumption, NEW train, IsFiniteSet(train)
  PROVE  /\ Eligible(train).columns \in SUBSET Features
         /\ Eligible(train).rows \in SUBSET train
         /\ IsMaximal(Eligible(train), train)
<1> DEFINE n == Cardinality(Candidates(train))
           chosen == CHOOSE c : IsChosen(c, n, train)
           F == {i \in 0..n : UpTo(chosen[i], i, train)}
<1>1. /\ n \in Nat /\ \A i \in 1..n : Nth(i, train) \in Candidates(train)
      /\ \A f \in Candidates(train) : \E i \in 1..n : Nth(i, train) = f
  BY NthIs
<1>2. IsChosen(chosen, n, train)
  <2>1. \E c : IsChosen(c, n, train)
    BY ChosenExists
  <2>2. QED
    <3> HIDE DEF n
    <3> QED BY <2>1
<1>3. Eligible(train) = chosen[n]
  BY EligibleIs
<1> HIDE DEF n, chosen
<1>4. /\ chosen[0] = [columns |-> {}, rows |-> train]
      /\ \A i \in 1..n : chosen[i] = WithColumn(chosen[i - 1], Nth(i, train), train)
  <2>1. 0 \in 0..n /\ \A i \in 1..n : i \in 0..n /\ i # 0
    BY <1>1
  <2>2. \A i \in 0..n : chosen[i] = IF i = 0 THEN [columns |-> {}, rows |-> train]
                                    ELSE WithColumn(chosen[i - 1], Nth(i, train), train)
    BY <1>2 DEF IsChosen
  <2>3. QED
    BY <2>1, <2>2
<1>5. 0 \in F
  <2>1. UpTo(chosen[0], 0, train)
    <3>1. Full({}, train) = train
      BY FullIs
    <3>2. 1..0 = {}
      OBVIOUS
    <3>3. QED
      BY <1>4, <3>1, <3>2 DEF UpTo
  <2>2. QED
    BY <1>1, <2>1
<1>6. ASSUME NEW i \in 1..n, i - 1 \in F
      PROVE  i \in F
  <2>1. UpTo(chosen[i - 1], i - 1, train)
    BY <1>6
  <2>2. UpTo(chosen[i], i, train)
    <3>1. n \in Nat /\ Nth(i, train) \in Candidates(train)
      BY <1>1
    <3>2. UpTo(WithColumn(chosen[i - 1], Nth(i, train), train), i, train)
      BY <2>1, <3>1, NextColumn, Zenon
    <3>3. QED
      BY <1>4, <3>2
  <2>3. QED
    BY <1>1, <2>2
<1>7. UpTo(chosen[n], n, train)
  <2>1. n \in F
    <3> HIDE DEF F
    <3> QED BY <1>1, <1>5, <1>6, NumberInduction, n \in 0..n
  <2>2. QED
    BY <2>1
<1> DEFINE c == chosen[n]
<1> HIDE DEF F
<1>8. c.columns \subseteq Candidates(train) /\ Candidates(train) \subseteq Features
  BY <1>1, <1>7 DEF UpTo, Candidates
<1>9. c.rows = Full(c.columns, train) /\ c.rows \subseteq train
  BY <1>7, FullIs DEF UpTo
<1>10. \A f \in Candidates(train) \ c.columns :
         Cardinality(Full(c.columns \union {f}, train)) < MinTrainRows
  BY <1>1, <1>7 DEF UpTo
<1>11. c.columns # {} => Cardinality(c.rows) >= MinTrainRows
  BY <1>7 DEF UpTo
<1>12. ASSUME c.columns = {} PROVE Candidates(train) = {}
  <2>1. n = 0
    BY <1>7, <1>12 DEF UpTo
  <2>2. 1..n = {}
    BY <2>1
  <2>3. QED
    BY <1>1, <2>2
<1>13. QED
  BY <1>3, <1>8, <1>9, <1>10, <1>11, <1>12 DEF IsMaximal

---------------------------------------------------------------------------
(* The invariant.                                                          *)

\* Before fit() the invariant holds.
LEMMA InitW == ASSUME Init, WalkForwardAssumption PROVE WInv
<1>1. TypeOK
  BY DEF Init, TypeOK, Phases
<1>2. WindowsInv
  BY DEF Init, WindowsInv
<1>3. DatesInv
  BY FS_EmptySet DEF Init, DatesInv
<1>4. ModelsInv
  <2>1. AfterWarmup \in Nat /\ span.start < AfterWarmup /\ span.start \in Nat /\ span.end \in Nat
    BY <1>1, AfterWarmupIs, SpanIs
  <2>2. asked.asOf = 0 /\ asked.model = 0 /\ 0 <= span.end /\ 0 < AfterWarmup
    BY <2>1 DEF Init
  <2>3. QED
    BY <2>2 DEF Init, ModelsInv
<1>5. QED
  BY <1>1, <1>2, <1>3, <1>4 DEF WInv

\* While there are no models there is nothing to say of them.
LEMMA NoModels ==
  ASSUME TypeOK, models = <<>>, next = 1, asked.asOf = 0, asked.asOf <= span.end,
         phase' = "ready" => dataset' = {},
         UNCHANGED <<span, models, next, asked>>
  PROVE  ModelsInv'
<1>1. asked.model = 0
  BY DEF TypeOK
<1>2. DOMAIN models' = {} /\ 1..(next' - 1) = {} /\ asked'.model = 0
  BY <1>1
<1>3. NobodyHas(asked.asOf)'
  BY <1>2 DEF NobodyHas
<1>4. QED
  BY <1>2, <1>3 DEF ModelsInv

\* The windows are complete once the samples are made.
LEMMA SameWindows ==
  ASSUME WindowsInv, UNCHANGED <<span, from, windows>>,
         phase \notin {"new", "windows"}, phase' \notin {"new", "windows"}
  PROVE  WindowsInv'
<1>1. AfterWarmup' = AfterWarmup
  BY DEF AfterWarmup
<1>2. \A w : WindowIs(w)' <=> WindowIs(w)
  BY <1>1 DEF WindowIs
<1>3. QED
  BY <1>1, <1>2 DEF WindowsInv

\* Setting up the windows keeps it.
LEMMA BeginW == ASSUME WalkForwardAssumption, WInv, Begin PROVE WInv'
<1>1. /\ TypeOK /\ WindowsInv /\ DatesInv /\ ModelsInv /\ phase = "new" /\ phase' = "windows"
      /\ UNCHANGED <<span, data, windows, todo, dataset, next, models, asked>>
  BY DEF WInv, Begin
<1>2. WindowsInv' /\ from' \in Nat
  BY <1>1, BeginWindows
<1>3. TypeOK'
  BY <1>1, <1>2 DEF TypeOK, Phases
<1>4. DatesInv'
  BY <1>1 DEF DatesInv
<1>5. ModelsInv'
  BY <1>1, NoModels DEF ModelsInv
<1>6. QED
  BY <1>2, <1>3, <1>4, <1>5 DEF WInv

\* So does a window more.
LEMMA AddWindowW == ASSUME WalkForwardAssumption, WInv, AddWindow PROVE WInv'
<1>1. /\ TypeOK /\ WindowsInv /\ DatesInv /\ ModelsInv
      /\ phase = "windows" /\ phase' \in {"windows", "dates"}
      /\ UNCHANGED <<span, data, todo, dataset, next, models, asked>>
  BY DEF WInv, AddWindow
<1>2. WindowsInv' /\ from' \in Nat /\ windows' \in Seq(Window)
  BY <1>1, AddWindowWindows
<1>3. models = <<>> /\ next = 1
  BY <1>1 DEF ModelsInv
<1>4. TypeOK'
  <2>1. next' \in 1..(Len(windows') + 1)
    <3>1. Len(windows') \in Nat
      BY <1>2
    <3>2. QED
      BY <1>1, <1>3, <3>1
  <2>2. QED
    BY <1>1, <1>2, <2>1 DEF TypeOK, Phases
<1>5. DatesInv'
  BY <1>1 DEF DatesInv
<1>6. ModelsInv'
  BY <1>1, <1>3, NoModels DEF ModelsInv
<1>7. QED
  BY <1>2, <1>4, <1>5, <1>6 DEF WInv

\* The sample dates are sessions before the rebalance dates, or fit() raises.
LEMMA SampleDatesW ==
  ASSUME CalendarAssumption, WalkForwardAssumption, WInv, SampleDates
  PROVE  WInv'
<1> DEFINE dates == {PreviousTradingDay(d) : d \in RebalanceDates}
<1>1. /\ TypeOK /\ WindowsInv /\ DatesInv /\ ModelsInv
      /\ phase = "dates" /\ phase' \in {"no_session", "dataset"}
      /\ UNCHANGED <<span, data, from, windows, dataset, next, models, asked>>
      /\ dataset = {}
  BY DEF WInv, SampleDates, DatesInv
<1>2. phase' = "no_session" => todo' = todo
  BY DEF SampleDates
<1>3. phase' = "dataset" => todo' = dates /\ NoDate \notin dates
  BY DEF SampleDates
<1>4. ASSUME phase' = "dataset"
      PROVE  /\ \A d \in RebalanceDates : PreviousTradingDay(d) # NoDate
             /\ \A e \in todo' : e \in OpenDays /\ e <= span.end
  <2>1. todo' = dates /\ NoDate \notin dates
    BY <1>3, <1>4
  <2>2. ASSUME NEW d \in RebalanceDates
        PROVE  /\ PreviousTradingDay(d) # NoDate /\ PreviousTradingDay(d) \in OpenDays
               /\ PreviousTradingDay(d) <= span.end
    <3>1. PreviousTradingDay(d) # NoDate
      BY <2>1
    <3>2. d \in Nat /\ d <= span.end
      BY RebalanceIs
    <3>3. PreviousTradingDay(d) \in OpenDays /\ PreviousTradingDay(d) < d
      BY <3>1, <3>2, PreviousIs
    <3>4. PreviousTradingDay(d) \in Nat /\ span.end \in Nat
      BY <1>1, <3>3, OpenDaysAre, SpanIs
    <3>5. QED
      BY <3>1, <3>2, <3>3, <3>4
  <2>3. QED
    BY <2>1, <2>2
<1>5. WindowsInv'
  BY <1>1, SameWindows
<1>6. todo' \subseteq OpenDays
  BY <1>1, <1>2, <1>4 DEF TypeOK
<1>7. TypeOK'
  BY <1>1, <1>6 DEF TypeOK, Phases
<1>8. DatesInv'
  <2>1. RebalanceDates' = RebalanceDates
    BY <1>1 DEF RebalanceDates
  <2>2. \A d \in todo' : d <= span.end
    BY <1>1, <1>2, <1>4 DEF DatesInv
  <2>3. phase' = "dataset" => \A d \in RebalanceDates' : PreviousTradingDay(d) # NoDate
    BY <1>4, <2>1
  <2>4. IsFiniteSet(dataset) /\ dataset' = {} /\ dataset' = dataset
    BY <1>1 DEF DatesInv
  <2>5. QED
    BY <1>1, <2>2, <2>3, <2>4 DEF DatesInv
<1>9. ModelsInv'
  BY <1>1, NoModels DEF ModelsInv
<1>10. QED
  BY <1>5, <1>7, <1>8, <1>9 DEF WInv

SamplesAt(d, usable) == {[date |-> d, ticker |-> t, labelEnd |-> LabelEnd(d)] : t \in usable}

\* A date's samples: at most one of each ticker.
LEMMA SamplesOf ==
  ASSUME CalendarAssumption, WalkForwardAssumption, NEW d \in OpenDays, NEW usable \in SUBSET Tickers,
         LabelEnd(d) # NoDate
  PROVE  /\ IsFiniteSet(SamplesAt(d, usable)) /\ SamplesAt(d, usable) \subseteq Sample
         /\ \A r \in SamplesAt(d, usable) : r.date = d
         /\ \A r, s \in SamplesAt(d, usable) : r.ticker = s.ticker => r = s
<1> DEFINE S == SamplesAt(d, usable)
<1> DEFINE f == [t \in usable |-> [date |-> d, ticker |-> t, labelEnd |-> LabelEnd(d)]]
<1>1. LabelEnd(d) \in OpenDays
  BY OpenDaysAre, LabelEndIs
<1>2. IsFiniteSet(usable)
  BY FS_Subset DEF WalkForwardAssumption
<1>3. f \in Surjection(usable, S)
  BY DEF Surjection, SamplesAt
<1>4. IsFiniteSet(S)
  <2> HIDE DEF f
  <2> QED BY <1>2, <1>3, FS_Surjection
<1>5. QED
  BY <1>1, <1>4 DEF Sample, SamplesAt

\* The samples of one date are new, and the date is done with.
LEMMA LabelSamplesW ==
  ASSUME CalendarAssumption, WalkForwardAssumption, WInv, LabelSamples
  PROVE  WInv'
<1>1. /\ TypeOK /\ WindowsInv /\ DatesInv /\ ModelsInv
      /\ phase = "dataset" /\ phase' \in {"dataset", "train", "ready"}
      /\ UNCHANGED <<span, data, from, windows, next, models, asked>>
  BY DEF WInv, LabelSamples
<1>2. WindowsInv'
  BY <1>1, SameWindows
<1>3. ModelsInv'
  <2>1. phase' = "ready" => dataset' = {}
    BY <1>1 DEF LabelSamples
  <2>2. QED
    BY <1>1, <2>1, NoModels DEF ModelsInv
<1>4. RebalanceDates' = RebalanceDates
  BY <1>1 DEF RebalanceDates
<1>5. /\ IsFiniteSet(dataset') /\ dataset' \subseteq Sample /\ todo' \subseteq todo
      /\ \A r, s \in dataset' : r.date = s.date /\ r.ticker = s.ticker => r = s
      /\ \A r \in dataset' : r.date \notin todo'
  <2>1. CASE todo = {}
    <3>1. UNCHANGED <<todo, dataset>>
      BY <2>1 DEF LabelSamples
    <3>2. QED
      BY <1>1, <3>1 DEF TypeOK, DatesInv
  <2>2. CASE todo # {}
    <3> DEFINE d == Min(todo)
    <3>1. d \in todo /\ d \in OpenDays
      <4>1. todo \subseteq OpenDays /\ OpenDays \subseteq Nat
        BY <1>1, OpenDaysAre DEF TypeOK
      <4>2. \A e \in todo : e \in Int /\ 0 <= e /\ e <= span.end
        <5>1. \A e \in todo : e <= span.end
          BY <1>1 DEF DatesInv
        <5>2. QED
          BY <4>1, <5>1
      <4>3. todo \subseteq Int /\ IsFiniteSet(todo)
        BY <1>1, <4>2, BoundedIsFinite, SpanIs, 0 \in Int, span.end \in Int
      <4>4. d \in todo
        BY <2>2, <4>3, MinIn
      <4>5. QED
        BY <4>1, <4>4
    <3>2. PICK usable \in SUBSET {t \in Tickers : \E f \in Features : Has(t, f, d)} :
            dataset' = IF LabelEnd(d) = NoDate THEN dataset ELSE dataset \union SamplesAt(d, usable)
      BY <2>2, Zenon DEF LabelSamples, SamplesAt
    <3>3. todo' = todo \ {d}
      BY <2>2 DEF LabelSamples
    <3> HIDE DEF d
    <3>4. CASE LabelEnd(d) = NoDate
      <4>1. dataset' = dataset
        BY <3>2, <3>4
      <4>2. QED
        BY <1>1, <3>3, <4>1 DEF TypeOK, DatesInv
    <3>5. CASE LabelEnd(d) # NoDate
      <4> DEFINE S == SamplesAt(d, usable)
      <4>1. dataset' = dataset \union S
        BY <3>2, <3>5
      <4>2. /\ IsFiniteSet(S) /\ S \subseteq Sample /\ \A r \in S : r.date = d
            /\ \A r, s \in S : r.ticker = s.ticker => r = s
        <5>1. usable \in SUBSET Tickers
          OBVIOUS
        <5>2. QED
          BY <3>1, <3>5, <5>1, SamplesOf
      <4> HIDE DEF S
      <4>3. /\ IsFiniteSet(dataset) /\ dataset \subseteq Sample /\ \A r \in dataset : r.date \notin todo
            /\ \A r, s \in dataset : r.date = s.date /\ r.ticker = s.ticker => r = s
        BY <1>1 DEF TypeOK, DatesInv
      <4>4. IsFiniteSet(dataset')
        BY <4>1, <4>2, <4>3, FS_Union
      <4>5. \A r \in dataset, s \in S : r.date # s.date
        BY <3>1, <4>2, <4>3
      <4>6. \A r, s \in dataset' : r.date = s.date /\ r.ticker = s.ticker => r = s
        BY <4>1, <4>2, <4>3, <4>5
      <4>7. \A r \in dataset' : r.date \notin todo'
        BY <3>3, <4>1, <4>2, <4>3
      <4>8. QED
        BY <3>3, <4>1, <4>2, <4>3, <4>4, <4>6, <4>7
    <3>6. QED
      BY <3>4, <3>5
  <2>3. QED
    BY <2>1, <2>2
<1>6. TypeOK'
  <2>1. models = <<>> /\ DOMAIN models' = {}
    BY <1>1 DEF ModelsInv
  <2>2. todo' \subseteq OpenDays
    BY <1>1, <1>5 DEF TypeOK
  <2>3. QED
    BY <1>1, <1>5, <2>1, <2>2 DEF TypeOK, Phases
<1>7. DatesInv'
  BY <1>1, <1>4, <1>5 DEF DatesInv
<1>8. QED
  BY <1>2, <1>3, <1>6, <1>7 DEF WInv

\* The rows of the windows stay what they are.
LEMMA SameRows ==
  ASSUME UNCHANGED <<span, data, windows, dataset>>
  PROVE  /\ \A w : TrainRows(w)' = TrainRows(w)
         /\ \A chosen, train : IsMaximal(chosen, train)' <=> IsMaximal(chosen, train)
         /\ \A train : Candidates(train)' = Candidates(train)
<1>1. \A t, f, d : Has(t, f, d)' <=> Has(t, f, d)
  BY DEF Has
<1>2. \A f, rows : Filled(f, rows)' = Filled(f, rows)
  BY <1>1 DEF Filled
<1>3. \A train : Candidates(train)' = Candidates(train)
  BY <1>2 DEF Candidates, Varies
<1>4. \A columns, train : Full(columns, train)' = Full(columns, train)
  BY <1>1 DEF Full
<1>5. \A w : TrainRows(w)' = TrainRows(w)
  BY DEF TrainRows
<1>6. QED
  BY <1>3, <1>4, <1>5 DEF IsMaximal

\* A model more, or a window without one.
LEMMA TrainWindowW ==
  ASSUME WalkForwardAssumption, WInv, TrainWindow
  PROVE  WInv'
<1>1. /\ TypeOK /\ WindowsInv /\ DatesInv /\ ModelsInv
      /\ phase = "train" /\ phase' \in {"train", "ready"}
      /\ UNCHANGED <<span, data, from, windows, todo, dataset, asked>>
  BY DEF WInv, TrainWindow
<1>2. WindowsInv'
  BY <1>1, SameWindows
<1>3. DatesInv'
  <2>1. RebalanceDates' = RebalanceDates
    BY <1>1 DEF RebalanceDates
  <2>2. QED
    BY <1>1, <2>1 DEF DatesInv
<1>4. /\ \A w : TrainRows(w)' = TrainRows(w)
      /\ \A chosen, train : IsMaximal(chosen, train)' <=> IsMaximal(chosen, train)
      /\ \A train : Candidates(train)' = Candidates(train)
  BY <1>1, SameRows
<1>5. /\ asked.model = 0 /\ asked' = asked /\ asked.asOf = 0 /\ asked.asOf <= span.end
      /\ asked.asOf < AfterWarmup /\ AfterWarmup' = AfterWarmup
      /\ models \in Seq(Model) /\ next \in Nat /\ Len(windows) \in Nat
      /\ next \in 1..(Len(windows) + 1)
      /\ \A i \in DOMAIN models : models[i].window \in 1..(next - 1) /\ models[i].rows \subseteq dataset
      /\ asked \in [asOf : Nat, model : 0..Len(models)]
  <2>1. windows \in Seq(Window) /\ next \in 1..(Len(windows) + 1)
    BY <1>1 DEF TypeOK
  <2>2. Len(windows) \in Nat /\ next \in Nat
    BY <2>1
  <2>3. AfterWarmup \in Nat /\ span.start < AfterWarmup /\ span.start \in Nat
    BY <1>1, AfterWarmupIs, SpanIs
  <2>4. AfterWarmup' = AfterWarmup
    BY <1>1 DEF AfterWarmup
  <2>5. asked.model = 0 /\ asked.asOf = 0 /\ asked.asOf <= span.end
    BY <1>1 DEF ModelsInv
  <2>6. asked.asOf < AfterWarmup
    BY <2>3, <2>5
  <2>7. QED
    BY <1>1, <2>1, <2>2, <2>4, <2>5, <2>6 DEF TypeOK
<1>6. CASE next > Len(windows)
  <2>1. UNCHANGED <<next, models>>
    BY <1>6 DEF TrainWindow
  <2>2. TypeOK'
    BY <1>1, <2>1 DEF TypeOK, Phases
  <2>3. next = Len(windows) + 1
    BY <1>5, <1>6
  <2>4. ModelsInv'
    BY <1>1, <1>4, <1>5, <2>1, <2>3 DEF ModelsInv
  <2>5. QED
    BY <1>2, <1>3, <2>2, <2>4 DEF WInv
<1>7. CASE ~(next > Len(windows))
  <2> DEFINE train == TrainRows(next)
             chosen == Eligible(train)
             model == [window |-> next, rows |-> chosen.rows, columns |-> chosen.columns]
  <2>1. IsFiniteSet(train) /\ train \subseteq dataset
    <3>1. train \subseteq dataset
      BY DEF TrainRows
    <3>2. IsFiniteSet(dataset)
      BY <1>1 DEF DatesInv
    <3> HIDE DEF train
    <3> QED BY <3>1, <3>2, FS_Subset
  <2>2. /\ chosen.columns \in SUBSET Features /\ chosen.rows \in SUBSET train
        /\ IsMaximal(chosen, train)
    <3> HIDE DEF train
    <3> QED BY <2>1, EligibleIsMaximal
  <2>3. /\ models' = IF chosen.columns = {} \/ Cardinality(chosen.rows) < MinTrainRows
                       THEN models ELSE Append(models, model)
        /\ next' = next + 1 /\ phase' = "train"
    BY <1>1, <1>7 DEF TrainWindow
  <2> HIDE DEF chosen
  <2>4. next + 1 \in 1..(Len(windows) + 1)
    BY <1>5, <1>7
  <2>5. \A w \in 1..(next' - 1) : w = next \/ w \in 1..(next - 1)
    BY <1>5, <2>3
  <2>6. CASE chosen.columns = {}
    <3>1. models' = models
      BY <2>3, <2>6
    <3>2. TypeOK'
      <4>1. \A i \in DOMAIN models : models[i].window \in 1..(next' - 1)
        BY <1>5, <2>3
      <4>2. QED
        BY <1>1, <2>3, <2>4, <3>1, <4>1 DEF TypeOK, Phases
    <3>3. Candidates(train) = {}
      BY <2>2, <2>6 DEF IsMaximal
    <3>4. ModelsInv'
      <4>1. \A w \in 1..(next' - 1) :
              (\A i \in DOMAIN models : models[i].window # w) => Candidates(TrainRows(w)) = {}
        BY <1>1, <2>5, <3>3 DEF ModelsInv
      <4>2. QED
        BY <1>1, <1>4, <1>5, <2>3, <3>1, <4>1 DEF ModelsInv
    <3>5. QED
      BY <1>2, <1>3, <3>2, <3>4 DEF WInv
  <2>7. CASE chosen.columns # {}
    <3>1. ~(Cardinality(chosen.rows) < MinTrainRows)
      <4>1. Cardinality(chosen.rows) >= MinTrainRows
        BY <2>2, <2>7 DEF IsMaximal
      <4>2. MinTrainRows \in Nat /\ Cardinality(chosen.rows) \in Nat
        <5>1. chosen.rows \in SUBSET train
          BY <2>2
        <5> HIDE DEF train
        <5>2. IsFiniteSet(chosen.rows)
          BY <2>1, <5>1, FS_Subset
        <5>3. QED
          BY <5>2, FS_CardinalityType DEF WalkForwardAssumption
      <4>3. QED
        BY <4>1, <4>2
    <3>2. models' = Append(models, model)
      BY <2>3, <2>7, <3>1
    <3>3. model \in Model
      <4>1. dataset \subseteq Sample
        BY <1>1 DEF TypeOK
      <4>2. chosen.rows \in SUBSET Sample
        BY <2>1, <2>2, <4>1
      <4> HIDE DEF train
      <4> QED BY <1>5, <2>2, <4>2 DEF Model
    <3> DEFINE n == Len(models)
    <3>4. model.window = next /\ model.rows = chosen.rows /\ model.columns = chosen.columns
      OBVIOUS
    <3> HIDE DEF model
    <3>5. /\ models' \in Seq(Model) /\ Len(models') = n + 1 /\ n \in Nat
          /\ DOMAIN models = 1..n /\ DOMAIN models' = 1..(n + 1)
          /\ models'[n + 1] = model /\ \A i \in 1..n : models'[i] = models[i]
      BY <1>5, <3>2, <3>3
    <3> HIDE DEF n
    <3>6. \A i \in 1..(n + 1) : i = n + 1 \/ i \in 1..n
      BY <3>5
    <3>7. TypeOK'
      <4>1. \A i \in 1..(n + 1) : models'[i].window \in 1..(next' - 1) /\ models'[i].rows \subseteq dataset
        <5>1. next \in 1..(next' - 1) /\ 1..(next - 1) \subseteq 1..(next' - 1)
          BY <1>5, <2>3
        <5>2. model.rows \subseteq dataset
          BY <2>1, <2>2, <3>4
        <5>3. QED
          BY <1>5, <3>4, <3>5, <3>6, <5>1, <5>2
      <4>2. asked \in [asOf : Nat, model : 0..(n + 1)]
        BY <1>5, <3>5 DEF n
      <4>3. QED
        BY <1>1, <2>3, <2>4, <3>5, <4>1, <4>2 DEF TypeOK, Phases
    <3>8. ModelsInv'
      <4>1. \A i \in 1..(n + 1) : /\ models'[i].columns # {}
                                  /\ IsMaximal(models'[i], TrainRows(models'[i].window))
        <5>1. IsMaximal(model, TrainRows(model.window))
          BY <2>2, <3>4 DEF IsMaximal
        <5>2. QED
          BY <1>1, <2>7, <3>4, <3>5, <3>6, <5>1 DEF ModelsInv
      <4>2. ASSUME NEW w \in 1..(next' - 1), \A i \in 1..(n + 1) : models'[i].window # w
            PROVE  Candidates(TrainRows(w)) = {}
        <5>1. w # next
          BY <3>4, <3>5, <4>2
        <5>2. \A i \in 1..n : models[i].window # w
          BY <3>5, <4>2
        <5>3. QED
          BY <1>1, <2>5, <3>5, <5>1, <5>2 DEF ModelsInv
      <4>3. QED
        BY <1>1, <1>4, <1>5, <2>3, <3>5, <4>1, <4>2 DEF ModelsInv
    <3>9. QED
      BY <1>2, <1>3, <3>7, <3>8 DEF WInv
  <2>8. QED
    BY <2>6, <2>7
<1>8. QED
  BY <1>6, <1>7

\* The model that is asked has the date in its window.
LEMMA ModelForIs ==
  ASSUME models \in Seq(Model), NEW d
  PROVE  /\ ModelFor(d) \in 0..Len(models)
         /\ ModelFor(d) # 0 => d \in Oos(ModelFor(d))
         /\ ModelFor(d) = 0 => NobodyHas(d)
<1> DEFINE found == {i \in DOMAIN models : d \in Oos(i)}
           n == Len(models)
<1>1. n \in Nat /\ DOMAIN models = 1..n
  OBVIOUS
<1>2. ModelFor(d) = IF found = {} THEN 0 ELSE Min(found)
  BY Zenon DEF ModelFor
<1>3. CASE found = {}
  BY <1>1, <1>2, <1>3 DEF NobodyHas
<1>4. CASE found # {}
  <2>1. \A i \in found : i \in Int /\ 1 <= i /\ i <= n /\ d \in Oos(i)
    BY <1>1
  <2> HIDE DEF found, n
  <2>2. found \subseteq Int /\ IsFiniteSet(found)
    <3>1. found \subseteq Int
      BY <2>1
    <3>2. 1 \in Int /\ n \in Int
      BY <1>1
    <3>3. QED
      BY <2>1, <3>1, <3>2, BoundedIsFinite
  <2>3. Min(found) \in found
    BY <1>4, <2>2, MinIn
  <2>4. Min(found) \in 0..n /\ Min(found) # 0 /\ d \in Oos(Min(found))
    BY <1>1, <2>1, <2>3
  <2>5. QED
    BY <1>2, <1>4, <2>4 DEF n
<1>5. QED
  BY <1>3, <1>4

\* A question is of a session before a rebalance date, and is answered by a model whose
\* window has it.
LEMMA AskW ==
  ASSUME CalendarAssumption, WalkForwardAssumption, WInv, Ask
  PROVE  WInv'
<1>1. /\ TypeOK /\ WindowsInv /\ DatesInv /\ ModelsInv /\ phase = "ready"
      /\ UNCHANGED <<phase, span, data, from, windows, todo, dataset, next, models>>
  BY DEF WInv, Ask
<1>2. PICK d \in RebalanceDates : asked' = [asOf  |-> PreviousTradingDay(d),
                                            model |-> ModelFor(PreviousTradingDay(d))]
  BY DEF Ask
<1> DEFINE asOf == PreviousTradingDay(d)
<1>3. asOf \in Nat /\ asOf <= span.end
  <2>1. asOf # NoDate
    BY <1>1 DEF DatesInv
  <2>2. d \in Nat /\ d <= span.end /\ span.end \in Nat
    BY <1>1, RebalanceIs, SpanIs
  <2>3. asOf \in Nat /\ asOf < d
    BY <2>1, <2>2, PreviousIs, OpenDaysAre
  <2> HIDE DEF asOf
  <2>4. QED
    BY <2>2, <2>3
<1> HIDE DEF asOf
<1>4. /\ ModelFor(asOf) \in 0..Len(models) /\ (ModelFor(asOf) # 0 => asOf \in Oos(ModelFor(asOf)))
      /\ ModelFor(asOf) = 0 => NobodyHas(asOf)
  BY <1>1, ModelForIs DEF TypeOK
<1>5. asked' = [asOf |-> asOf, model |-> ModelFor(asOf)]
  BY <1>2 DEF asOf
<1>6. asked'.asOf = asOf /\ asked'.model = ModelFor(asOf)
  BY <1>5
<1>7. TypeOK'
  BY <1>1, <1>3, <1>4, <1>5 DEF TypeOK
<1>8. WindowsInv'
  BY <1>1, SameWindows
<1>9. DatesInv'
  <2>1. RebalanceDates' = RebalanceDates
    BY <1>1 DEF RebalanceDates
  <2>2. QED
    BY <1>1, <2>1 DEF DatesInv
<1>10. ModelsInv'
  <2>1. PICK m : m = ModelFor(asOf)
    OBVIOUS
  <2>2. (asked.model # 0 => asked.asOf \in Oos(asked.model))'
    <3>1. m # 0 => asOf \in Oos(m)
      BY <1>4, <2>1
    <3>2. asked'.model = m /\ asked'.asOf = asOf
      BY <1>6, <2>1
    <3>3. QED
      BY <1>1, <3>1, <3>2 DEF Oos
  <2>3. /\ \A w : TrainRows(w)' = TrainRows(w)
        /\ \A chosen, train : IsMaximal(chosen, train)' <=> IsMaximal(chosen, train)
        /\ \A train : Candidates(train)' = Candidates(train)
    BY <1>1, SameRows
  <2>4. (asked.model = 0 => asked.asOf < AfterWarmup \/ NobodyHas(asked.asOf))'
    <3>1. m = 0 => NobodyHas(asOf)
      BY <1>4, <2>1
    <3>2. asked'.model = m /\ asked'.asOf = asOf
      BY <1>6, <2>1
    <3>3. QED
      BY <1>1, <3>1, <3>2 DEF NobodyHas, Oos
  <2>5. (asked.asOf <= span.end)'
    BY <1>1, <1>3, <1>6
  <2>6. QED
    BY <1>1, <2>2, <2>3, <2>4, <2>5 DEF ModelsInv
<1>11. QED
  BY <1>7, <1>8, <1>9, <1>10 DEF WInv

\* When fit() has raised or the backtest is over nothing changes.
LEMMA OverW == ASSUME WInv, UNCHANGED vars PROVE WInv'
<1>1. /\ TypeOK /\ WindowsInv /\ DatesInv /\ ModelsInv
      /\ UNCHANGED <<phase, span, data, from, windows, todo, dataset, next, models, asked>>
  BY DEF WInv, vars
<1>2. TypeOK'
  BY <1>1 DEF TypeOK
<1>3. WindowsInv'
  <2>1. AfterWarmup' = AfterWarmup
    BY <1>1 DEF AfterWarmup
  <2>2. \A w : WindowIs(w)' <=> WindowIs(w)
    BY <1>1, <2>1 DEF WindowIs
  <2>3. QED
    BY <1>1, <2>1, <2>2 DEF WindowsInv
<1>4. DatesInv'
  <2>1. RebalanceDates' = RebalanceDates
    BY <1>1 DEF RebalanceDates
  <2>2. QED
    BY <1>1, <2>1 DEF DatesInv
<1>5. ModelsInv'
  <2>1. /\ \A i : Oos(i)' = Oos(i)
        /\ AfterWarmup' = AfterWarmup
        /\ \A d : NobodyHas(d)' <=> NobodyHas(d)
    BY <1>1 DEF Oos, AfterWarmup, NobodyHas
  <2>2. /\ \A w : TrainRows(w)' = TrainRows(w)
        /\ \A chosen, train : IsMaximal(chosen, train)' <=> IsMaximal(chosen, train)
        /\ \A train : Candidates(train)' = Candidates(train)
    BY <1>1, SameRows
  <2>3. QED
    BY <1>1, <2>1, <2>2 DEF ModelsInv
<1>6. QED
  BY <1>2, <1>3, <1>4, <1>5 DEF WInv

\* The invariant holds, of every calendar and parameters that fit() may be given.
THEOREM WInvHolds == Spec => []WInv
<1>1. Init => WInv
  BY InitW, WalkForwardAssumption
<1>2. WInv /\ [Next]_vars => WInv'
  <2>1. SUFFICES ASSUME WInv, [Next]_vars PROVE WInv'
    OBVIOUS
  <2>2. CASE Begin
    BY <2>1, <2>2, BeginW, WalkForwardAssumption
  <2>3. CASE AddWindow
    BY <2>1, <2>3, AddWindowW, WalkForwardAssumption
  <2>4. CASE SampleDates
    BY <2>1, <2>4, SampleDatesW, CalendarAssumption, WalkForwardAssumption
  <2>5. CASE LabelSamples
    BY <2>1, <2>5, LabelSamplesW, CalendarAssumption, WalkForwardAssumption
  <2>6. CASE TrainWindow
    BY <2>1, <2>6, TrainWindowW, WalkForwardAssumption
  <2>7. CASE Ask
    BY <2>1, <2>7, AskW, CalendarAssumption, WalkForwardAssumption
  <2>8. CASE Over \/ UNCHANGED vars
    BY <2>1, <2>8, OverW DEF Over
  <2>9. QED
    BY <2>1, <2>2, <2>3, <2>4, <2>5, <2>6, <2>7, <2>8 DEF Next
<1>3. QED
  BY <1>1, <1>2, PTL DEF Spec

---------------------------------------------------------------------------
(* The theorems.                                                           *)

\* Every variable has its type, and a ticker has one sample of a date.
THEOREM WalkForwardTypes == Spec => []TypeOK
<1>1. WInv => TypeOK
  BY DEF WInv
<1>2. QED
  BY <1>1, WInvHolds, PTL

\* expanding_windows: the windows are apart and leave out no day after the warm-up.
THEOREM WindowsDoTile == Spec => []WindowsTile
<1>1. WInv => WindowsTile
  <2>1. SUFFICES ASSUME WInv, phase \notin {"new", "windows"}, NEW d \in 0..(span.end + 1)
                 PROVE  Cardinality({i \in DOMAIN windows : IsIn(d, windows[i])})
                          = IF AfterWarmup <= d /\ d <= span.end THEN 1 ELSE 0
    BY DEF WindowsTile, IsIn, AfterWarmup
  <2> DEFINE W == {i \in DOMAIN windows : IsIn(d, windows[i])}
             n == Len(windows)
  <2>2. /\ AfterWarmup \in Nat /\ span.end \in Nat /\ from \in Nat /\ d \in Int
        /\ n \in Nat /\ DOMAIN windows = 1..n
        /\ \A i \in 1..n : windows[i].oosStart \in Nat /\ windows[i].oosEnd \in Nat
    <3>1. TypeOK
      BY <2>1 DEF WInv
    <3>2. windows \in Seq(Window) /\ from \in Nat
      BY <3>1 DEF TypeOK
    <3>3. \A i \in DOMAIN windows : windows[i] \in Window
      BY <3>2
    <3>4. AfterWarmup \in Nat /\ span.end \in Nat /\ d \in Int
      BY <3>1, AfterWarmupIs, SpanIs, WalkForwardAssumption
    <3>5. QED
      BY <3>2, <3>3, <3>4 DEF Window
  <2> HIDE DEF n
  <2>3. /\ \A i \in 1..n : AfterWarmup <= windows[i].oosStart /\ windows[i].oosEnd <= span.end
        /\ \A i, j \in 1..n : i < j => windows[i].oosEnd < windows[j].oosStart
        /\ span.end < from
        /\ \A e \in AfterWarmup..(from - 1) : \E i \in 1..n : IsIn(e, windows[i])
    BY <2>1, <2>2 DEF WInv, WindowsInv, WindowIs
  <2>4. CASE AfterWarmup <= d /\ d <= span.end
    <3>1. d \in AfterWarmup..(from - 1)
      BY <2>2, <2>3, <2>4
    <3>2. PICK i \in 1..n : IsIn(d, windows[i])
      BY <2>3, <3>1
    <3>3. ASSUME NEW j \in 1..n, IsIn(d, windows[j])
          PROVE  j = i
      <4>1. ~(i < j) /\ ~(j < i)
        BY <2>2, <2>3, <3>2, <3>3 DEF IsIn
      <4>2. QED
        BY <2>2, <4>1
    <3>4. W = {i}
      BY <2>2, <3>2, <3>3
    <3>5. Cardinality(W) = 1
      BY <3>4, FS_Singleton
    <3>6. QED
      BY <2>4, <3>5
  <2>5. CASE ~(AfterWarmup <= d /\ d <= span.end)
    <3>1. W = {}
      <4>1. ASSUME NEW i \in 1..n, IsIn(d, windows[i]) PROVE FALSE
        BY <2>2, <2>3, <2>5, <4>1 DEF IsIn
      <4>2. QED
        BY <2>2, <4>1
    <3>2. Cardinality(W) = 0
      BY <3>1, FS_EmptySet
    <3>3. QED
      BY <2>5, <3>2
  <2>6. QED
    BY <2>4, <2>5
<1>2. QED
  BY <1>1, WInvHolds, PTL

\* _model_for: whichever window answers, its model has seen samples of earlier dates only.
THEOREM ModelsAreOutOfSample == Spec => []OutOfSample
<1>1. WInv => OutOfSample
  <2>1. SUFFICES ASSUME WInv, asked.model # 0, NEW r \in models[asked.model].rows
                 PROVE  r.date < asked.asOf
    BY DEF OutOfSample
  <2> DEFINE m == models[asked.model]
             w == windows[m.window]
  <2>2. TypeOK /\ WindowsInv /\ ModelsInv
    BY <2>1 DEF WInv
  <2>3. /\ asked.asOf \in Nat /\ asked.model \in DOMAIN models
        /\ models \in Seq(Model) /\ m.window \in 1..(next - 1) /\ next \in 1..(Len(windows) + 1)
        /\ windows \in Seq(Window) /\ m.rows \subseteq dataset /\ dataset \subseteq Sample
    <3>1. /\ models \in Seq(Model) /\ asked \in [asOf : Nat, model : 0..Len(models)]
          /\ next \in 1..(Len(windows) + 1) /\ windows \in Seq(Window) /\ dataset \subseteq Sample
          /\ \A i \in DOMAIN models : models[i].window \in 1..(next - 1) /\ models[i].rows \subseteq dataset
      BY <2>2 DEF TypeOK
    <3>2. asked.asOf \in Nat /\ asked.model \in DOMAIN models
      BY <2>1, <3>1
    <3>3. QED
      BY <3>1, <3>2
  <2>4. m.window \in DOMAIN windows
    BY <2>3
  <2>5. w \in Window /\ w.trainEnd = w.oosStart - 1
    BY <2>2, <2>3, <2>4 DEF WindowsInv, WindowIs
  <2>6. asked.asOf \in w.oosStart..w.oosEnd
    BY <2>1, <2>2 DEF ModelsInv, Oos
  <2>7. m.rows \subseteq TrainRows(m.window)
    BY <2>2, <2>3 DEF ModelsInv, IsMaximal, Full
  <2>8. r \in Sample /\ r.date <= w.trainEnd
    BY <2>1, <2>3, <2>7 DEF TrainRows
  <2>9. r.date \in Nat
    BY <2>8, OpenDaysAre, CalendarAssumption DEF Sample
  <2>10. w.oosStart \in Nat
    BY <2>5 DEF Window
  <2> HIDE DEF w
  <2>11. QED
    BY <2>3, <2>5, <2>6, <2>8, <2>9, <2>10
<1>2. QED
  BY <1>1, WInvHolds, PTL

\* _eligible_training_features: no column is left out that enough rows would allow.
THEOREM ColumnsAreChosen == Spec => []ColumnsAreMaximal
<1>1. WInv => ColumnsAreMaximal
  <2>1. SUFFICES ASSUME WInv PROVE ColumnsAreMaximal
    OBVIOUS
  <2>2. /\ \A i \in DOMAIN models : /\ models[i].columns # {}
                                    /\ IsMaximal(models[i], TrainRows(models[i].window))
        /\ \A w \in 1..(next - 1) :
             (\A i \in DOMAIN models : models[i].window # w) => Candidates(TrainRows(w)) = {}
    BY <2>1 DEF WInv, ModelsInv
  <2>3. QED
    BY <2>2 DEF ColumnsAreMaximal, IsMaximal, Full
<1>2. QED
  BY <1>1, WInvHolds, PTL

\* _model_for: a date is answered by the model of its window, or by none during the warm-up and
\* in a window without a usable column.
THEOREM AnswersAreOfTheirWindow == Spec => []AnswerIsOfItsWindow
<1>1. WInv => AnswerIsOfItsWindow
  <2> DEFINE has(w) == windows[w].oosStart <= asked.asOf /\ asked.asOf <= windows[w].oosEnd
  <2>1. SUFFICES ASSUME WInv, phase = "ready"
                 PROVE  IF asked.model # 0 THEN has(models[asked.model].window)
                        ELSE \/ asked.asOf < AfterWarmup
                             \/ \E w \in DOMAIN windows : has(w) /\ Candidates(TrainRows(w)) = {}
    BY Zenon DEF AnswerIsOfItsWindow, AfterWarmup
  <2>2. TypeOK /\ WindowsInv /\ DatesInv /\ ModelsInv
    BY <2>1 DEF WInv
  <2>3. /\ asked.asOf \in Nat /\ span.end \in Nat /\ from \in Nat /\ AfterWarmup \in Nat
        /\ windows \in Seq(Window) /\ Len(windows) \in Nat /\ DOMAIN windows = 1..Len(windows)
    BY <2>2, SpanIs, AfterWarmupIs, WalkForwardAssumption DEF TypeOK
  <2>4. ASSUME asked.model # 0 PROVE has(models[asked.model].window)
    BY <2>2, <2>3, <2>4 DEF ModelsInv, Oos
  <2>5. ASSUME asked.model = 0, ~(asked.asOf < AfterWarmup)
        PROVE  \E w \in DOMAIN windows : has(w) /\ Candidates(TrainRows(w)) = {}
    <3>1. NobodyHas(asked.asOf) /\ asked.asOf <= span.end /\ span.end < from
      BY <2>1, <2>2, <2>5 DEF ModelsInv, WindowsInv
    <3>2. asked.asOf \in AfterWarmup..(from - 1)
      BY <2>3, <2>5, <3>1
    <3>3. PICK w \in DOMAIN windows : has(w)
      BY <2>1, <2>2, <3>2 DEF WindowsInv, IsIn
    <3>4. ASSUME NEW i \in DOMAIN models PROVE models[i].window # w
      <4>1. asked.asOf \notin Oos(i)
        BY <3>1 DEF NobodyHas
      <4>2. windows[w] \in Window
        BY <2>3
      <4>3. windows[w].oosStart \in Int /\ windows[w].oosEnd \in Int
        BY <4>2 DEF Window
      <4>4. asked.asOf \in windows[w].oosStart..windows[w].oosEnd
        BY <2>3, <3>3, <4>3
      <4>5. QED
        BY <4>1, <4>4 DEF Oos
    <3>5. CASE next = Len(windows) + 1
      <4>1. w \in 1..(next - 1)
        BY <2>3, <3>5
      <4>2. Candidates(TrainRows(w)) = {}
        BY <2>2, <3>4, <4>1 DEF ModelsInv
      <4>3. QED
        BY <3>3, <4>2
    <3>6. CASE dataset = {}
      <4>1. TrainRows(w) = {}
        BY <3>6 DEF TrainRows
      <4>2. \A f : Filled(f, {}) = {}
        BY DEF Filled
      <4>3. Cardinality({}) = 0 /\ MinTrainRows \in Nat \ {0}
        BY FS_EmptySet, WalkForwardAssumption DEF WalkForwardAssumption
      <4>4. \A f : ~(Cardinality(Filled(f, {})) >= MinTrainRows)
        BY <4>2, <4>3
      <4>5. Candidates({}) = {}
        BY <4>4 DEF Candidates
      <4>6. QED
        BY <3>3, <4>1, <4>5
    <3>7. QED
      BY <2>1, <2>2, <3>5, <3>6 DEF ModelsInv
  <2> HIDE DEF has
  <2>6. QED
    BY <2>4, <2>5
<1>2. QED
  BY <1>1, WInvHolds, PTL

---------------------------------------------------------------------------
(* The splits.                                                             *)

\* The rows of a model are finitely many samples.
LEMMA RowsAre ==
  ASSUME CalendarAssumption, WInv, NEW i \in DOMAIN models
  PROVE  /\ IsFiniteSet(models[i].rows) /\ models[i].rows \subseteq Sample
         /\ \A r \in models[i].rows : r.date \in Nat /\ r.labelEnd \in Nat
<1>1. models[i].rows \subseteq dataset /\ dataset \subseteq Sample /\ IsFiniteSet(dataset)
  BY DEF WInv, TypeOK, DatesInv
<1>2. IsFiniteSet(models[i].rows)
  BY <1>1, FS_Subset
<1>3. \A r \in Sample : r.date \in Nat /\ r.labelEnd \in Nat
  BY OpenDaysAre DEF Sample
<1>4. QED
  BY <1>1, <1>2, <1>3

\* The folds follow one another from the first row to the last, also when the rows do not
\* divide evenly.
LEMMA FoldStartIs ==
  ASSUME WalkForwardAssumption, NEW n \in Nat
  PROVE  /\ \A k \in 1..(Folds + 1) : FoldStart(k, n) \in Int
         /\ FoldStart(1, n) = 0 /\ FoldStart(Folds + 1, n) = n
         /\ \A j, k \in 1..(Folds + 1) : j <= k => FoldStart(j, n) <= FoldStart(k, n)
<1> DEFINE q == n \div Folds
           e == n % Folds
<1>1. Folds \in Nat /\ Folds > 0
  BY DEF WalkForwardAssumption
<1>2. q \in Nat /\ e \in Nat /\ e < Folds /\ n = Folds * q + e
  <2>1. q \in Nat /\ e \in Nat /\ e < Folds
    BY <1>1
  <2>2. n = (n \div Folds) * Folds + (n % Folds)
    BY <1>1
  <2>3. n = q * Folds + e
    BY <2>2
  <2> HIDE DEF q, e
  <2>4. QED
    BY <1>1, <2>1, <2>3
<1>3. \A k : FoldStart(k, n) = (k - 1) * q + (IF k - 1 < e THEN k - 1 ELSE e)
  BY DEF FoldStart
<1> HIDE DEF q, e
<1>4. ASSUME NEW k \in 1..(Folds + 1)
      PROVE  FoldStart(k, n) \in Int
  <2>1. k - 1 \in Nat
    BY <1>1
  <2>2. \A a, b \in Nat : a * b \in Nat
    OBVIOUS
  <2>3. (k - 1) * q \in Nat
    BY <1>2, <2>1, <2>2
  <2>4. QED
    BY <1>2, <1>3, <2>1, <2>3
<1>5. FoldStart(1, n) = 0
  <2>1. 1 - 1 = 0 /\ 0 * q = 0
    BY <1>2
  <2>2. QED
    BY <1>2, <1>3, <2>1
<1>6. FoldStart(Folds + 1, n) = n
  <2>1. (Folds + 1) - 1 = Folds /\ ~(Folds < e)
    BY <1>1, <1>2
  <2>2. FoldStart(Folds + 1, n) = Folds * q + e
    BY <1>3, <2>1
  <2>3. QED
    BY <1>2, <2>2
<1>7. ASSUME NEW j \in 1..(Folds + 1), NEW k \in 1..(Folds + 1), j <= k
      PROVE  FoldStart(j, n) <= FoldStart(k, n)
  <2>1. j - 1 \in Nat /\ k - 1 \in Nat /\ j - 1 <= k - 1
    BY <1>1, <1>7
  <2>2. \A a, b, c \in Nat : a <= b => a * c \in Nat /\ b * c \in Nat /\ a * c <= b * c
    <3>1. ASSUME NEW a \in Nat, NEW b \in Nat, NEW c \in Nat, a <= b
          PROVE  a * c \in Nat /\ b * c \in Nat /\ a * c <= b * c
      <4>1. PICK d \in Nat : b = a + d
        <5>1. b - a \in Nat /\ b = a + (b - a)
          BY <3>1
        <5>2. QED
          BY <5>1
      <4>2. b * c = a * c + d * c /\ a * c \in Nat /\ d * c \in Nat
        BY <4>1
      <4>3. QED
        BY <4>2
    <3>2. QED
      BY <3>1
  <2> DEFINE a == j - 1
             b == k - 1
  <2>3. a * q \in Nat /\ b * q \in Nat /\ a * q <= b * q
    BY <1>2, <2>1, <2>2
  <2>4. FoldStart(j, n) = a * q + (IF a < e THEN a ELSE e) /\ FoldStart(k, n) = b * q + (IF b < e THEN b ELSE e)
    BY <1>3
  <2>5. a \in Nat /\ b \in Nat /\ a <= b
    BY <2>1
  <2> DEFINE aq == a * q
             bq == b * q
  <2> HIDE DEF a, b
  <2>6. aq \in Nat /\ bq \in Nat /\ aq <= bq
    BY <2>3
  <2>7. FoldStart(j, n) = aq + (IF a < e THEN a ELSE e) /\ FoldStart(k, n) = bq + (IF b < e THEN b ELSE e)
    BY <2>4
  <2> HIDE DEF aq, bq
  <2>8. QED
    BY <1>2, <2>5, <2>6, <2>7
<1>8. QED
  BY <1>4, <1>5, <1>6, <1>7

\* The rows before a row are fewer than the rows.
LEMMA RankIs ==
  ASSUME NEW rows, IsFiniteSet(rows), NEW r \in rows, r.date \in Nat, r.ticker \in Nat
  PROVE  Cardinality(rows) \in Nat /\ Rank(r, rows) \in 0..(Cardinality(rows) - 1)
<1> DEFINE before == {s \in rows : s.date < r.date \/ (s.date = r.date /\ s.ticker < r.ticker)}
<1>1. before \subseteq rows \ {r}
  OBVIOUS
<1>2. /\ IsFiniteSet(rows \ {r}) /\ Cardinality(rows \ {r}) = Cardinality(rows) - 1
      /\ Cardinality(rows) \in Nat
  BY FS_RemoveElement, FS_CardinalityType
<1>3. Rank(r, rows) = Cardinality(before)
  BY DEF Rank
<1> HIDE DEF before
<1>4. Cardinality(before) \in Nat /\ Cardinality(before) <= Cardinality(rows) - 1
  BY <1>1, <1>2, FS_Subset, FS_CardinalityType
<1>5. QED
  BY <1>2, <1>3, <1>4

\* A place among the rows is in one fold.
LEMMA OneFold ==
  ASSUME WalkForwardAssumption, NEW n \in Nat, NEW p \in 0..(n - 1)
  PROVE  \E k \in 1..Folds : \A j \in 1..Folds :
           (FoldStart(j, n) <= p /\ p < FoldStart(j + 1, n)) <=> j = k
<1> DEFINE T == {j \in 1..Folds : FoldStart(j, n) <= p}
<1>1. Folds \in Nat /\ Folds > 1
  BY DEF WalkForwardAssumption
<1>2. /\ \A k \in 1..(Folds + 1) : FoldStart(k, n) \in Int
      /\ FoldStart(1, n) = 0 /\ FoldStart(Folds + 1, n) = n
      /\ \A j, k \in 1..(Folds + 1) : j <= k => FoldStart(j, n) <= FoldStart(k, n)
  BY FoldStartIs
<1>3. \A j \in 1..Folds : j \in 1..(Folds + 1) /\ j + 1 \in 1..(Folds + 1)
  BY <1>1
<1>4. 1 \in T
  BY <1>1, <1>2
<1>5. PICK k \in T : \A j \in T : k >= j
  <2>1. \A j \in T : j \in Int /\ 1 <= j /\ j <= Folds
    BY <1>1
  <2> HIDE DEF T
  <2>2. T \subseteq Int /\ IsFiniteSet(T)
    BY <1>1, <2>1, BoundedIsFinite, 1 \in Int, Folds \in Int
  <2>3. QED
    BY <1>4, <2>2, MaxIn
<1>6. k \in 1..Folds /\ FoldStart(k, n) <= p
  OBVIOUS
<1>7. p < FoldStart(k + 1, n)
  <2>1. CASE k = Folds
    BY <1>2, <2>1
  <2>2. CASE k # Folds
    <3>1. k + 1 \in 1..Folds /\ k + 1 \notin T
      <4>1. k + 1 \in 1..Folds /\ ~(k >= k + 1)
        BY <1>1, <1>6, <2>2
      <4>2. QED
        BY <1>5, <4>1
    <3>2. FoldStart(k + 1, n) \in Int /\ ~(FoldStart(k + 1, n) <= p)
      BY <1>2, <1>3, <3>1
    <3>3. QED
      BY <3>2
  <2>3. QED
    BY <2>1, <2>2
<1> HIDE DEF T
<1>8. ASSUME NEW j \in 1..Folds, FoldStart(j, n) <= p, p < FoldStart(j + 1, n)
      PROVE  j = k
  <2>1. ~(j < k)
    <3>1. SUFFICES ASSUME j < k PROVE FALSE
      OBVIOUS
    <3>2. FoldStart(j + 1, n) <= FoldStart(k, n)
      <4>1. j + 1 <= k
        BY <1>6, <3>1
      <4>2. QED
        BY <1>2, <1>3, <1>6, <4>1
    <3>3. FoldStart(j + 1, n) \in Int /\ FoldStart(k, n) \in Int
      BY <1>2, <1>3, <1>6
    <3>4. QED
      BY <1>6, <1>8, <3>2, <3>3
  <2>2. ~(k < j)
    <3>1. SUFFICES ASSUME k < j PROVE FALSE
      OBVIOUS
    <3>2. FoldStart(k + 1, n) <= FoldStart(j, n)
      <4>1. k + 1 <= j
        BY <1>6, <3>1
      <4>2. QED
        BY <1>2, <1>3, <1>6, <4>1
    <3>3. FoldStart(k + 1, n) \in Int /\ FoldStart(j, n) \in Int
      BY <1>2, <1>3, <1>6
    <3>4. QED
      BY <1>7, <1>8, <3>2, <3>3
  <2>3. QED
    BY <1>6, <2>1, <2>2
<1>9. QED
  BY <1>6, <1>7, <1>8

\* PurgedKFold: every row is in one test fold.
THEOREM RowsAreTestedOnce == Spec => []EachRowTestedOnce
<1>1. WInv => EachRowTestedOnce
  <2>1. SUFFICES ASSUME WInv, NEW i \in DOMAIN models, NEW r \in models[i].rows
                 PROVE  Cardinality({k \in 1..Folds : r \in TestFold(k, models[i].rows)}) = 1
    BY DEF EachRowTestedOnce
  <2> DEFINE rows == models[i].rows
             n == Cardinality(rows)
  <2>2. IsFiniteSet(rows) /\ r \in rows /\ r.date \in Nat /\ r.ticker \in Nat
    <3>1. IsFiniteSet(rows) /\ rows \subseteq Sample /\ r.date \in Nat
      BY <2>1, RowsAre, CalendarAssumption
    <3>2. r.ticker \in Tickers /\ Tickers \subseteq Nat
      BY <3>1, WalkForwardAssumption DEF Sample, WalkForwardAssumption
    <3>3. QED
      BY <3>1, <3>2
  <2> HIDE DEF rows
  <2>3. n \in Nat /\ Rank(r, rows) \in 0..(n - 1)
    BY <2>2, RankIs
  <2>4. \A k : r \in TestFold(k, rows) <=> FoldStart(k, n) <= Rank(r, rows) /\ Rank(r, rows) < FoldStart(k + 1, n)
    BY <2>2 DEF TestFold
  <2> HIDE DEF n
  <2>5. PICK k \in 1..Folds : \A j \in 1..Folds :
          (FoldStart(j, n) <= Rank(r, rows) /\ Rank(r, rows) < FoldStart(j + 1, n)) <=> j = k
    BY <2>3, OneFold, WalkForwardAssumption
  <2>6. {j \in 1..Folds : r \in TestFold(j, rows)} = {k}
    BY <2>4, <2>5
  <2>7. QED
    BY <2>6, FS_Singleton DEF rows
<1>2. QED
  BY <1>1, WInvHolds, PTL
=============================================================================
