------------------------------ MODULE PitStore ------------------------------
(***************************************************************************)
(* The point-in-time table fundamentals_pit, for one ticker and one metric: *)
(* what yfinance shows on a day (data/sources/yfinance_source.py), the     *)
(* ingestion runs that store it (pipelines/ingest_fundamentals_free.py)    *)
(* and the two as-of queries that strategies read it by.                   *)
(*                                                                         *)
(* yfinance gives no announcement dates, so a row's reported_date is its   *)
(* period end and a fixed lag.  A figure is not a number here but where it *)
(* came from: which edition of which report, and how many quarters it sums. *)
(***************************************************************************)
EXTENDS Integers, Sequences, FiniteSetsExt

CONSTANTS Periods,          \* quarter ends (dates), in which companies report
          YearEnds,         \* those that end a financial year: annual statements
          QuarterlyColumns, \* how many quarters the quarterly statement shows
          Delay,            \* a report comes out this many days after its period at most
          Lag,              \* _FUNDAMENTAL_REPORTED_LAG_DAYS: 90
          LookbackDays,     \* _FUNDAMENTAL_LOOKBACK_DAYS: 550
          TtmPeriods,       \* _TTM_PERIODS: 4
          Flows,            \* ingestion runs that may overlap (schedule, command line)
          LastDay,          \* bound: the days that are looked at
          MaxEditions,      \* bound: editions of one report (1: never restated)
          MaxRuns           \* bound: ingestion runs

ASSUME PitAssumption == /\ Periods \subseteq Nat /\ YearEnds \subseteq Periods
                        /\ QuarterlyColumns \in Nat /\ Delay \in Nat /\ Lag \in Nat
                        /\ LookbackDays \in Nat /\ TtmPeriods \in Nat \ {0}
                        /\ LastDay \in Nat /\ MaxEditions \in Nat \ {0} /\ MaxRuns \in Nat

VARIABLES today,
          gaps,             \* quarters whose quarterly statement lacks the metric
          editions,         \* [Periods -> Seq(day)]: when each edition came out
          table,            \* committed rows of fundamentals_pit
          flow,             \* [Flows -> run]: what each ingestion run is doing
          lineage,          \* committed rows of ingestion_runs of these runs
          unrecorded,       \* history: rows whose commit no lineage row tells of, see LineageExplains
          overtaken,        \* history: runs that fetched before a commit of another run
          runs              \* history: ingestion runs started

vars == <<today, gaps, editions, table, flow, lineage, unrecorded, overtaken, runs>>

Figure  == [edition : 1..MaxEditions, quarters : {1, TtmPeriods}]
Row     == [period : Periods, reported : Nat, figure : Figure]
FlowPc  == {"idle", "upsert", "record_success", "record_failed"}
Run     == [pc : FlowPc, rows : SUBSET Row]
Lineage == [status : {"success", "failed"}, rows : SUBSET Row]
Idle    == [pc |-> "idle", rows |-> {}]

Key(row) == <<row.period, row.reported>>

\* The primary key of the table, in a set of rows.
KeysDiffer(rows) == \A r, s \in rows : Key(r) = Key(s) => r = s

TypeOK == /\ today \in 0..LastDay
          /\ gaps \subseteq Periods
          /\ editions \in [Periods -> Seq(0..LastDay)]
          /\ \A p \in Periods : Len(editions[p]) <= MaxEditions
          /\ table \subseteq Row
          /\ KeysDiffer(table)
          /\ flow \in [Flows -> Run]
          /\ \A f \in Flows : flow[f].pc = "idle" => flow[f] = Idle
          /\ lineage \subseteq Lineage
          /\ unrecorded \subseteq Row
          /\ overtaken \subseteq {f \in Flows : flow[f].pc = "upsert"}
          /\ runs \in 0..MaxRuns

Init == /\ today = 0
        /\ gaps \in SUBSET Periods
        /\ editions = [p \in Periods |-> <<>>]
        /\ table = {}
        /\ flow = [f \in Flows |-> Idle]
        /\ lineage = {}
        /\ unrecorded = {}
        /\ overtaken = {}
        /\ runs = 0

---------------------------------------------------------------------------
(* The companies and yfinance.                                             *)

NextDay == /\ today < LastDay
           /\ today' = today + 1
           /\ UNCHANGED <<gaps, editions, table, flow, lineage, unrecorded, overtaken, runs>>

\* A report comes out, in time.
Publish(p) == /\ editions[p] = <<>>
              /\ p <= today /\ today <= p + Delay
              /\ editions' = [editions EXCEPT ![p] = <<today>>]
              /\ UNCHANGED <<today, gaps, table, flow, lineage, unrecorded, overtaken, runs>>

\* Its figure is restated, any day after.
Restate(p) == /\ Len(editions[p]) \in 1..(MaxEditions - 1)
              /\ editions[p][Len(editions[p])] < today
              /\ editions' = [editions EXCEPT ![p] = Append(@, today)]
              /\ UNCHANGED <<today, gaps, table, flow, lineage, unrecorded, overtaken, runs>>

Published == {p \in Periods : editions[p] # <<>>}

\* The quarterly statement shows the latest quarters only, the annual one every year.
Quarterly == {p \in Published : Cardinality({q \in Published : q > p}) < QuarterlyColumns}
Annual    == Published \intersect YearEnds

\* _merge_statement_frames: of two columns of one date the quarterly is kept, even if
\* the metric is null in it.
Shown == (Quarterly \ gaps) \union (Annual \ Quarterly)
Quarters(p) == IF p \in Quarterly THEN 1 ELSE TtmPeriods

---------------------------------------------------------------------------
(* One run: fetch, upsert, lineage (_ingest_one_ticker).                   *)

\* Mutant: a figure counts as reported on the last day of its period.
ReportedDate_NoLag(p) == p

ReportedDate(p) == p + Lag

\* Mutant: rows of the future are not skipped.
Normalized_Future == {[period |-> p, reported |-> ReportedDate(p),
                       figure |-> [edition |-> Len(editions[p]), quarters |-> Quarters(p)]] :
                        p \in Shown}

\* Mutant: a figure that only the annual statement still shows is the one first reported.
Normalized_AsFirst == {[period |-> p, reported |-> ReportedDate(p),
                        figure |-> [edition  |-> IF p \in Quarterly THEN Len(editions[p]) ELSE 1,
                                    quarters |-> Quarters(p)]] :
                         p \in {q \in Shown : ReportedDate(q) <= today}}

\* _normalize_yfinance_fundamentals, as of today.
Normalized == {[period |-> p, reported |-> ReportedDate(p),
                figure |-> [edition |-> Len(editions[p]), quarters |-> Quarters(p)]] :
                 p \in {q \in Shown : ReportedDate(q) <= today}}

Fetch(f) ==
  /\ flow[f].pc = "idle"
  /\ runs < MaxRuns
  /\ runs' = runs + 1
  /\ \/ flow' = [flow EXCEPT ![f] = [pc |-> "upsert", rows |-> Normalized]]
     \/ flow' = [flow EXCEPT ![f] = [pc |-> "record_failed", rows |-> {}]]
  /\ UNCHANGED <<today, gaps, editions, table, lineage, unrecorded, overtaken>>

\* INSERT .. ON CONFLICT (key) DO UPDATE of the value.
Upserted(rows) == {r \in table : \A s \in rows : Key(r) # Key(s)} \union rows

\* The rows of a run come into the table; the runs that have fetched already will not have
\* seen what the provider showed it.
Store(f) ==
  /\ table' = Upserted(flow[f].rows)
  /\ overtaken' = (overtaken \union {g \in Flows : flow[g].pc = "upsert"}) \ {f}

\* One statement in one transaction: all its rows, or none when it raises.  The commit may
\* also be applied and raise in the client, whose run then counts as failed with no rows.
Upsert(f) ==
  /\ flow[f].pc = "upsert"
  /\ \/ /\ Store(f)
        /\ flow' = [flow EXCEPT ![f].pc = "record_success"]
        /\ UNCHANGED unrecorded
     \/ /\ UNCHANGED <<table, unrecorded>>
        /\ overtaken' = overtaken \ {f}
        /\ flow' = [flow EXCEPT ![f] = [pc |-> "record_failed", rows |-> {}]]
     \/ /\ Store(f)
        /\ flow' = [flow EXCEPT ![f] = [pc |-> "record_failed", rows |-> {}]]
        /\ unrecorded' = unrecorded \union flow[f].rows
  /\ UNCHANGED <<today, gaps, editions, lineage, runs>>

\* Mutant: only failures are recorded.
Record_Failures(f) ==
  /\ flow[f].pc \in {"record_success", "record_failed"}
  /\ lineage' = IF flow[f].pc = "record_failed"
                THEN lineage \union {[status |-> "failed", rows |-> {}]} ELSE lineage
  /\ flow' = [flow EXCEPT ![f] = Idle]
  /\ UNCHANGED <<today, gaps, editions, table, unrecorded, overtaken, runs>>

\* _write_ingestion_run: a transaction of its own, whose failure is only logged; and
\* capture_reproducibility may raise before it.
Record(f) ==
  /\ flow[f].pc \in {"record_success", "record_failed"}
  /\ \/ /\ lineage' = lineage \union
             {[status |-> IF flow[f].pc = "record_success" THEN "success" ELSE "failed",
               rows   |-> flow[f].rows]}
        /\ UNCHANGED unrecorded
     \/ /\ unrecorded' = unrecorded \union flow[f].rows
        /\ UNCHANGED lineage
  /\ flow' = [flow EXCEPT ![f] = Idle]
  /\ UNCHANGED <<today, gaps, editions, table, overtaken, runs>>

\* The process dies.
Kill(f) ==
  /\ flow[f].pc # "idle"
  /\ unrecorded' = unrecorded \union (IF flow[f].pc = "upsert" THEN {} ELSE flow[f].rows)
  /\ overtaken' = overtaken \ {f}
  /\ flow' = [flow EXCEPT ![f] = Idle]
  /\ UNCHANGED <<today, gaps, editions, table, lineage, runs>>

---------------------------------------------------------------------------
(* The as-of queries.                                                      *)

\* get_fundamentals: DISTINCT ON, the last reported row, then the last period.
Snapshot(asOf) ==
  LET known == {r \in table : r.reported <= asOf}
  IN  {r \in known : \A s \in known : \/ s.reported < r.reported
                                      \/ s.reported = r.reported /\ s.period <= r.period}

\* get_fundamentals_history.
History(first, last) == {r \in table : first <= r.reported /\ r.reported <= last}

\* _ttm_metric sums the figures of the four latest periods, or has no value.
Ttm(asOf) ==
  LET known  == History(asOf - LookbackDays, asOf)
      latest == {r \in known : \A s \in known : s.period = r.period => s.reported <= r.reported}
      head   == {r \in latest : Cardinality({s \in latest : s.period > r.period}) < TtmPeriods}
  IN  IF Cardinality(head) < TtmPeriods THEN {} ELSE head

---------------------------------------------------------------------------
\* The last day the model looks at, with no run under way.
Over == /\ today = LastDay
        /\ \A f \in Flows : flow[f].pc = "idle"
        /\ UNCHANGED vars

Next == \/ NextDay \/ Over
        \/ \E p \in Periods : Publish(p) \/ Restate(p)
        \/ \E f \in Flows : Fetch(f) \/ Upsert(f) \/ Record(f) \/ Kill(f)

Spec == Init /\ [][Next]_vars

---------------------------------------------------------------------------
(* Properties.                                                             *)

Days == 0..LastDay

\* No as-of query sees a report before the day it came out, although its reported_date is
\* made up, provided companies report within the lag.  (Its figure may be a later
\* edition: an upsert replaces the row that a restatement has the key of.)
NoLookahead ==
  \A d \in Days : \A r \in Snapshot(d) \union Ttm(d) : editions[r.period][1] <= d

\* Today's data answers no query about tomorrow: 'the DB never contains future
\* reported_date values', whatever the provider already shows.
NoFutureRow == \A r \in table : r.reported <= today

\* The rows of ingestion_runs explain the table: a row came in by a run that was recorded as a
\* success, or will be; or by one of which no lineage row tells: it was lost with a logged
\* error, the process died before it, or the commit raised although it was applied, so that
\* the run is on record as failed, with 0 rows.
LineageExplains ==
  \A r \in table : \/ \E entry \in lineage : entry.status = "success" /\ r \in entry.rows
                   \/ \E f \in Flows : flow[f].pc = "record_success" /\ r \in flow[f].rows
                   \/ r \in unrecorded

\* A stored figure is never put back to an older edition by a run that fetched after the newer
\* one was stored, whichever statement it is from and however the runs before it failed; an
\* older edition wins only when another run committed between a run's fetch and its upsert.
EditionsGoForward ==
  [][\A r \in table, s \in table' :
       Key(r) = Key(s) /\ s.figure.edition < r.figure.edition =>
         \E f \in overtaken : s \in flow[f].rows]_vars

\* A 'trailing-twelve-month' figure sums one year (features/fundamentals/financial.py).
TtmIsAYear ==
  \A d \in Days : Ttm(d) # {} =>
    MapThenSumSet(LAMBDA r : r.figure.quarters, Ttm(d)) = TtmPeriods

---------------------------------------------------------------------------
(* The inductive invariant the proofs rest on.                             *)

\* A row tells of a report that came out, in time, and not of the future.
Sound(r) == /\ r.reported = ReportedDate(r.period)
            /\ r.reported <= today
            /\ editions[r.period] # <<>>
            /\ editions[r.period][1] <= r.period + Delay

\* The rows of the table, and those on their way into it, are sound; a run fetches a key
\* once; and the lineage explains the table.
PitInv == /\ \A r \in table : Sound(r)
          /\ \A f \in Flows : /\ KeysDiffer(flow[f].rows)
                              /\ \A r \in flow[f].rows : Sound(r)
          /\ \A p \in Periods : editions[p] # <<>> => editions[p][1] <= p + Delay
          /\ LineageExplains

\* Nothing is known of an edition that is not out, and a run that was not overtaken has figures
\* no older than those of the table.
ForwardInv ==
  /\ \A r \in table : r.figure.edition <= Len(editions[r.period])
  /\ \A f \in Flows : \A r \in flow[f].rows : r.figure.edition <= Len(editions[r.period])
  /\ \A f \in Flows \ overtaken : flow[f].pc = "upsert" =>
       \A r \in table, s \in flow[f].rows : Key(r) = Key(s) => r.figure.edition <= s.figure.edition
=============================================================================
