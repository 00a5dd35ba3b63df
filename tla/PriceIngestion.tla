---------------------------- MODULE PriceIngestion ----------------------------
(***************************************************************************)
(* The price flows: a batch (pipelines/ingest_prices_batch.py, and the one  *)
(* in ingest_prices_webull.py) fans tickers out to a pool of threads; each  *)
(* task fetches the bars of its window, validates them, upserts them into   *)
(* prices and writes a row of ingestion_runs, all in transactions of its    *)
(* own.  yfinance answers in one call; Webull is paged backward, with       *)
(* bounded retries when it throttles.                                       *)
(*                                                                         *)
(* Half a day is one tick of the clock.  A bar asked for during its session *)
(* is "partial", one asked for after the close is "final"; prices and       *)
(* volumes themselves are not needed.                                       *)
(***************************************************************************)
EXTENDS Integers, SequencesExt

CONSTANTS Batches,       \* batch flows, which may overlap (schedule, command line)
          Providers,     \* of {"yfinance", "webull"}: those that are used
          Tickers,       \* names that a batch may be asked for
          Known,         \* those in the tickers table, which prices refers to
          TargetLists,   \* lists of tickers a batch may be started with
          Threads,       \* concurrency: threads of a batch's pool
          Lookback,      \* lookback_days of the yfinance flow
          WebullStart,   \* DEFAULT_WEBULL_START
          PageSize,      \* DEFAULT_WEBULL_COUNT: bars of a Webull page
          MaxAttempts,   \* max_attempts of get_history_bar_with_retry
          FirstDay,      \* the first day the sources know of
          Closed,        \* days on which the exchange is closed
          Sources,       \* of what the providers are like, one is drawn: see below
          Faults,        \* failures that may happen
          LastDay,       \* bound: the days that are looked at
          MaxFaults      \* bound: failures in one behaviour, throttling not counted

FaultKinds == {"source_error", "throttled", "future_bar", "db_error", "commit_unknown",
               "capture_error", "kill"}

ASSUME PriceAssumption ==
  /\ Providers \subseteq {"yfinance", "webull"} /\ Known \subseteq Tickers
  /\ TargetLists \subseteq Seq(Tickers)
  /\ Sources \subseteq [silent : SUBSET (FirstDay..LastDay), heeds_end_time : BOOLEAN]
  /\ Threads \in Nat \ {0} /\ Lookback \in Nat /\ PageSize \in Nat \ {0}
  /\ MaxAttempts \in Nat \ {0} /\ FirstDay \in Int /\ WebullStart \in Int
  /\ LastDay \in Nat /\ MaxFaults \in Nat /\ Faults \subseteq FaultKinds

VARIABLES clock,         \* half days since the morning of day 0
          source,        \* the days without a close, and whether Webull heeds end_time
          prices,        \* committed rows of prices
          lineage,       \* committed rows of ingestion_runs of these flows
          batch,         \* [Batches -> flow]: what each batch is doing
          tasks,         \* [Batches -> Seq(task)]: its calls of _ingest_one_ticker
          written,       \* history: commits of bars, by provider and ticker
          faults, hit    \* history: failures so far, and their kinds by batch

flowVars == <<batch, tasks, written, faults, hit>>
vars == <<clock, source, prices, lineage, flowVars>>

Today == clock \div 2
Days  == FirstDay..(LastDay + 1)

Bar     == [day : Days, edition : {"partial", "final"}]
Price   == [provider : Providers, ticker : Tickers, day : Days,
            edition : {"partial", "final"}]
Commit  == [batch : Batches, task : Nat, rows : Nat, end : 0..LastDay]
Lineage == [batch : Batches, task : Nat, status : {"success", "failed"}, rows : Nat]
Task    == [pc : {"queued", "fetch", "upsert", "lineage", "done"},
            status : {"running", "success", "failed"}, rows : Nat,
            start : Int, end : 0..LastDay, frame : SUBSET Bar, before : Int,
            seen : SUBSET Days, attempts : Nat,
            pages : Nat]             \* history: pages it has gone on from
Summary == [status : {"none", "noop", "success", "partial", "failed"},
            success : SUBSET Tickers, failed : SUBSET Tickers, rows : Nat]
Flow    == [state : {"idle", "running", "returned", "raised", "killed"},
            provider : Providers \union {"none"}, targets : TargetLists \union {<<>>},
            summary : Summary]

NoSummary == [status |-> "none", success |-> {}, failed |-> {}, rows |-> 0]
NewTask   == [pc |-> "queued", status |-> "running", rows |-> 0, start |-> 0, end |-> 0,
              frame |-> {}, before |-> 0, seen |-> {}, attempts |-> 0, pages |-> 0]

Key(row) == <<row.provider, row.ticker, row.day>>

TypeOK == /\ clock \in 0..(2 * LastDay + 1)
          /\ source \in Sources
          /\ prices \subseteq Price
          /\ \A r, s \in prices : Key(r) = Key(s) => r = s
          /\ lineage \subseteq Lineage
          /\ batch \in [Batches -> Flow]
          /\ tasks \in [Batches -> Seq(Task)]
          /\ \A b \in Batches : tasks[b] # <<>> => Len(tasks[b]) = Len(batch[b].targets)
          /\ written \in [Providers \X Tickers -> Seq(Commit)]
          /\ faults \in 0..MaxFaults
          /\ hit \in [Batches -> SUBSET Faults]

Init == /\ clock = 0
        /\ source \in Sources
        /\ prices = {}
        /\ lineage = {}
        /\ batch = [b \in Batches |-> [state |-> "idle", provider |-> "none",
                                       targets |-> <<>>, summary |-> NoSummary]]
        /\ tasks = [b \in Batches |-> <<>>]
        /\ written = [s \in Providers \X Tickers |-> <<>>]
        /\ faults = 0
        /\ hit = [b \in Batches |-> {}]

NoFault     == UNCHANGED <<faults, hit>>
Fault(b, f) == /\ f \in Faults
               /\ faults < MaxFaults
               /\ faults' = faults + 1
               /\ hit' = [hit EXCEPT ![b] = @ \union {f}]

---------------------------------------------------------------------------
(* The exchange and what the providers show of it.                         *)

\* A session closes, or the next day begins.
Tick == /\ clock < 2 * LastDay + 1
        /\ clock' = clock + 1
        /\ UNCHANGED <<source, prices, lineage, flowVars>>

Sessions == {d \in Days : d \notin Closed /\ d <= Today}
Edition(d) == IF clock > 2 * d THEN "final" ELSE "partial"

\* Rows without a close, or for Webull without any of its values, are dropped.
BarsOf(days) == {[day |-> d, edition |-> Edition(d)] : d \in days \ source.silent}

\* A page of Webull: the newest sessions before the one that end_time excludes, unless
\* the service pays no heed to end_time.
PageDays(before) ==
  LET asked == {d \in Sessions : d < before \/ ~source.heeds_end_time}
  IN  {d \in asked : Cardinality({e \in asked : e > d}) < PageSize}

---------------------------------------------------------------------------
(* A task: _ingest_one_ticker and _ingest_one_webull_ticker.               *)

At(b, i, pc) == /\ batch[b].state = "running"
                /\ i \in DOMAIN tasks[b]
                /\ tasks[b][i].pc = pc

Becomes(b, i, task) == tasks' = [tasks EXCEPT ![b][i] = task]
Provider(b)  == batch[b].provider
Ticker(b, i) == batch[b].targets[i]

\* What is left of a task when its fetch and upsert are over.
Ended(status, rows) == [NewTask EXCEPT !.pc = "lineage", !.status = status, !.rows = rows]

\* The except clause: the error is kept for the lineage row.
Fails(b, i) == Becomes(b, i, Ended("failed", 0))

\* Mutant: the window is a day short.
WindowStart_Short(b) == IF Provider(b) = "yfinance" THEN Today - Lookback + 1
                        ELSE WebullStart

WindowStart(b) == IF Provider(b) = "yfinance" THEN Today - Lookback ELSE WebullStart

\* A free thread takes the oldest task of the pool's queue, and fixes its window.
Begin(b, i) ==
  /\ At(b, i, "queued")
  /\ \A j \in 1..(i - 1) : tasks[b][j].pc # "queued"
  /\ Cardinality({j \in DOMAIN tasks[b] : tasks[b][j].pc \notin {"queued", "done"}}) < Threads
  /\ Becomes(b, i, [NewTask EXCEPT !.pc = "fetch", !.start = WindowStart(b),
                                   !.end = Today, !.before = Today + 1])
  /\ NoFault
  /\ UNCHANGED <<clock, source, prices, lineage, batch, written>>

\* Mutant: bars of the future pass.
Validate_Future(b, i, frame) ==
  IF frame = {} THEN Becomes(b, i, Ended("success", 0))
  ELSE Becomes(b, i, [NewTask EXCEPT !.pc = "upsert", !.end = tasks[b][i].end,
                                     !.frame = frame])

\* PRICES_SCHEMA.validate rejects the frame for one bar of the future, and _upsert_prices
\* returns without a transaction for an empty one.
Validate(b, i, frame) ==
  IF \E bar \in frame : bar.day > Today THEN Fails(b, i)
  ELSE IF frame = {} THEN Becomes(b, i, Ended("success", 0))
  ELSE Becomes(b, i, [NewTask EXCEPT !.pc = "upsert", !.end = tasks[b][i].end,
                                     !.frame = frame])

\* fetch_prices_from_yfinance; the provider may add a bar that is not of the window.
FetchYfinance(b, i) ==
  LET bars == BarsOf(Sessions \intersect tasks[b][i].start..tasks[b][i].end)
  IN  /\ At(b, i, "fetch") /\ Provider(b) = "yfinance"
      /\ \/ Validate(b, i, bars) /\ NoFault
         \/ /\ Validate(b, i, bars \union {[day |-> Today + 1, edition |-> "partial"]})
            /\ Fault(b, "future_bar")
      /\ UNCHANGED <<clock, source, prices, lineage, batch, written>>

\* Mutant: only the start of the window ends the loop.
LastPage_NoGuard(task, oldest) == oldest < task.start

\* download_bars stops at a page that ends where an earlier one did, or before the window
\* (a daily bar is stamped at the close, so the one of the first day is after its midnight).
LastPage(task, oldest) == oldest \in task.seen \/ oldest < task.start

\* One request of download_bars: it ends the download, or goes on with a page that ends a
\* millisecond before the oldest bar.
FetchPage(b, i) ==
  LET task   == tasks[b][i]
      page   == BarsOf(PageDays(task.before))
      oldest == Min({bar.day : bar \in page})
      frame  == task.frame \union
                {bar \in page : \A old \in task.frame : old.day # bar.day}
      window == {bar \in frame : bar.day \in task.start..task.end}
  IN  /\ At(b, i, "fetch") /\ Provider(b) = "webull"
      /\ IF page = {} \/ LastPage(task, oldest)
         THEN Validate(b, i, window)
         ELSE Becomes(b, i, [task EXCEPT !.frame = frame, !.before = oldest,
                                         !.seen = @ \union {oldest}, !.attempts = 0,
                                       !.pages = @ + 1])
      /\ NoFault
      /\ UNCHANGED <<clock, source, prices, lineage, batch, written>>

\* get_history_bar_with_retry: the request is throttled, and made again unless it was the
\* last attempt.
Throttled(b, i) ==
  /\ At(b, i, "fetch") /\ Provider(b) = "webull"
  /\ "throttled" \in Faults
  /\ IF tasks[b][i].attempts = MaxAttempts - 1
     THEN Fails(b, i)
     ELSE Becomes(b, i, [tasks[b][i] EXCEPT !.attempts = @ + 1])
  /\ NoFault
  /\ UNCHANGED <<clock, source, prices, lineage, batch, written>>

\* Any other error of a provider, or a bar that the schema rejects.
FetchFails(b, i) ==
  /\ At(b, i, "fetch")
  /\ Fault(b, "source_error")
  /\ Fails(b, i)
  /\ UNCHANGED <<clock, source, prices, lineage, batch, written>>

\* INSERT .. ON CONFLICT (pk_prices) DO UPDATE.
Upserted(rows) == {r \in prices : \A s \in rows : Key(r) # Key(s)} \union rows

\* The statement is committed: all bars of the frame.
Commits(b, i) ==
  LET task == tasks[b][i]
  IN  /\ Ticker(b, i) \in Known
      /\ prices' = Upserted({[provider |-> Provider(b), ticker |-> Ticker(b, i),
                              day |-> bar.day, edition |-> bar.edition] : bar \in task.frame})
      /\ written' = [written EXCEPT ![<<Provider(b), Ticker(b, i)>>] =
                       Append(@, [batch |-> b, task |-> i, end |-> task.end,
                                  rows |-> Cardinality(task.frame)])]

\* _upsert_prices: it commits, or is rolled back (always, for a ticker that is not in
\* tickers), or commits and raises all the same.
Upsert(b, i) ==
  /\ At(b, i, "upsert")
  /\ \/ /\ Commits(b, i) /\ NoFault
        /\ Becomes(b, i, Ended("success", Cardinality(tasks[b][i].frame)))
     \/ /\ Commits(b, i) /\ Fault(b, "commit_unknown")
        /\ Fails(b, i)
     \/ /\ IF Ticker(b, i) \in Known THEN Fault(b, "db_error") ELSE NoFault
        /\ Fails(b, i)
        /\ UNCHANGED <<prices, written>>
  /\ UNCHANGED <<clock, source, lineage, batch>>

\* The result of a call, which its future holds.
Result(status, rows) == [NewTask EXCEPT !.pc = "done", !.status = status, !.rows = rows]

\* Mutant: only failures are recorded.
Record_Failures(b, i) ==
  LET task == tasks[b][i]
  IN  /\ At(b, i, "lineage")
      /\ lineage' = IF task.status = "failed"
                    THEN lineage \union {[batch |-> b, task |-> i, status |-> task.status,
                                          rows |-> task.rows]}
                    ELSE lineage
      /\ NoFault
      /\ Becomes(b, i, Result(task.status, task.rows))
      /\ UNCHANGED <<clock, source, prices, batch, written>>

\* The finally clause: _write_ingestion_run, whose failure is only logged; when
\* capture_reproducibility raises first, so does the task, and the batch counts it failed.
Record(b, i) ==
  LET task == tasks[b][i]
  IN  /\ At(b, i, "lineage")
      /\ \/ /\ lineage' = lineage \union {[batch |-> b, task |-> i,
                                           status |-> task.status, rows |-> task.rows]}
            /\ NoFault
            /\ Becomes(b, i, Result(task.status, task.rows))
         \/ /\ Fault(b, "db_error")
            /\ Becomes(b, i, Result(task.status, task.rows))
            /\ UNCHANGED lineage
         \/ /\ Fault(b, "capture_error")
            /\ Becomes(b, i, Result("failed", 0))
            /\ UNCHANGED lineage
      /\ UNCHANGED <<clock, source, prices, batch, written>>

---------------------------------------------------------------------------
(* A batch: ingest_prices_batch_free and ingest_prices_webull_batch.       *)

\* All tasks are submitted at once; without tickers there is nothing to do.
Start(b, p, targets) ==
  /\ batch[b].state = "idle"
  /\ batch' = [batch EXCEPT ![b] =
       [state    |-> IF targets = <<>> THEN "returned" ELSE "running",
        provider |-> p,
        targets  |-> targets,
        summary  |-> [NoSummary EXCEPT !.status = IF targets = <<>> THEN "noop" ELSE @]]]
  /\ tasks' = [tasks EXCEPT ![b] = [i \in DOMAIN targets |-> NewTask]]
  /\ NoFault
  /\ UNCHANGED <<clock, source, prices, lineage, written>>

\* _load_active_tickers raises.
StartFails(b, p) ==
  /\ batch[b].state = "idle"
  /\ Fault(b, "db_error")
  /\ batch' = [batch EXCEPT ![b].state = "raised", ![b].provider = p]
  /\ UNCHANGED <<clock, source, prices, lineage, tasks, written>>

\* Mutant: one success is enough.
AggregateStatus_Any(success, failed) == IF success = {} THEN "failed" ELSE "success"

AggregateStatus(success, failed) == IF failed = {} THEN "success"
                                    ELSE IF success = {} THEN "failed"
                                    ELSE "partial"

\* Every future is done.  Results are kept by ticker: of the attempts of a ticker that is
\* listed twice, whichever as_completed yields last.
Summarise(b) ==
  /\ batch[b].state = "running"
  /\ \A i \in DOMAIN tasks[b] : tasks[b][i].pc = "done"
  /\ \E last \in [ToSet(batch[b].targets) -> DOMAIN tasks[b]] :
       LET listed  == DOMAIN last
           success == {t \in listed : tasks[b][last[t]].status = "success"}
           status  == AggregateStatus(success, listed \ success)
       IN  /\ \A t \in listed : batch[b].targets[last[t]] = t
           /\ batch' = [batch EXCEPT
                ![b].state   = IF status = "failed" THEN "raised" ELSE "returned",
                ![b].summary = [status |-> status, success |-> success,
                                failed |-> listed \ success,
                                rows |-> SumFunction([t \in listed |-> tasks[b][last[t]].rows])]]
  /\ tasks' = [tasks EXCEPT ![b] = <<>>]
  /\ NoFault
  /\ UNCHANGED <<clock, source, prices, lineage, written>>

\* The process dies, with every thread in it.
Kill(b) ==
  /\ batch[b].state = "running"
  /\ Fault(b, "kill")
  /\ batch' = [batch EXCEPT ![b].state = "killed"]
  /\ tasks' = [tasks EXCEPT ![b] = <<>>]
  /\ UNCHANGED <<clock, source, prices, lineage, written>>

---------------------------------------------------------------------------
\* What a thread does by itself, and what befalls it.
TaskStep(b, i) == Begin(b, i) \/ FetchYfinance(b, i) \/ FetchPage(b, i) \/ Upsert(b, i)
                  \/ Record(b, i)

IngestionNext ==
  \/ Tick
  \/ \E b \in Batches :
       \/ \E p \in Providers : StartFails(b, p) \/ \E targets \in TargetLists : Start(b, p, targets)
       \/ \E i \in DOMAIN tasks[b] : TaskStep(b, i) \/ Throttled(b, i) \/ FetchFails(b, i)
       \/ Summarise(b) \/ Kill(b)

IngestionOver == /\ clock = 2 * LastDay + 1
                 /\ \A b \in Batches : batch[b].state \notin {"idle", "running"}

---------------------------------------------------------------------------
(* Properties.                                                             *)

\* Runs of a source that are never further apart than the lookback, and that commit in the
\* order of their windows, leave no hole behind them.
Regular(p, runs) ==
  \A i \in 1..(Len(runs) - 1) :
    /\ runs[i].end <= runs[i + 1].end
    /\ p = "yfinance" => runs[i + 1].end - runs[i].end <= Lookback

\* 'Incremental (lookback overlap for safety)': from the first window to the day before the
\* last one's end, every session has its bar, as of after the close, though each run stores
\* a bar of an unfinished session and some runs fail.
NoHoles ==
  \A p \in Providers, t \in Tickers :
    LET runs  == written[<<p, t>>]
        first == IF p = "yfinance" THEN runs[1].end - Lookback ELSE WebullStart
    IN  runs # <<>> /\ Regular(p, runs) /\ (p = "webull" => source.heeds_end_time) =>
          \A d \in (first..(Last(runs).end - 1)) \ (Closed \union source.silent) :
            d >= FirstDay =>
              [provider |-> p, ticker |-> t, day |-> d, edition |-> "final"] \in prices

\* NoHoles needs of a Webull that heeds end_time that its days without a close do not fill a
\* page: download_bars would take that for the end of the listing.
FewSilentDays == \A s \in Sources : s.heeds_end_time => Cardinality(s.silent) < PageSize

\* The commits of a batch.
CommitsOf(b) == {c \in UNION {ToSet(written[s]) : s \in DOMAIN written} : c.batch = b}
RowsOf(b)    == SumFunction([c \in CommitsOf(b) |-> c.rows])

\* Failures after which a task does not know, or cannot say, what it has committed.
HalfKnown == {"commit_unknown", "capture_error"}

\* What a batch reports is what it did: it never counts rows it has not stored, a batch
\* that raises ('only when every ticker fails') has stored nothing and one that says
\* success has failed for no ticker, unless a ticker was listed twice or a failure was of
\* the half-known kind.
SummaryIsTrue ==
  \A b \in Batches : batch[b].state \in {"returned", "raised"} =>
    LET said == batch[b].summary
    IN  /\ said.rows <= RowsOf(b)
        /\ said.status = "success" => said.success = ToSet(batch[b].targets)
        /\ IsInjective(batch[b].targets) /\ hit[b] \intersect HalfKnown = {} =>
             /\ said.rows = RowsOf(b)
             /\ batch[b].state = "raised" => CommitsOf(b) = {}

\* Every commit of bars has a lineage row that says success and how many, or will have one,
\* or a failure of its batch explains why not; and a lineage row that says success with
\* rows is about a commit.
WritesAreRecorded ==
  /\ \A b \in Batches : \A c \in CommitsOf(b) :
       \/ [batch |-> b, task |-> c.task, status |-> "success", rows |-> c.rows] \in lineage
       \/ At(b, c.task, "lineage") /\ tasks[b][c.task] = Ended("success", c.rows)
       \/ hit[b] \intersect (HalfKnown \union {"db_error", "kill"}) # {}
  /\ \A entry \in lineage : entry.rows > 0 =>
       \E c \in CommitsOf(entry.batch) : c.task = entry.task /\ c.rows = entry.rows

\* A download ends: it goes on from a page only if that was older than all before it, so
\* no more often than there are days, even if Webull shows the same bars for ever.  (That a
\* batch then ends too is the absence of deadlocks: every step but the clock's is progress.)
DownloadEnds == \A b \in Batches : \A i \in DOMAIN tasks[b] :
                  tasks[b][i].pages <= Cardinality(Days)
=============================================================================
