---------------------------- MODULE JobLifecycle ----------------------------
(***************************************************************************)
(* The life of a backtest job: the FastAPI handler that creates it, the    *)
(* Postgres rows it keeps, the Redis queue, the RQ workers that run it and *)
(* the web page that follows it (azureus/api, azureus/worker,              *)
(* frontend/src/api).                                                      *)
(*                                                                         *)
(* A database transaction of the code is two steps here, one that loads    *)
(* the row and one that flushes and commits, because under READ COMMITTED  *)
(* another process may commit in between.  SQLAlchemy's UPDATE names only  *)
(* the columns whose value differs from the loaded one, so two writers may *)
(* leave a row that neither of them wrote: see Flush.                      *)
(***************************************************************************)
EXTENDS Naturals, Sequences, FiniteSets

CONSTANTS Requests,       \* POST /backtests requests; request r creates job r
          Strategies,     \* ids of the strategy registry
          StrategyOf,     \* [Requests -> Strategies]: the strategy a request asks for
          Workers,        \* RQ worker processes on the queue 'backtests'
          NoJob,          \* what an idle worker works on
          Faults,         \* the kinds of fault that may happen
          MaxFaults       \* bound: how many faults happen in a behaviour

FaultKinds == {"redis_down",      \* the push fails and nothing was queued
               "reply_lost",      \* the push was applied, the client raised
               "db_error",        \* a transaction raised and was rolled back
               "commit_unknown",  \* a commit was applied, the client raised
               "timeout",         \* RQ's per-job alarm (180 s) raises in the job
               "kill",            \* SIGKILL of the work horse (deploy, OOM)
               "api_crash"}       \* the API process dies and restarts

ASSUME Assumption == /\ StrategyOf \in [Requests -> Strategies]
                     /\ NoJob \notin Requests
                     /\ Faults \subseteq FaultKinds
                     /\ MaxFaults \in Nat

VARIABLES strategies,     \* committed rows of the table strategies
          jobs,           \* [Requests -> Row]: committed rows of the table jobs
          results,        \* jobs with a committed row in backtest_results
          queue,          \* Redis list: job ids to run
          api,            \* [Requests -> handler]: the POST handler of a request
          worker,         \* [Workers -> horse]: what each RQ worker is doing
          lost,           \* history: jobs whose run ended with no outcome recorded
          page,           \* [Requests -> Statuses]: status the page last polled
          shown,          \* [Requests -> answer to the page's result fetch]
          faults          \* history: number of faults so far

vars == <<strategies, jobs, results, queue, api, worker, lost, page, shown, faults>>

---------------------------------------------------------------------------
Statuses == {"none", "queued", "running", "completed", "failed"}
Terminal == {"completed", "failed"}

\* The columns of a job row that the code changes; NULL or not is all that
\* matters of an error message and of a timestamp.
Row == [status : Statuses, error : BOOLEAN, started : BOOLEAN, ended : BOOLEAN]

NoRow     == [status |-> "none",   error |-> FALSE, started |-> FALSE, ended |-> FALSE]
QueuedRow == [status |-> "queued", error |-> FALSE, started |-> FALSE, ended |-> FALSE]

\* The three updates the code makes to a loaded row.
AsRunning(row)   == [row EXCEPT !.status = "running", !.started = TRUE, !.error = FALSE]
AsCompleted(row) == [row EXCEPT !.status = "completed", !.ended = TRUE, !.error = FALSE]
AsFailed(row)    == [row EXCEPT !.status = "failed", !.ended = TRUE, !.error = TRUE]

\* UPDATE of the row now in the table by a session that loaded `old` and holds
\* `new`: only the columns that differ from the loaded ones are written.
Flush(now, old, new) ==
  [status  |-> IF new.status  # old.status  THEN new.status  ELSE now.status,
   error   |-> IF new.error   # old.error   THEN new.error   ELSE now.error,
   started |-> IF new.started # old.started THEN new.started ELSE now.started,
   ended   |-> IF new.ended   # old.ended   THEN new.ended   ELSE now.ended]

InTransaction == {"ensure", "upsert", "insert"}
Ended         == {"rejected", "http_202", "http_500", "http_503", "crashed"}
HandlerPc     == {"idle", "enqueue", "load_failed", "save_failed"} \union InTransaction \union Ended
Handler       == [pc : HandlerPc, existing : BOOLEAN, loaded : Row]

TryBlock == {"load_running", "save_running", "execute", "load_completed",
             "save_completed", "return"}
HorsePc  == {"idle", "load_failed", "save_failed"} \union TryBlock
Horse    == [pc : HorsePc, job : Requests \union {NoJob}, loaded : Row, armed : BOOLEAN]

IdleHorse == [pc |-> "idle", job |-> NoJob, loaded |-> NoRow, armed |-> FALSE]

TypeOK == /\ strategies \subseteq Strategies
          /\ jobs \in [Requests -> Row]
          /\ results \subseteq Requests
          /\ queue \in Seq(Requests)
          /\ api \in [Requests -> Handler]
          /\ worker \in [Workers -> Horse]
          /\ \A w \in Workers : worker[w].pc = "idle" <=> worker[w].job = NoJob
          /\ lost \subseteq Requests
          /\ page \in [Requests -> Statuses]
          /\ shown \in [Requests -> {"none", "ok", "refused"}]
          /\ faults \in 0..MaxFaults

Init == /\ strategies = {}
        /\ jobs = [r \in Requests |-> NoRow]
        /\ results = {}
        /\ queue = <<>>
        /\ api = [r \in Requests |-> [pc |-> "idle", existing |-> FALSE, loaded |-> NoRow]]
        /\ worker = [w \in Workers |-> IdleHorse]
        /\ lost = {}
        /\ page = [r \in Requests |-> "none"]
        /\ shown = [r \in Requests |-> "none"]
        /\ faults = 0

\* A fault of the given kind happens in this step, within the bound.
Fault(kind) == /\ kind \in Faults
               /\ faults < MaxFaults
               /\ faults' = faults + 1

---------------------------------------------------------------------------
(* The POST handler: create_backtest_job.                                  *)

ApiGoto(r, pc) == api' = [api EXCEPT ![r].pc = pc]

\* The strategy id is not registered (404) or the parameters are invalid (422).
Reject(r) == /\ api[r].pc = "idle"
             /\ ApiGoto(r, "rejected")
             /\ UNCHANGED <<strategies, jobs, results, queue, worker, lost, page, shown, faults>>

Accept(r) == /\ api[r].pc = "idle"
             /\ ApiGoto(r, "ensure")
             /\ UNCHANGED <<strategies, jobs, results, queue, worker, lost, page, shown, faults>>

\* ensure_strategy_record looks the strategy up ...
LoadStrategy(r) ==
  /\ api[r].pc = "ensure"
  /\ api' = [api EXCEPT ![r].pc = "upsert", ![r].existing = StrategyOf[r] \in strategies]
  /\ UNCHANGED <<strategies, jobs, results, queue, worker, lost, page, shown, faults>>

\* Mutant: each of two handlers waits for the other before it inserts.
InsertPending_Mutual(r) == \E q \in Requests \ {r} : /\ api[q].pc \in {"upsert", "insert"}
                                                     /\ StrategyOf[q] = StrategyOf[r]

\* Another open transaction has inserted the same primary key: Postgres makes
\* a second INSERT wait until that transaction ends.
InsertPending(r) == \E q \in Requests \ {r} : /\ api[q].pc = "insert"
                                              /\ ~api[q].existing
                                              /\ StrategyOf[q] = StrategyOf[r]

\* ... and inserts it when it was absent; when a concurrent request inserted it
\* since, the unique violation rolls back and escapes as HTTP 500.
UpsertStrategy(r) ==
  /\ api[r].pc = "upsert"
  /\ \/ /\ api[r].existing
        /\ ApiGoto(r, "insert")
     \/ /\ ~api[r].existing
        /\ ~InsertPending(r)
        /\ ApiGoto(r, IF StrategyOf[r] \in strategies THEN "http_500" ELSE "insert")
  /\ UNCHANGED <<strategies, jobs, results, queue, worker, lost, page, shown, faults>>

\* Mutant: the session is flushed and never committed.
InsertRows_NoCommit(r) == UNCHANGED <<strategies, jobs>>

\* insert_job and the commit: the strategy row and the job row appear together.
InsertRows(r) == /\ strategies' = strategies \union {StrategyOf[r]}
                 /\ jobs' = [jobs EXCEPT ![r] = QueuedRow]

InsertJob(r) == /\ api[r].pc = "insert"
                /\ InsertRows(r)
                /\ \/ ApiGoto(r, "enqueue") /\ UNCHANGED faults
                   \/ ApiGoto(r, "http_500") /\ Fault("commit_unknown")
                /\ UNCHANGED <<results, queue, worker, lost, page, shown>>

\* The transaction raises anywhere before its commit: rolled back, HTTP 500.
CreateAborts(r) == /\ api[r].pc \in InTransaction
                   /\ Fault("db_error")
                   /\ ApiGoto(r, "http_500")
                   /\ UNCHANGED <<strategies, jobs, results, queue, worker, lost, page, shown>>

\* Mutant: a push that raised is tried again.
Enqueue_Retry(r) == /\ api[r].pc = "enqueue"
                    /\ \/ /\ ApiGoto(r, "http_202")
                          /\ UNCHANGED faults
                       \/ /\ UNCHANGED api
                          /\ Fault("reply_lost")
                    /\ queue' = Append(queue, r)
                    /\ UNCHANGED <<strategies, jobs, results, worker, lost, page, shown>>

\* Mutant: the push is not undone when the rest of the enqueue raises.
Enqueue_PushFirst(r) == /\ api[r].pc = "enqueue"
                        /\ queue' = Append(queue, r)
                        /\ \/ ApiGoto(r, "http_202") /\ UNCHANGED faults
                           \/ ApiGoto(r, "load_failed") /\ Fault("redis_down")
                        /\ UNCHANGED <<strategies, jobs, results, worker, lost, page, shown>>

\* _enqueue_backtest_job, outside the transaction.
Enqueue(r) == /\ api[r].pc = "enqueue"
              /\ \/ /\ ApiGoto(r, "http_202")
                    /\ queue' = Append(queue, r)
                    /\ UNCHANGED faults
                 \/ /\ ApiGoto(r, "load_failed")
                    /\ Fault("redis_down")
                    /\ UNCHANGED queue
                 \/ /\ ApiGoto(r, "load_failed")
                    /\ Fault("reply_lost")
                    /\ queue' = Append(queue, r)
              /\ UNCHANGED <<strategies, jobs, results, worker, lost, page, shown>>

\* _mark_enqueue_failed loads the row in a second transaction ...
LoadEnqueueFailed(r) ==
  /\ api[r].pc = "load_failed"
  /\ api' = [api EXCEPT ![r].pc = "save_failed", ![r].loaded = jobs[r]]
  /\ UNCHANGED <<strategies, jobs, results, queue, worker, lost, page, shown, faults>>

\* ... and writes it; BacktestQueueError becomes HTTP 503.
SaveEnqueueFailed(r) ==
  /\ api[r].pc = "save_failed"
  /\ jobs' = [jobs EXCEPT ![r] = Flush(@, api[r].loaded, AsFailed(api[r].loaded))]
  /\ \/ ApiGoto(r, "http_503") /\ UNCHANGED faults
     \/ ApiGoto(r, "http_500") /\ Fault("commit_unknown")
  /\ UNCHANGED <<strategies, results, queue, worker, lost, page, shown>>

MarkEnqueueFailedAborts(r) ==
  /\ api[r].pc \in {"load_failed", "save_failed"}
  /\ Fault("db_error")
  /\ ApiGoto(r, "http_500")
  /\ UNCHANGED <<strategies, jobs, results, queue, worker, lost, page, shown>>

\* The API process dies: every request in flight is gone, open transactions
\* roll back, and nothing in the code resumes them after the restart.
InFlight(r) == api[r].pc \notin Ended \union {"idle"}

ApiCrash == /\ \E r \in Requests : InFlight(r)
            /\ Fault("api_crash")
            /\ api' = [r \in Requests |->
                         IF InFlight(r) THEN [api[r] EXCEPT !.pc = "crashed"] ELSE api[r]]
            /\ UNCHANGED <<strategies, jobs, results, queue, worker, lost, page, shown>>

---------------------------------------------------------------------------
(* The worker: run_backtest_job, run by RQ in a work horse.                *)

WorkerGoto(w, pc) == worker' = [worker EXCEPT ![w].pc = pc]

\* RQ pops the id for good, forks a horse and arms the job's alarm.
Dequeue(w) ==
  /\ worker[w].pc = "idle"
  /\ queue # <<>>
  /\ queue' = Tail(queue)
  /\ worker' = [worker EXCEPT ![w] = [pc |-> "load_running", job |-> Head(queue),
                                      loaded |-> NoRow, armed |-> TRUE]]
  /\ UNCHANGED <<strategies, jobs, results, api, lost, page, shown, faults>>

\* session.get in _mark_running and in _mark_completed: a missing row is a ValueError.
LoadRow(w, from, to) ==
  LET row == jobs[worker[w].job] IN
  /\ worker[w].pc = from
  /\ worker' = [worker EXCEPT ![w].pc = IF row.status = "none" THEN "load_failed" ELSE to,
                              ![w].loaded = row]
  /\ UNCHANGED <<strategies, jobs, results, queue, api, lost, page, shown, faults>>

LoadRunning(w)   == LoadRow(w, "load_running", "save_running")
LoadCompleted(w) == LoadRow(w, "load_completed", "save_completed")

WriteRow(w, new) == LET j == worker[w].job IN
                    jobs' = [jobs EXCEPT ![j] = Flush(@, worker[w].loaded, new)]

\* A commit of the worker: it returns and the code goes on, or it was applied and
\* raised all the same, which sends the code to its except clause.
Commit(w, next) == \/ WorkerGoto(w, next) /\ UNCHANGED faults
                   \/ WorkerGoto(w, "load_failed") /\ Fault("commit_unknown")

SaveRunning(w) == /\ worker[w].pc = "save_running"
                  /\ WriteRow(w, AsRunning(worker[w].loaded))
                  /\ Commit(w, "execute")
                  /\ UNCHANGED <<strategies, results, queue, api, lost, page, shown>>

\* _execute_job: the strategy and the engine produce a result, or raise.
Execute(w) == /\ worker[w].pc = "execute"
              /\ \E pc \in {"load_completed", "load_failed"} : WorkerGoto(w, pc)
              /\ UNCHANGED <<strategies, jobs, results, queue, api, lost, page, shown, faults>>

\* Mutant: the status is committed and the result left for later.
SaveCompleted_StatusOnly(w) == /\ worker[w].pc = "save_completed"
                               /\ WriteRow(w, AsCompleted(worker[w].loaded))
                               /\ Commit(w, "return")
                               /\ UNCHANGED <<strategies, results, queue, api, lost, page, shown>>

\* _mark_completed: the result and the status are one transaction.
SaveCompleted(w) == /\ worker[w].pc = "save_completed"
                    /\ WriteRow(w, AsCompleted(worker[w].loaded))
                    /\ results' = results \union {worker[w].job}
                    /\ Commit(w, "return")
                    /\ UNCHANGED <<strategies, queue, api, lost, page, shown>>

\* run_backtest_job returns and RQ disarms the alarm.
Return(w) == /\ worker[w].pc = "return"
             /\ worker' = [worker EXCEPT ![w] = IdleHorse]
             /\ UNCHANGED <<strategies, jobs, results, queue, api, lost, page, shown, faults>>

\* A transaction of the try block raises before its commit.
WriteAborts(w) ==
  /\ worker[w].pc \in {"load_running", "save_running", "load_completed", "save_completed"}
  /\ Fault("db_error")
  /\ WorkerGoto(w, "load_failed")
  /\ UNCHANGED <<strategies, jobs, results, queue, api, lost, page, shown>>

\* Mutant: the except clause logs and re-raises without _mark_failed.
LoadFailed_Unrecorded(w) == /\ worker[w].pc = "load_failed"
                            /\ worker' = [worker EXCEPT ![w] = IdleHorse]
                            /\ UNCHANGED <<strategies, jobs, results, queue, api, lost, page,
                                           shown, faults>>

\* _mark_failed returns silently when there is no row ...
LoadFailed(w) ==
  LET row == jobs[worker[w].job] IN
  /\ worker[w].pc = "load_failed"
  /\ worker' = [worker EXCEPT ![w] = IF row.status = "none" THEN IdleHorse
                                     ELSE [@ EXCEPT !.pc = "save_failed", !.loaded = row]]
  /\ UNCHANGED <<strategies, jobs, results, queue, api, lost, page, shown, faults>>

\* ... and else records the failure; run_backtest_job re-raises and the job is over.
SaveFailed(w) == /\ worker[w].pc = "save_failed"
                 /\ WriteRow(w, AsFailed(worker[w].loaded))
                 /\ worker' = [worker EXCEPT ![w] = IdleHorse]
                 /\ UNCHANGED faults \/ Fault("commit_unknown")
                 /\ UNCHANGED <<strategies, results, queue, api, lost, page, shown>>

\* The horse ends and nobody records an outcome.
Abandon(w) == /\ worker' = [worker EXCEPT ![w] = IdleHorse]
              /\ lost' = lost \union {worker[w].job}

MarkFailedAborts(w) == /\ worker[w].pc \in {"load_failed", "save_failed"}
                       /\ Fault("db_error")
                       /\ Abandon(w)
                       /\ UNCHANGED <<strategies, jobs, results, queue, api, page, shown>>

\* The alarm raises JobTimeoutException wherever the horse is: in the try block it
\* goes to the except clause, there it escapes and _mark_failed rolls back.
Timeout(w) ==
  /\ worker[w].armed
  /\ Fault("timeout")
  /\ \/ /\ worker[w].pc \in TryBlock
        /\ worker' = [worker EXCEPT ![w].pc = "load_failed", ![w].armed = FALSE]
        /\ UNCHANGED lost
     \/ /\ worker[w].pc \in {"load_failed", "save_failed"}
        /\ Abandon(w)
  /\ UNCHANGED <<strategies, jobs, results, queue, api, page, shown>>

\* The horse is killed; RQ does not run the job again.
Kill(w) == /\ worker[w].pc # "idle"
           /\ Fault("kill")
           /\ Abandon(w)
           /\ UNCHANGED <<strategies, jobs, results, queue, api, page, shown>>

---------------------------------------------------------------------------
(* The page: useBacktestStatus and useBacktestResult.                      *)

\* One poll; polling stops at a terminal status.
Poll(r) == /\ jobs[r].status # "none"
           /\ page[r] \notin Terminal
           /\ page' = [page EXCEPT ![r] = jobs[r].status]
           /\ UNCHANGED <<strategies, jobs, results, queue, api, worker, lost, shown, faults>>

\* GET .../result, asked once the page has seen 'completed': 409 without a result row.
FetchResult(r) ==
  /\ page[r] = "completed"
  /\ shown[r] = "none"
  /\ shown' = [shown EXCEPT ![r] = IF r \in results THEN "ok" ELSE "refused"]
  /\ UNCHANGED <<strategies, jobs, results, queue, api, worker, lost, page, faults>>

---------------------------------------------------------------------------
HandlerStep(r) == \/ LoadStrategy(r) \/ UpsertStrategy(r) \/ InsertJob(r) \/ Enqueue(r)
                  \/ LoadEnqueueFailed(r) \/ SaveEnqueueFailed(r)

HandlerFault(r) == CreateAborts(r) \/ MarkEnqueueFailedAborts(r)

HorseStep(w) == \/ Dequeue(w) \/ LoadRunning(w) \/ SaveRunning(w) \/ Execute(w)
                \/ LoadCompleted(w) \/ SaveCompleted(w) \/ Return(w)
                \/ LoadFailed(w) \/ SaveFailed(w)

HorseFault(w) == WriteAborts(w) \/ MarkFailedAborts(w) \/ Timeout(w) \/ Kill(w)

PageStep(r) == Poll(r) \/ FetchResult(r)

\* Every request is answered, every message consumed and every page at rest.
Quiescent == /\ \A r \in Requests : /\ api[r].pc \in Ended
                                    /\ page[r] \in Terminal \union {jobs[r].status}
                                    /\ page[r] = "completed" => shown[r] # "none"
             /\ queue = <<>>
             /\ \A w \in Workers : worker[w].pc = "idle"
             /\ UNCHANGED vars

Next == \/ \E r \in Requests : \/ Reject(r) \/ Accept(r) \/ HandlerStep(r)
                               \/ HandlerFault(r) \/ PageStep(r)
        \/ \E w \in Workers : HorseStep(w) \/ HorseFault(w)
        \/ ApiCrash
        \/ Quiescent

Spec == Init /\ [][Next]_vars

\* The event loop runs every handler, RQ's loop runs every horse (compose restarts
\* both processes) and a page that is open keeps polling.  No fault is ever due.
Fairness == /\ \A r \in Requests : WF_vars(HandlerStep(r)) /\ WF_vars(PageStep(r))
            /\ \A w \in Workers : WF_vars(HorseStep(w))

FairSpec == Spec /\ Fairness

---------------------------------------------------------------------------
(* Properties.                                                             *)

Queued(r) == \E i \in 1..Len(queue) : queue[i] = r
Held(r)   == \E w \in Workers : worker[w].job = r

\* A job id in Redis or in a worker's hands names a committed row: the commit of
\* create_backtest_job comes before its enqueue, so _mark_running finds the job.
DeliveredHasRow == \A r \in Requests : Queued(r) \/ Held(r) => jobs[r].status # "none"

\* No job is forgotten silently: a row left 'queued' still has its handler, its
\* message or its horse, or the handler died or answered 500, or the horse was
\* lost; a row left 'running' has its horse, or the horse was lost.
NoSilentLoss ==
  \A r \in Requests :
    /\ jobs[r].status = "queued" =>
         \/ InFlight(r) \/ Queued(r) \/ Held(r)
         \/ api[r].pc \in {"crashed", "http_500"} \/ r \in lost
    /\ jobs[r].status = "running" => Held(r) \/ r \in lost

\* A page that was told 'completed' is never refused the result (409), whatever
\* happens between the poll and the fetch: _mark_completed commits both together.
ResultServed == \A r \in Requests : shown[r] # "refused"

\* A job that has ended starts running again only when it is 'failed' because its
\* own enqueue raised: nothing delivers a message twice or runs a completed job.
NoRerun ==
  [][\A r \in Requests :
       jobs[r].status \in Terminal /\ jobs[r].status' = "running" =>
         jobs[r].status = "failed" /\ api[r].pc \in {"http_500", "http_503"}]_jobs

\* What the code guarantees when no fault leaves a step half known (Faults without
\* reply_lost, commit_unknown and timeout): the API's promise, kept to the letter.
Promise == INSTANCE JobPromise WITH status <- [r \in Requests |-> jobs[r].status],
                                    hasResult <- results
PromiseKept == Promise!Spec

\* A page that has stopped polling shows the status the job has, for ever
\* (TERMINAL_STATUSES of frontend/src/api/backtests.ts).
PageIsRight == \A r \in Requests : page[r] \in Terminal => jobs[r].status = page[r]

\* A failed job has no result row (tests/test_worker_tasks.py asserts it).
FailedHasNoResult == \A r \in Requests : jobs[r].status = "failed" => r \notin results

\* A valid request is answered 500 only when something failed: the strategy row is
\* 'ensured' whoever else ensures it (ensure_strategy_record).
EnsureSucceeds == \A r \in Requests : api[r].pc = "http_500" => faults > 0

\* A job the API accepted with 202 ends, completed or failed, unless its horse is
\* lost: a raising strategy, a full queue or a failing transaction do not hang it.
AcceptedSettles ==
  \A r \in Requests : api[r].pc = "http_202" ~> jobs[r].status \in Terminal \/ r \in lost

\* Every POST is answered (or its process dies): two first requests of a strategy
\* wait for one another's INSERT but never both.
EveryRequestAnswered == \A r \in Requests : InFlight(r) ~> api[r].pc \in Ended

---------------------------------------------------------------------------
(* The inductive invariant the proofs rest on.                             *)

\* A job id is pushed once and popped once: before the push it is nowhere, and
\* then in one place at most.
NotYetPushed == {"idle", "rejected", "enqueue"} \union InTransaction

SingleCopy ==
  /\ \A r \in Requests : api[r].pc \in NotYetPushed => ~Queued(r) /\ ~Held(r)
  /\ \A r \in Requests : ~(Queued(r) /\ Held(r))
  /\ \A i, j \in 1..Len(queue) : queue[i] = queue[j] => i = j
  /\ \A v, w \in Workers : worker[v].job = worker[w].job /\ worker[v].job # NoJob => v = w

\* What the row of a job can be while its handler is at pc.
HandlerView(r) ==
  LET now == jobs[r].status
      old == api[r].loaded.status
  IN  /\ api[r].pc \in {"idle", "rejected"} \union InTransaction => now = "none"
      /\ api[r].pc = "enqueue" => now = "queued"
      /\ api[r].pc \in {"load_failed", "save_failed"} =>
           now # "none" /\ (now = "failed" => ~Queued(r) /\ ~Held(r))
      /\ api[r].pc = "save_failed" => old # "none" /\ (old = "failed" => now = "failed")
      /\ api[r].pc = "http_202" => now # "none"
      /\ api[r].pc = "http_503" => now \notin {"none", "queued"}
      /\ Queued(r) => now \in {"queued", "failed"}
      /\ Queued(r) /\ now = "failed" => api[r].pc \in {"http_500", "http_503"}

\* And while its horse is at pc: only the enqueue error of the handler writes beside it.
HorseView(w) ==
  LET r   == worker[w].job
      now == jobs[r].status
      old == worker[w].loaded.status
      pc  == worker[w].pc
  IN  /\ pc = "load_running" => now \in {"queued", "failed"}
      /\ pc = "save_running" => old \in {"queued", "failed"} /\ now \in {old, "failed"}
      /\ pc \in {"load_running", "save_running"} /\ now = "failed" =>
           api[r].pc \in {"http_500", "http_503"}
      /\ pc \in {"execute", "load_completed"} => now \in {"running", "failed"}
      /\ pc = "save_completed" => old \in {"running", "failed"} /\ now \in {old, "failed"}
      /\ pc = "return" => now \in {"completed", "failed"}
      /\ pc = "load_failed" => now # "none"
      /\ pc = "save_failed" => old # "none" /\ now \in {old, "failed"}

CompletedHasResult ==
  \A r \in Requests : jobs[r].status = "completed" \/ page[r] = "completed" => r \in results

\* Rows, messages, handlers and horses agree with one another at every step.
JobInv == /\ TypeOK
          /\ SingleCopy
          /\ \A r \in Requests : HandlerView(r)
          /\ \A w \in Workers : worker[w].pc # "idle" => HorseView(w)
          /\ CompletedHasResult
          /\ NoSilentLoss
          /\ ResultServed

---------------------------------------------------------------------------
(* What holds beside JobInv when no fault leaves a step half known.        *)

HalfKnown == {"reply_lost", "commit_unknown", "timeout"}

\* Handler and horse never write the same row: a handler whose enqueue failed has
\* pushed nothing, so its row is still 'queued'.
EnqueueErrorIsFinal ==
  \A r \in Requests :
    /\ api[r].pc \in {"load_failed", "save_failed", "http_500", "http_503"} =>
         ~Queued(r) /\ ~Held(r)
    /\ api[r].pc \in {"load_failed", "save_failed"} => jobs[r].status = "queued"
    /\ api[r].pc = "save_failed" => api[r].loaded.status = "queued"

\* A horse knows the status of its row exactly, and what it loaded is current.
HorseOwnsRow(w) ==
  LET now == jobs[worker[w].job].status
      old == worker[w].loaded.status
      pc  == worker[w].pc
  IN  /\ pc \in {"load_running", "save_running"} => now = "queued"
      /\ pc \in {"execute", "load_completed", "save_completed"} => now = "running"
      /\ pc = "return" => now = "completed"
      /\ pc \in {"load_failed", "save_failed"} => now \in {"queued", "running"}
      /\ pc \in {"save_running", "save_completed", "save_failed"} => old = now

\* Without half-known faults each row has one writer at a time.
OneWriter == /\ EnqueueErrorIsFinal
             /\ \A w \in Workers : worker[w].pc # "idle" => HorseOwnsRow(w)
=============================================================================
